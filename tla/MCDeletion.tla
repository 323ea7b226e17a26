------------------------------ MODULE MCDeletion ------------------------------
(***************************************************************************)
(* SegmentLibrary with an observer of what the user deletes: rows leave    *)
(* the table only by a deletion, on the list, on the detail screen or by   *)
(* the agent.                                                              *)
(***************************************************************************)
EXTENDS SegmentLibrary

VARIABLE userDeleted   \* segments the user deleted a row of

WatchDeletions == userDeleted' = userDeleted \cup {r.segment : r \in rows \ rows'}

DeletionSpec ==
  /\ Init /\ userDeleted = {}
  /\ [][Next /\ WatchDeletions]_<<vars, userDeleted>>

\* The dialog of the detail screen says that a deletion cannot be undone
\* (recording_detail_screen.dart:1275): a segment whose row the user deleted
\* gets no new row. _onDeleteConfirmed leaves the file, and scanOrphanRecordings
\* takes a file without a row for a segment it has missed.
DeletionIsFinal ==
  [][\A r \in rows' \ rows : r.segment \notin userDeleted]_<<vars, userDeleted>>

=============================================================================

---------------------------- MODULE Transcripts ----------------------------
(***************************************************************************)
(* What the transcription of recordings promises to those who ask for it:  *)
(* one automatic request runs at a time; a request writes, if at all, when *)
(* it ends, into the row it is about and only while the table has that     *)
(* row; a transcript is replaced and never taken away; and every request   *)
(* ends.                                                                   *)
(***************************************************************************)

CONSTANTS
  Rows,      \* rows of the table of recordings; each is inserted once
  Screens,   \* detail screens, which can ask for a row's transcription
  Voices     \* voice inputs of the chat

VARIABLES
  rows,   \* the transcript of each row
  busy,   \* the requests that run; the automatic one is named after its row
  shown   \* the row a detail screen shows

transcriptsVars == <<rows, busy, shown>>

Requests   == Rows \cup Screens \cup Voices
Spoken     == {"speech", "failure"}
Transcript == Spoken \cup {"absent", "deleted", "empty", "placeholder"}

Stored(r) == rows[r] \notin {"absent", "deleted"}

TranscriptsInit ==
  /\ rows = [r \in Rows |-> "absent"]
  /\ busy = {}
  /\ shown \in [Screens -> Rows]

Insert(r) ==
  /\ rows[r] = "absent"
  /\ rows' = [rows EXCEPT ![r] = "empty"]
  /\ \/ UNCHANGED busy
     \/ busy \cap Rows = {} /\ busy' = busy \cup {r}
  /\ UNCHANGED shown

Ask(q) ==
  /\ q \notin busy \cup Rows
  /\ busy' = busy \cup {q}
  /\ shown' \in [Screens -> Rows]
  /\ \A d \in Screens \ {q} : shown'[d] = shown[d]
  /\ UNCHANGED rows

\* What a request may leave in a row.
MayWrite(q, r, value) ==
  \/ q = r /\ value \in Spoken
  \/ q \in Screens /\ shown[q] = r /\ value \in Spoken \cup {"placeholder"}

End(q) ==
  /\ q \in busy
  /\ busy' = busy \ {q}
  /\ \/ UNCHANGED rows
     \/ \E r \in Rows, value \in Transcript :
          Stored(r) /\ MayWrite(q, r, value) /\ rows' = [rows EXCEPT ![r] = value]
  /\ UNCHANGED shown

Delete(r) ==
  /\ Stored(r)
  /\ rows' = [rows EXCEPT ![r] = "deleted"]
  /\ UNCHANGED <<busy, shown>>

\* The application goes, and with it every request.
Leave ==
  /\ busy' = {}
  /\ UNCHANGED <<rows, shown>>

TranscriptsNext ==
  \/ \E r \in Rows : Insert(r) \/ Delete(r)
  \/ \E q \in Requests : Ask(q) \/ End(q)
  \/ Leave

TranscriptsSafety == TranscriptsInit /\ [][TranscriptsNext]_transcriptsVars

TranscriptsSpec == TranscriptsSafety /\ \A q \in Requests : (q \in busy) ~> (q \notin busy)
=============================================================================

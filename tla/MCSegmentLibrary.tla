--------------------------- MODULE MCSegmentLibrary ---------------------------
(***************************************************************************)
(* SegmentLibrary on small instances. The scanners run the same code and   *)
(* are told apart only as the authors of rows.                             *)
(***************************************************************************)
EXTENDS SegmentLibrary, TLC

LibrarySymmetry == Permutations(Scanners)

=============================================================================

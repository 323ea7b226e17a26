------------------------------ MODULE KVCache ------------------------------
(***************************************************************************)
(* whisper_kv_cache of whisper.cpp: the cells in which the decoder keeps   *)
(* the keys and values of the tokens it has seen.  A cache is a record     *)
(*   cells  the cells in use, from their index: the token's position, the  *)
(*          sequences that share the cell, and what the cell was computed  *)
(*          from (history: the code keeps it as numbers in k and v)        *)
(*   size   how many cells there are                                       *)
(*   head   where the search for free cells starts                         *)
(*   n      how many cells, from the first, the graph looks at             *)
(***************************************************************************)
EXTENDS Integers, Sequences, FiniteSetsExt, Functions

NoCells == [c \in {} |-> {}]

NewCache(size) == [cells |-> NoCells, size |-> size, head |-> 0, n |-> 0]

ClearCache(kv) == [kv EXCEPT !.cells = NoCells, !.head = 0]

-----------------------------------------------------------------------------
(***************************************************************************)
(* whisper_kv_cache_find_slot: the first window of free cells from head    *)
(* on, else the first one at all.                                          *)
(***************************************************************************)

FreeWindows(kv, tokens) ==
  {s \in 0 .. kv.size - tokens : s .. s + tokens - 1 \cap DOMAIN kv.cells = {}}

HasSlot(kv, tokens) == FreeWindows(kv, tokens) # {}

SlotFor(kv, tokens) ==
  LET ahead == {s \in FreeWindows(kv, tokens) : s >= kv.head}
  IN  Min(IF ahead # {} THEN ahead ELSE FreeWindows(kv, tokens))

\* whisper_kv_cache_cell_max
CellMax(cells) == Max(DOMAIN cells \union {0}) + 1

\* The part of whisper_decode_internal that concerns the cache: batch is a sequence of
\* [pos, seq, from]; the graph then fills the cells and looks at the first n.
Decode(kv, batch) ==
  LET slot  == SlotFor(kv, Len(batch))
      used  == slot .. slot + Len(batch) - 1
      cells == [c \in DOMAIN kv.cells \union used |->
                  IF c \in used
                    THEN LET b == batch[c - slot + 1]
                         IN  [pos |-> b.pos, seqs |-> {b.seq}, from |-> b.from]
                    ELSE kv.cells[c]]
  IN  [kv EXCEPT !.cells = cells, !.head = slot, !.n = CellMax(cells)]

-----------------------------------------------------------------------------
(***************************************************************************)
(* whisper_kv_cache_seq_rm and whisper_kv_cache_seq_cp, for all positions. *)
(***************************************************************************)

SeqRemove(kv, seq) ==
  LET left  == [c \in DOMAIN kv.cells |-> kv.cells[c].seqs \ {seq}]
      freed == {c \in DOMAIN kv.cells : left[c] = {}}
  IN  [kv EXCEPT !.cells = [c \in DOMAIN kv.cells \ freed |-> [kv.cells[c] EXCEPT !.seqs = left[c]]],
                 !.head = IF freed # {} THEN Min(freed) ELSE @]

SeqCopy(kv, src, dst) ==
  [kv EXCEPT !.cells = [c \in DOMAIN kv.cells |->
                          IF src \in kv.cells[c].seqs
                            THEN [kv.cells[c] EXCEPT !.seqs = @ \union {dst}]
                            ELSE kv.cells[c]],
             !.head = 0]

-----------------------------------------------------------------------------
(***************************************************************************)
(* What a sequence sees of the cache: KQ_mask hides the cells that are not *)
(* its own and those beyond n.                                             *)
(***************************************************************************)
SeenBy(kv, seq) == {c \in DOMAIN kv.cells : c < kv.n /\ seq \in kv.cells[c].seqs}
=============================================================================

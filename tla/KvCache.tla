------------------------------ MODULE KvCache ------------------------------
(***************************************************************************)
(* The key-value caches of one attention layer (inference/kv_cache.py):    *)
(* _LayerKVStore, which keeps the last columns exactly and compresses the  *)
(* older ones, and the buffer of one layer of StaticKVCache.               *)
(*                                                                         *)
(* A column is the keys and values of one position, numbered in the order  *)
(* of their arrival, and exact or what dequantization makes of it.  An     *)
(* update that raises in the code has no successor: see the two ...Fails.  *)
(***************************************************************************)
EXTENDS Integers, SequencesExt

CONSTANTS Window,      \* residual_window
          MaxSeqLen,   \* max_seq_len, what is allocated at first
          Extra,       \* least growth of the compressed storage (128)
          BatchSize    \* batch_size a StaticKVCache is built for

ASSUME KvAssumption ==
  /\ Window \in Nat
  /\ {MaxSeqLen, Extra, BatchSize} \subseteq Nat \ {0}

Exact(pos)  == [pos |-> pos, exact |-> TRUE]
Quantized(c) == [c EXCEPT !.exact = FALSE]
Blank == [pos |-> 0, exact |-> FALSE]         \* a row that was never written

-----------------------------------------------------------------------------
(* _LayerKVStore *)

(* idx stands for the four preallocated tensors, batch for the shape they  *)
(* were allocated with (0: not yet), ptr for _comp_ptr, win and dec for    *)
(* the two pairs of tensors that are None when empty.                      *)
EmptyStore == [batch |-> 0, idx |-> << >>, ptr |-> 0, win |-> << >>, dec |-> << >>]

(* _lazy_alloc: with the shape of the first tensor ever seen.              *)
Allocated(s, batch) ==
  IF s.batch # 0 THEN s
  ELSE [s EXCEPT !.batch = batch, !.idx = [i \in 1..MaxSeqLen |-> Blank]]

Larger(m, n) == IF m >= n THEN m ELSE n

(* One turn of the loop of _compress_chunk: the storage grows when it is   *)
(* full, then the next row takes the column.                               *)
Compressed(s, column) ==
  LET more == [i \in 1..Larger(Extra, Len(s.idx) \div 2) |-> Blank]
      idx == IF s.ptr >= Len(s.idx) THEN s.idx \o more ELSE s.idx
  IN  [s EXCEPT !.idx = [idx EXCEPT ![s.ptr + 1] = Quantized(column)],
                !.ptr = @ + 1]

(* _compress_chunk: what was stored is decoded once and appended to dec.   *)
CompressChunk(s, chunk) ==
  LET d == FoldLeft(Compressed, s, chunk)
      rows == SubSeq(d.idx, d.ptr - Len(chunk) + 1, d.ptr)
  IN  [d EXCEPT !.dec = @ \o rows]

(* store_and_get: the window takes the new columns and gives the oldest    *)
(* ones away until it has its size.                                        *)
FaultyStored(s, batch, columns) ==
  LET win == s.win \o columns
      evict == Len(win) - Window
      a == Allocated(s, batch)
  IN  IF evict <= 0 THEN [a EXCEPT !.win = win]
      ELSE [CompressChunk(a, SubSeq(columns, 1, evict)) EXCEPT
              !.win = SubSeq(win, evict + 1, Len(win))]
Stored(s, batch, columns) ==
  LET win == s.win \o columns
      evict == Len(win) - Window
      a == Allocated(s, batch)
  IN  IF evict <= 0 THEN [a EXCEPT !.win = win]
      ELSE [CompressChunk(a, SubSeq(win, 1, evict)) EXCEPT
              !.win = SubSeq(win, evict + 1, Len(win))]

(* Rows of another batch size do not fit the storage of the first one, but *)
(* the window has let go of them when _compress_chunk raises.              *)
StoreFails(s, batch, columns) ==
  /\ Len(s.win) + Len(columns) > Window
  /\ batch # Allocated(s, batch).batch
StoreRaised(s, columns) ==
  LET win == s.win \o columns
  IN  [s EXCEPT !.win = SubSeq(win, Len(win) - Window + 1, Len(win))]

(* What store_and_get returns: the decoded history and the window.         *)
FullStore(s) == s.dec \o s.win

(* reset: the storage stays allocated, with the shape it has.              *)
FaultyResetStore(s) ==
  [s EXCEPT !.idx = [i \in DOMAIN @ |-> Blank], !.ptr = 0, !.win = << >>]
ResetStore(s) ==
  [s EXCEPT !.idx = [i \in DOMAIN @ |-> Blank], !.ptr = 0,
            !.win = << >>, !.dec = << >>]

-----------------------------------------------------------------------------
(* StaticKVCache *)

(* update writes behind seqLen, which only advance moves.                  *)
StaticWritten(keys, seqLen, columns) ==
  [i \in DOMAIN keys |-> IF i \in (seqLen + 1)..(seqLen + Len(columns))
                         THEN columns[i - seqLen] ELSE keys[i]]
StaticFails(seqLen, batch, columns) ==
  seqLen + Len(columns) > MaxSeqLen \/ batch \notin {1, BatchSize}
FullStatic(keys, seqLen, columns) == SubSeq(keys, 1, seqLen + Len(columns))

=============================================================================

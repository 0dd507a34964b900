---------------------------- MODULE MCMemoryStorage ----------------------------
(***************************************************************************)
(* MemoryStorage on small instances.                                       *)
(***************************************************************************)
EXTENDS MemoryStorage, TLC

CONSTANTS p1, p2, p3, k1, k2

(* Two buffers for three pieces, with trim off or on, and three.           *)
Two      == {0}
TwoThree == {-1, 0, 2}

Limit == -1

NoSets   == {}
Reserve1 == {{}, {p1}}
Reserve2 == {{}, {p1}, {p2, p3}}
Reader1  == {{p1}}

(* Where p1 is the piece that is reserved or read, p2 and p3 are alike, and *)
(* so are the blocks of a piece.                                           *)
Symmetry ==
  Permutations(DiskThreads) \cup Permutations({p2, p3}) \cup Permutations({k1, k2})

(* The two counters are only ever compared, so their difference is what     *)
(* matters, and each step but a resize changes it alike whatever the two    *)
(* are; where the pool is resized nothing is reserved, and buffer_limit is  *)
(* buffer_size.  So Limit is never reached.  reader_pieces is not used.     *)
Pointer == [t \in Threads |-> IF pc[t] \in {"copy", "remove", "reset"} THEN buf[t] ELSE NoBuffer]

View ==
  <<capacity, buffer_size, buffer_limit - buffer_used, pi, bi, reserved_pieces, size, data,
    recent, lockVars, is_reading, m_handle, wanted, pc, task, Pointer, n, fault>>

(* No step depends on the bytes; for the run whose properties do not ask    *)
(* for them either.                                                        *)
Control ==
  <<capacity, buffer_size, buffer_limit - buffer_used, pi, bi, reserved_pieces, size, recent,
    lockVars, is_reading, m_handle, wanted, pc, task, Pointer, n, fault>>
=============================================================================

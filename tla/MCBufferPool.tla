----------------------------- MODULE MCBufferPool -----------------------------
(***************************************************************************)
(* BufferPool on a small torrent.  Reserving, unreserving and evicting the *)
(* same piece again and again takes buffer_limit and buffer_used down      *)
(* without end; MinLimit stops that.                                       *)
(***************************************************************************)
EXTENDS BufferPool, TLC

(* The bound: buffer_limit does not go below it.                           *)
MinLimit == -3

(* Two, two, three and four buffers for four pieces of two bytes.          *)
SomeCapacities == {-1, 0, 3, 4}

Symmetry == Permutations(Pieces)

Bounded == buffer_limit' >= MinLimit

MCInit == PoolInit

MCNext ==
  \/ \E p \in Pieces : Allocate(p) /\ Bounded
  \/ \E b \in Buffers : Evict(b)
  \/ \E s \in Capacities : Grow(s)
  \/ \E S \in SUBSET Pieces : SetReserved(S)

MCSpec == MCInit /\ [][MCNext]_poolVars
=============================================================================

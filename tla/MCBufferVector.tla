---------------------------- MODULE MCBufferVector ----------------------------
(***************************************************************************)
(* BufferVector on a small torrent.                                        *)
(***************************************************************************)
EXTENDS BufferVector, TLC

CONSTANTS p1, p2, p3

(* One, two and three buffers for three pieces of two bytes.               *)
SomeCapacities == {-2, 0, 2}

Nobody == -3

Symmetry == Permutations(Setters) \cup Permutations({p2, p3})

(* The stamp of a free entry is never read before it is renewed.           *)
View == <<sizeVars, boundVars, scanVars, clock, late, asked, stale, restamped,
          [b \in Entries |-> IF pi[b] = NoPiece THEN 0 ELSE accessed[b]]>>
=============================================================================

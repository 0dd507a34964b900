------------------------------ MODULE PieceStore ------------------------------
(***************************************************************************)
(* What memory_storage (src/memory_storage.hpp) promises as a store of     *)
(* pieces, with no buffers, threads or locks in it: a piece is given room  *)
(* or not, a write adds to its own piece and takes from none, and what is  *)
(* lost is lost a whole piece at a time.                                   *)
(*                                                                         *)
(* MemoryStorage and PieceBytes look at the same memory from two sides.    *)
(* Each of them implements StoreSpec.                                      *)
(***************************************************************************)
EXTENDS Integers, FiniteSets

CONSTANTS
  Pieces,  \* the pieces of the torrent
  Blocks   \* what a piece consists of

VARIABLES
  bound,   \* the pieces that have room
  stored,  \* stored[p]: the blocks of p in memory
  room     \* how many pieces may have room

storeVars == <<bound, stored, room>>

StoreInit ==
  /\ bound = {}
  /\ stored = [p \in Pieces |-> {}]
  /\ room \in Nat

(* get_write_buffer gives p a buffer, and with it comes the first block of *)
(* the write at most: nothing an earlier piece, or p itself, left there.   *)
Bind(p) ==
  /\ p \notin bound /\ Cardinality(bound) < room
  /\ bound' = bound \cup {p}
  /\ \E K \in {{}} \cup {{k} : k \in Blocks} : stored' = [stored EXCEPT ![p] = K]
  /\ UNCHANGED room

(* writev.                                                                 *)
Write(p) ==
  /\ p \in bound
  /\ \E K \in SUBSET Blocks : stored' = [stored EXCEPT ![p] = @ \cup K]
  /\ UNCHANGED <<bound, room>>

(* remove_piece.                                                           *)
Drop(P) ==
  /\ bound' = bound \ P
  /\ stored' = [p \in Pieces |-> IF p \in P THEN {} ELSE stored[p]]
  /\ UNCHANGED room

(* set_memory_size.                                                        *)
Enlarge ==
  /\ room' \in Nat /\ room <= room'
  /\ UNCHANGED <<bound, stored>>

StoreNext ==
  \/ \E p \in Pieces : Bind(p) \/ Write(p)
  \/ \E P \in SUBSET bound : Drop(P)
  \/ Enlarge

StoreSpec == StoreInit /\ [][StoreNext]_storeVars
=============================================================================

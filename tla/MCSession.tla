------------------------------- MODULE MCSession -------------------------------
(***************************************************************************)
(* Session with two torrents, and two puts of the client's to one key.     *)
(***************************************************************************)
EXTENDS Session, TLC

Symmetry == Permutations(Torrents) \cup Permutations(Puts) \cup Permutations(Items)

(* Torrents and puts share no variable and no guard: what one half can do  *)
(* it can do while the other one is still as it was.                       *)
TorrentsUntouched ==
  /\ stage = [t \in Torrents |-> "none"] /\ ti = stage
  /\ own_info = Torrents /\ ~registered

PutsUntouched == data = [o \in Puts |-> NoItem] /\ bound = data /\ stored.seq = 0

Apart == TorrentsUntouched \/ PutsUntouched
=============================================================================

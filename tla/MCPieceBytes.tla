----------------------------- MODULE MCPieceBytes -----------------------------
(***************************************************************************)
(* PieceBytes with three bytes in a buffer of five, and offsets at and     *)
(* past the end of both.                                                   *)
(***************************************************************************)
EXTENDS PieceBytes

UpTo6 == 0 .. 6

(* Of two iovecs at most, one of which may be empty or go past the end.    *)
SomeVectors == {<<k>> : k \in {1, 3, 5}} \cup {<<1, 1>>, <<2, 3>>, <<0, 2>>, <<3, 1>>}
=============================================================================

----------------------------- MODULE MCEngineView -----------------------------
(***************************************************************************)
(* EngineView with two buffers.                                            *)
(***************************************************************************)
EXTENDS EngineView
=============================================================================

----------------------------- MODULE MCOutFile -----------------------------
(***************************************************************************)
(* Constants for checking OutFile: blocks of one and two bytes.            *)
(***************************************************************************)
EXTENDS OutFile

MCChunks == {<<0>>, <<1, 0>>}
=============================================================================

---------------------------- MODULE MCExecChunks ----------------------------
(***************************************************************************)
(* ExecChunks for four groups of one to three reads, on one permit, which  *)
(* reads serially, and on several.                                         *)
(***************************************************************************)
EXTENDS ExecChunks

RunsOfFour == <<1, 3, 2, 1>>
=============================================================================

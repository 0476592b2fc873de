------------------------------- MODULE MCExec -------------------------------
(***************************************************************************)
(* A command whose failure is answered with "t" twice: three calls.        *)
(***************************************************************************)
EXTENDS Exec

MCMaxCalls == 3
=============================================================================

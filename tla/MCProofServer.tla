---------------------------- MODULE MCProofServer ----------------------------
(***************************************************************************)
(* ProofServer for TLC: two jobs and a chain that crosses into a second    *)
(* committee period.                                                       *)
(***************************************************************************)
EXTENDS ProofServer
=============================================================================

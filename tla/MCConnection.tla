---------------------------- MODULE MCConnection ----------------------------
(***************************************************************************)
(* Two processes and a dry run against a database they find empty.         *)
(***************************************************************************)
EXTENDS Connection

CONSTANTS api, runner, rehearsal

MCWrites == 1..2

=============================================================================

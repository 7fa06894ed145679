----------------------------- MODULE MCHandover -----------------------------
(***************************************************************************)
(* Model-checking module of Handover.                                      *)
(***************************************************************************)
EXTENDS Handover

CONSTANTS h1, h2, thread

(* main was given a port with -p. *)
MCFirst == [addr |-> "a", port |-> 1]

(* The E2Term of main, another on the same host, at the default port that  *)
(* run() puts in place of 0, and a request without an address.             *)
MCEndpoint == {MCFirst, [addr |-> "a", port |-> 0], NoEndpoint}
=============================================================================

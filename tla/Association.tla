---------------------------- MODULE Association ----------------------------
(***************************************************************************)
(* What the experiment may rely on of the connections below it: how the    *)
(* link that an E2Sim offers to its callers changes.  E2Connection         *)
(* implements it with threads, sockets and descriptors; InsertLoop is      *)
(* written against it, so the two need not be explored together.           *)
(*                                                                         *)
(* A link is "up" when a send on it succeeds.  It need not lead to the     *)
(* E2Sim's own E2Term: a lost link may come back by accident, when a new   *)
(* association is given the descriptor number of the closed one, and it    *)
(* then shares the fate of that association.                               *)
(***************************************************************************)
EXTENDS Naturals

CONSTANT Sim    \* the E2Sim objects

VARIABLES
    link,       \* per E2Sim: one of Link
    alive       \* does the process run?

vars == <<link, alive>>

(* No run() yet; usable; lost; run() failed; destroyed by main.            *)
Link == {"none", "up", "down", "failed", "deleted"}

Init ==
    /\ link = [s \in Sim |-> "none"]
    /\ alive = TRUE

NothingDeleted == \A s \in Sim : link[s] # "deleted"

(* run() of s connects, and with it, maybe, lost links whose number it got. *)
Establish(s) ==
    /\ NothingDeleted
    /\ link[s] = "none"
    /\ \E back \in SUBSET {t \in Sim : link[t] = "down"} :
          link' = [t \in Sim |-> IF t = s \/ t \in back THEN "up" ELSE link[t]]

(* run() of s fails. *)
Fail(s) ==
    /\ NothingDeleted
    /\ link[s] = "none"
    /\ link' = [link EXCEPT ![s] = "failed"]

(* run() of s connects, but its number has been closed meanwhile.          *)
Miss(s) ==
    /\ NothingDeleted
    /\ link[s] = "none"
    /\ link' = [link EXCEPT ![s] = "down"]

(* An association ends, or its number is closed late by an E2Sim that had  *)
(* shared it, for every link that leads to it.                             *)
Lose ==
    \E lost \in SUBSET {t \in Sim : link[t] = "up"} :
        /\ lost # {}
        /\ link' = [t \in Sim |-> IF t \in lost THEN "down" ELSE link[t]]

(* main destroys s; the number it closes may be that of another link.      *)
Delete(s) ==
    /\ link[s] \in {"up", "down", "failed"}
    /\ \E lost \in SUBSET {t \in Sim : link[t] = "up"} :
          link' = [t \in Sim |-> IF t = s THEN "deleted"
                                 ELSE IF t \in lost THEN "down" ELSE link[t]]

Change ==
    /\ link' # link
    /\ Lose \/ \E s \in Sim : Establish(s) \/ Miss(s) \/ Fail(s) \/ Delete(s)
    /\ UNCHANGED alive

(* The process ends, however it ends; its links are not touched any more.  *)
Die ==
    /\ alive' = FALSE
    /\ UNCHANGED link

Next == alive /\ (Change \/ Die)

Spec == Init /\ [][Next]_vars
=============================================================================

-------------------------- MODULE MCRcSubscription --------------------------
(***************************************************************************)
(* Model-checking module of RcSubscription: one state per request, every   *)
(* request with at most MaxActions actions of every type, with distinct or *)
(* repeated identifiers, checked against a reference definition of what    *)
(* the callback's comments promise.                                        *)
(***************************************************************************)
EXTENDS RcSubscription, FiniteSets

CONSTANTS MaxActions,   \* bound on the actions of a request
          ActionIds     \* the action identifiers a request may use

ASSUME MaxActionsAssumption == MaxActions \in Nat /\ MaxActions <= maxofRICactionID

VARIABLES actions,      \* the actions of the request being built
          answered      \* has the callback been called with it?

Action == [id : ActionIds, type : RICactionType]

Init == actions = <<>> /\ answered = FALSE

AddAction ==
    /\ ~answered
    /\ Len(actions) < MaxActions
    /\ \E a \in Action : actions' = Append(actions, a)
    /\ UNCHANGED answered

Answer ==
    /\ ~answered
    /\ actions # <<>>
    /\ answered' = TRUE
    /\ UNCHANGED actions

Next == AddAction \/ Answer

Spec == Init /\ [][Next]_<<actions, answered>>
-----------------------------------------------------------------------------
(* The reference: index of the first action of type INSERT, 0 if none.     *)
FirstInsert ==
    LET inserts == {i \in DOMAIN actions : actions[i].type = "insert"}
    IN  IF inserts = {} THEN 0
                        ELSE CHOOSE i \in inserts : \A j \in inserts : i <= j

Ids(S) == [k \in 1..Cardinality(S) |->
              actions[CHOOSE i \in S : Cardinality({j \in S : j <= i}) = k].id]

(***************************************************************************)
(* The first action of type INSERT is the only one accepted and every      *)
(* other one is rejected, in the order of the request: what the scan of    *)
(* callback_rc_subscription_request computes item by item.                 *)
(***************************************************************************)
OnlyFirstInsertAccepted ==
    LET scan == Scan(actions)
        rest == DOMAIN actions \ {FirstInsert}
    IN  /\ scan.accept = IF FirstInsert = 0 THEN <<>>
                         ELSE <<actions[FirstInsert].id>>
        /\ scan.reject = Ids(rest)

(***************************************************************************)
(* Whenever a RIC-SUBSCRIPTION-RESPONSE leaves the simulator, it admits    *)
(* every action of the request and the identifier handed to the insert     *)
(* loop (reqActionId, the last one scanned) is an admitted one: the scan,  *)
(* the list building and the encoder together never let out a response     *)
(* that disagrees with what the loop will put in its indications.          *)
(***************************************************************************)
SentResponseMatchesLoop ==
    (answered /\ Outcome(actions) = "sent") =>
        LET ies      == SuccessIEs(Scan(actions))
            admitted == UNION {{ies[i].list[k] : k \in DOMAIN ies[i].list} :
                          i \in {j \in DOMAIN ies : ies[j].id = "RICactions_Admitted"}}
        IN  /\ admitted = {actions[i].id : i \in DOMAIN actions}
            /\ Scan(actions).reqActionId \in admitted

(***************************************************************************)
(* Comments of the callback: "We identify the first action whose type is   *)
(* INSERT.  That is the only one accepted; all others are rejected".  So a *)
(* request with an INSERT among other actions is answered, by a response   *)
(* that admits the one and rejects the others.                             *)
(***************************************************************************)
MixedRequestIsAnswered ==
    (answered /\ FirstInsert # 0 /\ Len(actions) > 1) => Outcome(actions) = "sent"

(***************************************************************************)
(* e2sim/README.md: "Callback functions are responsible for sending        *)
(* responses".  So a request without an INSERT action is answered too (the *)
(* callback prepares a failure whose cause is "action not supported").     *)
(***************************************************************************)
UnsupportedRequestIsAnswered ==
    (answered /\ FirstInsert = 0) => Outcome(actions) = "sent"

(***************************************************************************)
(* Comments of the callback: "Find first entry with INSERT action Type",   *)
(* "Record ricActionID".  So the recorded action identifier is the one of  *)
(* the first INSERT entry.                                                 *)
(***************************************************************************)
RecordedActionIsFirstInsert ==
    (answered /\ FirstInsert # 0) =>
        Scan(actions).reqActionId = actions[FirstInsert].id
=============================================================================

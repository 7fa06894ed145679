--------------------------- MODULE RcSubscription ---------------------------
(***************************************************************************)
(* How the E2SM-RC subscription callback answers one RIC-SUBSCRIPTION-     *)
(* REQUEST: the scan that accepts and rejects the actions of the request,  *)
(* the information elements of the response it builds, and what happens    *)
(* when that response is encoded and sent.                                 *)
(*                                                                         *)
(* An action of a request is a record [id, type]; a request is the         *)
(* sequence of its actions.  Everything here is a pure function of it.     *)
(*                                                                         *)
(* A request has one RICsubscriptionDetails IE, as E2AP defines it.  The   *)
(* loop over the IEs of a PDU does not count them: a second one would be   *)
(* scanned with a fresh foundAction and could accept a second INSERT.      *)
(***************************************************************************)
EXTENDS Naturals, SequencesExt

RICactionType == {"report", "insert", "policy"}

(* maxofRICactionID: the upper size bound of the three action lists. *)
maxofRICactionID == 16

(* reqActionId is not initialised before the scan; it is read only when at *)
(* least one action was accepted, hence after it was assigned.             *)
Unassigned == 0

(* Mutant: foundAction is never set, every INSERT is accepted. *)
ScanItemAcceptsAll(scan, item) ==
    LET accepts == item.type = "insert"
    IN  [accept      |-> IF accepts THEN Append(scan.accept, item.id)
                                    ELSE scan.accept,
         reject      |-> IF accepts THEN scan.reject
                                    ELSE Append(scan.reject, item.id),
         reqActionId |-> item.id]

(***************************************************************************)
(* One iteration of the scan.  foundAction is true exactly when an action  *)
(* was accepted already; reqActionId is assigned whatever the outcome.     *)
(***************************************************************************)
ScanItem(scan, item) ==
    LET accepts == scan.accept = <<>> /\ item.type = "insert"
    IN  [accept      |-> IF accepts THEN Append(scan.accept, item.id)
                                    ELSE scan.accept,
         reject      |-> IF accepts THEN scan.reject
                                    ELSE Append(scan.reject, item.id),
         reqActionId |-> item.id]

Scan(actions) ==
    FoldLeft(ScanItem,
             [accept |-> <<>>, reject |-> <<>>, reqActionId |-> Unassigned],
             actions)

(***************************************************************************)
(* The information elements of a RIC-SUBSCRIPTION-RESPONSE.  The function  *)
(* id is the constant 0.  With a rejected action, the (empty) list of      *)
(* rejected actions is first copied over the union that already holds the  *)
(* admitted ones; then the one IE of rejected actions is added once per    *)
(* rejected action, every copy sharing the complete list.                  *)
(***************************************************************************)
SuccessIEs(scan) ==
    LET notAdmitted == [id |-> "RICactions_NotAdmitted", list |-> scan.reject]
    IN  << [id |-> "RICrequestID"],
           [id |-> "RANfunctionID", value |-> 0],
           [id |-> "RICactions_Admitted",
            list |-> IF scan.reject = <<>> THEN scan.accept ELSE <<>>] >>
        \o [i \in 1..Len(scan.reject) |-> notAdmitted]

(* Mutant: the encoder lets out lists of any length. *)
EncodableAlways(ies) == TRUE

(* The PER encoder refuses a list whose length is outside its size bound.  *)
Encodable(ies) ==
    \A i \in DOMAIN ies :
        /\ ies[i].id = "RICactions_Admitted" =>
               Len(ies[i].list) \in 1..maxofRICactionID
        /\ ies[i].id = "RICactions_NotAdmitted" =>
               Len(ies[i].list) \in 0..maxofRICactionID

(* Building the failure message writes through the choice pointer of a     *)
(* zeroed PDU two statements before it is assigned: no failure message is  *)
(* ever produced, the process gets SIGSEGV.                                *)
FailureOutcome == "crashed"

(***************************************************************************)
(* What answering a request does to the process: "sent" when a response    *)
(* can leave, "exited" when the encoder failed (exit(1)), "crashed" when   *)
(* no action was accepted.                                                 *)
(***************************************************************************)
Outcome(actions) ==
    LET scan == Scan(actions)
    IN  IF scan.accept = <<>>
          THEN FailureOutcome
          ELSE IF Encodable(SuccessIEs(scan)) THEN "sent" ELSE "exited"
=============================================================================

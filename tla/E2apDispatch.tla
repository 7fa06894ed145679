---------------------------- MODULE E2apDispatch ----------------------------
(***************************************************************************)
(* The registry of an E2Sim and the routing of the messages it receives:   *)
(* register_* and get_*_callback (e2ap/src/base/e2sim.cpp), the handler    *)
(* e2ap_handle_sctp_data (e2ap/src/messagerouting), the extraction of the  *)
(* RAN function id (e2ap/src/encoding/encode_e2ap.cpp) and the order in    *)
(* which main and drive_e2term_handover register and connect              *)
(* (src/e2sim_rc.cpp).                                                     *)
(*                                                                         *)
(* Two threads share the registry: the application's, which fills it and   *)
(* connects, and may replace callbacks during a handover; and the          *)
(* listener's, which reads it for every message.  What a callback does is  *)
(* the matter of InsertLoop, what the connection does that of E2Connection.*)
(***************************************************************************)
EXTENDS Naturals, Sequences

CONSTANTS
    FunctionId,     \* the RAN function ids that messages may name
    MaxIds          \* bound on the RANfunctionID IEs of a message

ASSUME DispatchAssumption == FunctionId \subseteq Nat /\ MaxIds \in Nat

VARIABLES
    process,    \* "running" or "crashed"
    opType,     \* the environment's RAN_FUNCTION_OP_TYPE, or "unset"
    app,        \* how far the application is in Registration
    registered, \* keys of ran_functions_registered
    callbacks,  \* per kind of request: the function ids with a callback
    wait,       \* initial sleep of the insert loop the subscription callback starts
    announced,  \* functions an E2-SETUP-REQUEST has listed
    updated,    \* what a RIC-SERVICE-UPDATE did to a function: its IE and the id
    called,     \* history: the callbacks that were called
    dropped,    \* history: the requests that were only logged
    answered,   \* history: the kinds of message the routing itself sent
    loops       \* history: initial sleeps of the loops that subscriptions started

environment == <<process, opType>>
history == <<called, dropped, answered, loops>>
vars == <<environment, app, registered, callbacks, wait, announced, updated, history>>

RcFunctionZero == 0     \* mutant: another id than the library has built in

(* The RAN function id that the application registers everything under.    *)
RcFunction == 1

(* The kinds of request that have callbacks. *)
Kind == {"subscription", "subscriptionDelete", "control"}

RegistrationConnectsFirst ==    \* mutant: run() before the callbacks are there
    <<"e2sm", "run", "subscription", "subscriptionDelete", "control">>

(* The order in which main, and a handover to a new E2Term, prepare.       *)
Registration == <<"e2sm", "subscription", "subscriptionDelete", "control", "run">>

Connected == \E i \in 1..app : Registration[i] = "run"

(* Sleeps bound into the insert loop callback, in seconds. *)
MainWait == 2

HandoverWait == 0

(* The IEs the routing looks at: none, one or several RANfunctionIDs. *)
Ids == UNION {[1..n -> FunctionId] : n \in 0..MaxIds}

(* generate_e2ap_setup_response and, five seconds later,                   *)
(* generate_e2ap_subscription_request: what an E2-SETUP-REQUEST evokes.    *)
SetupAnswers == {"setupResponse", "subscriptionRequest"}

(* The messages that the routing itself may send. *)
Answerable == Kind \cup SetupAnswers \cup {"serviceUpdate"}

OpType == {"unset", "ADD", "DELETE", "other"}

(* The IEs of a RIC-SERVICE-UPDATE. *)
UpdateIE == {"RANfunctionsAdded", "RANfunctionsModified", "RANfunctionsDeleted"}

TypeOK ==
    /\ process \in {"running", "crashed"} /\ opType \in OpType
    /\ app \in 0..Len(Registration)
    /\ registered \subseteq {RcFunction}
    /\ callbacks \in [Kind -> SUBSET {RcFunction}]
    /\ wait \in {MainWait, HandoverWait}
    /\ announced \subseteq Nat /\ updated \subseteq [ie : UpdateIE, func : Nat]
    /\ called \subseteq [kind : Kind, func : Nat, read : SUBSET Nat]
    /\ dropped \subseteq [kind : Kind, func : Nat]
    /\ answered \subseteq Answerable
    /\ loops \subseteq {MainWait, HandoverWait}

(* The E2Sim is created by main or by a handover. *)
Init ==
    /\ process = "running" /\ opType \in OpType
    /\ app = 0
    /\ registered = {} /\ callbacks = [k \in Kind |-> {}]
    /\ wait \in {MainWait, HandoverWait}
    /\ announced = {} /\ updated = {}
    /\ called = {} /\ dropped = {} /\ answered = {} /\ loops = {}
-----------------------------------------------------------------------------
(***************************************************************************)
(* The application's thread.                                               *)
(***************************************************************************)

NextStepSkips == app + 2    \* mutant: every other step is left out

NextStep == app + 1

(* One more statement of the preparation; run() starts the listener.       *)
Prepare ==
    /\ app < Len(Registration)
    /\ app' = NextStep
    /\ LET step == Registration[app + 1] IN
          /\ registered' = IF step = "e2sm" THEN registered \cup {RcFunction} ELSE registered
          /\ callbacks' = IF step \in Kind
                            THEN [callbacks EXCEPT ![step] = @ \cup {RcFunction}]
                            ELSE callbacks
    /\ UNCHANGED <<environment, wait, announced, updated, history>>

(* A handover back to this E2Sim replaces its callbacks: they are bound to *)
(* the same objects, but the insert loop starts without a sleep.           *)
Rebind ==
    /\ Connected
    /\ wait' = HandoverWait
    /\ UNCHANGED <<environment, app, registered, callbacks, announced, updated, history>>

(* The helper thread lists every registered function.                      *)
SetupRequest ==
    /\ Connected
    /\ announced' = announced \cup registered
    /\ UNCHANGED <<environment, app, registered, callbacks, wait, updated, history>>
-----------------------------------------------------------------------------
(***************************************************************************)
(* The listener's thread.                                                  *)
(***************************************************************************)

FunctionOfFirst(kind, ids) ==       \* mutant: the first id in every message
    IF ids = <<>> THEN 0 ELSE ids[1]

(* get_function_id_from_*: the last RANfunctionID of a subscription or of  *)
(* a delete, the first of a control request, and 0 when there is none.     *)
FunctionOf(kind, ids) ==
    IF ids = <<>> THEN 0
    ELSE IF kind = "control" THEN ids[1] ELSE ids[Len(ids)]

(* reqFunctionId in the subscription and delete callbacks: the last one,   *)
(* or no value at all.                                                     *)
ReadByCallback(ids) == IF ids = <<>> THEN {} ELSE {ids[Len(ids)]}

(* get_*_callback: the map's at() throws for a function that is not there. *)
HasCallback(kind, func) == func \in callbacks[kind]

(* A request for callbacks: an initiating message of one of the three      *)
(* procedures.  Without a callback for its function it is logged.          *)
HandleRequest(kind, ids) ==
    LET func == FunctionOf(kind, ids)
    IN  /\ Connected
        /\ IF HasCallback(kind, func)
             THEN /\ called' = called \cup
                        {[kind |-> kind, func |-> func, read |-> ReadByCallback(ids)]}
                  /\ loops' = IF kind = "subscription" THEN loops \cup {wait} ELSE loops
                  /\ UNCHANGED dropped
             ELSE /\ dropped' = dropped \cup {[kind |-> kind, func |-> func]}
                  /\ UNCHANGED <<called, loops>>
        /\ UNCHANGED <<environment, app, registered, callbacks, wait, announced, updated,
                       answered>>

(* What prID may be: strcmp() is not compared with 0, so of all the values *)
(* it is "DELETE" that leaves it without a value, and others delete.       *)
ServiceIEs ==
    CASE opType = "unset"  -> {"RANfunctionsModified"}
      [] opType = "ADD"    -> {"RANfunctionsAdded"}
      [] opType = "DELETE" -> UpdateIE
      [] opType = "other"  -> {"RANfunctionsDeleted"}

(* prID may also be the id of no IE that an update has: it cannot be       *)
(* encoded, and what was not is copied with a length of -1.                *)
MayFailToEncode == UpdateIE \subseteq ServiceIEs

(* generate_e2ap_service_update: one item per registered function, and the *)
(* id in every item is the constant 1.                                     *)
ServiceItems(ie) == {[ie |-> ie, func |-> 1] : f \in registered}

(* A RIC-SERVICE-QUERY is answered by a RIC-SERVICE-UPDATE.                *)
ServiceQuery ==
    /\ Connected
    /\ \/ /\ \E ie \in ServiceIEs : updated' = updated \cup ServiceItems(ie)
          /\ answered' = answered \cup {"serviceUpdate"}
          /\ UNCHANGED process
       \/ /\ MayFailToEncode
          /\ process' = "crashed"
          /\ UNCHANGED <<updated, answered>>
    /\ UNCHANGED <<opType, app, registered, callbacks, wait, announced, called, dropped, loops>>

(* An E2-SETUP-REQUEST is handled as if this were an E2Term. *)
SetupReceived ==
    /\ Connected
    /\ answered' = answered \cup SetupAnswers
    /\ UNCHANGED <<environment, app, registered, callbacks, wait, announced, updated, called,
                   dropped, loops>>

Next ==
    /\ process = "running"
    /\ \/ Prepare \/ Rebind \/ SetupRequest
       \/ \E kind \in Kind, ids \in Ids : HandleRequest(kind, ids)
       \/ ServiceQuery \/ SetupReceived

Spec == Init /\ [][Next]_vars
-----------------------------------------------------------------------------
(***************************************************************************)
(* Safety.                                                                 *)
(***************************************************************************)

(* No request for a function the RIC was told about is ever dropped: the   *)
(* callbacks of a function are there before the function is announced.     *)
AnnouncedIsServed == \A d \in dropped : d.func \notin announced

(* The two readers of a request agree: the routing looks a subscription or *)
(* a delete up under the very function id that the callback reads, so no   *)
(* callback runs with its reqFunctionId uninitialised or another one's.    *)
CalledForItsFunction ==
    \A c \in called : c.kind # "control" => c.read = {c.func}

(* A RIC-SERVICE-UPDATE, whose function id is built into the library, only *)
(* modifies functions that the application has registered.                 *)
UpdatesAreRegistered == \A u \in updated : u.func \in registered

(***************************************************************************)
(* The inductive invariant: what each step of Registration has left        *)
(* behind, and that nothing is received before the last of them.           *)
(***************************************************************************)
Prepared ==
    /\ app >= 1 => registered = {RcFunction}
    /\ app >= 2 => callbacks["subscription"] = {RcFunction}
    /\ app >= 3 => callbacks["subscriptionDelete"] = {RcFunction}
    /\ app >= 4 => callbacks["control"] = {RcFunction}
    /\ app < 5 => announced = {} /\ updated = {} /\ dropped = {} /\ called = {}

(* Only the registered function has callbacks, so only others are dropped. *)
Routed ==
    /\ announced \subseteq {RcFunction}
    /\ \A d \in dropped : d.func # RcFunction
    /\ CalledForItsFunction

Inv == TypeOK /\ Prepared /\ Routed /\ UpdatesAreRegistered
-----------------------------------------------------------------------------
(***************************************************************************)
(* What documentation and comments promise and the code does not keep.     *)
(***************************************************************************)

(* "If no callback is provided, we return an error response". *)
MissingCallbackIsAnswered == \A d \in dropped : d.kind \in answered

(* "We have to wait for the subscription response to reach the xapp before *)
(* sending messages": the loop of a subscription starts with a sleep.      *)
SubscriptionLoopsWait == \A w \in loops : w > 0

(* The value "DELETE" is tested for to delete functions.                   *)
DeleteDeletes ==
    opType = "DELETE" =>
        process = "running" /\ \A u \in updated : u.ie = "RANfunctionsDeleted"
=============================================================================

------------------------- MODULE E2apDispatchProofs -------------------------
(***************************************************************************)
(* Theorems about E2apDispatch: Inv is inductive, for any function ids and *)
(* messages with any number of them, and with it every safety property.    *)
(***************************************************************************)
EXTENDS E2apDispatch, SequenceTheorems, TLAPS

(* run() is the last of the five statements of Registration.               *)
LEMMA RunIsLast == TypeOK => (Connected <=> app = 5)
BY DEF TypeOK, Connected, Registration

(* A message with RANfunctionIDs has a last one, which is a number.        *)
LEMMA LastId ==
    ASSUME NEW ids \in Ids, ids # <<>>
    PROVE  ids[Len(ids)] \in Nat /\ ids[1] \in Nat
<1>1. PICK n \in 0..MaxIds : ids \in [1..n -> FunctionId]
  BY DEF Ids
<1>2. n \in Nat /\ FunctionId \subseteq Nat
  BY DispatchAssumption
<1>3. ids \in Seq(Nat) /\ Len(ids) = n
  <2>1. ids \in [1..n -> Nat]
    BY <1>1, <1>2
  <2>2. ids \in Seq(Nat)
    BY <1>2, <2>1
  <2>3. DOMAIN ids = 1..n /\ DOMAIN ids = 1..Len(ids) /\ Len(ids) \in Nat
    BY <2>1, <2>2, LenProperties
  <2> QED BY <1>2, <2>2, <2>3
<1>4. n # 0
  BY <1>3
<1> QED BY <1>1, <1>2, <1>3, <1>4

(* What the routing extracts is a number, and when it is not 0 it is the   *)
(* one that a subscription or delete callback reads.                       *)
LEMMA FunctionOfIsRead ==
    ASSUME NEW ids \in Ids, NEW kind \in Kind
    PROVE  /\ FunctionOf(kind, ids) \in Nat
           /\ ReadByCallback(ids) \subseteq Nat
           /\ FunctionOf(kind, ids) # 0 /\ kind # "control" =>
                  ReadByCallback(ids) = {FunctionOf(kind, ids)}
BY LastId DEF FunctionOf, ReadByCallback

LEMMA InitInv == Init => Inv
BY DEF Init, Inv, TypeOK, Prepared, Routed, CalledForItsFunction,
       UpdatesAreRegistered, Registration, MainWait, HandoverWait, Kind

(* One more statement of the preparation.                                  *)
LEMMA PrepareInv == Inv /\ Prepare => Inv'
<1> SUFFICES ASSUME Inv, Prepare PROVE Inv'
  OBVIOUS
<1> USE DEF Inv
<1>1. app \in 0..4 /\ app' = app + 1 /\ app' \in 0..5
  BY DEF TypeOK, Prepare, NextStep, Registration
<1>2. callbacks \in [Kind -> SUBSET {RcFunction}] /\ registered \subseteq {RcFunction}
  BY DEF TypeOK
<1>3. TypeOK'
  <2>1. registered' \subseteq {RcFunction}
    BY <1>2 DEF Prepare
  <2>2. callbacks' \in [Kind -> SUBSET {RcFunction}]
    BY <1>2 DEF Prepare
  <2> QED BY <1>1, <2>1, <2>2 DEF TypeOK, Prepare, Registration, history, environment
<1>4. Prepared'
  <2>1. CASE app = 0
    BY <2>1, <1>1, <1>2 DEF Prepared, Prepare, Registration, history
  <2>2. CASE app = 1
    BY <2>2, <1>1, <1>2 DEF Prepared, Prepare, Registration, history, Kind
  <2>3. CASE app = 2
    BY <2>3, <1>1, <1>2 DEF Prepared, Prepare, Registration, history, Kind
  <2>4. CASE app = 3
    BY <2>4, <1>1, <1>2 DEF Prepared, Prepare, Registration, history, Kind
  <2>5. CASE app = 4
    BY <2>5, <1>1, <1>2 DEF Prepared, Prepare, Registration, history, Kind
  <2> QED BY <1>1, <2>1, <2>2, <2>3, <2>4, <2>5
<1>5. Routed' /\ UpdatesAreRegistered'
  BY DEF Routed, CalledForItsFunction, UpdatesAreRegistered,
         Prepare, history, environment
<1> QED BY <1>3, <1>4, <1>5

(* A request: what is called was looked up among callbacks for RcFunction  *)
(* only, and RcFunction is not 0, so the message named it.                 *)
LEMMA HandleRequestInv ==
    ASSUME NEW kind \in Kind, NEW ids \in Ids, Inv, HandleRequest(kind, ids)
    PROVE  Inv'
<1> USE DEF Inv
<1> DEFINE func == FunctionOf(kind, ids)
<1>1. app = 5 /\ registered = {RcFunction} /\ callbacks[kind] = {RcFunction}
  BY RunIsLast DEF HandleRequest, Prepared, Kind, TypeOK
<1>2. /\ func \in Nat
      /\ ReadByCallback(ids) \subseteq Nat
      /\ func # 0 /\ kind # "control" => ReadByCallback(ids) = {func}
  BY FunctionOfIsRead
<1>3. /\ UNCHANGED <<process, opType, app, registered, callbacks, wait, announced>>
      /\ UNCHANGED <<updated, answered>>
  BY DEF HandleRequest, environment
<1>4. CASE HasCallback(kind, func)
  <2>1. /\ called' = called \cup
                {[kind |-> kind, func |-> func, read |-> ReadByCallback(ids)]}
        /\ loops' \subseteq loops \cup {wait}
        /\ dropped' = dropped
    BY <1>4 DEF HandleRequest
  <2>2. func = 1
    BY <1>1, <1>4 DEF RcFunction, HasCallback
  <2>3. TypeOK'
    BY <1>2, <1>3, <2>1 DEF TypeOK
  <2>4. Routed'
    BY <1>2, <1>3, <2>1, <2>2 DEF Routed, CalledForItsFunction
  <2> QED BY <1>1, <1>3, <2>1, <2>3, <2>4 DEF Prepared, UpdatesAreRegistered
<1>5. CASE ~HasCallback(kind, func)
  <2>1. /\ dropped' = dropped \cup {[kind |-> kind, func |-> func]}
        /\ UNCHANGED <<called, loops>>
    BY <1>5 DEF HandleRequest
  <2>2. TypeOK'
    BY <1>2, <1>3, <2>1 DEF TypeOK
  <2>3. Routed'
    BY <1>1, <1>3, <1>5, <2>1 DEF Routed, CalledForItsFunction, HasCallback
  <2> QED BY <1>1, <1>3, <2>1, <2>2, <2>3 DEF Prepared, UpdatesAreRegistered
<1> QED BY <1>4, <1>5

(* Every item of an update names function 1, which is registered by then;  *)
(* an update that the encoder refuses ends the process and sends nothing.  *)
LEMMA ServiceQueryInv ==
    ASSUME Inv, ServiceQuery
    PROVE  Inv'
<1> USE DEF Inv
<1>1. /\ UNCHANGED <<opType, app, registered, callbacks, wait, announced>>
      /\ UNCHANGED <<called, dropped, loops>>
      /\ app = 5 /\ registered = {RcFunction}
  BY RunIsLast DEF ServiceQuery, Prepared
<1>2. ASSUME NEW ie \in ServiceIEs, updated' = updated \cup ServiceItems(ie),
             answered' = answered \cup {"serviceUpdate"}, UNCHANGED process
      PROVE  Inv'
  <2>1. ie \in UpdateIE
    BY <1>2 DEF ServiceIEs, UpdateIE, TypeOK, OpType
  <2>2. ServiceItems(ie) = {[ie |-> ie, func |-> 1]}
    BY <1>1 DEF ServiceItems
  <2>3. TypeOK'
    BY <1>1, <1>2, <2>1, <2>2 DEF TypeOK, Answerable
  <2>4. UpdatesAreRegistered'
    BY <1>1, <1>2, <2>2 DEF UpdatesAreRegistered, RcFunction
  <2> QED BY <1>1, <2>3, <2>4 DEF Prepared, Routed, CalledForItsFunction
<1>3. ASSUME MayFailToEncode, process' = "crashed", UNCHANGED <<updated, answered>>
      PROVE  Inv'
  <2>1. TypeOK'
    BY <1>1, <1>3 DEF TypeOK
  <2> QED BY <1>1, <1>3, <2>1 DEF Prepared, Routed, CalledForItsFunction,
             UpdatesAreRegistered
<1> QED BY <1>2, <1>3 DEF ServiceQuery

LEMMA NextInv == Inv /\ [Next]_vars => Inv'
<1> SUFFICES ASSUME Inv, [Next]_vars PROVE Inv'
  OBVIOUS
<1>1. CASE Prepare
  BY <1>1, PrepareInv
<1>2. CASE Rebind
  BY <1>2 DEF Rebind, Inv, TypeOK, Prepared, Routed, CalledForItsFunction,
              UpdatesAreRegistered, history, environment
<1>3. CASE SetupRequest
  <2>1. app = 5 /\ registered = {RcFunction}
    BY <1>3, RunIsLast DEF SetupRequest, Inv, Prepared
  <2> QED BY <1>3, <2>1 DEF SetupRequest, Inv, TypeOK, Prepared, Routed,
              CalledForItsFunction, UpdatesAreRegistered,
              history, environment, RcFunction
<1>4. CASE \E kind \in Kind, ids \in Ids : HandleRequest(kind, ids)
  BY <1>4, HandleRequestInv
<1>5. CASE ServiceQuery
  BY <1>5, ServiceQueryInv
<1>6. CASE SetupReceived
  BY <1>6 DEF SetupReceived, Inv, TypeOK, Prepared, Routed, CalledForItsFunction,
              UpdatesAreRegistered, environment, Answerable, SetupAnswers
<1>7. CASE UNCHANGED vars
  BY <1>7 DEF vars, history, environment, Inv, TypeOK, Prepared, Routed,
              CalledForItsFunction, UpdatesAreRegistered
<1> QED BY <1>1, <1>2, <1>3, <1>4, <1>5, <1>6, <1>7 DEF Next

THEOREM InvHolds == Spec => []Inv
<1>1. Init => Inv
  BY InitInv
<1>2. Inv /\ [Next]_vars => Inv'
  BY NextInv
<1> QED BY <1>1, <1>2, PTL DEF Spec

(* Every variable keeps its type.                                          *)
THEOREM TypeCorrect == Spec => []TypeOK
<1>1. Inv => TypeOK
  BY DEF Inv
<1> QED BY <1>1, InvHolds, PTL

(* No request for an announced function is dropped: everything announced   *)
(* is RcFunction, whose callbacks were all there when run() was called.    *)
THEOREM AnnouncedServed == Spec => []AnnouncedIsServed
<1>1. Inv => AnnouncedIsServed
  BY DEF Inv, Routed, AnnouncedIsServed
<1> QED BY <1>1, InvHolds, PTL

(* Routing and callback agree on the function of every request for which   *)
(* a callback runs.                                                        *)
THEOREM CalledRight == Spec => []CalledForItsFunction
<1>1. Inv => CalledForItsFunction
  BY DEF Inv, Routed
<1> QED BY <1>1, InvHolds, PTL

(* A service update only names registered functions.                       *)
THEOREM UpdatesRegistered == Spec => []UpdatesAreRegistered
<1>1. Inv => UpdatesAreRegistered
  BY DEF Inv
<1> QED BY <1>1, InvHolds, PTL
=============================================================================

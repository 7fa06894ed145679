-------------------------- MODULE InsertLoopProofs --------------------------
(***************************************************************************)
(* Theorems about InsertLoop, for any number of loop threads, connections, *)
(* HTTP handlers and requests, and any quota.                              *)
(***************************************************************************)
EXTENDS InsertLoop, FiniteSetTheorems, SequenceTheorems, TLAPS

USE SimAssumption, NumberAssumption

(* What the connections below may do to the links is of their type.        *)
LEMMA LinkType ==
    ASSUME TypeOK
    PROVE  /\ \A s \in Sim : Links!Establish(s) \/ Links!Miss(s) \/ Links!Fail(s)
                       \/ Links!Delete(s)
                                 => conn' \in [Sim -> Links!Link]
           /\ Links!Lose => conn' \in [Sim -> Links!Link]
  BY DEF TypeOK, Links!Link, Links!Establish, Links!Miss, Links!Fail, Links!Delete,
         Links!Lose

LEMMA TypeStep == TypeOK /\ [Next]_vars => TypeOK'
<1> SUFFICES ASSUME TypeOK, [Next]_vars
             PROVE  TypeOK'
  OBVIOUS
<1> USE DEF TypeOK, external, counters, samples, histories
<1>1. ASSUME NEW how \in {"exited", "crashed"}, Stop(how)
      PROVE  TypeOK'
  BY <1>1 DEF Stop
<1>2. ASSUME NEW l \in Loop, AcquireLock(l)
      PROVE  TypeOK'
  BY <1>2 DEF AcquireLock, LoopPoint, Inside
<1>3. ASSUME NEW l \in Loop, EnterIteration(l)
      PROVE  TypeOK'
  BY <1>1, <1>3 DEF EnterIteration, LoopPoint, Inside
<1>4. ASSUME NEW l \in Loop, SendInsert(l)
      PROVE  TypeOK'
  <2>1. CASE conn[args[l].sim] = "up"
    <3> DEFINE insert == [cpid |-> cpid, seq |-> seqNum, loop |-> l,
                          sub |-> args[l].sub]
    <3>1. insert \in Insert
      BY DEF Insert
    <3>0. wire' = Append(wire, insert)
      BY <1>4, <2>1 DEF SendInsert, Indication
    <3>2. wire' \in Seq(Insert)
      BY <3>1, <3>0
    <3>3. pc' \in [Loop -> LoopPoint]
      BY <1>4, <2>1 DEF SendInsert, LoopPoint, Inside
    <3>4. overrun' \in Nat
      BY <1>4, <2>1 DEF SendInsert, Indication
    <3>5. QED
      BY <1>4, <2>1, <3>2, <3>3, <3>4 DEF SendInsert, Indication
  <2>2. CASE conn[args[l].sim] # "up"
    BY <1>4, <2>2, <1>1 DEF SendInsert, Indication
  <2>3. QED
    BY <2>1, <2>2
<1>5. ASSUME NEW l \in Loop, RecordInsert(l)
      PROVE  TypeOK'
  <2>1. NextSeqNum \in 0..SeqSpace-1
    BY DEF NextSeqNum
  <2>2. QED
    BY <1>5, <2>1 DEF RecordInsert, RecordedKey, NextCpid, LoopPoint, Inside
<1>6. ASSUME NEW l \in Loop, LeaveLoop(l)
      PROVE  TypeOK'
  BY <1>6 DEF LeaveLoop, LoopPoint, Inside, Unlocked
<1>7. ASSUME NEW l \in Loop, OpenReport(l)
      PROVE  TypeOK'
  BY <1>7 DEF OpenReport, LoopPoint, Inside, Unlocked
<1>8. ASSUME NEW l \in Loop, ReportLine(l)
      PROVE  TypeOK'
  <2>1. CASE line' = line + 1 /\ UNCHANGED <<process, external, pc, args, lock, ok2run,
                                              counters, samples, histories>>
    BY <2>1
  <2>2. CASE Stop("crashed")
    BY <2>2, <1>1
  <2>3. QED
    BY <1>8, <2>1, <2>2 DEF ReportLine
<1>9. ASSUME NEW l \in Loop, CloseReport(l)
      PROVE  TypeOK'
  BY <1>9 DEF CloseReport, LoopPoint, Unlocked
<1>23. ASSUME NEW l \in Loop, EndReport(l)
      PROVE  TypeOK'
  BY <1>23 DEF EndReport, LoopPoint, Inside
<1>10. ASSUME NEW s \in Sim, NEW r \in Request, SubscriptionRequest(s, r)
       PROVE  TypeOK'
  <2>1. CASE Outcome(r.actions) = "sent" /\ conn[s] = "up"
    <3>1. [at |-> "admitted", req |-> r.id, action |-> Scan(r.actions).reqActionId]
              \in ListenerPoint
      BY DEF ListenerPoint, RequestId, ActionId
    <3>2. QED
      BY <1>10, <2>1, <3>1 DEF SubscriptionRequest
  <2>2. CASE ~(Outcome(r.actions) = "sent" /\ conn[s] = "up")
    BY <1>10, <2>2, <1>1 DEF SubscriptionRequest
  <2>3. QED
    BY <2>1, <2>2
<1>11. ASSUME NEW s \in Sim, SpawnSubscribed(s)
       PROVE  TypeOK'
  <2> DEFINE sub == [req |-> listener[s].req, action |-> listener[s].action]
  <2>1. sub \in Subscription
    BY <1>11 DEF SpawnSubscribed, ListenerPoint, Subscription, Idle
  <2>2. PICK l \in Loop : Spawn(l, s, sub)
    BY <1>11 DEF SpawnSubscribed
  <2>3. args' \in [Loop -> [sim : Sim, sub : Subscription]]
    BY <2>1, <2>2 DEF Spawn
  <2>4. pc' \in [Loop -> LoopPoint]
    BY <2>2 DEF Spawn, LoopPoint
  <2>5. listener' \in [Sim -> ListenerPoint] /\ current' \in Subscription
    BY <1>11, <2>1 DEF SpawnSubscribed, ListenerPoint
  <2>6. QED
    BY <1>11, <2>3, <2>4, <2>5 DEF SpawnSubscribed
<1>12. ASSUME NEW s \in Sim, NEW r \in Request, DeleteRequest(s, r)
       PROVE  TypeOK'
  BY <1>12 DEF DeleteRequest, ListenerPoint, RequestId
<1>13. ASSUME NEW s \in Sim, DeleteResponse(s)
       PROVE  TypeOK'
  BY <1>13, <1>1 DEF DeleteResponse, ListenerPoint
<1>14. ASSUME NEW s \in Sim, NEW c \in Seen, ControlRequest(s, c)
       PROVE  TypeOK'
  <2>1. c \in Nat
    <3>1. PICK i \in DOMAIN wire : c = wire[i].cpid
      BY DEF Seen
    <3>2. wire[i] \in Insert
      BY <3>1
    <3>3. QED
      BY <3>1, <3>2 DEF Insert
  <2>2. [at |-> "emplacing", cpid |-> c] \in ListenerPoint
    BY <2>1 DEF ListenerPoint
  <2>3. QED
    BY <1>14, <1>1, <2>1, <2>2 DEF ControlRequest
<1>15. ASSUME NEW s \in Sim, StoreSample(s)
       PROVE  TypeOK'
  <2>1. listener[s].cpid \in Nat
    BY <1>15 DEF StoreSample, Emplacing, ListenerPoint, Idle
  <2>2. CASE Stop("crashed")
    BY <1>1, <2>2
  <2>3. CASE ~Stop("crashed")
    <3>1. size' \in Nat /\ recv' \subseteq Nat
      <4>1. size' \in {size, size + 1} /\ recv' \in {recv, recv \cup {listener[s].cpid}}
        BY <1>15, <2>3 DEF StoreSample
      <4>2. size \in Nat /\ recv \subseteq Nat
        OBVIOUS
      <4>3. QED
        BY <2>1, <4>1, <4>2
    <3>2. torn' \in BOOLEAN /\ listener' \in [Sim -> ListenerPoint]
      BY <1>15, <2>3 DEF StoreSample, Racing, ListenerPoint
    <3>3. QED
      BY <1>15, <2>3, <3>1, <3>2 DEF StoreSample
  <2>4. QED
    BY <2>2, <2>3
<1>16. CASE ConnectionChanges
  <2>1. conn' \in [Sim -> Links!Link]
    BY <1>16, LinkType, SimAssumption DEF ConnectionChanges
  <2>2. QED
    BY <1>16, <2>1 DEF ConnectionChanges
<1>17. ASSUME NEW h \in Handler, NEW s \in Sim, HandoverConnect(h, s)
       PROVE  TypeOK'
  <2>1. CASE Stop("crashed")
    BY <1>1, <2>1
  <2>2. CASE ~Stop("crashed")
    <3>1. conn' \in [Sim -> Links!Link]
      BY <1>17, <2>2, LinkType DEF HandoverConnect
    <3>2. handover' \in [Handler -> HandoverPoint]
      BY <1>17, <2>2 DEF HandoverConnect, HandoverPoint
    <3>3. QED
      BY <1>17, <2>2, <3>1, <3>2 DEF HandoverConnect
  <2>3. QED
    BY <2>1, <2>2
<1>18. ASSUME NEW h \in Handler, HandoverSpawn(h)
       PROVE  TypeOK'
  <2>1. PICK l \in Loop, sub \in ReadSubscription :
           /\ Spawn(l, handover[h].sim, sub)
           /\ handover' = [handover EXCEPT ![h] = [at |-> "spawned", loop |-> l]]
    BY <1>18 DEF HandoverSpawn
  <2>2. sub \in Subscription
    <3> DEFINE storing == {listener[s] : s \in {t \in Sim : listener[t].at = "admitted"}}
    <3>1. ASSUME NEW m \in storing
          PROVE  m.req \in RequestId /\ m.action \in ActionId
      <4>1. m \in ListenerPoint /\ m.at = "admitted"
        OBVIOUS
      <4>2. QED
        BY <4>1 DEF ListenerPoint, Idle
    <3>2. current.req \in RequestId /\ current.action \in ActionId
      BY DEF Subscription
    <3>3. sub \in [req    : {current.req} \cup {m.req : m \in storing},
                   action : {current.action} \cup {m.action : m \in storing}]
      BY DEF ReadSubscription
    <3> HIDE DEF storing
    <3>4. QED
      BY <3>1, <3>2, <3>3 DEF Subscription
  <2>3. handover[h].sim \in Sim
    BY <1>18 DEF HandoverSpawn, HandoverPoint, Idle
  <2>4. QED
    <3>1. args' \in [Loop -> [sim : Sim, sub : Subscription]]
      BY <2>1, <2>2, <2>3 DEF Spawn
    <3>2. pc' \in [Loop -> LoopPoint]
      BY <2>1 DEF Spawn, LoopPoint
    <3>3. handover' \in [Handler -> HandoverPoint]
      BY <2>1 DEF HandoverPoint
    <3>4. QED
      BY <1>18, <3>1, <3>2, <3>3 DEF HandoverSpawn
<1>19. ASSUME NEW h \in Handler, HandoverStop(h)
       PROVE  TypeOK'
  BY <1>19 DEF HandoverStop, HandoverPoint
<1>20. CASE ConnectionExits \/ Shutdown
  BY <1>20, <1>1 DEF ConnectionExits, Shutdown
<1>21. CASE UNCHANGED vars
  BY <1>21 DEF vars
<1>22. QED
  BY <1>2, <1>3, <1>4, <1>5, <1>6, <1>7, <1>8, <1>9, <1>10, <1>11, <1>12, <1>13,
     <1>14, <1>15, <1>16, <1>17, <1>18, <1>19, <1>20, <1>21, <1>23
     DEF Next, LoopStep, CallbackStep, HandoverStep

(* The state variables always have their types. *)
THEOREM TypeCorrect == Spec => []TypeOK
<1>1. Init => TypeOK
  <2> SUFFICES ASSUME Init
               PROVE  TypeOK
    OBVIOUS
  <2>1. /\ conn \in [Sim -> Links!Link]
        /\ listener \in [Sim -> ListenerPoint]
        /\ handover \in [Handler -> HandoverPoint]
    BY DEF Init, ListenerPoint, HandoverPoint, Links!Link
  <2>2. NoSubscription \in Subscription
    BY DEF NoSubscription, Subscription, RequestId, ActionId
  <2>3. Unspawned \in [sim : Sim, sub : Subscription]
    BY <2>2 DEF Unspawned
  <2>4. /\ pc \in [Loop -> LoopPoint]
        /\ args \in [Loop -> [sim : Sim, sub : Subscription]]
    BY <2>3 DEF Init, LoopPoint
  <2>5. wire \in Seq(Insert)
    BY DEF Init
  <2>6. lock \in Loop \cup {NoLoop} /\ seqNum \in 0..SeqSpace-1
    BY DEF Init
  <2>7. /\ current \in Subscription /\ process \in {"running", "exited", "crashed"}
        /\ ok2run \in BOOLEAN /\ cpid \in Nat /\ line \in Nat /\ overrun \in Nat
        /\ size \in Nat /\ torn \in BOOLEAN
    BY <2>2 DEF Init
  <2>8. sent \subseteq Nat /\ recv \subseteq Nat /\ missed \subseteq Nat
    BY DEF Init
  <2>9. QED
    BY <2>1, <2>4, <2>5, <2>6, <2>7, <2>8 DEF TypeOK
<1>2. QED
  BY <1>1, TypeStep, PTL DEF Spec
-----------------------------------------------------------------------------
(***************************************************************************)
(* Seen from the loop threads, every step is a loop step, the spawning of  *)
(* a thread, or one that at most clears ok2run.                            *)
(***************************************************************************)
SpawnStep ==
    /\ \E l \in Loop : /\ pc[l] = "unspawned"
                      /\ pc' = [pc EXCEPT ![l] = "starting"]
    /\ UNCHANGED <<lock, ok2run, cpid, seqNum, sent, samples, line, wire, overrun,
                   torn>>

QuietStep ==
    /\ UNCHANGED <<pc, lock, cpid, seqNum, sent, line, wire>>
    /\ \/ UNCHANGED <<ok2run, overrun>>
       \/ ok2run' = FALSE /\ overrun' = 0

(* A step that stops the process changes nothing else. *)
LEMMA StopIsQuiet ==
    ASSUME NEW how, Stop(how)
    PROVE  QuietStep /\ UNCHANGED <<samples, torn, listener>>
  BY DEF Stop, QuietStep, external, counters, samples, histories

LEMMA StepCases ==
    ASSUME [Next]_vars
    PROVE  (\E l \in Loop : LoopStep(l)) \/ SpawnStep \/ QuietStep
<1> USE DEF external, counters, samples, histories
<1>1. ASSUME NEW s \in Sim, CallbackStep(s)
      PROVE  SpawnStep \/ QuietStep
  BY <1>1, StopIsQuiet DEF CallbackStep, SpawnSubscribed, DeleteResponse, StoreSample,
                           Spawn, SpawnStep, QuietStep
<1>2. ASSUME NEW s \in Sim, NEW r \in Request, SubscriptionRequest(s, r)
      PROVE  QuietStep
  BY <1>2, StopIsQuiet DEF SubscriptionRequest, QuietStep
<1>3. ASSUME NEW s \in Sim, NEW r \in Request, DeleteRequest(s, r)
      PROVE  QuietStep
  BY <1>3 DEF DeleteRequest, QuietStep
<1>4. ASSUME NEW s \in Sim, NEW c \in Seen, ControlRequest(s, c)
      PROVE  QuietStep
  BY <1>4, StopIsQuiet DEF ControlRequest, QuietStep
<1>5. CASE ConnectionChanges
  BY <1>5 DEF ConnectionChanges, QuietStep
<1>6. ASSUME NEW h \in Handler, HandoverStep(h)
      PROVE  SpawnStep \/ QuietStep
  BY <1>6 DEF HandoverStep, HandoverSpawn, HandoverStop, Spawn, SpawnStep, QuietStep
<1>7. ASSUME NEW h \in Handler, NEW s \in Sim, HandoverConnect(h, s)
      PROVE  QuietStep
  BY <1>7, StopIsQuiet DEF HandoverConnect, QuietStep
<1>8. CASE ConnectionExits \/ Shutdown
  BY <1>8, StopIsQuiet DEF ConnectionExits, Shutdown
<1>9. CASE UNCHANGED vars
  BY <1>9 DEF vars, QuietStep
<1>10. QED
  BY <1>1, <1>2, <1>3, <1>4, <1>5, <1>6, <1>7, <1>8, <1>9 DEF Next
-----------------------------------------------------------------------------
(* A loop step leaves the other threads' program points alone. *)
LEMMA LoopStepPoints ==
    ASSUME TypeOK, NEW l \in Loop, LoopStep(l)
    PROVE  \A k \in Loop \ {l} : pc'[k] = pc[k]
  BY DEF TypeOK, LoopStep, AcquireLock, EnterIteration, SendInsert, RecordInsert, LeaveLoop,
         OpenReport, ReportLine, EndReport, CloseReport, Stop, external, counters, samples,
         histories

(* Every step keeps the mutex with the one thread that is inside. *)
LEMMA LockStep == TypeOK /\ OneLoopInside /\ [Next]_vars => OneLoopInside'
<1> SUFFICES ASSUME TypeOK, OneLoopInside, [Next]_vars
             PROVE  OneLoopInside'
  OBVIOUS
<1> USE DEF OneLoopInside, Inside, NoLoop, Loop
<1>1. ASSUME NEW l \in Loop, LoopStep(l)
      PROVE  OneLoopInside'
  <2> USE DEF TypeOK, external, counters, samples, histories
  <2>1. CASE AcquireLock(l)
    BY <2>1 DEF AcquireLock, LockIsFree
  <2>2. CASE EnterIteration(l)
    BY <2>2 DEF EnterIteration, Stop
  <2>3. CASE SendInsert(l)
    BY <2>3 DEF SendInsert, Stop
  <2>4. CASE RecordInsert(l)
    BY <2>4 DEF RecordInsert
  <2>5. CASE LeaveLoop(l)
    BY <2>5 DEF LeaveLoop, Unlocked
  <2>6. CASE OpenReport(l)
    BY <2>6 DEF OpenReport, Unlocked
  <2>7. CASE ReportLine(l)
    BY <2>7 DEF ReportLine, Stop
  <2>8. CASE CloseReport(l)
    BY <2>8 DEF CloseReport, Unlocked
  <2>10. CASE EndReport(l)
    BY <2>10 DEF EndReport
  <2>9. QED
    BY <1>1, <2>1, <2>2, <2>3, <2>4, <2>5, <2>6, <2>7, <2>8, <2>10 DEF LoopStep
<1>2. CASE SpawnStep
  BY <1>2 DEF SpawnStep, TypeOK
<1>3. CASE QuietStep
  BY <1>3 DEF QuietStep
<1>4. QED
  BY <1>1, <1>2, <1>3, StepCases

(* seqNumCpidLock is held by exactly the thread that is inside of          *)
(* run_insert_loop's critical section: never two, whatever the callbacks,  *)
(* the handovers and the losses of associations do meanwhile.              *)
THEOREM MutualExclusion == Spec => []OneLoopInside
<1>1. Init => OneLoopInside
  BY DEF Init, OneLoopInside, Inside, Loop, NoLoop
<1>2. QED
  BY <1>1, LockStep, TypeCorrect, PTL DEF Spec
-----------------------------------------------------------------------------
(* A stop is overrun by at most one INSERT: the one that was being built,  *)
(* which only the holder of the mutex can have been building.              *)
LEMMA StopStep == TypeOK /\ OneLoopInside /\ StopInv /\ [Next]_vars => StopInv'
<1> SUFFICES ASSUME TypeOK, OneLoopInside, StopInv, [Next]_vars
             PROVE  StopInv'
  OBVIOUS
<1> USE DEF StopInv, OverrunBounded
<1>1. ASSUME NEW l \in Loop, LoopStep(l)
      PROVE  StopInv'
  <2> USE DEF TypeOK, external, counters, samples, histories
  <2>1. CASE AcquireLock(l)
    BY <2>1 DEF AcquireLock
  <2>2. CASE EnterIteration(l)
    BY <2>2 DEF EnterIteration, MayInsert, Stop
  <2>3. CASE SendInsert(l)
    <3>1. \A k \in Loop \ {l} : pc[k] # "sending"
      BY <2>3 DEF SendInsert, OneLoopInside, Inside
    <3>2. CASE conn[args[l].sim] = "up"
      <4>1. overrun = 0
        BY <2>3 DEF SendInsert, Indication
      <4>2. /\ overrun' = IF ok2run THEN 0 ELSE 1
            /\ ok2run' = ok2run
        BY <2>3, <3>2, <4>1 DEF SendInsert, Indication
      <4>3. \A k \in Loop : pc'[k] # "sending"
        BY <2>3, <3>1, <3>2 DEF SendInsert, Indication
      <4>4. QED
        BY <4>2, <4>3
    <3>3. CASE conn[args[l].sim] # "up"
      BY <2>3, <3>3 DEF SendInsert, Stop
    <3>4. QED
      BY <3>2, <3>3
  <2>4. CASE RecordInsert(l)
    BY <2>4 DEF RecordInsert
  <2>5. CASE LeaveLoop(l)
    BY <2>5 DEF LeaveLoop
  <2>6. CASE OpenReport(l)
    BY <2>6 DEF OpenReport
  <2>7. CASE ReportLine(l)
    BY <2>7 DEF ReportLine, Stop
  <2>8. CASE CloseReport(l)
    BY <2>8 DEF CloseReport
  <2>10. CASE EndReport(l)
    BY <2>10 DEF EndReport
  <2>9. QED
    BY <1>1, <2>1, <2>2, <2>3, <2>4, <2>5, <2>6, <2>7, <2>8, <2>10 DEF LoopStep
<1>2. CASE SpawnStep
  BY <1>2 DEF SpawnStep, TypeOK
<1>3. CASE QuietStep
  BY <1>3 DEF QuietStep, TypeOK
<1>4. QED
  BY <1>1, <1>2, <1>3, StepCases

(* StopInv holds in every reachable state. *)
LEMMA StopInvariance == Spec => []StopInv
<1>1. Init => StopInv
  BY DEF Init, StopInv, OverrunBounded
<1>2. QED
  BY <1>1, StopStep, TypeCorrect, MutualExclusion, PTL DEF Spec

(* Clearing ok2run (a subscription delete, a handover) stops the running   *)
(* insert loop after at most one more INSERT.                              *)
THEOREM StopBounded == Spec => []OverrunBounded
<1>1. StopInv => OverrunBounded
  BY DEF StopInv
<1>2. QED
  BY <1>1, StopInvariance, PTL
-----------------------------------------------------------------------------
(* The position before the last one has a successor in the sequence.       *)
LEMMA NextIndex ==
    ASSUME NEW n \in Nat, NEW i \in 1..n, i # n
    PROVE  i \in 1..n-1 /\ i+1 \in 1..n
OBVIOUS

(* A numbered stream w with the INSERT that follows its last one is numbered. *)
LEMMA NumberedAppend ==
    ASSUME NEW w \in Seq(Insert), NEW e \in Insert,
           \A i \in DOMAIN w : w[i].cpid = i - 1,
           w # <<>> => w[1].seq = 0,
           \A i \in 1..Len(w)-1 : w[i+1].seq = (w[i].seq + 1) % SeqSpace,
           e.cpid = Len(w),
           w = <<>> => e.seq = 0,
           w # <<>> => e.seq = (w[Len(w)].seq + 1) % SeqSpace,
           NEW v, v = Append(w, e)
    PROVE  /\ \A i \in DOMAIN v : v[i].cpid = i - 1
           /\ v[1].seq = 0
           /\ \A i \in 1..Len(v)-1 : v[i+1].seq = (v[i].seq + 1) % SeqSpace
<1>1. /\ Len(w) \in Nat
      /\ DOMAIN w = 1..Len(w)
  BY LenProperties
<1>2. /\ v \in Seq(Insert)
      /\ Len(v) = Len(w) + 1
      /\ v[Len(w) + 1] = e
      /\ \A i \in 1..Len(w) : v[i] = w[i]
  BY AppendProperties
<1>3. DOMAIN v = 1..Len(w) + 1
  BY <1>2, LenProperties
<1>4. ASSUME NEW i \in 1..Len(w) + 1
      PROVE  v[i].cpid = i - 1
  <2>1. CASE i = Len(w) + 1
    <3>1. v[i].cpid = Len(w)
      BY <2>1, <1>2
    <3>2. QED
      BY <3>1, <2>1, <1>1
  <2>2. CASE i # Len(w) + 1
    <3>1. i \in 1..Len(w)
      BY <2>2, <1>1
    <3>2. QED
      BY <3>1, <1>1, <1>2
  <2>3. QED
    BY <2>1, <2>2
<1>5. v[1].seq = 0
  <2>1. CASE w = <<>>
    <3>1. Len(w) = 0
      BY <2>1
    <3>2. v[1] = e
      BY <3>1, <1>2
    <3>3. QED
      BY <3>2, <2>1
  <2>2. CASE w # <<>>
    <3>1. 1 \in 1..Len(w)
      BY <2>2, <1>1, EmptySeq
    <3>2. v[1] = w[1]
      BY <3>1, <1>2
    <3>3. QED
      BY <3>2, <2>2
  <2>3. QED
    BY <2>1, <2>2
<1>6. ASSUME NEW i \in 1..Len(w)
      PROVE  v[i+1].seq = (v[i].seq + 1) % SeqSpace
  <2>1. v[i] = w[i]
    BY <1>2
  <2>2. CASE i = Len(w)
    <3>1. w # <<>>
      BY <2>2, <1>1
    <3>2. v[i+1] = e
      BY <2>2, <1>2
    <3>3. QED
      BY <2>1, <2>2, <3>1, <3>2
  <2>3. CASE i # Len(w)
    <3>1. i \in 1..Len(w)-1 /\ i+1 \in 1..Len(w)
      BY <2>3, <1>1, NextIndex
    <3>2. v[i+1] = w[i+1]
      BY <3>1, <1>2
    <3>3. QED
      BY <2>1, <3>1, <3>2
  <2>4. QED
    BY <2>2, <2>3
<1>7. 1..Len(v)-1 = 1..Len(w)
  BY <1>1, <1>2
<1>8. QED
  BY <1>3, <1>4, <1>5, <1>6, <1>7

(* The counters, sent_ts_map and the INSERTs on the wire move together.    *)
LEMMA StreamStep == TypeOK /\ OneLoopInside /\ StreamInv /\ [Next]_vars => StreamInv'
<1> SUFFICES ASSUME TypeOK, OneLoopInside, StreamInv, [Next]_vars
             PROVE  StreamInv'
  OBVIOUS
<1>1. ASSUME UNCHANGED <<wire, cpid, seqNum, sent>>, Recording' = Recording
      PROVE  StreamInv'
  BY <1>1 DEF StreamInv, OneNumberedStream, SentMapFollowsWire
<1>2. ASSUME NEW l \in Loop, SendInsert(l)
      PROVE  StreamInv'
  <2> USE DEF TypeOK, external, counters, samples, histories
  <2>1. CASE conn[args[l].sim] = "up"
    <3> DEFINE insert == [cpid |-> cpid, seq |-> seqNum, loop |-> l,
                          sub |-> args[l].sub]
    <3>1. ~Recording
      BY <1>2 DEF SendInsert, OneLoopInside, Inside, Recording
    <3>2. Recording'
      BY <1>2, <2>1 DEF SendInsert, Indication, Recording
    <3>3. /\ wire' = Append(wire, insert)
          /\ UNCHANGED <<cpid, seqNum, sent>>
      BY <1>2, <2>1 DEF SendInsert, Indication
    <3>4. Len(wire) = cpid /\ sent = 0..cpid-1
      BY <3>1 DEF StreamInv, SentMapFollowsWire
    <3>5. /\ wire \in Seq(Insert)
          /\ insert \in Insert
      BY DEF Insert
    <3>6. /\ Len(wire') = Len(wire) + 1
          /\ wire'[Len(wire')] = insert
          /\ wire' # <<>>
      BY <3>3, <3>5, AppendProperties
    <3>7. /\ wire = <<>> => insert.seq = 0
          /\ wire # <<>> => insert.seq = (wire[Len(wire)].seq + 1) % SeqSpace
      BY <3>1 DEF StreamInv
    <3>8. OneNumberedStream'
      <4>1. insert.cpid = Len(wire)
        BY <3>4
      <4>2. QED
        BY <3>3, <3>5, <3>7, <4>1, NumberedAppend DEF StreamInv, OneNumberedStream
    <3>9. SentMapFollowsWire'
      BY <3>2, <3>3, <3>4, <3>6 DEF SentMapFollowsWire
    <3>10. seqNum' = wire'[Len(wire')].seq
      BY <3>3, <3>6
    <3>11. QED
      BY <3>2, <3>6, <3>8, <3>9, <3>10 DEF StreamInv
  <2>2. CASE conn[args[l].sim] # "up"
    BY <1>1, <1>2, <2>2 DEF SendInsert, Stop, Recording
  <2>3. QED
    BY <2>1, <2>2
<1>3. ASSUME NEW l \in Loop, RecordInsert(l)
      PROVE  StreamInv'
  <2>1. Recording
    BY <1>3 DEF RecordInsert, Recording
  <2>2. ~Recording'
    BY <1>3 DEF RecordInsert, OneLoopInside, Inside, Recording, TypeOK
  <2>3. /\ sent' = sent \cup {cpid}
        /\ seqNum' = (seqNum + 1) % SeqSpace
        /\ cpid' = cpid + 1
        /\ wire' = wire
    BY <1>3 DEF RecordInsert, RecordedKey, NextSeqNum, NextCpid, histories
  <2>4. Len(wire) = cpid + 1 /\ sent = 0..cpid-1
    BY <2>1 DEF StreamInv, SentMapFollowsWire
  <2>5. sent' = 0..cpid'-1
    BY <2>3, <2>4 DEF TypeOK
  <2>6. SentMapFollowsWire'
    BY <2>2, <2>3, <2>4, <2>5 DEF SentMapFollowsWire, TypeOK
  <2>7. OneNumberedStream'
    BY <2>3 DEF StreamInv, OneNumberedStream
  <2>8. wire' # <<>>
    BY <2>3, <2>4 DEF TypeOK
  <2>9. seqNum' = (wire'[Len(wire')].seq + 1) % SeqSpace
    BY <2>1, <2>3, <2>8 DEF StreamInv
  <2>10. QED
    BY <2>2, <2>6, <2>7, <2>8, <2>9 DEF StreamInv
<1>4. ASSUME NEW l \in Loop, LoopStep(l), ~SendInsert(l), ~RecordInsert(l)
      PROVE  StreamInv'
  <2> USE DEF external, counters, samples, histories
  <2>1. UNCHANGED <<wire, cpid, seqNum, sent>>
    BY <1>4 DEF LoopStep, AcquireLock, EnterIteration, LeaveLoop, OpenReport, ReportLine,
                EndReport, CloseReport, Stop
  <2>2. pc[l] # "recording" /\ pc'[l] # "recording"
    BY <1>4 DEF LoopStep, AcquireLock, EnterIteration, LeaveLoop, OpenReport, ReportLine,
                EndReport, CloseReport, Stop, TypeOK
  <2>3. Recording' = Recording
    BY <1>4, <2>2, LoopStepPoints DEF Recording
  <2>4. QED
    BY <1>1, <2>1, <2>3
<1>5. CASE SpawnStep
  BY <1>1, <1>5 DEF SpawnStep, Recording, TypeOK
<1>6. CASE QuietStep
  BY <1>1, <1>6 DEF QuietStep, Recording
<1>7. QED
  BY <1>2, <1>3, <1>4, <1>5, <1>6, StepCases

(* StreamInv holds in every reachable state. *)
LEMMA StreamInvariance == Spec => []StreamInv
<1>1. Init => StreamInv
  BY DEF Init, StreamInv, OneNumberedStream, SentMapFollowsWire, Recording
<1>2. QED
  BY <1>1, StreamStep, TypeCorrect, MutualExclusion, PTL DEF Spec

(* The INSERTs of all loops and associations form one stream whose call    *)
(* process ids have no gap and no repetition.                              *)
THEOREM NumberedStream == Spec => []OneNumberedStream
<1>1. StreamInv => OneNumberedStream
  BY DEF StreamInv
<1>2. QED
  BY <1>1, StreamInvariance, PTL

(* sent_ts_map lags behind the wire by the one INSERT that a loop has sent *)
(* and not yet recorded.                                                   *)
THEOREM SentMapFollows == Spec => []SentMapFollowsWire
<1>1. StreamInv => SentMapFollowsWire
  BY DEF StreamInv
<1>2. QED
  BY <1>1, StreamInvariance, PTL
-----------------------------------------------------------------------------
(* A loop that is past its condition still has an INSERT of the quota.     *)
LEMMA QuotaStep == TypeOK /\ OneLoopInside /\ QuotaInv /\ [Next]_vars => QuotaInv'
<1> SUFFICES ASSUME TypeOK, OneLoopInside, QuotaInv, [Next]_vars
             PROVE  QuotaInv'
  OBVIOUS
<1> USE DEF QuotaInv
<1>1. ASSUME NEW l \in Loop, LoopStep(l)
      PROVE  QuotaInv'
  <2> USE DEF TypeOK, external, counters, samples, histories
  <2>1. CASE EnterIteration(l)
    BY <2>1 DEF EnterIteration, MayInsert, Stop
  <2>2. CASE RecordInsert(l)
    <3>1. \A k \in Loop : pc'[k] \notin {"sending", "recording"}
      BY <2>2 DEF RecordInsert, OneLoopInside, Inside
    <3>2. Num2Send # 0 => cpid' <= Num2Send
      BY <2>2 DEF RecordInsert, NextCpid
    <3>3. QED
      BY <3>1, <3>2
  <2>3. CASE ~EnterIteration(l) /\ ~RecordInsert(l)
    <3>1. cpid' = cpid
      BY <1>1, <2>3 DEF LoopStep, AcquireLock, SendInsert, LeaveLoop, OpenReport, ReportLine,
                        EndReport, CloseReport, Stop
    <3>2. pc'[l] \in {"sending", "recording"} => pc[l] \in {"sending", "recording"}
      BY <1>1, <2>3 DEF LoopStep, AcquireLock, SendInsert, LeaveLoop, OpenReport, ReportLine,
                        EndReport, CloseReport, Stop
    <3>3. QED
      BY <1>1, <3>1, <3>2, LoopStepPoints
  <2>4. QED
    BY <2>1, <2>2, <2>3
<1>2. CASE SpawnStep
  BY <1>2 DEF SpawnStep, TypeOK
<1>3. CASE QuietStep
  BY <1>3 DEF QuietStep
<1>4. QED
  BY <1>1, <1>2, <1>3, StepCases

(* QuotaInv holds in every reachable state. *)
LEMMA QuotaInvariance == Spec => []QuotaInv
<1>1. Init => QuotaInv
  BY DEF Init, QuotaInv
<1>2. QED
  BY <1>1, QuotaStep, TypeCorrect, MutualExclusion, PTL DEF Spec

(* --num2send bounds the INSERTs of the whole experiment. *)
THEOREM QuotaIsKept == Spec => []QuotaKept
<1>1. TypeOK /\ QuotaInv /\ StreamInv => QuotaKept
  <2> SUFFICES ASSUME TypeOK, QuotaInv, StreamInv, Num2Send # 0
               PROVE  Len(wire) <= Num2Send
    BY DEF QuotaKept
  <2>1. CASE Recording
    BY <2>1 DEF Recording, QuotaInv, StreamInv, SentMapFollowsWire, TypeOK
  <2>2. CASE ~Recording
    BY <2>2 DEF QuotaInv, StreamInv, SentMapFollowsWire, TypeOK
  <2>3. QED
    BY <2>1, <2>2
<1>2. QED
  BY <1>1, QuotaInvariance, StreamInvariance, TypeCorrect, PTL
-----------------------------------------------------------------------------
(* sent_ts_map only grows. *)
LEMMA SentGrows == [Next]_vars => sent \subseteq sent'
<1> SUFFICES ASSUME [Next]_vars
             PROVE  sent \subseteq sent'
  OBVIOUS
<1>1. ASSUME NEW l \in Loop, LoopStep(l)
      PROVE  sent \subseteq sent'
  BY <1>1 DEF LoopStep, AcquireLock, EnterIteration, SendInsert, RecordInsert, LeaveLoop,
              OpenReport, ReportLine, EndReport, CloseReport, Stop, external, counters, samples,
         histories
<1>2. QED
  BY <1>1, StepCases DEF SpawnStep, QuietStep

(***************************************************************************)
(* Seen from the control callbacks, a step either leaves them and          *)
(* recv_ts_map alone, or it is a callback that found its key, or one that  *)
(* leaves the map with what it emplaced.                                   *)
(***************************************************************************)
KeepsEmplacing ==
    \A s \in Sim : Emplacing(s)' => Emplacing(s) /\ listener'[s] = listener[s]

LEMMA SampleCases ==
    ASSUME TypeOK, [Next]_vars
    PROVE  \/ recv' = recv /\ KeepsEmplacing
           \/ \E s \in Sim : StoreSample(s) /\ recv' = recv \cup {listener[s].cpid}
           \/ \E s \in Sim, c \in sent :
                 /\ recv' = recv
                 /\ listener' = [listener EXCEPT ![s] = [at |-> "emplacing", cpid |-> c]]
<1> DEFINE Goal == \/ recv' = recv /\ KeepsEmplacing
                   \/ \E s \in Sim : StoreSample(s) /\ recv' = recv \cup {listener[s].cpid}
                   \/ \E s \in Sim, c \in sent :
                        /\ recv' = recv
                        /\ listener' = [listener EXCEPT ![s] =
                                           [at |-> "emplacing", cpid |-> c]]
<1> USE DEF external, counters, samples, histories
<1>0. ASSUME recv' = recv, listener' = listener
      PROVE  Goal
  BY <1>0 DEF KeepsEmplacing, Emplacing
<1>1. ASSUME NEW how, Stop(how)
      PROVE  Goal
  BY <1>0, <1>1, StopIsQuiet
<1>2. ASSUME NEW l \in Loop, LoopStep(l)
      PROVE  Goal
  <2>1. recv' = recv /\ listener' = listener
    BY <1>2 DEF LoopStep, AcquireLock, EnterIteration, SendInsert, RecordInsert, LeaveLoop,
                OpenReport, ReportLine, EndReport, CloseReport, Stop
  <2>2. QED
    BY <1>0, <2>1
<1>3. ASSUME NEW s \in Sim, NEW point, point.at # "emplacing",
             recv' = recv, listener' = [listener EXCEPT ![s] = point]
      PROVE  Goal
  BY <1>3 DEF KeepsEmplacing, Emplacing, TypeOK
<1>4. ASSUME NEW s \in Sim, SpawnSubscribed(s)
      PROVE  Goal
  BY <1>3, <1>4 DEF SpawnSubscribed, Idle
<1>5. ASSUME NEW s \in Sim, DeleteResponse(s)
      PROVE  Goal
  BY <1>1, <1>3, <1>5 DEF DeleteResponse, Idle
<1>6. ASSUME NEW s \in Sim, StoreSample(s)
      PROVE  Goal
  <2>1. CASE recv' = recv \cup {listener[s].cpid}
    BY <1>6, <2>1
  <2>2. CASE recv' = recv /\ listener' = [listener EXCEPT ![s] = Idle]
    BY <1>3, <2>2 DEF Idle
  <2>3. CASE Stop("crashed")
    BY <1>1, <2>3
  <2>4. QED
    BY <1>6, <2>1, <2>2, <2>3 DEF StoreSample
<1>7. ASSUME NEW s \in Sim, NEW r \in Request, SubscriptionRequest(s, r)
      PROVE  Goal
  BY <1>1, <1>3, <1>7 DEF SubscriptionRequest
<1>8. ASSUME NEW s \in Sim, NEW r \in Request, DeleteRequest(s, r)
      PROVE  Goal
  BY <1>3, <1>8 DEF DeleteRequest
<1>9. ASSUME NEW s \in Sim, NEW c \in Seen, ControlRequest(s, c)
      PROVE  Goal
  <2>1. CASE Stop("crashed")
    BY <1>1, <2>1
  <2>2. CASE recv' = recv /\ listener' = listener
    BY <1>0, <2>2
  <2>3. CASE c \in sent /\ recv' = recv
                /\ listener' = [listener EXCEPT ![s] = [at |-> "emplacing", cpid |-> c]]
    BY <2>3
  <2>4. QED
    BY <1>9, <2>1, <2>2, <2>3 DEF ControlRequest, Recorded
<1>10. CASE ConnectionChanges
  BY <1>0, <1>10 DEF ConnectionChanges
<1>11. ASSUME NEW h \in Handler, HandoverStep(h)
       PROVE  Goal
  BY <1>0, <1>11 DEF HandoverStep, HandoverSpawn, HandoverStop
<1>12. ASSUME NEW h \in Handler, NEW s \in Sim, HandoverConnect(h, s)
       PROVE  Goal
  BY <1>0, <1>1, <1>12 DEF HandoverConnect
<1>13. CASE ConnectionExits \/ Shutdown
  BY <1>1, <1>13 DEF ConnectionExits, Shutdown
<1>14. CASE UNCHANGED vars
  BY <1>0, <1>14 DEF vars
<1>15. QED
  BY <1>2, <1>4, <1>5, <1>6, <1>7, <1>8, <1>9, <1>10, <1>11, <1>12, <1>13, <1>14
     DEF Next, CallbackStep

(* What is in recv_ts_map, or about to be, has a send time. *)
LEMMA SampleStep == TypeOK /\ SampleInv /\ [Next]_vars => SampleInv'
<1> SUFFICES ASSUME TypeOK, SampleInv, [Next]_vars
             PROVE  SampleInv'
  OBVIOUS
<1>1. sent \subseteq sent'
  BY SentGrows
<1>2. CASE recv' = recv /\ KeepsEmplacing
  BY <1>1, <1>2 DEF SampleInv, SamplesWereSent, KeepsEmplacing
<1>3. ASSUME NEW s \in Sim, StoreSample(s), recv' = recv \cup {listener[s].cpid}
      PROVE  SampleInv'
  <2>1. Emplacing(s)
    BY <1>3 DEF StoreSample
  <2>2. listener' = [listener EXCEPT ![s] = Idle] \/ listener' = listener
    BY <1>3 DEF StoreSample, Stop, external
  <2>3. listener[s].cpid \in sent'
    BY <1>1, <2>1 DEF SampleInv
  <2>4. recv' \subseteq sent'
    BY <1>1, <1>3, <2>3 DEF SampleInv, SamplesWereSent
  <2>5. \A t \in Sim : Emplacing(t)' => Emplacing(t) /\ listener'[t] = listener[t]
    BY <2>2 DEF Emplacing, Idle, TypeOK
  <2>6. QED
    BY <1>1, <2>4, <2>5 DEF SampleInv, SamplesWereSent
<1>4. ASSUME NEW s \in Sim, NEW c \in sent, recv' = recv,
             listener' = [listener EXCEPT ![s] = [at |-> "emplacing", cpid |-> c]]
      PROVE  SampleInv'
  BY <1>1, <1>4 DEF SampleInv, SamplesWereSent, Emplacing, TypeOK
<1>5. QED
  BY <1>2, <1>3, <1>4, SampleCases

(* SampleInv holds in every reachable state. *)
LEMMA SampleInvariance == Spec => []SampleInv
<1>1. Init => SampleInv
  BY DEF Init, SampleInv, SamplesWereSent, Emplacing, Idle
<1>2. QED
  BY <1>1, SampleStep, TypeCorrect, PTL DEF Spec

(* Every latency sample has a send time to subtract from its receive time. *)
THEOREM SamplesSound == Spec => []SamplesWereSent
<1>1. SampleInv => SamplesWereSent
  BY DEF SampleInv
<1>2. QED
  BY <1>1, SampleInvariance, PTL
-----------------------------------------------------------------------------
(* Only emplace changes recv_ts_map or what its size() returns.            *)
LEMMA StoreCases ==
    ASSUME [Next]_vars
    PROVE  UNCHANGED <<recv, size, torn>> \/ \E s \in Sim : StoreSample(s)
<1> USE DEF external, counters, samples, histories
<1>1. ASSUME NEW how, Stop(how)
      PROVE  UNCHANGED <<recv, size, torn>>
  BY <1>1 DEF Stop
<1>2. ASSUME NEW l \in Loop, LoopStep(l)
      PROVE  UNCHANGED <<recv, size, torn>>
  BY <1>2 DEF LoopStep, AcquireLock, EnterIteration, SendInsert, RecordInsert, LeaveLoop,
              OpenReport, ReportLine, EndReport, CloseReport, Stop
<1>3. ASSUME NEW s \in Sim, SpawnSubscribed(s) \/ DeleteResponse(s)
      PROVE  UNCHANGED <<recv, size, torn>>
  BY <1>1, <1>3 DEF SpawnSubscribed, DeleteResponse
<1>4. ASSUME NEW s \in Sim, NEW r \in Request,
             SubscriptionRequest(s, r) \/ DeleteRequest(s, r)
      PROVE  UNCHANGED <<recv, size, torn>>
  BY <1>1, <1>4 DEF SubscriptionRequest, DeleteRequest
<1>5. ASSUME NEW s \in Sim, NEW c \in Seen, ControlRequest(s, c)
      PROVE  UNCHANGED <<recv, size, torn>>
  BY <1>1, <1>5 DEF ControlRequest
<1>6. ASSUME NEW h \in Handler, HandoverStep(h) \/ \E s \in Sim : HandoverConnect(h, s)
      PROVE  UNCHANGED <<recv, size, torn>>
  BY <1>1, <1>6 DEF HandoverStep, HandoverSpawn, HandoverStop, HandoverConnect
<1>7. CASE ConnectionChanges \/ ConnectionExits \/ Shutdown
  BY <1>1, <1>7 DEF ConnectionChanges, ConnectionExits, Shutdown
<1>8. CASE UNCHANGED vars
  BY <1>8 DEF vars
<1>9. QED
  BY <1>2, <1>3, <1>4, <1>5, <1>6, <1>7, <1>8 DEF Next, CallbackStep

(* recv_ts_map stays finite and only grows, and size() counts its entries  *)
(* until two listeners race.                                               *)
LEMMA RecvGrows ==
    ASSUME TypeOK, IsFiniteSet(recv), ~torn => size = Cardinality(recv), [Next]_vars
    PROVE  /\ recv \subseteq recv'
           /\ IsFiniteSet(recv')
           /\ size <= size'
           /\ (~torn => size = Cardinality(recv))'
<1>1. CASE UNCHANGED <<recv, size, torn>>
  BY <1>1 DEF TypeOK
<1>2. ASSUME NEW s \in Sim, StoreSample(s), UNCHANGED <<recv, size, torn>>
      PROVE  /\ recv \subseteq recv' /\ IsFiniteSet(recv') /\ size <= size'
             /\ (~torn => size = Cardinality(recv))'
  BY <1>2 DEF TypeOK
<1>3. ASSUME NEW s \in Sim, StoreSample(s), ~UNCHANGED <<recv, size, torn>>
      PROVE  /\ recv \subseteq recv' /\ IsFiniteSet(recv') /\ size <= size'
             /\ (~torn => size = Cardinality(recv))'
  <2> DEFINE c == listener[s].cpid
  <2>1. /\ \/ /\ recv' = recv \cup {c}
              /\ size' = IF c \in recv THEN size ELSE size + 1
           \/ /\ Racing(s)
              /\ recv' \in {recv, recv \cup {c}}
              /\ size' \in {size, size + 1}
        /\ torn' = (torn \/ Racing(s))
    <3>1. ~Stop("crashed")
      BY <1>3, StopIsQuiet DEF samples
    <3>2. QED
      BY <1>3, <3>1 DEF StoreSample
  <2> HIDE DEF c
  <2>2. recv \subseteq recv' /\ IsFiniteSet(recv') /\ size <= size'
    BY <2>1, FS_AddElement DEF TypeOK
  <2>3. ASSUME ~torn'
        PROVE  size' = Cardinality(recv')
    <3>1. /\ ~torn /\ recv' = recv \cup {c}
          /\ size' = IF c \in recv THEN size ELSE size + 1
      BY <2>1, <2>3
    <3>2. Cardinality(recv \cup {c}) =
              IF c \in recv THEN Cardinality(recv) ELSE Cardinality(recv) + 1
      BY FS_AddElement
    <3>3. QED
      BY <3>1, <3>2
  <2>4. QED
    BY <2>2, <2>3
<1>4. QED
  BY <1>1, <1>2, <1>3, StoreCases

(* A loop step of the report, or none: who moves line. *)
InReport(l) == pc[l] \in {"reporting", "closing"}

LEMMA LineCases ==
    ASSUME NEW l \in Loop, LoopStep(l), TypeOK
    PROVE  \/ line' = line /\ (InReport(l)' <=> InReport(l))
           \/ line' = line /\ pc[l] = "draining" /\ InReport(l)'
           \/ /\ InReport(l) /\ InReport(l)'
              /\ line < size /\ line \in recv /\ line' = line + 1
           \/ CloseReport(l)
<1> USE DEF TypeOK, InReport, external, counters, samples, histories
<1>1. CASE OpenReport(l)
  BY <1>1 DEF OpenReport
<1>2. CASE ReportLine(l)
  BY <1>2 DEF ReportLine, ReportSize, Stop
<1>5. CASE EndReport(l)
  BY <1>5 DEF EndReport
<1>3. CASE ~OpenReport(l) /\ ~ReportLine(l) /\ ~EndReport(l) /\ ~CloseReport(l)
  BY <1>3 DEF LoopStep, AcquireLock, EnterIteration, SendInsert, RecordInsert, LeaveLoop, Stop
<1>4. QED
  BY <1>1, <1>2, <1>3, <1>5

(* The lines of the report are 0..line-1, all of them samples. *)
LEMMA ReportStep == TypeOK /\ OneLoopInside /\ ReportInv /\ [Next]_vars => ReportInv'
<1> SUFFICES ASSUME TypeOK, OneLoopInside, ReportInv, [Next]_vars
             PROVE  ReportInv'
  OBVIOUS
<1>1. /\ recv \subseteq recv' /\ IsFiniteSet(recv')
      /\ size \in Nat /\ size' \in Nat /\ size <= size'
      /\ (~torn => size = Cardinality(recv))'
  <2>1. size \in Nat /\ size' \in Nat
    BY TypeStep DEF TypeOK
  <2>2. QED
    BY <2>1, RecvGrows DEF ReportInv
<1>2. ASSUME line' = line, \A l \in Loop : InReport(l)' <=> InReport(l)
      PROVE  ReportInv'
  BY <1>1, <1>2 DEF ReportInv, TypeOK, InReport
<1>3. ASSUME NEW l \in Loop, LoopStep(l)
      PROVE  ReportInv'
  <2>1. \A k \in Loop \ {l} : InReport(k)' <=> InReport(k)
    BY <1>3, LoopStepPoints DEF InReport
  <2>2. CASE line' = line /\ (InReport(l)' <=> InReport(l))
    BY <1>2, <2>1, <2>2
  <2>3. CASE line' = line /\ pc[l] = "draining" /\ InReport(l)'
    <3>1. \A k \in Loop : ~InReport(k)
      BY <2>3 DEF OneLoopInside, Inside, InReport
    <3>2. line' = 0
      BY <2>3, <3>1 DEF ReportInv, InReport
    <3>3. QED
      BY <1>1, <2>3, <3>2 DEF ReportInv, InReport
  <2>4. CASE /\ InReport(l) /\ InReport(l)'
             /\ line < size /\ line \in recv /\ line' = line + 1
    <3>1. 0..line'-1 = 0..line-1 \cup {line}
      BY <2>4 DEF TypeOK
    <3>2. 0..line'-1 \subseteq recv'
      BY <1>1, <2>4, <3>1 DEF ReportInv
    <3>3. line' <= size'
      BY <1>1, <2>4 DEF TypeOK
    <3>4. QED
      BY <1>1, <2>4, <3>2, <3>3 DEF ReportInv, InReport
  <2>5. CASE CloseReport(l)
    <3>1. \A k \in Loop : ~InReport(k)'
      BY <2>5 DEF CloseReport, OneLoopInside, Inside, TypeOK, InReport
    <3>2. line' = 0
      BY <2>5 DEF CloseReport
    <3>3. QED
      BY <1>1, <3>1, <3>2 DEF ReportInv, InReport
  <2>6. QED
    BY <1>3, <2>2, <2>3, <2>4, <2>5, LineCases
<1>4. ASSUME SpawnStep \/ QuietStep
      PROVE  ReportInv'
  BY <1>2, <1>4 DEF SpawnStep, QuietStep, TypeOK, InReport
<1>5. QED
  BY <1>3, <1>4, StepCases

(* ReportInv holds in every reachable state. *)
LEMMA ReportInvariance == Spec => []ReportInv
<1>1. Init => ReportInv
  BY FS_EmptySet DEF Init, ReportInv
<1>2. QED
  BY <1>1, ReportStep, TypeCorrect, MutualExclusion, PTL DEF Spec

(***************************************************************************)
(* When the report finds no line left it has one for each sample, and the  *)
(* samples are those of the first INSERTs: it has at most as many lines as *)
(* there are samples, and each of its lines is of a sample.                *)
(***************************************************************************)
THEOREM ReportComplete == Spec => FinishedReportIsComplete
<1> DEFINE Complete == \A l \in Loop :
               (pc[l] = "reporting" /\ pc'[l] = "closing" /\ ~torn) => recv = 0..line-1
<1>1. TypeOK /\ ReportInv /\ [Next]_vars => [Complete]_vars
  <2> SUFFICES ASSUME TypeOK, ReportInv, Next, NEW l \in Loop,
                      pc[l] = "reporting", pc'[l] = "closing", ~torn
               PROVE  recv = 0..line-1
    OBVIOUS
  <2>1. line >= ReportSize
    <3>1. PICK k \in Loop : LoopStep(k)
      BY StepCases DEF SpawnStep, QuietStep, TypeOK
    <3>2. k = l
      BY <3>1, LoopStepPoints
    <3>3. QED
      BY <3>1, <3>2 DEF LoopStep, AcquireLock, EnterIteration, SendInsert, RecordInsert,
         LeaveLoop, OpenReport, ReportLine, EndReport, CloseReport, Stop, TypeOK
  <2>2. line = Cardinality(recv)
    BY <2>1 DEF ReportSize, ReportInv, TypeOK
  <2>3. Cardinality(0..line-1) = line
    <3>1. line \in Nat /\ line-1 \in Int
      BY DEF TypeOK
    <3>2. \A a, b \in Int : Cardinality(a..b) = IF a > b THEN 0 ELSE b - a + 1
      BY FS_Interval
    <3>3. Cardinality(0..line-1) = IF 0 > line-1 THEN 0 ELSE (line-1) - 0 + 1
      BY <3>1, <3>2
    <3>4. QED
      BY <3>1, <3>3
  <2>4. QED
    BY <2>2, <2>3, FS_Subset DEF ReportInv
<1>2. QED
  BY <1>1, TypeCorrect, ReportInvariance, PTL DEF Spec, FinishedReportIsComplete
-----------------------------------------------------------------------------
(* A sample that a callback is about to emplace is of an INSERT on the wire. *)
LEMMA SampleOnWire ==
    ASSUME StreamInv, SampleInv, TypeOK, NEW s \in Sim, Emplacing(s)
    PROVE  listener[s].cpid \in 0..Len(wire)-1
<1>1. listener[s].cpid \in 0..cpid-1
  BY DEF SampleInv, StreamInv, SentMapFollowsWire
<1>2. Len(wire) = cpid \/ Len(wire) = cpid + 1
  BY DEF StreamInv, SentMapFollowsWire, TypeOK
<1>3. QED
  BY <1>1, <1>2 DEF TypeOK

(* A step of a loop thread is a step of the abstract stream, or leaves it alone. *)
LEMMA LoopStepSimulates ==
    ASSUME TypeOK, OneLoopInside, StreamInv, QuotaInv, NEW l \in Loop, LoopStep(l)
    PROVE  Stream!Next \/ UNCHANGED Stream!vars
<1> DEFINE Done == {k \in Loop : pc[k] = "done"}
<1> USE DEF external, counters, samples, histories
<1>1. ASSUME pc'[l] # "done", pc[l] # "done"
      PROVE  Done' = Done
  BY <1>1, LoopStepPoints
<1>2. ASSUME lock' = lock, wire' = wire, recv' = recv, pc'[l] # "done", pc[l] # "done"
      PROVE  UNCHANGED Stream!vars
  BY <1>1, <1>2 DEF Stream!vars
<1>3. ASSUME lock' = NoLoop, wire' = wire, recv' = recv, pc'[l] = "done", pc[l] \in Inside
      PROVE  Stream!Retire(l)
  <2>1. lock = l
    BY <1>3 DEF OneLoopInside
  <2>2. Done' = Done \cup {l}
    BY <1>3, LoopStepPoints
  <2>3. QED
    BY <1>3, <2>1, <2>2 DEF Stream!Retire
<1>4. CASE AcquireLock(l)
  <2>1. Done' = Done
    BY <1>1, <1>4 DEF AcquireLock, TypeOK
  <2>2. Stream!Begin(l)
    BY <1>4, <2>1 DEF AcquireLock, LockIsFree, Stream!Begin
  <2>3. QED
    BY <2>2 DEF Stream!Next
<1>5. CASE SendInsert(l)
  <2>1. CASE conn[args[l].sim] = "up"
    <3>1. ~Recording /\ lock = l
      BY <1>5 DEF SendInsert, OneLoopInside, Inside, Recording
    <3>2. Len(wire) = cpid
      BY <3>1 DEF StreamInv, SentMapFollowsWire, TypeOK
    <3>3. seqNum = Stream!FollowingSeq
      BY <3>1 DEF StreamInv, Stream!FollowingSeq
    <3>4. Num2Send # 0 => Len(wire) < Num2Send
      BY <1>5, <3>2 DEF SendInsert, QuotaInv
    <3>5. args[l].sub \in Subscription
      BY DEF TypeOK
    <3>6. wire' = Append(wire, [cpid |-> Len(wire), seq |-> Stream!FollowingSeq,
                                loop |-> l, sub |-> args[l].sub])
      BY <1>5, <2>1, <3>2, <3>3 DEF SendInsert, Indication
    <3>7. Done' = Done
      BY <1>1, <1>5, <2>1 DEF SendInsert, TypeOK
    <3>8. lock' = lock /\ recv' = recv
      BY <1>5, <2>1 DEF SendInsert, Indication
    <3>9. Stream!Emit(l)
      BY <3>1, <3>4, <3>5, <3>6, <3>7, <3>8 DEF Stream!Emit
    <3>10. QED
      BY <3>9 DEF Stream!Next
  <2>2. CASE conn[args[l].sim] # "up"
    BY <1>2, <1>5, <2>2 DEF SendInsert, Stop
  <2>3. QED
    BY <2>1, <2>2
<1>6. CASE EnterIteration(l) \/ RecordInsert(l) \/ ReportLine(l) \/ EndReport(l)
  BY <1>2, <1>6 DEF EnterIteration, RecordInsert, ReportLine, EndReport, Stop, TypeOK
<1>7. CASE LeaveLoop(l) \/ OpenReport(l) \/ CloseReport(l)
  <2>1. pc[l] \in Inside /\ wire' = wire /\ recv' = recv
    BY <1>7 DEF LeaveLoop, OpenReport, CloseReport, Inside
  <2>2. \/ pc'[l] = "done" /\ lock' = NoLoop
        \/ pc'[l] # "done" /\ lock' = lock
    BY <1>7 DEF LeaveLoop, OpenReport, CloseReport, Unlocked, TypeOK
  <2>3. Stream!Retire(l) \/ UNCHANGED Stream!vars
    BY <1>2, <1>3, <2>1, <2>2 DEF Inside
  <2>4. QED
    BY <2>3 DEF Stream!Next
<1>8. QED
  BY <1>4, <1>5, <1>6, <1>7 DEF LoopStep

(***************************************************************************)
(* The threads, the flag and the callbacks together implement the stream   *)
(* of InsertStream: one owner at a time, no gap, no owner that comes back, *)
(* samples only of what was sent.                                          *)
(***************************************************************************)
THEOREM StreamImplemented == Spec => ImplementsStream
<1>1. Init => Stream!Init
  BY DEF Init, Stream!Init
<1>2. ASSUME TypeOK, OneLoopInside, StreamInv, QuotaInv, SampleInv, [Next]_vars
      PROVE  [Stream!Next]_(Stream!vars)
  <2> DEFINE Done == {k \in Loop : pc[k] = "done"}
  <2>1. CASE \E l \in Loop : LoopStep(l)
    BY <1>2, <2>1, LoopStepSimulates
  <2>2. ASSUME SpawnStep \/ QuietStep
        PROVE  Done' = Done /\ lock' = lock /\ wire' = wire
    BY <1>2, <2>2 DEF SpawnStep, QuietStep, TypeOK
  <2>3. ASSUME SpawnStep \/ QuietStep
        PROVE  [Stream!Next]_(Stream!vars)
    <3>1. CASE recv' = recv
      BY <2>2, <2>3, <3>1 DEF Stream!vars
    <3>2. ASSUME NEW s \in Sim, StoreSample(s), recv' = recv \cup {listener[s].cpid}
          PROVE  [Stream!Next]_(Stream!vars)
      <4>1. listener[s].cpid \in 0..Len(wire)-1
        BY <1>2, <3>2, SampleOnWire DEF StoreSample
      <4>2. Stream!Sample(listener[s].cpid)
        BY <2>2, <2>3, <3>2, <4>1 DEF Stream!Sample
      <4>3. QED
        BY <4>1, <4>2 DEF Stream!Next
    <3>3. QED
      BY <1>2, <3>1, <3>2, SampleCases
  <2>4. QED
    BY <1>2, <2>1, <2>3, StepCases
<1>3. Spec => []QuotaInv
  BY QuotaInvariance
<1>4. QED
  BY <1>1, <1>2, <1>3, TypeCorrect, MutualExclusion, StreamInvariance, SampleInvariance, PTL
     DEF Spec, ImplementsStream, Stream!Spec
-----------------------------------------------------------------------------
(* What is proved of the abstract stream.                                  *)
Abstract == INSTANCE InsertStreamProofs WITH
                owner <- lock, retired <- {l \in Loop : pc[l] = "done"},
                stream <- wire, sampled <- recv

(* They are one specification under two names.                            *)
LEMMA SameStream == Stream!Spec => Abstract!Spec
BY DEF Stream!Spec, Abstract!Spec, Stream!Init, Abstract!Init, Stream!Next, Abstract!Next,
       Stream!vars, Abstract!vars, Stream!Begin, Abstract!Begin, Stream!Emit, Abstract!Emit,
       Stream!Sample, Abstract!Sample, Stream!Retire, Abstract!Retire,
       Stream!FollowingSeq, Abstract!FollowingSeq

(* No loop interrupts another's INSERTs (seqNumCpidLock in                 *)
(* run_insert_loop): the abstract stream has its turns, and the experiment *)
(* implements it.                                                          *)
THEOREM TurnsAreTaken == Spec => []LoopsTakeTurns
<1>1. NoLoop \notin Loop /\ SeqSpace \in Nat \ {0}
  BY NumberAssumption DEF NoLoop, Loop
<1>2. Abstract!Spec => []Abstract!LoopsTakeTurns
  BY <1>1, Abstract!TurnsAreTaken
<1>3. Abstract!LoopsTakeTurns => LoopsTakeTurns
  BY DEF Abstract!LoopsTakeTurns, LoopsTakeTurns, Stream!LoopsTakeTurns
<1>4. QED
  BY <1>2, <1>3, SameStream, StreamImplemented, PTL DEF ImplementsStream

(* The two numbers of an INSERT are one, over all loops and however often  *)
(* seqNum wraps (generate_e2ap_indication_request_parameterized).          *)
THEOREM OneNumber == Spec => []Stream!NumbersAgree
<1>1. NoLoop \notin Loop /\ SeqSpace \in Nat \ {0}
  BY NumberAssumption DEF NoLoop, Loop
<1>2. Abstract!Spec => []Abstract!NumbersAgree
  BY <1>1, Abstract!OneNumber
<1>3. Abstract!NumbersAgree => Stream!NumbersAgree
  BY DEF Abstract!NumbersAgree, Stream!NumbersAgree
<1>4. QED
  BY <1>2, <1>3, SameStream, StreamImplemented, PTL DEF ImplementsStream
-----------------------------------------------------------------------------
(* The whole of the inductive invariant holds in every reachable state:    *)
(* what the threads of the experiment rely on between two of their steps.  *)
THEOREM InvHolds == Spec => []Inv
<1>1. ( /\ TypeOK /\ OneLoopInside /\ StreamInv /\ StopInv
        /\ QuotaInv /\ SampleInv /\ ReportInv ) => Inv
  BY DEF Inv
<1>2. QED
  BY <1>1, TypeCorrect, MutualExclusion, StreamInvariance, StopInvariance, QuotaInvariance,
     SampleInvariance, ReportInvariance, PTL
=============================================================================

----------------------------- MODULE InsertLoop -----------------------------
(***************************************************************************)
(* The experiment of the E2SM-RC simulator (src/e2sim/src/e2sim_rc.cpp and *)
(* e2sm/rc/src/rc_callbacks.cpp): detached threads that run                *)
(* run_insert_loop, one at a time under seqNumCpidLock, and send numbered  *)
(* RIC-INDICATIONs of type INSERT; the three callbacks that the listener   *)
(* thread of each connection runs (subscription, subscription delete,      *)
(* control); and the HTTP handlers that drive an E2Term handover.          *)
(*                                                                         *)
(* A thread's steps are cut where another thread can observe or change     *)
(* what it shares: the volatile flag ok2run, the mutex, the two timestamp  *)
(* maps and current_subscription.  Time is left out: a sleep is a step     *)
(* that may take arbitrarily long.                                         *)
(***************************************************************************)
EXTENDS RcSubscription, FiniteSets

CONSTANTS
    MaxLoop,    \* bound on the insert loop threads that are spawned
    Sim,        \* the E2Sim objects, one per SCTP association (bounds them)
    FirstSim,   \* the one main() creates and connects
    Handler,    \* the threads of the HTTP listener
    Request,    \* the RIC-SUBSCRIPTION-REQUESTs the xApps may send
    Num2Send,   \* cmd_args.num2send, 0 for UNLIMITED_MESSAGES
    MaxCpid,    \* bound on cpid, an unsigned int the model never lets wrap
    SeqSpace      \* seqNum is a uint16_t: 2^16, smaller in the instances

ASSUME SimAssumption == FirstSim \in Sim
ASSUME RequestAssumption ==
    \A r \in Request : r.actions \in Seq([id : Nat, type : RICactionType])
ASSUME NumberAssumption ==
    /\ MaxLoop \in Nat
    /\ Num2Send \in Nat
    /\ MaxCpid \in Nat
    /\ SeqSpace \in Nat \ {0}

VARIABLES
    process,    \* "running", "exited" (exit or return from main), "crashed"
    conn,       \* per E2Sim: its link, one of Links!Link
    listener,   \* per E2Sim: the callback its listener thread is inside of
    handover,   \* per HTTP handler: where it is in drive_e2term_handover
    current,    \* current_subscription
    pc,         \* per loop thread: where it is in run_insert_loop
    args,       \* per loop thread: its arguments (E2Sim and subscription)
    lock,       \* holder of seqNumCpidLock
    ok2run,     \* the global flag of e2sim_rc.cpp
    cpid,       \* next call process id
    seqNum,     \* next sequence number
    sent,       \* keys of sent_ts_map
    recv,       \* keys of recv_ts_map
    size,       \* what size() of recv_ts_map returns
    line,       \* index i of save_timestamp_report, 0 outside of it
    wire,       \* history: the INSERTs that left, all associations together
    missed,     \* history: cpids the callback was handed and did not find
    overrun,    \* history: INSERTs that left since ok2run was last cleared
    torn        \* history: did two listeners ever emplace at once?

(* Loop threads are numbered in the order in which they are spawned. *)
Loop == 1..MaxLoop

NoLoop == 0     \* lock when the mutex is free

external  == <<conn, listener, handover, current>>
counters  == <<cpid, seqNum, sent>>
samples   == <<recv, size>>
histories == <<wire, missed, overrun, torn>>
vars == <<process, external, pc, args, lock, ok2run, counters, samples, line, histories>>

(* The connections below: E2Connection implements Association, and here    *)
(* they change as it allows.                                               *)
Links == INSTANCE Association WITH link <- conn, alive <- (process = "running")
-----------------------------------------------------------------------------
(* The threads' program points. *)
Idle == [at |-> "idle"]

NoSubscription == [req |-> 0, action |-> 0]     \* a zeroed global

Unspawned == [sim |-> FirstSim, sub |-> NoSubscription]

(* Between taking seqNumCpidLock and the end of the function. *)
Inside == {"check", "sending", "recording", "draining", "reporting", "closing"}

LoopPoint == {"unspawned", "starting"} \cup Inside \cup {"done"}

RequestId == {0} \cup {r.id : r \in Request}
ActionId  == {0} \cup {Scan(r.actions).reqActionId : r \in Request}

Subscription == [req : RequestId, action : ActionId]

ListenerPoint ==
    {Idle} \cup [at : {"admitted"}, req : RequestId, action : ActionId]
           \cup [at : {"deleting"}, req : RequestId]
           \cup [at : {"emplacing"}, cpid : Nat]

HandoverPoint == {Idle} \cup [at : {"connected"}, sim : Sim]
                         \cup [at : {"spawned"}, loop : Loop]

Insert == [cpid : Nat, seq : 0..SeqSpace-1, loop : Loop, sub : Subscription]

TypeOK ==
    /\ process \in {"running", "exited", "crashed"}
    /\ conn \in [Sim -> Links!Link]
    /\ listener \in [Sim -> ListenerPoint]
    /\ handover \in [Handler -> HandoverPoint]
    /\ current \in Subscription
    /\ pc \in [Loop -> LoopPoint]
    /\ args \in [Loop -> [sim : Sim, sub : Subscription]]
    /\ lock \in Loop \cup {NoLoop}
    /\ ok2run \in BOOLEAN
    /\ cpid \in Nat /\ seqNum \in 0..SeqSpace-1
    /\ sent \subseteq Nat /\ recv \subseteq Nat
    /\ size \in Nat /\ line \in Nat
    /\ wire \in Seq(Insert)
    /\ missed \subseteq Nat
    /\ overrun \in Nat
    /\ torn \in BOOLEAN
-----------------------------------------------------------------------------
(* ok2run is zero-initialised; main() registers the callbacks of its E2Sim *)
(* before it connects it, and serves handovers even before that.           *)
Init ==
    /\ process = "running"
    /\ conn = [s \in Sim |-> "none"]
    /\ listener = [s \in Sim |-> Idle]
    /\ handover = [h \in Handler |-> Idle]
    /\ current = NoSubscription
    /\ pc = [l \in Loop |-> "unspawned"]
    /\ args = [l \in Loop |-> Unspawned]
    /\ lock = NoLoop
    /\ ok2run = FALSE
    /\ cpid = 0 /\ seqNum = 0
    /\ sent = {} /\ recv = {}
    /\ size = 0 /\ line = 0
    /\ wire = <<>> /\ missed = {} /\ overrun = 0 /\ torn = FALSE

(* The thread stays where it is for ever: the whole process has stopped.   *)
Stop(how) ==
    /\ process' = how
    /\ UNCHANGED <<external, pc, args, lock, ok2run, counters, samples, line, histories>>

(* A detached std::thread that runs run_insert_loop. *)
Spawn(l, s, sub) ==
    /\ pc[l] = "unspawned"
    /\ \A k \in Loop : k < l => pc[k] # "unspawned"
    /\ pc' = [pc EXCEPT ![l] = "starting"]
    /\ args' = [args EXCEPT ![l] = [sim |-> s, sub |-> sub]]
-----------------------------------------------------------------------------
(***************************************************************************)
(* The steps of run_insert_loop, for loop thread l.                        *)
(***************************************************************************)

(* std::mutex: a thread gets it only when no thread holds it; returning    *)
(* from the function destroys the guard, which gives it back.              *)
LockIsFreeAlways == TRUE        \* mutant: no mutex

UnlockedNever == lock           \* mutant: a return that keeps the mutex

LockIsFree == lock = NoLoop

Unlocked == NoLoop

(* The initial sleep ends and std::lock_guard gets the mutex; then         *)
(* ok2run = true, whatever was asked in the meantime.                      *)
AcquireLock(l) ==
    /\ process = "running"
    /\ pc[l] = "starting"
    /\ LockIsFree
    /\ lock' = l
    /\ ok2run' = TRUE
    /\ overrun' = 0
    /\ pc' = [pc EXCEPT ![l] = "check"]
    /\ UNCHANGED <<process, external, args, counters, samples, line, wire, missed, torn>>

MayInsertDeaf == Num2Send = 0 \/ cpid < Num2Send      \* mutant: ignores ok2run

MayInsertGreedy == ok2run                             \* mutant: ignores num2send

(* The condition of the insert loop. *)
MayInsert == ok2run /\ (Num2Send = 0 \/ cpid < Num2Send)

(* Main has freed the E2Sim that loop l sends with. *)
Dangling(l) == conn[args[l].sim] = "deleted"

(* The loop condition holds; the indication is built (thread-local work,   *)
(* but with identifiers it copies from the E2Sim).  The bound MaxCpid cuts *)
(* an unlimited experiment.                                                *)
EnterIteration(l) ==
    /\ process = "running"
    /\ pc[l] = "check"
    /\ MayInsert
    /\ cpid < MaxCpid
    /\ \/ /\ pc' = [pc EXCEPT ![l] = "sending"]
          /\ UNCHANGED <<process, external, args, lock, ok2run, counters, samples, line,
                         histories>>
       \/ Dangling(l) /\ Stop("crashed")

(* generate_e2ap_indication_request_parameterized: the current counters in *)
(* an indication for the subscription that the loop was started with.      *)
Indication(l) == [cpid |-> cpid, seq |-> seqNum, loop |-> l, sub |-> args[l].sub]

(* encode_and_send_sctp_data: a failed send ends the process, as does, in  *)
(* one way or the other, one with an E2Sim that has been freed.            *)
SendInsert(l) ==
    /\ process = "running"
    /\ pc[l] = "sending"
    /\ IF conn[args[l].sim] = "up"
         THEN /\ wire' = Append(wire, Indication(l))
              /\ overrun' = IF ok2run THEN overrun ELSE overrun + 1
              /\ pc' = [pc EXCEPT ![l] = "recording"]
              /\ UNCHANGED <<process, external, args, lock, ok2run, counters,
                             samples, line, missed, torn>>
         ELSE Stop("exited") \/ (Dangling(l) /\ Stop("crashed"))

RecordedKeyLate == cpid + 1     \* mutant: cpid++ before the map is written

NextCpidStuck == cpid           \* mutant: no cpid++

NextSeqNumWide == seqNum + 1    \* mutant: seqNum wider than 16 bits

(* sent_ts_map[cpid] = sent_ns; seqNum++; cpid++; then the interval sleep. *)
RecordedKey == cpid

NextCpid == cpid + 1

NextSeqNum == (seqNum + 1) % SeqSpace

RecordInsert(l) ==
    /\ process = "running"
    /\ pc[l] = "recording"
    /\ sent' = sent \cup {RecordedKey}
    /\ seqNum' = NextSeqNum
    /\ cpid' = NextCpid
    /\ pc' = [pc EXCEPT ![l] = "check"]
    /\ UNCHANGED <<process, external, args, lock, ok2run, samples, line, histories>>

(* The loop condition fails.  Without a report the function returns, which *)
(* releases the mutex; with one, it keeps the mutex for the report.        *)
LeaveLoop(l) ==
    /\ process = "running"
    /\ pc[l] = "check"
    /\ ~MayInsert
    /\ IF Num2Send = 0
         THEN pc' = [pc EXCEPT ![l] = "done"] /\ lock' = Unlocked
         ELSE pc' = [pc EXCEPT ![l] = "draining"] /\ UNCHANGED lock
    /\ UNCHANGED <<process, external, args, ok2run, counters, samples, line, histories>>

(* The report_wait sleep ends and save_timestamp_report opens its file; if *)
(* it cannot, it returns at once.                                          *)
OpenReport(l) ==
    /\ process = "running"
    /\ pc[l] = "draining"
    /\ \/ /\ pc' = [pc EXCEPT ![l] = "reporting"]
          /\ UNCHANGED lock
       \/ /\ pc' = [pc EXCEPT ![l] = "done"]
          /\ lock' = Unlocked
    /\ UNCHANGED <<process, external, args, ok2run, counters, samples, line, histories>>

(* Mutant: the report's loop stops one line early. *)
ReportSizeShort == IF size = 0 THEN 0 ELSE size - 1

(* The bound of the report's loop. *)
ReportSize == size

(* The listener thread of s is inside recv_ts_map->emplace. *)
Emplacing(s) == listener[s].at = "emplacing"

(***************************************************************************)
(* One line of the report.  The size of recv_ts_map is read again for      *)
(* every line.  A key that is missing from either map throws               *)
(* std::out_of_range, which the handler for std::runtime_error does not    *)
(* catch: std::terminate.  Reading while a listener emplaces is a data     *)
(* race, which may also miss the key or crash.                             *)
(***************************************************************************)
ReportLine(l) ==
    /\ process = "running"
    /\ pc[l] = "reporting"
    /\ line < ReportSize
    /\ \/ /\ line \in sent \cap recv
          /\ line' = line + 1
          /\ UNCHANGED <<process, external, pc, args, lock, ok2run, counters, samples,
                         histories>>
       \/ /\ line \notin sent \cap recv \/ \E s \in Sim : Emplacing(s)
          /\ Stop("crashed")

(* The size is read for the last time: there is no line left ... *)
EndReport(l) ==
    /\ process = "running"
    /\ pc[l] = "reporting"
    /\ line >= ReportSize
    /\ pc' = [pc EXCEPT ![l] = "closing"]
    /\ UNCHANGED <<process, external, args, lock, ok2run, counters, samples, line,
                   histories>>

(* ... and the file is closed and the function returns. *)
CloseReport(l) ==
    /\ process = "running"
    /\ pc[l] = "closing"
    /\ pc' = [pc EXCEPT ![l] = "done"]
    /\ lock' = Unlocked
    /\ line' = 0
    /\ UNCHANGED <<process, external, args, ok2run, counters, samples, histories>>
-----------------------------------------------------------------------------
(***************************************************************************)
(* The callbacks, run by the listener thread of E2Sim s.  A message that   *)
(* arrived can still be read after the association is lost.                *)
(***************************************************************************)
Receives(s) ==
    /\ process = "running"
    /\ conn[s] \in {"up", "down"}
    /\ listener[s] = Idle

(* The request is scanned and its response leaves, unless building,        *)
(* encoding or sending it ends the process.                                *)
SubscriptionRequest(s, r) ==
    /\ Receives(s)
    /\ IF Outcome(r.actions) = "sent" /\ conn[s] = "up"
         THEN /\ listener' = [listener EXCEPT ![s] =
                                 [at |-> "admitted", req |-> r.id,
                                  action |-> Scan(r.actions).reqActionId]]
              /\ UNCHANGED <<process, conn, handover, current, pc, args, lock, ok2run,
                             counters, samples, line, histories>>
         ELSE Stop(IF Outcome(r.actions) = "crashed" THEN "crashed" ELSE "exited")

(* current_subscription is assigned and the loop thread is spawned with   *)
(* the callback's own copies of the identifiers.                           *)
SpawnSubscribed(s) ==
    LET sub == [req |-> listener[s].req, action |-> listener[s].action] IN
    /\ process = "running"
    /\ listener[s].at = "admitted"
    /\ current' = sub
    /\ \E l \in Loop : Spawn(l, s, sub)
    /\ listener' = [listener EXCEPT ![s] = Idle]
    /\ UNCHANGED <<process, conn, handover, lock, ok2run, counters, samples, line,
                   histories>>

(* The delete callback clears the flag, whichever request it names ...     *)
DeleteRequest(s, r) ==
    /\ Receives(s)
    /\ ok2run' = FALSE
    /\ overrun' = 0
    /\ listener' = [listener EXCEPT ![s] = [at |-> "deleting", req |-> r.id]]
    /\ UNCHANGED <<process, conn, handover, current, pc, args, lock, counters, samples,
                   line, wire, missed, torn>>

(* ... and then sends the success response. *)
DeleteResponse(s) ==
    /\ process = "running"
    /\ listener[s].at = "deleting"
    /\ IF conn[s] = "up"
         THEN /\ listener' = [listener EXCEPT ![s] = Idle]
              /\ UNCHANGED <<process, conn, handover, current, pc, args, lock, ok2run,
                             counters, samples, line, histories>>
         ELSE Stop("exited")

(* Call process ids the RIC has seen; it may answer late, twice or never.  *)
Seen == {wire[i].cpid : i \in DOMAIN wire}

(* A loop thread is about to write, or writing, into sent_ts_map. *)
Recording == \E l \in Loop : pc[l] = "recording"

RecordedUnchecked(c) == TRUE    \* mutant: operator[] instead of at()

(* What sent_ts_map->at finds when nobody writes the map meanwhile. *)
Recorded(c) == c \in sent

(***************************************************************************)
(* The control callback looks the call process id up in sent_ts_map.       *)
(* Looking it up while a loop inserts a key (any key) is a data race: the  *)
(* lookup may miss a key or crash.  A sample that is found goes on to      *)
(* recv_ts_map, except in an unlimited experiment.                         *)
(***************************************************************************)
ControlRequest(s, c) ==
    /\ Receives(s)
    /\ \/ /\ Recorded(c)
          /\ listener' = IF Num2Send = 0 THEN listener
                         ELSE [listener EXCEPT ![s] = [at |-> "emplacing", cpid |-> c]]
          /\ UNCHANGED <<process, conn, handover, current, pc, args, lock, ok2run,
                         counters, samples, line, histories>>
       \/ /\ ~Recorded(c) \/ Recording
          /\ missed' = missed \cup {c}
          /\ UNCHANGED <<process, external, pc, args, lock, ok2run, counters, samples,
                         line, wire, overrun, torn>>
       \/ /\ Recording
          /\ Stop("crashed")

(* Another listener is inside recv_ts_map->emplace, too. *)
Racing(s) == \E t \in Sim \ {s} : Emplacing(t)

(***************************************************************************)
(* recv_ts_map->emplace keeps an existing entry.  Two listeners emplacing  *)
(* at once race: the entry may be lost, the count of entries be wrong in   *)
(* either direction (no more than MaxCpid + 1, a bound), or the process    *)
(* crash.                                                                  *)
(***************************************************************************)
StoreSample(s) ==
    /\ process = "running"
    /\ Emplacing(s)
    /\ \/ /\ \/ /\ recv' = recv \cup {listener[s].cpid}
                /\ size' = IF listener[s].cpid \in recv THEN size ELSE size + 1
             \/ /\ Racing(s)
                /\ recv' \in {recv, recv \cup {listener[s].cpid}}
                /\ size' \in {size, size + 1} /\ size' <= MaxCpid + 1
          /\ torn' = (torn \/ Racing(s))
          /\ listener' = [listener EXCEPT ![s] = Idle]
          /\ UNCHANGED <<process, conn, handover, current, pc, args, lock, ok2run,
                         counters, line, wire, missed, overrun>>
       \/ /\ Racing(s)
          /\ Stop("crashed")
-----------------------------------------------------------------------------
(***************************************************************************)
(* drive_e2term_handover, run by HTTP handler thread h, to E2Sim s.        *)
(***************************************************************************)

(* is_e2term_endpoint finds E2Sims that lost their association, too.  A    *)
(* request with an empty address also finds those that have no endpoint:   *)
(* one that failed to connect, main's own before it connects, and one that *)
(* another handler is inside run() with.                                   *)
MayReuse(h, s) ==
    \/ conn[s] \in {"up", "down", "failed"}
    \/ conn[s] = "none" /\ (s = FirstSim \/ \E g \in Handler \ {h} : handover[g] = Idle)

(* An E2Sim whose endpoint matches is reused; otherwise a new one is       *)
(* created and run() connects it, maybe to lose it at once, or fails (the  *)
(* module Handover has both in detail); the SIGTERM to main of one that    *)
(* does not connect is one of the occasions of Delete.  The callbacks of a *)
(* reused one are replaced: a data race with its listener, which may be    *)
(* fetching one of them for a message, and crash.  Requests are served     *)
(* until main deletes the E2Sims.                                          *)
HandoverConnect(h, s) ==
    /\ process = "running"
    /\ handover[h] = Idle
    /\ Links!NothingDeleted
    /\ \/ /\ handover' = [handover EXCEPT ![h] = [at |-> "connected", sim |-> s]]
          /\ \/ MayReuse(h, s) /\ UNCHANGED conn
             \/ s # FirstSim /\ (Links!Establish(s) \/ Links!Miss(s) \/ Links!Fail(s))
          /\ UNCHANGED <<process, listener, current, pc, args, lock, ok2run, counters,
                         samples, line, histories>>
       \/ Receives(s) /\ Stop("crashed")

(* What a handler reads from current_subscription.  The fields are         *)
(* assigned one by one without a lock: beside a listener that is about to  *)
(* store them, the handler may find any mixture of old and new ones.       *)
ReadSubscription ==
    LET storing == {listener[s] : s \in {t \in Sim : listener[t].at = "admitted"}}
    IN  [req    : {current.req} \cup {m.req : m \in storing},
         action : {current.action} \cup {m.action : m \in storing}]

(* A loop is spawned for the stored subscription, connected or not ...     *)
HandoverSpawn(h) ==
    /\ process = "running"
    /\ handover[h].at = "connected"
    /\ \E l \in Loop, sub \in ReadSubscription :
          /\ Spawn(l, handover[h].sim, sub)
          /\ handover' = [handover EXCEPT ![h] = [at |-> "spawned", loop |-> l]]
    /\ UNCHANGED <<process, conn, listener, current, lock, ok2run, counters, samples,
                   line, histories>>

(* ... and then the flag is cleared to stop the old one. *)
HandoverStop(h) ==
    /\ process = "running"
    /\ handover[h].at = "spawned"
    /\ ok2run' = FALSE
    /\ overrun' = 0
    /\ handover' = [handover EXCEPT ![h] = Idle]
    /\ UNCHANGED <<process, conn, listener, current, pc, args, lock, counters, samples,
                   line, wire, missed, torn>>
-----------------------------------------------------------------------------
(***************************************************************************)
(* The connections: what Association allows besides the handovers.         *)
(***************************************************************************)

(* main() runs its own E2Sim, the E2Term closes an association or it       *)
(* breaks, or main() has waked on a signal and deletes the E2Sims, one     *)
(* after the other: the HTTP listener has waited for the handlers, the     *)
(* destructor for the listener thread, and nobody for the loops.           *)
ConnectionChanges ==
    /\ process = "running"
    /\ \/ Links!Establish(FirstSim) \/ Links!Miss(FirstSim) \/ Links!Fail(FirstSim)
       \/ Links!Lose
       \/ /\ conn[FirstSim] # "none"
          /\ \A h \in Handler : handover[h] = Idle
          /\ \E s \in Sim : listener[s] = Idle /\ Links!Delete(s)
    /\ UNCHANGED <<process, listener, handover, current, pc, args, lock, ok2run,
                   counters, samples, line, histories>>

(* connection_helper, or the answer to a RIC-SERVICE-QUERY, sends on an    *)
(* association that is lost.                                               *)
ConnectionExits ==
    /\ process = "running"
    /\ \E s \in Sim : conn[s] = "down"
    /\ Stop("exited")

(* main() returns once every E2Sim is deleted; the loop threads are        *)
(* detached and nobody waits for them.                                     *)
Shutdown ==
    /\ process = "running"
    /\ conn[FirstSim] = "deleted"
    /\ \A s \in Sim : conn[s] \in {"none", "deleted"}
    /\ Stop("exited")

LoopStep(l) ==
    \/ AcquireLock(l) \/ EnterIteration(l) \/ SendInsert(l) \/ RecordInsert(l)
    \/ LeaveLoop(l) \/ OpenReport(l) \/ ReportLine(l) \/ EndReport(l) \/ CloseReport(l)

(* A listener or handler thread goes on with what it has begun. *)
CallbackStep(s) ==
    SpawnSubscribed(s) \/ DeleteResponse(s) \/ StoreSample(s)

HandoverStep(h) == HandoverSpawn(h) \/ HandoverStop(h)

Next ==
    \/ \E l \in Loop : LoopStep(l)
    \/ \E s \in Sim : \/ CallbackStep(s)
                      \/ \E r \in Request : SubscriptionRequest(s, r) \/ DeleteRequest(s, r)
                      \/ \E c \in Seen : ControlRequest(s, c)
    \/ \E h \in Handler : HandoverStep(h) \/ \E s \in Sim : HandoverConnect(h, s)
    \/ ConnectionChanges \/ ConnectionExits \/ Shutdown

Spec == Init /\ [][Next]_vars

(* The scheduler runs every thread of a live process; nothing forces the   *)
(* RIC, the HTTP client or an operator to do anything.                     *)
Fairness ==
    /\ \A l \in Loop : WF_vars(LoopStep(l))
    /\ \A s \in Sim : WF_vars(CallbackStep(s))
    /\ \A h \in Handler : WF_vars(HandoverStep(h))

FairSpec == Spec /\ Fairness
-----------------------------------------------------------------------------
(***************************************************************************)
(* Safety.                                                                 *)
(***************************************************************************)

(* seqNumCpidLock does its work: at most one thread is between taking it   *)
(* and returning, and that thread is its holder.  The counters, declared   *)
(* "guarded by seqNumCpidLock", depend on it.                              *)
OneLoopInside ==
    \A l \in Loop : pc[l] \in Inside <=> lock = l

(* Across loops, deletes, handovers and associations the INSERTs form one  *)
(* stream: call process ids count up from 0 without gap or repetition and  *)
(* sequence numbers follow one another modulo SeqSpace.                      *)
OneNumberedStream ==
    /\ \A i \in DOMAIN wire : wire[i].cpid = i - 1
    /\ wire # <<>> => wire[1].seq = 0
    /\ \A i \in 1..Len(wire)-1 : wire[i+1].seq = (wire[i].seq + 1) % SeqSpace

(* sent_ts_map has exactly the call process ids below cpid; it lags behind *)
(* the wire by the one INSERT a loop has sent and not yet recorded.        *)
SentMapFollowsWire ==
    /\ sent = 0..cpid-1
    /\ Len(wire) = cpid + (IF Recording THEN 1 ELSE 0)

(* The latency samples are of INSERTs whose send time is known: the report *)
(* can subtract for every key of recv_ts_map.                              *)
SamplesWereSent == recv \subseteq sent

(* Clearing ok2run stops the running loop soon: until a loop takes the     *)
(* mutex again, at most the INSERT that was being built still leaves.      *)
OverrunBounded == overrun <= 1

(* --num2send limits the INSERTs of the whole experiment, however many     *)
(* subscriptions, deletes and handovers it has.                            *)
QuotaKept == Num2Send # 0 => Len(wire) <= Num2Send

(* A report that finds no line left has one for every sample there is at   *)
(* that moment, and the samples are those of the first INSERTs, without    *)
(* hole: unless the listeners of two E2Sims ever stored samples at once.   *)
FinishedReportIsComplete ==
    [][\A l \in Loop : (pc[l] = "reporting" /\ pc'[l] = "closing" /\ ~torn) =>
           recv = 0..line-1]_vars
(***************************************************************************)
(* The inductive invariant.  Each part strengthens one of the properties   *)
(* above with what a loop thread knows between two of its steps.           *)
(***************************************************************************)

(* seqNum follows the last INSERT, once that INSERT is recorded.           *)
StreamInv ==
    /\ OneNumberedStream
    /\ SentMapFollowsWire
    /\ wire = <<>> => seqNum = 0
    /\ wire # <<>> =>
          IF Recording THEN seqNum = wire[Len(wire)].seq
                       ELSE seqNum = (wire[Len(wire)].seq + 1) % SeqSpace

(* The one INSERT that overruns a stop was being built when it came. *)
StopInv ==
    /\ OverrunBounded
    /\ ok2run => overrun = 0
    /\ overrun # 0 => \A l \in Loop : pc[l] # "sending"

QuotaInv ==
    Num2Send # 0 =>
        /\ cpid <= Num2Send
        /\ \A l \in Loop : pc[l] \in {"sending", "recording"} => cpid < Num2Send

(* What a listener is about to emplace has its send time. *)
SampleInv ==
    /\ SamplesWereSent
    /\ \A s \in Sim : Emplacing(s) => listener[s].cpid \in sent

(* The lines written so far are of samples, and no more than there are     *)
(* said to be: as many as there are, unless two listeners raced.           *)
ReportInv ==
    /\ IsFiniteSet(recv)
    /\ ~torn => size = Cardinality(recv)
    /\ 0..line-1 \subseteq recv
    /\ \A l \in Loop : pc[l] \in {"reporting", "closing"} => line <= size
    /\ (\A l \in Loop : pc[l] \notin {"reporting", "closing"}) => line = 0

Inv ==
    /\ TypeOK /\ OneLoopInside /\ StreamInv /\ StopInv
    /\ QuotaInv /\ SampleInv /\ ReportInv

(* The experiment implements the stream InsertStream describes: the holder *)
(* of the mutex is its owner, the loops that returned have retired.        *)
Stream == INSTANCE InsertStream WITH
              owner <- lock, retired <- {l \in Loop : pc[l] = "done"},
              stream <- wire, sampled <- recv

ImplementsStream == Stream!Spec

(* The RIC sees the loops one after the other: however subscriptions,      *)
(* deletes and handovers race, the INSERTs of one loop, and with them the  *)
(* identifiers of its subscription, are not interrupted by another's.      *)
LoopsTakeTurns == Stream!LoopsTakeTurns
-----------------------------------------------------------------------------
(***************************************************************************)
(* Liveness, under FairSpec.                                               *)
(***************************************************************************)

(* With --num2send, every loop that was spawned returns, if the process    *)
(* lives: the mutex is always given back.                                  *)
LoopsFinish ==
    \A l \in Loop : pc[l] = "starting" ~> (pc[l] = "done" \/ process # "running")

(* Once ok2run is cleared, the mutex is given back, unless another thread  *)
(* sets the flag again.                                                    *)
StopFreesLock ==
    ~ok2run ~> (lock = NoLoop \/ ok2run \/ process # "running")
-----------------------------------------------------------------------------
(***************************************************************************)
(* What comments of the code promise and the code does not keep.           *)
(***************************************************************************)

(* "controls if the experiment should keep running" (the flag that a       *)
(* subscription delete clears): a loop that was spawned for a subscription *)
(* and has not started when the subscription is deleted never starts.      *)
DeletedStaysDeleted ==
    \A l \in Loop, s \in Sim :
        [](( /\ listener[s].at = "deleting"
             /\ pc[l] = "starting"
             /\ args[l].sim = s
             /\ args[l].sub.req = listener[s].req) => [](pc[l] = "starting"))

(* "on handoff this will only get here after the old run_insert_loop sets  *)
(* ok2run to false and gets out of this function": when the loop of a      *)
(* handover has the mutex, the loops spawned before it are done.           *)
HandoffAfterOldLoop ==
    \A h \in Handler :
        (handover[h].at = "spawned" /\ lock = handover[h].loop) =>
            \A k \in Loop : k < lock => pc[k] = "done"

(* "this will stop the old run_insert_loop": what a handover stops is not  *)
(* the loop it has just spawned.                                           *)
HandoverSparesItsLoop ==
    [][\A h \in Handler :
          (handover[h].at = "spawned" /\ handover'[h] = Idle) =>
              lock # handover[h].loop]_vars

(* "Wait seconds for draining replies and generate the final report", and  *)
(* a missing timestamp is meant to be logged and skipped: a line of the    *)
(* report does not end the process, when no listener stores a sample       *)
(* meanwhile.                                                              *)
ReportIsGenerated ==
    [][\A l \in Loop : (ReportLine(l) /\ \A s \in Sim : ~Emplacing(s))
           => process' # "crashed"]_vars

(* recv_ts_map holds the "timestamp of received messages (CONTROL)": no    *)
(* CONTROL that answers an INSERT is dropped for want of its send time.    *)
AnsweredIsSampled == missed = {}

(* current_subscription "stores the received subscription to use in e2term *)
(* handover": every INSERT carries the ids of a request that was received. *)
InsertsNameASubscription ==
    \A i \in DOMAIN wire : \E r \in Request :
        wire[i].sub = [req |-> r.id, action |-> Scan(r.actions).reqActionId]
=============================================================================

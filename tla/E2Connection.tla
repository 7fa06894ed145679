---------------------------- MODULE E2Connection ----------------------------
(***************************************************************************)
(* The life of the E2 connections of the simulator: E2Sim::run, the two    *)
(* threads each E2Sim starts (listener and connection_helper) and its      *)
(* shutdown and destructor (src/e2sim/e2ap/src/base/e2sim.cpp), the SCTP   *)
(* calls they make (e2ap/src/SCTP/e2sim_sctp.cpp) and main, which connects *)
(* the first E2Sim, waits for a signal and takes all of them down          *)
(* (src/e2sim/src/e2sim_rc.cpp).  Every other E2Sim is run by a thread of  *)
(* the HTTP listener, during a handover.                                   *)
(*                                                                         *)
(* The kernel is modelled as far as the code depends on it: descriptors    *)
(* are numbers that are reused, lowest first, and a number names whatever  *)
(* association it was last given to; a call under way keeps the one it was *)
(* made on.  Time is left out: a timeout may come at any moment.           *)
(***************************************************************************)
EXTENDS Naturals, Sequences, FiniteSets

CONSTANTS
    Sim,        \* the E2Sim objects (bounds them)
    FirstSim,   \* the one main() creates
    NoSim,      \* none of them
    SetupAttempts,  \* the attempts of connection_helper: 3 in the code
    MaxAddresses,   \* bound on the addresses getaddrinfo() finds
    PeerMessage,    \* what the E2Terms send (a bound: some of Message)
    PeerEnding,     \* how associations end (a bound: some of Ended)
    MaxInbox        \* bound on the messages that wait in a socket

ASSUME SimsAssumption == FirstSim \in Sim /\ NoSim \notin Sim /\ IsFiniteSet(Sim)

VARIABLES
    process,    \* "running", "exited" (exit(1)), "crashed", "returned" (from main)
    main,       \* "connecting", "waiting", "stopping", "deleting"
    sigterm,    \* is a SIGTERM or SIGINT pending?
    alarm,      \* the E2Sim whose connect armed alarm(10), or NoSim
    e2sims,     \* the vector of E2Sims; its head is the next one to delete
    runner,     \* per E2Sim: where run() is; "addresses" is between two connects
    addresses,  \* per E2Sim: the addresses its connect has left to try
    clientFd,   \* per E2Sim: client_fd (from socket() on), or NoFd
    ok2run,     \* per E2Sim: controls the loop of its listener
    retry,      \* per E2Sim: retryConnection
    listener,   \* per E2Sim: where its listener thread is
    helper,     \* per E2Sim: where its connection_helper thread is
    retries,    \* per E2Sim: the attempts connection_helper has left
    file,       \* kernel: the E2Sim whose association a descriptor names
    on,         \* per E2Sim: the association its listener's recv() was called on
    assoc,      \* per E2Sim: "none", "open", or how it ended
    inbox,      \* per E2Sim: what its E2Term has sent and nobody received
    asked,      \* history: has the E2Term of an E2Sim received a SETUP-REQUEST?
    late,       \* history: SETUP-REQUESTs sent with retryConnection false
    taken       \* history: the E2Sims whose descriptor another one has closed

kernel    == <<file, on, assoc, inbox>>
threads   == <<ok2run, retry, listener, helper, retries>>
runs      == <<runner, addresses, clientFd>>
starting  == <<main, sigterm, alarm, e2sims, runs>>
histories == <<asked, late, taken>>
vars == <<process, starting, threads, kernel, histories>>

(* A descriptor is opened by run() only, one at a time per E2Sim; those of *)
(* the HTTP listener, of Prometheus and of the report are left out.        *)
NoFd == 0

Fd == 1..Cardinality(Sim)

(* What an E2Term can send: the answers to E2-SETUP-REQUEST, such a        *)
(* request of its own, a removal response, and a RIC-SERVICE-QUERY.  The   *)
(* RIC messages that reach the callbacks change nothing here.              *)
Message == {"setupSuccess", "setupFailure", "setupRequest", "removalResponse",
            "serviceQuery"}

(* The listener answers these: a query at once, a request now and again 5  *)
(* seconds later.                                                          *)
Answered == {"serviceQuery", "setupRequest"}

(* The E2Term has closed the association, or it broke (ECONNRESET,         *)
(* ETIMEDOUT), which recv() reports before it returns 0.                   *)
Ended == {"eof", "broken"}

ASSUME BoundsAssumption ==
    /\ SetupAttempts \in Nat
    /\ MaxAddresses \in Nat /\ MaxInbox \in Nat
    /\ PeerMessage \subseteq Message /\ PeerEnding \subseteq Ended

TypeOK ==
    /\ process \in {"running", "exited", "crashed", "returned"}
    /\ main \in {"connecting", "waiting", "stopping", "deleting"}
    /\ sigterm \in BOOLEAN
    /\ alarm \in Sim \cup {NoSim}
    /\ e2sims \in Seq(Sim)
    /\ runner \in [Sim -> {"none", "addresses", "connecting", "returned"}]
    /\ addresses \in [Sim -> 0..MaxAddresses]
    /\ clientFd \in [Sim -> Fd \cup {NoFd}]
    /\ ok2run \in [Sim -> BOOLEAN] /\ retry \in [Sim -> BOOLEAN]
    /\ listener \in [Sim -> {"none", "spawned", "check", "recv", "closing", "sleep",
                              "join", "done"}]
    /\ helper \in [Sim -> {"none", "check", "send", "wait", "giveup", "done"}]
    /\ retries \in [Sim -> 0..SetupAttempts]
    /\ file \in [Fd -> Sim \cup {NoSim}]
    /\ on \in [Sim -> Sim \cup {NoSim}]
    /\ assoc \in [Sim -> {"none", "open"} \cup Ended]
    /\ inbox \in [Sim -> Seq(Message)]
    /\ asked \in [Sim -> BOOLEAN] /\ late \in [Sim -> Nat] /\ taken \subseteq Sim

(* E2Sim::ok2run is not initialised; nothing reads it before the listener  *)
(* thread sets it.                                                         *)
Init ==
    /\ process = "running"
    /\ main = "connecting"
    /\ sigterm = FALSE
    /\ alarm = NoSim
    /\ e2sims = <<>>
    /\ runner = [s \in Sim |-> "none"]
    /\ addresses = [s \in Sim |-> 0]
    /\ clientFd = [s \in Sim |-> NoFd]
    /\ ok2run = [s \in Sim |-> FALSE] /\ retry = [s \in Sim |-> TRUE]
    /\ listener = [s \in Sim |-> "none"]
    /\ helper = [s \in Sim |-> "none"]
    /\ retries = [s \in Sim |-> SetupAttempts]
    /\ file = [f \in Fd |-> NoSim]
    /\ on = [s \in Sim |-> NoSim]
    /\ assoc = [s \in Sim |-> "none"]
    /\ inbox = [s \in Sim |-> <<>>]
    /\ asked = [s \in Sim |-> FALSE] /\ late = [s \in Sim |-> 0]
    /\ taken = {}

(* The association a descriptor names; a send or recv on none is EBADF.    *)
Named(fd) == IF fd = NoFd THEN NoSim ELSE file[fd]

Closed(fd) == IF fd = NoFd THEN file ELSE [file EXCEPT ![fd] = NoSim]

(* Does client_fd name an open association, whoever's? *)
Usable(s) == Named(clientFd[s]) # NoSim /\ assoc[Named(clientFd[s])] = "open"

(* exit(1), from whichever thread: nothing runs any more.                  *)
Exit ==
    /\ process' = "exited"
    /\ UNCHANGED <<starting, threads, kernel, histories>>
-----------------------------------------------------------------------------
(***************************************************************************)
(* E2Sim::run, by main for FirstSim and by a handover for the others, with *)
(* sctp_start_client, which tries the addresses of the host in turn.       *)
(***************************************************************************)

(* The E2Sim is created and joins the vector; its run() asks for the       *)
(* addresses, of which there are none if getaddrinfo() fails.  Handovers   *)
(* are served from before main creates its own E2Sim until the deletion.   *)
StartRun(s) ==
    /\ process = "running"
    /\ runner[s] = "none"
    /\ IF s = FirstSim THEN main = "connecting" ELSE main # "deleting"
    /\ e2sims' = Append(e2sims, s)
    /\ runner' = [runner EXCEPT ![s] = "addresses"]
    /\ \E n \in 0..MaxAddresses : addresses' = [addresses EXCEPT ![s] = n]
    /\ UNCHANGED <<process, main, sigterm, alarm, clientFd, threads, kernel, histories>>

ArmedOnce(s) == IF clientFd[s] = NoFd THEN s ELSE alarm   \* mutant: alarm(10) before the loop

(* alarm(10), in place of any other alarm of the process. *)
Armed(s) == s

(* rp = rp->ai_next *)
AddressesLeft(s) == addresses[s] - 1

(* socket() takes the lowest free descriptor and the alarm is armed for    *)
(* connect(); or it fails, and the address is skipped.                     *)
OpenSocket(s) ==
    LET free == {f \in Fd : file[f] = NoSim} IN
    /\ process = "running"
    /\ runner[s] = "addresses"
    /\ addresses[s] > 0
    /\ addresses' = [addresses EXCEPT ![s] = AddressesLeft(s)]
    /\ \/ \E f \in free :
             /\ \A g \in free : f <= g
             /\ file' = [file EXCEPT ![f] = s]
             /\ clientFd' = [clientFd EXCEPT ![s] = f]
             /\ runner' = [runner EXCEPT ![s] = "connecting"]
             /\ alarm' = Armed(s)
       \/ /\ clientFd' = [clientFd EXCEPT ![s] = NoFd]
          /\ UNCHANGED <<file, runner, alarm>>
    /\ UNCHANGED <<process, main, sigterm, e2sims, threads, on, assoc, inbox, histories>>

(* main goes on to sigwait when its own run() has returned. *)
MainAfterRun(s) == IF s = FirstSim THEN "waiting" ELSE main

(* connect() succeeds: the alarm is disarmed and the listener starts, if   *)
(* setsockopt() finds the descriptor, whosever it is now.                  *)
ConnectSucceeds(s) ==
    /\ process = "running"
    /\ runner[s] = "connecting"
    /\ assoc' = [assoc EXCEPT ![s] = "open"]
    /\ alarm' = NoSim
    /\ \/ /\ Named(clientFd[s]) # NoSim
          /\ listener' = [listener EXCEPT ![s] = "spawned"]
          /\ UNCHANGED sigterm
       \/ /\ Named(clientFd[s]) = NoSim
          /\ sigterm' = TRUE
          /\ UNCHANGED listener
    /\ runner' = [runner EXCEPT ![s] = "returned"]
    /\ main' = MainAfterRun(s)
    /\ UNCHANGED <<process, e2sims, addresses, clientFd, ok2run, retry, helper, retries,
                   file, on, inbox, histories>>

(* connect() fails and the number is closed, whatever it names by now; a   *)
(* recv() on the socket fails with it.  The alarm stays armed.             *)
AttemptFails(s) ==
    /\ file' = Closed(clientFd[s])
    /\ taken' = (taken \cup {Named(clientFd[s])}) \ {s, NoSim}
    /\ on' = [t \in Sim |-> IF on[t] = s THEN NoSim ELSE on[t]]
    /\ runner' = [runner EXCEPT ![s] = "addresses"]
    /\ UNCHANGED <<process, main, sigterm, e2sims, addresses, clientFd, threads, assoc,
                   inbox, asked, late>>

AlarmOff == NoSim       \* mutant: alarm(0) however connect() ends

(* Only the branch of success calls alarm(0).                              *)
AlarmAfterFailure == alarm

ConnectFails(s) ==
    /\ process = "running"
    /\ runner[s] = "connecting"
    /\ AttemptFails(s)
    /\ alarm' = AlarmAfterFailure

FailedFdStale(s) == clientFd[s]     \* mutant: the last number tried is returned

(* What sctp_start_client returns when no address was left. *)
FailedFd(s) == NoFd

(* run() gives up and sends SIGTERM to the whole process. *)
RunFails(s) ==
    /\ process = "running"
    /\ runner[s] = "addresses"
    /\ addresses[s] = 0
    /\ clientFd' = [clientFd EXCEPT ![s] = FailedFd(s)]
    /\ retry' = [retry EXCEPT ![s] = FALSE]
    /\ sigterm' = TRUE
    /\ runner' = [runner EXCEPT ![s] = "returned"]
    /\ main' = MainAfterRun(s)
    /\ UNCHANGED <<process, alarm, e2sims, addresses, ok2run, listener, helper, retries,
                   kernel, histories>>

(***************************************************************************)
(* SIGALRM is sent to the process, which gives it to main whenever main    *)
(* waits in sigwait, which ignores it, or has it unblocked: during its own *)
(* connect(), and for good once that succeeds.  Every thread inherits      *)
(* main's full mask and unblocks it for its own connect(), or for good if  *)
(* that succeeds, for itself and for the threads it starts.                *)
(***************************************************************************)
MainBlocksAlarm ==
    \/ runner[FirstSim] \in {"none", "addresses"}
    \/ main = "stopping" /\ assoc[FirstSim] = "none"

(* The signal may end the connect() of s: main's own, or, while main has   *)
(* the signal blocked, any other.                                          *)
AlarmReaches(s) == runner[s] = "connecting" /\ (s = FirstSim \/ MainBlocksAlarm)

(* It is lost on main, on the threads of an E2Sim that has connected, or   *)
(* on nobody.                                                              *)
AlarmIsLost ==
    \/ \A s \in Sim : ~AlarmReaches(s)
    \/ MainBlocksAlarm /\ \E s \in Sim : assoc[s] # "none"

AlarmExpires ==
    /\ process = "running"
    /\ alarm # NoSim
    /\ alarm' = NoSim
    /\ \/ \E s \in Sim : AlarmReaches(s) /\ AttemptFails(s)
       \/ /\ AlarmIsLost
          /\ UNCHANGED <<process, main, sigterm, e2sims, runs, threads, kernel, histories>>
-----------------------------------------------------------------------------
(***************************************************************************)
(* main after its run(): sigwait, E2Sim::shutdown of every E2Sim, and the  *)
(* destructors, which join the listener and close the descriptor.          *)
(***************************************************************************)

(* An operator sends SIGINT or SIGTERM. *)
OperatorStops ==
    /\ process = "running"
    /\ ~sigterm
    /\ sigterm' = TRUE
    /\ UNCHANGED <<process, main, alarm, e2sims, runs, threads, kernel, histories>>

MainWakes ==
    /\ process = "running"
    /\ main = "waiting"
    /\ sigterm
    /\ main' = "stopping"
    /\ sigterm' = FALSE
    /\ UNCHANGED <<process, alarm, e2sims, runs, threads, kernel, histories>>

InRunUnseen(s) == FALSE     \* mutant: main does not wait for the handovers

(* Between StartRun and the return of run().                               *)
InRun(s) == runner[s] \in {"addresses", "connecting"}

(* Closing the HTTP listener waits for the handovers it is driving.        *)
ShutdownAll ==
    LET owned == {e2sims[i] : i \in DOMAIN e2sims} IN
    /\ process = "running"
    /\ main = "stopping"
    /\ \A s \in Sim : ~InRun(s)
    /\ retry'  = [s \in Sim |-> retry[s] /\ s \notin owned]
    /\ ok2run' = [s \in Sim |-> ok2run[s] /\ s \notin owned]
    /\ main' = "deleting"
    /\ UNCHANGED <<process, sigterm, alarm, e2sims, runs, listener, helper, retries,
                   kernel, histories>>

JoinedAlways(s) == TRUE        \* mutant: the destructor does not join

(* The destructor's join returns: there is no listener, or it has ended.   *)
Joined(s) == listener[s] \in {"none", "done"}

Delete ==
    /\ process = "running"
    /\ main = "deleting"
    /\ IF e2sims = <<>>
         THEN process' = "returned" /\ UNCHANGED <<e2sims, file>>
         ELSE /\ Joined(Head(e2sims))
              /\ file' = Closed(clientFd[Head(e2sims)])
              /\ e2sims' = Tail(e2sims)
              /\ UNCHANGED process
    /\ UNCHANGED <<main, sigterm, alarm, runs, threads, on, assoc, inbox, histories>>
-----------------------------------------------------------------------------
(***************************************************************************)
(* The listener thread of E2Sim s.                                         *)
(***************************************************************************)

(* It starts the helper thread and then sets ok2run, whatever shutdown()   *)
(* has stored there.                                                       *)
ListenerStart(s) ==
    /\ process = "running"
    /\ listener[s] = "spawned"
    /\ helper' = [helper EXCEPT ![s] = "check"]
    /\ ok2run' = [ok2run EXCEPT ![s] = TRUE]
    /\ listener' = [listener EXCEPT ![s] = "check"]
    /\ UNCHANGED <<process, starting, retry, retries, kernel, histories>>

LeavesLoopNever(s) == FALSE     \* mutant: while (true)

LeavesLoop(s) == ~ok2run[s]

(* It looks at the flag, then calls recv() on what client_fd names now.    *)
ListenerCheck(s) ==
    /\ process = "running"
    /\ listener[s] = "check"
    /\ \/ /\ LeavesLoop(s)
          /\ listener' = [listener EXCEPT ![s] = "join"]
          /\ UNCHANGED on
       \/ /\ ~LeavesLoop(s)
          /\ listener' = [listener EXCEPT ![s] = "recv"]
          /\ on' = [on EXCEPT ![s] = Named(clientFd[s])]
    /\ UNCHANGED <<process, starting, ok2run, retry, helper, retries, file, assoc, inbox,
                   histories>>

(* E2Sim::shutdown(), called by the listener itself. *)
StopsItself(s) ==
    /\ retry' = [retry EXCEPT ![s] = FALSE]
    /\ ok2run' = [ok2run EXCEPT ![s] = FALSE]

(* e2ap_handle_sctp_data, for the messages that concern the connection.    *)
Handle(s, msg) ==
    CASE msg = "setupSuccess"    -> /\ retry' = [retry EXCEPT ![s] = FALSE]
                                    /\ UNCHANGED ok2run
      [] msg = "removalResponse" -> StopsItself(s)
      [] OTHER                   -> UNCHANGED <<retry, ok2run>>

(* recv() has returned and the listener goes on at another point.          *)
Receives(s, point) ==
    /\ process = "running"
    /\ listener[s] = "recv"
    /\ listener' = [listener EXCEPT ![s] = point]
    /\ UNCHANGED <<starting, helper, retries, file, assoc, histories>>

(* A message, which is handled; the answer leaves on the descriptor, which *)
(* ends the process if no open association is there by now.                *)
RecvMessage(s) ==
    LET a == on[s] IN
    /\ a # NoSim
    /\ inbox[a] # <<>>
    /\ Receives(s, IF Head(inbox[a]) = "setupRequest" THEN "sleep" ELSE "check")
    /\ IF Head(inbox[a]) \in Answered /\ ~Usable(s) THEN process' = "exited"
                                                      ELSE UNCHANGED process
    /\ Handle(s, Head(inbox[a]))
    /\ inbox' = [inbox EXCEPT ![a] = Tail(inbox[a])]
    /\ on' = [on EXCEPT ![s] = NoSim]

(* EAGAIN after 2 seconds, or EINTR: it goes on. *)
RecvTimesOut(s) ==
    /\ on[s] # NoSim
    /\ inbox[on[s]] = <<>> /\ assoc[on[s]] \notin Ended
    /\ Receives(s, "check")
    /\ on' = [on EXCEPT ![s] = NoSim]
    /\ UNCHANGED <<process, retry, ok2run, inbox>>

(* EBADF, ENOTCONN on a socket that connect() has not done with, or what   *)
(* broke the association: any other error shuts this E2Sim down.           *)
RecvFails(s) ==
    /\ on[s] # NoSim => inbox[on[s]] = <<>> /\ assoc[on[s]] \in {"none", "broken"}
    /\ Receives(s, "check")
    /\ StopsItself(s)
    /\ on' = [on EXCEPT ![s] = NoSim]
    /\ UNCHANGED <<process, inbox>>

ClosesOnTimeout(a) == TRUE      \* mutant: the descriptor is closed at any 0

(* recv() returned 0 of its own: the association is over. *)
ClosedByPeer(a) == assoc[a] \in Ended

(* The descriptor is about to be closed. *)
RecvEnds(s) ==
    /\ on[s] # NoSim
    /\ inbox[on[s]] = <<>> /\ ClosedByPeer(on[s])
    /\ Receives(s, "closing")
    /\ UNCHANGED <<process, retry, ok2run, on, inbox>>

ClosesAgain(s) == "closing"     \* mutant: close() is repeated, as after an EINTR

(* sctp_receive_data returns 0 after that, as after a timeout.             *)
AfterClose(s) == "check"

(* close() of the number, whatever it names by now; if that is nothing     *)
(* (EBADF) the listener shuts its E2Sim down.                              *)
ListenerCloses(s) ==
    LET a == Named(clientFd[s]) IN
    /\ process = "running"
    /\ listener[s] = "closing"
    /\ \/ /\ a = NoSim
          /\ StopsItself(s)
          /\ UNCHANGED <<file, taken>>
       \/ /\ a # NoSim
          /\ file' = Closed(clientFd[s])
          /\ taken' = taken \cup ({a} \ {on[s]})
          /\ UNCHANGED <<retry, ok2run>>
    /\ on' = [on EXCEPT ![s] = NoSim]
    /\ listener' = [listener EXCEPT ![s] = AfterClose(s)]
    /\ UNCHANGED <<process, starting, helper, retries, assoc, inbox, asked, late>>

(* e2ap_handle_E2SetupRequest wakes from its sleep and sends once more.    *)
ListenerAnswers(s) ==
    /\ process = "running"
    /\ listener[s] = "sleep"
    /\ IF Usable(s)
         THEN /\ listener' = [listener EXCEPT ![s] = "check"]
              /\ UNCHANGED <<process, starting, ok2run, retry, helper, retries, kernel,
                             histories>>
         ELSE Exit

(* It joins the helper thread, which it wakes first. *)
ListenerEnd(s) ==
    /\ process = "running"
    /\ listener[s] = "join"
    /\ helper[s] = "done"
    /\ listener' = [listener EXCEPT ![s] = "done"]
    /\ UNCHANGED <<process, starting, ok2run, retry, helper, retries, kernel, histories>>
-----------------------------------------------------------------------------
(***************************************************************************)
(* The connection_helper thread of E2Sim s.                                *)
(***************************************************************************)

RetriesDeaf(s) == retries[s] > 0        \* mutant: ignores retryConnection

RetriesForever(s) == retry[s]           \* mutant: ignores retries

Retries(s) == retry[s] /\ retries[s] > 0

(* The condition of its loop; once out of attempts, retryConnection is     *)
(* read again before giving up.                                            *)
HelperCheck(s) ==
    /\ process = "running"
    /\ helper[s] = "check"
    /\ helper' = [helper EXCEPT ![s] =
                     IF Retries(s) THEN "send"
                     ELSE IF retry[s] /\ retries[s] = 0 THEN "giveup" ELSE "done"]
    /\ UNCHANGED <<process, starting, ok2run, retry, listener, retries, kernel, histories>>

(* sctp_send_data ends the process when the descriptor or the association  *)
(* is closed.                                                              *)
HelperSend(s) ==
    LET a == Named(clientFd[s]) IN
    /\ process = "running"
    /\ helper[s] = "send"
    /\ IF a # NoSim /\ assoc[a] = "open"
         THEN /\ asked' = [asked EXCEPT ![a] = TRUE]
              /\ late' = IF retry[s] THEN late ELSE [late EXCEPT ![s] = @ + 1]
              /\ helper' = [helper EXCEPT ![s] = "wait"]
              /\ UNCHANGED <<process, starting, ok2run, retry, listener, retries, kernel,
                             taken>>
         ELSE Exit

NextRetriesStuck(s) == retries[s]       \* mutant: no retries--

NextRetries(s) == retries[s] - 1

(* The wait ends: after 10 seconds, when the listener notifies, or         *)
(* spuriously, for it has no predicate.  A SETUP-RESPONSE does not end it. *)
HelperWakes(s) ==
    /\ process = "running"
    /\ helper[s] = "wait"
    /\ retries' = [retries EXCEPT ![s] = NextRetries(s)]
    /\ helper' = [helper EXCEPT ![s] = "check"]
    /\ UNCHANGED <<process, starting, ok2run, retry, listener, kernel, histories>>

(* SIGTERM to the process: the main program is to shut down.               *)
HelperGivesUp(s) ==
    /\ process = "running"
    /\ helper[s] = "giveup"
    /\ sigterm' = TRUE
    /\ helper' = [helper EXCEPT ![s] = "done"]
    /\ UNCHANGED <<process, main, alarm, e2sims, runs, ok2run, retry, listener, retries,
                   kernel, histories>>
-----------------------------------------------------------------------------
(***************************************************************************)
(* The experiment above (InsertLoop) sends its INSERTs and answers through *)
(* the E2Sims: detached loop threads hold pointers to them that nobody     *)
(* ever takes back.  A send that succeeds changes nothing here.            *)
(***************************************************************************)

(* Is the E2Sim in the vector? *)
Owned(s) == \E i \in DOMAIN e2sims : e2sims[i] = s

Deleted(s) == runner[s] = "returned" /\ ~Owned(s)

(* A loop is spawned by the subscription callback, run by the listener, or *)
(* by a handover once its run() has returned, even if that failed.         *)
MayHaveLoop(s) == runner[s] = "returned" /\ (s # FirstSim \/ listener[s] # "none")

(* A failed send ends the process; so, in one way or the other, does the   *)
(* use of an E2Sim that main has freed, whose descriptor is closed.        *)
LoopSends(s) ==
    /\ process = "running"
    /\ MayHaveLoop(s)
    /\ \/ ~Usable(s) /\ process' = "exited"
       \/ Deleted(s) /\ process' \in {"exited", "crashed"}
    /\ UNCHANGED <<starting, threads, kernel, histories>>
-----------------------------------------------------------------------------
(* The E2Term of s and the network, external: it answers a SETUP-REQUEST   *)
(* it received and may send other messages at any time; the association    *)
(* may end.                                                                *)
PeerSends(s, msg) ==
    /\ process = "running"
    /\ assoc[s] = "open"
    /\ Len(inbox[s]) < MaxInbox
    /\ msg \in {"setupSuccess", "setupFailure"} => asked[s]
    /\ inbox' = [inbox EXCEPT ![s] = Append(@, msg)]
    /\ UNCHANGED <<process, starting, threads, file, on, assoc, histories>>

AssociationEnds(s) ==
    /\ process = "running"
    /\ assoc[s] = "open"
    /\ \E ending \in PeerEnding : assoc' = [assoc EXCEPT ![s] = ending]
    /\ UNCHANGED <<process, starting, threads, file, on, inbox, histories>>

RunStep(s) == OpenSocket(s) \/ ConnectSucceeds(s) \/ ConnectFails(s) \/ RunFails(s)

RecvReturns(s) == RecvMessage(s) \/ RecvTimesOut(s) \/ RecvFails(s) \/ RecvEnds(s)

ListenerStep(s) ==
    \/ ListenerStart(s) \/ ListenerCheck(s) \/ RecvReturns(s)
    \/ ListenerCloses(s) \/ ListenerAnswers(s) \/ ListenerEnd(s)

HelperStep(s) ==
    HelperCheck(s) \/ HelperSend(s) \/ HelperWakes(s) \/ HelperGivesUp(s)

MainStep == MainWakes \/ ShutdownAll \/ Delete

Next ==
    \/ \E s \in Sim : \/ StartRun(s) \/ RunStep(s)
                      \/ ListenerStep(s) \/ HelperStep(s) \/ LoopSends(s)
                      \/ \E msg \in PeerMessage : PeerSends(s, msg)
                      \/ AssociationEnds(s)
    \/ AlarmExpires
    \/ MainStep
    \/ OperatorStops

Spec == Init /\ [][Next]_vars

(* Threads of a live process run, recv() returns within its 2 seconds, and *)
(* an alarm that is armed goes off; no operator, E2Term or HTTP client has *)
(* to do anything, no connect() to end by itself and no loop to send.      *)
FairSpec ==
    /\ Spec
    /\ WF_vars(StartRun(FirstSim))
    /\ \A s \in Sim : /\ WF_vars(OpenSocket(s) \/ RunFails(s))
                      /\ WF_vars(ListenerStep(s))
                      /\ WF_vars(HelperStep(s))
    /\ WF_vars(AlarmExpires)
    /\ WF_vars(MainStep)
-----------------------------------------------------------------------------
(***************************************************************************)
(* Safety.                                                                 *)
(***************************************************************************)

(* After a SETUP-RESPONSE or a shutdown clears retryConnection at most one *)
(* more SETUP-REQUEST leaves: the one the helper was building.             *)
LateRequestsBounded == \A s \in Sim : late[s] <= 1

(* As long as main is not deleting, an association that its E2Term keeps   *)
(* open is still the one its E2Sim's client_fd names: no other connection  *)
(* that opens or ends takes the number away, but by the late close() below. *)
OpenAssociationKeepsDescriptor ==
    \A s \in Sim : (assoc[s] = "open" /\ main # "deleting" /\ s \notin taken)
                      => Named(clientFd[s]) = s

(* What a listener receives and what its E2Sim sends, an INSERT, an answer *)
(* or a SETUP-REQUEST, belongs to another E2Sim's E2Term only after the    *)
(* own association has ended or lost its number to a late close(); after a *)
(* failed run() there is nothing to reach.                                 *)
OnlyStaleDescriptorsStray ==
    \A s \in Sim : runner[s] = "returned" =>
        \/ {Named(clientFd[s]), on[s]} \subseteq {s, NoSim}
        \/ assoc[s] \in Ended
        \/ s \in taken

(* close() follows recv() in a step of its own, and the number may have    *)
(* been closed and given away in between: two listeners that shared a      *)
(* number both see the end, and the second closes the association of the   *)
(* third E2Sim that got it.  Nothing less takes a number from its E2Sim.   *)
OnlyAThirdTakes ==
    \A s \in taken : \E t, u \in Sim \ {s} :
        t # u /\ clientFd[t] = clientFd[s] /\ clientFd[u] = clientFd[s]

(* While main connects the alarm watches it: there is none only after the  *)
(* connect of a handover has disarmed it.                                  *)
OnlyAConnectDisarms ==
    runner[FirstSim] = "connecting" =>
        alarm # NoSim \/ \E s \in Sim \ {FirstSim} : assoc[s] # "none"

(* What the destructor frees is not in use: when an E2Sim is deleted its   *)
(* listener and helper threads have ended.                                 *)
DeletedSimsAreQuiet ==
    \A s \in Sim : Deleted(s) => /\ listener[s] \in {"none", "done"}
                                 /\ helper[s] \in {"none", "done"}
-----------------------------------------------------------------------------
(***************************************************************************)
(* The inductive invariant: what the threads and the descriptor table rely *)
(* on between two steps.                                                   *)
(***************************************************************************)

(* An attempt is taken off only where one was left; retryConnection never  *)
(* comes back, so the one late request leaves no other to be sent.         *)
RetryInv ==
    \A s \in Sim :
        /\ helper[s] \in {"send", "wait"} => retries[s] > 0
        /\ late[s] <= 1
        /\ retry[s] => late[s] = 0
        /\ helper[s] = "send" => late[s] = 0

(* The vector holds the E2Sims whose run() has begun, and until main       *)
(* deletes them, all of them; by then no run() is under way.               *)
VectorInv ==
    /\ InRun(FirstSim) => main = "connecting"
    /\ main = "deleting" => \A s \in Sim : ~InRun(s)
    /\ \A s \in Sim : /\ Owned(s) => runner[s] # "none"
                      /\ runner[s] # "none" => Owned(s) \/ main = "deleting"

(* The threads of an E2Sim live inside one another: the listener between   *)
(* run() and the destructor, the helper between the listener's first and   *)
(* last step.                                                              *)
LifeInv ==
    \A s \in Sim :
        /\ runner[s] = "returned" /\ assoc[s] = "none" => clientFd[s] = NoFd
        /\ assoc[s] # "none" => runner[s] = "returned"
        /\ listener[s] # "none" => runner[s] = "returned" /\ assoc[s] # "none"
        /\ helper[s] # "none" => listener[s] \notin {"none", "spawned"}
        /\ listener[s] = "done" => helper[s] = "done"

(* A descriptor in use names its owner's association, or was closed late;  *)
(* during the deletion it may have been closed, but nobody is given a      *)
(* descriptor any more.                                                    *)
OwnerInv ==
    \A s \in Sim : (runner[s] = "connecting" \/ assoc[s] = "open") =>
        /\ clientFd[s] # NoFd
        /\ \/ file[clientFd[s]] = s
           \/ s \in taken
           \/ main = "deleting" /\ file[clientFd[s]] = NoSim

(* A number that names an E2Sim's association is that E2Sim's.             *)
FileInv ==
    \A f \in Fd : file[f] # NoSim =>
        clientFd[file[f]] = f /\ runner[file[f]] \in {"connecting", "returned"}

(* An E2Sim that is no longer named by its number although nothing ended   *)
(* its association shares it with two others, which are not named either.  *)
TakenInv ==
    \A s \in taken :
        /\ runner[s] \in {"connecting", "returned"} /\ clientFd[s] # NoFd
        /\ file[clientFd[s]] # s
        /\ \E t, u \in Sim \ {s} :
              /\ t # u /\ runner[t] = "returned" /\ runner[u] = "returned"
              /\ clientFd[t] = clientFd[s] /\ clientFd[u] = clientFd[s]
              /\ file[clientFd[s]] \notin {t, u}

(* Another has closed the number of t, which names v no more.              *)
Shared(t) ==
    \E v \in Sim \ {t} : /\ runner[v] = "returned" /\ clientFd[v] = clientFd[t]
                          /\ file[clientFd[t]] # v

(* A recv() under way was called on the association the number of its      *)
(* E2Sim then named.  If it names another one now, somebody has closed it  *)
(* meanwhile.                                                              *)
ReaderInv ==
    \A t \in Sim :
        /\ on[t] # NoSim => listener[t] \in {"recv", "closing"} /\ clientFd[t] # NoFd
        /\ listener[t] = "closing" => on[t] # NoSim /\ assoc[on[t]] \in Ended
        /\ (on[t] \notin {t, NoSim}) =>
              (assoc[t] \in Ended \/ t \in taken) /\ file[clientFd[t]] # t
        /\ (on[t] # NoSim /\ file[clientFd[t]] # on[t]) =>
              \/ main = "deleting" /\ file[clientFd[t]] = NoSim
              \/ Shared(t)

DescriptorInv == OwnerInv /\ FileInv /\ TakenInv /\ ReaderInv

Inv ==
    /\ TypeOK /\ RetryInv /\ VectorInv /\ LifeInv /\ DescriptorInv
    /\ OnlyAConnectDisarms /\ DeletedSimsAreQuiet

(* What the experiment sees of all this: the links Association describes.  *)
LinkOf(s) ==
    IF runner[s] # "returned" THEN "none"
    ELSE IF Deleted(s) THEN "deleted"
    ELSE IF clientFd[s] = NoFd THEN "failed"
    ELSE IF Usable(s) THEN "up" ELSE "down"

Links == INSTANCE Association WITH
             link <- [s \in Sim |-> LinkOf(s)], alive <- (process = "running")

ImplementsAssociation == Links!Spec
-----------------------------------------------------------------------------
(***************************************************************************)
(* Liveness, under FairSpec.                                               *)
(***************************************************************************)

(* However long connect() would take, start-up ends, with a connection or  *)
(* with SIGTERM, after as many alarms as there are addresses: unless the   *)
(* connect of a handover, which disarms the one alarm of the process, has  *)
(* succeeded meanwhile (OnlyAConnectDisarms).                              *)
StartupEnds ==
    main = "connecting" ~> \/ main # "connecting" \/ process # "running"
                           \/ \E s \in Sim \ {FirstSim} : assoc[s] # "none"

(* The helper does not outlive its attempts: it ends, whether or not the   *)
(* E2Term ever answers, so the listener that joins it can end.             *)
HelperEnds ==
    \A s \in Sim : helper[s] # "none" ~> (helper[s] = "done" \/ process # "running")

(* A listener that has set ok2run before the shutdown ends.                *)
StartedListenerEnds ==
    \A s \in Sim : (listener[s] \in {"check", "recv", "closing", "sleep"} /\ ~ok2run[s])
                       ~> (listener[s] = "done" \/ process # "running")
-----------------------------------------------------------------------------
(***************************************************************************)
(* What comments of the code promise and the code does not keep.           *)
(***************************************************************************)

(* "signal handler to stop e2sim gracefully": a signal main has taken ends *)
(* the process.                                                            *)
ShutdownCompletes == main = "stopping" ~> process # "running"

(* Nor does the shutdown pull an E2Sim from under a loop that uses it.      *)
NoUseAfterDelete == process # "crashed"

(* "0 on socket timeout, the application should retry again": after a      *)
(* receive that returned 0 the listener retries on its own association.    *)
ReadsItsAssociation ==
    \A s \in Sim : listener[s] = "recv" => Named(clientFd[s]) \in {s, NoSim}

(* "we wait for 10s to timeout": the alarm ends the connect it is for.     *)
AlarmEndsConnect ==
    [][AlarmExpires => \A s \in Sim : (alarm = s /\ runner[s] = "connecting")
                                          => runner'[s] # "connecting"]_vars
=============================================================================

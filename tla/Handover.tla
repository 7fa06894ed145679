------------------------------ MODULE Handover ------------------------------
(***************************************************************************)
(* The E2Term handovers that HTTP clients ask for (handle_e2term_handover  *)
(* and drive_e2term_handover in src/e2sim/src/e2sim_rc.cpp), and the       *)
(* vector e2sims they share, without a lock, with one another and with     *)
(* main: the search for an E2Sim by endpoint (E2Sim::is_e2term_endpoint),  *)
(* the new E2Sim that joins the vector, its run(), and how main waits for  *)
(* the handlers before it takes the E2Sims down.                           *)
(*                                                                         *)
(* The insert loop a handover spawns is InsertLoop's, what run() does      *)
(* E2Connection's.  Of its links, as Association has them, only how run()  *)
(* ends is seen here: one that is lost later keeps its endpoint and stays  *)
(* "up", one that connects without its descriptor counts as "failed".      *)
(***************************************************************************)
EXTENDS Integers, Sequences, FiniteSets

CONSTANTS
    Handler,        \* the threads of the HTTP listener
    Main,           \* the main thread
    MaxSim,         \* bound on the E2Sims that are created
    Endpoint,       \* the E2Terms a client may name (a bound): addr and port
    FirstEndpoint   \* the E2Term of the command line

Worker == Handler \cup {Main}

ASSUME WorkersAssumption == Main \notin Handler

ASSUME EndpointAssumption ==
    /\ MaxSim \in Nat
    /\ Endpoint \cup {FirstEndpoint} \subseteq [addr : STRING, port : Int]

VARIABLES
    process,    \* "running" or "crashed"
    main,       \* "starting", "waiting", "closing", "draining", "deleting"
    sigterm,    \* is a SIGTERM or SIGINT pending?
    made,       \* the E2Sims created so far are 1..made
    link,       \* per E2Sim: its link, as in Association
    endpoint,   \* per E2Sim: e2_addr and e2_port, or NoEndpoint
    e2sims,     \* the vector
    pc,         \* per worker: where it is
    want,       \* per worker: the E2Term it is to connect
    seen,       \* per worker: the range of the vector its search walks
    pos,        \* per worker: the next element of that range
    mine,       \* per worker: the E2Sim it found or created
    known,      \* history: the E2Sims in the vector that had the endpoint a
                \* request names when it came
    half,       \* history, per handler: was its E2Sim being given its endpoint
                \* when the search found it?
    collided    \* history: did two workers ever grow the vector at once?

Sim == 1..MaxSim

NoSim == 0

(* A new E2Sim: e2_addr is empty, e2_port has no value.                    *)
NoEndpoint == [addr |-> "", port |-> 0]

requests  == <<want, seen, pos, mine>>
histories == <<known, half, collided>>
vars == <<process, main, sigterm, made, link, endpoint, e2sims, pc, requests, histories>>

Links == INSTANCE Association WITH alive <- (process = "running")
-----------------------------------------------------------------------------
E2AP_SCTP_PORT == 36422

(* What run() can connect to. *)
Port == 1..65535

EffectiveAsAsked(e) == e            \* mutant: run() keeps the port it was given

(* run() replaces a port it cannot use, and keeps the one it used.         *)
Effective(e) ==
    [addr |-> e.addr, port |-> IF e.port \in Port THEN e.port ELSE E2AP_SCTP_PORT]

(* What run() may leave in e2_addr and e2_port. *)
Used == [addr : {e.addr : e \in Endpoint \cup {FirstEndpoint}}, port : Port]

TypeOK ==
    /\ process \in {"running", "crashed"}
    /\ main \in {"starting", "waiting", "closing", "draining", "deleting"}
    /\ sigterm \in BOOLEAN
    /\ made \in 0..MaxSim
    /\ link \in [Sim -> {"none", "up", "failed"}]
    /\ endpoint \in [Sim -> Used \cup {NoEndpoint}]
    /\ e2sims \in Seq(Sim)
    /\ pc \in [Worker -> {"idle", "matching", "growing", "running", "assigning",
                          "binding", "answering"}]
    /\ want \in [Worker -> Endpoint \cup {FirstEndpoint}]
    /\ seen \in [Worker -> Seq(Sim)]
    /\ pos \in [Worker -> Nat \ {0}]
    /\ mine \in [Worker -> Sim \cup {NoSim}]
    /\ known \in [Worker -> SUBSET Sim]
    /\ half \in [Handler -> BOOLEAN]
    /\ collided \in BOOLEAN

(* The HTTP listener is open before main creates its own E2Sim.            *)
Init ==
    /\ process = "running"
    /\ main = "starting"
    /\ sigterm = FALSE
    /\ made = 0
    /\ link = [s \in Sim |-> "none"]
    /\ endpoint = [s \in Sim |-> NoEndpoint]
    /\ e2sims = <<>>
    /\ pc = [w \in Worker |-> "idle"]
    /\ want = [w \in Worker |-> FirstEndpoint]
    /\ seen = [w \in Worker |-> <<>>]
    /\ pos = [w \in Worker |-> 1]
    /\ mine = [w \in Worker |-> NoSim]
    /\ known = [w \in Worker |-> {}]
    /\ half = [h \in Handler |-> FALSE]
    /\ collided = FALSE

Crash ==
    /\ process' = "crashed"
    /\ UNCHANGED <<main, sigterm, made, link, endpoint, e2sims, pc, requests, histories>>

At(w, point) == pc' = [pc EXCEPT ![w] = point]
-----------------------------------------------------------------------------
(***************************************************************************)
(* The search of handler h, which nothing protects from a worker that      *)
(* grows the vector.                                                       *)
(***************************************************************************)

Growing == {w \in Worker : pc[w] = "growing"}

(* A std::vector of n elements has no room left: its capacity doubles.     *)
Full(n) == n = 0 \/ \E k \in 0..n : n = 2^k

(* The buffer that the search of h walks is being freed, or was.           *)
Stale(h) ==
    \/ \E n \in Len(seen[h])..Len(e2sims)-1 : Full(n)
    \/ Growing # {} /\ Full(Len(e2sims))

(* The bound MaxSim: a request comes only while an E2Sim is left for it.   *)
Room ==
    made + Cardinality({h \in Handler : pc[h] = "matching"})
         + (IF main = "starting" /\ mine[Main] = NoSim THEN 1 ELSE 0) < MaxSim

InVector(s) == \E i \in DOMAIN e2sims : e2sims[i] = s

(* A well-formed request to hand over to e (any other is answered with an  *)
(* error at once), while the HTTP listener is open; the search takes the   *)
(* bounds of the vector.                                                   *)
Post(h, e) ==
    /\ process = "running"
    /\ main \in {"starting", "waiting", "closing"}
    /\ pc[h] = "idle"
    /\ Room
    /\ At(h, "matching")
    /\ want' = [want EXCEPT ![h] = e]
    /\ seen' = [seen EXCEPT ![h] = e2sims]
    /\ known' = [known EXCEPT ![h] = {s \in Sim :
                                      InVector(s) /\ endpoint[s] = e /\ e.addr # ""}]
    /\ UNCHANGED <<process, main, sigterm, made, link, endpoint, e2sims, pos, mine, half,
                   collided>>

(* The endpoint of s is being assigned, by the worker whose run() it is.   *)
Assigning(s) == \E w \in Worker : pc[w] = "assigning" /\ mine[w] = s

SearchesShort(h) == pos[h] < Len(seen[h])       \* mutant: the last one is skipped

Searches(h) == pos[h] <= Len(seen[h])

(* is_e2term_endpoint: it may find s, unless the endpoints differ.  That   *)
(* of an E2Sim that has not connected, or failed to, has an empty address  *)
(* and any port; e2_addr is assigned before e2_port, so one that is being  *)
(* given its endpoint may have its address and any port.                   *)
MayMatch(s, e) ==
    \/ endpoint[s] = e
    \/ endpoint[s] = NoEndpoint /\ e.addr = ""
    \/ \E w \in Worker : pc[w] = "assigning" /\ mine[w] = s /\ want[w].addr = e.addr

MayDiffer(s, e) == endpoint[s] # e \/ e = NoEndpoint

(* A worker has an E2Sim of its own, whose run() has not returned yet. *)
Starts(w) == pc[w] \in {"growing", "running", "assigning"}

(* The E2Sim of h is one that its search walked by. *)
Found(h) == \E i \in DOMAIN seen[h] : seen[h][i] = mine[h]

Match(h) ==
    LET s == seen[h][pos[h]] IN
    /\ process = "running"
    /\ pc[h] = "matching"
    /\ Searches(h)
    /\ \/ /\ MayMatch(s, want[h])
          /\ mine' = [mine EXCEPT ![h] = s]
          /\ half' = [half EXCEPT ![h] = Assigning(s)]
          /\ At(h, "binding")
          /\ UNCHANGED <<process, main, sigterm, made, link, endpoint, e2sims, want, seen,
                         pos, known, collided>>
       \/ /\ MayDiffer(s, want[h])
          /\ pos' = [pos EXCEPT ![h] = @ + 1]
          /\ UNCHANGED <<process, main, sigterm, made, link, endpoint, e2sims, pc, want,
                         seen, mine, histories>>
       \/ /\ Stale(h) \/ Assigning(s)
          /\ Crash

(* The callbacks of an E2Sim that was found are replaced, which two        *)
(* handlers may do at once (its own listener is InsertLoop's).             *)
Bind(h) ==
    /\ process = "running"
    /\ pc[h] = "binding"
    /\ \/ /\ At(h, "answering")
          /\ UNCHANGED <<process, main, sigterm, made, link, endpoint, e2sims, requests,
                         histories>>
       \/ /\ \E g \in Handler \ {h} : pc[g] = "binding" /\ mine[g] = mine[h]
          /\ Crash

(* The insert loop is spawned and 204 leaves, whatever became of run();    *)
(* the handler forgets the request.                                        *)
Answer(h) ==
    /\ process = "running"
    /\ pc[h] = "answering"
    /\ At(h, "idle")
    /\ want' = [want EXCEPT ![h] = FirstEndpoint]
    /\ seen' = [seen EXCEPT ![h] = <<>>]
    /\ pos' = [pos EXCEPT ![h] = 1]
    /\ mine' = [mine EXCEPT ![h] = NoSim]
    /\ known' = [known EXCEPT ![h] = {}]
    /\ half' = [half EXCEPT ![h] = FALSE]
    /\ UNCHANGED <<process, main, sigterm, made, link, endpoint, e2sims, collided>>
-----------------------------------------------------------------------------
(***************************************************************************)
(* A new E2Sim, of handler h or of main, and its run().                    *)
(***************************************************************************)

(* The search of a handler found none; main does not search.               *)
Needs(w) ==
    IF w = Main THEN main = "starting" /\ pc[w] = "idle" /\ mine[w] = NoSim
                ELSE pc[w] = "matching" /\ ~Searches(w)

(* new E2Sim; it begins to join the vector. *)
Create(w) ==
    /\ process = "running"
    /\ Needs(w)
    /\ made < MaxSim
    /\ made' = made + 1
    /\ mine' = [mine EXCEPT ![w] = made + 1]
    /\ At(w, "growing")
    /\ collided' = (collided \/ Growing # {})
    /\ UNCHANGED <<process, main, sigterm, link, endpoint, e2sims, want, seen, pos, known,
                   half>>

GrownFromSearch(w) == Append(seen[w], mine[w])     \* mutant: a copy is written back

Grown(w) == Append(e2sims, mine[w])

JoinedForgotten(w) == IF w = Main THEN "running" ELSE "answering"   \* mutant: no run()

(* Every new E2Sim is run. *)
Joined(w) == "running"

(* emplace_back returns.  Of two that run at once one may be lost, or the  *)
(* vector be left in pieces: a crash, sooner or later.                     *)
Grow(w) ==
    /\ process = "running"
    /\ pc[w] = "growing"
    /\ \/ /\ \/ e2sims' = Grown(w)
             \/ Growing # {w} /\ UNCHANGED e2sims
          /\ At(w, Joined(w))
          /\ UNCHANGED <<process, main, sigterm, made, link, endpoint, requests, histories>>
       \/ /\ Growing # {w}
          /\ Crash

(* Where a worker goes on after run(). *)
AfterRun(w) ==
    IF w = Main THEN main' = "waiting" /\ At(w, "idle")
                ELSE UNCHANGED main /\ At(w, "answering")

(* An empty address has no host. *)
RunSucceeds(w) ==
    /\ process = "running"
    /\ pc[w] = "running"
    /\ want[w].addr # ""
    /\ Links!Establish(mine[w])
    /\ At(w, "assigning")
    /\ UNCHANGED <<process, main, sigterm, made, endpoint, e2sims, requests, histories>>

(* e2_addr and e2_port are assigned, the listener starts. *)
AssignEndpoint(w) ==
    /\ process = "running"
    /\ pc[w] = "assigning"
    /\ endpoint' = [endpoint EXCEPT ![mine[w]] = Effective(want[w])]
    /\ AfterRun(w)
    /\ UNCHANGED <<process, sigterm, made, link, e2sims, requests, histories>>

TermQuiet == sigterm        \* mutant: run() returns without a signal

(* kill(getpid(), SIGTERM) *)
Term == TRUE

EndpointKnownAtOnce(w) ==       \* mutant: assigned whether or not it connects
    [endpoint EXCEPT ![mine[w]] = Effective(want[w])]

EndpointOnFailure(w) == endpoint

(* It does not connect, or setsockopt() finds its descriptor closed.       *)
RunFails(w) ==
    /\ process = "running"
    /\ pc[w] = "running"
    /\ Links!Fail(mine[w])
    /\ sigterm' = Term
    /\ endpoint' = EndpointOnFailure(w)
    /\ AfterRun(w)
    /\ UNCHANGED <<process, made, e2sims, requests, histories>>
-----------------------------------------------------------------------------
OperatorStops ==
    /\ process = "running"
    /\ ~sigterm
    /\ sigterm' = TRUE
    /\ UNCHANGED <<process, main, made, link, endpoint, e2sims, pc, requests, histories>>

(* main takes the signal and is about to close the HTTP listener ...       *)
MainWakes ==
    /\ process = "running"
    /\ main = "waiting"
    /\ sigterm
    /\ main' = "closing"
    /\ sigterm' = FALSE
    /\ UNCHANGED <<process, made, link, endpoint, e2sims, pc, requests, histories>>

(* ... which takes no request any more ...                                 *)
StopsAccepting ==
    /\ process = "running"
    /\ main = "closing"
    /\ main' = "draining"
    /\ UNCHANGED <<process, sigterm, made, link, endpoint, e2sims, pc, requests, histories>>

(* ... and waits for the handlers; what follows is E2Connection's.         *)
ListenerCloses ==
    /\ process = "running"
    /\ main = "draining"
    /\ \A h \in Handler : pc[h] = "idle"
    /\ main' = "deleting"
    /\ UNCHANGED <<process, sigterm, made, link, endpoint, e2sims, pc, requests, histories>>

RunStep(w) == Create(w) \/ Grow(w) \/ RunSucceeds(w) \/ AssignEndpoint(w) \/ RunFails(w)

HandlerStep(h) == Match(h) \/ Bind(h) \/ Answer(h)

MainStep == MainWakes \/ StopsAccepting \/ ListenerCloses

Next ==
    \/ \E w \in Worker : RunStep(w)
    \/ \E h \in Handler : HandlerStep(h) \/ \E e \in Endpoint : Post(h, e)
    \/ MainStep
    \/ OperatorStops

Spec == Init /\ [][Next]_vars

(* The threads of a live process run and every connect() ends, when the    *)
(* kernel gives up if not before; no client has to ask for anything.       *)
FairSpec ==
    /\ Spec
    /\ \A w \in Worker : WF_vars(RunStep(w))
    /\ \A h \in Handler : WF_vars(HandlerStep(h))
    /\ WF_vars(MainStep)
-----------------------------------------------------------------------------
(***************************************************************************)
(* Safety.                                                                 *)
(***************************************************************************)

(* As long as no two workers grew the vector at once it holds every E2Sim  *)
(* that was created, once: main will take them all down.                   *)
VectorHoldsAll ==
    ~collided =>
        /\ (\A i, j \in DOMAIN e2sims : e2sims[i] = e2sims[j] => i = j)
        /\ \A s \in 1..made : InVector(s) \/ \E w \in Growing : mine[w] = s

(* A handover that names an address is answered for an E2Sim that run()    *)
(* has connected to that endpoint, or that its own run() did not connect:  *)
(* never for one that another worker is still connecting, or has failed    *)
(* to.  One that was found while it was given its endpoint is right in its *)
(* address only: the port that was compared had no value yet.              *)
AnsweredForItsEndpoint ==
    \A h \in Handler : (pc[h] \in {"binding", "answering"} /\ want[h].addr # "") =>
        \/ /\ link[mine[h]] = "up"
           /\ \/ endpoint[mine[h]] = Effective(want[h])
              \/ /\ half[h]
                 /\ Assigning(mine[h]) \/ endpoint[mine[h]].addr = want[h].addr
        \/ link[mine[h]] = "failed" /\ ~Found(h)

(* What a handover finds, by whatever endpoint, was run, or another worker *)
(* is about to run it: the loop it spawns is never given an E2Sim that     *)
(* nobody connects.  MayReuse of InsertLoop relies on it.                  *)
ReusesWhatIsRun ==
    [][\A h \in Handler :
          (pc[h] = "matching" /\ pc'[h] = "binding") =>
              \/ link[mine'[h]] # "none"
              \/ \E w \in Worker \ {h} : Starts(w) /\ mine[w] = mine'[h]]_vars

(* A handover to an endpoint that an E2Sim in the vector already had when  *)
(* it was asked for creates no other E2Sim.                                *)
KnownEndpointIsReused ==
    [][\A h \in Handler :
          (pc[h] = "matching" /\ pc'[h] = "growing") => known[h] = {}]_vars
-----------------------------------------------------------------------------
(***************************************************************************)
(* The inductive invariant.                                                *)
(***************************************************************************)

(* A worker that starts an E2Sim has it for itself, and nobody finds it by *)
(* its endpoint before its run() has assigned that.                        *)
OwnInv ==
    \A w \in Worker : Starts(w) =>
        /\ mine[w] \in 1..made
        /\ (\A v \in Worker : Starts(v) /\ mine[v] = mine[w] => v = w)
        /\ endpoint[mine[w]] = NoEndpoint
        /\ link[mine[w]] = IF pc[w] = "assigning" THEN "up" ELSE "none"
        /\ (pc[w] = "assigning" => want[w].addr # "")

(* Only a connected E2Sim has an endpoint, and one that is not yet created *)
(* has nothing.                                                            *)
EndpointInv ==
    \A s \in Sim :
        /\ (endpoint[s] # NoEndpoint => link[s] = "up" /\ endpoint[s].addr # "")
        /\ (made < s => link[s] = "none")

(* The vector holds E2Sims that were created, those that are joining it    *)
(* excepted, as long as they join it one by one.                           *)
VectorInv ==
    /\ \A i \in DOMAIN e2sims : e2sims[i] \in 1..made
    /\ (~collided => \A w \in Growing : Growing = {w} /\ ~InVector(mine[w]))
    /\ VectorHoldsAll

(* An E2Sim whose endpoint was known when the search began is ahead of it. *)
KnownAhead(h) ==
    pc[h] = "matching" =>
        \A s \in known[h] :
            /\ endpoint[s] = want[h] /\ want[h].addr # ""
            /\ \E i \in DOMAIN seen[h] : pos[h] <= i /\ seen[h][i] = s

(* The E2Sim of h has the endpoint that was asked for; or half of it, and  *)
(* was or is getting the rest from the one worker that assigns it.         *)
HasEndpoint(h) ==
    /\ link[mine[h]] = "up"
    /\ \/ endpoint[mine[h]] = Effective(want[h])
       \/ half[h] /\ endpoint[mine[h]].addr = want[h].addr
       \/ half[h] /\ \E w \in Worker : /\ pc[w] = "assigning" /\ mine[w] = mine[h]
                                        /\ want[w].addr = want[h].addr

AnswerInv(h) ==
    pc[h] \in {"binding", "answering"} =>
        /\ mine[h] \in 1..made
        /\ (want[h].addr # "" =>
               HasEndpoint(h) \/ (link[mine[h]] = "failed" /\ ~Found(h)))

SearchOf(h) ==
    /\ \A i \in DOMAIN seen[h] : seen[h][i] \in 1..made
    /\ (pc[h] = "idle" => pos[h] = 1)
    /\ KnownAhead(h)
    /\ (Starts(h) => ~Found(h))
    /\ AnswerInv(h)

SearchInv == \A h \in Handler : SearchOf(h)

(* An E2Sim without a link is that of a worker that will run it. *)
RunInv ==
    \A s \in 1..made : link[s] = "none" => \E w \in Worker : Starts(w) /\ mine[w] = s

Inv == TypeOK /\ OwnInv /\ EndpointInv /\ VectorInv /\ SearchInv
-----------------------------------------------------------------------------
(***************************************************************************)
(* Liveness, under FairSpec.                                               *)
(***************************************************************************)

(* A signal, be it an operator's or that of a run() that failed in         *)
(* whichever thread, takes the whole simulator down: it is not lost, and   *)
(* every handover under way is answered, so main gets past the handlers.   *)
SignalStopsAll ==
    (sigterm \/ \E s \in Sim : link[s] = "failed")
        ~> (main = "deleting" \/ process # "running")
-----------------------------------------------------------------------------
(***************************************************************************)
(* What comments of the code promise and the code does not keep.           *)
(***************************************************************************)

(* "Replies HTTP status code 204 on success": the handover is connected    *)
(* when its answer leaves.                                                 *)
NoContentMeansConnected ==
    [][\A h \in Handler :
          (pc[h] = "answering" /\ pc'[h] = "idle") => link[mine[h]] # "failed"]_vars
=============================================================================

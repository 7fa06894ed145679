# TLA+ for the E2SM-RC simulator

This directory holds the formal model of the RC simulator of `src/e2sim`: a
program that behaves as an E2 node, answers subscriptions of an xApp through
one or several E2Terms, streams RIC-INDICATIONs of type INSERT, measures how
long the CONTROL answers take, and can be moved to another E2Term over HTTP
while it runs. All paths below are relative to `src/e2sim/`.

The modules are checked with TLC on small instances, and the theorems of
`*Proofs.tla` with TLAPS (tlapm 1.4.5) for every value of the constants.
`PROJECT.json` lists components, runs, mutants, source map, findings, hazards and
theorems in machine-readable form.

## 1. The system

### 1.1 Components

| Component | State | Operations | Model |
|---|---|---|---|
| Experiment (`src/e2sim_rc.cpp`) | `ok2run`, `cpid`, `seqNum`, `sent_ts_map`, `recv_ts_map`, `seqNumCpidLock` | `run_insert_loop`, `save_timestamp_report` | `InsertLoop` |
| RC callbacks (`e2sm/rc/src/rc_callbacks.cpp`) | `current_subscription`, `ok2run`, the maps | subscription, delete, control | `RcSubscription`, `InsertLoop` |
| Handover over HTTP (`src/e2sim_rc.cpp`) | vector `e2sims`, callbacks of an E2Sim | `handle_e2term_handover`, `drive_e2term_handover`, `is_e2term_endpoint` | `Handover`, `InsertLoop` |
| E2 connection (`e2ap/src/base/e2sim.cpp`) | `ok2run`, `retryConnection`, `client_fd`, threads | `run`, `listener`, `connection_helper`, `shutdown`, destructor | `E2Connection` |
| SCTP client (`e2ap/src/SCTP/e2sim_sctp.cpp`) | descriptors, SIGALRM | start, send, receive | `E2Connection` (client half) |
| Main (`src/e2sim_rc.cpp`) | pending signals, `e2sims` | connect, `sigwait`, shutdown, delete | `E2Connection`, `Handover` |
| Message routing (`e2ap/src/messagerouting`) | callback maps, registered functions | `e2ap_handle_sctp_data`, `register_*` | `E2apDispatch` |
| E2AP encoders, ASN.1 wrapper | none | subscription response, function id extraction, indication, ... | `RcSubscription`, `E2apDispatch`, `InsertLoop` (partly) |
| Identity (PLMN, gNB id) | `plmn_id`, `gnb_id` of an E2Sim | constructor, `encodePlmnId` | `Identity` |
| RC encoders (`e2sm/rc/src/encode_rc.cpp`) | none | fill structures | `Identity` (the cell identity) |
| Options (`src/e2sim_rc.cpp`) | `cmd_args` | `parse_input_options` | `Options` |
| Prometheus, logger | none relevant | print | no |
| KPM simulator (`e2sm/kpm`) | - | - | no: not built by this fork |
| Generated ASN.1, vendored JSON | - | - | no |

### 1.2 How they interact

`main` creates one E2Sim, registers the three callbacks, calls `run()` and
waits in `sigwait` with every signal blocked. `run()` connects and starts the
**listener** thread, which starts the **connection_helper** thread (at most
three E2-SETUP-REQUESTs, ten seconds apart) and then loops over
`sctp_receive_data` and `e2ap_handle_sctp_data`; the latter calls the callback
registered for the RAN function of the message, on the listener's thread.

The subscription callback answers and spawns a **detached loop thread** that
runs `run_insert_loop`. The delete callback clears `ok2run`. The control
callback looks up the send time of the INSERT it answers and stores the receive
time. The **HTTP handler** of a handover finds or creates the E2Sim of the new
E2Term, spawns a loop on it and clears `ok2run`, which is meant to stop the
previous loop. One process-wide `seqNumCpidLock` is held by a loop thread from
after its initial sleep to its return, report included.

So there are the main thread, two threads per E2Sim, one per loop and one per
HTTP request. They share: the volatile flag `ok2run`; the mutex; the counters and
the two maps; `current_subscription`; `e2sims`; the callbacks of an E2Sim; file
descriptor numbers; process-wide signals and the process-wide alarm; and
`exit(1)`, which any failed send calls. The HTTP listener is opened before main
creates its own E2Sim and is closed, after the handlers it runs have ended,
before main takes the E2Sims down.

### 1.3 What is hard, and what makes each part correct

* *Experiment.* Loops of several subscriptions and handovers must exclude one
  another and produce **one** numbered stream; a stop must take effect soon;
  `--num2send` is a quota of the whole experiment; samples and report must
  agree although listener threads touch the maps without the mutex.
* *Subscription callback.* What the response admits and what the loop uses must
  agree; encoding failures end the process.
* *Connection.* Retry flag, attempts and the wait without predicate race with the
  answer; `shutdown` races with the start of the listener; closed
  descriptors are reused; destructors free what threads use.
* *Handover.* Several requests and main search and grow one vector without a
  lock, and an E2Sim can be found only once its `run()` has connected; whether it
  did decides over the whole simulator.
* *Identity, options.* Octets, half octets and shifts; arguments that depend on
  the order in which they are given.
* *Routing.* Callbacks are filled by one thread and read by another; routing and
  callback each extract the function id by themselves.

`PROJECT.json` "hazards" lists each with its line and the properties that cover it.

## 2. Modules

| Module | Models | Lines of code it stands for |
|---|---|---|
| `RcSubscription` | pure: scan of a request, response IEs, what encoding does | `rc_callbacks.cpp:54-197`, `encode_e2ap.cpp:620-802` |
| `RcSubscriptionProofs` | theorems about the scan and the outcome of a request of any length | |
| `InsertStream` | abstract: one owned, numbered stream and its samples | (specification) |
| `InsertStreamProofs` | theorems about `InsertStream`, inherited by what implements it | |
| `Association` | abstract: how the link of an E2Sim to its E2Term changes | (specification) |
| `InsertLoop` | loops, callbacks, handover, report, above `Association` | `e2sim_rc.cpp:371-665`, `rc_callbacks.cpp` |
| `InsertLoopProofs` | theorems about `InsertLoop` | |
| `E2Connection` | E2Sim threads, SCTP, signals, main; implements `Association` | `e2sim.cpp:80-420`, `e2sim_sctp.cpp` |
| `E2ConnectionProofs` | theorems about `E2Connection` | |
| `Handover` | HTTP requests, the vector of E2Sims, endpoints, main | `e2sim_rc.cpp:84-139`, `:371-497`, `e2sim.cpp:187-193`, `:363-401` |
| `HandoverProofs` | theorems about `Handover` | |
| `E2apDispatch` | registry, routing, registration order, service update | `e2ap_message_handler.cpp`, `e2sim.cpp:100-180`, `encode_e2ap.cpp:67-239` |
| `E2apDispatchProofs` | theorems about `E2apDispatch` | |
| `Identity` | pure: PLMN identity, gNodeB id, NR cell identity | `e2sim.cpp:47-81`, `encode_e2ap.cpp:1265-1304`, `encode_rc.cpp:219-230` |
| `Options` | pure: the command line as a fold | `e2sim_rc.cpp:146-236` |
| `InputsProofs` | theorems about requests, command lines, PLMN identity and NR cell identity | |
| `FoldLemmas` | induction over the natural numbers, and what a fold recurses over, as lemmas | |
| `MCE2Connection`, `MCHandover`, `MCInsertLoop` | constants of the instances | |
| `MCRcSubscription`, `MCInputs` | enumerate requests, and with them command lines, against reference definitions | |

How they are composed: `InsertLoop` and `Handover` take the links of the E2Sims
from `Association` by INSTANCE; `E2Connection`, which has the threads, the
sockets and the descriptors, is shown to implement `Association` (by TLC and by
proof). `InsertLoop` thereby has every behaviour the connections can show to a loop, a
link that comes back by accident when its descriptor number is reused included, without
the product of both state spaces.

### 2.1 `InsertLoop`

A loop thread's program point `pc[l]`:

| `pc` | in `run_insert_loop` |
|---|---|
| `starting` | sleeping, or waiting for the mutex |
| `check` | before the loop condition |
| `sending` | indication built, not sent |
| `recording` | sent, `sent_ts_map`, `seqNum`, `cpid` not yet updated |
| `draining` | in the `report_wait` sleep |
| `reporting` | in `save_timestamp_report`, before line `line` |
| `closing` | past the last test of `size()`, before `close()` and the return |
| `done` | returned |

Steps are cut exactly where another thread can see the difference. Everything
that the mutex protects from others may be one step; `sent_ts_map[cpid] = ...;
seqNum++; cpid++` is one step because only the first is seen from outside,
and that by a race, which is modelled: while a loop is at `recording`, a lookup
may hit, miss or crash. Likewise two `emplace` at once, which may lose an entry, leave a wrong count of
entries (`size` is what `size()` returns, `recv` what the map holds) or crash; a report line beside an
`emplace`; and a handover that replaces callbacks beside a listener that may be
fetching them. `current_subscription` is assigned field by field, so a handler that reads it
beside a listener about to store it reads any mixture of old and new.

`wire`, `missed`, `overrun` and `torn` are history variables: nothing in the model's
guards reads them, except that a CONTROL can only answer what is on the wire.
The RIC may answer late, several times or never.

Callbacks are two steps where the code sends in between (`admitted`, `deleting`,
`emplacing` in `listener[s]`), so other threads can run there.

### 2.2 `E2Connection`

`listener[s]` and `helper[s]` are the program points of the two threads;
`file` maps descriptor numbers to the association they name *now*, which is how
the model can tell "my descriptor" from "my association". A `recv()` keeps the association it was
called on (`on[s]`), whatever becomes of the number meanwhile; `close()` follows it in a step of
its own (`closing`) and closes whatever the number names **then**. Two listeners that share a number
can therefore both see the end of the association: the first frees the number, a third E2Sim gets
it from `socket()`, and the second closes the open association of that third one. `taken` records the
E2Sims this happened to. `recv()` ends as a message, a timeout, an end of the
association or an error (`RecvMessage`, `RecvTimesOut`, `RecvEnds`, `RecvFails`); an error other than `EINTR`
shuts the E2Sim down and leaves its descriptor open.

`Handle` is the effect on the flags of each message; a query is answered at once, an E2-SETUP-REQUEST
at once and again after five seconds (`sleep`), and an answer without an
open association is `exit(1)`. The RIC messages whose callbacks are modelled by `InsertLoop`
leave this state alone. `run()` tries the addresses of the host one by one
(`OpenSocket`, then `ConnectSucceeds` or `ConnectFails`), arming the alarm for each.

SIGALRM is sent to the process. Linux gives such a signal to the main
thread whenever main wants it (it has the signal unblocked, or waits for it in `sigwait`), and
otherwise to any thread that does; `MainBlocksAlarm`, `AlarmReaches` and
`AlarmIsLost` are that rule and the masks the code sets
(`e2sim_rc.cpp:82`, `e2sim_sctp.cpp:162`, `:182`).

`LinkOf` is the refinement mapping: what a caller sees of an E2Sim is whether
`run()` has returned, whether main has deleted it, and whether `client_fd` names an open
association. `LoopSends` are the sends of the loops of `InsertLoop` on it: only those that end the
process change anything here. A `run()` whose `connect()` succeeds while a late `close()` has taken its
number fails in `setsockopt()` and sends SIGTERM: `Miss` of `Association`.

### 2.3 `E2apDispatch` and `RcSubscription`

A message is its procedure and the sequence of its RANfunctionID IEs.
`HandleRequest` looks up what `get_function_id_from_*` extracts and, beside it,
records what the callback itself will read; `HasCallback` is the `at()` of the callback
maps. `ServiceItems` is the list that `generate_e2ap_service_update` builds from the
registered functions. `ServiceIEs` is what may be in `prID` for each value of the environment
variable `RAN_FUNCTION_OP_TYPE`: for `DELETE`, and only for it, the variable has no value, so
any IE may come, or one that cannot be encoded, and then `memcpy` with a length of -1
ends the process. `SetupAnswers` the two messages with which an E2Sim reacts to an E2-SETUP-REQUEST. A request's actions are a
sequence of `[id, type]`; `SuccessIEs` reproduces the order of writes of
`generate_e2ap_subscription_response_success`, in which the empty rejected list overwrites the
admitted one in the shared union.

### 2.4 `Handover`

A worker is an HTTP handler or main. Its points: `matching` (the range-for over `e2sims`, whose bounds
are taken once: `seen`, `pos`), `growing` (inside `emplace_back`), `running` (inside
`run()`), `assigning` (connected, `e2_addr` and `e2_port` being written), `binding`
(callbacks of an E2Sim that was found are replaced), `answering`. A comparison beside an assignment may go
either way or crash; a search whose buffer a growing vector gives up may crash
(`Stale`, with the doubling of `std::vector`). `e2_addr` is written before `e2_port`, which has no initial value: a search that
compares the address in between may match, whatever port it asks for (`MayMatch`; `half[h]` remembers that a
handler's E2Sim was found that way). Of two `emplace_back` at once one may be lost. `Effective` is the
port `run()` really uses: it replaces an invalid one, but the search compares
with what was asked for. Requests are accepted until the listener has been closed (`closing`, then `draining`, in which main waits for the
handlers that are left). What a lost link does is left to `InsertLoop`.

A request with an empty address matches E2Sims that have no endpoint, because they failed or are still
being started. `ReusesWhatIsRun` says how far that goes: a handover goes on with an E2Sim whose
`run()` has returned, or that another worker is about to run. `MayReuse`, the guard of the handovers of `InsertLoop`, allows
exactly that, with main or an idle handler of `InsertLoop` as the other worker.

### 2.5 `Identity` and `Options`

A 32-bit integer is its four octets, a string its characters (digits, or `Other`). `Atoi` is
`atoi(&buf)` of a single char: what follows it in memory (`junk`) belongs to the number as long as
it is digits. `Or` is the bitwise or of two octets, written as the sum of the weights of the bits that
either has, so that the provers can reason about it. `Parse` folds `Read` over the options; `Kept` is the
conversion to the width of the argument.

### 2.6 Refinement

`InsertLoop` implements `InsertStream` (`ImplementsStream`): owner is the holder of
the mutex, retired are the loops that returned, the stream is the wire, the
samples are the keys of `recv_ts_map`. `InsertStream` knows no flag, connection or process;
that it is implemented says that none of those can make a loop write without
owning, number wrongly, exceed the quota, come back, or sample what was not sent. What is proved of
`InsertStream` alone is therefore true of the experiment: `LoopsTakeTurns` (two INSERTs of a loop have none of
another between them) and `NumbersAgree` (`seq` is `cpid` modulo `SeqSpace`) are proved there, once, and
carried over by the refinement.

`E2Connection` implements `Association` (`ImplementsAssociation`): a link is
established once (or is lost before `run()` returns, `Miss`), a lost one comes back only together with a new one, nothing is
established once main deletes, and what a deletion does to the other
links is at most to lose them.

## 3. Runs

| Run | Instance | What it shows |
|---|---|---|
| `report` | 1 E2Sim, 2 loops, 1 handler, `Num2Send` 2, `MaxCpid` 3, `SeqSpace` 2; fair | all safety properties of the experiment; every loop returns |
| `unlimited` | 1 E2Sim, 2 loops, no quota, 3 INSERTs; fair | refinement of `InsertStream`; loops take turns; a stop frees the mutex |
| `races` | 2 E2Sims, 1 loop, all request kinds, quota 1 | the inductive invariant under every data race and every change of the links |
| `subscription` | every request with at most 3 actions and 3 ids; every command line with at most 3 options | scan, arguments and identity against reference definitions; response and loop agree |
| `connection` | 3 E2Sims, 1 address, no attempts and no messages; with all three run, until the first SIGTERM | descriptors, alarm, deletion; refinement of `Association` |
| `connection_ends` | 1 E2Sim, 2 addresses, 3 attempts, every message; fair | start-up, helper and stopped listener end; late requests |
| `handover` | main and 2 handlers, 3 E2Sims, two E2Terms on one host, invalid and empty endpoints; fair | vector, search and answers; a signal stops everything |
| `dispatch` | function ids 0..2, up to 2 ids per message, every environment | routing, registry and service updates |
| `deleted`, `hole`, `mixed`, `shutdown` | | promises the code does not keep (section 6) |

Bounds, and why they suffice:

* `MaxLoop` 2: every property about loops is about a pair (a holder and a waiter,
  an old and a new one). The theorems hold for any number.
* `MaxCpid` 3 with quota 2 leaves room for an INSERT over the quota, so the quota is
  kept by the code and not by the bound; without a quota the bound
  cuts an endless loop (the loop just does not go on), and three INSERTs are what it takes for
  one loop to interrupt another.
* `SeqSpace` 2 stands for 2^16: three INSERTs wrap it.
* E2Sims of `InsertLoop`: two, one association to lose or leave and one to move to, or two listeners that
  store a sample at once. With one E2Sim a handover goes back to the same
  E2Term, which the code supports.
* three E2Sims in `connection`: two that share a descriptor and a third whose association the late `close()`
  hits. The two of the handovers are alike (`SYMMETRY`). A shutdown is followed to its end with two of
  them; behaviours in which all three were run are cut at the first SIGTERM
  (`MCThreeUntilSigterm`). The theorems hold for any number, without a cut.
* `MaxInbox` 1: the listener handles one message at a time and nothing looks
  further into the socket.
* `SetupAttempts` 0, one ending (`PeerEnding`) and no messages in `connection`, which is about descriptors and
  deletion; the 3 attempts of the code, both endings and every message are in `connection_ends`.
  The theorems of `E2ConnectionProofs` hold for all of them together.
* `MaxAddresses` 2 in `connection_ends`: a first and a last one; 1 in `connection`. A host has none when
  `getaddrinfo` fails.
* Two E2Terms on one host in `handover`, one named by its port and one by an invalid port (which becomes 36422): the least for
  a match on half an endpoint to be a wrong one.
* `MaxSim` 3 in `handover`: main's E2Sim and one for each handler, so that three workers can be in
  every pair of points; the vector doubles its capacity twice on the way.
* `MaxOptions` 3: a `-w` with an option before and one after it, or an `-m`, a `-c` and a `-b`. The values
  of `Option` in `MCInputs` have each octet of an id in use, an id that is too
  large, one that is truncated to a valid one, digits of different value, and an `Other`.
* `MaxActions` 3: an accepted action with one before and one after it; the
  size bound 16 of the lists is out of the instance and needs no more than
  the comparison in `Encodable`.

Deadlock is not checked where the process may stop: after `exit`, a crash or the
return from `main` no action is enabled, which is what the program does.
In `handover` and `dispatch` it stops also where a bound is reached, or everything is registered.

Every property of a passing run has a mutant in `PROJECT.json`: a plausible slip in one
definition under which the run fails. The mutated forms are the definitions with a
`mutant:` comment; nothing else uses them.

### 3.1 Fairness

`InsertLoop`: weak fairness of each loop thread and of each callback or
handover that has begun. The threads are ordinary POSIX threads, a sleep ends, the mutex
is only waited for by threads of this model. It is *weak* fairness: the code
has no fair mutex, so a waiter among several is not promised the mutex; `LoopsFinish`
needs no more because loops never take it twice and are finitely many.
Nothing is assumed about E2Terms, RIC, HTTP clients or the operator.

`E2Connection`: weak fairness of both threads (a `recv()` returns after two seconds), of main, of each
step of a `run()` that has begun **except the return of `connect()`**, and of the alarm once it is armed; of main's own first
`run()`. No fairness of peers, operators, or the loops' sends. `StartupEnds` is therefore about the alarm: in the run
`connection_ends` the only E2Sim is main's, `connect()` may hang for ever, and an alarm per address ends it. With handovers it
is not kept: a `connect()` of theirs that succeeds disarms the one alarm of the process, and
`OnlyAConnectDisarms` (run `connection`) says that nothing else does; `StartupEnds` makes an exception for it.
`StartedListenerEnds` is claimed for the run with one E2Sim: a listener whose number was given to another one could call
`recv()` between that one's `connect()` and its `setsockopt()`, that is, without a timeout.

`Handover`: weak fairness of each worker that has begun and of main. A `connect()` ends there by itself:
the kernel gives up after its retransmissions, if the alarm does not end it before. No client has to post anything.

## 4. What is proved

For all values of the constants under the named assumptions (`SimAssumption`,
`RequestAssumption`, `NumberAssumption`; `SimsAssumption`, `BoundsAssumption`;
`DispatchAssumption`; `WorkersAssumption`, `EndpointAssumption`; `MaxActionsAssumption`):

| Theorem (`InsertLoopProofs`) | Property |
|---|---|
| `InvHolds` | `Inv` |
| `TypeCorrect` | `TypeOK` |
| `MutualExclusion` | `OneLoopInside` |
| `NumberedStream` | `OneNumberedStream` |
| `SentMapFollows` | `SentMapFollowsWire` |
| `StopBounded` | `OverrunBounded` |
| `QuotaIsKept` | `QuotaKept` |
| `SamplesSound` | `SamplesWereSent` |
| `ReportComplete` | `FinishedReportIsComplete` |
| `StreamImplemented` | `ImplementsStream` |
| `TurnsAreTaken` | `LoopsTakeTurns` |
| `OneNumber` | `NumbersAgree` of `InsertStream`, on the wire |

The argument is one inductive invariant `Inv` (of `InsertLoop`, checked by the run
`races` too), a conjunction of one strengthening per property:

* `OneLoopInside` is an equivalence (inside iff holder): mutual exclusion alone would
  not survive the return of a thread that is not the holder.
* `StreamInv` adds how `seqNum` and `cpid` relate to the last INSERT, which differs
  for the one step between send and record.
* `StopInv` adds that after a stop with one overrun no loop is at `sending`: the
  reason the bound is one.
* `QuotaInv` adds that a loop past its check has `cpid < Num2Send`, which
  holds while it sends because only the holder moves `cpid`.
* `SampleInv` adds that what a listener is about to emplace was found in the map.
* `ReportInv` says the lines written so far are samples and not more than there are:
  with "recv is finite" and `size` its cardinality, unless two listeners raced (`torn`), it gives `recv = 0..line-1` when
  the report comes to its end, that is, **a report that ends normally is never short**; what happens otherwise is
  the run `hole`.

The last two are theorems of `InsertStreamProofs`, about any owners and any number that means "no owner",
carried over by `StreamImplemented`. There the invariant is `TurnInv`: what was written is of
loops that have retired or of the owner, and once an INSERT is the owner's all later ones are. A loop that
begins has not retired, and so has written nothing. `NumbersAgree` rests on a lemma about
remainders (`NextRemainder`): counting modulo N gives the remainder of counting.

| Theorem (`E2ConnectionProofs`) | Property |
|---|---|
| `TypeCorrect` | `TypeOK` |
| `LateRequests` | `LateRequestsBounded` |
| `DescriptorKept` | `OpenAssociationKeepsDescriptor` |
| `StaleDescriptorsOnly` | `OnlyStaleDescriptorsStray` |
| `ThirdsOnly` | `OnlyAThirdTakes` |
| `StartupIsTimed` | `OnlyAConnectDisarms` |
| `DeletedQuiet` | `DeletedSimsAreQuiet` |
| `AssociationImplemented` | `ImplementsAssociation` |

Again one inductive invariant, `Inv` of `E2Connection`:

* `RetryInv`: the helper is past its test only with an attempt left (so `retries`
  never goes below zero), and at `send` nothing was late yet; `retryConnection` is
  never set again, so the one late request is the last.
* `VectorInv`: until main deletes, the vector holds every E2Sim whose `run()` has begun; when it
  deletes, no `run()` is under way, because closing the HTTP listener waits for the handlers.
* `LifeInv`: the helper lives inside the listener, the listener between `run()` and the
  destructor, and no `run()` is under way once main deletes. This is what makes the
  join in the destructor enough.
* `OwnerInv`: the descriptor of an E2Sim that is connecting or open names it, unless it was `taken`, or,
  during the deletion only, names nothing. `socket()` only returns numbers that name nothing.
* `ReaderInv`: a `recv()` under way was called on what the number then named. If the number names something
  else now, somebody has closed it meanwhile, and that one shares the number too (`Shared`): with the new
  owner these are three. `TakenInv` keeps the two others for each E2Sim in `taken`. So `OnlyAThirdTakes`:
  every close of a number other than the late one names the association it should.

`AssociationImplemented` takes each action to its effect on the links: a change of the descriptor table
or of an association changes the links of exactly those E2Sims whose
`client_fd` names it (lemmas on `LinkOf`), which is a step of `Association`, or a stutter.

| Theorem (`E2apDispatchProofs`) | Property |
|---|---|
| `TypeCorrect` | `TypeOK` |
| `AnnouncedServed` | `AnnouncedIsServed` |
| `CalledRight` | `CalledForItsFunction` |
| `UpdatesRegistered` | `UpdatesAreRegistered` |

`Prepared` says what each statement of the registration has left behind and that nothing
is received before the last, `run()`; `Routed` that only `RcFunction` has
callbacks. `CalledForItsFunction` then rests on `RcFunction` not being 0, the value
the routing uses for a message without RANfunctionID.

| Theorem (`HandoverProofs`) | Property |
|---|---|
| `InvHolds` | `Inv` of `Handover` |
| `TypeCorrect` | `TypeOK` |
| `VectorHeld` | `VectorHoldsAll` |
| `AnsweredRight` | `AnsweredForItsEndpoint` |
| `KnownReused` | `KnownEndpointIsReused` |
| `NoneIsForgotten` | `RunInv` of `Handover` |
| `ReusedIsRun` | `ReusesWhatIsRun` |

`OwnInv` says that each E2Sim under way has one worker and no endpoint yet, so that no
search can match it before it is `assigning`; `EndpointInv` that an endpoint means a
connected E2Sim; `KnownAhead` that an E2Sim whose endpoint was known when a search began is still ahead of it,
in the range it walks, which may be older than the vector. `AnsweredForItsEndpoint` holds for the port, too, but for an
E2Sim that was found while it was `assigning`: that one may be of another port of the same host. `HasEndpoint` is
what a match leaves: the endpoint asked for; or, for a match on half of one, its address, or the one worker that is writing it. `RunInv` (an E2Sim
without a link is that of a worker which will run it) is inductive beside `Inv`: only `run()` lets a worker go
on, and it leaves a link that is up or failed.

| Theorem (`RcSubscriptionProofs`, `InputsProofs`) | Property, or what it says |
|---|---|
| `OutcomeOfRequest` | of the requests of any length, an INSERT alone is answered, an INSERT with anything else ends the process, no INSERT crashes it |
| `FirstInsertAccepted` | `OnlyFirstInsertAccepted` |
| `SentResponseMatches` | `SentResponseMatchesLoop` |
| `LastOptionCounts` | `LastOneCounts` |
| `PlmnIsReadable` | `PlmnHoldsItsDigits` |
| `HalvesOfPlmn` | the same for every mcc and mnc of digits that the constructor accepts |
| `PlmnNamesOneNetwork` | two of them never have the same octets |
| `CellIsOfItsNode` | `CellBelongsToItsNode` |
| `CellNamesItsNode` | the same for every id that the constructor accepts |

All properties of the run `subscription` are theorems for every `MaxOptions` and every `MaxActions` (up to the 16 that
ASN.1 allows, `MaxActionsAssumption`); the lemmas below them, and `OutcomeOfRequest`, need no bound. A request has any identifiers; an option has one of the values that
`Option` enumerates, and therefore what is said of identities is proved for all digits and ids too.

* *Loops over a sequence.* `Scan` and `Parse` are folds. A fold is a `CHOOSE` of a function on the sets of
  indices that takes the greatest index last; the library's induction has an operator as parameter, which no
  installed prover can use. `FoldLemmas` derives the induction needed, with sets in place of operators, from
  `<` on `Nat` being well founded (`LeastNumber`, `SetInduction`), builds the values step
  by step (`StepRecursion`), and shows that the function the fold chooses exists (`IndexFold`).
  `ScanLoop` and `ParseLoop` are then what the code is: a state after each element, each from the one before.
* *Invariants of these loops.* `Scanned(request, k, scan)`: after `k` actions either there was no INSERT and all `k`
  identifiers are rejected in order, or there was a first one, which is the only one accepted, and the rejected
  are those of the other `k - 1`. `ArgumentsAfter(cmd, k, a)`: each argument is what the last of its options said,
  save that `-n` unlimited with a `-w` behind it became 5.
* *Bits.* `OrOfHalves`: halves of an octet do not overlap, so their bitwise or is their sum. The bits of the cell are
  followed octet by octet (`ShiftedOctet`, `UpperBits`, `BitsOfCell`): a shift to the left by three moves every
  bit three places, taking the upper three of the next octet.

In `InsertLoopProofs` each action has a lemma or case per disturbed conjunct; temporal steps combine them by PTL.
`StreamImplemented` maps each action to a step or a stutter of `InsertStream`.

## 5. Only model-checked

Every invariant, action property and refinement that a passing run checks is a theorem. Liveness stays with
TLC (`LoopsFinish`, `StopFreesLock`, `StartupEnds`, `HelperEnds`, `StartedListenerEnds`,
`SignalStopsAll`): fairness and ENABLED are out of the prover's reach. So do the promises of section 6, which
are refuted by a counterexample. In `InsertLoopProofs` nothing about `Scan` is needed but that its result is in the
sets `TypeOK` names.

## 6. What the code promises and does not keep

Found while modelling; the first four have a run that shows the shortest history,
the others are stated beside the properties in the module named (put the
definition into the cfg in place of the property of the run given to see it).

| Definition | Run or module | What happens |
|---|---|---|
| `DeletedStaysDeleted` | `deleted` | `ok2run = true` at the start of a loop (`e2sim_rc.cpp:553`) overwrites a delete that came during its initial two seconds |
| `ReportIsGenerated` | `hole` | INSERT 1 is answered and INSERT 0 is not: for line 0 `at()` throws `out_of_range`, the handler is for `runtime_error` (`:650-655`), the process aborts |
| `MixedRequestIsAnswered` | `mixed` | a rejected action empties the list of admitted ones (`encode_e2ap.cpp:692`), encoding fails, `exit(1)` |
| `ShutdownCompletes` | `shutdown` | `shutdown()` before the listener's `ok2run = true` (`e2sim.cpp:330`) is lost; main joins for ever |
| `UnsupportedRequestIsAnswered` | `MCRcSubscription`, cfg of `mixed` | the failure response is written through a null pointer (`encode_e2ap.cpp:787`) |
| `RecordedActionIsFirstInsert` | `MCRcSubscription`, cfg of `mixed` | the recorded id is the last scanned (`rc_callbacks.cpp:135`); harmless only because such requests are never answered, as `SentResponseMatchesLoop` shows |
| `HandoffAfterOldLoop` | `InsertLoop`, cfg of `report` | a new loop can overtake an old one still in its initial sleep |
| `HandoverSparesItsLoop` | `InsertLoop`, cfg of `unlimited` (PROPERTY) | the flag is cleared after the new loop was spawned and may stop that one |
| `AnsweredIsSampled` | `InsertLoop`, cfg of `report` | a CONTROL faster than `sent_ts_map[cpid] = sent_ns` (`e2sim_rc.cpp:612`) is dropped |
| `InsertsNameASubscription` | `InsertLoop`, cfg of `races` | a handover reads `current_subscription` unset, or half written |
| `ReadsItsAssociation` | `E2Connection`, cfg of `connection` | after the peer closes, `recv` goes on with a descriptor number that another E2Sim may own; the other case is an E2Sim whose number a late `close()` took (`OnlyStaleDescriptorsStray`, `OnlyAThirdTakes`) |
| `AlarmEndsConnect` | `E2Connection`, cfg of `connection` (PROPERTY) | `sigwait` in main takes the SIGALRM of a handover's connect |
| `NoUseAfterDelete` | `E2Connection`, cfg of `connection` | a detached loop builds or sends an INSERT with an E2Sim main has freed (`e2sim_rc.cpp:137`) |
| `NoContentMeansConnected` | `Handover`, cfg of `handover` (PROPERTY) | "Replies HTTP status code 204 on success" (`e2sim_rc.cpp:448`): 204 leaves although `run()` failed and the simulator is about to end |
| `DeleteDeletes` | `E2apDispatch`, cfg of `dispatch` | `strcmp(..., "DELETE")` lacks its `== 0` (`encode_e2ap.cpp:191`): every other value deletes, and for `DELETE` the IE id has no value |
| `OnlyGivenIdsAccepted` | `MCInputs`, cfg of `subscription` | "gNodeB Identity 0..2^29-1" (`e2sim_rc.cpp:222`): 2^32 + 5 is accepted as 5, for it is cut to 32 bits first |
| `OnlyDigitsAccepted` | `MCInputs`, cfg of `subscription` | "MCC requires 3 digits" (`e2sim.cpp:51`): three of any characters |
| `WaitMeansReport` | `MCInputs`, cfg of `subscription` | `-w 5 -n 0`: a wait for a report of an experiment that never ends (`e2sim_rc.cpp:207`) |
| `PlmnOnAnyStack` | `MCInputs`, cfg of `subscription` | `atoi` is given the address of a single char (`encode_e2ap.cpp:1273`) and reads on |
| `MissingCallbackIsAnswered` | `E2apDispatch` | `e2sim/README.md:55` promises an error response, the code logs |
| `SubscriptionLoopsWait` | `E2apDispatch` | a handover binds an initial sleep of 0 into the callback of all later subscriptions |

Also met: the late `close()` of section 2.2 (`e2sim_sctp.cpp:310`), which can end an association that is in use by a third E2Sim, and the
match on half an endpoint (`e2sim.cpp:394`), after which a handover goes to another port of the host. The usage text names an option `--wait4report` (`e2sim_rc.cpp:223`), the program knows
`--wait_report` (`:162`). Two requests for one E2Term that name it by an invalid port, or that
overlap, make an E2Sim each; nothing says they should not, so `KnownEndpointIsReused` leaves them out.

## 7. Abstractions

* Time: a sleep or timeout is a step that may take as long as it likes.
* Contents of indications and control messages, encodings that cannot fail,
  logging, prometheus, JSON.
* A failed send is `exit(1)` as in `sctp_send_data`; partial sends do not occur with SCTP messages.
* `e2sims` is a set of identities in `InsertLoop`, a sequence in `E2Connection`, and the vector with its
  buffer in `Handover`.
* The descriptors of the HTTP listener, of Prometheus and of the report: `Fd` are those of the associations,
  which reuse one another's numbers; one given to another kind of file would answer a stray send or `recv` with an error, as `EBADF` does here.
* A subscription request has one RICsubscriptionDetails IE, as E2AP defines it. The code does not count them: a second one would be
  scanned with a fresh `foundAction` (`rc_callbacks.cpp:126`).
* In `Handover`, a `run()` whose `setsockopt()` fails counts as one that did not connect (`Fail`, where `Association` has `Miss`): both send SIGTERM and
  leave the endpoint empty, and the search looks at nothing else.
* JSON: a request is either well-formed or answered with an error before anything is done.

## 8. Not modelled

* The generated ASN.1 code (`ASN1c` directories, in several copies, and the tables of
  `e2sm`): output of a compiler from ASN.1 notation. It is over nine tenths of the lines of the repository, which
  is why the share of all lines that the map covers stays at about one in a hundred however much of
  the hand-written program is modelled: of the some 5,100 hand-written lines that are built it covers
  about 2,300, and most of the others are logging, declarations and constants put in a message.
* The KPM simulator (`e2sm/kpm`): `src/e2sim/CMakeLists.txt:87-89` builds `e2ap/src`, `e2sm/rc` and `src`
  only, and its sources do not compile against E2Sim any more (`E2Sim e2sim;` without
  arguments, `encode_e2apv1.hpp`). There is no behaviour of it to be faithful to.
* What the encoders fill in as constants, and the E2 node configuration update, which nothing sends.
* `setsockopt` failing in `run()` (`e2sim.cpp:388-392`) for another reason than a descriptor that was closed meanwhile: an error the kernel does not
  return for these arguments.
* The server half of `e2sim_sctp.cpp`, `read_input_options` of `e2sim_defs.cpp`, `wait_for_sctp_data` and
  `callback_receive_1st_control_handover`: no program calls or registers them.
* Prometheus and the logger: written, never read.
* In `Handover`, the loss of a link: it keeps its endpoint, which is all the search looks at.

## 9. Plan

Done: `RcSubscription`; `InsertStream`, `InsertLoop` and proofs; `E2Connection` and proofs; `E2apDispatch`
and proofs; `Association`, the composition of loops and connections, and its refinement; `Handover` and proofs;
`Identity` and `Options`, and proofs about them and about `RcSubscription`.

Left:

1. `Handover` as an implementation of the handover steps of `InsertLoop`, by a refinement; what `InsertLoop`
   assumes about the E2Sim a handover takes is `ReusesWhatIsRun`.
2. An instance of `connection` with three E2Sims, messages and a whole shutdown at once, where time permits.

------------------------- MODULE E2ConnectionProofs -------------------------
(***************************************************************************)
(* Theorems about E2Connection, for any number of E2Sims, of attempts and  *)
(* of waiting messages: Inv is inductive, and with it every safety         *)
(* property.                                                               *)
(***************************************************************************)
EXTENDS E2Connection, FiniteSetTheorems, SequenceTheorems, TLAPS

USE SimsAssumption, BoundsAssumption DEF NoFd, InRun, kernel, threads, starting, runs, histories

(* There is a descriptor for every E2Sim, and 0 is none of them.           *)
LEMMA FdType == Fd \subseteq Nat \ {0}
<1>1. Cardinality(Sim) \in Nat
  BY FS_CardinalityType
<1> QED BY <1>1 DEF Fd

(* What the vector and the run()s are not touched by.                      *)
LEMMA VectorSame ==
    ASSUME VectorInv, UNCHANGED <<main, e2sims, runner>>
    PROVE  /\ VectorInv'
           /\ \A t \in Sim : Owned(t)' <=> Owned(t)
BY DEF VectorInv, Owned

(* A new E2Sim joins the vector, the others stay.                          *)
LEMMA AppendOwned ==
    ASSUME TypeOK, NEW s \in Sim, e2sims' = Append(e2sims, s)
    PROVE  /\ e2sims' \in Seq(Sim)
           /\ Owned(s)'
           /\ \A t \in Sim : Owned(t) => Owned(t)'
           /\ \A t \in Sim : t # s => (Owned(t)' => Owned(t))
<1>1. e2sims \in Seq(Sim)
  BY DEF TypeOK
<1>2. /\ Len(e2sims) \in Nat
      /\ DOMAIN e2sims = 1..Len(e2sims)
  BY <1>1, LenProperties
<1>3. /\ e2sims' \in Seq(Sim)
      /\ Len(e2sims') = Len(e2sims) + 1
      /\ \A i \in 1..Len(e2sims) : e2sims'[i] = e2sims[i]
      /\ e2sims'[Len(e2sims) + 1] = s
  BY <1>1, AppendProperties
<1>4. DOMAIN e2sims' = 1..Len(e2sims) + 1
  BY <1>3, LenProperties
<1> QED BY <1>2, <1>3, <1>4 DEF Owned

(* The head leaves the vector, the others stay.                            *)
LEMMA TailOwned ==
    ASSUME TypeOK, e2sims # <<>>, e2sims' = Tail(e2sims)
    PROVE  /\ e2sims' \in Seq(Sim)
           /\ Head(e2sims) \in Sim
           /\ \A t \in Sim : Owned(t) /\ t # Head(e2sims) => Owned(t)'
           /\ \A t \in Sim : Owned(t)' => Owned(t)
<1>1. e2sims \in Seq(Sim)
  BY DEF TypeOK
<1>2. /\ Len(e2sims) \in Nat \ {0}
      /\ DOMAIN e2sims = 1..Len(e2sims)
  BY <1>1, LenProperties, EmptySeq
<1>3. /\ Head(e2sims) = e2sims[1]
      /\ Head(e2sims) \in Sim
      /\ e2sims' \in Seq(Sim)
      /\ Len(e2sims') = Len(e2sims) - 1
      /\ \A i \in 1..Len(e2sims)-1 : e2sims'[i] = e2sims[i+1]
  BY <1>1, HeadTailProperties
<1>4. DOMAIN e2sims' = 1..Len(e2sims)-1
  BY <1>3, LenProperties
<1>5. ASSUME NEW t \in Sim, Owned(t), t # Head(e2sims)
      PROVE  Owned(t)'
  <2>1. PICK i \in DOMAIN e2sims : e2sims[i] = t
    BY <1>5 DEF Owned
  <2>2. i # 1
    BY <1>3, <1>5, <2>1
  <2>3. i-1 \in 1..Len(e2sims)-1 /\ (i-1)+1 = i
    BY <1>2, <2>1, <2>2
  <2>4. e2sims'[i-1] = t
    BY <1>3, <2>1, <2>3
  <2> QED BY <1>4, <2>3, <2>4 DEF Owned
<1>6. ASSUME NEW t \in Sim, Owned(t)'
      PROVE  Owned(t)
  <2>1. PICK i \in DOMAIN e2sims' : e2sims'[i] = t
    BY <1>6 DEF Owned
  <2>2. i+1 \in DOMAIN e2sims /\ e2sims[i+1] = t
    BY <1>2, <1>3, <1>4, <2>1
  <2> QED BY <2>2 DEF Owned
<1> QED BY <1>3, <1>5, <1>6

(* What the descriptors and the recv()s under way are not touched by.      *)
LEMMA DescriptorSame ==
    ASSUME DescriptorInv, UNCHANGED <<file, on, assoc, runner, clientFd, taken>>,
           main = "deleting" => main' = "deleting",
           \A t \in Sim : on[t] # NoSim => listener'[t] = listener[t],
           \A t \in Sim : listener'[t] = "closing" => listener[t] = "closing"
    PROVE  DescriptorInv'
<1>1. OwnerInv' /\ FileInv' /\ TakenInv'
  BY DEF DescriptorInv, OwnerInv, FileInv, TakenInv
<1>2. ReaderInv'
  BY DEF DescriptorInv, ReaderInv, Shared
<1> QED BY <1>1, <1>2 DEF DescriptorInv

(* A recv() is under way only where a listener lives.                      *)
LEMMA ReaderLives ==
    ASSUME Inv, NEW t \in Sim, on[t] # NoSim
    PROVE  /\ runner[t] = "returned" /\ assoc[t] # "none"
           /\ listener[t] \in {"recv", "closing"}
           /\ clientFd[t] \in Fd /\ clientFd[t] # NoFd /\ on[t] \in Sim
<1>1. listener[t] \in {"recv", "closing"} /\ clientFd[t] # NoFd
  BY DEF Inv, DescriptorInv, ReaderInv
<1>2. runner[t] = "returned" /\ assoc[t] # "none"
  BY <1>1 DEF Inv, LifeInv
<1>3. clientFd[t] \in Fd /\ on[t] \in Sim
  BY <1>1 DEF Inv, TypeOK
<1> QED BY <1>1, <1>2, <1>3

(* No descriptor names an E2Sim that has none.                             *)
LEMMA NotYetSeen ==
    ASSUME Inv, NEW s \in Sim, runner[s] = "addresses"
    PROVE  /\ s \notin taken /\ on[s] = NoSim
           /\ \A g \in Fd : file[g] # s
<1>1. s \notin taken
  BY DEF Inv, DescriptorInv, TakenInv
<1>2. on[s] = NoSim
  BY ReaderLives
<1>3. \A g \in Fd : file[g] # s
  BY SimsAssumption DEF Inv, DescriptorInv, FileInv
<1> QED BY <1>1, <1>2, <1>3

(* exit(1) changes nothing else. *)
LEMMA ExitInv ==
    ASSUME Inv, process' \in {"exited", "crashed"},
           UNCHANGED <<starting, threads, kernel, histories>>
    PROVE  Inv'
<1> USE DEF Inv
<1>1. TypeOK'
  BY DEF TypeOK
<1>2. RetryInv' /\ OnlyAConnectDisarms'
  BY DEF RetryInv, OnlyAConnectDisarms
<1>3. VectorInv' /\ LifeInv' /\ DeletedSimsAreQuiet'
  BY VectorSame DEF LifeInv, DeletedSimsAreQuiet, Deleted
<1>4. DescriptorInv'
  BY DescriptorSame
<1> QED BY <1>1, <1>2, <1>3, <1>4
-----------------------------------------------------------------------------
(* One lemma per action. *)

(* SIGTERM becomes pending.                                                *)
LEMMA OperatorStopsInv ==
    ASSUME Inv, OperatorStops
    PROVE  Inv'
<1> USE DEF Inv
<1>1. TypeOK'
  BY DEF OperatorStops, TypeOK
<1>2. RetryInv'
  BY DEF OperatorStops, RetryInv, TypeOK
<1>3. LifeInv'
  BY DEF OperatorStops, LifeInv, TypeOK
<1>4. DeletedSimsAreQuiet'
  BY VectorSame DEF OperatorStops, DeletedSimsAreQuiet, Deleted, TypeOK
<1>5. OnlyAConnectDisarms'
  BY DEF OperatorStops, OnlyAConnectDisarms, TypeOK
<1>6. VectorInv'
  BY VectorSame DEF OperatorStops
<1>7. DescriptorInv'
  BY DescriptorSame DEF OperatorStops, TypeOK
<1> QED BY <1>1, <1>2, <1>3, <1>4, <1>5, <1>6, <1>7

(* main takes the signal.                                                  *)
LEMMA MainWakesInv ==
    ASSUME Inv, MainWakes
    PROVE  Inv'
<1> USE DEF Inv
<1>1. TypeOK'
  BY DEF MainWakes, TypeOK
<1>2. RetryInv'
  BY DEF MainWakes, RetryInv, TypeOK
<1>3. LifeInv'
  BY DEF MainWakes, LifeInv, Owned, TypeOK
<1>4. DeletedSimsAreQuiet'
  BY DEF MainWakes, DeletedSimsAreQuiet, Deleted, Owned, TypeOK
<1>5. OnlyAConnectDisarms'
  BY DEF MainWakes, OnlyAConnectDisarms, TypeOK
<1>6. VectorInv'
  BY DEF MainWakes, VectorInv, Owned, TypeOK
<1>7. DescriptorInv'
  BY DescriptorSame DEF MainWakes, TypeOK
<1> QED BY <1>1, <1>2, <1>3, <1>4, <1>5, <1>6, <1>7

(* The helper starts.                                                      *)
LEMMA ListenerStartInv ==
    ASSUME Inv, NEW s \in Sim, ListenerStart(s)
    PROVE  Inv'
<1> USE DEF Inv
<1>1. TypeOK'
  BY DEF ListenerStart, TypeOK
<1>2. RetryInv'
  BY DEF ListenerStart, RetryInv, TypeOK
<1>3. LifeInv'
  BY DEF ListenerStart, LifeInv, TypeOK
<1>4. DeletedSimsAreQuiet'
  BY VectorSame DEF ListenerStart, DeletedSimsAreQuiet, Deleted, TypeOK
<1>5. OnlyAConnectDisarms'
  BY DEF ListenerStart, OnlyAConnectDisarms, TypeOK
<1>6. VectorInv'
  BY VectorSame DEF ListenerStart
<1>7. DescriptorInv'
  <2>1. \A t \in Sim : on[t] # NoSim => listener[t] \in {"recv", "closing"}
    BY ReaderLives
  <2> QED BY <2>1, DescriptorSame DEF ListenerStart, TypeOK
<1> QED BY <1>1, <1>2, <1>3, <1>4, <1>5, <1>6, <1>7

(* The listener tests its flag and calls recv(); if its number names       *)
(* another association, its own has ended or lost the number.              *)
LEMMA ListenerCheckInv ==
    ASSUME Inv, NEW s \in Sim, ListenerCheck(s)
    PROVE  Inv'
<1> USE DEF Inv
<1>1. /\ listener[s] = "check"
      /\ UNCHANGED <<process, starting, ok2run, retry, helper, retries, file, assoc, inbox,
                     histories>>
      /\ \/ /\ listener' = [listener EXCEPT ![s] = "join"]
            /\ on' = on
         \/ /\ listener' = [listener EXCEPT ![s] = "recv"]
            /\ on' = [on EXCEPT ![s] = Named(clientFd[s])]
  BY DEF ListenerCheck
<1>2. /\ on' \in [Sim -> Sim \cup {NoSim}]
      /\ listener' \in [Sim -> {"none", "spawned", "check", "recv", "closing", "sleep",
                                "join", "done"}]
      /\ listener'[s] \in {"join", "recv"}
      /\ \A t \in Sim : t # s => listener'[t] = listener[t]
  <2>1. Named(clientFd[s]) \in Sim \cup {NoSim}
    BY DEF Named, TypeOK
  <2>2. PICK point \in {"join", "recv"} : listener' = [listener EXCEPT ![s] = point]
    BY <1>1
  <2>3. on' \in [Sim -> Sim \cup {NoSim}]
    <3>1. on \in [Sim -> Sim \cup {NoSim}]
      BY DEF TypeOK
    <3> QED BY <1>1, <2>1, <3>1
  <2> QED BY <2>2, <2>3 DEF TypeOK
<1>3. TypeOK'
  BY <1>1, <1>2 DEF TypeOK
<1>4. RetryInv' /\ OnlyAConnectDisarms'
  BY <1>1 DEF RetryInv, OnlyAConnectDisarms
<1>5. VectorInv' /\ \A t \in Sim : Owned(t)' <=> Owned(t)
  BY <1>1, VectorSame
<1>6. LifeInv' /\ DeletedSimsAreQuiet'
  BY <1>1, <1>2, <1>5 DEF LifeInv, DeletedSimsAreQuiet, Deleted
<1>7. OwnerInv' /\ FileInv' /\ TakenInv'
  BY <1>1 DEF DescriptorInv, OwnerInv, FileInv, TakenInv
<1>8. on[s] = NoSim
  BY <1>1 DEF DescriptorInv, ReaderInv
<1>9. ReaderInv'
  <2>1. CASE on' = on /\ listener' = [listener EXCEPT ![s] = "join"]
    <3>1. listener'[s] = "join"
      BY <2>1 DEF TypeOK
    <3> QED BY <1>1, <1>2, <1>8, <2>1, <3>1 DEF DescriptorInv, ReaderInv, Shared
  <2>2. CASE /\ listener' = [listener EXCEPT ![s] = "recv"]
             /\ on' = [on EXCEPT ![s] = Named(clientFd[s])]
    <3>1. ASSUME NEW t \in Sim, t # s
          PROVE  on'[t] = on[t] /\ listener'[t] = listener[t]
      BY <2>2, <3>1 DEF TypeOK
    <3>2. on'[s] = Named(clientFd[s]) /\ listener'[s] = "recv"
      BY <2>2 DEF TypeOK
    <3>3. assoc[s] # "none" /\ clientFd[s] \in Fd \cup {NoFd}
      BY <1>1 DEF LifeInv, TypeOK
    <3>4. on'[s] # NoSim => clientFd[s] # NoFd /\ file[clientFd[s]] = on'[s]
      BY <3>2 DEF Named
    <3>5. on'[s] \notin {s, NoSim} => assoc[s] \in Ended \/ s \in taken
      BY <3>3, <3>4 DEF DescriptorInv, OwnerInv, TypeOK
    <3> QED BY <1>1, <3>1, <3>2, <3>4, <3>5 DEF DescriptorInv, ReaderInv, Shared
  <2> QED BY <1>1, <2>1, <2>2
<1> QED BY <1>3, <1>4, <1>5, <1>6, <1>7, <1>9 DEF DescriptorInv

(* The listener has joined the helper.                                     *)
LEMMA ListenerEndInv ==
    ASSUME Inv, NEW s \in Sim, ListenerEnd(s)
    PROVE  Inv'
<1> USE DEF Inv
<1>1. TypeOK'
  BY DEF ListenerEnd, TypeOK
<1>2. RetryInv'
  BY DEF ListenerEnd, RetryInv, TypeOK
<1>3. LifeInv'
  BY DEF ListenerEnd, LifeInv, TypeOK
<1>4. DeletedSimsAreQuiet'
  BY VectorSame DEF ListenerEnd, DeletedSimsAreQuiet, Deleted, TypeOK
<1>5. OnlyAConnectDisarms'
  BY DEF ListenerEnd, OnlyAConnectDisarms, TypeOK
<1>6. VectorInv'
  BY VectorSame DEF ListenerEnd
<1>7. DescriptorInv'
  <2>1. \A t \in Sim : on[t] # NoSim => listener[t] \in {"recv", "closing"}
    BY ReaderLives
  <2> QED BY <2>1, DescriptorSame DEF ListenerEnd, TypeOK
<1> QED BY <1>1, <1>2, <1>3, <1>4, <1>5, <1>6, <1>7

(* The helper decides; to send, it needs retryConnection, hence nothing was late. *)
LEMMA HelperCheckInv ==
    ASSUME Inv, NEW s \in Sim, HelperCheck(s)
    PROVE  Inv'
<1> USE DEF Inv
<1>1. TypeOK'
  BY DEF HelperCheck, Retries, TypeOK
<1>2. RetryInv'
  BY DEF HelperCheck, Retries, RetryInv, TypeOK
<1>3. LifeInv'
  BY DEF HelperCheck, Retries, LifeInv, TypeOK
<1>4. DeletedSimsAreQuiet'
  BY VectorSame DEF HelperCheck, Retries, DeletedSimsAreQuiet, Deleted, TypeOK
<1>5. OnlyAConnectDisarms'
  BY DEF HelperCheck, Retries, OnlyAConnectDisarms, TypeOK
<1>6. VectorInv'
  BY VectorSame DEF HelperCheck
<1>7. DescriptorInv'
  BY DescriptorSame DEF HelperCheck, Retries, TypeOK
<1> QED BY <1>1, <1>2, <1>3, <1>4, <1>5, <1>6, <1>7

(* The helper asks for a shutdown.                                         *)
LEMMA HelperGivesUpInv ==
    ASSUME Inv, NEW s \in Sim, HelperGivesUp(s)
    PROVE  Inv'
<1> USE DEF Inv
<1>1. TypeOK'
  BY DEF HelperGivesUp, TypeOK
<1>2. RetryInv'
  BY DEF HelperGivesUp, RetryInv, TypeOK
<1>3. LifeInv'
  BY DEF HelperGivesUp, LifeInv, TypeOK
<1>4. DeletedSimsAreQuiet'
  BY VectorSame DEF HelperGivesUp, DeletedSimsAreQuiet, Deleted, TypeOK
<1>5. OnlyAConnectDisarms'
  BY DEF HelperGivesUp, OnlyAConnectDisarms, TypeOK
<1>6. VectorInv'
  BY VectorSame DEF HelperGivesUp
<1>7. DescriptorInv'
  BY DescriptorSame DEF HelperGivesUp, TypeOK
<1> QED BY <1>1, <1>2, <1>3, <1>4, <1>5, <1>6, <1>7

(* A message of the E2Term.                                                *)
LEMMA PeerSendsInv ==
    ASSUME Inv, NEW s \in Sim, NEW msg \in PeerMessage, PeerSends(s, msg)
    PROVE  Inv'
<1> USE DEF Inv
<1>1. TypeOK'
  <2>1. inbox \in [Sim -> Seq(Message)] /\ msg \in Message
    BY DEF TypeOK
  <2>2. Append(inbox[s], msg) \in Seq(Message)
    BY <2>1, AppendProperties
  <2>3. inbox' \in [Sim -> Seq(Message)]
    BY <2>1, <2>2 DEF PeerSends
  <2> QED BY <2>3 DEF PeerSends, TypeOK
<1>2. RetryInv'
  BY DEF PeerSends, Message, RetryInv, TypeOK
<1>3. LifeInv'
  BY DEF PeerSends, Message, LifeInv, TypeOK
<1>4. DeletedSimsAreQuiet'
  BY VectorSame DEF PeerSends, Message, DeletedSimsAreQuiet, Deleted, TypeOK
<1>5. OnlyAConnectDisarms'
  BY DEF PeerSends, Message, OnlyAConnectDisarms, TypeOK
<1>6. VectorInv'
  BY VectorSame DEF PeerSends
<1>7. DescriptorInv'
  BY DescriptorSame DEF PeerSends, Message, TypeOK
<1> QED BY <1>1, <1>2, <1>3, <1>4, <1>5, <1>6, <1>7

(* An association that is open becomes stale.                              *)
LEMMA AssociationEndsInv ==
    ASSUME Inv, NEW s \in Sim, AssociationEnds(s)
    PROVE  Inv'
<1> USE DEF Inv
<1>1. PICK ending \in Ended :
        /\ assoc[s] = "open"
        /\ assoc' = [assoc EXCEPT ![s] = ending]
        /\ UNCHANGED <<process, starting, threads, file, on, inbox, histories>>
  BY DEF AssociationEnds
<1>2. /\ assoc' \in [Sim -> {"none", "open"} \cup Ended]
      /\ \A t \in Sim : assoc'[t] = "open" => assoc[t] = "open"
      /\ \A t \in Sim : assoc[t] \in Ended => assoc'[t] \in Ended
      /\ \A t \in Sim : assoc'[t] = "none" <=> assoc[t] = "none"
  BY <1>1 DEF TypeOK, Ended
<1>3. TypeOK'
  BY <1>1, <1>2 DEF TypeOK
<1>4. RetryInv'
  BY <1>1 DEF RetryInv
<1>5. VectorInv' /\ \A t \in Sim : Owned(t)' <=> Owned(t)
  BY <1>1, VectorSame
<1>6. LifeInv' /\ DeletedSimsAreQuiet'
  BY <1>1, <1>2, <1>5 DEF LifeInv, DeletedSimsAreQuiet, Deleted
<1>7. OnlyAConnectDisarms'
  BY <1>1, <1>2 DEF OnlyAConnectDisarms
<1>8. OwnerInv' /\ FileInv' /\ TakenInv'
  BY <1>1, <1>2 DEF DescriptorInv, OwnerInv, FileInv, TakenInv
<1>9. ReaderInv'
  <2>1. ASSUME NEW t \in Sim, listener[t] = "closing"
        PROVE  on[t] # NoSim /\ assoc'[on[t]] \in Ended
    <3>1. on[t] \in Sim /\ on[t] # NoSim /\ assoc[on[t]] \in Ended
      BY <2>1, ReaderLives DEF DescriptorInv, ReaderInv
    <3> QED BY <1>2, <3>1
  <2> QED BY <1>1, <1>2, <2>1 DEF DescriptorInv, ReaderInv, Shared
<1> QED BY <1>3, <1>4, <1>5, <1>6, <1>7, <1>8, <1>9 DEF DescriptorInv

(* A new E2Sim joins the vector.                                           *)
LEMMA StartRunInv ==
    ASSUME Inv, NEW s \in Sim, StartRun(s)
    PROVE  Inv'
<1> USE DEF Inv
<1>1. /\ runner[s] = "none" /\ runner' = [runner EXCEPT ![s] = "addresses"]
      /\ main # "deleting" /\ main' = main
      /\ s = FirstSim => main = "connecting"
      /\ e2sims' = Append(e2sims, s)
      /\ addresses' \in [Sim -> 0..MaxAddresses]
      /\ UNCHANGED <<process, sigterm, alarm, clientFd, threads, kernel, histories>>
  BY SMTT(30) DEF StartRun, TypeOK
<1>2. /\ e2sims' \in Seq(Sim)
      /\ Owned(s)'
      /\ \A t \in Sim : Owned(t) => Owned(t)'
      /\ \A t \in Sim : t # s => (Owned(t)' => Owned(t))
  BY <1>1, AppendOwned
<1>3. TypeOK'
  BY <1>1, <1>2 DEF TypeOK
<1>4. RetryInv'
  BY <1>1 DEF RetryInv
<1>5. LifeInv'
  BY <1>1, <1>2 DEF LifeInv, TypeOK
<1>6. \A t \in Sim : runner[t] \in {"connecting", "returned"} => runner'[t] = runner[t]
  BY <1>1 DEF TypeOK
<1>7. OwnerInv'
  BY <1>1 DEF DescriptorInv, OwnerInv, TypeOK
<1>8. FileInv'
  BY <1>1, <1>6 DEF DescriptorInv, FileInv, TypeOK
<1>9. TakenInv'
  BY <1>1, <1>6 DEF DescriptorInv, TakenInv, TypeOK
<1>10. ReaderInv'
  BY <1>1, <1>6 DEF DescriptorInv, ReaderInv, Shared
<1>11. OnlyAConnectDisarms'
  BY <1>1 DEF OnlyAConnectDisarms, TypeOK
<1>12. VectorInv'
  BY <1>1, <1>2 DEF VectorInv, TypeOK
<1>13. DeletedSimsAreQuiet'
  BY <1>1, <1>2 DEF DeletedSimsAreQuiet, Deleted, VectorInv, LifeInv, TypeOK
<1> QED BY <1>3, <1>4, <1>5, <1>7, <1>8, <1>9, <1>10, <1>11, <1>12, <1>13
        DEF DescriptorInv

(* socket() returns a descriptor that names nothing, so whoever used that  *)
(* number before has lost it already.                                      *)
LEMMA OpenSocketInv ==
    ASSUME Inv, NEW s \in Sim, OpenSocket(s)
    PROVE  Inv'
<1> USE DEF Inv
<1>1. /\ runner[s] = "addresses" /\ addresses[s] > 0
      /\ addresses' = [addresses EXCEPT ![s] = addresses[s] - 1]
      /\ UNCHANGED <<process, main, sigterm, e2sims, threads, on, assoc, inbox, histories>>
  BY DEF OpenSocket, AddressesLeft
<1>2. addresses' \in [Sim -> 0..MaxAddresses]
  BY <1>1, SMTT(30) DEF TypeOK
<1>3. \A t \in Sim : Owned(t)' <=> Owned(t)
  BY <1>1 DEF Owned
<1>4. /\ main # "deleting" /\ Owned(s)
      /\ listener[s] = "none" /\ assoc[s] = "none"
  BY <1>1 DEF VectorInv, LifeInv
<1>5. s \notin taken /\ on[s] = NoSim /\ \A g \in Fd : file[g] # s
  BY <1>1, NotYetSeen
<1>6. RetryInv'
  BY <1>1 DEF RetryInv
<1>7. CASE \E f \in Fd : /\ file[f] = NoSim
                          /\ file' = [file EXCEPT ![f] = s]
                          /\ clientFd' = [clientFd EXCEPT ![s] = f]
                          /\ runner' = [runner EXCEPT ![s] = "connecting"]
                          /\ alarm' = s
  <2>1. PICK f \in Fd : /\ file[f] = NoSim
                        /\ file' = [file EXCEPT ![f] = s]
                        /\ clientFd' = [clientFd EXCEPT ![s] = f]
                        /\ runner' = [runner EXCEPT ![s] = "connecting"]
                        /\ alarm' = s
    BY <1>7
  <2>2. f # NoFd
    BY FdType
  <2>3. TypeOK'
    BY <1>1, <1>2, <2>1 DEF TypeOK
  <2>4. LifeInv'
    BY <1>1, <1>3, <1>4, <2>1 DEF LifeInv, TypeOK
  <2>5. /\ file'[f] = s /\ clientFd'[s] = f /\ runner'[s] = "connecting"
        /\ \A g \in Fd : g # f => file'[g] = file[g]
        /\ \A t \in Sim : t # s => clientFd'[t] = clientFd[t] /\ runner'[t] = runner[t]
    BY <2>1 DEF TypeOK
  <2>6. OwnerInv'
    <3>1. ASSUME NEW t \in Sim, t # s, runner[t] = "connecting" \/ assoc[t] = "open"
          PROVE  clientFd[t] # NoFd /\ (file'[clientFd[t]] = t \/ t \in taken)
      <4>1. clientFd[t] \in Fd /\ (file[clientFd[t]] = t \/ t \in taken)
        BY <1>4, <3>1 DEF DescriptorInv, OwnerInv, TypeOK
      <4> QED BY <2>1, <2>5, <4>1, FdType
    <3> QED BY <1>1, <2>2, <2>5, <3>1 DEF OwnerInv
  <2>7. FileInv'
    <3>1. ASSUME NEW g \in Fd, g # f, file[g] # NoSim
          PROVE  clientFd'[file[g]] = g /\ runner'[file[g]] \in {"connecting", "returned"}
      <4>1. file[g] \in Sim /\ file[g] # s
        BY <1>5, <3>1 DEF TypeOK
      <4> QED BY <2>5, <3>1, <4>1 DEF DescriptorInv, FileInv
    <3> QED BY <2>5, <3>1 DEF FileInv
  <2>8. TakenInv'
    <3> SUFFICES ASSUME NEW x \in taken
                 PROVE  /\ runner'[x] \in {"connecting", "returned"} /\ clientFd'[x] # NoFd
                        /\ file'[clientFd'[x]] # x
                        /\ \E t, u \in Sim \ {x} :
                              /\ t # u /\ runner'[t] = "returned" /\ runner'[u] = "returned"
                              /\ clientFd'[t] = clientFd'[x] /\ clientFd'[u] = clientFd'[x]
                              /\ file'[clientFd'[x]] \notin {t, u}
      BY <1>1 DEF TakenInv
    <3>1. /\ x \in Sim /\ x # s
          /\ runner[x] \in {"connecting", "returned"} /\ clientFd[x] \in Fd
          /\ file[clientFd[x]] # x
      BY <1>5 DEF DescriptorInv, TakenInv, TypeOK
    <3>2. PICK t, u \in Sim \ {x} :
                    /\ t # u /\ runner[t] = "returned" /\ runner[u] = "returned"
                    /\ clientFd[t] = clientFd[x] /\ clientFd[u] = clientFd[x]
                    /\ file[clientFd[x]] \notin {t, u}
      BY DEF DescriptorInv, TakenInv
    <3>3. t # s /\ u # s
      BY <1>1, <3>2
    <3>4. file'[clientFd[x]] \in {file[clientFd[x]], s}
      BY <2>5, <3>1
    <3>5. /\ runner'[t] = "returned" /\ runner'[u] = "returned"
          /\ clientFd'[t] = clientFd'[x] /\ clientFd'[u] = clientFd'[x]
          /\ file'[clientFd'[x]] \notin {x, t, u}
      BY <2>5, <3>1, <3>2, <3>3, <3>4
    <3> QED BY <2>5, <3>1, <3>2, <3>5, FdType
  <2>9. ReaderInv'
    <3>1. ASSUME NEW t \in Sim, on[t] # NoSim
          PROVE  /\ t # s /\ clientFd[t] \in Fd /\ on[t] \in Sim
                 /\ clientFd'[t] = clientFd[t] /\ runner'[t] = runner[t]
                 /\ file'[clientFd[t]] \in {file[clientFd[t]], s}
      BY <1>5, <2>5, <3>1, ReaderLives
    <3>2. ASSUME NEW t \in Sim, on[t] # NoSim, Shared(t)
          PROVE  Shared(t)'
      <4>1. PICK v \in Sim \ {t} : /\ runner[v] = "returned" /\ clientFd[v] = clientFd[t]
                                   /\ file[clientFd[t]] # v
        BY <3>2 DEF Shared
      <4>2. v # s /\ runner'[v] = "returned" /\ clientFd'[v] = clientFd[v]
        BY <1>1, <2>5, <4>1
      <4>3. clientFd'[v] = clientFd'[t] /\ file'[clientFd'[t]] # v
        BY <3>1, <3>2, <4>1, <4>2
      <4> QED BY <4>1, <4>2, <4>3 DEF Shared
    <3>3. ASSUME NEW t \in Sim, on[t] # NoSim, file'[clientFd[t]] # on[t]
          PROVE  Shared(t)
      <4>1. file[clientFd[t]] # on[t]
        BY <2>1, <2>5, <3>1, <3>3
      <4> QED BY <1>4, <3>3, <4>1 DEF DescriptorInv, ReaderInv
    <3>4. ASSUME NEW t \in Sim, on[t] \notin {t, NoSim}
          PROVE  (assoc[t] \in Ended \/ t \in taken) /\ file'[clientFd[t]] # t
      BY <3>1, <3>4 DEF DescriptorInv, ReaderInv
    <3> QED BY <1>1, <3>1, <3>2, <3>3, <3>4 DEF DescriptorInv, ReaderInv
  <2>10. OnlyAConnectDisarms'
    BY <2>1, SimsAssumption DEF OnlyAConnectDisarms
  <2>11. DeletedSimsAreQuiet'
    BY <1>1, <1>3, <1>4, <2>1 DEF DeletedSimsAreQuiet, Deleted, TypeOK
  <2>12. VectorInv'
    BY <1>1, <1>3, <1>4, <2>1 DEF VectorInv, TypeOK
  <2> QED BY <1>6, <2>3, <2>4, <2>6, <2>7, <2>8, <2>9, <2>10, <2>11, <2>12
          DEF DescriptorInv
<1>8. CASE /\ clientFd' = [clientFd EXCEPT ![s] = NoFd]
           /\ UNCHANGED <<file, runner, alarm>>
  <2>1. TypeOK'
    BY <1>1, <1>2, <1>8 DEF TypeOK
  <2>2. LifeInv'
    BY <1>1, <1>3, <1>4, <1>8 DEF LifeInv, TypeOK
  <2>3. \A t \in Sim : t # s => clientFd'[t] = clientFd[t]
    BY <1>8 DEF TypeOK
  <2>4. OwnerInv'
    BY <1>1, <1>4, <1>8, <2>3 DEF DescriptorInv, OwnerInv
  <2>5. FileInv'
    BY <1>5, <1>8, <2>3 DEF DescriptorInv, FileInv, TypeOK
  <2>6. TakenInv'
    <3> SUFFICES ASSUME NEW x \in taken
                 PROVE  /\ runner[x] \in {"connecting", "returned"} /\ clientFd'[x] # NoFd
                        /\ file[clientFd'[x]] # x
                        /\ \E t, u \in Sim \ {x} :
                              /\ t # u /\ runner[t] = "returned" /\ runner[u] = "returned"
                              /\ clientFd'[t] = clientFd'[x] /\ clientFd'[u] = clientFd'[x]
                              /\ file[clientFd'[x]] \notin {t, u}
      BY <1>1, <1>8 DEF TakenInv
    <3>1. taken \subseteq Sim
      BY DEF TypeOK
    <3>2. /\ runner[x] \in {"connecting", "returned"}
          /\ clientFd'[x] = clientFd[x] /\ clientFd[x] # NoFd /\ file[clientFd[x]] # x
      BY <1>5, <2>3, <3>1 DEF DescriptorInv, TakenInv
    <3>3. PICK t, u \in Sim \ {x} :
                    /\ t # u /\ runner[t] = "returned" /\ runner[u] = "returned"
                    /\ clientFd[t] = clientFd[x] /\ clientFd[u] = clientFd[x]
                    /\ file[clientFd[x]] \notin {t, u}
      BY DEF DescriptorInv, TakenInv
    <3>4. clientFd'[t] = clientFd[t] /\ clientFd'[u] = clientFd[u]
      BY <1>1, <2>3, <3>3
    <3> QED BY <3>2, <3>3, <3>4
  <2>7. ReaderInv'
    BY <1>1, <1>5, <1>8, <2>3 DEF DescriptorInv, ReaderInv, Shared
  <2>8. OnlyAConnectDisarms' /\ DeletedSimsAreQuiet'
    BY <1>1, <1>3, <1>8 DEF OnlyAConnectDisarms, DeletedSimsAreQuiet, Deleted
  <2>9. VectorInv'
    BY <1>1, <1>8, VectorSame
  <2> QED BY <1>6, <2>1, <2>2, <2>4, <2>5, <2>6, <2>7, <2>8, <2>9 DEF DescriptorInv
<1> QED BY <1>7, <1>8 DEF OpenSocket, Armed

(* The association opens with the descriptor socket() returned.            *)
LEMMA ConnectSucceedsInv ==
    ASSUME Inv, NEW s \in Sim, ConnectSucceeds(s)
    PROVE  Inv'
<1> USE DEF Inv
<1>1. /\ runner[s] = "connecting" /\ runner' = [runner EXCEPT ![s] = "returned"]
      /\ assoc' = [assoc EXCEPT ![s] = "open"]
      /\ listener' \in {listener, [listener EXCEPT ![s] = "spawned"]}
      /\ alarm' = NoSim /\ sigterm' \in {sigterm, TRUE}
      /\ main' = IF s = FirstSim THEN "waiting" ELSE main
      /\ UNCHANGED <<process, e2sims, addresses, clientFd, ok2run, retry, helper, retries,
                     file, on, inbox, histories>>
  BY DEF ConnectSucceeds, MainAfterRun
<1>2. /\ main # "deleting"
      /\ main' # "deleting"
      /\ listener[s] = "none" /\ helper[s] = "none" /\ assoc[s] = "none" /\ Owned(s)
  BY <1>1 DEF VectorInv, LifeInv
<1>3. TypeOK'
  BY <1>1 DEF TypeOK
<1>4. RetryInv'
  BY <1>1 DEF RetryInv
<1>5. \A t \in Sim : Owned(t)' <=> Owned(t)
  BY <1>1 DEF Owned
<1>6. /\ runner'[s] = "returned" /\ assoc'[s] = "open" /\ listener'[s] \in {"none", "spawned"}
      /\ \A t \in Sim : t # s => /\ runner'[t] = runner[t] /\ assoc'[t] = assoc[t]
                                /\ listener'[t] = listener[t]
  BY <1>1, <1>2 DEF TypeOK
<1>7. LifeInv'
  BY <1>1, <1>2, <1>5, <1>6 DEF DescriptorInv, OwnerInv, LifeInv
<1>8. OwnerInv'
  BY <1>1, <1>2, <1>6 DEF DescriptorInv, OwnerInv
<1>9. FileInv'
  BY <1>1, <1>6 DEF DescriptorInv, FileInv, TypeOK
<1>10. TakenInv'
  <2> SUFFICES ASSUME NEW x \in taken
               PROVE  /\ runner'[x] \in {"connecting", "returned"} /\ clientFd[x] # NoFd
                      /\ file[clientFd[x]] # x
                      /\ \E t, u \in Sim \ {x} :
                            /\ t # u /\ runner'[t] = "returned" /\ runner'[u] = "returned"
                            /\ clientFd[t] = clientFd[x] /\ clientFd[u] = clientFd[x]
                            /\ file[clientFd[x]] \notin {t, u}
    BY <1>1 DEF TakenInv
  <2>1. /\ x \in Sim /\ runner[x] \in {"connecting", "returned"} /\ clientFd[x] # NoFd
        /\ file[clientFd[x]] # x
    BY DEF DescriptorInv, TakenInv, TypeOK
  <2>2. PICK t, u \in Sim \ {x} :
                  /\ t # u /\ runner[t] = "returned" /\ runner[u] = "returned"
                  /\ clientFd[t] = clientFd[x] /\ clientFd[u] = clientFd[x]
                  /\ file[clientFd[x]] \notin {t, u}
    BY DEF DescriptorInv, TakenInv
  <2>3. runner'[t] = "returned" /\ runner'[u] = "returned"
    BY <1>6, <2>2
  <2>4. runner'[x] \in {"connecting", "returned"}
    BY <1>6, <2>1
  <2> QED BY <2>1, <2>2, <2>3, <2>4
<1>11. ReaderInv'
  <2>1. on[s] = NoSim
    BY <1>2 DEF DescriptorInv, ReaderInv
  <2>2. \A t \in Sim : Shared(t) => Shared(t)'
    BY <1>1, <1>6 DEF Shared
  <2>3. ASSUME NEW t \in Sim, listener'[t] = "closing"
        PROVE  on[t] # NoSim /\ assoc'[on[t]] \in Ended
    <3>1. t # s
      BY <1>6, <2>3
    <3>2. listener[t] = "closing"
      BY <1>6, <2>3, <3>1
    <3>3. on[t] \in Sim /\ assoc[on[t]] \in Ended
      BY <3>2, ReaderLives DEF DescriptorInv, ReaderInv
    <3> QED BY <1>2, <1>6, <3>3, SimsAssumption DEF Ended
  <2>4. ASSUME NEW t \in Sim, on[t] # NoSim
        PROVE  t # s
    BY <2>1, <2>4
  <2> QED BY <1>1, <1>2, <1>6, <2>2, <2>3, <2>4 DEF DescriptorInv, ReaderInv
<1>12. OnlyAConnectDisarms'
  BY <1>1, <1>2, <1>6 DEF OnlyAConnectDisarms, TypeOK
<1>13. DeletedSimsAreQuiet'
  BY <1>1, <1>2, <1>5, <1>6 DEF DeletedSimsAreQuiet, Deleted
<1>14. VectorInv'
  BY <1>1, <1>2, <1>5 DEF VectorInv, TypeOK
<1> QED BY <1>3, <1>4, <1>7, <1>8, <1>9, <1>10, <1>11, <1>12, <1>13, <1>14
        DEF DescriptorInv

(* A failed connect() closes its number; if that names another E2Sim's     *)
(* association by now, two that shared it have closed it before.           *)
LEMMA AttemptFailsInv ==
    ASSUME Inv, NEW s \in Sim, runner[s] = "connecting", AttemptFails(s),
           alarm' \in Sim \cup {NoSim},
           runner'[FirstSim] = "connecting" => alarm' = alarm
    PROVE  Inv'
<1> USE DEF Inv
<1> DEFINE f == clientFd[s]
           y == Named(f)
<1>1. /\ file' = Closed(f)
      /\ taken' = (taken \cup {y}) \ {s, NoSim}
      /\ on' = [t \in Sim |-> IF on[t] = s THEN NoSim ELSE on[t]]
      /\ runner' = [runner EXCEPT ![s] = "addresses"]
      /\ UNCHANGED <<process, main, sigterm, e2sims, addresses, clientFd, threads, assoc,
                     inbox, asked, late>>
  BY DEF AttemptFails
<1>2. /\ main # "deleting"
      /\ listener[s] = "none" /\ helper[s] = "none" /\ assoc[s] = "none" /\ Owned(s)
      /\ on[s] = NoSim
  BY <1>1 DEF VectorInv, LifeInv, DescriptorInv, ReaderInv
<1>3. f \in Fd /\ f # NoFd /\ y = file[f] /\ y \in Sim \cup {NoSim}
  BY <1>2 DEF DescriptorInv, OwnerInv, TypeOK, Named
<1> HIDE DEF y
<1>4. /\ file' \in [Fd -> Sim \cup {NoSim}]
      /\ file'[f] = NoSim
      /\ \A g \in Fd : g # f => file'[g] = file[g]
  BY <1>1, <1>3 DEF Closed, TypeOK
<1>5. /\ runner'[s] = "addresses"
      /\ \A t \in Sim : t # s => runner'[t] = runner[t]
  BY <1>1 DEF TypeOK
<1>6. TypeOK'
  BY <1>1, <1>3, <1>4 DEF TypeOK
<1>7. RetryInv'
  BY <1>1 DEF RetryInv
<1>8. \A t \in Sim : Owned(t)' <=> Owned(t)
  BY <1>1 DEF Owned
<1>9. LifeInv'
  BY <1>1, <1>2, <1>5, <1>8 DEF LifeInv
<1>10. \A t \in Sim \ {s} : t \in taken \/ t = y => t \in taken'
  BY <1>1, SimsAssumption
<1>11. OwnerInv'
  <2>1. ASSUME NEW t \in Sim, runner'[t] = "connecting" \/ assoc[t] = "open"
        PROVE  clientFd[t] # NoFd /\ (file'[clientFd[t]] = t \/ t \in taken')
    <3>1. t # s /\ (runner[t] = "connecting" \/ assoc[t] = "open")
      BY <1>2, <1>5, <2>1
    <3>2. clientFd[t] \in Fd /\ clientFd[t] # NoFd /\ (file[clientFd[t]] = t \/ t \in taken)
      BY <1>2, <3>1 DEF DescriptorInv, OwnerInv, TypeOK
    <3> QED BY <1>3, <1>4, <1>10, <3>1, <3>2
  <2> QED BY <1>1, <2>1 DEF OwnerInv
<1>12. FileInv'
  <2>1. ASSUME NEW g \in Fd, file'[g] # NoSim
        PROVE  clientFd[file'[g]] = g /\ runner'[file'[g]] \in {"connecting", "returned"}
    <3>1. g # f /\ file'[g] = file[g] /\ file[g] \in Sim
      BY <1>4, <2>1 DEF TypeOK
    <3>2. clientFd[file[g]] = g /\ runner[file[g]] \in {"connecting", "returned"}
      BY <2>1, <3>1 DEF DescriptorInv, FileInv
    <3> QED BY <1>5, <3>1, <3>2
  <2> QED BY <1>1, <2>1 DEF FileInv
<1>13. y # s => s \in taken
  BY <1>2, <1>3 DEF DescriptorInv, OwnerInv
<1>14. TakenInv'
  <2> SUFFICES ASSUME NEW x \in taken'
               PROVE  /\ runner'[x] \in {"connecting", "returned"} /\ clientFd[x] # NoFd
                      /\ file'[clientFd[x]] # x
                      /\ \E t, u \in Sim \ {x} :
                            /\ t # u /\ runner'[t] = "returned" /\ runner'[u] = "returned"
                            /\ clientFd[t] = clientFd[x] /\ clientFd[u] = clientFd[x]
                            /\ file'[clientFd[x]] \notin {t, u}
    BY <1>1 DEF TakenInv
  <2>1. x # s /\ x \in Sim
    BY <1>1, <1>3 DEF TypeOK
  <2>2. CASE x \in taken
    <3>1. PICK t, u \in Sim \ {x} :
                    /\ t # u /\ runner[t] = "returned" /\ runner[u] = "returned"
                    /\ clientFd[t] = clientFd[x] /\ clientFd[u] = clientFd[x]
                    /\ file[clientFd[x]] \notin {t, u}
      BY <2>2 DEF DescriptorInv, TakenInv
    <3>2. /\ runner[x] \in {"connecting", "returned"}
          /\ clientFd[x] \in Fd /\ clientFd[x] # NoFd /\ file[clientFd[x]] # x
      BY <2>1, <2>2 DEF DescriptorInv, TakenInv, TypeOK
    <3>3. runner'[t] = "returned" /\ runner'[u] = "returned"
      BY <1>5, <3>1
    <3>4. file'[clientFd[x]] \in {file[clientFd[x]], NoSim}
      BY <1>4, <3>2
    <3> QED BY <1>5, <2>1, <3>1, <3>2, <3>3, <3>4, SimsAssumption
  <2>3. CASE x = y
    <3>1. clientFd[x] = f /\ runner[x] \in {"connecting", "returned"}
      BY <1>3, <2>1, <2>3, SimsAssumption DEF DescriptorInv, FileInv
    <3>2. PICK t, u \in Sim \ {s} :
                    /\ t # u /\ runner[t] = "returned" /\ runner[u] = "returned"
                    /\ clientFd[t] = f /\ clientFd[u] = f
                    /\ y \notin {t, u}
      BY <1>3, <1>13, <2>1, <2>3 DEF DescriptorInv, TakenInv
    <3>3. runner'[t] = "returned" /\ runner'[u] = "returned"
      BY <1>5, <3>2
    <3>4. t \in Sim \ {x} /\ u \in Sim \ {x}
      BY <2>3, <3>2
    <3> QED BY <1>3, <1>4, <1>5, <2>1, <3>1, <3>2, <3>3, <3>4, SimsAssumption
  <2> QED BY <1>1, <2>2, <2>3
<1>15. ReaderInv'
  <2>1. ASSUME NEW t \in Sim, on'[t] # NoSim
        PROVE  /\ on'[t] = on[t] /\ t # s /\ on[t] # s /\ on[t] \in Sim
               /\ clientFd[t] \in Fd /\ clientFd[t] # NoFd
               /\ listener[t] \in {"recv", "closing"}
               /\ file'[clientFd[t]] \in {file[clientFd[t]], NoSim}
    <3>1. on'[t] = on[t] /\ t # s /\ on[t] # s
      BY <1>1, <1>2, <2>1
    <3>2. clientFd[t] \in Fd /\ clientFd[t] # NoFd /\ on[t] \in Sim
          /\ listener[t] \in {"recv", "closing"}
      BY <2>1, <3>1, ReaderLives
    <3> QED BY <1>4, <3>1, <3>2
  <2>2. ASSUME NEW t \in Sim, listener[t] = "closing"
        PROVE  on'[t] # NoSim /\ assoc[on'[t]] \in Ended
    <3>1. on[t] # NoSim /\ assoc[on[t]] \in Ended
      BY <2>2 DEF DescriptorInv, ReaderInv
    <3>2. on[t] # s
      BY <1>2, <3>1 DEF Ended
    <3> QED BY <1>1, <3>1, <3>2
  <2>3. ASSUME NEW t \in Sim, on'[t] # NoSim, on'[t] # t
        PROVE  (assoc[t] \in Ended \/ t \in taken') /\ file'[clientFd[t]] # t
    <3>1. (assoc[t] \in Ended \/ t \in taken) /\ file[clientFd[t]] # t
      BY <2>1, <2>3 DEF DescriptorInv, ReaderInv
    <3> QED BY <1>10, <2>1, <2>3, <3>1, SimsAssumption
  <2>4. ASSUME NEW t \in Sim, on'[t] # NoSim, file'[clientFd[t]] # on'[t]
        PROVE  Shared(t)'
    <3>1. CASE Shared(t)
      <4>1. PICK v \in Sim \ {t} : /\ runner[v] = "returned" /\ clientFd[v] = clientFd[t]
                                   /\ file[clientFd[t]] # v
        BY <3>1 DEF Shared
      <4>2. runner'[v] = "returned" /\ file'[clientFd[t]] # v
        BY <1>5, <2>1, <2>4, <4>1, SimsAssumption
      <4> QED BY <1>1, <4>1, <4>2 DEF Shared
    <3>2. CASE clientFd[t] = f /\ y = on[t]
      <4>1. y # s
        BY <2>1, <2>4, <3>2
      <4>2. PICK p, q \in Sim \ {s} :
                    /\ p # q /\ runner[p] = "returned" /\ runner[q] = "returned"
                    /\ clientFd[p] = f /\ clientFd[q] = f
                    /\ y \notin {p, q}
        BY <1>3, <1>13, <4>1 DEF DescriptorInv, TakenInv
      <4>3. \E v \in {p, q} : v # t
        BY <4>2
      <4>4. PICK v \in {p, q} : v # t
        BY <4>3
      <4>5. v \in Sim \ {t} /\ runner'[v] = "returned" /\ clientFd[v] = clientFd[t]
        BY <1>5, <3>2, <4>2, <4>4
      <4>6. file'[clientFd[t]] # v
        BY <1>4, <3>2, <4>5, SimsAssumption
      <4> QED BY <1>1, <4>5, <4>6 DEF Shared
    <3>3. CASE file[clientFd[t]] # on[t]
      BY <1>2, <2>1, <2>4, <3>1, <3>3 DEF DescriptorInv, ReaderInv
    <3> QED BY <1>3, <1>4, <2>1, <2>4, <3>2, <3>3
  <2> QED BY <1>1, <2>1, <2>2, <2>3, <2>4, SimsAssumption DEF ReaderInv
<1>16. OnlyAConnectDisarms' /\ DeletedSimsAreQuiet'
  BY <1>1, <1>2, <1>5, <1>8 DEF OnlyAConnectDisarms, DeletedSimsAreQuiet, Deleted
<1>17. VectorInv'
  BY <1>1, <1>2, <1>5, <1>8 DEF VectorInv
<1> QED BY <1>6, <1>7, <1>9, <1>11, <1>12, <1>14, <1>15, <1>16, <1>17 DEF DescriptorInv

LEMMA ConnectFailsInv ==
    ASSUME Inv, NEW s \in Sim, ConnectFails(s)
    PROVE  Inv'
<1>1. runner[s] = "connecting" /\ AttemptFails(s) /\ alarm' = alarm
  BY DEF ConnectFails, AlarmAfterFailure
<1>2. alarm' \in Sim \cup {NoSim}
  BY <1>1 DEF Inv, TypeOK
<1> QED BY <1>1, <1>2, AttemptFailsInv

(* run() returns without a descriptor.                                     *)
LEMMA RunFailsInv ==
    ASSUME Inv, NEW s \in Sim, RunFails(s)
    PROVE  Inv'
<1> USE DEF Inv
<1>1. /\ runner[s] = "addresses"
      /\ clientFd' = [clientFd EXCEPT ![s] = NoFd]
      /\ retry' = [retry EXCEPT ![s] = FALSE]
      /\ sigterm' = TRUE
      /\ runner' = [runner EXCEPT ![s] = "returned"]
      /\ main' = IF s = FirstSim THEN "waiting" ELSE main
      /\ UNCHANGED <<process, alarm, e2sims, addresses, ok2run, listener, helper, retries,
                     kernel, histories>>
  BY DEF RunFails, FailedFd, MainAfterRun
<1>2. /\ main # "deleting"
      /\ main' # "deleting"
      /\ listener[s] = "none" /\ helper[s] = "none" /\ assoc[s] = "none" /\ Owned(s)
  BY <1>1 DEF VectorInv, LifeInv
<1>3. TypeOK'
  BY <1>1 DEF TypeOK
<1>4. RetryInv'
  BY <1>1 DEF RetryInv, TypeOK
<1>5. \A t \in Sim : Owned(t)' <=> Owned(t)
  BY <1>1 DEF Owned
<1>6. LifeInv'
  BY <1>1, <1>2, <1>5 DEF LifeInv, TypeOK
<1>7. s \notin taken /\ on[s] = NoSim /\ \A g \in Fd : file[g] # s
  BY <1>1, NotYetSeen
<1>8. \A t \in Sim : t # s => clientFd'[t] = clientFd[t] /\ runner'[t] = runner[t]
  BY <1>1 DEF TypeOK
<1>9. OwnerInv'
  BY <1>1, <1>2, <1>8 DEF DescriptorInv, OwnerInv, TypeOK
<1>10. FileInv'
  BY <1>1, <1>7, <1>8 DEF DescriptorInv, FileInv, TypeOK
<1>11. TakenInv'
  <2> SUFFICES ASSUME NEW x \in taken
               PROVE  /\ runner'[x] \in {"connecting", "returned"} /\ clientFd'[x] # NoFd
                      /\ file[clientFd'[x]] # x
                      /\ \E t, u \in Sim \ {x} :
                            /\ t # u /\ runner'[t] = "returned" /\ runner'[u] = "returned"
                            /\ clientFd'[t] = clientFd'[x] /\ clientFd'[u] = clientFd'[x]
                            /\ file[clientFd'[x]] \notin {t, u}
    BY <1>1 DEF TakenInv
  <2>1. /\ x \in Sim /\ clientFd'[x] = clientFd[x] /\ runner'[x] = runner[x]
        /\ runner[x] \in {"connecting", "returned"} /\ clientFd[x] # NoFd
        /\ file[clientFd[x]] # x
    <3>1. x \in Sim /\ x # s
      BY <1>7 DEF TypeOK
    <3> QED BY <1>8, <3>1 DEF DescriptorInv, TakenInv
  <2>2. PICK t, u \in Sim \ {x} :
                  /\ t # u /\ runner[t] = "returned" /\ runner[u] = "returned"
                  /\ clientFd[t] = clientFd[x] /\ clientFd[u] = clientFd[x]
                  /\ file[clientFd[x]] \notin {t, u}
    BY DEF DescriptorInv, TakenInv
  <2>3. /\ runner'[t] = "returned" /\ runner'[u] = "returned"
        /\ clientFd'[t] = clientFd[t] /\ clientFd'[u] = clientFd[u]
    BY <1>1, <1>8, <2>2
  <2> QED BY <2>1, <2>2, <2>3
<1>12. ReaderInv'
  <2>1. ASSUME NEW t \in Sim, Shared(t), t # s
        PROVE  Shared(t)'
    <3>1. PICK v \in Sim \ {t} : /\ runner[v] = "returned" /\ clientFd[v] = clientFd[t]
                                 /\ file[clientFd[t]] # v
      BY <2>1 DEF Shared
    <3>2. runner'[v] = "returned" /\ clientFd'[v] = clientFd[v] /\ clientFd'[t] = clientFd[t]
      BY <1>1, <1>8, <2>1, <3>1
    <3> QED BY <1>1, <3>1, <3>2 DEF Shared
  <2> QED BY <1>1, <1>2, <1>7, <1>8, <2>1 DEF DescriptorInv, ReaderInv
<1>13. OnlyAConnectDisarms' /\ DeletedSimsAreQuiet'
  BY <1>1, <1>2, <1>5 DEF OnlyAConnectDisarms, DeletedSimsAreQuiet, Deleted, TypeOK
<1>14. VectorInv'
  BY <1>1, <1>2, <1>5 DEF VectorInv, TypeOK
<1> QED BY <1>3, <1>4, <1>6, <1>9, <1>10, <1>11, <1>12, <1>13, <1>14 DEF DescriptorInv

(* The alarm ends a connect(), main's own if there is one, or is lost.     *)
LEMMA AlarmExpiresInv ==
    ASSUME Inv, AlarmExpires
    PROVE  Inv'
<1>1. alarm' = NoSim
  BY DEF AlarmExpires
<1>2. CASE \E s \in Sim : AlarmReaches(s) /\ AttemptFails(s)
  <2>1. PICK s \in Sim : AlarmReaches(s) /\ AttemptFails(s)
    BY <1>2
  <2>2. runner[s] = "connecting"
    BY <2>1 DEF AlarmReaches
  <2>3. runner'[FirstSim] # "connecting"
    <3>1. CASE s = FirstSim
      BY <2>1, <3>1 DEF AttemptFails, Inv, TypeOK
    <3>2. CASE s # FirstSim
      <4>1. \/ runner[FirstSim] \in {"none", "addresses"}
            \/ main = "stopping"
        BY <2>1, <3>2 DEF AlarmReaches, MainBlocksAlarm
      <4>2. runner[FirstSim] = "connecting" => main = "connecting"
        BY DEF Inv, VectorInv
      <4>3. runner'[FirstSim] = runner[FirstSim]
        BY <2>1, <3>2 DEF AttemptFails, Inv, TypeOK
      <4> QED BY <4>1, <4>2, <4>3
    <3> QED BY <3>1, <3>2
  <2> QED BY <1>1, <2>1, <2>2, <2>3, AttemptFailsInv
<1>3. CASE /\ AlarmIsLost
           /\ UNCHANGED <<process, main, sigterm, e2sims, runs, threads, kernel, histories>>
  <2>1. TypeOK'
    BY <1>1, <1>3 DEF Inv, TypeOK
  <2>2. RetryInv' /\ DescriptorInv'
    BY <1>3, DescriptorSame DEF Inv, RetryInv
  <2>3. OnlyAConnectDisarms'
    <3>1. runner[FirstSim] # "connecting"
      <4>1. CASE \A s \in Sim : ~AlarmReaches(s)
        BY <4>1 DEF AlarmReaches
      <4>2. CASE MainBlocksAlarm
        BY <4>2 DEF MainBlocksAlarm, Inv, VectorInv
      <4> QED BY <1>3, <4>1, <4>2 DEF AlarmIsLost
    <3> QED BY <1>3, <3>1 DEF OnlyAConnectDisarms
  <2>4. VectorInv' /\ LifeInv' /\ DeletedSimsAreQuiet'
    BY <1>3, VectorSame DEF Inv, LifeInv, DeletedSimsAreQuiet, Deleted
  <2> QED BY <2>1, <2>2, <2>3, <2>4 DEF Inv
<1> QED BY <1>2, <1>3 DEF AlarmExpires

(* shutdown() of every E2Sim: no run() is under way, so none will be.      *)
LEMMA ShutdownAllInv ==
    ASSUME Inv, ShutdownAll
    PROVE  Inv'
<1> USE DEF Inv
<1>1. /\ \A s \in Sim : ~InRun(s)
      /\ \A s \in Sim : retry'[s] => retry[s]
      /\ retry' \in [Sim -> BOOLEAN] /\ ok2run' \in [Sim -> BOOLEAN]
      /\ main' = "deleting"
      /\ UNCHANGED <<process, sigterm, alarm, e2sims, runs, listener, helper, retries,
                     kernel, histories>>
  BY DEF ShutdownAll, TypeOK
<1>2. TypeOK'
  BY <1>1 DEF TypeOK
<1>3. RetryInv' /\ OnlyAConnectDisarms'
  BY <1>1 DEF RetryInv, OnlyAConnectDisarms
<1>4. LifeInv' /\ DeletedSimsAreQuiet'
  BY <1>1 DEF LifeInv, DeletedSimsAreQuiet, Deleted, Owned
<1>5. VectorInv'
  BY <1>1 DEF VectorInv, Owned
<1>6. DescriptorInv'
  BY <1>1, DescriptorSame
<1> QED BY <1>2, <1>3, <1>4, <1>5, <1>6

(* During the deletion a number may be closed whatever it names.           *)
LEMMA DeletionCloses ==
    ASSUME Inv, main = "deleting", UNCHANGED <<main, on, assoc, runner, clientFd, taken, listener>>,
           \A f \in Fd : file'[f] \in {file[f], NoSim}
    PROVE  DescriptorInv'
<1> USE DEF Inv
<1>1. OwnerInv'
  BY DEF DescriptorInv, OwnerInv, TypeOK
<1>2. FileInv'
  BY DEF DescriptorInv, FileInv
<1>3. TakenInv'
  <2> SUFFICES ASSUME NEW x \in taken
               PROVE  /\ file'[clientFd[x]] # x
                      /\ \E t, u \in Sim \ {x} :
                            /\ t # u /\ runner[t] = "returned" /\ runner[u] = "returned"
                            /\ clientFd[t] = clientFd[x] /\ clientFd[u] = clientFd[x]
                            /\ file'[clientFd[x]] \notin {t, u}
    BY DEF DescriptorInv, TakenInv
  <2>1. x \in Sim /\ clientFd[x] \in Fd /\ file[clientFd[x]] # x
    BY DEF DescriptorInv, TakenInv, TypeOK
  <2>2. PICK t, u \in Sim \ {x} :
                  /\ t # u /\ runner[t] = "returned" /\ runner[u] = "returned"
                  /\ clientFd[t] = clientFd[x] /\ clientFd[u] = clientFd[x]
                  /\ file[clientFd[x]] \notin {t, u}
    BY DEF DescriptorInv, TakenInv
  <2>3. file'[clientFd[x]] \in {file[clientFd[x]], NoSim}
    BY <2>1
  <2> QED BY <2>1, <2>2, <2>3, SimsAssumption
<1>4. ReaderInv'
  <2>1. ASSUME NEW t \in Sim, on[t] # NoSim
        PROVE  file'[clientFd[t]] \in {file[clientFd[t]], NoSim}
    BY <2>1, ReaderLives
  <2> QED BY <2>1, SimsAssumption DEF DescriptorInv, ReaderInv, Shared
<1> QED BY <1>1, <1>2, <1>3, <1>4 DEF DescriptorInv

(* The destructor has joined the listener, which had joined the helper;    *)
(* what it closes is never given to anyone again.                          *)
LEMMA DeleteInv ==
    ASSUME Inv, Delete
    PROVE  Inv'
<1> USE DEF Inv
<1>1. /\ main = "deleting"
      /\ UNCHANGED <<main, sigterm, alarm, runs, threads, on, assoc, inbox, histories>>
  BY DEF Delete
<1>2. CASE e2sims = <<>>
  <2>1. process' = "returned" /\ UNCHANGED <<e2sims, file>>
    BY <1>2 DEF Delete
  <2>2. TypeOK'
    BY <1>1, <2>1 DEF TypeOK
  <2>3. RetryInv' /\ OnlyAConnectDisarms'
    BY <1>1, <2>1 DEF RetryInv, OnlyAConnectDisarms
  <2>4. VectorInv' /\ LifeInv' /\ DeletedSimsAreQuiet'
    BY <1>1, <2>1, VectorSame DEF LifeInv, DeletedSimsAreQuiet, Deleted
  <2>5. DescriptorInv'
    BY <1>1, <2>1, DescriptorSame
  <2> QED BY <2>2, <2>3, <2>4, <2>5
<1>3. CASE e2sims # <<>>
  <2> DEFINE h == Head(e2sims)
  <2>1. /\ Joined(h)
        /\ file' = Closed(clientFd[h])
        /\ e2sims' = Tail(e2sims)
        /\ process' = process
    BY <1>3 DEF Delete
  <2>2. /\ e2sims' \in Seq(Sim)
        /\ h \in Sim
        /\ \A t \in Sim : Owned(t) /\ t # h => Owned(t)'
        /\ \A t \in Sim : Owned(t)' => Owned(t)
    BY <1>3, <2>1, TailOwned
  <2> HIDE DEF h
  <2>3. /\ file' \in [Fd -> Sim \cup {NoSim}]
        /\ \A f \in Fd : file'[f] \in {file[f], NoSim}
    BY <2>1, <2>2 DEF Closed, TypeOK
  <2>4. TypeOK'
    BY <1>1, <2>1, <2>2, <2>3 DEF TypeOK
  <2>5. RetryInv' /\ OnlyAConnectDisarms'
    BY <1>1 DEF RetryInv, OnlyAConnectDisarms
  <2>6. LifeInv'
    BY <1>1 DEF LifeInv
  <2>7. DescriptorInv'
    BY <1>1, <2>3, DeletionCloses
  <2>8. DeletedSimsAreQuiet'
    <3>1. ASSUME NEW t \in Sim, Deleted(t)'
          PROVE  listener[t] \in {"none", "done"} /\ helper[t] \in {"none", "done"}
      <4>1. CASE t = h
        BY <2>1, <4>1 DEF Joined, LifeInv
      <4>2. CASE t # h
        <5>1. Deleted(t)
          BY <1>1, <2>2, <3>1, <4>2 DEF Deleted
        <5> QED BY <5>1 DEF DeletedSimsAreQuiet
      <4> QED BY <4>1, <4>2
    <3> QED BY <1>1, <3>1 DEF DeletedSimsAreQuiet
  <2>9. VectorInv'
    BY <1>1, <2>2 DEF VectorInv
  <2> QED BY <2>4, <2>5, <2>6, <2>7, <2>8, <2>9
<1> QED BY <1>2, <1>3

(* What recv() and close() of a listener do to the rest.                   *)
LEMMA ListenerMoves ==
    ASSUME Inv, NEW s \in Sim, listener[s] \in {"recv", "closing", "sleep"},
           NEW point \in {"check", "sleep", "closing"},
           listener' = [listener EXCEPT ![s] = point],
           \A t \in Sim : retry'[t] => retry[t],
           UNCHANGED <<starting, helper, retries, assoc, late>>
    PROVE  /\ RetryInv' /\ VectorInv' /\ LifeInv'
           /\ DeletedSimsAreQuiet' /\ OnlyAConnectDisarms'
           /\ \A t \in Sim : t # s => listener'[t] = listener[t]
           /\ listener'[s] = point
<1> USE DEF Inv
<1>1. RetryInv' /\ OnlyAConnectDisarms'
  BY DEF RetryInv, OnlyAConnectDisarms
<1>2. VectorInv' /\ \A t \in Sim : Owned(t)' <=> Owned(t)
  BY VectorSame
<1>3. /\ \A t \in Sim : t # s => listener'[t] = listener[t]
      /\ listener'[s] = point
  BY DEF TypeOK
<1>4. LifeInv'
  BY <1>3 DEF LifeInv
<1>5. DeletedSimsAreQuiet'
  BY <1>2, <1>3 DEF DeletedSimsAreQuiet, Deleted
<1> QED BY <1>1, <1>2, <1>3, <1>4, <1>5

(* recv() has returned: the listener is done with the association.         *)
LEMMA ReaderLeaves ==
    ASSUME Inv, NEW s \in Sim, on' = [on EXCEPT ![s] = NoSim],
           UNCHANGED <<main, file, assoc, runner, clientFd, taken>>,
           \A t \in Sim : t # s => listener'[t] = listener[t],
           listener'[s] # "closing"
    PROVE  DescriptorInv'
<1> USE DEF Inv
<1>1. OwnerInv' /\ FileInv' /\ TakenInv'
  BY DEF DescriptorInv, OwnerInv, FileInv, TakenInv
<1>2. on'[s] = NoSim /\ \A t \in Sim : t # s => on'[t] = on[t]
  BY DEF TypeOK
<1>3. ReaderInv'
  BY <1>2 DEF DescriptorInv, ReaderInv, Shared
<1> QED BY <1>1, <1>3 DEF DescriptorInv

LEMMA RecvMessageInv ==
    ASSUME Inv, NEW s \in Sim, RecvMessage(s)
    PROVE  Inv'
<1> USE DEF Inv
<1> DEFINE a == on[s]
<1>1. PICK point \in {"check", "sleep"} :
        /\ listener[s] = "recv"
        /\ listener' = [listener EXCEPT ![s] = point]
        /\ UNCHANGED <<starting, helper, retries, file, assoc, histories>>
  BY DEF RecvMessage, Receives
<1>2. /\ a # NoSim /\ inbox[a] # <<>>
      /\ process' \in {process, "exited"}
      /\ inbox' = [inbox EXCEPT ![a] = Tail(inbox[a])]
      /\ on' = [on EXCEPT ![s] = NoSim]
  BY DEF RecvMessage
<1>3. /\ retry' \in [Sim -> BOOLEAN] /\ ok2run' \in [Sim -> BOOLEAN]
      /\ \A t \in Sim : retry'[t] => retry[t]
  BY DEF RecvMessage, StopsItself, Handle, TypeOK
<1>4. Tail(inbox[a]) \in Seq(Message)
  BY <1>2, HeadTailProperties DEF TypeOK
<1>5. TypeOK'
  BY <1>1, <1>2, <1>3, <1>4 DEF TypeOK
<1>6. /\ RetryInv' /\ VectorInv' /\ LifeInv' /\ DeletedSimsAreQuiet' /\ OnlyAConnectDisarms'
      /\ \A t \in Sim : t # s => listener'[t] = listener[t]
      /\ listener'[s] = point
  BY <1>1, <1>3, ListenerMoves
<1>7. DescriptorInv'
  BY <1>1, <1>2, <1>6, ReaderLeaves
<1> QED BY <1>5, <1>6, <1>7

LEMMA RecvTimesOutInv ==
    ASSUME Inv, NEW s \in Sim, RecvTimesOut(s) \/ RecvFails(s)
    PROVE  Inv'
<1> USE DEF Inv
<1>1. /\ listener[s] = "recv"
      /\ listener' = [listener EXCEPT ![s] = "check"]
      /\ on' = [on EXCEPT ![s] = NoSim]
      /\ UNCHANGED <<process, starting, helper, retries, file, assoc, inbox, histories>>
  BY DEF RecvTimesOut, RecvFails, Receives
<1>2. /\ retry' \in [Sim -> BOOLEAN] /\ ok2run' \in [Sim -> BOOLEAN]
      /\ \A t \in Sim : retry'[t] => retry[t]
  BY DEF RecvTimesOut, RecvFails, StopsItself, TypeOK
<1>3. TypeOK'
  BY <1>1, <1>2 DEF TypeOK
<1>4. /\ RetryInv' /\ VectorInv' /\ LifeInv' /\ DeletedSimsAreQuiet' /\ OnlyAConnectDisarms'
      /\ \A t \in Sim : t # s => listener'[t] = listener[t]
      /\ listener'[s] = "check"
  BY <1>1, <1>2, ListenerMoves
<1>5. DescriptorInv'
  BY <1>1, <1>4, ReaderLeaves
<1> QED BY <1>3, <1>4, <1>5

(* The listener keeps what it received on until it has closed.             *)
LEMMA RecvEndsInv ==
    ASSUME Inv, NEW s \in Sim, RecvEnds(s)
    PROVE  Inv'
<1> USE DEF Inv
<1>1. /\ listener[s] = "recv" /\ on[s] # NoSim /\ assoc[on[s]] \in Ended
      /\ listener' = [listener EXCEPT ![s] = "closing"]
      /\ UNCHANGED <<process, starting, retry, ok2run, helper, retries, kernel, histories>>
  BY DEF RecvEnds, Receives, ClosedByPeer
<1>2. TypeOK'
  BY <1>1 DEF TypeOK
<1>3. /\ RetryInv' /\ VectorInv' /\ LifeInv' /\ DeletedSimsAreQuiet' /\ OnlyAConnectDisarms'
      /\ \A t \in Sim : t # s => listener'[t] = listener[t]
      /\ listener'[s] = "closing"
  BY <1>1, ListenerMoves
<1>4. OwnerInv' /\ FileInv' /\ TakenInv'
  BY <1>1 DEF DescriptorInv, OwnerInv, FileInv, TakenInv
<1>5. ReaderInv'
  BY <1>1, <1>3 DEF DescriptorInv, ReaderInv, Shared
<1> QED BY <1>2, <1>3, <1>4, <1>5 DEF DescriptorInv

(* The number names what the listener received on, which is over, or       *)
(* another has closed it since, and the two of them make the owner a third. *)
LEMMA ListenerClosesInv ==
    ASSUME Inv, NEW s \in Sim, ListenerCloses(s)
    PROVE  Inv'
<1> USE DEF Inv
<1> DEFINE f == clientFd[s]
           a == Named(f)
<1>1. /\ listener[s] = "closing"
      /\ listener' = [listener EXCEPT ![s] = "check"]
      /\ on' = [on EXCEPT ![s] = NoSim]
      /\ UNCHANGED <<process, starting, helper, retries, assoc, inbox, asked, late>>
  BY DEF ListenerCloses, AfterClose
<1>2. /\ retry' \in [Sim -> BOOLEAN] /\ ok2run' \in [Sim -> BOOLEAN]
      /\ \A t \in Sim : retry'[t] => retry[t]
  BY DEF ListenerCloses, StopsItself, TypeOK
<1>3. /\ RetryInv' /\ VectorInv' /\ LifeInv' /\ DeletedSimsAreQuiet' /\ OnlyAConnectDisarms'
      /\ \A t \in Sim : t # s => listener'[t] = listener[t]
      /\ listener'[s] = "check"
  BY <1>1, <1>2, ListenerMoves
<1>4. CASE a = NoSim /\ UNCHANGED <<file, taken>>
  <2>1. TypeOK'
    BY <1>1, <1>2, <1>4 DEF TypeOK
  <2>2. DescriptorInv'
    BY <1>1, <1>3, <1>4, ReaderLeaves
  <2> QED BY <1>3, <2>1, <2>2
<1>5. CASE /\ a # NoSim
           /\ file' = Closed(f)
           /\ taken' = taken \cup ({a} \ {on[s]})
  <2>1. on[s] # NoSim /\ assoc[on[s]] \in Ended
    BY <1>1 DEF DescriptorInv, ReaderInv
  <2>2. /\ runner[s] = "returned" /\ f \in Fd /\ f # NoFd /\ on[s] \in Sim
        /\ a = file[f] /\ a \in Sim
    BY <1>5, <2>1, ReaderLives DEF Named, TypeOK
  <2>3. /\ clientFd[a] = f /\ runner[a] \in {"connecting", "returned"}
    BY <1>5, <2>2 DEF DescriptorInv, FileInv
  <2>4. /\ file' \in [Fd -> Sim \cup {NoSim}]
        /\ file'[f] = NoSim
        /\ \A g \in Fd : g # f => file'[g] = file[g]
    BY <1>5, <2>2 DEF Closed, TypeOK
  <2> HIDE DEF a, f
  <2>5. TypeOK'
    BY <1>1, <1>2, <1>5, <2>2, <2>4 DEF TypeOK
  <2>6. OwnerInv'
    <3>1. ASSUME NEW t \in Sim, runner[t] = "connecting" \/ assoc[t] = "open"
          PROVE  /\ clientFd[t] # NoFd
                 /\ \/ file'[clientFd[t]] = t \/ t \in taken'
                    \/ main = "deleting" /\ file'[clientFd[t]] = NoSim
      <4>1. /\ clientFd[t] \in Fd /\ clientFd[t] # NoFd
            /\ \/ file[clientFd[t]] = t \/ t \in taken
               \/ main = "deleting" /\ file[clientFd[t]] = NoSim
        BY <3>1 DEF DescriptorInv, OwnerInv, TypeOK
      <4>2. t = a => a # on[s]
        BY <2>1, <3>1 DEF LifeInv, Ended
      <4> QED BY <1>5, <2>2, <2>4, <4>1, <4>2
    <3> QED BY <1>1, <3>1 DEF OwnerInv
  <2>7. FileInv'
    <3>1. ASSUME NEW g \in Fd, file'[g] # NoSim
          PROVE  file'[g] = file[g]
      BY <2>4, <3>1
    <3> QED BY <1>1, <3>1 DEF DescriptorInv, FileInv
  <2>8. TakenInv'
    <3> SUFFICES ASSUME NEW x \in taken'
                 PROVE  /\ runner[x] \in {"connecting", "returned"} /\ clientFd[x] # NoFd
                        /\ file'[clientFd[x]] # x
                        /\ \E t, u \in Sim \ {x} :
                              /\ t # u /\ runner[t] = "returned" /\ runner[u] = "returned"
                              /\ clientFd[t] = clientFd[x] /\ clientFd[u] = clientFd[x]
                              /\ file'[clientFd[x]] \notin {t, u}
      BY <1>1 DEF TakenInv
    <3>1. CASE x \in taken
      <4>1. PICK t, u \in Sim \ {x} :
                      /\ t # u /\ runner[t] = "returned" /\ runner[u] = "returned"
                      /\ clientFd[t] = clientFd[x] /\ clientFd[u] = clientFd[x]
                      /\ file[clientFd[x]] \notin {t, u}
        BY <3>1 DEF DescriptorInv, TakenInv
      <4>2. /\ x \in Sim /\ runner[x] \in {"connecting", "returned"}
            /\ clientFd[x] \in Fd /\ clientFd[x] # NoFd /\ file[clientFd[x]] # x
        BY <3>1 DEF DescriptorInv, TakenInv, TypeOK
      <4>3. file'[clientFd[x]] \in {file[clientFd[x]], NoSim}
        BY <2>4, <4>2
      <4> QED BY <4>1, <4>2, <4>3, SimsAssumption
    <3>2. CASE x = a /\ a # on[s]
      <4>1. Shared(s)
        BY <1>5, <2>1, <2>2, <3>2 DEF DescriptorInv, ReaderInv, f
      <4>2. PICK v \in Sim \ {s} : /\ runner[v] = "returned" /\ clientFd[v] = f /\ a # v
        BY <2>2, <4>1 DEF Shared, f
      <4>3. s # a
        BY <2>1, <2>2, <3>2 DEF DescriptorInv, ReaderInv, f
      <4>4. s \in Sim \ {a} /\ v \in Sim \ {a} /\ clientFd[s] = f
        BY <4>2, <4>3 DEF f
      <4> QED BY <2>2, <2>3, <2>4, <3>2, <4>2, <4>4, SimsAssumption
    <3> QED BY <1>5, <3>1, <3>2
  <2>9. ReaderInv'
    <3>1. on'[s] = NoSim /\ \A t \in Sim : t # s => on'[t] = on[t]
      BY <1>1 DEF TypeOK
    <3>2. ASSUME NEW t \in Sim, t # s, on[t] # NoSim
          PROVE  /\ clientFd[t] \in Fd /\ clientFd[t] # NoFd
                 /\ file'[clientFd[t]] \in {file[clientFd[t]], NoSim}
      BY <2>4, <3>2, ReaderLives
    <3>3. ASSUME NEW t \in Sim, t # s, on[t] # NoSim, file'[clientFd[t]] # on[t]
          PROVE  \/ main = "deleting" /\ file'[clientFd[t]] = NoSim
                 \/ Shared(t)'
      <4>1. CASE clientFd[t] = f
        <5>1. s \in Sim \ {t} /\ clientFd[s] = clientFd[t] /\ file'[clientFd[t]] # s
          BY <2>4, <3>3, <4>1, SimsAssumption DEF f
        <5> QED BY <1>1, <2>2, <5>1 DEF Shared
      <4>2. CASE clientFd[t] # f
        <5>1. file'[clientFd[t]] = file[clientFd[t]]
          BY <2>4, <3>2, <3>3, <4>2
        <5>2. Shared(t) => Shared(t)'
          BY <1>1, <5>1 DEF Shared
        <5> QED BY <3>3, <5>1, <5>2 DEF DescriptorInv, ReaderInv
      <4> QED BY <4>1, <4>2
    <3>4. ASSUME NEW t \in Sim, t # s, on[t] \notin {t, NoSim}
          PROVE  (assoc[t] \in Ended \/ t \in taken') /\ file'[clientFd[t]] # t
      BY <1>5, <3>2, <3>4, SimsAssumption DEF DescriptorInv, ReaderInv
    <3> QED BY <1>1, <1>3, <3>1, <3>2, <3>3, <3>4 DEF DescriptorInv, ReaderInv
  <2> QED BY <1>3, <2>5, <2>6, <2>7, <2>8, <2>9 DEF DescriptorInv
<1> QED BY <1>4, <1>5 DEF ListenerCloses

LEMMA ListenerAnswersInv ==
    ASSUME Inv, NEW s \in Sim, ListenerAnswers(s)
    PROVE  Inv'
<1> USE DEF Inv
<1>1. CASE /\ listener' = [listener EXCEPT ![s] = "check"]
           /\ UNCHANGED <<process, starting, ok2run, retry, helper, retries, kernel, histories>>
  <2>1. listener[s] = "sleep"
    BY DEF ListenerAnswers
  <2>2. TypeOK'
    BY <1>1 DEF TypeOK
  <2>3. /\ RetryInv' /\ VectorInv' /\ LifeInv' /\ DeletedSimsAreQuiet' /\ OnlyAConnectDisarms'
        /\ \A t \in Sim : t # s => listener'[t] = listener[t]
        /\ listener'[s] = "check"
    BY <1>1, <2>1, ListenerMoves
  <2>4. on[s] = NoSim
    BY <2>1 DEF DescriptorInv, ReaderInv
  <2>5. DescriptorInv'
    BY <1>1, <2>3, <2>4, DescriptorSame
  <2> QED BY <2>2, <2>3, <2>5
<1>2. CASE Exit
  BY <1>2, ExitInv DEF Exit
<1> QED BY <1>1, <1>2 DEF ListenerAnswers

(* A SETUP-REQUEST leaves; if retryConnection was cleared meanwhile, it is *)
(* the late one.                                                           *)
LEMMA HelperSendInv ==
    ASSUME Inv, NEW s \in Sim, HelperSend(s)
    PROVE  Inv'
<1> USE DEF Inv
<1> DEFINE a == Named(clientFd[s])
<1>1. helper[s] = "send"
  BY DEF HelperSend
<1>2. CASE a # NoSim /\ assoc[a] = "open"
  <2>1. /\ asked' = [asked EXCEPT ![a] = TRUE]
        /\ late' = IF retry[s] THEN late ELSE [late EXCEPT ![s] = @ + 1]
        /\ helper' = [helper EXCEPT ![s] = "wait"]
        /\ UNCHANGED <<process, starting, ok2run, retry, listener, retries, kernel, taken>>
    BY <1>2 DEF HelperSend
  <2>2. a \in Sim
    BY <1>2 DEF Named, TypeOK
  <2>3. late' \in [Sim -> Nat]
    BY <2>1, SMTT(30) DEF TypeOK
  <2>4. TypeOK'
    BY <2>1, <2>2, <2>3 DEF TypeOK
  <2>5. RetryInv'
    BY <1>1, <2>1, SMTT(30) DEF RetryInv, TypeOK
  <2>6. LifeInv' /\ VectorInv'
    BY <1>1, <2>1, VectorSame DEF LifeInv, TypeOK
  <2>7. DescriptorInv' /\ OnlyAConnectDisarms'
    BY <2>1, DescriptorSame DEF OnlyAConnectDisarms
  <2>8. DeletedSimsAreQuiet'
    BY <1>1, <2>1, VectorSame DEF DeletedSimsAreQuiet, Deleted, TypeOK
  <2> QED BY <2>4, <2>5, <2>6, <2>7, <2>8
<1>3. CASE Exit
  BY <1>3, ExitInv DEF Exit
<1> QED BY <1>2, <1>3 DEF HelperSend

(* The wait uses up the attempt that was left.                             *)
LEMMA HelperWakesInv ==
    ASSUME Inv, NEW s \in Sim, HelperWakes(s)
    PROVE  Inv'
<1> USE DEF Inv
<1>1. /\ helper[s] = "wait"
      /\ retries' = [retries EXCEPT ![s] = retries[s] - 1]
      /\ helper' = [helper EXCEPT ![s] = "check"]
      /\ UNCHANGED <<process, starting, ok2run, retry, listener, kernel, histories>>
  BY DEF HelperWakes, NextRetries
<1>2. retries[s] - 1 \in 0..SetupAttempts
  BY <1>1, SMTT(30) DEF RetryInv, TypeOK
<1>3. TypeOK'
  BY <1>1, <1>2 DEF TypeOK
<1>4. RetryInv'
  BY <1>1 DEF RetryInv, TypeOK
<1>5. DescriptorInv' /\ OnlyAConnectDisarms'
  BY <1>1, DescriptorSame DEF OnlyAConnectDisarms
<1>6. VectorInv' /\ \A t \in Sim : Owned(t)' <=> Owned(t)
  BY <1>1, VectorSame
<1>7. LifeInv'
  BY <1>1 DEF LifeInv, TypeOK
<1>8. DeletedSimsAreQuiet'
  BY <1>1, <1>6 DEF DeletedSimsAreQuiet, Deleted, TypeOK
<1> QED BY <1>3, <1>4, <1>5, <1>6, <1>7, <1>8

(* A loop ends the process.                                                *)
LEMMA LoopSendsInv ==
    ASSUME Inv, NEW s \in Sim, LoopSends(s)
    PROVE  Inv'
BY ExitInv DEF LoopSends
-----------------------------------------------------------------------------
LEMMA NextInv == Inv /\ [Next]_vars => Inv'
<1> SUFFICES ASSUME Inv, [Next]_vars PROVE Inv'
  OBVIOUS
<1>1. ASSUME NEW s \in Sim, StartRun(s) \/ RunStep(s) \/ LoopSends(s) PROVE Inv'
  BY <1>1, StartRunInv, OpenSocketInv, ConnectSucceedsInv, ConnectFailsInv, RunFailsInv,
     LoopSendsInv DEF RunStep
<1>2. ASSUME NEW s \in Sim, ListenerStep(s) PROVE Inv'
  BY <1>2, ListenerStartInv, ListenerCheckInv, RecvMessageInv, RecvTimesOutInv, RecvEndsInv,
     ListenerClosesInv, ListenerAnswersInv, ListenerEndInv DEF ListenerStep, RecvReturns
<1>3. ASSUME NEW s \in Sim, HelperStep(s) PROVE Inv'
  BY <1>3, HelperCheckInv, HelperSendInv, HelperWakesInv, HelperGivesUpInv DEF HelperStep
<1>4. ASSUME NEW s \in Sim, NEW msg \in PeerMessage, PeerSends(s, msg) PROVE Inv'
  BY <1>4, PeerSendsInv
<1>5. ASSUME NEW s \in Sim, AssociationEnds(s) PROVE Inv'
  BY <1>5, AssociationEndsInv
<1>6. CASE AlarmExpires
  BY <1>6, AlarmExpiresInv
<1>7. CASE MainStep
  BY <1>7, MainWakesInv, ShutdownAllInv, DeleteInv DEF MainStep
<1>8. CASE OperatorStops
  BY <1>8, OperatorStopsInv
<1>9. CASE UNCHANGED vars
  <2>1. TypeOK'
    BY <1>9 DEF vars, Inv, TypeOK
  <2>2. RetryInv' /\ DescriptorInv' /\ OnlyAConnectDisarms'
    BY <1>9, DescriptorSame DEF vars, Inv, RetryInv, OnlyAConnectDisarms
  <2>3. VectorInv' /\ LifeInv' /\ DeletedSimsAreQuiet'
    BY <1>9, VectorSame DEF vars, Inv, LifeInv, DeletedSimsAreQuiet, Deleted
  <2> QED BY <2>1, <2>2, <2>3 DEF Inv
<1> QED BY <1>1, <1>2, <1>3, <1>4, <1>5, <1>6, <1>7, <1>8, <1>9 DEF Next

LEMMA InitInv == Init => Inv
<1> SUFFICES ASSUME Init PROVE Inv
  OBVIOUS
<1>1. TypeOK
  <2>1. e2sims \in Seq(Sim) /\ <<>> \in Seq(Message)
    BY EmptySeq DEF Init
  <2>2. SetupAttempts \in 0..SetupAttempts /\ 0 \in 0..MaxAddresses
    OBVIOUS
  <2> QED BY <2>1, <2>2 DEF Init, TypeOK
<1>2. RetryInv /\ OnlyAConnectDisarms
  BY DEF Init, RetryInv, OnlyAConnectDisarms
<1>3. LifeInv /\ DeletedSimsAreQuiet
  BY DEF Init, LifeInv, DeletedSimsAreQuiet, Deleted
<1>4. VectorInv
  BY DEF Init, VectorInv, Owned
<1>5. DescriptorInv
  BY DEF Init, DescriptorInv, OwnerInv, FileInv, TakenInv, ReaderInv
<1> QED BY <1>1, <1>2, <1>3, <1>4, <1>5 DEF Inv

(* Inv holds in every reachable state.                                     *)
THEOREM InvHolds == Spec => []Inv
<1>1. Init => Inv
  BY InitInv
<1>2. Inv /\ [Next]_vars => Inv'
  BY NextInv
<1> QED BY <1>1, <1>2, PTL DEF Spec

(* Every variable keeps its type; the attempts of connection_helper never  *)
(* run below zero.                                                         *)
THEOREM TypeCorrect == Spec => []TypeOK
<1>1. Inv => TypeOK
  BY DEF Inv
<1> QED BY <1>1, InvHolds, PTL

(* After retryConnection is cleared at most one SETUP-REQUEST leaves.      *)
THEOREM LateRequests == Spec => []LateRequestsBounded
<1>1. Inv => LateRequestsBounded
  BY DEF Inv, RetryInv, LateRequestsBounded
<1> QED BY <1>1, InvHolds, PTL

(* Until main deletes, an open association is the one client_fd names, for *)
(* every E2Sim whose number no other has closed.                           *)
THEOREM DescriptorKept == Spec => []OpenAssociationKeepsDescriptor
<1>1. Inv => OpenAssociationKeepsDescriptor
  BY DEF Inv, DescriptorInv, OwnerInv, OpenAssociationKeepsDescriptor, Named
<1> QED BY <1>1, InvHolds, PTL

(* Only an E2Sim whose own association is over, or whose number another    *)
(* has closed, ever receives from another one's, or sends to it.           *)
THEOREM StaleDescriptorsOnly == Spec => []OnlyStaleDescriptorsStray
<1>1. Inv => OnlyStaleDescriptorsStray
  <2> SUFFICES ASSUME Inv, NEW s \in Sim, runner[s] = "returned",
                      assoc[s] \notin Ended, s \notin taken
               PROVE  Named(clientFd[s]) \in {s, NoSim} /\ on[s] \in {s, NoSim}
    BY DEF OnlyStaleDescriptorsStray
  <2>1. Named(clientFd[s]) \in {s, NoSim}
    BY DEF Inv, TypeOK, LifeInv, DescriptorInv, OwnerInv, Named
  <2>2. on[s] \in {s, NoSim}
    BY DEF Inv, DescriptorInv, ReaderInv
  <2> QED BY <2>1, <2>2
<1> QED BY <1>1, InvHolds, PTL

(* A number is taken from an E2Sim by a third only: two others, whose      *)
(* run()s are over, have used it before.                                   *)
THEOREM ThirdsOnly == Spec => []OnlyAThirdTakes
<1>1. Inv => OnlyAThirdTakes
  BY DEF Inv, DescriptorInv, TakenInv, OnlyAThirdTakes
<1> QED BY <1>1, InvHolds, PTL

(* The connect of main is watched by an alarm until a handover connects.   *)
THEOREM StartupIsTimed == Spec => []OnlyAConnectDisarms
<1>1. Inv => OnlyAConnectDisarms
  BY DEF Inv
<1> QED BY <1>1, InvHolds, PTL

(* The destructor frees no E2Sim whose threads still run.                  *)
THEOREM DeletedQuiet == Spec => []DeletedSimsAreQuiet
<1>1. Inv => DeletedSimsAreQuiet
  BY DEF Inv
<1> QED BY <1>1, InvHolds, PTL
-----------------------------------------------------------------------------
(***************************************************************************)
(* E2Connection implements Association.                                    *)
(***************************************************************************)

(* A step that changes no link is one the abstraction does not see, unless *)
(* the process ends.                                                       *)
LEMMA SameLinks ==
    ASSUME process = "running", process' \in {"running", "exited", "crashed", "returned"},
           \A t \in Sim : LinkOf(t)' = LinkOf(t)
    PROVE  [Links!Next]_(Links!vars)
<1>1. [t \in Sim |-> LinkOf(t)]' = [t \in Sim |-> LinkOf(t)]
  OBVIOUS
<1>2. CASE process' = "running"
  BY <1>1, <1>2 DEF Links!vars
<1>3. CASE process' # "running"
  BY <1>1, <1>3 DEF Links!Next, Links!Die
<1> QED BY <1>2, <1>3

(* Links that are lost are lost together. *)
LEMMA LostLinks ==
    ASSUME process = "running", process' = "running",
           \A t \in Sim : \/ LinkOf(t)' = LinkOf(t)
                         \/ (LinkOf(t) = "up" /\ LinkOf(t)' = "down")
    PROVE  [Links!Next]_(Links!vars)
<1> DEFINE lost == {t \in Sim : LinkOf(t) = "up" /\ LinkOf(t)' = "down"}
<1>1. CASE lost = {}
  BY <1>1, SameLinks
<1>2. CASE lost # {}
  <2>1. /\ lost \in SUBSET {t \in Sim : [r \in Sim |-> LinkOf(r)][t] = "up"}
        /\ [t \in Sim |-> LinkOf(t)]' =
              [t \in Sim |-> IF t \in lost THEN "down" ELSE [r \in Sim |-> LinkOf(r)][t]]
    OBVIOUS
  <2>2. [t \in Sim |-> LinkOf(t)]' # [t \in Sim |-> LinkOf(t)]
    BY <1>2
  <2> HIDE DEF lost
  <2>3. Links!Lose
    BY <1>2, <2>1 DEF Links!Lose
  <2> QED BY <2>2, <2>3 DEF Links!Next, Links!Change
<1> QED BY <1>1, <1>2

(* A link depends on the E2Sim's run(), its place in the vector, its       *)
(* descriptor and what that names.                                         *)
LEMMA LinkDepends ==
    ASSUME NEW t \in Sim, runner'[t] = runner[t],
           \/ runner[t] # "returned"
           \/ /\ Owned(t)' <=> Owned(t)
              /\ clientFd'[t] = clientFd[t]
              /\ Usable(t)' <=> Usable(t)
    PROVE  LinkOf(t)' = LinkOf(t)
BY DEF LinkOf, Deleted

(* One that leads nowhere any more is lost, if it was there. *)
LEMMA LinkLost ==
    ASSUME NEW t \in Sim, runner'[t] = runner[t],
           \/ runner[t] # "returned"
           \/ /\ Owned(t)' <=> Owned(t)
              /\ clientFd'[t] = clientFd[t]
              /\ Usable(t)' => Usable(t)
    PROVE  LinkOf(t)' = LinkOf(t) \/ (LinkOf(t) = "up" /\ LinkOf(t)' = "down")
BY DEF LinkOf, Deleted

(* Closing a number makes no other usable. *)
LEMMA ClosedUsable ==
    ASSUME Inv, UNCHANGED <<clientFd, assoc>>,
           \A f \in Fd : file'[f] \in {file[f], NoSim},
           NEW t \in Sim, Usable(t)'
    PROVE  Usable(t)
<1>1. clientFd[t] \in Fd \cup {NoFd}
  BY DEF Inv, TypeOK
<1>2. clientFd[t] # NoFd /\ Named(clientFd[t])' = file'[clientFd[t]]
  BY DEF Usable, Named
<1>3. Named(clientFd[t])' = Named(clientFd[t])
  BY <1>1, <1>2 DEF Usable, Named
<1> QED BY <1>3 DEF Usable

LEMMA QuietLinks ==
    ASSUME UNCHANGED <<e2sims, runner, clientFd, file, assoc>>
    PROVE  \A t \in Sim : LinkOf(t)' = LinkOf(t)
BY DEF LinkOf, Deleted, Owned, Usable, Named

(* Before main deletes, no link is deleted. *)
LEMMA NothingDeletedYet ==
    ASSUME Inv, main # "deleting"
    PROVE  Links!NothingDeleted
BY DEF Links!NothingDeleted, LinkOf, Deleted, Inv, VectorInv

(* The new number named nothing, and names an association that is not open. *)
LEMMA OpenSocketLinks ==
    ASSUME Inv, NEW s \in Sim, OpenSocket(s)
    PROVE  \A t \in Sim : LinkOf(t)' = LinkOf(t)
<1>1. /\ runner[s] = "addresses" /\ runner'[s] \in {"addresses", "connecting"}
      /\ assoc[s] = "none" /\ UNCHANGED <<assoc, e2sims>>
  BY DEF OpenSocket, Inv, TypeOK, LifeInv
<1>2. LinkOf(s) = "none" /\ LinkOf(s)' = "none"
  BY <1>1 DEF LinkOf
<1>3. ASSUME NEW t \in Sim, t # s
      PROVE  LinkOf(t)' = LinkOf(t)
  <2>1. runner'[t] = runner[t] /\ clientFd'[t] = clientFd[t] /\ clientFd[t] \in Fd \cup {NoFd}
    BY <1>3 DEF OpenSocket, Inv, TypeOK
  <2>2. \/ file' = file
        \/ \E f \in Fd : file[f] = NoSim /\ file' = [file EXCEPT ![f] = s]
    BY DEF OpenSocket
  <2>3. Usable(t)' <=> Usable(t)
    <3>1. CASE file' = file
      BY <1>1, <2>1, <3>1 DEF Usable, Named
    <3>2. CASE \E f \in Fd : file[f] = NoSim /\ file' = [file EXCEPT ![f] = s]
      <4>1. PICK f \in Fd : file[f] = NoSim /\ file' = [file EXCEPT ![f] = s]
        BY <3>2
      <4>2. f # NoFd /\ file'[f] = s /\ \A g \in Fd : g # f => file'[g] = file[g]
        BY <4>1, FdType DEF Inv, TypeOK
      <4>3. CASE clientFd[t] = f
        <5>1. ~Usable(t)
          BY <4>1, <4>2, <4>3 DEF Usable, Named
        <5>2. Named(clientFd[t])' = s /\ assoc'[s] # "open"
          BY <1>1, <2>1, <4>2, <4>3 DEF Named
        <5>3. ~Usable(t)'
          BY <5>2 DEF Usable
        <5> QED BY <5>1, <5>3
      <4>4. CASE clientFd[t] # f
        <5>1. Named(clientFd[t])' = Named(clientFd[t])
          BY <2>1, <4>2, <4>4 DEF Named
        <5> QED BY <1>1, <5>1 DEF Usable
      <4> QED BY <4>3, <4>4
    <3> QED BY <2>2, <3>1, <3>2
  <2>4. Owned(t)' <=> Owned(t)
    BY <1>1 DEF Owned
  <2> QED BY <2>1, <2>3, <2>4, LinkDepends
<1> QED BY <1>2, <1>3

(* The link of s comes up, and those whose stale number is the same; or it *)
(* leads nowhere, for the number was closed before.                        *)
LEMMA ConnectSucceedsLinks ==
    ASSUME Inv, NEW s \in Sim, ConnectSucceeds(s)
    PROVE  [Links!Next]_(Links!vars)
<1>1. /\ runner[s] = "connecting" /\ runner' = [runner EXCEPT ![s] = "returned"]
      /\ assoc' = [assoc EXCEPT ![s] = "open"]
      /\ process = "running"
      /\ UNCHANGED <<process, e2sims, clientFd, file>>
  BY DEF ConnectSucceeds
<1>2. /\ main # "deleting" /\ Owned(s) /\ assoc[s] = "none"
      /\ clientFd[s] \in Fd /\ clientFd[s] # NoFd
  BY <1>1, SMTT(30) DEF Inv, VectorInv, LifeInv, DescriptorInv, OwnerInv, TypeOK
<1>3. \A t \in Sim : Owned(t)' <=> Owned(t)
  BY <1>1 DEF Owned
<1>4. /\ LinkOf(s) = "none" /\ LinkOf(s)' \in {"up", "down"}
      /\ LinkOf(s)' = "up" <=> Usable(s)'
  <2>1. LinkOf(s) = "none"
    BY <1>1 DEF LinkOf
  <2>2. runner'[s] = "returned"
    BY <1>1 DEF Inv, TypeOK
  <2> QED BY <1>1, <1>2, <1>3, <2>1, <2>2 DEF LinkOf, Deleted
<1>5. ASSUME NEW t \in Sim, t # s
      PROVE  /\ LinkOf(t)' = LinkOf(t) \/ (LinkOf(t) = "down" /\ LinkOf(t)' = "up")
             /\ (Named(clientFd[t]) # s => LinkOf(t)' = LinkOf(t))
  <2>1. runner'[t] = runner[t] /\ clientFd'[t] = clientFd[t] /\ Named(clientFd[t])' = Named(clientFd[t])
    BY <1>1, <1>5 DEF Inv, TypeOK, Named
  <2>2. \A a \in Sim : /\ (assoc[a] = "open" => assoc'[a] = "open")
                        /\ (a # s => assoc'[a] = assoc[a])
    BY <1>1 DEF Inv, TypeOK
  <2>3. Named(clientFd[t]) \in Sim \cup {NoSim}
    BY DEF Named, Inv, TypeOK
  <2>4. /\ (Usable(t) => Usable(t)')
        /\ (Named(clientFd[t]) # s => (Usable(t)' <=> Usable(t)))
    BY <2>1, <2>2, <2>3, SimsAssumption DEF Usable
  <2>5. Deleted(t)' <=> Deleted(t)
    BY <1>3, <2>1 DEF Deleted
  <2>6. CASE Usable(t)' <=> Usable(t)
    BY <1>3, <2>1, <2>6, LinkDepends
  <2>7. CASE ~Usable(t) /\ Usable(t)'
    <3>1. CASE runner[t] # "returned" \/ Deleted(t) \/ clientFd[t] = NoFd
      BY <2>1, <2>4, <2>5, <2>7, <3>1 DEF LinkOf
    <3>2. CASE runner[t] = "returned" /\ ~Deleted(t) /\ clientFd[t] # NoFd
      BY <2>1, <2>4, <2>5, <2>7, <3>2 DEF LinkOf
    <3> QED BY <3>1, <3>2
  <2> QED BY <2>4, <2>6, <2>7
<1>6. [t \in Sim |-> LinkOf(t)]' # [t \in Sim |-> LinkOf(t)]
  BY <1>4
<1>7. CASE LinkOf(s)' = "up"
  <2> DEFINE back == {t \in Sim : LinkOf(t) = "down" /\ LinkOf(t)' = "up"}
  <2>1. /\ back \in SUBSET {t \in Sim : [r \in Sim |-> LinkOf(r)][t] = "down"}
        /\ [t \in Sim |-> LinkOf(t)]' =
              [t \in Sim |-> IF t = s \/ t \in back THEN "up" ELSE [r \in Sim |-> LinkOf(r)][t]]
    BY <1>4, <1>5, <1>7
  <2> HIDE DEF back
  <2>2. Links!Establish(s)
    BY <1>2, <1>4, <2>1, NothingDeletedYet DEF Links!Establish
  <2> QED BY <1>1, <1>6, <2>2 DEF Links!Next, Links!Change
<1>8. CASE LinkOf(s)' = "down"
  <2>1. ~Usable(s)'
    BY <1>4, <1>8
  <2>2. Named(clientFd[s]) # s
    BY <1>1, <2>1, SimsAssumption DEF Usable, Named, Inv, TypeOK
  <2>3. ASSUME NEW t \in Sim, t # s
        PROVE  LinkOf(t)' = LinkOf(t)
    <3>1. Named(clientFd[t]) # s
      <4>1. ASSUME Named(clientFd[t]) = s
            PROVE  FALSE
        <5>1. clientFd[t] \in Fd /\ file[clientFd[t]] = s
          BY <4>1, SimsAssumption DEF Named, Inv, TypeOK
        <5>2. clientFd[s] = clientFd[t]
          BY <5>1, SimsAssumption DEF Inv, DescriptorInv, FileInv
        <5> QED BY <1>2, <2>2, <5>1, <5>2 DEF Named
      <4> QED BY <4>1
    <3> QED BY <1>5, <2>3, <3>1
  <2>4. [t \in Sim |-> LinkOf(t)]' = [[t \in Sim |-> LinkOf(t)] EXCEPT ![s] = "down"]
    BY <1>8, <2>3
  <2>5. Links!Miss(s)
    BY <1>2, <1>4, <2>4, NothingDeletedYet DEF Links!Miss
  <2> QED BY <1>1, <1>6, <2>5 DEF Links!Next, Links!Change
<1> QED BY <1>4, <1>7, <1>8

(* The socket that is closed led to nothing yet; an association that has   *)
(* its number by now is lost.                                              *)
LEMMA AttemptFailsLinks ==
    ASSUME Inv, NEW s \in Sim, process = "running", runner[s] = "connecting", AttemptFails(s)
    PROVE  [Links!Next]_(Links!vars)
<1>1. /\ runner' = [runner EXCEPT ![s] = "addresses"]
      /\ file' = Closed(clientFd[s])
      /\ UNCHANGED <<process, e2sims, clientFd, assoc>>
  BY DEF AttemptFails
<1>2. \A f \in Fd : file'[f] \in {file[f], NoSim}
  BY <1>1 DEF Closed, Inv, TypeOK
<1>3. LinkOf(s) = "none" /\ LinkOf(s)' = "none"
  BY <1>1 DEF LinkOf, Inv, TypeOK
<1>4. ASSUME NEW t \in Sim, t # s
      PROVE  LinkOf(t)' = LinkOf(t) \/ (LinkOf(t) = "up" /\ LinkOf(t)' = "down")
  <2>1. runner'[t] = runner[t]
    BY <1>1, <1>4 DEF Inv, TypeOK
  <2>2. Owned(t)' <=> Owned(t)
    BY <1>1 DEF Owned
  <2>3. Usable(t)' => Usable(t)
    BY <1>1, <1>2, ClosedUsable
  <2> QED BY <1>1, <2>1, <2>2, <2>3, LinkLost
<1> QED BY <1>1, <1>3, <1>4, LostLinks

LEMMA RunFailsLinks ==
    ASSUME Inv, NEW s \in Sim, RunFails(s)
    PROVE  [Links!Next]_(Links!vars)
<1>1. /\ runner[s] = "addresses" /\ runner' = [runner EXCEPT ![s] = "returned"]
      /\ clientFd' = [clientFd EXCEPT ![s] = NoFd]
      /\ process = "running"
      /\ UNCHANGED <<process, e2sims, file, assoc>>
  BY DEF RunFails, FailedFd
<1>2. main # "deleting" /\ Owned(s)
  BY <1>1 DEF Inv, VectorInv
<1>3. \A t \in Sim : Owned(t)' <=> Owned(t)
  BY <1>1 DEF Owned
<1>4. LinkOf(s) = "none" /\ LinkOf(s)' = "failed"
  BY <1>1, <1>2, <1>3 DEF LinkOf, Deleted, Inv, TypeOK
<1>5. ASSUME NEW t \in Sim, t # s
      PROVE  LinkOf(t)' = LinkOf(t)
  <2>1. runner'[t] = runner[t] /\ clientFd'[t] = clientFd[t]
    BY <1>1, <1>5 DEF Inv, TypeOK
  <2>2. Usable(t)' <=> Usable(t)
    BY <1>1, <2>1 DEF Usable, Named
  <2> QED BY <1>3, <2>1, <2>2, LinkDepends
<1>6. [t \in Sim |-> LinkOf(t)]' = [[t \in Sim |-> LinkOf(t)] EXCEPT ![s] = "failed"]
  BY <1>4, <1>5
<1>7. Links!Fail(s)
  BY <1>2, <1>4, <1>6, NothingDeletedYet DEF Links!Fail
<1>8. [t \in Sim |-> LinkOf(t)]' # [t \in Sim |-> LinkOf(t)]
  BY <1>4
<1> QED BY <1>1, <1>7, <1>8 DEF Links!Next, Links!Change

(* A new E2Sim has no link; nothing else changes.                          *)
LEMMA StartRunLinks ==
    ASSUME Inv, NEW s \in Sim, StartRun(s)
    PROVE  \A t \in Sim : LinkOf(t)' = LinkOf(t)
<1>1. /\ runner[s] = "none" /\ runner' = [runner EXCEPT ![s] = "addresses"]
      /\ e2sims' = Append(e2sims, s)
      /\ UNCHANGED <<clientFd, file, assoc>>
  BY DEF StartRun
<1>2. TypeOK
  BY DEF Inv
<1>3. LinkOf(s) = "none" /\ LinkOf(s)' = "none"
  BY <1>1, <1>2 DEF LinkOf, TypeOK
<1>4. ASSUME NEW t \in Sim, t # s
      PROVE  LinkOf(t)' = LinkOf(t)
  <2>1. runner'[t] = runner[t]
    BY <1>1, <1>2, <1>4 DEF TypeOK
  <2>2. Owned(t)' <=> Owned(t)
    BY <1>1, <1>2, <1>4, AppendOwned
  <2>3. Usable(t)' <=> Usable(t)
    BY <1>1 DEF Usable, Named
  <2> QED BY <1>1, <2>1, <2>2, <2>3, LinkDepends
<1> QED BY <1>3, <1>4

(* The number that is closed is lost for all links that shared it.         *)
LEMMA ListenerClosesLinks ==
    ASSUME Inv, NEW s \in Sim, ListenerCloses(s)
    PROVE  [Links!Next]_(Links!vars)
<1>1. process = "running" /\ UNCHANGED <<process, e2sims, runner, clientFd, assoc>>
  BY DEF ListenerCloses
<1>2. file' = file \/ file' = Closed(clientFd[s])
  BY DEF ListenerCloses
<1>3. \A f \in Fd : file'[f] \in {file[f], NoSim}
  BY <1>2 DEF Closed, Inv, TypeOK
<1>4. ASSUME NEW t \in Sim
      PROVE  LinkOf(t)' = LinkOf(t) \/ (LinkOf(t) = "up" /\ LinkOf(t)' = "down")
  <2>1. Usable(t)' => Usable(t)
    BY <1>1, <1>3, ClosedUsable
  <2>2. Owned(t)' <=> Owned(t)
    BY <1>1 DEF Owned
  <2> QED BY <1>1, <2>1, <2>2, LinkLost
<1> QED BY <1>1, <1>4, LostLinks

(* Every link that leads to the association is lost.                       *)
LEMMA AssociationEndsLinks ==
    ASSUME Inv, NEW s \in Sim, AssociationEnds(s)
    PROVE  [Links!Next]_(Links!vars)
<1>1. PICK ending \in Ended :
        /\ process = "running" /\ process' = "running"
        /\ assoc' = [assoc EXCEPT ![s] = ending]
        /\ UNCHANGED <<e2sims, runner, clientFd, file>>
  BY DEF AssociationEnds
<1>2. \A a \in Sim : assoc'[a] = "open" => assoc[a] = "open"
  BY <1>1 DEF Inv, TypeOK, Ended
<1>3. ASSUME NEW t \in Sim
      PROVE  LinkOf(t)' = LinkOf(t) \/ (LinkOf(t) = "up" /\ LinkOf(t)' = "down")
  <2>1. Named(clientFd[t])' = Named(clientFd[t]) /\ Named(clientFd[t]) \in Sim \cup {NoSim}
    BY <1>1 DEF Named, Inv, TypeOK
  <2>2. Usable(t)' => Usable(t)
    BY <1>2, <2>1 DEF Usable
  <2>3. Owned(t)' <=> Owned(t)
    BY <1>1 DEF Owned
  <2> QED BY <1>1, <2>2, <2>3, LinkLost
<1> QED BY <1>1, <1>3, LostLinks

(* The head of the vector is deleted, and with it every link whose stale   *)
(* number is that of its descriptor is lost.                               *)
LEMMA DeleteLinks ==
    ASSUME Inv, Delete
    PROVE  [Links!Next]_(Links!vars)
<1>1. process = "running" /\ main = "deleting" /\ UNCHANGED <<runner, clientFd, assoc>>
  BY DEF Delete
<1>2. CASE e2sims = <<>>
  <2>1. process' = "returned" /\ UNCHANGED <<e2sims, file>>
    BY <1>2 DEF Delete
  <2> QED BY <1>1, <2>1, QuietLinks, SameLinks
<1>3. CASE e2sims # <<>>
  <2> SUFFICES ASSUME NEW h \in Sim, h = Head(e2sims)
               PROVE  [Links!Next]_(Links!vars)
    BY <1>3, TailOwned DEF Delete, Inv
  <2>1. /\ file' = Closed(clientFd[h]) /\ e2sims' = Tail(e2sims) /\ process' = process
    BY <1>3 DEF Delete
  <2>2. /\ h \in Sim /\ Owned(h)
        /\ \A t \in Sim : Owned(t) /\ t # h => Owned(t)'
        /\ \A t \in Sim : Owned(t)' => Owned(t)
    <3>1. TypeOK
      BY DEF Inv
    <3>2. e2sims \in Seq(Sim)
      BY <3>1 DEF TypeOK
    <3>3. 1 \in DOMAIN e2sims /\ e2sims[1] = h
      BY <1>3, <3>2, LenProperties, EmptySeq, HeadTailProperties
    <3>4. Owned(h)
      BY <3>3 DEF Owned
    <3> QED BY <1>3, <2>1, <3>1, <3>4, TailOwned
  <2>3. runner[h] = "returned"
    BY <1>1, <2>2 DEF Inv, VectorInv, TypeOK
  <2>4. \A f \in Fd : file'[f] \in {file[f], NoSim}
    BY <2>1, <2>2 DEF Closed, Inv, TypeOK
  <2>5. ASSUME NEW t \in Sim, Owned(t)' <=> Owned(t)
        PROVE  LinkOf(t)' = LinkOf(t) \/ (LinkOf(t) = "up" /\ LinkOf(t)' = "down")
    <3>1. Usable(t)' => Usable(t)
      BY <1>1, <2>4, ClosedUsable
    <3> QED BY <1>1, <2>5, <3>1, LinkLost
  <2>6. CASE Owned(h)'
    BY <1>1, <2>1, <2>2, <2>5, <2>6, LostLinks
  <2>7. CASE ~Owned(h)'
    <3>1. LinkOf(h) \in {"up", "down", "failed"} /\ LinkOf(h)' = "deleted"
      BY <1>1, <2>2, <2>3, <2>7 DEF LinkOf, Deleted
    <3>2. \A t \in Sim : t # h => LinkOf(t)' = LinkOf(t)
                                  \/ (LinkOf(t) = "up" /\ LinkOf(t)' = "down")
      BY <2>2, <2>5
    <3> DEFINE lost == {t \in Sim : t # h /\ LinkOf(t) = "up" /\ LinkOf(t)' = "down"}
    <3>3. /\ lost \in SUBSET {t \in Sim : [r \in Sim |-> LinkOf(r)][t] = "up"}
          /\ [t \in Sim |-> LinkOf(t)]' =
                [t \in Sim |-> IF t = h THEN "deleted"
                               ELSE IF t \in lost THEN "down"
                               ELSE [r \in Sim |-> LinkOf(r)][t]]
      BY <3>1, <3>2
    <3> HIDE DEF lost
    <3>4. Links!Delete(h)
      BY <2>2, <3>1, <3>3 DEF Links!Delete
    <3>5. [t \in Sim |-> LinkOf(t)]' # [t \in Sim |-> LinkOf(t)]
      BY <2>2, <3>1
    <3> QED BY <1>1, <2>1, <2>2, <3>4, <3>5 DEF Links!Next, Links!Change
  <2> QED BY <2>6, <2>7
<1> QED BY <1>2, <1>3

(* Every step changes the links as Association does, or not at all.        *)
LEMMA NextLinks ==
    ASSUME Inv, Inv', [Next]_vars
    PROVE  [Links!Next]_(Links!vars)
<1>1. process' \in {"running", "exited", "crashed", "returned"}
  BY DEF Inv, TypeOK
<1>2. ASSUME process = "running", \A t \in Sim : LinkOf(t)' = LinkOf(t)
      PROVE  [Links!Next]_(Links!vars)
  BY <1>1, <1>2, SameLinks
<1>3. ASSUME process = "running", UNCHANGED <<e2sims, runner, clientFd, file, assoc>>
      PROVE  [Links!Next]_(Links!vars)
  BY <1>2, <1>3, QuietLinks
<1>4. ASSUME NEW s \in Sim, StartRun(s) PROVE [Links!Next]_(Links!vars)
  BY <1>2, <1>4, StartRunLinks DEF StartRun
<1>5. ASSUME NEW s \in Sim, RunStep(s) PROVE [Links!Next]_(Links!vars)
  <2>1. CASE OpenSocket(s)
    BY <1>2, <2>1, OpenSocketLinks DEF OpenSocket
  <2>2. CASE ConnectFails(s)
    BY <2>2, AttemptFailsLinks DEF ConnectFails
  <2> QED BY <1>5, <2>1, <2>2, ConnectSucceedsLinks, RunFailsLinks DEF RunStep
<1>6. ASSUME NEW s \in Sim, ListenerStep(s) PROVE [Links!Next]_(Links!vars)
  <2>1. CASE ListenerCloses(s)
    BY <2>1, ListenerClosesLinks
  <2>2. CASE RecvReturns(s)
    <3>1. process = "running" /\ UNCHANGED <<starting, file, assoc>>
      BY <2>2 DEF RecvReturns, RecvMessage, RecvTimesOut, RecvFails, RecvEnds, Receives
    <3> QED BY <1>3, <3>1
  <2>3. CASE ListenerStart(s) \/ ListenerCheck(s) \/ ListenerAnswers(s) \/ ListenerEnd(s)
    BY <1>3, <2>3 DEF ListenerStart, ListenerCheck, ListenerAnswers, ListenerEnd, Exit
  <2> QED BY <1>6, <2>1, <2>2, <2>3 DEF ListenerStep
<1>7. ASSUME NEW s \in Sim, HelperStep(s) \/ LoopSends(s) PROVE [Links!Next]_(Links!vars)
  BY <1>3, <1>7 DEF HelperStep, HelperCheck, HelperSend, HelperWakes, HelperGivesUp,
                    LoopSends, Exit
<1>8. ASSUME NEW s \in Sim, NEW msg \in PeerMessage, PeerSends(s, msg)
      PROVE  [Links!Next]_(Links!vars)
  BY <1>3, <1>8 DEF PeerSends
<1>9. ASSUME NEW s \in Sim, AssociationEnds(s) PROVE [Links!Next]_(Links!vars)
  BY <1>9, AssociationEndsLinks
<1>10. CASE AlarmExpires
  <2>1. process = "running"
    BY <1>10 DEF AlarmExpires
  <2>2. ASSUME NEW s \in Sim, AlarmReaches(s), AttemptFails(s)
        PROVE  [Links!Next]_(Links!vars)
    BY <2>1, <2>2, AttemptFailsLinks DEF AlarmReaches
  <2> QED BY <1>3, <1>10, <2>1, <2>2 DEF AlarmExpires
<1>11. CASE MainStep
  BY <1>3, <1>11, DeleteLinks DEF MainStep, MainWakes, ShutdownAll
<1>12. CASE OperatorStops
  BY <1>3, <1>12 DEF OperatorStops
<1>13. CASE UNCHANGED vars
  <2>1. UNCHANGED <<e2sims, runner, clientFd, file, assoc, process>>
    BY <1>13 DEF vars
  <2>2. [t \in Sim |-> LinkOf(t)]' = [t \in Sim |-> LinkOf(t)]
    BY <2>1, QuietLinks
  <2> QED BY <2>1, <2>2 DEF Links!vars
<1> QED BY <1>4, <1>5, <1>6, <1>7, <1>8, <1>9, <1>10, <1>11, <1>12, <1>13 DEF Next

(* E2Connection implements Association: to its callers, threads, sockets   *)
(* and descriptors are links that change as stated there.                  *)
THEOREM AssociationImplemented == Spec => ImplementsAssociation
<1>1. Init => Links!Init
  <2> SUFFICES ASSUME Init PROVE Links!Init
    OBVIOUS
  <2>1. \A s \in Sim : LinkOf(s) = "none"
    BY DEF Init, LinkOf
  <2> QED BY <2>1 DEF Links!Init, Init
<1>2. Inv /\ Inv' /\ [Next]_vars => [Links!Next]_(Links!vars)
  BY NextLinks
<1>3. Spec => []Inv
  BY InvHolds
<1> QED BY <1>1, <1>2, <1>3, PTL DEF Spec, ImplementsAssociation, Links!Spec
=============================================================================

--------------------------- MODULE HandoverProofs ---------------------------
(***************************************************************************)
(* Theorems about Handover, for any number of handlers, of E2Sims and any  *)
(* set of endpoints: Inv is inductive, and with it the safety properties.  *)
(***************************************************************************)
EXTENDS Handover, SequenceTheorems, TLAPS

USE WorkersAssumption DEF requests, histories, Sim, NoSim, Worker

Asked == Endpoint \cup {FirstEndpoint}

(* Every port is one that run() can connect to, its default too, but 0.    *)
LEMMA PortFacts == Port \subseteq Int /\ E2AP_SCTP_PORT \in Port /\ 0 \notin Port
BY SMT DEF Port, E2AP_SCTP_PORT

(* What run() makes of an endpoint it would keep, it keeps.                *)
LEMMA EffectiveKept ==
    ASSUME NEW e \in Asked
    PROVE  /\ Effective(e) \in Used
           /\ Effective(e).addr = e.addr
           /\ Effective(e) # NoEndpoint
           /\ Effective(Effective(e)) = Effective(e)
           /\ (e \in Used => Effective(e) = e)
<1>1. e \in [addr : STRING, port : Int]
  BY EndpointAssumption DEF Asked
<1>2. PICK p \in Port : /\ Effective(e) = [addr |-> e.addr, port |-> p]
                            /\ (e.port \in Port => p = e.port)
  BY PortFacts DEF Effective
<1> DEFINE d == [addr |-> e.addr, port |-> p]
<1>3. d.addr = e.addr /\ d.port = p
  OBVIOUS
<1>4. d \in Used
  BY DEF Used, Asked
<1>5. d # NoEndpoint
  BY <1>3, PortFacts DEF NoEndpoint
<1>6. Effective(d) = d
  BY <1>3 DEF Effective
<1>7. e \in Used => d = e
  <2> SUFFICES ASSUME e \in Used PROVE d = e
    OBVIOUS
  <2>1. e.port \in Port
    BY DEF Used
  <2>2. e = [addr |-> e.addr, port |-> e.port]
    BY <1>1
  <2>3. p = e.port
    BY <1>2, <2>1
  <2> QED BY <2>2, <2>3
<1>8. Effective(e) = d
  BY <1>2
<1> HIDE DEF d
<1> QED BY <1>3, <1>4, <1>5, <1>6, <1>7, <1>8

(* What joins the vector is in it, and so is what was.                     *)
LEMMA AppendVector ==
    ASSUME e2sims \in Seq(Sim), NEW s \in Sim, e2sims' = Append(e2sims, s)
    PROVE  /\ e2sims' \in Seq(Sim)
           /\ Len(e2sims) \in Nat
           /\ DOMAIN e2sims = 1..Len(e2sims)
           /\ DOMAIN e2sims' = 1..Len(e2sims) + 1
           /\ \A i \in 1..Len(e2sims) : e2sims'[i] = e2sims[i]
           /\ e2sims'[Len(e2sims) + 1] = s
<1>1. /\ Len(e2sims) \in Nat
      /\ DOMAIN e2sims = 1..Len(e2sims)
  BY LenProperties
<1>2. /\ e2sims' \in Seq(Sim)
      /\ Len(e2sims') = Len(e2sims) + 1
      /\ \A i \in 1..Len(e2sims) : e2sims'[i] = e2sims[i]
      /\ e2sims'[Len(e2sims) + 1] = s
  BY AppendProperties
<1>3. DOMAIN e2sims' = 1..Len(e2sims) + 1
  BY <1>2, LenProperties
<1> QED BY <1>1, <1>2, <1>3

(* The E2Sims that were created are within the bound, and a worker has one *)
(* of its own from its creation on.                                        *)
LEMMA MadeAreSims ==
    ASSUME Inv
    PROVE  /\ made \in Nat /\ 1..made \subseteq Sim
           /\ \A w \in Worker : Starts(w) => mine[w] \in Sim /\ mine[w] \in 1..made
           /\ \A h \in Handler : AnswerInv(h) /\ SearchOf(h)
<1>1. made \in Nat /\ made <= MaxSim /\ MaxSim \in Nat
  BY EndpointAssumption DEF Inv, TypeOK
<1>2. 1..made \subseteq Sim
  BY <1>1
<1> QED BY <1>1, <1>2 DEF Inv, OwnInv, SearchInv, SearchOf

(* A range of numbers is part of a longer one.                             *)
LEMMA LargerRange ==
    ASSUME NEW m \in Nat, NEW n \in Nat, m <= n
    PROVE  1..m \subseteq 1..n
OBVIOUS

(* A handler that a step leaves alone keeps what is known of its search,   *)
(* as long as endpoints and links that are set are not taken back.         *)
LEMMA OtherSearch ==
    ASSUME Inv, NEW g \in Handler,
           UNCHANGED <<pc[g], want[g], seen[g], pos[g], mine[g], known[g], half[g]>>,
           made' \in Nat, made <= made',
           \A s \in Sim : endpoint[s] # NoEndpoint => endpoint'[s] = endpoint[s],
           \A s \in Sim : link[s] # "none" => link'[s] = link[s],
           pc[g] \in {"binding", "answering"} /\ want[g].addr # ""
               => (HasEndpoint(g) => HasEndpoint(g)')
    PROVE  SearchOf(g)'
<1>1. SearchOf(g) /\ TypeOK
  BY DEF Inv, SearchInv
<1>2. made \in Nat /\ 1..made \subseteq Sim
  BY MadeAreSims
<1>7. 1..made \subseteq 1..made' /\ 1..made \subseteq Sim
  BY <1>2, LargerRange
<1>3. \A i \in DOMAIN seen'[g] : seen'[g][i] \in 1..made'
  BY <1>1, <1>7 DEF SearchOf
<1>4. KnownAhead(g)'
  <2> SUFFICES ASSUME pc[g] = "matching", NEW s \in known[g]
               PROVE  /\ endpoint'[s] = want[g] /\ want[g].addr # ""
                      /\ \E i \in DOMAIN seen[g] : pos[g] <= i /\ seen[g][i] = s
    BY ZenonT(30) DEF KnownAhead
  <2>1. /\ endpoint[s] = want[g] /\ want[g].addr # ""
        /\ \E i \in DOMAIN seen[g] : pos[g] <= i /\ seen[g][i] = s
    BY <1>1 DEF SearchOf, KnownAhead
  <2>2. s \in Sim
    BY <1>1 DEF TypeOK
  <2>3. endpoint[s] # NoEndpoint
    BY <2>1, NoEndpoint.addr = "" DEF NoEndpoint
  <2> QED BY <2>1, <2>2, <2>3
<1>5. Starts(g)' => ~Found(g)'
  BY <1>1 DEF SearchOf, Starts, Found
<1>6. AnswerInv(g)'
  <2> SUFFICES ASSUME pc[g] \in {"binding", "answering"}
               PROVE  /\ mine[g] \in 1..made'
                      /\ (want[g].addr # "" =>
                             HasEndpoint(g)' \/ (link'[mine[g]] = "failed" /\ ~Found(g)))
    BY DEF AnswerInv, Found
  <2>1. /\ mine[g] \in 1..made
        /\ (want[g].addr # "" =>
               HasEndpoint(g) \/ (link[mine[g]] = "failed" /\ ~Found(g)))
    BY <1>1 DEF SearchOf, AnswerInv
  <2>2. mine[g] \in 1..made' /\ mine[g] \in Sim
    BY <1>2, <1>7, <2>1
  <2>3. want[g].addr # "" => (HasEndpoint(g) => HasEndpoint(g)')
    OBVIOUS
  <2>4. link[mine[g]] = "failed" => link'[mine[g]] = "failed"
    BY <2>2
  <2> QED BY <2>1, <2>2, <2>3, <2>4
<1> QED BY <1>1, <1>3, <1>4, <1>5, <1>6 DEF SearchOf

(* Where what a worker starts stays, and where it is, OwnInv stays.        *)
LEMMA SameOwn ==
    ASSUME Inv, UNCHANGED <<link, endpoint, made>>,
           \A w \in Worker : Starts(w)' =>
               /\ Starts(w)
               /\ UNCHANGED <<mine[w], want[w]>>
               /\ (pc'[w] = "assigning" <=> pc[w] = "assigning")
    PROVE  OwnInv'
<1> SUFFICES ASSUME NEW w \in Worker, Starts(w)'
             PROVE  /\ mine'[w] \in 1..made'
                    /\ (\A v \in Worker : Starts(v)' /\ mine'[v] = mine'[w] => v = w)
                    /\ endpoint'[mine'[w]] = NoEndpoint
                    /\ link'[mine'[w]] = IF pc'[w] = "assigning" THEN "up" ELSE "none"
                    /\ (pc'[w] = "assigning" => want'[w].addr # "")
  BY DEF OwnInv
<1>1. \A v \in Worker : Starts(v)' => Starts(v) /\ mine'[v] = mine[v]
  OBVIOUS
<1>2. Starts(w) /\ mine'[w] = mine[w] /\ want'[w] = want[w]
  OBVIOUS
<1> QED BY <1>1, <1>2, ZenonT(30) DEF Inv, OwnInv
-----------------------------------------------------------------------------
(* One lemma per action. *)

(* Steps that move only main, the signal or the process.                   *)
LEMMA MainInv ==
    ASSUME Inv, Crash \/ OperatorStops \/ MainStep \/ UNCHANGED vars
    PROVE  Inv'
<1>1. UNCHANGED <<made, link, endpoint, e2sims, pc, want, seen, pos, mine, known,
                  half, collided>>
  BY DEF Crash, OperatorStops, MainStep, MainWakes, StopsAccepting, ListenerCloses, vars
<1>2. TypeOK'
  BY <1>1 DEF Inv, TypeOK, Crash, OperatorStops, MainStep, MainWakes, StopsAccepting,
              ListenerCloses, vars
<1>3. OwnInv'
  BY <1>1, SameOwn DEF Starts
<1>4. EndpointInv'
  BY <1>1 DEF Inv, EndpointInv
<1>5. VectorInv'
  BY <1>1 DEF Inv, VectorInv, VectorHoldsAll, Growing, InVector
<1>6. \A h \in Handler : HasEndpoint(h)' = HasEndpoint(h)
  BY <1>1 DEF HasEndpoint
<1>7. made \in Nat
  BY DEF Inv, TypeOK
<1>8. SearchInv'
  <2> SUFFICES ASSUME NEW g \in Handler PROVE SearchOf(g)'
    BY DEF SearchInv
  <2>1. UNCHANGED <<pc[g], want[g], seen[g], pos[g], mine[g], known[g], half[g]>>
    BY <1>1
  <2>2. made' \in Nat /\ made <= made'
    BY <1>1, <1>7
  <2> QED BY <1>1, <1>6, <2>1, <2>2, OtherSearch
<1> QED BY <1>2, <1>3, <1>4, <1>5, <1>8 DEF Inv

(* A request comes: the E2Sims that have its endpoint are ahead.           *)
LEMMA PostInv ==
    ASSUME Inv, NEW h \in Handler, NEW e \in Endpoint, Post(h, e)
    PROVE  Inv'
<1> USE DEF Inv
<1>1. /\ UNCHANGED <<made, link, endpoint, e2sims, pos, mine, half, collided>>
      /\ pc[h] = "idle"
      /\ pc' = [pc EXCEPT ![h] = "matching"]
      /\ want' = [want EXCEPT ![h] = e]
      /\ seen' = [seen EXCEPT ![h] = e2sims]
  BY DEF Post, At
<1>2. TypeOK'
  BY DEF Post, At, TypeOK
<1>3. \A w \in Worker : w # h => UNCHANGED <<pc[w], want[w], seen[w], known[w]>>
  BY DEF Post, At, TypeOK
<1>4. OwnInv'
  BY <1>1, <1>3, SameOwn DEF Starts, TypeOK
<1>5. EndpointInv'
  BY <1>1 DEF EndpointInv
<1>6. Growing' = Growing
  BY <1>1 DEF Growing, TypeOK
<1>7. VectorInv'
  BY <1>1, <1>6 DEF VectorInv, VectorHoldsAll, InVector
<1>8. SearchInv'
  <2> SUFFICES ASSUME NEW g \in Handler PROVE SearchOf(g)'
    BY DEF SearchInv
  <2>1. CASE g = h
    <3>1. /\ pc'[h] = "matching" /\ want'[h] = e /\ seen'[h] = e2sims
          /\ known'[h] = {s \in Sim : InVector(s) /\ endpoint[s] = e /\ e.addr # ""}
      BY DEF Post, At, TypeOK
    <3>2. KnownAhead(h)'
      <4> SUFFICES ASSUME NEW s \in known'[h]
                   PROVE  /\ endpoint'[s] = want'[h] /\ want'[h].addr # ""
                          /\ \E i \in DOMAIN seen'[h] : pos'[h] <= i /\ seen'[h][i] = s
        BY DEF KnownAhead
      <4>1. \A i \in DOMAIN e2sims : 1 <= i
          BY LenProperties DEF TypeOK
        <4>2. pos'[h] = 1
          BY <1>1 DEF SearchInv, SearchOf
        <4>3. InVector(s) /\ endpoint[s] = e /\ e.addr # ""
          BY <3>1
        <4> QED BY <1>1, <3>1, <4>1, <4>2, <4>3 DEF InVector
    <3> QED BY <1>1, <2>1, <3>1, <3>2 DEF SearchOf, AnswerInv, Starts, VectorInv
  <2>2. CASE g # h
    <3>1. HasEndpoint(g) => HasEndpoint(g)'
      BY <1>1, <1>3, <2>2 DEF HasEndpoint, TypeOK
    <3>2. UNCHANGED <<pc[g], want[g], seen[g], pos[g], mine[g], known[g], half[g]>>
      BY <1>1, <1>3, <2>2
    <3>3. made \in Nat /\ made' \in Nat /\ made <= made'
      BY <1>1 DEF TypeOK
    <3>4. /\ \A s \in Sim : endpoint[s] # NoEndpoint => endpoint'[s] = endpoint[s]
          /\ \A s \in Sim : link[s] # "none" => link'[s] = link[s]
      BY <1>1, <1>3
    <3> QED BY <3>1, <3>2, <3>3, <3>4, OtherSearch
  <2> QED BY <2>1, <2>2
<1> QED BY <1>2, <1>4, <1>5, <1>7, <1>8

(* One step of a search.                                                   *)
LEMMA MatchInv ==
    ASSUME Inv, NEW h \in Handler, Match(h), ~Crash
    PROVE  Inv'
<1> USE DEF Inv
<1> DEFINE s == seen[h][pos[h]]
<1>1. /\ UNCHANGED <<process, main, sigterm, made, link, endpoint, e2sims, want,
                     seen, known, collided>>
      /\ pc[h] = "matching" /\ pos[h] <= Len(seen[h])
      /\ \/ /\ MayMatch(s, want[h])
            /\ mine' = [mine EXCEPT ![h] = s]
            /\ half' = [half EXCEPT ![h] = Assigning(s)]
            /\ pc' = [pc EXCEPT ![h] = "binding"]
            /\ UNCHANGED pos
         \/ /\ MayDiffer(s, want[h])
            /\ pos' = [pos EXCEPT ![h] = @ + 1]
            /\ UNCHANGED <<pc, mine, half>>
  BY DEF Match, At, Searches
<1>2. seen[h] \in Seq(Sim) /\ pos[h] \in Nat \ {0}
  BY DEF TypeOK
<1>3. pos[h] \in DOMAIN seen[h] /\ s \in Sim
  <2>1. Len(seen[h]) \in Nat /\ DOMAIN seen[h] = 1..Len(seen[h])
    BY <1>2, LenProperties
  <2>2. pos[h] \in 1..Len(seen[h])
    BY <1>1, <1>2, <2>1
  <2> QED BY <1>2, <2>1, <2>2, ElementOfSeq
<1>4. s \in 1..made
  BY <1>3 DEF SearchInv, SearchOf
<1> HIDE DEF s
<1>5. TypeOK'
  <2>1. mine' \in [Worker -> Sim \cup {NoSim}]
    BY <1>1, <1>3 DEF TypeOK
  <2>2. pos' \in [Worker -> Nat \ {0}]
    <3>1. pos[h] + 1 \in Nat \ {0}
      BY <1>2
    <3>2. pos \in [Worker -> Nat \ {0}]
      BY DEF TypeOK
    <3> QED BY <1>1, <3>1, <3>2
  <2>3. pc' \in [Worker -> {"idle", "matching", "growing", "running", "assigning",
                            "binding", "answering"}]
    BY <1>1 DEF TypeOK
  <2>4. half' \in [Handler -> BOOLEAN]
    <3>1. Assigning(s) \in BOOLEAN
      BY DEF Assigning
    <3> QED BY <1>1, <3>1 DEF TypeOK
  <2> QED BY <1>1, <2>1, <2>2, <2>3, <2>4 DEF TypeOK
<1>6. \A w \in Worker :
          /\ (w # h => UNCHANGED <<pc[w], pos[w], mine[w]>>)
          /\ (Starts(w)' <=> Starts(w)) /\ (Starts(w) => w # h)
  BY <1>1 DEF TypeOK, Starts
<1>13. \A g \in Handler : g # h => UNCHANGED half[g]
  BY <1>1 DEF TypeOK
<1>7. OwnInv'
  BY <1>1, <1>6, SameOwn
<1>8. EndpointInv'
  BY <1>1 DEF EndpointInv
<1>9. Growing' = Growing /\ h \notin Growing
  BY <1>1, <1>6 DEF Growing, TypeOK
<1>10. \A w \in Growing : mine'[w] = mine[w]
  BY <1>6, <1>9 DEF Growing
<1>11. VectorInv'
  BY <1>1, <1>9, <1>10 DEF VectorInv, VectorHoldsAll, InVector
<1>12. SearchInv'
  <2> SUFFICES ASSUME NEW g \in Handler PROVE SearchOf(g)'
    BY DEF SearchInv
  <2>1. ASSUME g = h, MayMatch(s, want[h]), mine' = [mine EXCEPT ![h] = s],
               pc' = [pc EXCEPT ![h] = "binding"], UNCHANGED pos,
               half' = [half EXCEPT ![h] = Assigning(s)]
        PROVE  SearchOf(h)'
    <3>1. pc'[h] = "binding" /\ mine'[h] = s
      BY <2>1 DEF TypeOK
    <3>2. ASSUME want[h].addr # ""
          PROVE  HasEndpoint(h)'
      <4>1. want[h] \in Asked /\ endpoint[s] \in Used \cup {NoEndpoint} /\ NoEndpoint.addr = ""
        BY <1>3 DEF TypeOK, Asked, NoEndpoint
      <4>2. CASE endpoint[s] = want[h]
        <5>1. endpoint[s] # NoEndpoint /\ link[s] = "up"
          BY <1>3, <3>2, <4>1, <4>2 DEF EndpointInv
        <5>2. Effective(want[h]) = endpoint[s]
          BY <4>1, <4>2, <5>1, EffectiveKept
        <5> QED BY <1>1, <3>1, <5>1, <5>2 DEF HasEndpoint
      <4>3. ASSUME NEW w \in Worker, pc[w] = "assigning", mine[w] = s,
                   want[w].addr = want[h].addr
            PROVE  HasEndpoint(h)'
        <5>1. Starts(w) /\ w # h
          BY <1>1, <4>3 DEF Starts
        <5>2. link[s] = "up"
          BY <4>3, <5>1 DEF OwnInv
        <5>3. Assigning(s)
          BY <4>3 DEF Assigning
        <5>4. half'[h]
          BY <2>1, <5>3 DEF TypeOK
        <5>5. pc'[w] = "assigning" /\ mine'[w] = s
          BY <1>6, <4>3, <5>1
        <5> QED BY <1>1, <3>1, <4>3, <5>2, <5>4, <5>5 DEF HasEndpoint
      <4> QED BY <2>1, <3>2, <4>1, <4>2, <4>3 DEF MayMatch
    <3>3. AnswerInv(h)'
      BY <1>1, <1>4, <3>1, <3>2 DEF AnswerInv
    <3> QED BY <1>1, <3>1, <3>3 DEF SearchInv, SearchOf, KnownAhead, Starts
  <2>2. ASSUME g = h, MayDiffer(s, want[h]), pos' = [pos EXCEPT ![h] = @ + 1],
               UNCHANGED <<pc, mine, half>>
        PROVE  SearchOf(h)'
    <3>1. pos'[h] = pos[h] + 1
      BY <2>2 DEF TypeOK
    <3>2. KnownAhead(h)'
      <4> SUFFICES ASSUME NEW r \in known[h]
                   PROVE  /\ endpoint[r] = want[h] /\ want[h].addr # ""
                          /\ \E i \in DOMAIN seen[h] : pos'[h] <= i /\ seen[h][i] = r
        BY <1>1 DEF KnownAhead
      <4>1. /\ endpoint[r] = want[h] /\ want[h].addr # ""
            /\ \E i \in DOMAIN seen[h] : pos[h] <= i /\ seen[h][i] = r
        BY <1>1 DEF SearchInv, SearchOf, KnownAhead
      <4>2. PICK i \in DOMAIN seen[h] : pos[h] <= i /\ seen[h][i] = r
        BY <4>1
      <4>3. want[h] # NoEndpoint
        BY <4>1, NoEndpoint.addr = "" DEF NoEndpoint
      <4>4. r # s
        BY <2>2, <4>1, <4>3 DEF MayDiffer
      <4>5. i # pos[h]
        BY <4>2, <4>4 DEF s
      <4>6. i \in Nat
        BY <1>2, LenProperties
      <4>7. pos'[h] <= i
        BY <1>2, <3>1, <4>2, <4>5, <4>6
      <4> QED BY <4>1, <4>2, <4>7
    <3> QED BY <1>1, <2>2, <3>2 DEF SearchInv, SearchOf, AnswerInv, Starts
  <2>3. CASE g # h
    <3>1. HasEndpoint(g) => HasEndpoint(g)'
      <4>1. \A w \in Worker : pc[w] = "assigning" => UNCHANGED <<pc[w], want[w], mine[w]>>
        BY <1>1, <1>6
      <4> QED BY <1>1, <1>6, <1>13, <2>3, <4>1 DEF HasEndpoint
    <3>2. UNCHANGED <<pc[g], want[g], seen[g], pos[g], mine[g], known[g], half[g]>>
      BY <1>1, <1>6, <1>13, <2>3
    <3>3. made' \in Nat /\ made <= made'
      BY <1>1, MadeAreSims
    <3>4. /\ \A r \in Sim : endpoint[r] # NoEndpoint => endpoint'[r] = endpoint[r]
          /\ \A r \in Sim : link[r] # "none" => link'[r] = link[r]
      BY <1>1
    <3> QED BY <3>1, <3>2, <3>3, <3>4, OtherSearch
  <2> QED BY <1>1, <2>1, <2>2, <2>3
<1> QED BY <1>5, <1>7, <1>8, <1>11, <1>12

(* The callbacks of the E2Sim that was found are replaced.                 *)
LEMMA BindInv ==
    ASSUME Inv, NEW h \in Handler, Bind(h), ~Crash
    PROVE  Inv'
<1> USE DEF Inv
<1>1. /\ UNCHANGED <<process, main, sigterm, made, link, endpoint, e2sims, want,
                     seen, pos, mine, known, half, collided>>
      /\ pc[h] = "binding" /\ pc' = [pc EXCEPT ![h] = "answering"]
  BY DEF Bind, At
<1>2. TypeOK'
  BY <1>1 DEF TypeOK
<1>3. OwnInv'
  BY <1>1, SameOwn DEF Starts, TypeOK
<1>4. EndpointInv'
  BY <1>1 DEF EndpointInv
<1>5. Growing' = Growing
  BY <1>1 DEF Growing, TypeOK
<1>6. VectorInv'
  BY <1>1, <1>5 DEF VectorInv, VectorHoldsAll, InVector
<1>7. \A g \in Handler : HasEndpoint(g) => HasEndpoint(g)'
  BY <1>1 DEF HasEndpoint, TypeOK
<1>9. \A g \in Handler : g # h => UNCHANGED pc[g]
  BY <1>1 DEF TypeOK
<1>8. SearchInv'
  <2> SUFFICES ASSUME NEW g \in Handler PROVE SearchOf(g)'
    BY DEF SearchInv
  <2>1. CASE g = h
    <3>1. SearchOf(h) /\ pc'[h] = "answering"
      BY <1>1 DEF SearchInv, TypeOK
    <3>2. AnswerInv(h)'
      BY <1>1, <1>7, <3>1 DEF SearchOf, AnswerInv, Found
    <3> QED BY <1>1, <2>1, <3>1, <3>2 DEF SearchOf, KnownAhead, Starts
  <2>2. CASE g # h
    <3>1. HasEndpoint(g) => HasEndpoint(g)'
      BY <1>7
    <3>2. UNCHANGED <<pc[g], want[g], seen[g], pos[g], mine[g], known[g], half[g]>>
      BY <1>1, <1>9, <2>2
    <3>3. made' \in Nat /\ made <= made'
      BY <1>1, MadeAreSims
    <3>4. /\ \A r \in Sim : endpoint[r] # NoEndpoint => endpoint'[r] = endpoint[r]
          /\ \A r \in Sim : link[r] # "none" => link'[r] = link[r]
      BY <1>1
    <3> QED BY <3>1, <3>2, <3>3, <3>4, OtherSearch
  <2> QED BY <2>1, <2>2
<1> QED BY <1>2, <1>3, <1>4, <1>6, <1>8

(* 204 leaves; the handler forgets.                                        *)
LEMMA AnswerStepInv ==
    ASSUME Inv, NEW h \in Handler, Answer(h)
    PROVE  Inv'
<1> USE DEF Inv
<1>1. /\ UNCHANGED <<process, main, sigterm, made, link, endpoint, e2sims, collided>>
      /\ pc[h] = "answering" /\ pc' = [pc EXCEPT ![h] = "idle"]
      /\ want' = [want EXCEPT ![h] = FirstEndpoint]
      /\ seen' = [seen EXCEPT ![h] = <<>>]
      /\ pos' = [pos EXCEPT ![h] = 1]
      /\ mine' = [mine EXCEPT ![h] = NoSim]
      /\ known' = [known EXCEPT ![h] = {}]
      /\ half' = [half EXCEPT ![h] = FALSE]
  BY DEF Answer, At
<1>2. TypeOK'
  BY <1>1, EmptySeq DEF TypeOK
<1>3. \A w \in Worker : w # h => UNCHANGED <<pc[w], want[w], seen[w], pos[w],
                                             mine[w], known[w]>>
  BY <1>1 DEF TypeOK
<1>10. \A g \in Handler : g # h => UNCHANGED half[g]
  BY <1>1 DEF TypeOK
<1>4. OwnInv'
  BY <1>1, <1>3, SameOwn DEF Starts, TypeOK
<1>5. EndpointInv'
  BY <1>1 DEF EndpointInv
<1>6. Growing' = Growing
  BY <1>1 DEF Growing, TypeOK
<1>7. \A w \in Growing : mine'[w] = mine[w]
  BY <1>1, <1>3 DEF Growing
<1>8. VectorInv'
  BY <1>1, <1>6, <1>7 DEF VectorInv, VectorHoldsAll, InVector
<1>9. SearchInv'
  <2> SUFFICES ASSUME NEW g \in Handler PROVE SearchOf(g)'
    BY DEF SearchInv
  <2>1. CASE g = h
    <3>1. pc'[h] = "idle" /\ seen'[h] = <<>> /\ pos'[h] = 1
      BY <1>1 DEF TypeOK
    <3>2. DOMAIN seen'[h] = {}
      BY <3>1, EmptySeq
    <3> QED BY <2>1, <3>1, <3>2 DEF SearchOf, KnownAhead, AnswerInv, Starts
  <2>2. CASE g # h
    <3>1. HasEndpoint(g) => HasEndpoint(g)'
      <4>1. \A w \in Worker : pc[w] = "assigning" => UNCHANGED <<pc[w], want[w], mine[w]>>
        BY <1>1, <1>3
      <4> QED BY <1>1, <1>3, <1>10, <2>2, <4>1 DEF HasEndpoint
    <3>2. UNCHANGED <<pc[g], want[g], seen[g], pos[g], mine[g], known[g], half[g]>>
      BY <1>1, <1>3, <1>10, <2>2
    <3>3. made' \in Nat /\ made <= made'
      BY <1>1, MadeAreSims
    <3>4. /\ \A r \in Sim : endpoint[r] # NoEndpoint => endpoint'[r] = endpoint[r]
          /\ \A r \in Sim : link[r] # "none" => link'[r] = link[r]
      BY <1>1
    <3> QED BY <3>1, <3>2, <3>3, <3>4, OtherSearch
  <2> QED BY <2>1, <2>2
<1> QED BY <1>2, <1>4, <1>5, <1>8, <1>9

(* A new E2Sim begins to join the vector.                                  *)
LEMMA CreateInv ==
    ASSUME Inv, NEW w \in Worker, Create(w)
    PROVE  Inv'
<1> USE DEF Inv
<1> DEFINE s == made + 1
<1>1. /\ UNCHANGED <<process, main, sigterm, link, endpoint, e2sims, want, seen,
                     pos, known, half>>
      /\ made < MaxSim /\ made' = s
      /\ ~Starts(w) /\ (w \in Handler => pc[w] = "matching" /\ ~Searches(w))
      /\ mine' = [mine EXCEPT ![w] = s]
      /\ pc' = [pc EXCEPT ![w] = "growing"]
      /\ collided' = (collided \/ Growing # {})
  BY DEF Create, At, Needs, Starts
<1>2. /\ made \in Nat /\ s \in Nat /\ s \in Sim /\ s \notin 1..made
      /\ 1..made' = 1..made \cup {s}
  BY <1>1, EndpointAssumption DEF TypeOK
<1> HIDE DEF s
<1>3. TypeOK'
  <2>1. mine' \in [Worker -> Sim \cup {NoSim}]
    BY <1>1, <1>2 DEF TypeOK
  <2>2. pc' \in [Worker -> {"idle", "matching", "growing", "running", "assigning",
                            "binding", "answering"}]
    BY <1>1 DEF TypeOK
  <2>3. collided' \in BOOLEAN /\ made' \in 0..MaxSim
    BY <1>1, <1>2 DEF TypeOK
  <2> QED BY <1>1, <2>1, <2>2, <2>3 DEF TypeOK
<1>4. /\ pc'[w] = "growing" /\ mine'[w] = s
      /\ \A v \in Worker : v # w => UNCHANGED <<pc[v], mine[v]>>
  BY <1>1 DEF TypeOK
<1>5. link[s] = "none" /\ endpoint[s] = NoEndpoint
  <2>1. made < s
    BY <1>2 DEF s
  <2> QED BY <1>2, <2>1 DEF EndpointInv
<1>6. OwnInv'
  <2> SUFFICES ASSUME NEW u \in Worker, Starts(u)'
               PROVE  /\ mine'[u] \in 1..made'
                      /\ (\A v \in Worker : Starts(v)' /\ mine'[v] = mine'[u] => v = u)
                      /\ endpoint'[mine'[u]] = NoEndpoint
                      /\ link'[mine'[u]] = IF pc'[u] = "assigning" THEN "up" ELSE "none"
                      /\ (pc'[u] = "assigning" => want'[u].addr # "")
    BY DEF OwnInv
  <2>1. \A v \in Worker : v # w /\ Starts(v)' => Starts(v) /\ mine'[v] \in 1..made
    BY <1>4 DEF OwnInv, Starts
  <2>2. CASE u = w
    <3>1. mine'[u] = s /\ s \in 1..made' /\ pc'[u] = "growing"
      BY <1>2, <1>4, <2>2
    <3>2. \A v \in Worker : Starts(v)' /\ mine'[v] = s => v = u
      BY <1>2, <2>1, <2>2
    <3> QED BY <1>1, <1>5, <3>1, <3>2
  <2>3. CASE u # w
    <3>1. Starts(u) /\ mine'[u] \in 1..made /\ UNCHANGED <<pc[u], mine[u], want[u]>>
      BY <1>1, <1>4, <2>1, <2>3
    <3>2. \A v \in Worker : Starts(v)' /\ mine'[v] = mine'[u] => v # w
      BY <1>2, <1>4, <3>1
    <3>3. \A v \in Worker : Starts(v)' /\ mine'[v] = mine'[u] => v = u
      BY <1>4, <2>1, <3>1, <3>2 DEF OwnInv
    <3> QED BY <1>1, <1>2, <3>1, <3>3 DEF OwnInv
  <2> QED BY <2>2, <2>3
<1>7. EndpointInv'
  <2>1. \A r \in Sim : made' < r => made < r
    BY <1>1, <1>2 DEF s
  <2> QED BY <1>1, <2>1 DEF EndpointInv
<1>8. Growing' = Growing \cup {w} /\ w \notin Growing
  BY <1>1, <1>4 DEF Growing, Starts
<1>9. ~InVector(s)
  BY <1>2 DEF InVector, VectorInv
<1>10. VectorInv'
  <2>1. \A i \in DOMAIN e2sims' : e2sims'[i] \in 1..made'
    BY <1>1, <1>2 DEF VectorInv
  <2>2. ASSUME ~collided'
        PROVE  Growing' = {w} /\ ~InVector(mine'[w])
    BY <1>1, <1>4, <1>8, <1>9, <2>2
  <2>3. ASSUME ~collided', NEW r \in 1..made'
        PROVE  InVector(r)' \/ \E v \in Growing' : mine'[v] = r
    <3>1. CASE r = s
      BY <1>4, <1>8, <3>1
    <3>2. CASE r # s
      <4>1. r \in 1..made /\ ~collided /\ Growing = {}
        BY <1>1, <1>2, <2>3, <3>2
      <4>2. InVector(r)
        BY <4>1 DEF VectorInv, VectorHoldsAll
      <4> QED BY <1>1, <4>2 DEF InVector
    <3> QED BY <3>1, <3>2
  <2>4. ~collided' => (\A i, j \in DOMAIN e2sims' : e2sims'[i] = e2sims'[j] => i = j)
    BY <1>1 DEF VectorInv, VectorHoldsAll
  <2>5. VectorHoldsAll'
    BY <2>3, <2>4 DEF VectorHoldsAll
  <2>6. ASSUME ~collided', NEW v \in Growing'
        PROVE  Growing' = {v} /\ ~InVector(mine[v])'
    BY <1>1, <2>2, <2>6 DEF InVector
  <2> QED BY <2>1, <2>5, <2>6 DEF VectorInv
<1>11. SearchInv'
  <2> SUFFICES ASSUME NEW g \in Handler PROVE SearchOf(g)'
    BY DEF SearchInv
  <2>1. CASE g = w
    <3>1. ~Found(g)'
      BY <1>1, <1>2, <1>4, <2>1 DEF Found, SearchInv, SearchOf
    <3>2. \A i \in DOMAIN seen'[g] : seen'[g][i] \in 1..made'
      BY <1>1, <1>2 DEF SearchInv, SearchOf
    <3> QED BY <1>4, <2>1, <3>1, <3>2 DEF SearchOf, KnownAhead, AnswerInv
  <2>2. CASE g # w
    <3>1. HasEndpoint(g) => HasEndpoint(g)'
      <4>1. \A v \in Worker : pc[v] = "assigning" => UNCHANGED <<pc[v], want[v], mine[v]>>
        BY <1>1, <1>4 DEF Starts
      <4> QED BY <1>1, <1>4, <2>2, <4>1 DEF HasEndpoint
    <3>2. made' \in Nat /\ made <= made'
      BY <1>1, <1>2 DEF s
    <3> QED BY <1>1, <1>4, <2>2, <3>1, <3>2, OtherSearch
  <2> QED BY <2>1, <2>2
<1> QED BY <1>3, <1>6, <1>7, <1>10, <1>11

(* emplace_back returns.                                                   *)
LEMMA GrowInv ==
    ASSUME Inv, NEW w \in Worker, Grow(w), ~Crash
    PROVE  Inv'
<1> USE DEF Inv
<1>1. /\ UNCHANGED <<process, main, sigterm, made, link, endpoint, want, seen, pos,
                     mine, known, half, collided>>
      /\ pc[w] = "growing" /\ pc' = [pc EXCEPT ![w] = "running"]
      /\ \/ e2sims' = Append(e2sims, mine[w])
         \/ Growing # {w} /\ UNCHANGED e2sims
  BY DEF Grow, Grown, Joined, At
<1>2. /\ pc'[w] = "running"
      /\ \A v \in Worker : v # w => pc'[v] = pc[v]
  BY <1>1 DEF TypeOK
<1>3. w \in Growing /\ Growing' = Growing \ {w}
  BY <1>1, <1>2 DEF Growing
<1>4. mine[w] \in Sim /\ mine[w] \in 1..made
  <2>1. made \in Nat /\ made <= MaxSim /\ MaxSim \in Nat
    BY EndpointAssumption DEF TypeOK
  <2>2. mine[w] \in 1..made
    BY <1>1 DEF OwnInv, Starts
  <2> QED BY <2>1, <2>2
<1>5. e2sims \in Seq(Sim)
  BY DEF TypeOK
<1>6. TypeOK'
  <2>1. e2sims' \in Seq(Sim)
    BY <1>1, <1>4, <1>5, AppendVector
  <2> QED BY <1>1, <2>1 DEF TypeOK
<1>7. OwnInv'
  BY <1>1, <1>2, SameOwn DEF Starts
<1>8. EndpointInv'
  BY <1>1 DEF EndpointInv
<1>9. ASSUME e2sims' = Append(e2sims, mine[w]) PROVE VectorInv'
  <2> DEFINE n == Len(e2sims)
  <2>1. /\ n \in Nat
        /\ DOMAIN e2sims = 1..n
        /\ DOMAIN e2sims' = 1..n + 1
        /\ \A i \in 1..n : e2sims'[i] = e2sims[i]
        /\ e2sims'[n + 1] = mine[w]
    BY <1>4, <1>5, <1>9, AppendVector
  <2> HIDE DEF n
  <2>2. \A i \in DOMAIN e2sims' : i \in 1..n \/ i = n + 1
    BY <2>1
  <2>3. \A i \in DOMAIN e2sims' : e2sims'[i] \in 1..made'
    BY <1>1, <1>4, <2>1, <2>2 DEF VectorInv
  <2>4. ASSUME ~collided
        PROVE  Growing = {w} /\ Growing' = {} /\ ~InVector(mine[w])
    BY <1>3, <2>4 DEF VectorInv
  <2>5. ASSUME ~collided, NEW i \in DOMAIN e2sims', NEW j \in DOMAIN e2sims',
               e2sims'[i] = e2sims'[j]
        PROVE  i = j
    <3>1. \A k \in 1..n : e2sims'[k] # mine[w]
      BY <2>1, <2>4, <2>5 DEF InVector
    <3>2. \A k, l \in 1..n : e2sims[k] = e2sims[l] => k = l
      BY <2>1, <2>5 DEF VectorInv, VectorHoldsAll
    <3> QED BY <2>1, <2>2, <2>5, <3>1, <3>2
  <2>6. ASSUME ~collided, NEW r \in 1..made
        PROVE  InVector(r)'
    <3>1. InVector(r) \/ mine[w] = r
      BY <2>4, <2>6 DEF VectorInv, VectorHoldsAll
    <3>2. n + 1 \in DOMAIN e2sims' /\ 1..n \subseteq DOMAIN e2sims'
      BY <2>1
    <3> QED BY <2>1, <3>1, <3>2 DEF InVector
  <2>7. VectorHoldsAll'
    BY <1>1, <2>5, <2>6 DEF VectorHoldsAll
  <2>8. (~collided => \A v \in Growing : Growing = {v} /\ ~InVector(mine[v]))'
    BY <1>1, <2>4
  <2> QED BY <2>3, <2>7, <2>8 DEF VectorInv
<1>10. ASSUME Growing # {w}, UNCHANGED e2sims PROVE VectorInv'
  <2>1. collided /\ collided'
    BY <1>1, <1>3, <1>10 DEF VectorInv
  <2>2. \A i \in DOMAIN e2sims' : e2sims'[i] \in 1..made'
    BY <1>1, <1>10 DEF VectorInv
  <2>3. VectorHoldsAll'
    BY <2>1 DEF VectorHoldsAll
  <2>4. (~collided => \A v \in Growing : Growing = {v} /\ ~InVector(mine[v]))'
    BY <2>1
  <2> QED BY <2>2, <2>3, <2>4 DEF VectorInv
<1>11. VectorInv'
  BY <1>1, <1>9, <1>10
<1>12. SearchInv'
  <2> SUFFICES ASSUME NEW g \in Handler PROVE SearchOf(g)'
    BY DEF SearchInv
  <2>1. CASE g = w
    BY <1>1, <1>2, <2>1 DEF SearchInv, SearchOf, KnownAhead, AnswerInv, Starts, Found
  <2>2. CASE g # w
    <3>1. HasEndpoint(g) => HasEndpoint(g)'
      BY <1>1, <1>2, <2>2 DEF HasEndpoint
    <3>2. UNCHANGED <<pc[g], want[g], seen[g], pos[g], mine[g], known[g], half[g]>>
      BY <1>1, <1>2, <2>2
    <3>3. made' \in Nat /\ made <= made'
      BY <1>1, MadeAreSims
    <3>4. /\ \A r \in Sim : endpoint[r] # NoEndpoint => endpoint'[r] = endpoint[r]
          /\ \A r \in Sim : link[r] # "none" => link'[r] = link[r]
      BY <1>1
    <3> QED BY <3>1, <3>2, <3>3, <3>4, OtherSearch
  <2> QED BY <2>1, <2>2
<1> QED BY <1>6, <1>7, <1>8, <1>11, <1>12

(* connect() succeeds.                                                     *)
LEMMA RunSucceedsInv ==
    ASSUME Inv, NEW w \in Worker, RunSucceeds(w)
    PROVE  Inv'
<1> USE DEF Inv
<1>1. /\ UNCHANGED <<process, main, sigterm, made, endpoint, e2sims, want, seen,
                     pos, mine, known, half, collided>>
      /\ pc[w] = "running" /\ pc' = [pc EXCEPT ![w] = "assigning"]
      /\ want[w].addr # ""
      /\ Links!Establish(mine[w])
  BY DEF RunSucceeds, At
<1>2. /\ pc'[w] = "assigning"
      /\ \A v \in Worker : v # w => pc'[v] = pc[v]
  BY <1>1 DEF TypeOK
<1>3. /\ Starts(w) /\ mine[w] \in Sim /\ mine[w] \in 1..made /\ link[mine[w]] = "none"
      /\ \A v \in Worker : Starts(v) /\ mine[v] = mine[w] => v = w
  <2>1. Starts(w)
    BY <1>1 DEF Starts
  <2>2. link[mine[w]] = "none"
    BY <1>1, <2>1 DEF OwnInv
  <2>3. \A v \in Worker : Starts(v) /\ mine[v] = mine[w] => v = w
    BY <2>1 DEF OwnInv
  <2> QED BY <2>1, <2>2, <2>3, MadeAreSims
<1>4. link' = [link EXCEPT ![mine[w]] = "up"]
  <2>1. PICK back \in SUBSET {r \in Sim : link[r] = "down"} :
            link' = [r \in Sim |-> IF r = mine[w] \/ r \in back THEN "up" ELSE link[r]]
    BY <1>1 DEF Links!Establish
  <2>2. back = {}
    BY DEF TypeOK
  <2>3. link' = [r \in Sim |-> IF r = mine[w] THEN "up" ELSE link[r]]
    BY <2>1, <2>2
  <2> QED BY <1>3, <2>3 DEF TypeOK
<1>5. /\ link'[mine[w]] = "up"
      /\ \A r \in Sim : r # mine[w] => link'[r] = link[r]
  BY <1>3, <1>4 DEF TypeOK
<1>6. TypeOK'
  BY <1>1, <1>3, <1>4 DEF TypeOK
<1>7. OwnInv'
  <2> SUFFICES ASSUME NEW u \in Worker, Starts(u)'
               PROVE  /\ mine'[u] \in 1..made'
                      /\ (\A v \in Worker : Starts(v)' /\ mine'[v] = mine'[u] => v = u)
                      /\ endpoint'[mine'[u]] = NoEndpoint
                      /\ link'[mine'[u]] = IF pc'[u] = "assigning" THEN "up" ELSE "none"
                      /\ (pc'[u] = "assigning" => want'[u].addr # "")
    BY DEF OwnInv
  <2>1. \A v \in Worker : Starts(v)' => Starts(v)
    BY <1>1, <1>2, <1>3 DEF Starts
  <2>2. CASE u = w
    BY <1>1, <1>2, <1>3, <1>5, <2>1, <2>2 DEF OwnInv
  <2>3. CASE u # w
    <3>1. Starts(u) /\ mine[u] # mine[w] /\ mine[u] \in Sim
      BY <1>3, <2>1, <2>3, MadeAreSims
    <3>2. link'[mine[u]] = link[mine[u]] /\ pc'[u] = pc[u]
      BY <1>2, <1>5, <2>3, <3>1
    <3>3. \A v \in Worker : Starts(v)' /\ mine'[v] = mine'[u] => v = u
      BY <1>1, <2>1, <3>1 DEF OwnInv
    <3> QED BY <1>1, <3>1, <3>2, <3>3 DEF OwnInv
  <2> QED BY <2>2, <2>3
<1>8. EndpointInv'
  <2>1. \A r \in Sim : made < r => r # mine[w]
    BY <1>3 DEF TypeOK
  <2> QED BY <1>1, <1>3, <1>5, <2>1 DEF EndpointInv
<1>9. Growing' = Growing
  BY <1>1, <1>2 DEF Growing
<1>10. VectorInv'
  BY <1>1, <1>9 DEF VectorInv, VectorHoldsAll, InVector
<1>11. SearchInv'
  <2> SUFFICES ASSUME NEW g \in Handler PROVE SearchOf(g)'
    BY DEF SearchInv
  <2>1. CASE g = w
    BY <1>1, <1>2, <2>1 DEF SearchInv, SearchOf, KnownAhead, AnswerInv, Starts, Found
  <2>2. CASE g # w
    <3>1. pc[g] \in {"binding", "answering"} => (HasEndpoint(g) => HasEndpoint(g)')
      <4> SUFFICES ASSUME pc[g] \in {"binding", "answering"}, HasEndpoint(g)
                   PROVE  HasEndpoint(g)'
        OBVIOUS
      <4>1. mine[g] # mine[w]
        BY <1>3 DEF HasEndpoint
      <4>2. mine[g] \in Sim
        BY MadeAreSims DEF AnswerInv
      <4>3. link'[mine[g]] = "up"
        BY <1>5, <4>1, <4>2 DEF HasEndpoint
      <4>4. \A v \in Worker : pc[v] = "assigning" => pc'[v] = "assigning"
        BY <1>2
      <4>5. UNCHANGED <<mine, want, endpoint, half>>
        BY <1>1
      <4> QED BY <4>3, <4>4, <4>5 DEF HasEndpoint
    <3>2. \A r \in Sim : link[r] # "none" => link'[r] = link[r]
      BY <1>3, <1>5
    <3>3. made' \in Nat /\ made <= made'
      <4>1. made' = made
        BY <1>1
      <4> QED BY <4>1, MadeAreSims
    <3> QED BY <1>1, <1>2, <2>2, <3>1, <3>2, <3>3, OtherSearch
  <2> QED BY <2>1, <2>2
<1> QED BY <1>6, <1>7, <1>8, <1>10, <1>11

(* The endpoint that run() connected to is assigned.                       *)
LEMMA AssignEndpointInv ==
    ASSUME Inv, NEW w \in Worker, AssignEndpoint(w)
    PROVE  Inv'
<1> USE DEF Inv
<1> DEFINE e == Effective(want[w])
<1>1. /\ UNCHANGED <<process, sigterm, made, link, e2sims, want, seen, pos, mine,
                     known, half, collided>>
      /\ pc[w] = "assigning"
      /\ endpoint' = [endpoint EXCEPT ![mine[w]] = e]
  BY DEF AssignEndpoint, AfterRun
<1>2. \/ w = Main /\ main' = "waiting" /\ pc' = [pc EXCEPT ![w] = "idle"]
      \/ w # Main /\ UNCHANGED main /\ pc' = [pc EXCEPT ![w] = "answering"]
  BY DEF AssignEndpoint, AfterRun, At
<1>3. /\ pc'[w] = (IF w = Main THEN "idle" ELSE "answering")
      /\ \A v \in Worker : v # w => pc'[v] = pc[v]
  BY <1>2 DEF TypeOK
<1>4. /\ mine[w] \in Sim /\ mine[w] \in 1..made
      /\ link[mine[w]] = "up" /\ endpoint[mine[w]] = NoEndpoint
      /\ want[w].addr # ""
      /\ \A v \in Worker : Starts(v) /\ mine[v] = mine[w] => v = w
  <2>1. Starts(w)
    BY <1>1 DEF Starts
  <2>2. link[mine[w]] = "up" /\ endpoint[mine[w]] = NoEndpoint /\ want[w].addr # ""
    BY <1>1, <2>1 DEF OwnInv
  <2>3. \A v \in Worker : Starts(v) /\ mine[v] = mine[w] => v = w
    BY <2>1 DEF OwnInv
  <2> QED BY <2>1, <2>2, <2>3, MadeAreSims
<1>5. e \in Used /\ e.addr # "" /\ e.addr = want[w].addr
  <2>1. want[w] \in Asked
    BY DEF TypeOK, Asked
  <2> QED BY <1>4, <2>1, EffectiveKept
<1> HIDE DEF e
<1>6. /\ endpoint'[mine[w]] = e
      /\ \A s \in Sim : s # mine[w] => endpoint'[s] = endpoint[s]
  BY <1>1, <1>4 DEF TypeOK
<1>7. TypeOK'
  <2>1. endpoint' \in [Sim -> Used \cup {NoEndpoint}]
    BY <1>1, <1>5 DEF TypeOK
  <2>2. pc' \in [Worker -> {"idle", "matching", "growing", "running", "assigning",
                            "binding", "answering"}]
    BY <1>2 DEF TypeOK
  <2>3. main' \in {"starting", "waiting", "closing", "draining", "deleting"}
    BY <1>2 DEF TypeOK
  <2> QED BY <1>1, <2>1, <2>2, <2>3 DEF TypeOK
<1>8. OwnInv'
  <2> SUFFICES ASSUME NEW u \in Worker, Starts(u)'
               PROVE  /\ mine'[u] \in 1..made'
                      /\ (\A v \in Worker : Starts(v)' /\ mine'[v] = mine'[u] => v = u)
                      /\ endpoint'[mine'[u]] = NoEndpoint
                      /\ link'[mine'[u]] = IF pc'[u] = "assigning" THEN "up" ELSE "none"
                      /\ (pc'[u] = "assigning" => want'[u].addr # "")
    BY DEF OwnInv
  <2>1. \A v \in Worker : Starts(v)' => Starts(v) /\ v # w
    BY <1>3 DEF Starts
  <2>2. Starts(u) /\ mine[u] # mine[w] /\ mine[u] \in Sim
    BY <1>4, <2>1, MadeAreSims
  <2>3. endpoint'[mine[u]] = endpoint[mine[u]] /\ pc'[u] = pc[u]
    BY <1>3, <1>6, <2>1, <2>2
  <2>4. \A v \in Worker : Starts(v)' /\ mine'[v] = mine'[u] => v = u
    BY <1>1, <2>1, <2>2 DEF OwnInv
  <2> QED BY <1>1, <2>2, <2>3, <2>4 DEF OwnInv
<1>9. EndpointInv'
  BY <1>1, <1>4, <1>5, <1>6 DEF EndpointInv
<1>10. Growing' = Growing
  BY <1>1, <1>3 DEF Growing
<1>11. VectorInv'
  BY <1>1, <1>10 DEF VectorInv, VectorHoldsAll, InVector
<1>12. SearchInv'
  <2> SUFFICES ASSUME NEW g \in Handler PROVE SearchOf(g)'
    BY DEF SearchInv
  <2>1. CASE g = w
    <3>1. pc'[g] = "answering" /\ endpoint'[mine[g]] = Effective(want[g])
      BY <1>3, <1>6, <2>1 DEF e
    <3>2. AnswerInv(g)'
      BY <1>1, <1>4, <2>1, <3>1 DEF AnswerInv, HasEndpoint
    <3> QED BY <1>1, <2>1, <3>1, <3>2 DEF SearchInv, SearchOf, KnownAhead, Starts
  <2>2. CASE g # w
    <3>1. pc[g] \in {"binding", "answering"} /\ want[g].addr # ""
              => (HasEndpoint(g) => HasEndpoint(g)')
      <4> SUFFICES ASSUME pc[g] \in {"binding", "answering"}, want[g].addr # "",
                          HasEndpoint(g)
                   PROVE  HasEndpoint(g)'
        OBVIOUS
      <4>1. mine[g] \in Sim /\ want[g] \in Asked
        BY MadeAreSims DEF AnswerInv, TypeOK, Asked
      <4>2. CASE endpoint[mine[g]] = Effective(want[g])
        <5>1. mine[g] # mine[w]
          BY <1>4, <4>1, <4>2, EffectiveKept
        <5>2. endpoint'[mine[g]] = Effective(want[g])
          BY <1>6, <4>1, <4>2, <5>1
        <5> QED BY <1>1, <5>2 DEF HasEndpoint
      <4>4. CASE half[g] /\ endpoint[mine[g]].addr = want[g].addr
        <5>1. mine[g] # mine[w]
          BY <1>4, <4>4, NoEndpoint.addr = "" DEF NoEndpoint
        <5>2. endpoint'[mine[g]].addr = want[g].addr
          BY <1>6, <4>1, <4>4, <5>1
        <5> QED BY <1>1, <4>4, <5>2 DEF HasEndpoint
      <4>3. ASSUME NEW v \in Worker, pc[v] = "assigning", mine[v] = mine[g],
                   half[g], want[v].addr = want[g].addr
            PROVE  HasEndpoint(g)'
        <5>1. CASE v = w
          <6>1. endpoint'[mine[g]].addr = want[g].addr
            BY <1>5, <1>6, <4>3, <5>1
          <6> QED BY <1>1, <4>3, <6>1 DEF HasEndpoint
        <5>2. CASE v # w
          <6>1. pc'[v] = "assigning"
            BY <1>3, <4>3, <5>2
          <6> QED BY <1>1, <4>3, <6>1 DEF HasEndpoint
        <5> QED BY <5>1, <5>2
      <4> QED BY <4>2, <4>3, <4>4 DEF HasEndpoint
    <3>2. \A s \in Sim : endpoint[s] # NoEndpoint => endpoint'[s] = endpoint[s]
      BY <1>4, <1>6
    <3>3. made' \in Nat /\ made <= made'
      BY <1>1, MadeAreSims
    <3> QED BY <1>1, <1>3, <2>2, <3>1, <3>2, <3>3, OtherSearch
  <2> QED BY <2>1, <2>2
<1> QED BY <1>7, <1>8, <1>9, <1>11, <1>12

(* run() fails: the E2Sim stays, without an endpoint.                      *)
LEMMA RunFailsInv ==
    ASSUME Inv, NEW w \in Worker, RunFails(w)
    PROVE  Inv'
<1> USE DEF Inv
<1>1. /\ UNCHANGED <<process, made, endpoint, e2sims, want, seen, pos, mine, known,
                     half, collided>>
      /\ pc[w] = "running" /\ sigterm' = TRUE
      /\ link[mine[w]] = "none" /\ link' = [link EXCEPT ![mine[w]] = "failed"]
  BY DEF RunFails, AfterRun, EndpointOnFailure, Term, Links!Fail
<1>2. \/ w = Main /\ main' = "waiting" /\ pc' = [pc EXCEPT ![w] = "idle"]
      \/ w # Main /\ UNCHANGED main /\ pc' = [pc EXCEPT ![w] = "answering"]
  BY DEF RunFails, AfterRun, At
<1>3. /\ pc'[w] = (IF w = Main THEN "idle" ELSE "answering")
      /\ \A v \in Worker : v # w => pc'[v] = pc[v]
  BY <1>2 DEF TypeOK
<1>4. /\ Starts(w) /\ mine[w] \in Sim /\ mine[w] \in 1..made
      /\ \A v \in Worker : Starts(v) /\ mine[v] = mine[w] => v = w
  <2>1. Starts(w)
    BY <1>1 DEF Starts
  <2>2. \A v \in Worker : Starts(v) /\ mine[v] = mine[w] => v = w
    BY <2>1 DEF OwnInv
  <2> QED BY <2>1, <2>2, MadeAreSims
<1>5. /\ link'[mine[w]] = "failed"
      /\ \A s \in Sim : s # mine[w] => link'[s] = link[s]
  BY <1>1, <1>4 DEF TypeOK
<1>6. TypeOK'
  <2>1. link' \in [Sim -> {"none", "up", "failed"}]
    BY <1>1 DEF TypeOK
  <2>2. pc' \in [Worker -> {"idle", "matching", "growing", "running", "assigning",
                            "binding", "answering"}]
    BY <1>2 DEF TypeOK
  <2>3. main' \in {"starting", "waiting", "closing", "draining", "deleting"}
    BY <1>2 DEF TypeOK
  <2> QED BY <1>1, <2>1, <2>2, <2>3 DEF TypeOK
<1>7. OwnInv'
  <2> SUFFICES ASSUME NEW u \in Worker, Starts(u)'
               PROVE  /\ mine'[u] \in 1..made'
                      /\ (\A v \in Worker : Starts(v)' /\ mine'[v] = mine'[u] => v = u)
                      /\ endpoint'[mine'[u]] = NoEndpoint
                      /\ link'[mine'[u]] = IF pc'[u] = "assigning" THEN "up" ELSE "none"
                      /\ (pc'[u] = "assigning" => want'[u].addr # "")
    BY DEF OwnInv
  <2>1. \A v \in Worker : Starts(v)' => Starts(v) /\ v # w
    BY <1>3 DEF Starts
  <2>2. Starts(u) /\ mine[u] # mine[w] /\ mine[u] \in Sim
    BY <1>4, <2>1, MadeAreSims
  <2>3. link'[mine[u]] = link[mine[u]] /\ pc'[u] = pc[u]
    BY <1>3, <1>5, <2>1, <2>2
  <2>4. \A v \in Worker : Starts(v)' /\ mine'[v] = mine'[u] => v = u
    BY <1>1, <2>1, <2>2 DEF OwnInv
  <2> QED BY <1>1, <2>2, <2>3, <2>4 DEF OwnInv
<1>8. endpoint[mine[w]] = NoEndpoint
  BY <1>4 DEF OwnInv
<1>9. EndpointInv'
  <2>1. \A s \in Sim : made < s => s # mine[w]
    BY <1>4, MadeAreSims
  <2> QED BY <1>1, <1>5, <1>8, <2>1 DEF EndpointInv
<1>10. Growing' = Growing
  BY <1>1, <1>3 DEF Growing
<1>11. VectorInv'
  BY <1>1, <1>10 DEF VectorInv, VectorHoldsAll, InVector
<1>12. SearchInv'
  <2> SUFFICES ASSUME NEW g \in Handler PROVE SearchOf(g)'
    BY DEF SearchInv
  <2>1. CASE g = w
    <3>1. pc'[g] = "answering" /\ link'[mine[g]] = "failed"
      BY <1>3, <1>5, <2>1
    <3>2. ~Found(g) /\ ~Found(g)'
      BY <1>1, <1>4, <2>1, MadeAreSims DEF SearchOf, Found
    <3>3. AnswerInv(g)'
      BY <1>1, <1>4, <2>1, <3>1, <3>2 DEF AnswerInv
    <3> QED BY <1>1, <2>1, <3>1, <3>3 DEF SearchInv, SearchOf, KnownAhead, Starts
  <2>2. CASE g # w
    <3>1. HasEndpoint(g) => HasEndpoint(g)'
      <4> SUFFICES ASSUME HasEndpoint(g) PROVE HasEndpoint(g)'
        OBVIOUS
      <4>1. link'[mine[g]] = "up"
        <5>1. mine[g] # mine[w]
          BY <1>1 DEF HasEndpoint
        <5> QED BY <1>1, <5>1 DEF HasEndpoint, TypeOK
      <4>2. \A v \in Worker : pc[v] = "assigning" => pc'[v] = "assigning"
        BY <1>1, <1>3
      <4>3. UNCHANGED <<mine, want, endpoint, half>>
        BY <1>1
      <4> QED BY <4>1, <4>2, <4>3 DEF HasEndpoint
    <3>2. \A s \in Sim : link[s] # "none" => link'[s] = link[s]
      BY <1>1, <1>5
    <3>3. made' \in Nat /\ made <= made'
      BY <1>1, MadeAreSims
    <3> QED BY <1>1, <1>3, <2>2, <3>1, <3>2, <3>3, OtherSearch
  <2> QED BY <2>1, <2>2
<1> QED BY <1>6, <1>7, <1>9, <1>11, <1>12
-----------------------------------------------------------------------------
LEMMA NextInv == Inv /\ [Next]_vars => Inv'
<1> SUFFICES ASSUME Inv, [Next]_vars PROVE Inv'
  OBVIOUS
<1>1. CASE Crash
  BY <1>1, MainInv
<1>2. ASSUME ~Crash, NEW w \in Worker, RunStep(w) PROVE Inv'
  BY <1>2, CreateInv, GrowInv, RunSucceedsInv, AssignEndpointInv, RunFailsInv DEF RunStep
<1>3. ASSUME ~Crash, NEW h \in Handler, HandlerStep(h) PROVE Inv'
  BY <1>3, MatchInv, BindInv, AnswerStepInv DEF HandlerStep
<1>4. ASSUME NEW h \in Handler, NEW e \in Endpoint, Post(h, e) PROVE Inv'
  BY <1>4, PostInv
<1>5. CASE MainStep \/ OperatorStops \/ UNCHANGED vars
  BY <1>5, MainInv
<1> QED BY <1>1, <1>2, <1>3, <1>4, <1>5 DEF Next

LEMMA InitInv == Init => Inv
<1> SUFFICES ASSUME Init PROVE Inv
  OBVIOUS
<1>1. TypeOK
  <2>1. <<>> \in Seq(Sim) /\ FirstEndpoint \in Endpoint \cup {FirstEndpoint}
    BY EmptySeq
  <2>2. seen \in [Worker -> Seq(Sim)]
    BY <2>1 DEF Init
  <2>3. pos \in [Worker -> Nat \ {0}]
    BY DEF Init
  <2>4. made \in 0..MaxSim
    BY EndpointAssumption DEF Init
  <2>5. endpoint \in [Sim -> Used \cup {NoEndpoint}] /\ link \in [Sim -> {"none", "up", "failed"}]
    BY DEF Init
  <2> QED BY <2>1, <2>2, <2>3, <2>4, <2>5 DEF Init, TypeOK
<1>2. \A h \in Worker : pc[h] = "idle" /\ pos[h] = 1 /\ seen[h] = <<>>
  BY DEF Init
<1>3. OwnInv
  BY <1>2 DEF OwnInv, Starts
<1>4. EndpointInv
  BY DEF Init, EndpointInv
<1>5. DOMAIN e2sims = {} /\ Growing = {} /\ 1..made = {}
  BY <1>2, EmptySeq DEF Init, Growing
<1>6. VectorInv
  BY <1>5 DEF VectorInv, VectorHoldsAll
<1>7. \A h \in Handler : DOMAIN seen[h] = {}
  BY <1>2, EmptySeq
<1>8. SearchInv
  BY <1>2, <1>7 DEF SearchInv, SearchOf, KnownAhead, AnswerInv, Starts
<1> QED BY <1>1, <1>3, <1>4, <1>6, <1>8 DEF Inv

(* The inductive invariant.                                                *)
THEOREM InvHolds == Spec => []Inv
BY InitInv, NextInv, PTL DEF Spec

(* Every variable keeps its type; in particular run() leaves no port in an *)
(* E2Sim that it could not have connected to.                              *)
THEOREM TypeCorrect == Spec => []TypeOK
<1>1. Inv => TypeOK
  BY DEF Inv
<1> QED BY <1>1, InvHolds, PTL

(* The vector that main takes down holds every E2Sim, once, unless two     *)
(* workers grew it at the same time.                                       *)
THEOREM VectorHeld == Spec => []VectorHoldsAll
<1>1. Inv => VectorHoldsAll
  BY DEF Inv, VectorInv
<1> QED BY <1>1, InvHolds, PTL

(* A handover is answered for an E2Sim of its endpoint, or for one that    *)
(* could not be connected to it.                                           *)
THEOREM AnsweredRight == Spec => []AnsweredForItsEndpoint
<1>1. Inv => AnsweredForItsEndpoint
  BY DEF Inv, SearchInv, SearchOf, AnswerInv, HasEndpoint, AnsweredForItsEndpoint, Assigning
<1> QED BY <1>1, InvHolds, PTL

(* A handover to an endpoint the vector has creates no other E2Sim.        *)
THEOREM KnownReused == Spec => KnownEndpointIsReused
<1> DEFINE Reused == \A h \in Handler :
               (pc[h] = "matching" /\ pc'[h] = "growing") => known[h] = {}
<1>1. Inv /\ [Next]_vars => Reused
  <2> SUFFICES ASSUME Inv, [Next]_vars, NEW h \in Handler,
                      pc[h] = "matching", pc'[h] = "growing"
               PROVE  known[h] = {}
    OBVIOUS
  <2>1. Create(h)
    BY ZenonT(30) DEF Inv, TypeOK, Next, vars, RunStep, HandlerStep, MainStep, Create, Grow, Joined, RunSucceeds,
           AssignEndpoint, RunFails, Match, Bind, Answer, Post, OperatorStops, MainWakes,
           StopsAccepting, ListenerCloses, At, AfterRun, Crash
  <2>2. pos[h] > Len(seen[h]) /\ seen[h] \in Seq(Sim) /\ pos[h] \in Nat
    BY <2>1, LenProperties DEF Create, Needs, Searches, Inv, TypeOK
  <2>3. \A i \in DOMAIN seen[h] : i < pos[h]
    BY <2>2, LenProperties
  <2>4. KnownAhead(h)
    BY DEF Inv, SearchInv, SearchOf
  <2>5. \A i \in DOMAIN seen[h] : ~(pos[h] <= i)
    BY <2>2, <2>3, LenProperties
  <2> QED BY <2>4, <2>5 DEF KnownAhead
<1>2. Inv /\ [Next]_vars => [Reused]_vars
  BY <1>1
<1> QED BY <1>2, InvHolds, PTL DEF Spec, KnownEndpointIsReused
-----------------------------------------------------------------------------
(* Every E2Sim is run by the worker that created it.                       *)

(* Where no E2Sim is created, a worker keeps its own until that has a link *)
(* or has failed.                                                          *)
LEMMA SameRun ==
    ASSUME Inv, RunInv, UNCHANGED made,
           \A s \in Sim : link'[s] = "none" => link[s] = "none",
           \A w \in Worker : Starts(w) =>
               (Starts(w)' /\ mine'[w] = mine[w]) \/ link'[mine[w]] # "none"
    PROVE  RunInv'
<1> SUFFICES ASSUME NEW s \in 1..made, link'[s] = "none"
             PROVE  \E w \in Worker : Starts(w)' /\ mine'[w] = s
  BY DEF RunInv
<1>1. s \in Sim
  BY MadeAreSims
<1>2. PICK w \in Worker : Starts(w) /\ mine[w] = s
  BY <1>1 DEF RunInv
<1> QED BY <1>2

(* A handler that searches, binds or answers starts nothing, and neither   *)
(* does main when it is waked.                                             *)
LEMMA HandlerRun ==
    ASSUME Inv, RunInv,
           \/ \E h \in Handler : HandlerStep(h) \/ \E e \in Endpoint : Post(h, e)
           \/ MainStep \/ OperatorStops \/ UNCHANGED vars
    PROVE  RunInv'
<1>1. UNCHANGED <<made, link>>
  BY DEF HandlerStep, Match, Bind, Answer, Post, Crash, MainStep, MainWakes,
         StopsAccepting, ListenerCloses, OperatorStops, vars
<1>2. ASSUME NEW w \in Worker, Starts(w)
      PROVE  Starts(w)' /\ mine'[w] = mine[w]
  <2>1. ASSUME NEW h \in Handler, HandlerStep(h) \/ \E e \in Endpoint : Post(h, e)
        PROVE  pc'[w] = pc[w] /\ mine'[w] = mine[w]
    <3>1. CASE w = h
      BY <1>2, <2>1, <3>1 DEF HandlerStep, Match, Bind, Answer, Post, Crash, At, Starts
    <3>2. CASE w # h
      BY <2>1, <3>2 DEF HandlerStep, Match, Bind, Answer, Post, Crash, At, Inv, TypeOK
    <3> QED BY <3>1, <3>2
  <2>2. ASSUME MainStep \/ OperatorStops \/ UNCHANGED vars
        PROVE  pc'[w] = pc[w] /\ mine'[w] = mine[w]
    <3>1. pc' = pc /\ mine' = mine
      BY <2>2 DEF MainStep, MainWakes, StopsAccepting, ListenerCloses, OperatorStops, vars
    <3> QED BY <3>1
  <2>3. pc'[w] = pc[w] /\ mine'[w] = mine[w]
    BY <2>1, <2>2
  <2> QED BY <1>2, <2>3 DEF Starts
<1> QED BY <1>1, <1>2, SameRun

(* A worker that has created an E2Sim has it; the others keep theirs.      *)
LEMMA CreateRun ==
    ASSUME Inv, RunInv, NEW w \in Worker, Create(w)
    PROVE  RunInv'
<1>1. /\ made' = made + 1 /\ UNCHANGED link /\ made \in Nat
      /\ ~Starts(w)
      /\ pc'[w] = "growing" /\ mine'[w] = made + 1
      /\ \A v \in Worker : v # w => UNCHANGED <<pc[v], mine[v]>>
  BY DEF Create, Needs, At, Starts, Inv, TypeOK
<1> SUFFICES ASSUME NEW s \in 1..made + 1, link[s] = "none"
             PROVE  \E v \in Worker : Starts(v)' /\ mine'[v] = s
  BY <1>1 DEF RunInv
<1>2. CASE s = made + 1
  BY <1>1, <1>2 DEF Starts
<1>3. CASE s \in 1..made
  <2>1. PICK v \in Worker : Starts(v) /\ mine[v] = s
    BY <1>3 DEF RunInv
  <2> QED BY <1>1, <2>1 DEF Starts
<1> QED BY <1>1, <1>2, <1>3

(* The steps of run(): a worker lets go of its E2Sim when that has a link  *)
(* or has failed.                                                          *)
LEMMA RunRun ==
    ASSUME Inv, RunInv, NEW w \in Worker,
           Grow(w) \/ RunSucceeds(w) \/ AssignEndpoint(w) \/ RunFails(w)
    PROVE  RunInv'
<1>1. UNCHANGED <<made, mine>> /\ Starts(w)
  BY DEF Grow, RunSucceeds, AssignEndpoint, RunFails, Crash, Starts
<1>2. mine[w] \in Sim
  BY <1>1, MadeAreSims
<1>3. \A s \in Sim : link'[s] = "none" => link[s] = "none"
  BY <1>2 DEF Grow, RunSucceeds, AssignEndpoint, RunFails, Crash, Links!Establish, Links!Fail,
         Inv, TypeOK
<1>4. \A v \in Worker : v # w => pc'[v] = pc[v]
  BY DEF Grow, RunSucceeds, AssignEndpoint, RunFails, AfterRun, At, Crash, Inv, TypeOK
<1>5. Starts(w)' \/ link'[mine[w]] # "none"
  <2>1. CASE Grow(w)
    BY <2>1, <1>1 DEF Grow, Joined, At, Crash, Starts, Inv, TypeOK
  <2>2. CASE RunSucceeds(w)
    BY <2>2 DEF RunSucceeds, At, Starts, Inv, TypeOK
  <2>3. CASE AssignEndpoint(w)
    <3>1. pc[w] = "assigning" /\ UNCHANGED link
      BY <2>3 DEF AssignEndpoint
    <3> QED BY <1>1, <3>1 DEF Inv, OwnInv
  <2>4. CASE RunFails(w)
    BY <1>2, <2>4 DEF RunFails, Links!Fail, Inv, TypeOK
  <2> QED BY <2>1, <2>2, <2>3, <2>4
<1> QED BY <1>1, <1>3, <1>4, <1>5, SameRun DEF Starts

LEMMA NextRun == Inv /\ RunInv /\ [Next]_vars => RunInv'
<1> SUFFICES ASSUME Inv, RunInv, [Next]_vars PROVE RunInv'
  OBVIOUS
<1>1. ASSUME NEW w \in Worker, RunStep(w) PROVE RunInv'
  BY <1>1, CreateRun, RunRun DEF RunStep
<1> QED BY <1>1, HandlerRun DEF Next

(* An E2Sim without a link is that of a worker that will run it.           *)
THEOREM NoneIsForgotten == Spec => []RunInv
<1>1. Init => RunInv
  BY DEF Init, RunInv
<1> QED BY <1>1, NextRun, InvHolds, PTL DEF Spec

(* A handover finds an E2Sim that was run, or that another worker is about *)
(* to run.                                                                 *)
THEOREM ReusedIsRun == Spec => ReusesWhatIsRun
<1> DEFINE IsRun == \A h \in Handler :
               (pc[h] = "matching" /\ pc'[h] = "binding") =>
                   \/ link[mine'[h]] # "none"
                   \/ \E w \in Worker \ {h} : Starts(w) /\ mine[w] = mine'[h]
<1>1. Inv /\ RunInv /\ [Next]_vars => IsRun
  <2> SUFFICES ASSUME Inv, RunInv, [Next]_vars, NEW h \in Handler,
                      pc[h] = "matching", pc'[h] = "binding", link[mine'[h]] = "none"
               PROVE  \E w \in Worker \ {h} : Starts(w) /\ mine[w] = mine'[h]
    OBVIOUS
  <2>1. Match(h) /\ ~Crash
    BY ZenonT(30) DEF Inv, TypeOK, Next, vars, RunStep, HandlerStep, MainStep, Create, Grow, Joined,
           RunSucceeds, AssignEndpoint, RunFails, Match, Bind, Answer, Post, OperatorStops,
           MainWakes, StopsAccepting, ListenerCloses, At, AfterRun, Crash
  <2>2. mine'[h] = seen[h][pos[h]] /\ pos[h] \in DOMAIN seen[h]
    <3>1. seen[h] \in Seq(Sim) /\ pos[h] \in Nat \ {0} /\ pos[h] <= Len(seen[h])
      BY <2>1 DEF Match, Searches, Inv, TypeOK
    <3>2. Len(seen[h]) \in Nat /\ DOMAIN seen[h] = 1..Len(seen[h])
      BY <3>1, LenProperties
    <3>3. mine'[h] = seen[h][pos[h]]
      BY <2>1 DEF Match, At, Inv, TypeOK
    <3> QED BY <3>1, <3>2, <3>3
  <2>3. mine'[h] \in 1..made
    BY <2>2 DEF Inv, SearchInv, SearchOf
  <2>4. PICK w \in Worker : Starts(w) /\ mine[w] = mine'[h]
    BY <2>3 DEF RunInv
  <2>5. w # h
    BY <2>4 DEF Starts
  <2> QED BY <2>4, <2>5
<1>2. Inv /\ RunInv /\ [Next]_vars => [IsRun]_vars
  BY <1>1
<1> QED BY <1>2, InvHolds, NoneIsForgotten, PTL DEF Spec, ReusesWhatIsRun
=============================================================================

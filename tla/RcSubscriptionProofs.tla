------------------------ MODULE RcSubscriptionProofs ------------------------
(***************************************************************************)
(* Theorems about the answer to a RIC-SUBSCRIPTION-REQUEST: what the scan  *)
(* computes for a request of any length, and which of them are answered.   *)
(***************************************************************************)
EXTENDS MCRcSubscription, FoldLemmas, SequenceTheorems, FiniteSetTheorems

(* What a scan has found.                                                  *)
Scans == [accept : Seq(ActionIds), reject : Seq(ActionIds),
          reqActionId : ActionIds \cup {Unassigned}]

NoScan == [accept |-> <<>>, reject |-> <<>>, reqActionId |-> Unassigned]

(* The loop keeps to the types.                                            *)
LEMMA ScanItemType ==
    ASSUME NEW scan \in Scans, NEW item \in Action
    PROVE  ScanItem(scan, item) \in Scans
<1>1. /\ Append(scan.accept, item.id) \in Seq(ActionIds)
      /\ Append(scan.reject, item.id) \in Seq(ActionIds)
  BY DEF Scans, Action
<1> QED BY <1>1 DEF ScanItem, Scans, Action

(* The loop of callback_rc_subscription_request: Scan takes the items of a *)
(* request one by one, in order.                                           *)
LEMMA ScanLoop ==
    ASSUME NEW request \in Seq(Action)
    PROVE  \E scanned :
               /\ scanned[0] = NoScan
               /\ \A k \in 1..Len(request) : scanned[k] = ScanItem(scanned[k-1], request[k])
               /\ Scan(request) = scanned[Len(request)]
<1> DEFINE n == Len(request)
           Folded(g) == [s \in SUBSET (1..n) |->
                           IF s = {} THEN NoScan
                           ELSE ScanItem(g[s \ {Max(s)}], request[Max(s)])]
           iter == CHOOSE g : g = Folded(g)
           step == [k \in 1..n |-> [scan \in Scans |-> ScanItem(scan, request[k])]]
<1>1. n \in Nat /\ DOMAIN request = 1..n /\ \A k \in 1..n : request[k] \in Action
  BY LenProperties
<1>2. Scan(request) = iter[1..n]
  BY <1>1 DEF Scan, FoldLeft, MapThenFoldSet, NoScan
<1>3. \E g : g = Folded(g)
  <2>1. step \in IndexSteps(Scans, n)
    BY <1>1, ScanItemType DEF IndexSteps
  <2>2. NoScan \in Scans
    BY DEF Scans, NoScan
  <2>3. PICK g : FoldsOver(g, Scans, n, NoScan, step)
    <3> HIDE DEF n, step
    <3> QED BY <1>1, <2>1, <2>2, IndexFold
  <2>4. ASSUME NEW s \in SUBSET (1..n), s # {}
        PROVE  step[Max(s)][g[s \ {Max(s)}]] = ScanItem(g[s \ {Max(s)}], request[Max(s)])
    <3>1. Max(s) \in 1..n
      BY <1>1, <2>4, MaxOfIndices
    <3>2. g[s \ {Max(s)}] \in Scans
      BY <2>3 DEF FoldsOver
    <3> QED BY <3>1, <3>2
  <2>5. g = Folded(g)
    BY <2>3, <2>4 DEF FoldsOver
  <2> QED BY <2>5
<1>4. iter = Folded(iter)
  <2> HIDE DEF Folded
  <2> QED BY <1>3
<1> HIDE DEF iter
<1> DEFINE scanned == [k \in 0..n |-> iter[1..k]]
<1>5. scanned[0] = NoScan
  <2>1. 1..0 = {} /\ {} \in SUBSET (1..n)
    OBVIOUS
  <2> QED BY <1>1, <1>4, <2>1
<1>6. ASSUME NEW k \in 1..n PROVE scanned[k] = ScanItem(scanned[k-1], request[k])
  <2>1. n \in Nat
    BY <1>1
  <2>2. /\ k - 1 \in 0..n /\ k \in 0..n
        /\ 1..k # {} /\ 1..k \in SUBSET (1..n)
        /\ Max(1..k) = k /\ (1..k) \ {k} = 1..k-1
    <3> HIDE DEF n
    <3> QED BY <2>1, MaxOfPrefix
  <2>3. iter[1..k] = ScanItem(iter[1..k-1], request[k])
    BY <1>4, <2>2
  <2> QED BY <2>2, <2>3
<1>7. Scan(request) = scanned[n]
  BY <1>1, <1>2
<1> HIDE DEF scanned
<1> QED BY <1>5, <1>6, <1>7
-----------------------------------------------------------------------------
(* What is left of a sequence of n + 1 when one element is appended to n.  *)
LEMMA AppendLast ==
    ASSUME NEW S, NEW n \in Nat, NEW f \in [1..n+1 -> S],
           NEW g \in [1..n -> S], \A i \in 1..n : g[i] = f[i]
    PROVE  Append(g, f[n+1]) = f
<1>1. f \in Seq(S) /\ g \in Seq(S) /\ f[n+1] \in S
  <2>1. n + 1 \in Nat
    OBVIOUS
  <2> QED BY <2>1
<1>2. Len(f) = n + 1 /\ Len(g) = n
  <2>1. 1..Len(f) = 1..n+1 /\ 1..Len(g) = 1..n /\ Len(f) \in Nat /\ Len(g) \in Nat
    BY <1>1, LenProperties
  <2> QED BY <2>1
<1>3. Append(g, f[n+1]) \in Seq(S) /\ Len(Append(g, f[n+1])) = n + 1
  BY <1>1
<1>4. ASSUME NEW i \in 1..n+1 PROVE Append(g, f[n+1])[i] = f[i]
  BY <1>1
<1> QED BY <1>1, <1>3, <1>4, SeqEqual

NoInsert(request, k) == \A i \in 1..k : request[i].type # "insert"

FirstInsertAt(request, j) ==
    /\ j \in 1..Len(request)
    /\ request[j].type = "insert"
    /\ NoInsert(request, j - 1)

(* The identifiers of the first k actions, and without that of action j.   *)
IdsUpTo(request, k) == [i \in 1..k |-> request[i].id]

IdsWithout(request, k, j) == [i \in 1..k-1 |-> request[IF i < j THEN i ELSE i + 1].id]

(* What the loop knows when it has seen k actions.                         *)
Scanned(request, k, scan) ==
    /\ scan.reqActionId = IF k = 0 THEN Unassigned ELSE request[k].id
    /\ \/ /\ NoInsert(request, k)
          /\ scan.accept = <<>>
          /\ scan.reject = IdsUpTo(request, k)
       \/ \E j \in 1..k : /\ FirstInsertAt(request, j)
                          /\ scan.accept = <<request[j].id>>
                          /\ scan.reject = IdsWithout(request, k, j)

(* One more action.                                                        *)
LEMMA ScanStep ==
    ASSUME NEW request \in Seq(Action), NEW k \in Nat, k + 1 <= Len(request),
           NEW scan, Scanned(request, k, scan)
    PROVE  Scanned(request, k + 1, ScanItem(scan, request[k+1]))
<1> DEFINE item == request[k+1]
           next == ScanItem(scan, item)
           n == Len(request)
<1>1. n \in Nat /\ DOMAIN request = 1..n /\ \A i \in 1..n : request[i] \in Action
  BY LenProperties
<1>2. next.reqActionId = item.id /\ k + 1 \in 1..n /\ (k + 1) - 1 = k /\ 1..k \subseteq 1..n
  BY <1>1 DEF ScanItem
<1>3. CASE NoInsert(request, k) /\ scan.accept = <<>> /\ scan.reject = IdsUpTo(request, k)
  <2>1. CASE item.type = "insert"
    <3>1. next.accept = <<item.id>> /\ next.reject = scan.reject
      BY <1>3, <2>1 DEF ScanItem
    <3>2. FirstInsertAt(request, k + 1)
      BY <1>2, <1>3, <2>1 DEF FirstInsertAt
    <3>3. IdsUpTo(request, k) = IdsWithout(request, k + 1, k + 1)
      BY <1>2 DEF IdsUpTo, IdsWithout
    <3> QED BY <1>2, <1>3, <3>1, <3>2, <3>3 DEF Scanned
  <2>2. CASE item.type # "insert"
    <3>1. next.accept = <<>> /\ next.reject = Append(scan.reject, item.id)
      BY <1>3, <2>2 DEF ScanItem
    <3>2. NoInsert(request, k + 1)
      BY <1>1, <1>3, <2>2 DEF NoInsert
    <3>3. Append(IdsUpTo(request, k), item.id) = IdsUpTo(request, k + 1)
      <4>1. /\ IdsUpTo(request, k) \in [1..k -> ActionIds]
            /\ IdsUpTo(request, k + 1) \in [1..k+1 -> ActionIds]
            /\ \A i \in 1..k : IdsUpTo(request, k)[i] = IdsUpTo(request, k + 1)[i]
            /\ item.id = IdsUpTo(request, k + 1)[k+1]
        BY <1>1 DEF IdsUpTo, Action
      <4> QED BY <4>1, AppendLast
    <3> QED BY <1>2, <1>3, <3>1, <3>2, <3>3 DEF Scanned
  <2> QED BY <2>1, <2>2
<1>4. ASSUME NEW j \in 1..k, FirstInsertAt(request, j), scan.accept = <<request[j].id>>,
             scan.reject = IdsWithout(request, k, j)
      PROVE  Scanned(request, k + 1, next)
  <2>1. next.accept = scan.accept /\ next.reject = Append(scan.reject, item.id)
    BY <1>4 DEF ScanItem
  <2>2. k - 1 \in Nat /\ (k - 1) + 1 = k /\ j \in 1..k+1
    BY <1>1
  <2>3. Append(IdsWithout(request, k, j), item.id) = IdsWithout(request, k + 1, j)
    <3>1. /\ IdsWithout(request, k, j) \in [1..k-1 -> ActionIds]
          /\ IdsWithout(request, k + 1, j) \in [1..k -> ActionIds]
      BY <1>1, <2>2 DEF IdsWithout, Action
    <3>2. /\ \A i \in 1..k-1 : IdsWithout(request, k, j)[i] = IdsWithout(request, k + 1, j)[i]
          /\ item.id = IdsWithout(request, k + 1, j)[k]
      BY <1>1, <2>2 DEF IdsWithout
    <3> QED BY <2>2, <3>1, <3>2, AppendLast
  <2> QED BY <1>2, <1>4, <2>1, <2>2, <2>3 DEF Scanned
<1> QED BY <1>3, <1>4 DEF Scanned

(* What the scan of a request of any length finds.                         *)
LEMMA ScanFinds ==
    ASSUME NEW request \in Seq(Action)
    PROVE  Scanned(request, Len(request), Scan(request))
<1>1. PICK scanned : /\ scanned[0] = NoScan
                     /\ \A k \in 1..Len(request) :
                            scanned[k] = ScanItem(scanned[k-1], request[k])
                     /\ Scan(request) = scanned[Len(request)]
  BY ScanLoop
<1>2. Len(request) \in Nat
  BY LenProperties
<1> DEFINE S == {k \in Nat : k <= Len(request) => Scanned(request, k, scanned[k])}
<1>3. 0 \in S
  BY <1>1 DEF Scanned, NoScan, NoInsert, IdsUpTo
<1>4. ASSUME NEW k \in Nat, k \in S PROVE k + 1 \in S
  <2> SUFFICES ASSUME k + 1 <= Len(request)
               PROVE  Scanned(request, k + 1, scanned[k+1])
    OBVIOUS
  <2>1. Scanned(request, k, scanned[k])
    BY <1>2, <1>4
  <2>2. scanned[k+1] = ScanItem(scanned[k], request[k+1])
    BY <1>1, <1>2, k + 1 \in 1..Len(request), (k + 1) - 1 = k
  <2> QED BY <2>1, <2>2, ScanStep
<1>5. \A k \in Nat : k \in S
  <2> HIDE DEF S
  <2> QED BY <1>3, <1>4, SetInduction
<1> QED BY <1>1, <1>2, <1>5
-----------------------------------------------------------------------------
(* The reference definitions of MCRcSubscription, for requests of any      *)
(* length.                                                                 *)
LEMMA FirstInsertIs ==
    ASSUME actions \in Seq(Action)
    PROVE  /\ NoInsert(actions, Len(actions)) => FirstInsert = 0
           /\ \A j : FirstInsertAt(actions, j) => FirstInsert = j
<1> DEFINE inserts == {i \in DOMAIN actions : actions[i].type = "insert"}
<1>1. DOMAIN actions = 1..Len(actions) /\ Len(actions) \in Nat
  BY LenProperties
<1>2. ASSUME NoInsert(actions, Len(actions)) PROVE FirstInsert = 0
  <2>1. inserts = {}
    BY <1>1, <1>2 DEF NoInsert
  <2> QED BY <2>1 DEF FirstInsert
<1>3. ASSUME NEW j, FirstInsertAt(actions, j) PROVE FirstInsert = j
  <2>1. j \in inserts /\ j \in Nat
    BY <1>1, <1>3 DEF FirstInsertAt
  <2>2. \A i \in inserts : j <= i
    <3> SUFFICES ASSUME NEW i \in 1..Len(actions), actions[i].type = "insert", i < j
                 PROVE  FALSE
      BY <1>1, <2>1
    <3>1. i \in 1..j-1
      BY <1>1, <2>1
    <3> QED BY <1>3, <3>1 DEF FirstInsertAt, NoInsert
  <2>3. \A i \in inserts : (\A k \in inserts : i <= k) => i = j
    BY <1>1, <2>1, <2>2
  <2>4. FirstInsert = CHOOSE i \in inserts : \A k \in inserts : i <= k
    BY <2>1 DEF FirstInsert
  <2> HIDE DEF inserts
  <2> QED BY <2>1, <2>2, <2>3, <2>4
<1> QED BY <1>2, <1>3

(* There are k numbers from 1 to k.                                        *)
LEMMA CountTo ==
    ASSUME NEW k \in Nat
    PROVE  IsFiniteSet(1..k) /\ Cardinality(1..k) = k
BY FS_Interval, SMTT(30)

(* All identifiers in order, and all but that of action j.                 *)
LEMMA IdsOfAll ==
    ASSUME actions \in Seq(Action)
    PROVE  Ids(DOMAIN actions) = IdsUpTo(actions, Len(actions))
<1> DEFINE n == Len(actions)
           Rank(i) == Cardinality({x \in 1..n : x <= i})
<1>1. DOMAIN actions = 1..n /\ n \in Nat
  BY LenProperties
<1>2. Cardinality(1..n) = n
  BY <1>1, CountTo
<1>3. ASSUME NEW i \in 1..n PROVE Rank(i) = i
  <2>1. {x \in 1..n : x <= i} = 1..i
    BY <1>1
  <2>2. Cardinality(1..i) = i
    BY <1>1, CountTo
  <2> QED BY <2>1, <2>2
<1>4. ASSUME NEW k \in 1..n PROVE (CHOOSE i \in 1..n : Rank(i) = k) = k
  <2> HIDE DEF Rank
  <2> QED BY <1>3
<1>5. Ids(1..n) = [k \in 1..n |-> actions[CHOOSE i \in 1..n : Rank(i) = k].id]
  BY <1>2 DEF Ids
<1> HIDE DEF Rank
<1> QED BY <1>1, <1>4, <1>5 DEF IdsUpTo

(* The identifiers of all actions but one, in order.                       *)
LEMMA IdsOfOthers ==
    ASSUME actions \in Seq(Action), NEW j \in 1..Len(actions)
    PROVE  Ids(DOMAIN actions \ {j}) = IdsWithout(actions, Len(actions), j)
<1> DEFINE n == Len(actions)
           S == (1..n) \ {j}
           Rank(i) == Cardinality({x \in S : x <= i})
           At(k) == IF k < j THEN k ELSE k + 1
<1>1. DOMAIN actions = 1..n /\ n \in Nat
  BY LenProperties
<1>2. Cardinality(S) = n - 1
  <2> DEFINE I == 1..n
  <2>1. IsFiniteSet(I)
    BY <1>1, CountTo
  <2>2. Cardinality(I) = n
    BY <1>1, CountTo
  <2>3. j \in I
    OBVIOUS
  <2>4. Cardinality(I \ {j}) = Cardinality(I) - 1
    <3> HIDE DEF I
    <3> QED BY <2>1, <2>3, FS_RemoveElement
  <2> QED BY <2>2, <2>4
<1>3. ASSUME NEW i \in S PROVE Rank(i) = IF i < j THEN i ELSE i - 1
  <2>1. IsFiniteSet(1..i) /\ Cardinality(1..i) = i
    BY <1>1, CountTo
  <2>2. CASE i < j
    <3>1. {x \in S : x <= i} = 1..i
      BY <1>1, <2>2
    <3> QED BY <2>1, <2>2, <3>1
  <2>3. CASE i > j
    <3>1. {x \in S : x <= i} = (1..i) \ {j}
      BY <1>1, <2>3
    <3>2. Cardinality((1..i) \ {j}) = i - 1
      <4>1. j \in 1..i
        BY <1>1, <2>3
      <4> QED BY <2>1, <4>1, FS_RemoveElement
    <3>3. Rank(i) = i - 1
      BY <3>1, <3>2
    <3> QED BY <1>1, <2>3, <3>3
  <2> HIDE DEF Rank
  <2> QED BY <1>1, <2>2, <2>3
<1>4. ASSUME NEW k \in 1..n-1 PROVE (CHOOSE i \in S : Rank(i) = k) = At(k)
  <2>1. At(k) \in S /\ Rank(At(k)) = k
    <3> HIDE DEF Rank
    <3> QED BY <1>1, <1>3
  <2>2. \A i \in S : Rank(i) = k => i = At(k)
    <3> HIDE DEF Rank
    <3> QED BY <1>1, <1>3
  <2> HIDE DEF Rank, S, At
  <2> QED BY <2>1, <2>2
<1>5. Ids(S) = [k \in 1..n-1 |-> actions[CHOOSE i \in S : Rank(i) = k].id]
  BY <1>2 DEF Ids
<1> HIDE DEF Rank, S
<1>6. Ids(S) = [k \in 1..n-1 |-> actions[At(k)].id]
  <2> DEFINE Chosen(k) == CHOOSE i \in S : Rank(i) = k
  <2>1. \A k \in 1..n-1 : Chosen(k) = At(k)
    BY <1>4
  <2>2. Ids(S) = [k \in 1..n-1 |-> actions[Chosen(k)].id]
    BY <1>5
  <2> HIDE DEF Chosen, At, n
  <2> QED BY <2>1, <2>2
<1> QED BY <1>1, <1>6 DEF IdsWithout, S
-----------------------------------------------------------------------------
(* The empty sequence is the one of length 0.                              *)
LEMMA EmptyIffLen ==
    ASSUME NEW S, NEW s \in Seq(S)
    PROVE  s = <<>> <=> Len(s) = 0
<1>1. s # <<>> => Len(s) # 0
  BY EmptySeq
<1> QED BY <1>1

(* A response whose list of rejected actions is not empty has lost the     *)
(* admitted ones, and cannot be encoded.                                   *)
LEMMA OnlyCompleteEncodable ==
    ASSUME NEW scan \in Scans, scan.accept # <<>>, Len(scan.accept) <= 1
    PROVE  /\ Encodable(SuccessIEs(scan)) <=> scan.reject = <<>>
           /\ scan.reject = <<>> =>
                  SuccessIEs(scan) = << [id |-> "RICrequestID"],
                                        [id |-> "RANfunctionID", value |-> 0],
                                        [id |-> "RICactions_Admitted", list |-> scan.accept] >>
<1> DEFINE admitted == [id |-> "RICactions_Admitted",
                        list |-> IF scan.reject = <<>> THEN scan.accept ELSE <<>>]
           notAdmitted == [id |-> "RICactions_NotAdmitted", list |-> scan.reject]
           head == << [id |-> "RICrequestID"], [id |-> "RANfunctionID", value |-> 0], admitted >>
           rest == [i \in 1..Len(scan.reject) |-> notAdmitted]
           T == {head[1], head[2], admitted, notAdmitted}
           ies == SuccessIEs(scan)
<1>1. Len(scan.reject) \in Nat /\ Len(scan.accept) \in Nat /\ scan.accept \in Seq(ActionIds)
      /\ scan.reject \in Seq(ActionIds)
  BY LenProperties DEF Scans
<1>2. head \in Seq(T) /\ Len(head) = 3
  OBVIOUS
<1>3. rest \in Seq(T) /\ Len(rest) = Len(scan.reject)
  BY <1>1
<1>4. ies = head \o rest
  BY DEF SuccessIEs
<1>5. Len(ies) = 3 + Len(scan.reject) /\ DOMAIN ies = 1..Len(ies)
      /\ ies[1] = head[1] /\ ies[2] = head[2] /\ ies[3] = admitted
      /\ \A i \in 4..Len(ies) : ies[i] = notAdmitted
  <2> HIDE DEF head, rest, T, ies
  <2>1. ies \in Seq(T) /\ Len(ies) = Len(head) + Len(rest)
    BY <1>2, <1>3, <1>4, ConcatProperties
  <2> QED BY <1>1, <1>2, <1>3, <1>4, <2>1, ConcatProperties, LenProperties DEF rest, head
<1>6. CASE scan.reject = <<>>
  <2>1. ies = head
    BY <1>6, <1>2, <1>4, ConcatEmptySeq
  <2>2. Len(scan.accept) = 1
    <3>1. scan.accept \in Seq(ActionIds)
      BY <1>1
    <3>2. Len(scan.accept) # 0
      BY <3>1, EmptyIffLen, Zenon
    <3>3. \A m \in Nat : m # 0 /\ m <= 1 => m = 1
      OBVIOUS
    <3> QED BY <1>1, <3>2, <3>3, Zenon
  <2>3. Encodable(ies)
    BY <1>6, <2>1, <2>2 DEF Encodable, maxofRICactionID
  <2> QED BY <1>6, <2>1, <2>3
<1>7. CASE scan.reject # <<>>
  <2>1. admitted.list = <<>> /\ Len(admitted.list) = 0 /\ 3 \in DOMAIN ies
    BY <1>1, <1>5, <1>7
  <2>2. ~Encodable(ies)
    BY <1>5, <2>1 DEF Encodable
  <2> QED BY <1>7, <2>2
<1> QED BY <1>6, <1>7

(* A scan finds lists of action identifiers.                               *)
LEMMA ScanType ==
    ASSUME NEW request \in Seq(Action)
    PROVE  Scan(request) \in Scans
<1>1. PICK scanned : /\ scanned[0] = NoScan
                     /\ \A k \in 1..Len(request) :
                            scanned[k] = ScanItem(scanned[k-1], request[k])
                     /\ Scan(request) = scanned[Len(request)]
  BY ScanLoop
<1>2. Len(request) \in Nat /\ \A k \in 1..Len(request) : request[k] \in Action
  BY LenProperties
<1> DEFINE S == {k \in Nat : k <= Len(request) => scanned[k] \in Scans}
<1>3. 0 \in S
  <2>1. NoScan \in Scans
    BY DEF NoScan, Scans
  <2> QED BY <1>1, <2>1
<1>4. ASSUME NEW k \in Nat, k \in S PROVE k + 1 \in S
  <2> SUFFICES ASSUME k + 1 <= Len(request) PROVE scanned[k+1] \in Scans
    OBVIOUS
  <2>1. scanned[k+1] = ScanItem(scanned[k], request[k+1])
    BY <1>1, <1>2, k + 1 \in 1..Len(request), (k + 1) - 1 = k
  <2> QED BY <1>2, <1>4, <2>1, k + 1 \in 1..Len(request), ScanItemType
<1>5. \A k \in Nat : k \in S
  <2> HIDE DEF S
  <2> QED BY <1>3, <1>4, SetInduction
<1> QED BY <1>1, <1>2, <1>5

(* Which requests are answered: those that are one INSERT and nothing      *)
(* else.  With another action beside an INSERT the process exits, without  *)
(* an INSERT it crashes.                                                   *)
THEOREM OutcomeOfRequest ==
    ASSUME NEW request \in Seq(Action)
    PROVE  Outcome(request) = IF NoInsert(request, Len(request)) THEN "crashed"
                              ELSE IF Len(request) = 1 THEN "sent" ELSE "exited"
<1> DEFINE n == Len(request)
           scan == Scan(request)
<1>1. n \in Nat /\ scan \in Scans /\ Scanned(request, n, scan)
  BY LenProperties, ScanType, ScanFinds
<1>2. CASE scan.accept = <<>>
  <2>1. NoInsert(request, n)
    BY <1>1, <1>2 DEF Scanned
  <2> QED BY <1>2, <2>1 DEF Outcome, FailureOutcome
<1>3. CASE scan.accept # <<>>
  <2>1. PICK j \in 1..n : /\ FirstInsertAt(request, j)
                          /\ scan.accept = <<request[j].id>>
                          /\ scan.reject = IdsWithout(request, n, j)
    BY <1>1, <1>3 DEF Scanned
  <2>2. ~NoInsert(request, n)
    BY <2>1 DEF FirstInsertAt, NoInsert
  <2>3. scan.reject = <<>> <=> n = 1
    <3>1. DOMAIN scan.reject = 1..n-1
      BY <2>1 DEF IdsWithout
    <3>2. scan.reject \in Seq(ActionIds)
      BY <1>1 DEF Scans
    <3>3. Len(scan.reject) = n - 1
      BY <1>1, <2>1, <3>1, <3>2, LenProperties
    <3>4. scan.reject = <<>> <=> Len(scan.reject) = 0
      BY <3>2, EmptyIffLen, Zenon
    <3> QED BY <1>1, <3>3, <3>4
  <2>4. Len(scan.accept) = 1
    BY <2>1
  <2>5. Encodable(SuccessIEs(scan)) <=> n = 1
    <3>1. Len(scan.accept) <= 1
      BY <2>4
    <3> HIDE DEF scan
    <3> QED BY <1>1, <1>3, <2>3, <3>1, OnlyCompleteEncodable
  <2> QED BY <1>3, <2>2, <2>5 DEF Outcome
<1> QED BY <1>2, <1>3
-----------------------------------------------------------------------------
(* The requests that are enumerated. *)
RequestType == actions \in Seq(Action) /\ answered \in BOOLEAN

(* What is scanned is what the reference definition says.                  *)
LEMMA FirstInsertScanned ==
    ASSUME RequestType
    PROVE  OnlyFirstInsertAccepted
<1> DEFINE n == Len(actions)
           scan == Scan(actions)
<1>1. actions \in Seq(Action) /\ DOMAIN actions = 1..n /\ n \in Nat
  BY LenProperties DEF RequestType
<1>2. Scanned(actions, n, scan)
  BY <1>1, ScanFinds
<1>3. CASE NoInsert(actions, n) /\ scan.accept = <<>> /\ scan.reject = IdsUpTo(actions, n)
  <2>1. FirstInsert = 0
    BY <1>1, <1>3, FirstInsertIs
  <2>2. DOMAIN actions \ {FirstInsert} = DOMAIN actions
    BY <1>1, <2>1
  <2>3. Ids(DOMAIN actions \ {FirstInsert}) = scan.reject
    BY <1>1, <1>3, <2>2, IdsOfAll
  <2> QED BY <1>3, <2>1, <2>3 DEF OnlyFirstInsertAccepted
<1>4. ASSUME NEW j \in 1..n, FirstInsertAt(actions, j), scan.accept = <<actions[j].id>>,
             scan.reject = IdsWithout(actions, n, j)
      PROVE  OnlyFirstInsertAccepted
  <2>1. FirstInsert = j /\ j # 0
    BY <1>1, <1>4, FirstInsertIs
  <2>2. Ids(DOMAIN actions \ {FirstInsert}) = scan.reject
    BY <1>1, <1>4, <2>1, IdsOfOthers
  <2> QED BY <1>4, <2>1, <2>2 DEF OnlyFirstInsertAccepted
<1> HIDE DEF scan, n
<1> QED BY <1>2, <1>3, <1>4 DEF Scanned

(* A response that is sent answers for the one action of its request.      *)
LEMMA SentMatches ==
    ASSUME RequestType
    PROVE  SentResponseMatchesLoop
<1> SUFFICES ASSUME Outcome(actions) = "sent"
             PROVE  LET ies      == SuccessIEs(Scan(actions))
                        admitted == UNION {{ies[i].list[k] : k \in DOMAIN ies[i].list} :
                                      i \in {j \in DOMAIN ies : ies[j].id = "RICactions_Admitted"}}
                    IN  /\ admitted = {actions[i].id : i \in DOMAIN actions}
                        /\ Scan(actions).reqActionId \in admitted
  BY DEF SentResponseMatchesLoop
<1> DEFINE n == Len(actions)
           scan == Scan(actions)
           ies == SuccessIEs(scan)
<1>1. actions \in Seq(Action) /\ DOMAIN actions = 1..n /\ n \in Nat
  BY LenProperties DEF RequestType
<1>2. scan \in Scans /\ Scanned(actions, n, scan)
  BY <1>1, ScanType, ScanFinds
<1>3. ~NoInsert(actions, n) /\ n = 1
  BY <1>1, OutcomeOfRequest
<1>4. scan.accept = <<actions[1].id>> /\ scan.reject = IdsWithout(actions, 1, 1)
      /\ scan.reqActionId = actions[1].id
  BY <1>2, <1>3 DEF Scanned
<1>5. scan.reject = <<>>
  BY <1>4 DEF IdsWithout
<1>6. ies = << [id |-> "RICrequestID"], [id |-> "RANfunctionID", value |-> 0],
               [id |-> "RICactions_Admitted", list |-> <<actions[1].id>>] >>
  <2>1. scan.accept # <<>> /\ Len(scan.accept) <= 1
    BY <1>4
  <2> HIDE DEF scan
  <2> QED BY <1>2, <1>4, <1>5, <2>1, OnlyCompleteEncodable
<1>7. {j \in DOMAIN ies : ies[j].id = "RICactions_Admitted"} = {3}
  <2> HIDE DEF ies
  <2> QED BY <1>6
<1>8. {ies[3].list[k] : k \in DOMAIN ies[3].list} = {actions[1].id}
  <2> HIDE DEF ies
  <2> QED BY <1>6
<1>9. {actions[i].id : i \in DOMAIN actions} = {actions[1].id}
  BY <1>1, <1>3
<1> HIDE DEF ies, scan
<1>10. UNION {{ies[i].list[k] : k \in DOMAIN ies[i].list} :
              i \in {j \in DOMAIN ies : ies[j].id = "RICactions_Admitted"}} = {actions[1].id}
  BY <1>7, <1>8
<1> QED BY <1>4, <1>9, <1>10 DEF ies, scan
=============================================================================

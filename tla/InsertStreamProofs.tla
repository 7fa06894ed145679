------------------------- MODULE InsertStreamProofs -------------------------
(***************************************************************************)
(* Theorems about the abstract stream of INSERTs.  Whatever implements     *)
(* InsertStream inherits them: InsertLoopProofs cites them for the threads *)
(* of the experiment.                                                      *)
(***************************************************************************)
EXTENDS InsertStream, SequenceTheorems, TLAPS

(* What is in the stream.                                                  *)
LEMMA StreamElements ==
    ASSUME TypeOK
    PROVE  /\ Len(stream) \in Nat /\ DOMAIN stream = 1..Len(stream)
           /\ \A i \in DOMAIN stream : stream[i] \in Insert
           /\ \A i \in DOMAIN stream : stream[i].loop \in Loop /\ stream[i].seq \in Nat
<1>1. /\ Len(stream) \in Nat /\ DOMAIN stream = 1..Len(stream)
      /\ \A i \in DOMAIN stream : stream[i] \in Insert
  BY DEF TypeOK
<1>2. \A e \in Insert : e.loop \in Loop /\ e.seq \in Nat
  BY DEF Insert
<1> QED BY <1>1, <1>2

(* The initial stream is empty.                                            *)
LEMMA InitTurns == NoLoop \notin Loop /\ Init => TurnInv
BY DEF Init, TurnInv, TypeOK, LoopsTakeTurns

(* The next INSERT is of the owner, whose INSERTs are the last ones.       *)
LEMMA EmitTurns ==
    ASSUME SeqSpace \in Nat \ {0}, TurnInv, NEW l \in Loop, Emit(l)
    PROVE  TurnInv'
<1>1. PICK sub \in Subscription :
          stream' = Append(stream, [cpid |-> Len(stream), seq |-> FollowingSeq,
                                    loop |-> l, sub |-> sub])
  BY DEF Emit
<1> DEFINE n == Len(stream)
           insert == [cpid |-> n, seq |-> FollowingSeq, loop |-> l, sub |-> sub]
<1>2. stream \in Seq(Insert) /\ n \in Nat /\ DOMAIN stream = 1..n
  BY DEF TurnInv, TypeOK
<1>3. FollowingSeq \in Nat
  <2>1. CASE stream = <<>>
    BY <2>1 DEF FollowingSeq
  <2>2. CASE stream # <<>>
    <3>1. n \in 1..n
      BY <1>2, <2>2, EmptySeq
    <3>2. stream[n].seq \in Nat
      BY <1>2, <3>1, StreamElements DEF TurnInv
    <3> QED BY <2>2, <3>2 DEF FollowingSeq
  <2> QED BY <2>1, <2>2
<1>4. insert \in Insert
  BY <1>2, <1>3 DEF Insert
<1> HIDE DEF insert
<1>5. /\ stream' \in Seq(Insert) /\ Len(stream') = n + 1 /\ DOMAIN stream' = 1..n+1
      /\ \A i \in 1..n : stream'[i] = stream[i]
      /\ stream'[n+1] = insert
  BY <1>1, <1>2, <1>4 DEF insert
<1>6. owner = l /\ UNCHANGED <<owner, retired, sampled>> /\ insert.loop = l
  BY DEF Emit, insert
<1>7. TypeOK'
  BY <1>5, <1>6 DEF TurnInv, TypeOK
<1>8. \A i \in DOMAIN stream' : stream'[i].loop \in (retired \cup {owner})'
  <2> SUFFICES ASSUME NEW i \in 1..n+1 PROVE stream'[i].loop \in retired \cup {owner}
    BY <1>5, <1>6
  <2>1. i \in 1..n \/ i = n + 1
    BY <1>2
  <2> QED BY <1>2, <1>5, <1>6, <2>1 DEF TurnInv
<1>9. \A i, j \in DOMAIN stream' : (i < j /\ stream'[i].loop = owner') => stream'[j].loop = owner'
  <2> SUFFICES ASSUME NEW i \in 1..n+1, NEW j \in 1..n+1, i < j, stream'[i].loop = owner
               PROVE  stream'[j].loop = owner
    BY <1>5, <1>6
  <2>1. i \in 1..n /\ (j \in 1..n \/ j = n + 1)
    BY <1>2
  <2> QED BY <1>2, <1>5, <1>6, <2>1 DEF TurnInv
<1>10. LoopsTakeTurns'
  <2> SUFFICES ASSUME NEW i \in 1..n+1, NEW j \in 1..n+1, NEW k \in 1..n+1, i < j, j < k,
                      stream'[i].loop = stream'[k].loop
               PROVE  stream'[j].loop = stream'[i].loop
    BY <1>5 DEF LoopsTakeTurns
  <2>1. i \in 1..n /\ j \in 1..n
    BY <1>2
  <2>2. CASE k \in 1..n
    BY <1>2, <1>5, <2>1, <2>2 DEF TurnInv, LoopsTakeTurns
  <2>3. CASE k = n + 1
    BY <1>2, <1>5, <1>6, <2>1, <2>3 DEF TurnInv
  <2> QED BY <1>2, <2>2, <2>3
<1> QED BY <1>6, <1>7, <1>8, <1>9, <1>10 DEF TurnInv

(* A loop that begins has written nothing: it has not retired.             *)
LEMMA BeginTurns ==
    ASSUME NoLoop \notin Loop, TurnInv, NEW l \in Loop, Begin(l)
    PROVE  TurnInv'
<1>1. \A i \in DOMAIN stream : stream[i].loop \in Loop
  BY StreamElements DEF TurnInv
<1>2. \A i \in DOMAIN stream : stream[i].loop # l
  BY <1>1 DEF Begin, TurnInv
<1>3. /\ UNCHANGED <<retired, stream, sampled>> /\ owner = NoLoop /\ owner' = l
      /\ l \notin retired
  BY DEF Begin
<1>4. TypeOK' /\ LoopsTakeTurns' /\ owner' \notin retired'
  BY <1>3 DEF TurnInv, TypeOK, LoopsTakeTurns
<1>5. \A i \in DOMAIN stream : stream[i].loop \in retired
  BY <1>1, <1>3 DEF TurnInv
<1> QED BY <1>2, <1>3, <1>4, <1>5 DEF TurnInv

(* When the owner retires, so does whatever it has written.                *)
LEMMA RetireTurns ==
    ASSUME NoLoop \notin Loop, TurnInv, NEW l \in Loop, Retire(l)
    PROVE  TurnInv'
<1>1. \A i \in DOMAIN stream : stream[i].loop \in Loop
  BY StreamElements DEF TurnInv
<1>2. /\ UNCHANGED <<stream, sampled>> /\ owner = l /\ owner' = NoLoop
      /\ retired' = retired \cup {l}
  BY DEF Retire
<1>3. TypeOK' /\ LoopsTakeTurns' /\ owner' \notin retired'
  BY <1>2 DEF TurnInv, TypeOK, LoopsTakeTurns
<1>4. \A i \in DOMAIN stream : stream[i].loop \in retired \cup {l}
  BY <1>2 DEF TurnInv
<1>5. \A i \in DOMAIN stream : stream[i].loop # NoLoop
  BY <1>1
<1> QED BY <1>2, <1>3, <1>4, <1>5 DEF TurnInv

(* A sample leaves the stream alone.                                       *)
LEMMA SampleTurns ==
    ASSUME TurnInv, NEW c \in 0..Len(stream)-1, Sample(c)
    PROVE  TurnInv'
<1>1. c \in Nat
  BY DEF TurnInv, TypeOK
<1> QED BY <1>1 DEF Sample, TurnInv, TypeOK, LoopsTakeTurns

(* Every step keeps to the turns.                                          *)
LEMMA NextTurns ==
    ASSUME NoLoop \notin Loop, SeqSpace \in Nat \ {0}, TurnInv, [Next]_vars
    PROVE  TurnInv'
<1>1. CASE UNCHANGED vars
  BY <1>1 DEF vars, TurnInv, TypeOK, LoopsTakeTurns
<1> QED BY <1>1, BeginTurns, EmitTurns, RetireTurns, SampleTurns DEF Next

LEMMA TurnInvariance ==
    ASSUME NoLoop \notin Loop, SeqSpace \in Nat \ {0}
    PROVE  Spec => []TurnInv
<1>1. Init => TurnInv
  BY InitTurns
<1>2. TurnInv /\ [Next]_vars => TurnInv'
  BY NextTurns
<1> QED BY <1>1, <1>2, PTL DEF Spec

(* In the stream that the RIC sees no loop interrupts another              *)
(* (run_insert_loop), whatever the loops and the quota are.                *)
THEOREM TurnsAreTaken ==
    ASSUME NoLoop \notin Loop, SeqSpace \in Nat \ {0}
    PROVE  Spec => []LoopsTakeTurns
<1>1. TurnInv => LoopsTakeTurns
  BY DEF TurnInv
<1> QED BY <1>1, TurnInvariance, PTL
-----------------------------------------------------------------------------
(* r is what is left of a when it is divided by N.                        *)
Remains(N, a, r) == r \in 0..N-1 /\ \E q \in Nat : r = a - N * q

(* Division with a remainder.                                              *)
LEMMA Division ==
    ASSUME NEW N \in Nat \ {0}, NEW a \in Nat
    PROVE  Remains(N, a, a % N)
<1>1. a % N \in 0..N-1
  OBVIOUS
<1>2. a \div N \in Nat
  OBVIOUS
<1>3. N \in Int /\ N > 0 /\ a \in Int
  OBVIOUS
<1>4. a % N = a - N * (a \div N)
  BY <1>3
<1> QED BY <1>1, <1>2, <1>4 DEF Remains

(* There is one remainder.                                                 *)
LEMMA UniqueRemainder ==
    ASSUME NEW N \in Nat \ {0}, NEW q \in Nat, NEW p \in Nat, NEW r \in 0..N-1, NEW t \in 0..N-1,
           N * q + r = N * p + t
    PROVE  r = t
<1>1. CASE q < p
  <2>1. PICK d \in Nat \ {0} : p = q + d
    BY <1>1, p - q \in Nat \ {0}, p = q + (p - q)
  <2>2. N * p = N * q + N * d
    BY <2>1
  <2>3. N * d >= N
    OBVIOUS
  <2> QED BY <2>2, <2>3
<1>2. CASE p < q
  <2>1. PICK d \in Nat \ {0} : q = p + d
    BY <1>2, q - p \in Nat \ {0}, q = p + (q - p)
  <2>2. N * q = N * p + N * d
    BY <2>1
  <2>3. N * d >= N
    OBVIOUS
  <2> QED BY <2>2, <2>3
<1>3. CASE p = q
  BY <1>3
<1> QED BY <1>1, <1>2, <1>3

(* Counting modulo N is what is left of counting.                          *)
LEMMA NextRemainder ==
    ASSUME NEW N \in Nat \ {0}, NEW a \in Nat
    PROVE  ((a % N) + 1) % N = (a + 1) % N
<1> DEFINE r == a % N
           t == (a + 1) % N
           e == (r + 1) % N
<1>1. Remains(N, a, r)
  BY Division, Zenon
<1>2. Remains(N, a + 1, t)
  <2>1. a + 1 \in Nat
    OBVIOUS
  <2> QED BY <2>1, Division, Zenon
<1>3. Remains(N, r + 1, e)
  <2>1. r + 1 \in Nat
    BY <1>1 DEF Remains
  <2> QED BY <2>1, Division, Zenon
<1> HIDE DEF r, t, e
<1> USE DEF Remains
<1>4. r \in 0..N-1 /\ t \in 0..N-1 /\ e \in 0..N-1
  BY <1>1, <1>2, <1>3
<1>5. PICK q \in Nat : r = a - N * q
  BY <1>1
<1>6. PICK p \in Nat : t = a + 1 - N * p
  BY <1>2
<1>7. PICK d \in Nat : e = r + 1 - N * d
  BY <1>3, <1>4
<1>8. q + d \in Nat
  OBVIOUS
<1>9. N * (q + d) + e = N * p + t
  <2>1. N * (q + d) = N * q + N * d
    OBVIOUS
  <2>2. N * q \in Int /\ N * d \in Int /\ N * p \in Int
    OBVIOUS
  <2> QED BY <1>4, <1>5, <1>6, <1>7, <2>1, <2>2
<1>10. e = t
  <2>1. t \in 0..N-1
    BY <1>4
  <2>2. e \in 0..N-1
    BY <1>4
  <2> QED BY <1>8, <1>9, <2>1, <2>2, UniqueRemainder, Zenon
<1> QED BY <1>10 DEF e, t, r

(* The next INSERT has the next numbers.                                   *)
LEMMA EmitNumbers ==
    ASSUME SeqSpace \in Nat \ {0}, TypeOK, NumbersAgree, NEW l \in Loop, Emit(l)
    PROVE  NumbersAgree'
<1> DEFINE n == Len(stream)
<1>1. PICK sub \in Subscription :
          stream' = Append(stream, [cpid |-> n, seq |-> FollowingSeq,
                                    loop |-> l, sub |-> sub])
  BY DEF Emit
<1>2. n \in Nat /\ DOMAIN stream = 1..n
  BY StreamElements
<1>3. /\ DOMAIN stream' = 1..n+1
      /\ \A i \in 1..n : stream'[i] = stream[i]
      /\ stream'[n+1].cpid = n /\ stream'[n+1].seq = FollowingSeq
  BY <1>1, <1>2 DEF TypeOK
<1>4. FollowingSeq = n % SeqSpace
  <2>1. CASE stream = <<>>
    <3>1. n = 0 /\ 0 % SeqSpace = 0
      BY <2>1
    <3> QED BY <2>1, <3>1 DEF FollowingSeq
  <2>2. CASE stream # <<>>
    <3>1. n \in 1..n /\ n - 1 \in Nat /\ (n - 1) + 1 = n
      BY <1>2, <2>2, EmptySeq DEF TypeOK
    <3>2. stream[n].seq = (n - 1) % SeqSpace
      BY <1>2, <3>1 DEF NumbersAgree
    <3>3. (((n - 1) % SeqSpace) + 1) % SeqSpace = ((n - 1) + 1) % SeqSpace
      BY <3>1, NextRemainder, Zenon
    <3>4. FollowingSeq = (stream[n].seq + 1) % SeqSpace
      BY <2>2 DEF FollowingSeq
    <3> HIDE DEF n
    <3> QED BY <3>1, <3>2, <3>3, <3>4, Zenon
  <2> QED BY <2>1, <2>2
<1> HIDE DEF n
<1>5. ASSUME NEW i \in 1..n+1
      PROVE  stream'[i].cpid = i - 1 /\ stream'[i].seq = (i - 1) % SeqSpace
  <2>1. CASE i \in 1..n
    BY <1>2, <1>3, <2>1 DEF NumbersAgree
  <2>2. CASE i = n + 1
    <3>1. i - 1 = n
      BY <1>2, <2>2
    <3> QED BY <1>3, <1>4, <2>2, <3>1
  <2> QED BY <1>2, <2>1, <2>2
<1> QED BY <1>3, <1>5 DEF NumbersAgree

(* The sequence number of an INSERT is its call process id modulo          *)
(* SeqSpace, however often the counter wraps: the RIC can tell one from    *)
(* the other (generate_e2ap_indication_request_parameterized).             *)
THEOREM OneNumber ==
    ASSUME NoLoop \notin Loop, SeqSpace \in Nat \ {0}
    PROVE  Spec => []NumbersAgree
<1>1. Init => NumbersAgree
  BY DEF Init, NumbersAgree
<1>2. TurnInv /\ NumbersAgree /\ [Next]_vars => NumbersAgree'
  <2> SUFFICES ASSUME TurnInv, NumbersAgree, [Next]_vars PROVE NumbersAgree'
    OBVIOUS
  <2>1. CASE stream' = stream
    BY <2>1 DEF NumbersAgree
  <2>2. ASSUME NEW l \in Loop, Emit(l) PROVE NumbersAgree'
    BY <2>2, EmitNumbers DEF TurnInv
  <2> QED BY <2>1, <2>2 DEF Next, Begin, Retire, Sample, vars
<1> QED BY <1>1, <1>2, TurnInvariance, PTL DEF Spec
=============================================================================

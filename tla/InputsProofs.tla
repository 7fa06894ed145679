---------------------------- MODULE InputsProofs ----------------------------
(***************************************************************************)
(* Theorems about what the program makes of its inputs: the arguments of   *)
(* a command line of any length, the octets of the PLMN identity and the   *)
(* bits of the NR cell identity, and the requests of MCRcSubscription.     *)
(***************************************************************************)
EXTENDS MCInputs, RcSubscriptionProofs

Letters == {"p", "n", "i", "w", "b", "s", "m", "c"}

(* The values that an argument can have.                                   *)
Values == {Default[letter] : letter \in Letters} \cup {Kept(o) : o \in Option} \cup {5}

Arguments == [Letters -> Values]

(* The defaults are values of the arguments.                               *)
LEMMA DefaultType == DOMAIN Default = Letters /\ Default \in Arguments
<1>1. DOMAIN Default = Letters
  BY DEF Default, Letters
<1>2. Default = [letter \in Letters |-> Default[letter]]
  BY DEF Default, Letters
<1> HIDE DEF Default
<1> QED BY <1>1, <1>2 DEF Arguments, Values

(* An option leaves every argument a value.                                *)
LEMMA ReadType ==
    ASSUME NEW a \in Arguments, NEW o \in Option, o.letter \in Letters
    PROVE  Read(a, o) \in Arguments
<1>1. Kept(o) \in Values /\ 5 \in Values
  BY DEF Values
<1>2. "w" \in Letters /\ "n" \in Letters
  BY DEF Letters
<1>3. ReportNeeds(a["n"]) \in Values
  BY <1>1, <1>2 DEF ReportNeeds, Arguments
<1> QED BY <1>1, <1>2, <1>3 DEF Read, Arguments

(* What each argument is after one more option.                            *)
LEMMA ReadSets ==
    ASSUME NEW a \in Arguments, NEW o \in Option, o.letter \in Letters
    PROVE  /\ \A letter \in Letters \ {"n"} :
                  Read(a, o)[letter] = IF o.letter = letter THEN Kept(o) ELSE a[letter]
           /\ Read(a, o)["n"] = IF o.letter = "n" THEN Kept(o)
                                ELSE IF o.letter = "w" THEN ReportNeeds(a["n"]) ELSE a["n"]
<1>1. "w" \in Letters /\ "n" \in Letters
  BY DEF Letters
<1> QED BY <1>1 DEF Read, Arguments

(* The loop of parse_input_options.                                        *)
LEMMA ParseLoop ==
    ASSUME NEW cmd \in Seq(Option), ~Exits(cmd)
    PROVE  \E read :
               /\ read[0] = Default
               /\ \A k \in 1..Len(cmd) : read[k] = Read(read[k-1], cmd[k])
               /\ \A k \in 0..Len(cmd) : read[k] \in Arguments
               /\ Parse(cmd) = read[Len(cmd)]
<1> DEFINE n == Len(cmd)
           Folded(g) == [s \in SUBSET (1..n) |->
                           IF s = {} THEN Default
                           ELSE Read(g[s \ {Max(s)}], cmd[Max(s)])]
           iter == CHOOSE g : g = Folded(g)
           step == [k \in 1..n |-> [a \in Arguments |-> Read(a, cmd[k])]]
<1>1. n \in Nat /\ DOMAIN cmd = 1..n /\ \A k \in 1..n : cmd[k] \in Option
  BY LenProperties
<1>2. \A k \in 1..n : cmd[k].letter \in Letters
  BY <1>1, DefaultType DEF Exits
<1>3. Parse(cmd) = iter[1..n]
  BY <1>1 DEF Parse, FoldLeft, MapThenFoldSet
<1>4. PICK g : FoldsOver(g, Arguments, n, Default, step)
  <2>1. step \in IndexSteps(Arguments, n)
    BY <1>1, <1>2, ReadType DEF IndexSteps
  <2> HIDE DEF n, step
  <2> QED BY <1>1, <2>1, DefaultType, IndexFold
<1>5. g = Folded(g)
  <2>1. ASSUME NEW s \in SUBSET (1..n), s # {}
        PROVE  step[Max(s)][g[s \ {Max(s)}]] = Read(g[s \ {Max(s)}], cmd[Max(s)])
    <3>1. Max(s) \in 1..n
      BY <1>1, <2>1, MaxOfIndices
    <3>2. g[s \ {Max(s)}] \in Arguments
      BY <1>4 DEF FoldsOver
    <3> QED BY <3>1, <3>2
  <2> QED BY <1>4, <2>1 DEF FoldsOver
<1>6. iter = Folded(iter)
  <2> HIDE DEF Folded
  <2> QED BY <1>5
<1> HIDE DEF iter
<1> DEFINE read == [k \in 0..n |-> iter[1..k]]
<1>7. read[0] = Default
  <2>1. 1..0 = {} /\ {} \in SUBSET (1..n)
    OBVIOUS
  <2> QED BY <1>1, <1>6, <2>1
<1>8. ASSUME NEW k \in 1..n PROVE read[k] = Read(read[k-1], cmd[k])
  <2>1. n \in Nat
    BY <1>1
  <2>2. /\ k - 1 \in 0..n /\ k \in 0..n
        /\ 1..k # {} /\ 1..k \in SUBSET (1..n)
        /\ Max(1..k) = k /\ (1..k) \ {k} = 1..k-1
    <3> HIDE DEF n
    <3> QED BY <2>1, MaxOfPrefix
  <2>3. iter[1..k] = Read(iter[1..k-1], cmd[k])
    BY <1>6, <2>2
  <2> QED BY <2>2, <2>3
<1>9. \A k \in 0..n : read[k] \in Arguments
  <2> DEFINE S == {k \in Nat : k <= n => read[k] \in Arguments}
  <2> HIDE DEF read
  <2>1. 0 \in S
    BY <1>7, DefaultType
  <2>2. ASSUME NEW k \in Nat, k \in S PROVE k + 1 \in S
    <3> SUFFICES ASSUME k + 1 <= n PROVE read[k+1] \in Arguments
      OBVIOUS
    <3>1. k + 1 \in 1..n /\ (k + 1) - 1 = k /\ read[k] \in Arguments
      BY <1>1, <2>2
    <3>2. read[k+1] = Read(read[k], cmd[k+1])
      BY <1>8, <3>1
    <3> QED BY <1>1, <1>2, <3>1, <3>2, ReadType
  <2>3. \A k \in Nat : k \in S
    <3> HIDE DEF S
    <3> QED BY <2>1, <2>2, SetInduction
  <2> QED BY <1>1, <2>3
<1>10. Parse(cmd) = read[n]
  BY <1>1, <1>3
<1> HIDE DEF read
<1> QED BY <1>7, <1>8, <1>9, <1>10
-----------------------------------------------------------------------------
(* The options of a letter among the first k of a command line, the value  *)
(* of the last of them, and whether a -w follows all of them.              *)
GivenUpTo(cmd, k, letter) == {j \in 1..k : cmd[j].letter = letter}

Latest(cmd, k, letter) ==
    LET ks == GivenUpTo(cmd, k, letter)
    IN  IF ks = {} THEN Default[letter] ELSE Kept(cmd[LastOf(ks)])

WaitFollows(cmd, k) ==
    \E j \in GivenUpTo(cmd, k, "w") : \A i \in GivenUpTo(cmd, k, "n") : i < j

(* What the loop has set when it has seen k options.                       *)
ArgumentsAfter(cmd, k, a) ==
    /\ \A letter \in Letters \ {"n"} : a[letter] = Latest(cmd, k, letter)
    /\ a["n"] = IF Latest(cmd, k, "n") = UNLIMITED_MESSAGES /\ WaitFollows(cmd, k)
                  THEN 5 ELSE Latest(cmd, k, "n")

(* The last option given is the one that counts.                           *)
LEMMA LatestStep ==
    ASSUME NEW cmd, NEW k \in Nat, NEW letter
    PROVE  Latest(cmd, k + 1, letter) = IF cmd[k+1].letter = letter THEN Kept(cmd[k+1])
                                        ELSE Latest(cmd, k, letter)
<1> DEFINE before == GivenUpTo(cmd, k, letter)
           now == GivenUpTo(cmd, k + 1, letter)
<1>1. CASE cmd[k+1].letter = letter
  <2>1. k + 1 \in now /\ now \subseteq 1..k+1
    BY <1>1 DEF GivenUpTo
  <2>2. \A j \in now : j <= k + 1
    BY <2>1
  <2>3. \A i \in now : (\A j \in now : j <= i) => i = k + 1
    BY <2>1
  <2>4. LastOf(now) = k + 1
    <3> HIDE DEF now
    <3> QED BY <2>1, <2>2, <2>3 DEF LastOf
  <2>5. now # {}
    BY <2>1
  <2> QED BY <1>1, <2>4, <2>5 DEF Latest
<1>2. CASE cmd[k+1].letter # letter
  <2>1. now = before
    BY <1>2 DEF GivenUpTo
  <2> QED BY <1>2, <2>1 DEF Latest
<1> QED BY <1>1, <1>2

(* Whether a -w follows every -n, after one more option.                   *)
LEMMA WaitFollowsStep ==
    ASSUME NEW cmd, NEW k \in Nat
    PROVE  /\ cmd[k+1].letter = "n" => ~WaitFollows(cmd, k + 1)
           /\ cmd[k+1].letter = "w" => WaitFollows(cmd, k + 1)
           /\ cmd[k+1].letter \notin {"n", "w"} =>
                  (WaitFollows(cmd, k + 1) <=> WaitFollows(cmd, k))
<1>1. \A letter : /\ cmd[k+1].letter = letter => k + 1 \in GivenUpTo(cmd, k + 1, letter)
                  /\ cmd[k+1].letter # letter =>
                         GivenUpTo(cmd, k + 1, letter) = GivenUpTo(cmd, k, letter)
                  /\ \A j \in GivenUpTo(cmd, k + 1, letter) : j \in 1..k+1
                  /\ \A j \in GivenUpTo(cmd, k, letter) : j \in 1..k
  BY DEF GivenUpTo
<1>2. ASSUME cmd[k+1].letter = "n" PROVE ~WaitFollows(cmd, k + 1)
  BY <1>1, <1>2 DEF WaitFollows
<1>3. ASSUME cmd[k+1].letter = "w" PROVE WaitFollows(cmd, k + 1)
  <2>1. GivenUpTo(cmd, k + 1, "n") = GivenUpTo(cmd, k, "n")
    BY <1>1, <1>3
  <2> QED BY <1>1, <1>3, <2>1 DEF WaitFollows
<1>4. ASSUME cmd[k+1].letter \notin {"n", "w"}
      PROVE  WaitFollows(cmd, k + 1) <=> WaitFollows(cmd, k)
  BY <1>1, <1>4 DEF WaitFollows
<1> QED BY <1>2, <1>3, <1>4

(* One more option.                                                        *)
LEMMA ArgumentsStep ==
    ASSUME NEW cmd, NEW k \in Nat, cmd[k+1] \in Option, cmd[k+1].letter \in Letters,
           NEW a \in Arguments, ArgumentsAfter(cmd, k, a)
    PROVE  ArgumentsAfter(cmd, k + 1, Read(a, cmd[k+1]))
<1> DEFINE o == cmd[k+1]
<1>1. ASSUME NEW letter \in Letters \ {"n"}
      PROVE  Read(a, o)[letter] = Latest(cmd, k + 1, letter)
  BY LatestStep, ReadSets DEF ArgumentsAfter
<1>2. Read(a, o)["n"] = IF Latest(cmd, k + 1, "n") = UNLIMITED_MESSAGES /\ WaitFollows(cmd, k + 1)
                          THEN 5 ELSE Latest(cmd, k + 1, "n")
  <2>1. Latest(cmd, k + 1, "n") = IF o.letter = "n" THEN Kept(o) ELSE Latest(cmd, k, "n")
    BY LatestStep
  <2>2. Read(a, o)["n"] = IF o.letter = "n" THEN Kept(o)
                          ELSE IF o.letter = "w" THEN ReportNeeds(a["n"]) ELSE a["n"]
    BY ReadSets
  <2>3. CASE o.letter = "n"
    BY <2>1, <2>2, <2>3, WaitFollowsStep
  <2>4. CASE o.letter = "w"
    BY <2>1, <2>2, <2>4, WaitFollowsStep DEF ArgumentsAfter, ReportNeeds, UNLIMITED_MESSAGES
  <2>5. CASE o.letter \notin {"n", "w"}
    BY <2>1, <2>2, <2>5, WaitFollowsStep DEF ArgumentsAfter
  <2> QED BY <2>3, <2>4, <2>5
<1> QED BY <1>1, <1>2 DEF ArgumentsAfter

(* What a command line of any length sets, unless it exits.                *)
LEMMA ParseSets ==
    ASSUME NEW cmd \in Seq(Option), ~Exits(cmd)
    PROVE  Parse(cmd) \in Arguments /\ ArgumentsAfter(cmd, Len(cmd), Parse(cmd))
<1>1. PICK read : /\ read[0] = Default
                  /\ \A k \in 1..Len(cmd) : read[k] = Read(read[k-1], cmd[k])
                  /\ \A k \in 0..Len(cmd) : read[k] \in Arguments
                  /\ Parse(cmd) = read[Len(cmd)]
  BY ParseLoop
<1>2. Len(cmd) \in Nat /\ DOMAIN cmd = 1..Len(cmd) /\ \A k \in 1..Len(cmd) : cmd[k] \in Option
  BY LenProperties
<1>3. \A k \in 1..Len(cmd) : cmd[k].letter \in Letters
  BY <1>2, DefaultType DEF Exits
<1> DEFINE S == {k \in Nat : k <= Len(cmd) => ArgumentsAfter(cmd, k, read[k])}
<1>4. 0 \in S
  <2>1. \A letter : GivenUpTo(cmd, 0, letter) = {}
    BY DEF GivenUpTo
  <2>2. \A letter : Latest(cmd, 0, letter) = Default[letter]
    BY <2>1 DEF Latest
  <2>3. ~WaitFollows(cmd, 0)
    BY <2>1 DEF WaitFollows
  <2> QED BY <1>1, <2>2, <2>3 DEF ArgumentsAfter
<1>5. ASSUME NEW k \in Nat, k \in S PROVE k + 1 \in S
  <2> SUFFICES ASSUME k + 1 <= Len(cmd) PROVE ArgumentsAfter(cmd, k + 1, read[k+1])
    OBVIOUS
  <2>1. k \in 0..Len(cmd) /\ k + 1 \in 1..Len(cmd) /\ (k + 1) - 1 = k
    BY <1>2
  <2>2. read[k] \in Arguments /\ ArgumentsAfter(cmd, k, read[k])
    BY <1>1, <1>5, <2>1
  <2>3. read[k+1] = Read(read[k], cmd[k+1])
    BY <1>1, <2>1
  <2>4. cmd[k+1] \in Option /\ cmd[k+1].letter \in Letters
    BY <1>2, <1>3, <2>1
  <2> QED BY <2>2, <2>3, <2>4, ArgumentsStep
<1>6. \A k \in Nat : k \in S
  <2> HIDE DEF S
  <2> QED BY <1>4, <1>5, SetInduction
<1> QED BY <1>1, <1>2, <1>6
-----------------------------------------------------------------------------
(* Two halves of an octet do not overlap: their bitwise or is their sum.   *)
LEMMA OrOfHalves ==
    ASSUME NEW high \in 0..15, NEW low \in 0..15
    PROVE  Or(16 * high, low) = 16 * high + low
<1> DEFINE a == 16 * high
           bit(w) == IF (a \div w) % 2 = 1 \/ (low \div w) % 2 = 1 THEN w ELSE 0
           lowBit(w) == IF (low \div w) % 2 = 1 THEN w ELSE 0
           highBit(w) == IF (high \div w) % 2 = 1 THEN w ELSE 0
<1>1. bit(1) = lowBit(1) /\ bit(2) = lowBit(2) /\ bit(4) = lowBit(4) /\ bit(8) = lowBit(8)
  <2>1. (a \div 1) % 2 = 0 /\ (a \div 2) % 2 = 0 /\ (a \div 4) % 2 = 0 /\ (a \div 8) % 2 = 0
    OBVIOUS
  <2> QED BY <2>1
<1>2. /\ bit(16) = 16 * highBit(1) /\ bit(32) = 16 * highBit(2)
      /\ bit(64) = 16 * highBit(4) /\ bit(128) = 16 * highBit(8)
  <2>1. low \div 16 = 0 /\ low \div 32 = 0 /\ low \div 64 = 0 /\ low \div 128 = 0
    OBVIOUS
  <2>2. /\ a \div 16 = high \div 1 /\ a \div 32 = high \div 2
        /\ a \div 64 = high \div 4 /\ a \div 128 = high \div 8
    OBVIOUS
  <2> QED BY <2>1, <2>2
<1>3. lowBit(1) + lowBit(2) + lowBit(4) + lowBit(8) = low
  OBVIOUS
<1>4. highBit(1) + highBit(2) + highBit(4) + highBit(8) = high
  OBVIOUS
<1>5. Or(a, low) = bit(1) + bit(2) + bit(4) + bit(8) + bit(16) + bit(32) + bit(64) + bit(128)
  BY DEF Or
<1>6. /\ lowBit(1) \in Nat /\ lowBit(2) \in Nat /\ lowBit(4) \in Nat /\ lowBit(8) \in Nat
      /\ highBit(1) \in Nat /\ highBit(2) \in Nat /\ highBit(4) \in Nat /\ highBit(8) \in Nat
  OBVIOUS
<1> HIDE DEF bit, lowBit, highBit
<1> QED BY <1>1, <1>2, <1>3, <1>4, <1>5, <1>6

(* The halves of an octet can be read back.                                *)
LEMMA OctetOfHalves ==
    ASSUME NEW high \in 0..15, NEW low \in 0..15
    PROVE  /\ OctetOf(high, low) = 16 * high + low
           /\ OctetOf(high, low) % 16 = low
           /\ OctetOf(high, low) \div 16 = high
<1>1. (high * 16) % 256 = 16 * high /\ low % 256 = low
  OBVIOUS
<1>2. OctetOf(high, low) = 16 * high + low
  BY <1>1, OrOfHalves DEF OctetOf
<1> QED BY <1>2

(* atoi() of a digit that nothing follows.                                 *)
LEMMA AtoiDigit ==
    ASSUME NEW d \in 0..9
    PROVE  Atoi(d, <<>>) = d
<1> DEFINE Folded(g) == [s \in SUBSET {} |->
                           IF s = {} THEN d ELSE 10 * g[s \ {Max(s)}] + <<>>[Max(s)]]
           iter == CHOOSE g : g = Folded(g)
<1>1. DOMAIN <<>> = {} /\ d # Other
  BY DEF Other
<1>2. Atoi(d, <<>>) = iter[{}]
  BY <1>1 DEF Atoi, FoldLeft, MapThenFoldSet
<1>3. \E g : g = Folded(g)
  <2>1. [s \in SUBSET {} |-> d] = Folded([s \in SUBSET {} |-> d])
    OBVIOUS
  <2> QED BY <2>1
<1>4. iter = Folded(iter)
  <2> HIDE DEF Folded
  <2> QED BY <1>3
<1> HIDE DEF iter
<1> QED BY <1>2, <1>4

(* Where the elements of three sequences are in their concatenation.       *)
HasThree(all, S, a, b, c) ==
    /\ all \in Seq(S)
    /\ Len(all) = Len(a) + Len(b) + Len(c)
    /\ \A k \in 1..Len(a) : all[k] = a[k]
    /\ \A k \in 1..Len(b) : all[Len(a) + k] = b[k]
    /\ \A k \in 1..Len(c) : all[Len(a) + Len(b) + k] = c[k]

(* They are one after the other.                                           *)
LEMMA ConcatOfThree ==
    ASSUME NEW S, NEW a \in Seq(S), NEW b \in Seq(S), NEW c \in Seq(S)
    PROVE  HasThree(a \o b \o c, S, a, b, c)
<1> DEFINE front == a \o b
           all == front \o c
<1>1. /\ front \in Seq(S) /\ Len(front) = Len(a) + Len(b)
      /\ \A k \in 1..Len(a) + Len(b) :
             front[k] = IF k <= Len(a) THEN a[k] ELSE b[k - Len(a)]
  BY ConcatProperties, Zenon
<1>2. front \in Seq(S)
  BY <1>1
<1>3. Len(a) \in Nat /\ Len(b) \in Nat /\ Len(c) \in Nat
  BY LenProperties
<1> HIDE DEF front
<1>4. /\ all \in Seq(S) /\ Len(all) = Len(front) + Len(c)
      /\ \A k \in 1..Len(front) + Len(c) :
             all[k] = IF k <= Len(front) THEN front[k] ELSE c[k - Len(front)]
  BY <1>2, ConcatProperties, Zenon
<1> HIDE DEF all
<1>5. Len(all) = Len(a) + Len(b) + Len(c)
  BY <1>1, <1>3, <1>4
<1>6. ASSUME NEW k \in 1..Len(a) PROVE all[k] = a[k]
  <2>1. k \in 1..Len(a) + Len(b) /\ k \in 1..Len(front) + Len(c) /\ k <= Len(a) /\ k <= Len(front)
    BY <1>1, <1>3
  <2> QED BY <1>1, <1>4, <2>1
<1>7. ASSUME NEW k \in 1..Len(b) PROVE all[Len(a) + k] = b[k]
  <2>1. /\ Len(a) + k \in 1..Len(a) + Len(b) /\ Len(a) + k \in 1..Len(front) + Len(c)
        /\ ~(Len(a) + k <= Len(a)) /\ Len(a) + k <= Len(front)
        /\ (Len(a) + k) - Len(a) = k
    BY <1>1, <1>3
  <2> QED BY <1>1, <1>4, <2>1
<1>8. ASSUME NEW k \in 1..Len(c) PROVE all[Len(a) + Len(b) + k] = c[k]
  <2>1. /\ Len(a) + Len(b) + k \in 1..Len(front) + Len(c)
        /\ ~(Len(a) + Len(b) + k <= Len(front))
        /\ (Len(a) + Len(b) + k) - Len(front) = k
    BY <1>1, <1>3
  <2> QED BY <1>1, <1>4, <2>1
<1>9. HasThree(all, S, a, b, c)
  BY <1>4, <1>5, <1>6, <1>7, <1>8 DEF HasThree
<1> QED BY <1>9 DEF all, front

(* Every string of digits that the constructor accepts can be read off the *)
(* octets of the PLMN identity (encoding::encodePlmnId).                   *)
THEOREM HalvesOfPlmn ==
    ASSUME NEW mcc \in Seq(0..9), Len(mcc) = 3, NEW mnc \in Seq(0..9), Len(mnc) \in {2, 3}
    PROVE  Halves(Plmn(mcc, mnc, <<>>)) =
               mcc \o (IF Len(mnc) = 2 THEN <<15>> ELSE <<>>) \o mnc
<1> DEFINE filler == IF Len(mnc) = 2 THEN <<15>> ELSE <<>>
           all == mcc \o filler \o mnc
           octets == Plmn(mcc, mnc, <<>>)
           o(k) == octets[(k + 1) \div 2]
           half(k) == IF k % 2 = 1 THEN o(k) % 16 ELSE o(k) \div 16
<1>1. /\ mcc[1] \in 0..9 /\ mcc[2] \in 0..9 /\ mcc[3] \in 0..9
      /\ mnc[1] \in 0..9 /\ mnc[2] \in 0..9
      /\ Len(mnc) = 3 => mnc[3] \in 0..9
  OBVIOUS
<1>2. /\ mcc \in Seq(0..15) /\ mnc \in Seq(0..15) /\ filler \in Seq(0..15)
      /\ Len(filler) = 3 - Len(mnc) /\ \A k \in 1..Len(filler) : filler[k] = 15
  <2>1. mcc \in Seq(0..15) /\ mnc \in Seq(0..15)
    BY 0..9 \subseteq 0..15, SeqMonotonic
  <2>2. <<15>> \in Seq(0..15) /\ Len(<<15>>) = 1 /\ <<15>>[1] = 15
    OBVIOUS
  <2>3. <<>> \in Seq(0..15) /\ Len(<<>>) = 0
    OBVIOUS
  <2>4. CASE Len(mnc) = 2
    BY <2>1, <2>2, <2>4
  <2>5. CASE Len(mnc) = 3
    BY <2>1, <2>3, <2>5
  <2> QED BY <2>4, <2>5
<1> HIDE DEF filler
<1>3. /\ all \in Seq(0..15)
      /\ Len(all) = Len(mcc) + Len(filler) + Len(mnc)
      /\ \A k \in 1..Len(mcc) : all[k] = mcc[k]
      /\ \A k \in 1..Len(filler) : all[Len(mcc) + k] = filler[k]
      /\ \A k \in 1..Len(mnc) : all[Len(mcc) + Len(filler) + k] = mnc[k]
  <2>1. mcc \in Seq(0..15)
    BY <1>2
  <2>2. mnc \in Seq(0..15)
    BY <1>2
  <2>3. filler \in Seq(0..15)
    BY <1>2
  <2>4. HasThree(mcc \o filler \o mnc, 0..15, mcc, filler, mnc)
    BY <2>1, <2>2, <2>3, ConcatOfThree
  <2>5. HasThree(all, 0..15, mcc, filler, mnc)
    BY <2>4
  <2> HIDE DEF all
  <2> QED BY <2>5 DEF HasThree
<1> HIDE DEF all
<1>4. /\ octets = IF Len(mnc) = 3
                    THEN <<OctetOf(mcc[2], mcc[1]), OctetOf(mnc[1], mcc[3]),
                           OctetOf(mnc[3], mnc[2])>>
                    ELSE <<OctetOf(mcc[2], mcc[1]), OctetOf(15, mcc[3]),
                           OctetOf(mnc[2], mnc[1])>>
  BY <1>1, AtoiDigit DEF Plmn
<1>5. Len(octets) = 3 /\ Halves(octets) = [k \in 1..6 |-> half(k)]
  <2>1. Len(octets) = 3 /\ 2 * 3 = 6
    <3> HIDE DEF octets
    <3> QED BY <1>4
  <2> HIDE DEF octets
  <2> QED BY <2>1 DEF Halves
<1> HIDE DEF octets
<1>6. /\ half(1) = mcc[1] /\ half(2) = mcc[2] /\ half(3) = mcc[3]
      /\ half(4) = IF Len(mnc) = 3 THEN mnc[1] ELSE 15
      /\ half(5) = IF Len(mnc) = 3 THEN mnc[2] ELSE mnc[1]
      /\ half(6) = IF Len(mnc) = 3 THEN mnc[3] ELSE mnc[2]
  <2>1. \A h \in 0..15, l \in 0..15 : OctetOf(h, l) % 16 = l /\ OctetOf(h, l) \div 16 = h
    BY OctetOfHalves
  <2>2. \A d \in 0..9 : d \in 0..15
    OBVIOUS
  <2>3. half(1) = mcc[1] /\ half(2) = mcc[2]
    <3>1. half(1) = octets[1] % 16 /\ half(2) = octets[1] \div 16
      OBVIOUS
    <3>2. octets[1] = OctetOf(mcc[2], mcc[1])
      BY <1>4
    <3> HIDE DEF half
    <3> QED BY <1>1, <2>1, <2>2, <3>1, <3>2
  <2>4. half(3) = mcc[3] /\ half(4) = IF Len(mnc) = 3 THEN mnc[1] ELSE 15
    <3>1. half(3) = octets[2] % 16 /\ half(4) = octets[2] \div 16
      OBVIOUS
    <3>2. octets[2] = OctetOf(IF Len(mnc) = 3 THEN mnc[1] ELSE 15, mcc[3])
      BY <1>4
    <3>3. (IF Len(mnc) = 3 THEN mnc[1] ELSE 15) \in 0..15
      BY <1>1, <2>2
    <3>4. mcc[3] \in 0..15
      BY <1>1, <2>2
    <3>5. octets[2] % 16 = mcc[3] /\ octets[2] \div 16 = IF Len(mnc) = 3 THEN mnc[1] ELSE 15
      <4> DEFINE upper == IF Len(mnc) = 3 THEN mnc[1] ELSE 15
      <4>1. upper \in 0..15 /\ octets[2] = OctetOf(upper, mcc[3])
        BY <3>2, <3>3
      <4>2. octets[2] % 16 = mcc[3] /\ octets[2] \div 16 = upper
        <5> DEFINE low == mcc[3]
        <5>1. upper \in 0..15 /\ low \in 0..15
          BY <3>4, <4>1
        <5> HIDE DEF upper, low
        <5>2. OctetOf(upper, low) % 16 = low /\ OctetOf(upper, low) \div 16 = upper
          BY <5>1, OctetOfHalves
        <5>3. octets[2] = OctetOf(upper, low)
          BY <4>1 DEF low
        <5> QED BY <5>2, <5>3, Zenon DEF low
      <4> QED BY <4>2
    <3> HIDE DEF half
    <3> QED BY <3>1, <3>5
  <2>5. half(5) = octets[3] % 16 /\ half(6) = octets[3] \div 16
    OBVIOUS
  <2>6. octets[3] = IF Len(mnc) = 3 THEN OctetOf(mnc[3], mnc[2]) ELSE OctetOf(mnc[2], mnc[1])
    BY <1>4
  <2>7. /\ half(5) = IF Len(mnc) = 3 THEN mnc[2] ELSE mnc[1]
        /\ half(6) = IF Len(mnc) = 3 THEN mnc[3] ELSE mnc[2]
    <3> HIDE DEF half
    <3>1. CASE Len(mnc) = 2
      BY <1>1, <2>1, <2>2, <2>5, <2>6, <3>1
    <3>2. CASE Len(mnc) = 3
      BY <1>1, <2>1, <2>2, <2>5, <2>6, <3>2
    <3> QED BY <3>1, <3>2
  <2> QED BY <2>3, <2>4, <2>7
<1> HIDE DEF half
<1>7. /\ Len(all) = 6
      /\ all[1] = mcc[1] /\ all[2] = mcc[2] /\ all[3] = mcc[3]
      /\ all[4] = IF Len(mnc) = 3 THEN mnc[1] ELSE 15
      /\ all[5] = IF Len(mnc) = 3 THEN mnc[2] ELSE mnc[1]
      /\ all[6] = IF Len(mnc) = 3 THEN mnc[3] ELSE mnc[2]
  <2>1. \A k \in 1..3 : all[k] = mcc[k]
    BY <1>3
  <2>2. all[1] = mcc[1] /\ all[2] = mcc[2] /\ all[3] = mcc[3]
    BY <2>1
  <2>3. CASE Len(mnc) = 2
    <3>1. Len(filler) = 1 /\ filler[1] = 15
      BY <1>2, <2>3
    <3>2. all[3 + 1] = filler[1] /\ all[3 + 1 + 1] = mnc[1] /\ all[3 + 1 + 2] = mnc[2]
      BY <1>3, <2>3, <3>1
    <3>3. Len(all) = 6
      BY <1>3, <2>3, <3>1
    <3> QED BY <2>2, <2>3, <3>1, <3>2, <3>3
  <2>4. CASE Len(mnc) = 3
    <3>1. Len(filler) = 0
      BY <1>2, <2>4
    <3>2. all[3 + 0 + 1] = mnc[1] /\ all[3 + 0 + 2] = mnc[2] /\ all[3 + 0 + 3] = mnc[3]
      BY <1>3, <2>4, <3>1
    <3>3. Len(all) = 6
      BY <1>3, <2>4, <3>1
    <3> QED BY <2>2, <2>4, <3>2, <3>3
  <2> QED BY <2>3, <2>4
<1>8. \A k \in 1..6 : half(k) = all[k]
  <2>1. \A k \in 1..6 : k \in {1, 2, 3, 4, 5, 6}
    OBVIOUS
  <2> QED BY <1>6, <1>7, <2>1
<1>9. all = [k \in 1..6 |-> all[k]]
  BY <1>3, <1>7, LenProperties
<1>10. Halves(octets) = all
  BY <1>5, <1>8, <1>9
<1> QED BY <1>10 DEF octets, all, filler
(* No two networks have the same PLMN identity: the octets of two strings  *)
(* of digits that the constructor accepts differ (encoding::encodePlmnId). *)
THEOREM PlmnNamesOneNetwork ==
    ASSUME NEW mcc1 \in Seq(0..9), Len(mcc1) = 3,
           NEW mnc1 \in Seq(0..9), Len(mnc1) \in {2, 3},
           NEW mcc2 \in Seq(0..9), Len(mcc2) = 3,
           NEW mnc2 \in Seq(0..9), Len(mnc2) \in {2, 3},
           Plmn(mcc1, mnc1, <<>>) = Plmn(mcc2, mnc2, <<>>)
    PROVE  mcc1 = mcc2 /\ mnc1 = mnc2
<1> DEFINE Filler(mnc) == IF Len(mnc) = 2 THEN <<15>> ELSE <<>>
           all(mcc, mnc) == mcc \o Filler(mnc) \o mnc
<1>1. all(mcc1, mnc1) = all(mcc2, mnc2)
  BY HalvesOfPlmn
<1>2. ASSUME NEW mcc \in Seq(0..9), Len(mcc) = 3, NEW mnc \in Seq(0..9), Len(mnc) \in {2, 3}
      PROVE  /\ \A k \in 1..3 : all(mcc, mnc)[k] = mcc[k]
             /\ Len(mnc) = 2 => all(mcc, mnc)[4] = 15
             /\ Len(mnc) = 3 => all(mcc, mnc)[4] = mnc[1]
             /\ \A k \in 1..Len(mnc) : all(mcc, mnc)[6 - Len(mnc) + k] = mnc[k]
  <2>1. mcc \in Seq(Nat)
    BY <1>2, 0..9 \subseteq Nat, SeqMonotonic
  <2>2. mnc \in Seq(Nat)
    BY <1>2, 0..9 \subseteq Nat, SeqMonotonic
  <2>3. Filler(mnc) \in Seq(Nat)
    OBVIOUS
  <2>4. Len(Filler(mnc)) = 3 - Len(mnc) /\ \A k \in 1..Len(Filler(mnc)) : Filler(mnc)[k] = 15
    <3>1. Len(<<15>>) = 1 /\ <<15>>[1] = 15 /\ Len(<<>>) = 0
      OBVIOUS
    <3>2. CASE Len(mnc) = 2
      BY <3>1, <3>2
    <3>3. CASE Len(mnc) = 3
      BY <3>1, <3>3
    <3> QED BY <1>2, <3>2, <3>3
  <2> DEFINE filler == Filler(mnc)
  <2> HIDE DEF filler
  <2>5. HasThree(mcc \o filler \o mnc, Nat, mcc, filler, mnc)
    <3>1. filler \in Seq(Nat)
      BY <2>3 DEF filler
    <3> QED BY <2>1, <2>2, <3>1, ConcatOfThree
  <2>6. HasThree(all(mcc, mnc), Nat, mcc, Filler(mnc), mnc)
    BY <2>5 DEF filler
  <2> DEFINE whole == all(mcc, mnc)
  <2> HIDE DEF Filler, whole
  <2>7. /\ \A k \in 1..Len(mcc) : whole[k] = mcc[k]
        /\ \A k \in 1..Len(Filler(mnc)) : whole[Len(mcc) + k] = Filler(mnc)[k]
        /\ \A k \in 1..Len(mnc) : whole[Len(mcc) + Len(Filler(mnc)) + k] = mnc[k]
    BY <2>6 DEF HasThree, whole
  <2>8. Len(mnc) \in {2, 3} /\ Len(mcc) = 3
    BY <1>2
  <2>9. Len(mnc) = 2 => whole[4] = 15
    <3> SUFFICES ASSUME Len(mnc) = 2 PROVE whole[4] = 15
      OBVIOUS
    <3>1. 1 \in 1..Len(Filler(mnc)) /\ Len(mcc) + 1 = 4
      BY <2>4, <2>8
    <3> QED BY <2>4, <2>7, <3>1
  <2>10. Len(mnc) = 3 => whole[4] = mnc[1]
    <3> SUFFICES ASSUME Len(mnc) = 3 PROVE whole[4] = mnc[1]
      OBVIOUS
    <3>1. 1 \in 1..Len(mnc) /\ Len(mcc) + Len(Filler(mnc)) + 1 = 4
      BY <2>4, <2>8
    <3> QED BY <2>7, <3>1
  <2>11. \A k \in 1..Len(mnc) : whole[6 - Len(mnc) + k] = mnc[k]
    <3> SUFFICES ASSUME NEW k \in 1..Len(mnc) PROVE whole[6 - Len(mnc) + k] = mnc[k]
      OBVIOUS
    <3>1. Len(mcc) + Len(Filler(mnc)) + k = 6 - Len(mnc) + k
      BY <2>4, <2>8
    <3> QED BY <2>7, <3>1
  <2> QED BY <2>7, <2>8, <2>9, <2>10, <2>11 DEF whole
<1> HIDE DEF all
<1>3. mcc1 = mcc2
  <2>1. \A k \in 1..3 : mcc1[k] = mcc2[k]
    BY <1>1, <1>2
  <2> QED BY <2>1, SeqEqual
<1>4. Len(mnc1) = Len(mnc2)
  <2>1. /\ Len(mnc1) = 3 => mnc1[1] \in 0..9
        /\ Len(mnc2) = 3 => mnc2[1] \in 0..9
    OBVIOUS
  <2>2. /\ Len(mnc1) = 2 => all(mcc1, mnc1)[4] = 15
        /\ Len(mnc1) = 3 => all(mcc1, mnc1)[4] = mnc1[1]
    BY <1>2
  <2>3. /\ Len(mnc2) = 2 => all(mcc2, mnc2)[4] = 15
        /\ Len(mnc2) = 3 => all(mcc2, mnc2)[4] = mnc2[1]
    BY <1>2
  <2> QED BY <1>1, <2>1, <2>2, <2>3
<1>5. mnc1 = mnc2
  <2>1. \A k \in 1..Len(mnc1) : all(mcc1, mnc1)[6 - Len(mnc1) + k] = mnc1[k]
    BY <1>2
  <2>2. \A k \in 1..Len(mnc2) : all(mcc2, mnc2)[6 - Len(mnc2) + k] = mnc2[k]
    BY <1>2
  <2>3. \A k \in 1..Len(mnc1) : mnc1[k] = mnc2[k]
    BY <1>1, <1>4, <2>1, <2>2
  <2> QED BY <1>4, <2>3, SeqEqual
<1> QED BY <1>3, <1>5
-----------------------------------------------------------------------------
Octet == 0..255

(* A function on 1..n is a sequence.                                       *)
LEMMA TupleIsSeq ==
    ASSUME NEW S, NEW n \in Nat, NEW f \in [1..n -> S]
    PROVE  f \in Seq(S) /\ Len(f) = n
OBVIOUS

(* Four octets are a sequence.                                             *)
LEMMA FourIsSeq ==
    ASSUME NEW S, NEW f \in [1..4 -> S]
    PROVE  f \in Seq(S) /\ Len(f) = 4
BY TupleIsSeq

(* The r-th bit of an octet, the first one the most significant.           *)
OctetBit(o, r) == (o \div Weight[r]) % 2

(* Which octet has the k-th bit, and at which place.                       *)
OctetNo(k) == (k + 7) \div 8

BitNo(k) == 1 + ((k - 1) % 8)

(* The k-th bit of a sequence of octets.                                   *)
LEMMA BitsAt ==
    ASSUME NEW octets, NEW k \in 1..8 * Len(octets)
    PROVE  Bits(octets)[k] = OctetBit(octets[OctetNo(k)], BitNo(k))
BY DEF Bits, OctetBit, OctetNo, BitNo

(* Three positions further on in a sequence of octets.                     *)
LEMMA ThreeFurther ==
    ASSUME NEW k \in 1..29
    PROVE  /\ OctetNo(k) \in 1..4
           /\ \/ /\ BitNo(k) \in 1..5
                 /\ OctetNo(k + 3) = OctetNo(k) /\ BitNo(k + 3) = BitNo(k) + 3
              \/ /\ BitNo(k) \in 6..8 /\ OctetNo(k) \in 1..3
                 /\ OctetNo(k + 3) = OctetNo(k) + 1 /\ BitNo(k + 3) = BitNo(k) - 5
<1>1. BitNo(k) \in 1..8 /\ OctetNo(k) \in 1..4
  BY DEF BitNo, OctetNo
<1>2. ASSUME BitNo(k) <= 5
      PROVE  OctetNo(k + 3) = OctetNo(k) /\ BitNo(k + 3) = BitNo(k) + 3
  BY <1>2 DEF BitNo, OctetNo
<1>3. ASSUME BitNo(k) > 5
      PROVE  /\ OctetNo(k) \in 1..3
             /\ OctetNo(k + 3) = OctetNo(k) + 1 /\ BitNo(k + 3) = BitNo(k) - 5
  BY <1>3 DEF BitNo, OctetNo
<1> QED BY <1>1, <1>2, <1>3

(* An octet shifted to the left by three, with the upper bits of the next. *)
Shifted(x, y) == ((x * 8) % 256) + y

(* Each bit moves up by three places; the last three are those of y.       *)
LEMMA ShiftedOctet ==
    ASSUME NEW x \in Octet, NEW y \in 0..7
    PROVE  /\ Shifted(x, y) \in Octet
           /\ \A r \in 1..5 : OctetBit(Shifted(x, y), r) = OctetBit(x, r + 3)
           /\ \A r \in 6..8 : OctetBit(Shifted(x, y), r) = OctetBit(y, r)
<1> USE DEF Octet
<1> DEFINE o == ((x * 8) % 256) + y
<1>1. o \in Octet
  OBVIOUS
<1>2. /\ (o \div 128) % 2 = (x \div 16) % 2
      /\ (o \div 64) % 2 = (x \div 8) % 2
      /\ (o \div 32) % 2 = (x \div 4) % 2
      /\ (o \div 16) % 2 = (x \div 2) % 2
      /\ (o \div 8) % 2 = (x \div 1) % 2
  <2> DEFINE q == x % 32
  <2>1. q \in 0..31 /\ o = 8 * q + y
    OBVIOUS
  <2>2. /\ (x \div 16) % 2 = (q \div 16) % 2 /\ (x \div 8) % 2 = (q \div 8) % 2
        /\ (x \div 4) % 2 = (q \div 4) % 2 /\ (x \div 2) % 2 = (q \div 2) % 2
        /\ (x \div 1) % 2 = (q \div 1) % 2
    OBVIOUS
  <2> HIDE DEF q, o
  <2>3. /\ o \div 128 = q \div 16 /\ o \div 64 = q \div 8 /\ o \div 32 = q \div 4
        /\ o \div 16 = q \div 2 /\ o \div 8 = q \div 1
    BY <2>1
  <2> QED BY <2>2, <2>3
<1>3. /\ (o \div 4) % 2 = (y \div 4) % 2
      /\ (o \div 2) % 2 = (y \div 2) % 2
      /\ (o \div 1) % 2 = (y \div 1) % 2
  OBVIOUS
<1>4. \A r \in 1..5 : OctetBit(o, r) = OctetBit(x, r + 3)
  <2>1. \A r \in 1..5 : r \in {1, 2, 3, 4, 5}
    OBVIOUS
  <2>2. /\ OctetBit(o, 1) = OctetBit(x, 4) /\ OctetBit(o, 2) = OctetBit(x, 5)
        /\ OctetBit(o, 3) = OctetBit(x, 6) /\ OctetBit(o, 4) = OctetBit(x, 7)
        /\ OctetBit(o, 5) = OctetBit(x, 8)
    <3> HIDE DEF o
    <3> QED BY <1>2 DEF OctetBit, Weight
  <2> HIDE DEF o
  <2> QED BY <2>1, <2>2
<1>5. \A r \in 6..8 : OctetBit(o, r) = OctetBit(y, r)
  <2>1. \A r \in 6..8 : r \in {6, 7, 8}
    OBVIOUS
  <2> HIDE DEF o
  <2> QED BY <1>3, <2>1 DEF OctetBit, Weight
<1> QED BY <1>1, <1>4, <1>5 DEF Shifted

(* The upper three bits of an octet.                                       *)
Upper(x) == x \div 32

(* They are its first three.                                               *)
LEMMA UpperBits ==
    ASSUME NEW x \in Octet
    PROVE  Upper(x) \in 0..7 /\ \A r \in 6..8 : OctetBit(Upper(x), r) = OctetBit(x, r - 5)
<1> USE DEF Octet
<1>1. Upper(x) \in 0..7
  BY DEF Upper
<1>2. /\ ((x \div 32) \div 4) % 2 = (x \div 128) % 2
      /\ ((x \div 32) \div 2) % 2 = (x \div 64) % 2
      /\ ((x \div 32) \div 1) % 2 = (x \div 32) % 2
  OBVIOUS
<1>3. \A r \in 6..8 : r \in {6, 7, 8}
  OBVIOUS
<1>4. \A r \in 6..8 : OctetBit(Upper(x), r) = OctetBit(x, r - 5)
  BY <1>2, <1>3 DEF OctetBit, Weight, Upper
<1> QED BY <1>1, <1>4

(* The first three bits of the cell identity in what an id shifted to the  *)
(* left by three leaves free.                                              *)
LEMMA OrOfSeven ==
    ASSUME NEW t \in 0..31
    PROVE  Or(8 * t, 7) = 8 * t + 7
<1> DEFINE a == 8 * t
           bit(w) == IF (a \div w) % 2 = 1 \/ (7 \div w) % 2 = 1 THEN w ELSE 0
           tBit(w) == IF (t \div w) % 2 = 1 THEN w ELSE 0
<1>1. bit(1) = 1 /\ bit(2) = 2 /\ bit(4) = 4
  <2>1. (7 \div 1) % 2 = 1 /\ (7 \div 2) % 2 = 1 /\ (7 \div 4) % 2 = 1
    OBVIOUS
  <2> QED BY <2>1
<1>2. /\ bit(8) = 8 * tBit(1) /\ bit(16) = 8 * tBit(2) /\ bit(32) = 8 * tBit(4)
      /\ bit(64) = 8 * tBit(8) /\ bit(128) = 8 * tBit(16)
  <2>1. 7 \div 8 = 0 /\ 7 \div 16 = 0 /\ 7 \div 32 = 0 /\ 7 \div 64 = 0 /\ 7 \div 128 = 0
    OBVIOUS
  <2>2. /\ a \div 8 = t \div 1 /\ a \div 16 = t \div 2 /\ a \div 32 = t \div 4
        /\ a \div 64 = t \div 8 /\ a \div 128 = t \div 16
    OBVIOUS
  <2> QED BY <2>1, <2>2
<1>3. tBit(1) + tBit(2) + tBit(4) + tBit(8) + tBit(16) = t
  OBVIOUS
<1>4. Or(a, 7) = bit(1) + bit(2) + bit(4) + bit(8) + bit(16) + bit(32) + bit(64) + bit(128)
  BY DEF Or
<1>5. /\ tBit(1) \in Nat /\ tBit(2) \in Nat /\ tBit(4) \in Nat /\ tBit(8) \in Nat
      /\ tBit(16) \in Nat
  OBVIOUS
<1> HIDE DEF bit, tBit
<1> QED BY <1>1, <1>2, <1>3, <1>4, <1>5

(* The bitwise or with the upper bits of the cell id, which fill what the  *)
(* shift has left.                                                         *)
LEMMA OrShifted ==
    ASSUME NEW x \in Octet
    PROVE  Or(Shifted(x, 0), 7) = Shifted(x, 7)
<1>1. x % 32 \in 0..31 /\ (x * 8) % 256 = 8 * (x % 32)
  BY DEF Octet
<1>2. Shifted(x, 0) = 8 * (x % 32) /\ Shifted(x, 7) = 8 * (x % 32) + 7
  BY <1>1 DEF Shifted
<1> QED BY <1>1, <1>2, OrOfSeven

(* The identities that the constructor accepts, octet by octet.            *)
LEMMA CellOctets ==
    ASSUME NEW id \in [1..4 -> Octet], id[1] < 32
    PROVE  LET gnb  == GlobalId(id)
               cell == NRCellIdentity(id)
           IN  /\ Len(gnb) = 4 /\ Len(cell) = 5
               /\ \A i \in 1..3 : gnb[i] = Shifted(id[i], Upper(id[i+1])) /\ cell[i] = gnb[i]
               /\ gnb[4] = Shifted(id[4], 0)
               /\ cell[4] = Shifted(id[4], 7)
               /\ cell[5] = 240
<1> DEFINE gnb == GlobalId(id)
           cell == NRCellIdentity(id)
           kept == [id EXCEPT ![1] = @ % 32]
           front == [gnb EXCEPT ![4] = Or(@, (CellId % 128) \div 16)]
<1>1. kept = id
  <2>1. id[1] % 32 = id[1]
    <3>1. id[1] \in Octet
      BY 1 \in 1..4
    <3> QED BY <3>1 DEF Octet
  <2> QED BY <2>1
<1>2. gnb = [i \in 1..4 |-> ((id[i] * 8) % 256) + (IF i < 4 THEN id[i+1] \div 32 ELSE 0)]
  BY <1>1 DEF GlobalId
<1>3. \A i \in 1..3 : gnb[i] = Shifted(id[i], Upper(id[i+1]))
  BY <1>2 DEF Shifted, Upper
<1>4. gnb[4] = Shifted(id[4], 0)
  BY <1>2 DEF Shifted
<1>5. DOMAIN gnb = 1..4 /\ gnb = [i \in 1..4 |-> gnb[i]]
  BY <1>2
<1> HIDE DEF gnb
<1>6. (CellId % 128) \div 16 = 7 /\ (CellId % 16) * 16 = 240
  BY DEF CellId
<1>7. \A i \in 1..4 : gnb[i] \in Octet
  <2>1. ASSUME NEW i \in 1..3 PROVE gnb[i] \in Octet
    <3>1. id[i] \in Octet /\ id[i+1] \in Octet
      BY i \in 1..4, i + 1 \in 1..4
    <3>2. Upper(id[i+1]) \in 0..7
      BY <3>1, UpperBits
    <3> QED BY <1>3, <3>1, <3>2, ShiftedOctet
  <2>2. gnb[4] \in Octet
    BY <1>4, 4 \in 1..4, 0 \in 0..7, ShiftedOctet
  <2>3. \A i \in 1..4 : i \in 1..3 \/ i = 4
    OBVIOUS
  <2> QED BY <2>1, <2>2, <2>3
<1>8. Or(gnb[4], 7) = Shifted(id[4], 7) /\ Shifted(id[4], 7) \in Octet
  BY <1>4, 4 \in 1..4, 7 \in 0..7, OrShifted, ShiftedOctet
<1>9. /\ front = [i \in 1..4 |-> IF i = 4 THEN Shifted(id[4], 7) ELSE gnb[i]]
  BY <1>5, <1>6, <1>8
<1>10. gnb \in [1..4 -> Octet] /\ front \in [1..4 -> Octet]
  <2>1. gnb \in [1..4 -> Octet]
    BY <1>5, <1>7
  <2> HIDE DEF front
  <2>2. front \in [1..4 -> Octet]
    BY <1>7, <1>8, <1>9
  <2> QED BY <2>1, <2>2
<1>11. cell = Append(front, 240)
  BY <1>6 DEF NRCellIdentity, gnb
<1>12. /\ front[4] = Shifted(id[4], 7)
       /\ \A i \in 1..3 : front[i] = gnb[i]
  <2> HIDE DEF front
  <2> QED BY <1>9
<1> HIDE DEF front, cell
<1>13. gnb \in Seq(Octet) /\ Len(gnb) = 4
  BY <1>10, FourIsSeq
<1>14. front \in Seq(Octet) /\ Len(front) = 4
  BY <1>10, FourIsSeq
<1>15. Len(cell) = 5 /\ cell[5] = 240 /\ \A i \in 1..4 : cell[i] = front[i]
  <2>1. 240 \in Octet
    BY DEF Octet
  <2>2. /\ Len(Append(front, 240)) = Len(front) + 1
        /\ Append(front, 240)[Len(front) + 1] = 240
        /\ \A i \in 1..Len(front) : Append(front, 240)[i] = front[i]
    <3>1. front \in Seq(Octet)
      BY <1>14
    <3> DEFINE last == 240
    <3>2. last \in Octet
      BY <2>1
    <3> HIDE DEF last
    <3>3. /\ Len(Append(front, last)) = Len(front) + 1
          /\ Append(front, last)[Len(front) + 1] = last
          /\ \A i \in 1..Len(front) : Append(front, last)[i] = front[i]
      BY <3>1, <3>2, AppendProperties
    <3> QED BY <3>3 DEF last
  <2> QED BY <1>11, <1>14, <2>2
<1>16. cell[4] = Shifted(id[4], 7) /\ \A i \in 1..3 : cell[i] = gnb[i]
  BY <1>12, <1>15
<1> QED BY <1>3, <1>4, <1>13, <1>15, <1>16 DEF gnb, cell

(* The 29 bits of an id and the seven of the cell, in the bits of an NR    *)
(* cell identity.                                                          *)
LEMMA BitsOfCell ==
    ASSUME NEW id \in [1..4 -> Octet], id[1] < 32
    PROVE  LET cell == Bits(NRCellIdentity(id))
           IN  /\ \A k \in 1..29 : cell[k] = Bits(id)[k+3] /\ cell[k] = Bits(GlobalId(id))[k]
               /\ \A k \in 30..36 : cell[k] = 1
<1> DEFINE gnb == GlobalId(id)
           cell == NRCellIdentity(id)
<1>1. /\ Len(gnb) = 4 /\ Len(cell) = 5
      /\ \A i \in 1..3 : gnb[i] = Shifted(id[i], Upper(id[i+1])) /\ cell[i] = gnb[i]
      /\ gnb[4] = Shifted(id[4], 0)
      /\ cell[4] = Shifted(id[4], 7)
      /\ cell[5] = 240
  BY CellOctets
<1> HIDE DEF gnb, cell
<1>2. \A i \in 1..4 : id[i] \in Octet
  OBVIOUS
<1>3. ASSUME NEW i \in 1..4, NEW r \in 1..5
      PROVE  /\ OctetBit(cell[i], r) = OctetBit(id[i], r + 3)
             /\ OctetBit(gnb[i], r) = OctetBit(id[i], r + 3)
  <2>1. CASE i \in 1..3
    <3>1. id[i] \in Octet /\ Upper(id[i+1]) \in 0..7
      BY <2>1, i + 1 \in 1..4, UpperBits
    <3>2. OctetBit(gnb[i], r) = OctetBit(id[i], r + 3)
      BY <1>1, <2>1, <3>1, ShiftedOctet
    <3> QED BY <1>1, <2>1, <3>2
  <2>2. CASE i = 4
    <3>1. id[4] \in Octet /\ 0 \in 0..7 /\ 7 \in 0..7
      BY 4 \in 1..4
    <3>2. OctetBit(gnb[4], r) = OctetBit(id[4], r + 3)
      BY <1>1, <3>1, ShiftedOctet
    <3>3. OctetBit(cell[4], r) = OctetBit(id[4], r + 3)
      BY <1>1, <3>1, ShiftedOctet
    <3> QED BY <2>2, <3>2, <3>3
  <2> QED BY <2>1, <2>2
<1>4. ASSUME NEW i \in 1..3, NEW r \in 6..8
      PROVE  /\ OctetBit(cell[i], r) = OctetBit(id[i+1], r - 5)
             /\ OctetBit(gnb[i], r) = OctetBit(id[i+1], r - 5)
  <2>1. id[i] \in Octet /\ id[i+1] \in Octet
    BY i \in 1..4, i + 1 \in 1..4
  <2>2. Upper(id[i+1]) \in 0..7 /\ OctetBit(Upper(id[i+1]), r) = OctetBit(id[i+1], r - 5)
    BY <2>1, UpperBits
  <2>3. OctetBit(gnb[i], r) = OctetBit(Upper(id[i+1]), r)
    BY <1>1, <2>1, <2>2, ShiftedOctet
  <2> QED BY <1>1, <2>2, <2>3
<1>5. ASSUME NEW k \in 1..29
      PROVE  Bits(cell)[k] = Bits(id)[k+3] /\ Bits(cell)[k] = Bits(gnb)[k]
  <2>1. k \in 1..8 * Len(cell) /\ k \in 1..8 * Len(gnb) /\ k + 3 \in 1..8 * Len(id)
    <3>1. Len(id) = 4
      BY FourIsSeq
    <3> QED BY <1>1, <3>1
  <2>2. Bits(cell)[k] = OctetBit(cell[OctetNo(k)], BitNo(k))
    BY <2>1, BitsAt
  <2>3. Bits(gnb)[k] = OctetBit(gnb[OctetNo(k)], BitNo(k))
    BY <2>1, BitsAt
  <2>4. Bits(id)[k+3] = OctetBit(id[OctetNo(k + 3)], BitNo(k + 3))
    BY <2>1, BitsAt
  <2>5. CASE /\ OctetNo(k) \in 1..4 /\ BitNo(k) \in 1..5
             /\ OctetNo(k + 3) = OctetNo(k) /\ BitNo(k + 3) = BitNo(k) + 3
    BY <1>3, <2>2, <2>3, <2>4, <2>5
  <2>6. CASE /\ BitNo(k) \in 6..8 /\ OctetNo(k) \in 1..3
             /\ OctetNo(k + 3) = OctetNo(k) + 1 /\ BitNo(k + 3) = BitNo(k) - 5
    BY <1>4, <2>2, <2>3, <2>4, <2>6
  <2> QED BY <2>5, <2>6, ThreeFurther
<1>6. ASSUME NEW k \in 30..36 PROVE Bits(cell)[k] = 1
  <2>1. \A r \in 6..8 : OctetBit(cell[4], r) = 1
    <3>1. id[4] \in Octet /\ 7 \in 0..7
      BY 4 \in 1..4
    <3>2. \A r \in 6..8 : OctetBit(cell[4], r) = OctetBit(7, r)
      BY <1>1, <3>1, ShiftedOctet
    <3>3. \A r \in 6..8 : r \in {6, 7, 8}
      OBVIOUS
    <3>4. \A r \in 6..8 : OctetBit(7, r) = 1
      BY <3>3 DEF OctetBit, Weight
    <3> QED BY <3>2, <3>4
  <2>2. \A r \in 1..4 : OctetBit(240, r) = 1
    <3>1. \A r \in 1..4 : r \in {1, 2, 3, 4}
      OBVIOUS
    <3> QED BY <3>1 DEF OctetBit, Weight
  <2>3. Bits(cell)[k] = OctetBit(cell[OctetNo(k)], BitNo(k))
    <3>1. k \in 1..8 * Len(cell)
      BY <1>1
    <3> QED BY <3>1, BitsAt
  <2>4. CASE k <= 32
    <3>1. OctetNo(k) = 4 /\ BitNo(k) \in 6..8
      BY <2>4 DEF OctetNo, BitNo
    <3> QED BY <2>1, <2>3, <3>1
  <2>5. CASE k > 32
    <3>1. OctetNo(k) = 5 /\ BitNo(k) \in 1..4
      BY <2>5 DEF OctetNo, BitNo
    <3> QED BY <1>1, <2>2, <2>3, <3>1
  <2> QED BY <2>4, <2>5
<1> QED BY <1>5, <1>6 DEF gnb, cell

(* Subsequences that hold the same elements at a distance of d.            *)
LEMMA SameSubSeq ==
    ASSUME NEW s, NEW t, NEW m \in Int, NEW n \in Int, NEW d \in Int,
           \A i \in m..n : s[i] = t[i+d]
    PROVE  SubSeq(s, m, n) = SubSeq(t, m + d, n + d)
<1> DEFINE S == {s[i] : i \in m..n}
           a == SubSeq(s, m, n)
           b == SubSeq(t, m + d, n + d)
<1>1. \A i \in m..n : s[i] \in S
  OBVIOUS
<1>2. \A i \in m+d..n+d : t[i] \in S
  <2> SUFFICES ASSUME NEW i \in m+d..n+d PROVE t[i] \in S
    OBVIOUS
  <2>1. i - d \in m..n /\ (i - d) + d = i
    OBVIOUS
  <2>2. s[i-d] = t[i] /\ s[i-d] \in S
    BY <1>1, <2>1
  <2> QED BY <2>2
<1> HIDE DEF S
<1>3. /\ a \in Seq(S) /\ Len(a) = IF m <= n THEN n - m + 1 ELSE 0
      /\ \A i \in 1..n-m+1 : a[i] = s[m+i-1]
  BY <1>1, SubSeqProperties
<1>4. /\ b \in Seq(S) /\ Len(b) = IF m + d <= n + d THEN (n + d) - (m + d) + 1 ELSE 0
      /\ \A i \in 1..(n+d)-(m+d)+1 : b[i] = t[(m+d)+i-1]
  <2>1. m + d \in Int /\ n + d \in Int
    OBVIOUS
  <2> HIDE DEF b
  <2> QED BY <1>2, <2>1, SubSeqProperties DEF b
<1> HIDE DEF a, b
<1>5. Len(a) = Len(b)
  BY <1>3, <1>4
<1>6. ASSUME NEW i \in 1..Len(a) PROVE a[i] = b[i]
  <2>1. i \in 1..n-m+1 /\ i \in 1..(n+d)-(m+d)+1
    BY <1>3, <1>6
  <2>2. a[i] = s[m+i-1] /\ b[i] = t[(m+d)+i-1]
    BY <1>3, <1>4, <2>1
  <2>3. m+i-1 \in m..n /\ (m+i-1) + d = (m+d)+i-1
    BY <2>1
  <2> QED BY <2>2, <2>3
<1>7. a = b
  BY <1>3, <1>4, <1>5, <1>6, SeqEqual
<1> QED BY <1>7 DEF a, b

(* The cell of an INSERT names the gNodeB of the E2 SETUP-REQUEST, for     *)
(* every id that the constructor accepts: its first 29 bits are the id,    *)
(* its other seven those of the cell (encode_rc_indication_message).       *)
THEOREM CellNamesItsNode ==
    ASSUME NEW id \in [1..4 -> Octet], id[1] < 32
    PROVE  LET cell == Bits(NRCellIdentity(id))
           IN  /\ SubSeq(cell, 1, 29) = SubSeq(Bits(id), 4, 32)
               /\ SubSeq(cell, 1, 29) = SubSeq(Bits(GlobalId(id)), 1, 29)
               /\ SubSeq(cell, 30, 36) = SubSeq(Bits(<<CellId>>), 2, 8)
<1> DEFINE cell == Bits(NRCellIdentity(id))
           ids == Bits(id)
           gnbs == Bits(GlobalId(id))
           own == Bits(<<CellId>>)
<1>1. /\ \A k \in 1..29 : cell[k] = ids[k+3] /\ cell[k] = gnbs[k]
      /\ \A k \in 30..36 : cell[k] = 1
  BY BitsOfCell
<1>2. \A k \in 2..8 : own[k] = 1
  <2> SUFFICES ASSUME NEW k \in 2..8 PROVE own[k] = 1
    OBVIOUS
  <2>1. k \in 1..8 * Len(<<CellId>>)
    OBVIOUS
  <2>2. own[k] = OctetBit(<<CellId>>[OctetNo(k)], BitNo(k))
    BY <2>1, BitsAt
  <2>3. OctetNo(k) = 1 /\ BitNo(k) = k
    BY DEF OctetNo, BitNo
  <2>4. own[k] = OctetBit(127, k)
    BY <2>2, <2>3 DEF CellId
  <2>5. k \in {2, 3, 4, 5, 6, 7, 8}
    OBVIOUS
  <2> HIDE DEF own
  <2> QED BY <2>4, <2>5 DEF OctetBit, Weight
<1> HIDE DEF cell, ids, gnbs, own
<1>3. SubSeq(cell, 1, 29) = SubSeq(ids, 4, 32)
  <2>1. SubSeq(cell, 1, 29) = SubSeq(ids, 1 + 3, 29 + 3)
    BY <1>1, SameSubSeq
  <2> QED BY <2>1
<1>4. SubSeq(cell, 1, 29) = SubSeq(gnbs, 1, 29)
  <2>1. SubSeq(cell, 1, 29) = SubSeq(gnbs, 1 + 0, 29 + 0)
    BY <1>1, SameSubSeq
  <2> QED BY <2>1
<1>5. SubSeq(cell, 30, 36) = SubSeq(own, 2, 8)
  <2>1. \A k \in 30..36 : k + (-28) \in 2..8
    OBVIOUS
  <2>2. \A k \in 30..36 : cell[k] = own[k + (-28)]
    BY <1>1, <1>2, <2>1
  <2>3. SubSeq(cell, 30, 36) = SubSeq(own, 30 + (-28), 36 + (-28))
    BY <2>2, SameSubSeq
  <2> QED BY <2>3
<1> QED BY <1>3, <1>4, <1>5 DEF cell, ids, gnbs, own
-----------------------------------------------------------------------------
(* What the arguments other than the number of messages can be.            *)
LEMMA ArgumentIs ==
    ASSUME NEW cmd \in Seq(Option), ~Exits(cmd), NEW letter \in Letters \ {"n"}
    PROVE  \/ Parse(cmd)[letter] = Default[letter]
           \/ \E o \in Option : o.letter = letter /\ Parse(cmd)[letter] = Kept(o)
<1> DEFINE n == Len(cmd)
           ks == GivenUpTo(cmd, n, letter)
<1>1. n \in Nat /\ \A k \in 1..n : cmd[k] \in Option
  BY LenProperties
<1>2. Parse(cmd)[letter] = Latest(cmd, n, letter)
  BY ParseSets DEF ArgumentsAfter
<1>3. CASE ks = {}
  BY <1>2, <1>3 DEF Latest
<1>4. CASE ks # {}
  <2>1. ks \in SUBSET (1..n) /\ \A k \in ks : k \in 1..n /\ cmd[k].letter = letter
    BY DEF GivenUpTo
  <2>2. \E k \in ks : \A j \in ks : j <= k
    <3> HIDE DEF ks, n
    <3> QED BY <1>1, <1>4, <2>1, MaxOfIndices
  <2>3. LastOf(ks) \in ks
    <3> HIDE DEF ks
    <3> QED BY <2>2 DEF LastOf
  <2>4. Parse(cmd)[letter] = Kept(cmd[LastOf(ks)])
    BY <1>2, <1>4 DEF Latest
  <2> HIDE DEF ks, n
  <2> QED BY <1>1, <2>1, <2>3, <2>4
<1> QED BY <1>3, <1>4

(* The values of -b, -m and -c.                                            *)
LEMMA ValueTypes ==
    ASSUME NEW o \in Option
    PROVE  /\ o.letter \in {"m", "c"} => Kept(o) \in Seq(Character)
           /\ o.letter = "b" => Kept(o) \in [1..4 -> Octet]
<1>1. \A d \in 0..10 : d \in Character
  BY DEF Character, Other
<1>2. ASSUME o.letter = "m" PROVE Kept(o) \in Seq(Character)
  <2>1. o.value \in {<<2, 3, 4>>, <<9, 0, 1>>, <<1, Other, 2>>, <<1, 2>>}
    BY <1>2 DEF Option
  <2>2. Kept(o) = o.value
    BY <1>2 DEF Kept
  <2>3. /\ <<2, 3, 4>> \in Seq(Character) /\ <<9, 0, 1>> \in Seq(Character)
        /\ <<1, Other, 2>> \in Seq(Character) /\ <<1, 2>> \in Seq(Character)
    BY <1>1 DEF Other
  <2> QED BY <2>1, <2>2, <2>3
<1>3. ASSUME o.letter = "c" PROVE Kept(o) \in Seq(Character)
  <2>1. o.value \in {<<5, 6>>, <<0, 0, 1>>, <<7, 8, 9>>, <<1>>}
    BY <1>3 DEF Option
  <2>2. Kept(o) = o.value
    BY <1>3 DEF Kept
  <2>3. /\ <<5, 6>> \in Seq(Character) /\ <<0, 0, 1>> \in Seq(Character)
        /\ <<7, 8, 9>> \in Seq(Character) /\ <<1>> \in Seq(Character)
    BY <1>1
  <2> QED BY <2>1, <2>2, <2>3
<1>4. ASSUME o.letter = "b" PROVE Kept(o) \in [1..4 -> Octet]
  <2>1. o.value \in {Octets(0, 1, 2, 3, 4), Octets(0, 31, 255, 255, 255),
                     Octets(0, 32, 0, 0, 0), Octets(1, 0, 0, 0, 5)}
    BY <1>4 DEF Option
  <2>2. Kept(o) = SubSeq(o.value, 5, 8)
    BY <1>4 DEF Kept
  <2>3. \A i \in 5..8 : o.value[i] \in Octet
    <3>1. \A i \in 5..8 : i \in {5, 6, 7, 8}
      OBVIOUS
    <3> QED BY <2>1, <3>1 DEF Octets, Octet
  <2>4. SubSeq(o.value, 5, 8) \in Seq(Octet) /\ Len(SubSeq(o.value, 5, 8)) = 4
    BY <2>3, SubSeqProperties
  <2> QED BY <2>2, <2>4, LenProperties
<1> QED BY <1>2, <1>3, <1>4

(* The strings of -m and -c, and the four lower octets of -b.              *)
LEMMA ArgumentTypes ==
    ASSUME NEW cmd \in Seq(Option), ~Exits(cmd)
    PROVE  /\ Parse(cmd).m \in Seq(Character)
           /\ Parse(cmd).c \in Seq(Character)
           /\ Parse(cmd).b \in [1..4 -> Octet]
<1>1. Default.m \in Seq(Character) /\ Default.c \in Seq(Character)
  BY DEF Default, Character
<1>2. Default.b \in [1..4 -> Octet]
  <2>1. Default.b = <<0, 0, 0, 1>>
    BY DEF Default
  <2>2. 0 \in Octet /\ 1 \in Octet
    BY DEF Octet
  <2> QED BY <2>1, <2>2
<1>3. "m" \in Letters \ {"n"} /\ "c" \in Letters \ {"n"} /\ "b" \in Letters \ {"n"}
  BY DEF Letters
<1> HIDE DEF Default
<1>4. Parse(cmd)["m"] \in Seq(Character)
  BY <1>1, <1>3, ArgumentIs, ValueTypes
<1>5. Parse(cmd)["c"] \in Seq(Character)
  BY <1>1, <1>3, ArgumentIs, ValueTypes
<1>6. Parse(cmd)["b"] \in [1..4 -> Octet]
  BY <1>2, <1>3, ArgumentIs, ValueTypes
<1> QED BY <1>4, <1>5, <1>6
-----------------------------------------------------------------------------
(* The inputs that are enumerated.                                         *)
InputsType == RequestType /\ line \in Seq(Option)

(* The loop does what the reference definition says.                       *)
LEMMA LastCounts ==
    ASSUME InputsType
    PROVE  LastOneCounts
<1> SUFFICES ASSUME ~Exits(line), NEW letter \in Letters
             PROVE  LET ks    == Given(letter)
                        value == IF ks = {} THEN Default[letter] ELSE Kept(line[LastOf(ks)])
                        waits == \E k \in Given("w") : \A j \in ks : j < k
                    IN  args[letter] = IF letter = "n" /\ value = UNLIMITED_MESSAGES /\ waits
                                         THEN 5 ELSE value
  BY DefaultType DEF LastOneCounts
<1>1. line \in Seq(Option) /\ DOMAIN line = 1..Len(line)
  BY LenProperties DEF InputsType
<1>2. ArgumentsAfter(line, Len(line), args)
  BY <1>1, ParseSets DEF args
<1>3. \A l : Given(l) = GivenUpTo(line, Len(line), l)
  BY <1>1 DEF Given, GivenUpTo
<1>4. Latest(line, Len(line), letter) =
          IF Given(letter) = {} THEN Default[letter] ELSE Kept(line[LastOf(Given(letter))])
  BY <1>3 DEF Latest
<1>5. letter = "n" => (WaitFollows(line, Len(line)) <=>
                          \E k \in Given("w") : \A j \in Given(letter) : j < k)
  BY <1>3 DEF WaitFollows
<1> QED BY <1>2, <1>4, <1>5 DEF ArgumentsAfter

(* What encodePlmnId makes of digits, for the mcc and mnc of a command     *)
(* line.                                                                   *)
LEMMA PlmnDigits ==
    ASSUME InputsType
    PROVE  PlmnHoldsItsDigits
<1> SUFFICES ASSUME ~Exits(line), Accepted(args.m, args.c, args.b),
                    Digits(args.m \o args.c), junk = <<>>
             PROVE  Halves(Plmn(args.m, args.c, junk))
                        = args.m \o (IF Len(args.c) = 2 THEN <<15>> ELSE <<>>) \o args.c
  BY DEF PlmnHoldsItsDigits
<1>1. args.m \in Seq(Character) /\ args.c \in Seq(Character)
  BY ArgumentTypes DEF InputsType, args
<1>2. Len(args.m) = 3 /\ Len(args.c) \in {2, 3}
  BY DEF Accepted
<1> DEFINE mcc == args.m
           mnc == args.c
<1> HIDE DEF mcc, mnc
<1>3. mcc \in Seq(Character) /\ mnc \in Seq(Character) /\ Len(mcc) = 3 /\ Len(mnc) \in {2, 3}
      /\ Digits(mcc \o mnc)
  BY <1>1, <1>2 DEF mcc, mnc
<1>4. mcc \in Seq(0..9) /\ mnc \in Seq(0..9)
  <2>1. mcc \in Seq(Character)
    BY <1>3
  <2>2. mnc \in Seq(Character)
    BY <1>3
  <2>3. /\ mcc \o mnc \in Seq(Character)
        /\ Len(mcc \o mnc) = Len(mcc) + Len(mnc)
        /\ \A i \in 1..Len(mcc) + Len(mnc) :
               (mcc \o mnc)[i] = IF i <= Len(mcc) THEN mcc[i] ELSE mnc[i - Len(mcc)]
    BY <2>1, <2>2, ConcatProperties, Zenon
  <2>4. DOMAIN (mcc \o mnc) = 1..Len(mcc) + Len(mnc)
    BY <2>3, LenProperties, Zenon
  <2>5. \A i \in 1..Len(mcc) + Len(mnc) : (mcc \o mnc)[i] \in 0..9
    BY <1>3, <2>4 DEF Digits
  <2>6. \A i \in 1..Len(mcc) : mcc[i] \in 0..9
    BY <1>3, <2>3, <2>5
  <2>7. \A i \in 1..Len(mnc) : mnc[i] \in 0..9
    <3> SUFFICES ASSUME NEW i \in 1..Len(mnc) PROVE mnc[i] \in 0..9
      OBVIOUS
    <3>1. i + 3 \in 1..Len(mcc) + Len(mnc) /\ ~(i + 3 <= Len(mcc)) /\ (i + 3) - Len(mcc) = i
      BY <1>3
    <3> QED BY <2>3, <2>5, <3>1
  <2>8. mcc \in [1..Len(mcc) -> 0..9] /\ mnc \in [1..Len(mnc) -> 0..9]
    BY <2>1, <2>2, <2>6, <2>7, LenProperties
  <2> QED BY <2>1, <2>2, <2>8, LenProperties, TupleIsSeq
<1> QED BY <1>3, <1>4, HalvesOfPlmn DEF mcc, mnc

(* The cell of an INSERT, for the id of a command line.                    *)
LEMMA CellOfNode ==
    ASSUME InputsType
    PROVE  CellBelongsToItsNode
<1> SUFFICES ASSUME ~Exits(line), Accepted(args.m, args.c, args.b)
             PROVE  LET cell == Bits(NRCellIdentity(args.b))
                    IN  /\ SubSeq(cell, 1, 29) = SubSeq(Bits(args.b), 4, 32)
                        /\ SubSeq(cell, 1, 29) = SubSeq(Bits(GlobalId(args.b)), 1, 29)
                        /\ SubSeq(cell, 30, 36) = SubSeq(Bits(<<CellId>>), 2, 8)
  BY DEF CellBelongsToItsNode
<1>1. args.b \in [1..4 -> Octet]
  BY ArgumentTypes DEF InputsType, args
<1>2. args.b[1] < 32
  BY DEF Accepted
<1> QED BY <1>1, <1>2, CellNamesItsNode
-----------------------------------------------------------------------------
(* Every command line and request that is enumerated is of the types.      *)
LEMMA InputsTypeInvariant == InputsSpec => []InputsType
<1>1. InputsInit => InputsType
  <2>1. <<>> \in Seq(Action) /\ <<>> \in Seq(Option)
    BY EmptySeq
  <2> QED BY <2>1 DEF InputsInit, Init, InputsType, RequestType
<1>2. InputsType /\ [InputsNext]_<<actions, answered, line, junk>> => InputsType'
  <2> SUFFICES ASSUME InputsType, [InputsNext]_<<actions, answered, line, junk>>
               PROVE  InputsType'
    OBVIOUS
  <2>1. CASE AddOption
    BY <2>1 DEF AddOption, InputsType, RequestType
  <2>2. CASE AddAction /\ UNCHANGED <<line, junk>>
    BY <2>2 DEF AddAction, InputsType, RequestType
  <2>3. CASE Answer /\ UNCHANGED <<line, junk>>
    BY <2>3 DEF Answer, InputsType, RequestType
  <2>4. CASE UNCHANGED <<actions, answered, line, junk>>
    BY <2>4 DEF InputsType, RequestType
  <2> QED BY <2>1, <2>2, <2>3, <2>4 DEF InputsNext, Next
<1> QED BY <1>1, <1>2, PTL DEF InputsSpec

(* The first INSERT of a request is the only action accepted, and every    *)
(* other one is rejected in order (callback_rc_subscription_request), for  *)
(* any identifiers and bounds.                                             *)
THEOREM FirstInsertAccepted == InputsSpec => []OnlyFirstInsertAccepted
<1>1. InputsType => OnlyFirstInsertAccepted
  BY FirstInsertScanned DEF InputsType
<1> QED BY <1>1, InputsTypeInvariant, PTL

(* A response that is sent admits every action of the request, and the     *)
(* insert loop is given an admitted one (callback_rc_subscription_request).*)
THEOREM SentResponseMatches == InputsSpec => []SentResponseMatchesLoop
<1>1. InputsType => SentResponseMatchesLoop
  BY SentMatches DEF InputsType
<1> QED BY <1>1, InputsTypeInvariant, PTL

(* The argument of an option is the one given last or its default, on a    *)
(* command line of any length, save what a -w makes of the -n before it    *)
(* (parse_input_options).                                                  *)
THEOREM LastOptionCounts == InputsSpec => []LastOneCounts
<1>1. InputsType => LastOneCounts
  BY LastCounts
<1> QED BY <1>1, InputsTypeInvariant, PTL

(* The digits of mcc and mnc can be read off the PLMN identity             *)
(* (encoding::encodePlmnId).                                               *)
THEOREM PlmnIsReadable == InputsSpec => []PlmnHoldsItsDigits
<1>1. InputsType => PlmnHoldsItsDigits
  BY PlmnDigits
<1> QED BY <1>1, InputsTypeInvariant, PTL

(* The cell of an INSERT is one of the gNodeB of the E2 SETUP-REQUEST      *)
(* (encode_rc_indication_message).                                         *)
THEOREM CellIsOfItsNode == InputsSpec => []CellBelongsToItsNode
<1>1. InputsType => CellBelongsToItsNode
  BY CellOfNode
<1> QED BY <1>1, InputsTypeInvariant, PTL
=============================================================================

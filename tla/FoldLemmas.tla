----------------------------- MODULE FoldLemmas -----------------------------
(***************************************************************************)
(* Induction and recursion over the natural numbers, stated with sets and  *)
(* functions where module NaturalsInduction has operators as parameters,   *)
(* so that the lemmas can be cited; and what the folds of the community    *)
(* modules recurse over.                                                   *)
(***************************************************************************)
EXTENDS FiniteSetsExt, WellFoundedInduction, TLAPS

(* A set of natural numbers has a least one.                               *)
LEMMA LeastNumber ==
    ASSUME NEW S, S \subseteq Nat, S # {}
    PROVE  \E m \in S : \A n \in S : m <= n
<1> DEFINE R == {p \in Nat \X Nat : p[1] < p[2]}
<1>1. IsWellFoundedOn(R, Nat)
  BY NatLessThanWellFounded DEF OpToRel
<1>2. PICK m \in S : \A n \in S : ~(<<n, m>> \in R)
  <2> HIDE DEF R
  <2> QED BY <1>1, WFMin
<1>3. \A n \in S : ~(n < m)
  BY <1>2
<1> QED BY <1>3

(* Induction: a set with 0 and every successor has all of them.            *)
LEMMA SetInduction ==
    ASSUME NEW S, 0 \in S, \A n \in Nat : n \in S => n + 1 \in S
    PROVE  \A n \in Nat : n \in S
<1> SUFFICES ASSUME Nat \ S # {} PROVE FALSE
  OBVIOUS
<1>1. PICK m \in Nat \ S : \A n \in Nat \ S : m <= n
  BY LeastNumber
<1>2. m # 0 /\ m - 1 \in Nat /\ m - 1 \in S /\ m = (m - 1) + 1
  BY <1>1
<1> QED BY <1>2

(* Two functions that take the same steps from the same value agree.       *)
LEMMA SameSteps ==
    ASSUME NEW n \in Nat, NEW step, NEW f, NEW g, f[0] = g[0],
           \A i \in Nat : i < n => f[i+1] = step[i][f[i]],
           \A i \in Nat : i < n => g[i+1] = step[i][g[i]]
    PROVE  f[n] = g[n]
<1> DEFINE S == {i \in Nat : i <= n => f[i] = g[i]}
<1>1. 0 \in S
  OBVIOUS
<1>2. ASSUME NEW i \in Nat, i \in S PROVE i + 1 \in S
  <2> SUFFICES ASSUME i + 1 <= n PROVE f[i+1] = g[i+1]
    OBVIOUS
  <2>1. i < n /\ f[i] = g[i]
    BY <1>2
  <2> QED BY <2>1
<1>3. \A i \in Nat : i \in S
  <2> HIDE DEF S
  <2> QED BY <1>1, <1>2, SetInduction
<1> QED BY <1>3

(* Steps on T, numbered; and the values that they reach from init.         *)
Steps(T) == [Nat -> [T -> T]]

IsRun(f, T, init, step) ==
    /\ f \in [Nat -> T]
    /\ f[0] = init
    /\ \A n \in Nat : f[n+1] = step[n][f[n]]

(* Recursion: what is reached step by step is a function.                  *)
LEMMA StepRecursion ==
    ASSUME NEW T, NEW init \in T, NEW step \in Steps(T)
    PROVE  \E f : IsRun(f, T, init, step)
<1> USE DEF Steps
<1> DEFINE Reaches(n, f) == /\ f[0] = init
                            /\ \A i \in Nat : i < n => f[i+1] = step[i][f[i]]
           S == {n \in Nat : \E f \in [Nat -> T] : Reaches(n, f)}
<1>1. 0 \in S
  <2>1. Reaches(0, [i \in Nat |-> init])
    OBVIOUS
  <2> QED BY <2>1
<1>2. ASSUME NEW n \in Nat, n \in S PROVE n + 1 \in S
  <2>1. PICK f \in [Nat -> T] : Reaches(n, f)
    BY <1>2
  <2> DEFINE g == [i \in Nat |-> IF i = n + 1 THEN step[n][f[n]] ELSE f[i]]
  <2>2. g \in [Nat -> T]
    BY <2>1
  <2>3. \A i \in Nat : i < n + 1 => g[i+1] = step[i][g[i]]
    <3> SUFFICES ASSUME NEW i \in Nat, i < n + 1 PROVE g[i+1] = step[i][g[i]]
      OBVIOUS
    <3>1. CASE i = n
      BY <3>1
    <3>2. CASE i < n
      BY <2>1, <3>2
    <3> QED BY <3>1, <3>2
  <2>4. g[0] = init
    BY <2>1
  <2>5. Reaches(n + 1, g)
    BY <2>3, <2>4
  <2> HIDE DEF g, Reaches
  <2> QED BY <2>2, <2>5
<1>3. \A n \in Nat : n \in S
  <2> HIDE DEF S
  <2> QED BY <1>1, <1>2, SetInduction
<1> DEFINE Path(n) == CHOOSE f \in [Nat -> T] : Reaches(n, f)
           f == [n \in Nat |-> Path(n)[n]]
<1>4. \A n \in Nat : Path(n) \in [Nat -> T] /\ Reaches(n, Path(n))
  BY <1>3
<1> HIDE DEF Path
<1>5. f \in [Nat -> T] /\ f[0] = init
  BY <1>4
<1>6. ASSUME NEW n \in Nat PROVE f[n+1] = step[n][f[n]]
  <2>1. Path(n+1)[n+1] = step[n][Path(n+1)[n]]
    BY <1>4, n + 1 \in Nat, n < n + 1
  <2>2. Path(n+1)[n] = Path(n)[n]
    <3>1. \A i \in Nat : i < n => Path(n+1)[i+1] = step[i][Path(n+1)[i]]
      BY <1>4, n + 1 \in Nat, \A i \in Nat : i < n => i < n + 1
    <3>2. \A i \in Nat : i < n => Path(n)[i+1] = step[i][Path(n)[i]]
      BY <1>4
    <3>3. Path(n+1)[0] = Path(n)[0]
      BY <1>4, n + 1 \in Nat
    <3> DEFINE a == Path(n+1)
               b == Path(n)
    <3>4. /\ a[0] = b[0]
          /\ \A i \in Nat : i < n => a[i+1] = step[i][a[i]]
          /\ \A i \in Nat : i < n => b[i+1] = step[i][b[i]]
      BY <3>1, <3>2, <3>3
    <3>5. a[n] = b[n]
      <4> HIDE DEF a, b
      <4> QED BY <3>4, SameSteps
    <3> QED BY <3>5
  <2> QED BY <2>1, <2>2
<1>7. IsRun(f, T, init, step)
  BY <1>5, <1>6 DEF IsRun
<1> QED BY <1>7
-----------------------------------------------------------------------------
(* The greatest element of a set of indices, and of a prefix of them.      *)
LEMMA MaxOfIndices ==
    ASSUME NEW n \in Nat, NEW s \in SUBSET (1..n), s # {}
    PROVE  Max(s) \in s /\ \A i \in s : i <= Max(s)
<1> DEFINE S == {n - i : i \in s}
<1>1. PICK m \in S : \A k \in S : m <= k
  <2>1. S \subseteq Nat /\ S # {}
    OBVIOUS
  <2> HIDE DEF S
  <2> QED BY <2>1, LeastNumber
<1>2. PICK j \in s : m = n - j
  OBVIOUS
<1>3. \A i \in s : n - i \in S /\ i \in 1..n
  OBVIOUS
<1>4. \A i \in s : m <= n - i
  BY <1>1, <1>3
<1>5. j \in s /\ \A i \in s : i <= j
  BY <1>2, <1>3, <1>4
<1>6. \A y \in s : j >= y
  BY <1>3, <1>5
<1>7. Max(s) \in s /\ \A y \in s : Max(s) >= y
  BY <1>5, <1>6 DEF Max
<1> QED BY <1>3, <1>7

(* The greatest of the first k indices is k, and k - 1 of them are before  *)
(* it.                                                                     *)
LEMMA MaxOfPrefix ==
    ASSUME NEW n \in Nat, NEW k \in 1..n
    PROVE  /\ k - 1 \in 0..n /\ k \in 0..n
           /\ 1..k # {} /\ 1..k \in SUBSET (1..n)
           /\ Max(1..k) = k /\ (1..k) \ {k} = 1..k-1
<1>1. k \in Nat \ {0} /\ k \in 1..k
  OBVIOUS
<1>2. \A i \in 1..k : i \in 1..n
  OBVIOUS
<1>3. 1..k \in SUBSET (1..k) /\ 1..k # {}
  BY <1>1
<1>4. Max(1..k) \in 1..k /\ \A i \in 1..k : i <= Max(1..k)
  BY <1>1, <1>3, MaxOfIndices
<1>5. Max(1..k) = k
  BY <1>1, <1>4
<1>6. (1..k) \ {k} = 1..k-1
  BY <1>1
<1>7. k - 1 \in 0..n /\ k \in 0..n
  OBVIOUS
<1> QED BY <1>2, <1>3, <1>5, <1>6, <1>7

(* Steps on T, one for each index; and the function on sets of indices     *)
(* that a fold from the left recurses over, the greatest index first.      *)
IndexSteps(T, n) == [1..n -> [T -> T]]

FoldsOver(iter, T, n, base, step) ==
    /\ iter \in [SUBSET (1..n) -> T]
    /\ \A s \in SUBSET (1..n) :
           iter[s] = IF s = {} THEN base ELSE step[Max(s)][iter[s \ {Max(s)}]]

(* There is such a function.                                               *)
LEMMA IndexFold ==
    ASSUME NEW T, NEW base \in T, NEW n \in Nat, NEW step \in IndexSteps(T, n)
    PROVE  \E iter : FoldsOver(iter, T, n, base, step)
<1> USE DEF IndexSteps
<1> DEFINE U == [SUBSET (1..n) -> T]
           Extend(k, h) == [s \in SUBSET (1..n) |->
                               IF k + 1 \in s THEN step[k+1][h[s \ {k+1}]] ELSE h[s]]
           ext == [k \in Nat |-> [h \in U |-> Extend(k, h)]]
           first == [s \in SUBSET (1..n) |-> base]
<1>1. first \in U
  OBVIOUS
<1>2. ext \in [Nat -> [U -> U]]
  <2>1. ASSUME NEW k \in Nat, NEW h \in U PROVE Extend(k, h) \in U
    <3> SUFFICES ASSUME NEW s \in SUBSET (1..n), k + 1 \in s
                 PROVE  step[k+1][h[s \ {k+1}]] \in T
      OBVIOUS
    <3>1. k + 1 \in 1..n /\ s \ {k+1} \in SUBSET (1..n)
      OBVIOUS
    <3> QED BY <3>1
  <2> HIDE DEF Extend, U
  <2> QED BY <2>1
<1>3. PICK f : IsRun(f, U, first, ext)
  <2>1. ext \in Steps(U)
    BY <1>2 DEF Steps
  <2> HIDE DEF U, Extend, ext, first
  <2> QED BY <1>1, <2>1, StepRecursion
<1>4. f \in [Nat -> U] /\ f[0] = first /\ \A k \in Nat : f[k+1] = ext[k][f[k]]
  BY <1>3 DEF IsRun
<1>5. \A k \in Nat : f[k+1] = Extend(k, f[k])
  BY <1>4
<1> DEFINE Good(k) == \A s \in SUBSET (1..k) :
                          f[k][s] = IF s = {} THEN base
                                    ELSE step[Max(s)][f[k][s \ {Max(s)}]]
           S == {k \in Nat : k <= n => Good(k)}
<1>6. 0 \in S
  <2>1. \A s \in SUBSET (1..0) : s = {}
    OBVIOUS
  <2>2. f[0][{}] = base
    BY <1>4
  <2> QED BY <2>1, <2>2
<1>7. ASSUME NEW k \in Nat, k \in S PROVE k + 1 \in S
  <2> SUFFICES ASSUME k + 1 <= n PROVE Good(k + 1)
    <3> HIDE DEF Good
    <3> QED OBVIOUS
  <2> SUFFICES ASSUME NEW s \in SUBSET (1..k+1)
               PROVE  f[k+1][s] = IF s = {} THEN base
                                  ELSE step[Max(s)][f[k+1][s \ {Max(s)}]]
    OBVIOUS
  <2>1. \A r \in SUBSET (1..n) :
            f[k+1][r] = IF k + 1 \in r THEN step[k+1][f[k][r \ {k+1}]] ELSE f[k][r]
    BY <1>5
  <2>2. s \in SUBSET (1..n) /\ \A r : s \ r \in SUBSET (1..n)
    <3>1. \A i \in 1..k+1 : i \in 1..n
      OBVIOUS
    <3> QED BY <3>1
  <2>3. CASE k + 1 \in s
    <3>1. Max(s) = k + 1
      <4>1. Max(s) \in s /\ k + 1 <= Max(s)
        BY <2>3, k + 1 \in Nat, s # {}, MaxOfIndices
      <4>2. Max(s) \in 1..k+1
        BY <4>1
      <4> QED BY <4>1, <4>2
    <3>2. f[k+1][s \ {k+1}] = f[k][s \ {k+1}]
      BY <2>1, <2>2
    <3>3. f[k+1][s] = step[k+1][f[k][s \ {k+1}]]
      BY <2>1, <2>2, <2>3
    <3> QED BY <2>3, <3>1, <3>2, <3>3
  <2>4. CASE k + 1 \notin s
    <3>1. s \in SUBSET (1..k)
      BY <2>4
    <3>2. Good(k)
      <4> HIDE DEF Good
      <4> QED BY <1>7
    <3>3. f[k+1][s] = f[k][s] /\ f[k+1][s \ {Max(s)}] = f[k][s \ {Max(s)}]
      BY <2>1, <2>2, <2>4
    <3>4. f[k][s] = IF s = {} THEN base ELSE step[Max(s)][f[k][s \ {Max(s)}]]
      BY <3>1, <3>2
    <3> QED BY <3>3, <3>4
  <2> QED BY <2>3, <2>4
<1>8. \A k \in Nat : k \in S
  <2> HIDE DEF S
  <2> QED BY <1>6, <1>7, SetInduction
<1>9. Good(n)
  <2> HIDE DEF Good
  <2> QED BY <1>8
<1>10. f[n] \in U
  BY <1>4
<1>11. FoldsOver(f[n], T, n, base, step)
  BY <1>9, <1>10 DEF FoldsOver
<1> QED BY <1>11
=============================================================================

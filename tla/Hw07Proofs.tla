----------------------------- MODULE Hw07Proofs -----------------------------
(***************************************************************************)
(* Theorems about the two parts of hw07: the sample sort (TSort) and the   *)
(* barrier that its threads wait at (Barrier).                             *)
(***************************************************************************)
EXTENDS TSort, Barrier, FiniteSetTheorems, WellFoundedInduction, NaturalsInduction, TLAPS

-----------------------------------------------------------------------------
(***************************************************************************)
(* The sample sort, for any number of threads, any input and any choice of *)
(* samples: the creation of the threads, the barrier and the joins are     *)
(* enough to order the accesses to the array, to the sizes and to the      *)
(* medians, which no lock protects; and the array that the workers leave   *)
(* is the input, sorted.                                                   *)
(***************************************************************************)

-----------------------------------------------------------------------------
(* Counting, and what qsort does. *)
(* A set of naturals has a least element, and a bounded one a largest. *)
LEMMA Least ==
    ASSUME NEW S \in SUBSET Nat, S # {}
    PROVE  \E m \in S : \A y \in S : m <= y
<1>1. PICK m \in S : \A y \in S : ~(<<y, m>> \in OpToRel(<, Nat))
  BY WFMin, NatLessThanWellFounded
<1>2. ASSUME NEW y \in S PROVE m <= y
  <2>1. m \in Nat /\ y \in Nat /\ ~(<<y, m>> \in OpToRel(<, Nat))
    BY <1>1
  <2> QED  BY <2>1 DEF OpToRel
<1> QED  BY <1>2

LEMMA Largest ==
    ASSUME NEW S \in SUBSET Nat, S # {}, NEW b \in Nat, \A y \in S : y <= b
    PROVE  \E m \in S : \A y \in S : y <= m
<1> DEFINE R == {b - y : y \in S}
<1>1. R \in SUBSET Nat /\ R # {}
  <2>1. ASSUME NEW y \in S PROVE b - y \in Nat
    BY <2>1
  <2> QED  BY <2>1
<1>2. PICK r \in R : \A y \in R : r <= y
  BY <1>1, Least
<1>3. PICK m \in S : r = b - m
  BY <1>2
<1>4. ASSUME NEW y \in S PROVE y <= m
  <2>1. b - m <= b - y
    BY <1>2, <1>3
  <2> QED  BY <2>1, <1>3
<1> QED  BY <1>4

(* The indices of a sequence are finitely many, so counts are naturals and *)
(* grow with the set.                                                      *)
LEMMA Counts ==
    ASSUME NEW n \in Nat, NEW A \in SUBSET (1..n), NEW B \in SUBSET A
    PROVE  /\ IsFiniteSet(A) /\ Cardinality(A) \in Nat /\ Cardinality(B) \in Nat
           /\ Cardinality(B) <= Cardinality(A) /\ Cardinality(A) <= n
<1>1. IsFiniteSet(1..n) /\ Cardinality(1..n) = n
  BY FS_Interval
<1>2. IsFiniteSet(A) /\ Cardinality(A) <= n
  BY <1>1, FS_Subset
<1>3. IsFiniteSet(B) /\ Cardinality(B) <= Cardinality(A)
  BY <1>2, FS_Subset
<1> QED  BY <1>2, <1>3, FS_CardinalityType

(* The two parts of a count. *)
LEMMA Split ==
    ASSUME NEW n \in Nat, NEW B \in SUBSET (1..n), NEW C \in SUBSET (1..n), B \cap C = {}
    PROVE  Cardinality(B \cup C) = Cardinality(B) + Cardinality(C)
<1>2. IsFiniteSet(B) /\ Cardinality(B) \in Nat
  BY Counts
<1>3. IsFiniteSet(C) /\ Cardinality(C) \in Nat
  BY Counts
<1>4. Cardinality(B \cup C) = Cardinality(B) + Cardinality(C) - Cardinality(B \cap C)
  BY <1>2, <1>3, FS_Union
<1>5. Cardinality(B \cap C) = 0
  BY FS_EmptySet
<1> QED  BY <1>2, <1>3, <1>4, <1>5

LEMMA AtMostBounds ==
    ASSUME NEW s \in Seq(Nat), NEW x \in Int, NEW y \in Int, x <= y
    PROVE  /\ AtMost(s, x) \in Nat /\ AtMost(s, x) <= AtMost(s, y)
           /\ AtMost(s, x) <= Len(s)
<1> DEFINE A == {j \in DOMAIN s : s[j] <= x}
           B == {j \in DOMAIN s : s[j] <= y}
<1>1. Len(s) \in Nat /\ DOMAIN s = 1..Len(s)
  OBVIOUS
<1>2. A \in SUBSET B
  BY <1>1
<1>3. B \in SUBSET (1..Len(s)) /\ A \in SUBSET (1..Len(s))
  BY <1>1
<1> HIDE DEF A, B
<1>4. /\ Cardinality(A) \in Nat /\ Cardinality(A) <= Cardinality(B)
      /\ Cardinality(A) <= Len(s)
  BY <1>1, <1>2, <1>3, Counts
<1> QED  BY <1>4 DEF A, B, AtMost

(* The elements of a sequence have a bound. *)
LEMMA Bounded ==
    ASSUME NEW n \in Nat, NEW s \in [1..n -> Nat]
    PROVE  \E b \in Nat : \A j \in 1..n : s[j] <= b
<1> DEFINE Fits(k) == \E b \in Nat : \A j \in 1..k : s[j] <= b
           Far == {k \in 0..n : ~Fits(k)}
<1>1. Fits(0)
  OBVIOUS
<1>2. ASSUME NEW k \in 1..n, Fits(k - 1) PROVE Fits(k)
  <2>1. PICK b \in Nat : \A j \in 1..(k - 1) : s[j] <= b
    BY <1>2
  <2>2. s[k] \in Nat
    OBVIOUS
  <2>3. ASSUME NEW j \in 1..k PROVE s[j] <= b + s[k]
    <3>1. s[j] \in Nat /\ (j \in 1..(k - 1) \/ j = k)
      OBVIOUS
    <3> QED  BY <2>1, <2>2, <3>1
  <2>4. b + s[k] \in Nat
    BY <2>2
  <2> QED  BY <2>3, <2>4
<1> HIDE DEF Fits
<1>3. Far = {}
  <2> SUFFICES ASSUME Far # {} PROVE FALSE
    OBVIOUS
  <2>1. Far \in SUBSET Nat
    OBVIOUS
  <2>2. PICK k \in Far : \A m \in Far : k <= m
    BY <2>1, Least
  <2>3. k # 0 /\ k \in 1..n
    BY <2>2, <1>1
  <2>4. k - 1 \in 0..n /\ k - 1 \notin Far
    BY <2>2, <2>3
  <2> QED  BY <2>2, <2>3, <2>4, <1>2
<1>4. Fits(n)
  BY <1>3
<1> QED  BY <1>4 DEF Fits

(* What qsort does: its i-th element is at most x if and only if at least  *)
(* i elements are.                                                         *)
LEMMA SortRank ==
    ASSUME NEW s \in Seq(Nat), NEW i \in 1..Len(s)
    PROVE  /\ qsort_floats(s)[i] \in Range(s) /\ qsort_floats(s)[i] \in Nat
           /\ \A x \in Int : qsort_floats(s)[i] <= x <=> i <= AtMost(s, x)
<1> DEFINE Good == {y \in Range(s) : i <= AtMost(s, y)}
           P(x) == /\ i <= AtMost(s, x)
                   /\ \A y \in Range(s) : i <= AtMost(s, y) => x <= y
           t == qsort_floats(s)[i]
<1>1. Len(s) \in Nat /\ DOMAIN s = 1..Len(s) /\ Range(s) \in SUBSET Nat
  BY DEF Range
<1>2. ASSUME NEW x \in Int, i <= AtMost(s, x) PROVE \E y \in Good : y <= x
  <2> DEFINE L == {y \in Range(s) : y <= x}
             A == {j \in DOMAIN s : s[j] <= x}
  <2>1. A # {}
    <3> SUFFICES ASSUME A = {} PROVE FALSE
      OBVIOUS
    <3>1. AtMost(s, x) = 0
      BY FS_EmptySet DEF AtMost
    <3> QED  BY <1>2, <3>1, <1>1
  <2>2. L # {} /\ x \in Nat /\ L \in SUBSET Nat
    <3>1. PICK j \in DOMAIN s : s[j] <= x
      BY <2>1
    <3>2. s[j] \in Range(s) /\ s[j] \in Nat
      BY <1>1 DEF Range
    <3> QED  BY <3>1, <3>2, <1>1
  <2>3. PICK y \in L : \A z \in L : z <= y
    BY <2>2, Largest
  <2>4. y \in Nat /\ y <= x /\ y \in Range(s)
    BY <2>2, <2>3
  <2>5. {j \in DOMAIN s : s[j] <= y} = A
    <3>1. ASSUME NEW j \in DOMAIN s, s[j] <= x PROVE s[j] <= y
      BY <3>1, <2>3, <1>1 DEF Range
    <3>2. ASSUME NEW j \in DOMAIN s, s[j] <= y PROVE s[j] <= x
      BY <3>2, <2>4, <1>1
    <3> QED  BY <3>1, <3>2
  <2>6. AtMost(s, y) = AtMost(s, x)
    BY <2>5 DEF AtMost
  <2> QED  BY <2>4, <2>6, <1>2
<1>3. \E x \in Range(s) : P(x)
  <2>1. PICK b \in Range(s) : \A y \in Range(s) : y <= b
    <3>1. s \in [1..Len(s) -> Nat]
      BY <1>1
    <3>2. PICK b \in Nat : \A j \in 1..Len(s) : s[j] <= b
      BY <1>1, <3>1, Bounded
    <3>3. \A y \in Range(s) : y <= b
      BY <3>2, <1>1 DEF Range
    <3>4. Range(s) # {}
      BY <1>1 DEF Range
    <3> QED  BY <3>3, <3>4, <1>1, Largest
  <2>2. {j \in DOMAIN s : s[j] <= b} = 1..Len(s)
    BY <2>1, <1>1 DEF Range
  <2>3. AtMost(s, b) = Len(s)
    <3>1. Cardinality(1..Len(s)) = Len(s)
      BY SMTT(30), <1>1, FS_Interval
    <3> QED  BY <2>2, <3>1 DEF AtMost
  <2>4. Good # {} /\ Good \in SUBSET Nat
    BY <2>1, <2>3, <1>1
  <2>5. PICK x \in Good : \A y \in Good : x <= y
    BY <2>4, Least
  <2> QED  BY <2>5
<1>4. t = CHOOSE x \in Range(s) : P(x)
  BY DEF qsort_floats
<1> HIDE DEF t
<1>5. t \in Range(s) /\ P(t)
  BY <1>3, <1>4
<1>6. t \in Nat
  BY <1>5, <1>1
<1>7. ASSUME NEW x \in Int PROVE t <= x <=> i <= AtMost(s, x)
  <2>1. ASSUME t <= x PROVE i <= AtMost(s, x)
    <3>1. AtMost(s, t) <= AtMost(s, x) /\ AtMost(s, t) \in Nat /\ AtMost(s, x) \in Nat
      BY <1>6, <2>1, AtMostBounds
    <3> QED  BY <3>1, <1>5, <1>1
  <2>2. ASSUME i <= AtMost(s, x) PROVE t <= x
    <3>1. PICK y \in Good : y <= x
      BY <1>2, <2>2
    <3>2. t <= y /\ y \in Nat
      BY <1>5, <3>1, <1>1
    <3> QED  BY <3>1, <3>2, <1>6
  <2> QED  BY <2>1, <2>2
<1> QED  BY <1>5, <1>6, <1>7 DEF t

(* qsort permutes: it keeps how many elements there are of each size, and  *)
(* puts them in order.                                                     *)
LEMMA SortSorts ==
    ASSUME NEW V \in SUBSET Nat, NEW s \in Seq(V)
    PROVE  /\ qsort_floats(s) \in Seq(V) /\ Len(qsort_floats(s)) = Len(s)
           /\ DOMAIN qsort_floats(s) = 1..Len(s)
           /\ \A i, j \in 1..Len(s) : i <= j => qsort_floats(s)[i] <= qsort_floats(s)[j]
           /\ \A x \in Int : AtMost(qsort_floats(s), x) = AtMost(s, x)
<1> DEFINE t == qsort_floats(s)
<1>1. Len(s) \in Nat /\ DOMAIN s = 1..Len(s) /\ s \in Seq(Nat) /\ Range(s) \subseteq V
  <2>1. s \in [1..Len(s) -> V] /\ Len(s) \in Nat
    OBVIOUS
  <2>2. s \in [1..Len(s) -> Nat]
    BY <2>1
  <2> QED  BY <2>1, <2>2 DEF Range
<1>2. t = [i \in 1..Len(s) |-> t[i]]
  BY DEF qsort_floats
<1> HIDE DEF t
<1>3. \A i \in 1..Len(s) : /\ t[i] \in V /\ t[i] \in Nat
                           /\ \A x \in Int : t[i] <= x <=> i <= AtMost(s, x)
  BY <1>1, SortRank DEF t
<1>4. t \in [1..Len(s) -> V]
  BY <1>2, <1>3
<1>5. t \in Seq(V) /\ Len(t) = Len(s) /\ DOMAIN t = 1..Len(s)
  BY <1>4, <1>1
<1>6. ASSUME NEW i \in 1..Len(s), NEW j \in 1..Len(s), i <= j PROVE t[i] <= t[j]
  <2>1. j <= AtMost(s, t[j]) /\ t[j] \in Nat
    BY <1>3
  <2>2. AtMost(s, t[j]) \in Nat
    BY <2>1, <1>1, AtMostBounds
  <2>3. i <= AtMost(s, t[j])
    BY <2>1, <2>2, <1>6
  <2> QED  BY <2>1, <2>3, <1>3
<1>7. ASSUME NEW x \in Int PROVE AtMost(t, x) = AtMost(s, x)
  <2>1. AtMost(s, x) \in Nat /\ AtMost(s, x) <= Len(s)
    BY <1>1, AtMostBounds
  <2>2. {i \in DOMAIN t : t[i] <= x} = 1..AtMost(s, x)
    BY <1>3, <1>5, <1>1, <2>1
  <2>3. Cardinality(1..AtMost(s, x)) = AtMost(s, x)
    BY <2>1, FS_Interval
  <2> QED  BY <2>2, <2>3 DEF AtMost
<1> QED  BY <1>5, <1>6, <1>7 DEF t

(* Two ways to write a sequence of floats, and a count. *)
LEMMA SeqNat == ASSUME NEW s \in Seq(Values) PROVE s \in Seq(Nat)
<1>1. s \in [1..Len(s) -> Values] /\ Len(s) \in Nat
  OBVIOUS
<1>2. s \in [1..Len(s) -> Nat]
  BY <1>1, ValuesAssumption
<1> QED  BY <1>1, <1>2

LEMMA FirstN == ASSUME NEW n \in Nat PROVE Cardinality(1..n) = n
BY FS_Interval

(* How often an element occurs, from how many are at most that. *)
LEMMA TimesIs ==
    ASSUME NEW s \in Seq(Nat), NEW x \in Nat
    PROVE  Times(s, x) = AtMost(s, x) - AtMost(s, x - 1)
<1> DEFINE n == Len(s)
           B == {j \in 1..n : s[j] <= x - 1}
           C == {j \in 1..n : s[j] = x}
<1>1. n \in Nat /\ DOMAIN s = 1..n /\ \A j \in 1..n : s[j] \in Nat
  OBVIOUS
<1>2. {j \in 1..n : s[j] <= x} = B \cup C /\ B \cap C = {}
  BY <1>1
<1>3. B \in SUBSET (1..n) /\ C \in SUBSET (1..n)
  OBVIOUS
<1>4. Times(s, x) = Cardinality(C) /\ AtMost(s, x - 1) = Cardinality(B)
      /\ AtMost(s, x) = Cardinality(B \cup C)
  BY <1>1, <1>2 DEF Times, AtMost
<1> HIDE DEF B, C, n
<1>5. Cardinality(B \cup C) = Cardinality(B) + Cardinality(C)
  <2>1. n \in Nat
    BY <1>1
  <2>2. B \cap C = {}
    BY <1>2
  <2> QED  BY ONLY <2>1, <2>2, <1>3, Split
<1>6. Cardinality(B) \in Nat /\ Cardinality(C) \in Nat
  BY <1>1, <1>3, Counts
<1> QED  BY <1>4, <1>5, <1>6

-----------------------------------------------------------------------------
(* The order of the accesses. *)

(* How the loop index of sample_sort runs over the workers. *)
LEMMA NextIndex ==
    ASSUME NEW n \in Workers
    PROVE  (n + 1) % T = IF n + 1 = T THEN 0 ELSE n + 1
BY TAssumption DEF Workers

(* sample_sort allocates and fills T + 1 limits. *)
LEMMA LimitsLength ==
    ASSUME NEW f, NEW a, NEW b
    PROVE  Len(<<a>> \o [k \in 1..(T - 1) |-> f[3 * k - 1]] \o <<b>>) = T + 1
<1> DEFINE S == {f[3 * k - 1] : k \in 1..(T - 1)} \cup {a, b}
           m == [k \in 1..(T - 1) |-> f[3 * k - 1]]
<1>1. m \in [1..(T - 1) -> S]
  OBVIOUS
<1>2. a \in S /\ b \in S
  OBVIOUS
<1> HIDE DEF S, m
<1>3. m \in Seq(S) /\ Len(m) = T - 1
  BY <1>1, TAssumption
<1>4. <<a>> \in Seq(S) /\ <<b>> \in Seq(S) /\ Len(<<a>>) = 1 /\ Len(<<b>>) = 1
  BY <1>2
<1>5. <<a>> \o m \in Seq(S) /\ Len(<<a>> \o m) = T
  BY <1>3, <1>4, TAssumption
<1>6. Len((<<a>> \o m) \o <<b>>) = T + 1
  BY <1>4, <1>5, TAssumption
<1> QED  BY <1>6 DEF m

(* Before the medians are drawn no worker exists. *)
LEMMA InitOrdered == SortInit => Ordered
<1> SUFFICES ASSUME SortInit PROVE Ordered
  OBVIOUS
<1>1. input \in Seq(Values)
  BY MaxSizeAssumption DEF SortInit
<1>2. 0 \in Workers
  BY TAssumption DEF Workers
<1> QED  BY <1>1, <1>2 DEF SortInit, Ordered, Created, Met, Phases, Barrier!AInit

(* A step of sample_sort in the main thread keeps the order. *)
LEMMA MainOrdered == Ordered /\ Main => Ordered'
<1> SUFFICES ASSUME Ordered, Main PROVE Ordered'
  OBVIOUS
<1> USE DEF Ordered
<1>t. T \in Nat \ {0} /\ Workers = 0..(T - 1)
  BY TAssumption DEF Workers
<1>n. next \in Workers /\ (next + 1) % T = IF next + 1 = T THEN 0 ELSE next + 1
  BY NextIndex
<1>1. CASE Sample
  <2>1. Len(medians') = T + 1
    <3>1. PICK loc \in [1..(3 * (T - 1)) -> DOMAIN fs] :
            medians' = <<0>> \o [k \in 1..(T - 1) |->
                         qsort_floats([i \in DOMAIN loc |-> fs[loc[i]]])[3 * k - 1]]
                       \o <<INFINITY>>
      BY <1>1 DEF Sample
    <3> QED  BY <3>1, LimitsLength
  <2>2. Created'
    BY <1>1, <1>t, <2>1 DEF Sample, Created
  <2>3. Met'
    BY <1>1 DEF Sample, Met
  <2> QED  BY <1>1, <2>2, <2>3 DEF Sample
<1>2. CASE Create
  <2>1. /\ main = "create" /\ main' = IF next + 1 = T THEN "join" ELSE "create"
        /\ next' = IF next + 1 = T THEN 0 ELSE next + 1
        /\ phase' = [phase EXCEPT ![next] = "scan"]
        /\ UNCHANGED <<input, fs, medians, sizes, pos, range, arrived, left>>
    BY <1>2, <1>n DEF Create
  <2>2. phase[next] = "unborn" /\ next' \in Workers
    BY <2>1, <1>n, <1>t DEF Created
  <2>3. Created'
    BY <2>1, <2>2, <1>t, <1>n DEF Created
  <2>4. Met'
    BY <2>1, <2>2, <1>n DEF Met
  <2> QED  BY <2>1, <2>2, <2>3, <2>4 DEF Phases
<1>3. CASE Join
  <2>1. /\ main = "join" /\ phase[next] = "exited"
        /\ next' = IF next + 1 = T THEN 0 ELSE next + 1
        /\ UNCHANGED <<input, fs, sizes, phase, pos, range, arrived, left>>
    BY <1>3, <1>n DEF Join
  <2>2. next' \in Workers
    BY <2>1, <1>n, <1>t
  <2>3. Created'
    <3>1. CASE next + 1 = T
      <4>1. ASSUME NEW w \in Workers PROVE phase[w] = "exited"
        <5>1. w < next \/ w = next
          BY <3>1, <1>t, <1>n
        <5>2. CASE w < next
          BY <2>1, <5>2 DEF Created
        <5>3. CASE w = next
          BY <2>1, <5>3
        <5> QED  BY <5>1, <5>2, <5>3
      <4> QED  BY <1>3, <2>1, <3>1, <4>1 DEF Join, Created
    <3>2. CASE next + 1 # T
      BY <1>3, <2>1, <3>2, <1>t, <1>n DEF Join, Created
    <3> QED  BY <3>1, <3>2
  <2>4. Met'
    BY <2>1 DEF Met
  <2> QED  BY <1>3, <2>1, <2>2, <2>3, <2>4 DEF Join
<1>4. CASE Write
  BY <1>4 DEF Write, Created, Met
<1> QED  BY <1>1, <1>2, <1>3, <1>4 DEF Main

(* A step of sort_worker keeps the order. *)
LEMMA WorkerOrdered ==
    ASSUME Ordered, NEW w \in Workers, Worker(w)
    PROVE  Ordered'
<1> USE DEF Ordered
<1>1. CASE ScanOne(w)
  <2>1. /\ phase[w] = "scan" /\ pos[w] <= Len(fs) /\ fs = input /\ range[w] \in Seq(Values)
        /\ UNCHANGED <<input, fs, medians, sizes, phase, arrived, left, main, next>>
        /\ pos' = [pos EXCEPT ![w] = pos[w] + 1]
    BY <1>1 DEF ScanOne, Met
  <2>2. fs[pos[w]] \in Values
    BY <2>1
  <2>3. /\ DOMAIN range' = Workers /\ range'[w] \in Seq(Values)
        /\ \A v \in Workers \ {w} : range'[v] = range[v]
    BY <1>1, <2>1, <2>2 DEF ScanOne
  <2>4. Met'
    BY <2>1, <2>3 DEF Met
  <2>5. Created'
    BY <2>1 DEF Created
  <2>6. pos' \in [Workers -> Nat \ {0}]
    BY <2>1
  <2> QED  BY <2>1, <2>3, <2>4, <2>5, <2>6
<1>2. CASE Publish(w)
  <2>1. /\ phase[w] = "scan" /\ Len(range[w]) \in Nat
        /\ UNCHANGED <<input, fs, medians, arrived, left, main, next>>
        /\ pos' = [pos EXCEPT ![w] = 1] /\ phase' = [phase EXCEPT ![w] = "barrier"]
        /\ sizes' = [sizes EXCEPT ![w] = Len(range[w])]
        /\ DOMAIN range' = Workers /\ \A v \in Workers \ {w} : range'[v] = range[v]
    BY <1>2 DEF Publish, Met
  <2>2. Met'
    BY <2>1 DEF Met
  <2>3. Created'
    BY <2>1 DEF Created
  <2> QED  BY <2>1, <2>2, <2>3 DEF Phases
<1>3. CASE Arrive(w)
  <2>1. /\ phase[w] = "barrier" /\ arrived' = arrived \cup {w}
        /\ UNCHANGED <<input, fs, medians, sizes, phase, pos, range, main, next>>
    BY <1>3 DEF Arrive, Barrier!Arrive
  <2>2. Met'
    BY <2>1 DEF Met
  <2> QED  BY <2>1, <2>2 DEF Created
<1>4. CASE Leave(w)
  <2>1. /\ phase[w] = "barrier" /\ phase' = [phase EXCEPT ![w] = "copy"]
        /\ Workers \subseteq arrived
        /\ UNCHANGED <<input, fs, medians, sizes, pos, range, arrived, main, next>>
    BY <1>4 DEF Leave, Barrier!Leave
  <2>2. Met'
    BY <2>1 DEF Met
  <2>3. Created'
    BY <2>1 DEF Created
  <2> QED  BY <2>1, <2>2, <2>3 DEF Phases
<1>5. CASE CopyOne(w)
  <2>1. /\ phase[w] = "copy" /\ pos' = [pos EXCEPT ![w] = pos[w] + 1]
        /\ UNCHANGED <<input, medians, sizes, phase, range, arrived, left, main, next>>
    BY <1>5 DEF CopyOne
  <2>2. \A v \in Workers : phase[v] \notin {"unborn", "scan"}
    BY <2>1 DEF Met
  <2>3. Met'
    BY <2>1, <2>2 DEF Met
  <2> QED  BY <2>1, <2>3 DEF Created
<1>6. CASE Exit(w)
  <2>1. /\ phase[w] = "copy" /\ phase' = [phase EXCEPT ![w] = "exited"]
        /\ DOMAIN range' = Workers /\ \A v \in Workers \ {w} : range'[v] = range[v]
        /\ UNCHANGED <<input, fs, medians, sizes, pos, arrived, left, main, next>>
    BY <1>6 DEF Exit
  <2>2. Met'
    BY <2>1 DEF Met
  <2>3. Created'
    BY <2>1 DEF Created
  <2> QED  BY <2>1, <2>2, <2>3 DEF Phases
<1> QED  BY <1>1, <1>2, <1>3, <1>4, <1>5, <1>6 DEF Worker

(* Then medians and sizes are read only while they are there. *)
LEMMA OrderedFresh == Ordered => NoStaleMemory
<1> SUFFICES ASSUME Ordered PROVE NoStaleMemory
  OBVIOUS
<1>1. ASSUME NEW w \in Workers, Running(w) PROVE Len(medians) = T + 1
  BY <1>1 DEF Ordered, Created, Running
<1>2. ASSUME NEW w \in Workers, phase[w] = "copy", NEW v \in 0..w
      PROVE  sizes[v] # Uninit
  <2>1. v \in Workers
    BY TAssumption DEF Workers
  <2>2. phase[v] \in {"barrier", "copy", "exited"}
    BY <1>2, <2>1 DEF Ordered, Met
  <2> QED  BY <2>1, <2>2 DEF Ordered, Met, Uninit
<1> QED  BY <1>1, <1>2 DEF NoStaleMemory

(* Creation, barrier and joins order every access: Ordered is inductive    *)
(* and holds in every reachable state, however the threads interleave.     *)
THEOREM OrderKept == SortSpec => []Ordered
<1>1. SortInit => Ordered
  BY InitOrdered
<1>2. Ordered /\ [SortNext]_sortVars => Ordered'
  <2> SUFFICES ASSUME Ordered, [SortNext]_sortVars PROVE Ordered'
    OBVIOUS
  <2>1. CASE Main
    BY <2>1, MainOrdered
  <2>2. CASE \E w \in Workers : Worker(w)
    BY <2>2, WorkerOrdered
  <2>3. CASE UNCHANGED sortVars
    BY <2>3 DEF sortVars, Ordered, Created, Met
  <2> QED  BY <2>1, <2>2, <2>3 DEF SortNext
<1> QED  BY <1>1, <1>2, PTL DEF SortSpec

(* No worker reads medians that sample_sort has freed, and none adds up    *)
(* a size that its owner has not stored.                                   *)
THEOREM MemoryIsFresh == SortSpec => []NoStaleMemory
BY OrderedFresh, OrderKept, PTL

(* The array that every worker scans is written only when all of them have *)
(* finished scanning.                                                      *)
THEOREM ScansAreUndisturbed == SortSpec => NoWriteDuringScan
<1>1. Ordered /\ [SortNext]_sortVars
        => [fs' # fs => \A w \in Workers : phase[w] \notin {"unborn", "scan"}]_sortVars
  <2> SUFFICES ASSUME Ordered, SortNext, fs' # fs
               PROVE  \A w \in Workers : phase[w] \notin {"unborn", "scan"}
    OBVIOUS
  <2>1. PICK w \in Workers : CopyOne(w)
    BY DEF SortNext, Main, Worker, Sample, Create, Join, Write, ScanOne, Publish, Arrive,
           Leave, Exit
  <2> QED  BY <2>1 DEF CopyOne, Ordered, Met
<1> QED  BY <1>1, OrderKept, PTL DEF SortSpec, NoWriteDuringScan

-----------------------------------------------------------------------------
(* Ranges and their places in the array. *)
(* The sums of sizes that are the differences of B are B. *)
LEMMA StartIs ==
    ASSUME NEW B \in [0..T -> Int], B[0] = 0,
           \A w \in Workers : sizes[w] = B[w + 1] - B[w]
    PROVE  \A w \in Workers : start[w] = B[w]
<1> DEFINE Rec(f) == [w \in Workers |-> IF w = 0 THEN 0 ELSE f[w - 1] + sizes[w - 1]]
           f == [w \in Workers |-> B[w]]
<1>t. T \in Nat \ {0} /\ Workers = 0..(T - 1)
  BY TAssumption DEF Workers
<1>1. f = Rec(f)
  <2>1. ASSUME NEW w \in Workers PROVE B[w] = Rec(f)[w]
    <3>1. CASE w = 0
      BY <3>1, <1>t
    <3>2. CASE w # 0
      <4>1. w - 1 \in Workers /\ w \in 0..T /\ w - 1 \in 0..T
        BY <3>2, <1>t
      <4>2. sizes[w - 1] = B[w] - B[w - 1] /\ f[w - 1] = B[w - 1]
        BY <4>1, <1>t
      <4>3. B[w] \in Int /\ B[w - 1] \in Int
        BY <4>1
      <4> QED  BY <3>2, <4>2, <4>3
    <3> QED  BY <3>1, <3>2
  <2> QED  BY <2>1
<1>2. start = Rec(start)
  <2> HIDE DEF f
  <2>1. start = CHOOSE g : g = Rec(g)
    BY DEF start
  <2> HIDE DEF Rec
  <2> QED  BY <1>1, <2>1
<1> DEFINE Wrong == {w \in Workers : start[w] # B[w]}
<1>3. Wrong = {}
  <2> SUFFICES ASSUME Wrong # {} PROVE FALSE
    OBVIOUS
  <2>1. Wrong \in SUBSET Nat
    BY <1>t
  <2>2. PICK w \in Wrong : \A v \in Wrong : w <= v
    BY <2>1, Least
  <2>3. w \in Workers /\ start[w] # B[w]
    BY <2>2
  <2> HIDE DEF Wrong
  <2>4. start[w] = IF w = 0 THEN 0 ELSE start[w - 1] + sizes[w - 1]
    BY <1>2, <2>3
  <2>5. CASE w = 0
    BY <2>3, <2>4, <2>5
  <2>6. CASE w # 0
    <3>1. w - 1 \in Workers /\ w \in 0..T /\ w - 1 \in 0..T /\ ~(w <= w - 1)
      BY <2>3, <2>6, <1>t
    <3>2. start[w - 1] = B[w - 1]
      BY <2>2, <3>1 DEF Wrong
    <3>3. sizes[w - 1] = B[w] - B[w - 1]
      BY <3>1, <1>t
    <3>4. B[w] \in Int /\ B[w - 1] \in Int
      BY <3>1
    <3> QED  BY <2>3, <2>4, <2>6, <3>2, <3>3, <3>4
  <2> QED  BY <2>5, <2>6
<1> QED  BY <1>3

(* The elements of the range [lo, hi) of s, sorted, are the slice of s     *)
(* sorted between the elements below lo and those below hi.                *)
LEMMA SliceOf ==
    ASSUME NEW V \in SUBSET Nat, NEW s \in Seq(Nat), NEW r \in Seq(Nat),
           Range(s) \subseteq V, Range(r) \subseteq V,
           NEW lo \in Nat, NEW hi \in Nat, lo <= hi,
           \A k \in 1..Len(r) : lo <= r[k] /\ r[k] < hi,
           Len(r) = Cardinality({i \in 1..Len(s) : lo <= s[i] /\ s[i] < hi}),
           \A x \in V : AtMost(r, x)
              = Cardinality({i \in 1..Len(s) : lo <= s[i] /\ s[i] < hi /\ s[i] <= x})
    PROVE  /\ Len(r) = AtMost(s, hi - 1) - AtMost(s, lo - 1)
           /\ \A k \in 1..Len(r) : qsort_floats(r)[k] = qsort_floats(s)[AtMost(s, lo - 1) + k]
<1> DEFINE b == AtMost(s, lo - 1)
           e == AtMost(s, hi - 1)
<1>1. Len(s) \in Nat /\ DOMAIN s = 1..Len(s) /\ \A i \in 1..Len(s) : s[i] \in Nat
  OBVIOUS
<1>2. b \in Nat /\ e \in Nat /\ e <= Len(s) /\ Len(r) \in Nat
  BY AtMostBounds
<1>3. ASSUME NEW x \in Nat, lo - 1 <= x, x < hi
      PROVE  AtMost(s, x) = b + Cardinality({i \in 1..Len(s) : lo <= s[i] /\ s[i] < hi /\ s[i] <= x})
  <2> DEFINE A == {i \in 1..Len(s) : s[i] <= x}
             B == {i \in 1..Len(s) : s[i] <= lo - 1}
             C == {i \in 1..Len(s) : lo <= s[i] /\ s[i] < hi /\ s[i] <= x}
  <2>1. \A i \in 1..Len(s) : s[i] <= x <=> s[i] <= lo - 1 \/ (lo <= s[i] /\ s[i] < hi /\ s[i] <= x)
    BY <1>1, <1>3
  <2>2. \A i \in 1..Len(s) : ~(s[i] <= lo - 1 /\ lo <= s[i])
    BY <1>1
  <2>3. A = B \cup C
    BY <2>1
  <2>4. B \cap C = {}
    BY <2>2
  <2>5. AtMost(s, x) = Cardinality(A) /\ b = Cardinality(B)
    BY <1>1 DEF AtMost
  <2> HIDE DEF A, B, C, b
  <2>6. Cardinality(A) = Cardinality(B) + Cardinality(C)
    <3>1. Len(s) \in Nat
      BY <1>1
    <3>2. B \cap C = {}
      BY <2>4
    <3>3. B \in SUBSET (1..Len(s)) /\ C \in SUBSET (1..Len(s))
      BY DEF B, C
    <3>4. Cardinality(B \cup C) = Cardinality(B) + Cardinality(C)
      BY ONLY <3>1, <3>2, <3>3, Split
    <3> QED  BY <3>4, <2>3
  <2> QED  BY <2>5, <2>6 DEF C
<1>4. Len(r) = e - b
  <2>1. CASE lo = hi
    <3>1. {i \in 1..Len(s) : lo <= s[i] /\ s[i] < hi} = {}
      BY <2>1, <1>1
    <3> QED  BY SMTT(30), <2>1, <3>1, <1>2, FS_EmptySet
  <2>2. CASE lo < hi
    <3>1. {i \in 1..Len(s) : lo <= s[i] /\ s[i] < hi}
            = {i \in 1..Len(s) : lo <= s[i] /\ s[i] < hi /\ s[i] <= hi - 1}
      BY <1>1
    <3>2. hi - 1 \in Nat /\ lo - 1 <= hi - 1 /\ hi - 1 < hi
      BY <2>2
    <3>3. e = b + Len(r)
      BY <1>3, <3>1, <3>2
    <3> QED  BY <3>3, <1>2
  <2> QED  BY <2>1, <2>2
<1>5. ASSUME NEW k \in 1..Len(r)
      PROVE  qsort_floats(r)[k] = qsort_floats(s)[b + k]
  <2> DEFINE u == qsort_floats(r)[k]
             v == qsort_floats(s)[b + k]
  <2>1. b + k \in 1..Len(s) /\ b < b + k /\ b + k <= e
    BY SMTT(30), <1>2, <1>4
  <2>2. u \in Range(r) /\ u \in Nat /\ \A x \in Int : u <= x <=> k <= AtMost(r, x)
    BY SortRank
  <2>3. v \in Range(s) /\ v \in Nat /\ \A x \in Int : v <= x <=> b + k <= AtMost(s, x)
    BY <2>1, SortRank
  <2> HIDE DEF u, v
  <2>4. lo <= u /\ u < hi
    <3>1. PICK j \in DOMAIN r : u = r[j]
      BY <2>2 DEF Range
    <3>2. j \in 1..Len(r)
      BY <3>1
    <3> QED  BY <3>1, <3>2
  <2>5. lo <= v /\ v < hi
    <3>1. ~(v <= lo - 1) /\ v <= hi - 1
      <4>1. lo - 1 \in Int /\ hi - 1 \in Int
        OBVIOUS
      <4> QED  BY <2>1, <2>3, <4>1, <1>2
    <3> QED  BY <3>1, <2>3
  <2>6. ASSUME NEW x \in V, lo <= x, x < hi PROVE AtMost(s, x) = b + AtMost(r, x)
    <3>1. lo - 1 <= x
      BY <2>6
    <3>2. AtMost(s, x) = b + Cardinality({i \in 1..Len(s) : lo <= s[i] /\ s[i] < hi /\ s[i] <= x})
      BY <2>6, <3>1, <1>3
    <3>3. AtMost(r, x) = Cardinality({i \in 1..Len(s) : lo <= s[i] /\ s[i] < hi /\ s[i] <= x})
      BY <2>6
    <3> QED  BY <3>2, <3>3
  <2>7. v <= u
    <3>1. k <= AtMost(r, u) /\ AtMost(s, u) = b + AtMost(r, u) /\ AtMost(r, u) \in Nat
      BY <2>2, <2>4, <2>6, AtMostBounds
    <3> QED  BY <3>1, <2>2, <2>3, <1>2
  <2>8. u <= v
    <3>1. b + k <= AtMost(s, v) /\ AtMost(s, v) = b + AtMost(r, v) /\ AtMost(r, v) \in Nat
      BY <2>3, <2>5, <2>6, AtMostBounds
    <3> QED  BY <3>1, <2>2, <2>3, <1>2
  <2> QED  BY <2>7, <2>8, <2>2, <2>3 DEF u, v
<1> QED  BY <1>4, <1>5

(* INFINITY is above every float. *)
LEMMA Infinite == INFINITY \in Nat /\ \A v \in Values : v < INFINITY
<1> DEFINE m == CHOOSE m \in Values : \A v \in Values : v <= m
<1>1. m \in Values /\ \A v \in Values : v <= m
  BY ValuesAssumption
<1>2. INFINITY = 1 + m /\ m \in Nat
  BY <1>1, ValuesAssumption DEF INFINITY
<1> HIDE DEF m
<1>3. ASSUME NEW v \in Values PROVE v < INFINITY
  <2>1. v \in Nat /\ v <= m
    BY <1>1, ValuesAssumption
  <2> QED  BY <2>1, <1>2
<1> QED  BY <1>2, <1>3

(* What is in a list of limits. *)
LEMMA LimitsAre ==
    ASSUME NEW n \in Nat, NEW f \in [1..n -> Nat], NEW b \in Nat
    PROVE  LET m == <<0>> \o f \o <<b>>
           IN  /\ m \in [1..(n + 2) -> Nat]
               /\ m[1] = 0 /\ m[n + 2] = b
               /\ \A k \in 1..n : m[k + 1] = f[k]
<1> DEFINE m1 == <<0>> \o f
           m == m1 \o <<b>>
<1>1. f \in Seq(Nat) /\ Len(f) = n
  OBVIOUS
<1>2. <<0>> \in Seq(Nat) /\ <<b>> \in Seq(Nat) /\ Len(<<0>>) = 1 /\ Len(<<b>>) = 1
      /\ <<0>>[1] = 0 /\ <<b>>[1] = b
  OBVIOUS
<1>3. /\ m1 \in Seq(Nat) /\ Len(m1) = n + 1
      /\ \A k \in 1..(n + 1) : m1[k] = IF k <= 1 THEN 0 ELSE f[k - 1]
  BY <1>1, <1>2
<1> HIDE DEF m1
<1>4. /\ m \in Seq(Nat) /\ Len(m) = n + 2
      /\ \A k \in 1..(n + 2) : m[k] = IF k <= n + 1 THEN m1[k] ELSE b
  BY <1>2, <1>3
<1> HIDE DEF m
<1>5. m \in [1..(n + 2) -> Nat]
  BY <1>4
<1>6. m[1] = 0 /\ m[n + 2] = b
  <2>1. 1 \in 1..(n + 2) /\ n + 2 \in 1..(n + 2) /\ 1 <= n + 1 /\ ~(n + 2 <= n + 1)
        /\ 1 \in 1..(n + 1)
    OBVIOUS
  <2> QED  BY <2>1, <1>3, <1>4
<1>7. ASSUME NEW k \in 1..n PROVE m[k + 1] = f[k]
  <2>1. k + 1 \in 1..(n + 2) /\ k + 1 \in 1..(n + 1) /\ k + 1 <= n + 1 /\ ~(k + 1 <= 1)
        /\ (k + 1) - 1 = k
    OBVIOUS
  <2> QED  BY <2>1, <1>3, <1>4
<1> QED  BY <1>5, <1>6, <1>7 DEF m, m1

(* Where a range begins, in terms of what qsort keeps. *)
LEMMA BeginIs ==
    ASSUME input \in Seq(Values), Limits, NEW w \in 0..T
    PROVE  /\ Begin(w) = AtMost(input, medians[w + 1] - 1)
           /\ Begin(w) \in Nat /\ Begin(w) <= Len(input)
           /\ w < T => Begin(w) <= Begin(w + 1)
           /\ w = 0 => Begin(w) = 0
           /\ w = T => Begin(w) = Len(input)
<1>t. T \in Nat \ {0}
  BY TAssumption
<1>1. /\ Len(input) \in Nat /\ DOMAIN input = 1..Len(input) /\ input \in Seq(Nat)
      /\ \A i \in 1..Len(input) : input[i] \in Nat /\ input[i] \in Values
  <2>1. input \in [1..Len(input) -> Values] /\ Len(input) \in Nat
    OBVIOUS
  <2>2. input \in [1..Len(input) -> Nat]
    BY <2>1, ValuesAssumption
  <2> QED  BY <2>1, <2>2
<1>2. medians[w + 1] \in Nat
  BY <1>t DEF Limits
<1>3. ASSUME NEW u \in 0..T PROVE Begin(u) = AtMost(input, medians[u + 1] - 1)
  <2>1. medians[u + 1] \in Nat
    BY <1>t DEF Limits
  <2>2. {i \in DOMAIN input : input[i] < medians[u + 1]}
          = {i \in DOMAIN input : input[i] <= medians[u + 1] - 1}
    BY <2>1, <1>1
  <2> QED  BY <2>2 DEF Begin, AtMost
<1>4. Begin(w) \in Nat /\ Begin(w) <= Len(input)
  <2>1. medians[w + 1] - 1 \in Int /\ medians[w + 1] - 1 <= medians[w + 1] - 1
    BY <1>2
  <2> QED  BY <2>1, <1>1, <1>3, AtMostBounds
<1>5. ASSUME w < T PROVE Begin(w) <= Begin(w + 1)
  <2>1. w + 1 \in 0..T /\ w + 1 \in 1..T /\ (w + 1) + 1 \in 1..(T + 1)
    BY <1>5, <1>t
  <2>2. medians[w + 1] <= medians[(w + 1) + 1] /\ medians[(w + 1) + 1] \in Nat
    BY <2>1 DEF Limits
  <2>3. /\ medians[w + 1] - 1 <= medians[(w + 1) + 1] - 1
        /\ medians[w + 1] - 1 \in Int /\ medians[(w + 1) + 1] - 1 \in Int
    BY <2>2, <1>2
  <2>4. AtMost(input, medians[w + 1] - 1) <= AtMost(input, medians[(w + 1) + 1] - 1)
    BY <2>3, <1>1, AtMostBounds
  <2> QED  BY <2>1, <2>4, <1>3
<1>6. ASSUME w = 0 PROVE Begin(w) = 0
  <2>1. medians[w + 1] = 0
    BY <1>6 DEF Limits
  <2>2. {i \in DOMAIN input : input[i] < medians[w + 1]} = {}
    BY <2>1, <1>1
  <2> QED  BY <2>2, FS_EmptySet DEF Begin
<1>7. ASSUME w = T PROVE Begin(w) = Len(input)
  <2>1. {i \in DOMAIN input : input[i] < medians[w + 1]} = 1..Len(input)
    BY <1>7, <1>1 DEF Limits
  <2>2. Cardinality(1..Len(input)) = Len(input)
    <3>1. Len(input) \in Nat
      BY <1>1
    <3> QED  BY <3>1, FirstN
  <2> QED  BY <2>1, <2>2 DEF Begin
<1> QED  BY <1>3, <1>4, <1>5, <1>6, <1>7

(* The i-th place belongs to the range of some worker. *)
LEMMA SomeSlice ==
    ASSUME input \in Seq(Values), Limits, NEW i \in 1..Len(input)
    PROVE  \E w \in Workers : i \in (Begin(w) + 1)..Begin(w + 1)
<1>t. T \in Nat \ {0} /\ Workers = 0..(T - 1) /\ Len(input) \in Nat
  BY TAssumption DEF Workers
<1> DEFINE R == {u \in 0..T : i <= Begin(u)}
<1>1. T \in 0..T /\ 0 \in 0..T
  BY <1>t
<1>2. Begin(T) = Len(input) /\ Begin(0) = 0
  BY <1>1, BeginIs
<1>3. R # {} /\ R \in SUBSET Nat
  BY <1>1, <1>2, <1>t
<1>4. PICK u \in R : \A v \in R : u <= v
  BY <1>3, Least
<1>5. u # 0 /\ u \in 0..T /\ i <= Begin(u)
  BY <1>4, <1>2, <1>t
<1>6. u - 1 \in Workers /\ u - 1 \in 0..T /\ (u - 1) + 1 = u /\ ~(u <= u - 1)
  BY <1>5, <1>t
<1>7. ~(i <= Begin(u - 1)) /\ Begin(u - 1) \in Nat /\ Begin(u) \in Nat
  BY <1>4, <1>5, <1>6, BeginIs
<1>8. i \in (Begin(u - 1) + 1)..Begin((u - 1) + 1)
  BY <1>5, <1>6, <1>7, <1>t
<1> QED  BY <1>6, <1>8

(* A step keeps what is said about a worker that it does not touch. *)
LEMMA Framed ==
    ASSUME NEW v, Sliced(v), input' = input, medians' = medians, sizes'[v] = sizes[v],
           phase'[v] = phase[v], pos'[v] = pos[v], range'[v] = range[v],
           \A i : InPlace(i) => InPlace(i)'
    PROVE  Sliced(v)'
<1>1. Begin(v)' = Begin(v) /\ Begin(v + 1)' = Begin(v + 1)
  BY DEF Begin
<1>2. Scanned(v) => Scanned(v)'
  BY DEF Scanned, InRange
<1>3. Slice(v) => Slice(v)'
  BY <1>1 DEF Slice, Sorted
<1> QED  BY <1>1, <1>2, <1>3 DEF Sliced

(* A worker that starts its scan has nothing yet. *)
LEMMA FirstScan ==
    ASSUME NEW w \in Workers, input \in Seq(Values), range[w] = <<>>, pos[w] = 1
    PROVE  Scanned(w)
<1> DEFINE had == {i \in 1..(pos[w] - 1) : InRange(w, input[i])}
<1>1. had = {} /\ \A x : {i \in had : input[i] <= x} = {}
  OBVIOUS
<1>2. Len(<<>>) = 0 /\ <<>> \in Seq(Values) /\ DOMAIN <<>> = {} /\ Len(input) \in Nat
  OBVIOUS
<1>3. \A x : {j \in DOMAIN <<>> : <<>>[j] <= x} = {}
  BY <1>2
<1>4. \A x : AtMost(<<>>, x) = 0
  BY <1>3, FS_EmptySet DEF AtMost
<1> HIDE DEF had
<1>5. Cardinality(had) = 0 /\ \A x : Cardinality({i \in had : input[i] <= x}) = 0
  BY <1>1, FS_EmptySet
<1> QED  BY <1>2, <1>4, <1>5 DEF Scanned, had

(* Reading one more element. *)
LEMMA AtMostAppend ==
    ASSUME NEW r \in Seq(Nat), NEW e \in Nat, NEW x \in Nat
    PROVE  AtMost(Append(r, e), x) = AtMost(r, x) + (IF e <= x THEN 1 ELSE 0)
<1> DEFINE A == {j \in DOMAIN r : r[j] <= x}
           B == {j \in DOMAIN Append(r, e) : Append(r, e)[j] <= x}
           n == Len(r) + 1
<1>1. /\ Len(r) \in Nat /\ DOMAIN r = 1..Len(r) /\ DOMAIN Append(r, e) = 1..n
      /\ Append(r, e)[n] = e /\ \A j \in 1..Len(r) : Append(r, e)[j] = r[j]
  OBVIOUS
<1>2. A \in SUBSET (1..Len(r)) /\ n \notin A
  BY <1>1
<1>3. IsFiniteSet(A) /\ Cardinality(A) \in Nat
  BY <1>1, <1>2, Counts
<1>4. B = IF e <= x THEN A \cup {n} ELSE A
  <2>1. \A j : j \in 1..n <=> j \in 1..Len(r) \/ j = n
    BY <1>1
  <2> QED  BY <1>1, <2>1
<1>5. AtMost(Append(r, e), x) = Cardinality(B) /\ AtMost(r, x) = Cardinality(A)
  BY DEF AtMost
<1> HIDE DEF A, B, n
<1>6. CASE e <= x
  BY <1>2, <1>3, <1>4, <1>5, <1>6, FS_AddElement
<1>7. CASE ~(e <= x)
  BY <1>3, <1>4, <1>5, <1>7
<1> QED  BY <1>6, <1>7

(* Counting over one more place. *)
LEMMA CountNext ==
    ASSUME NEW n \in Nat, NEW A \in SUBSET (1..n)
    PROVE  Cardinality(A) \in Nat /\ Cardinality(A \cup {n + 1}) = Cardinality(A) + 1
<1>1. n + 1 \notin A
  OBVIOUS
<1>2. IsFiniteSet(A) /\ Cardinality(A) \in Nat
  BY Counts
<1> QED  BY <1>1, <1>2, FS_AddElement

(* in_range keeps exactly the elements of the range that it has passed. *)
LEMMA ScanSlices ==
    ASSUME NEW w \in Workers, Ordered, Slices, ScanOne(w)
    PROVE  Scanned(w)'
<1>t. T \in Nat \ {0} /\ Workers = 0..(T - 1)
  BY TAssumption DEF Workers
<1> DEFINE p == pos[w]
           e == input[p]
           r == range[w]
           had == {i \in 1..(p - 1) : InRange(w, input[i])}
           had1 == {i \in 1..p : InRange(w, input[i])}
<1>1. /\ phase[w] = "scan" /\ fs = input /\ p <= Len(input) /\ p \in Nat \ {0}
      /\ main \in {"create", "join"} /\ input \in Seq(Values) /\ DOMAIN range = Workers
      /\ pos' = [pos EXCEPT ![w] = p + 1] /\ pos \in [Workers -> Nat \ {0}]
      /\ range' = IF InRange(w, e) THEN [range EXCEPT ![w] = Append(r, e)] ELSE range
      /\ UNCHANGED <<input, fs, medians, sizes, phase, arrived, left, main, next>>
  BY DEF ScanOne, Ordered, Met, Created
<1>2. Scanned(w) /\ Limits
  BY <1>1 DEF Slices, Sliced
<1>3. /\ r \in Seq(Values) /\ Len(r) = Cardinality(had)
      /\ \A k \in DOMAIN r : InRange(w, r[k])
      /\ \A x \in Values : AtMost(r, x) = Cardinality({i \in had : input[i] <= x})
  BY <1>2 DEF Scanned
<1>4. Len(input) \in Nat /\ \A i \in 1..Len(input) : input[i] \in Values
  BY <1>1
<1>5. e \in Values /\ e \in Nat /\ r \in Seq(Nat)
  <2>1. e \in Values /\ e \in Nat
    <3>1. p \in 1..Len(input)
      BY <1>1, <1>4
    <3> HIDE DEF p
    <3> QED  BY <3>1, <1>4, ValuesAssumption
  <2>2. r \in [1..Len(r) -> Values] /\ Len(r) \in Nat
    <3>1. r \in Seq(Values)
      BY <1>3
    <3> HIDE DEF r
    <3> QED  BY <3>1
  <2>3. r \in [1..Len(r) -> Nat]
    BY <2>2, ValuesAssumption
  <2> QED  BY <2>1, <2>2, <2>3
<1>6. pos'[w] = p + 1 /\ (p + 1) - 1 = p /\ p - 1 \in Nat /\ p = (p - 1) + 1
      /\ p + 1 <= Len(input) + 1
  BY <1>1, <1>4
<1>7. range'[w] = IF InRange(w, e) THEN Append(r, e) ELSE r
  BY <1>1
<1>8. had1 = IF InRange(w, e) THEN had \cup {p} ELSE had
  <2>1. \A j : j \in 1..p <=> j \in 1..(p - 1) \/ j = p
    BY <1>6
  <2> QED  BY <2>1
<1>9. had \in SUBSET (1..(p - 1))
  OBVIOUS
<1>10. \A x : InRange(w, x)' = InRange(w, x)
  BY <1>1 DEF InRange
<1> HIDE DEF had, had1, p, e, r
<1>11. SUFFICES /\ range'[w] \in Seq(Values) /\ Len(range'[w]) = Cardinality(had1)
                /\ \A k \in DOMAIN range'[w] : InRange(w, range'[w][k])
                /\ \A x \in Values : AtMost(range'[w], x) = Cardinality({i \in had1 : input[i] <= x})
  <2>1. \A i : InRange(w, input[i])' = InRange(w, input[i])
    BY <1>1 DEF InRange
  <2>2. {i \in 1..(pos[w] - 1) : InRange(w, input[i])}' = had1
    BY <1>6, <2>1 DEF had1
  <2>3. \A k : InRange(w, range[w][k])' = InRange(w, range'[w][k])
    BY <1>1 DEF InRange
  <2>4. input' = input /\ pos'[w] <= Len(input) + 1
    BY <1>1, <1>6
  <2> HIDE DEF had1
  <2> QED  BY <2>2, <2>3, <2>4 DEF Scanned
<1>12. CASE ~InRange(w, e)
  BY <1>12, <1>3, <1>7, <1>8
<1>13. CASE InRange(w, e)
  <2>1. range'[w] = Append(r, e) /\ had1 = had \cup {p}
    BY <1>13, <1>7, <1>8
  <2>2. Append(r, e) \in Seq(Values) /\ Len(Append(r, e)) = Len(r) + 1
    BY <1>3, <1>5
  <2>3. Cardinality(had \cup {p}) = Cardinality(had) + 1
    <3>1. Cardinality(had \cup {(p - 1) + 1}) = Cardinality(had) + 1
      BY <1>6, <1>9, CountNext
    <3> QED  BY <3>1, <1>6
  <2>4. ASSUME NEW k \in DOMAIN Append(r, e) PROVE InRange(w, Append(r, e)[k])
    <3>1. (k \in DOMAIN r /\ Append(r, e)[k] = r[k]) \/ Append(r, e)[k] = e
      BY <1>3, <1>5
    <3> QED  BY <3>1, <1>3, <1>13
  <2>5. ASSUME NEW x \in Values
        PROVE  AtMost(Append(r, e), x) = Cardinality({i \in had1 : input[i] <= x})
    <3> DEFINE A == {i \in had : input[i] <= x}
    <3>1. x \in Nat
      BY ValuesAssumption
    <3>2. A \in SUBSET (1..(p - 1))
      BY <1>9
    <3>3. {i \in had1 : input[i] <= x} = IF e <= x THEN A \cup {p} ELSE A
      BY <2>1 DEF e
    <3>4. AtMost(r, x) = Cardinality(A)
      BY <1>3
    <3> HIDE DEF A
    <3>5. Cardinality(A) \in Nat /\ Cardinality(A \cup {(p - 1) + 1}) = Cardinality(A) + 1
      BY <1>6, <3>2, CountNext
    <3>6. Cardinality(A \cup {p}) = Cardinality(A) + 1
      BY <3>5, <1>6
    <3>7. AtMost(Append(r, e), x) = AtMost(r, x) + (IF e <= x THEN 1 ELSE 0)
      BY <3>1, <1>5, AtMostAppend
    <3>8. CASE e <= x
      BY <3>3, <3>4, <3>6, <3>7, <3>8
    <3>9. CASE ~(e <= x)
      <4>1. AtMost(Append(r, e), x) = Cardinality(A) + 0
        BY <3>4, <3>7, <3>9
      <4>2. {i \in had1 : input[i] <= x} = A
        BY <3>3, <3>9
      <4>3. Cardinality(A) + 0 = Cardinality(A)
        BY <3>5
      <4> QED  BY <4>1, <4>2, <4>3, Zenon
    <3> QED  BY <3>8, <3>9
  <2> QED  BY <2>1, <2>2, <2>3, <2>4, <2>5, <1>3
<1> QED  BY <1>12, <1>13

(* Sorted after the scan, a range is a slice of the sorted input. *)
LEMMA PublishSlices ==
    ASSUME NEW w \in Workers, Ordered, Slices, Publish(w)
    PROVE  Slice(w)' /\ sizes'[w] = (Begin(w + 1) - Begin(w))' /\ sizes'[w] \in 0..Len(input)
<1>t. T \in Nat \ {0} /\ Workers = 0..(T - 1)
  BY TAssumption DEF Workers
<1> DEFINE r == range[w]
           lo == medians[w + 1]
           hi == medians[(w + 1) + 1]
           n == Len(input)
<1>1. /\ phase[w] = "scan" /\ fs = input /\ pos[w] > n /\ pos[w] \in Nat \ {0}
      /\ main \in {"create", "join"} /\ input \in Seq(Values) /\ DOMAIN range = Workers
      /\ DOMAIN sizes = Workers
      /\ sizes' = [sizes EXCEPT ![w] = Len(r)]
      /\ range' = [range EXCEPT ![w] = qsort_floats(r)]
      /\ input' = input /\ medians' = medians
  BY DEF Publish, Ordered, Met, Created
<1>2. Scanned(w) /\ Limits
  BY <1>1 DEF Slices, Sliced
<1>3. /\ n \in Nat /\ input \in Seq(Nat) /\ DOMAIN input = 1..n
      /\ \A i \in 1..n : input[i] \in Values /\ input[i] \in Nat
  <2>1. input \in [1..n -> Values] /\ n \in Nat
    BY <1>1
  <2>2. input \in [1..n -> Nat]
    BY <2>1, ValuesAssumption
  <2> QED  BY <2>1, <2>2
<1>4. pos[w] - 1 = n
  BY <1>1, <1>2, <1>3 DEF Scanned
<1>5. w + 1 \in 1..T /\ (w + 1) + 1 \in 1..(T + 1) /\ w \in 0..T /\ w + 1 \in 0..T
      /\ w + 2 = (w + 1) + 1 /\ w + 1 \in 1..(T + 1)
  BY <1>t
<1>6. lo \in Nat /\ hi \in Nat /\ lo <= hi
  BY <1>2, <1>5 DEF Limits
<1>7. \A x : InRange(w, x) <=> lo <= x /\ x < hi
  BY <1>5 DEF InRange
<1> HIDE DEF lo, hi
<1>8. /\ r \in Seq(Values) /\ Len(r) = Cardinality({i \in 1..n : lo <= input[i] /\ input[i] < hi})
      /\ \A k \in DOMAIN r : lo <= r[k] /\ r[k] < hi
      /\ \A x \in Values : AtMost(r, x)
           = Cardinality({i \in 1..n : lo <= input[i] /\ input[i] < hi /\ input[i] <= x})
  <2> DEFINE had == {i \in 1..(pos[w] - 1) : InRange(w, input[i])}
  <2>1. had = {i \in 1..n : lo <= input[i] /\ input[i] < hi}
    BY <1>4, <1>7
  <2>2. \A x : {i \in had : input[i] <= x}
              = {i \in 1..n : lo <= input[i] /\ input[i] < hi /\ input[i] <= x}
    BY <2>1
  <2>3. /\ r \in Seq(Values) /\ Len(r) = Cardinality(had)
        /\ \A k \in DOMAIN r : InRange(w, r[k])
        /\ \A x \in Values : AtMost(r, x) = Cardinality({i \in had : input[i] <= x})
    BY <1>2 DEF Scanned
  <2> HIDE DEF had
  <2> QED  BY <2>1, <2>2, <2>3, <1>7
<1> HIDE DEF r, n
<1>9. r \in Seq(Nat) /\ DOMAIN r = 1..Len(r) /\ Len(r) \in Nat
  <2>1. r \in [1..Len(r) -> Values] /\ Len(r) \in Nat
    <3>1. r \in Seq(Values)
      BY <1>8
    <3> QED  BY <3>1
  <2>2. r \in [1..Len(r) -> Nat]
    BY <2>1, ValuesAssumption
  <2> QED  BY <2>1, <2>2
<1>10. Range(input) \subseteq Values /\ Range(r) \subseteq Values
  BY <1>3, <1>8, <1>9 DEF Range
<1>11. \A k \in 1..Len(r) : lo <= r[k] /\ r[k] < hi
  BY <1>8, <1>9
<1>12. /\ Len(r) = AtMost(input, hi - 1) - AtMost(input, lo - 1)
       /\ \A k \in 1..Len(r) :
            qsort_floats(r)[k] = qsort_floats(input)[AtMost(input, lo - 1) + k]
  <2>1. Values \in SUBSET Nat
    BY ValuesAssumption
  <2>2. Len(r) = Cardinality({i \in 1..Len(input) : lo <= input[i] /\ input[i] < hi})
    BY <1>8 DEF n
  <2>3. \A x \in Values : AtMost(r, x)
          = Cardinality({i \in 1..Len(input) : lo <= input[i] /\ input[i] < hi /\ input[i] <= x})
    BY <1>8 DEF n
  <2>4. input \in Seq(Nat) /\ r \in Seq(Nat)
    BY <1>3, <1>9
  <2> QED  BY ONLY ZenonT(40), <1>6, <1>10, <1>11, <2>1, <2>2, <2>3, <2>4, SliceOf
<1>13. Begin(w) = AtMost(input, lo - 1) /\ Begin(w) \in Nat
  BY <1>1, <1>2, <1>5, BeginIs DEF lo
<1>14. Begin(w + 1) = AtMost(input, hi - 1) /\ Begin(w + 1) \in Nat /\ Begin(w + 1) <= n
  BY <1>1, <1>2, <1>5, BeginIs DEF hi, n
<1>15. /\ qsort_floats(r) \in Seq(Values) /\ Len(qsort_floats(r)) = Len(r)
       /\ DOMAIN qsort_floats(r) = 1..Len(r)
  BY <1>8, SortSorts, ValuesAssumption
<1>16. Begin(w)' = Begin(w) /\ Begin(w + 1)' = Begin(w + 1) /\ Sorted' = Sorted
  BY <1>1 DEF Begin, Sorted
<1>17. range'[w] = qsort_floats(r) /\ sizes'[w] = Len(r)
  BY <1>1
<1>18. Slice(w)'
  BY <1>12, <1>13, <1>14, <1>15, <1>16, <1>17 DEF Slice, Sorted
<1>19. sizes'[w] = Begin(w + 1) - Begin(w) /\ sizes'[w] \in 0..n
  BY <1>3, <1>9, <1>12, <1>13, <1>14, <1>17 DEF n
<1> QED  BY <1>16, <1>18, <1>19 DEF n

(* CopyOne writes the next element of its slice to where it belongs. *)
LEMMA CopySlices ==
    ASSUME NEW w \in Workers, Ordered, Slices, SortTypeOK, CopyOne(w)
    PROVE  /\ Begin(w) \in Nat /\ Begin(w) + pos[w] \in 1..Len(input)
           /\ fs' = [fs EXCEPT ![Begin(w) + pos[w]] = Sorted[Begin(w) + pos[w]]]
           /\ range[w][pos[w]] \in Values /\ Slice(w) /\ pos[w] <= Len(range[w])
           /\ range[w][pos[w]] = Sorted[Begin(w) + pos[w]]
<1>t. T \in Nat \ {0} /\ Workers = 0..(T - 1)
  BY TAssumption DEF Workers
<1>1. /\ phase[w] = "copy" /\ pos[w] <= Len(range[w]) /\ pos[w] \in Nat \ {0}
      /\ input \in Seq(Values) /\ main \in {"create", "join"}
      /\ \A v \in Workers : phase[v] \in {"barrier", "copy", "exited"}
      /\ fs' = [fs EXCEPT ![start[w] + pos[w]] = range[w][pos[w]]]
  BY DEF CopyOne, Ordered, Met, Created
<1>2. Limits /\ \A v \in Workers : sizes[v] = Begin(v + 1) - Begin(v)
  BY <1>1 DEF Slices, Sliced
<1>3. Slice(w)
  BY <1>1 DEF Slices, Sliced
<1>4. \A v \in 0..T : Begin(v) \in Nat /\ Begin(v) <= Len(input)
  BY <1>1, <1>2, BeginIs
<1>5. start[w] = Begin(w)
  <2> DEFINE B == [v \in 0..T |-> Begin(v)]
  <2>1. B \in [0..T -> Int]
    BY <1>4
  <2>2. B[0] = 0
    <3>1. 0 \in 0..T
      BY <1>t
    <3> QED  BY <3>1, <1>1, <1>2, BeginIs
  <2>3. ASSUME NEW v \in Workers PROVE sizes[v] = B[v + 1] - B[v]
    <3>1. v \in 0..T /\ v + 1 \in 0..T
      BY <1>t
    <3> QED  BY <3>1, <1>2
  <2>4. w \in 0..T
    BY <1>t
  <2>5. B[w] = Begin(w)
    BY <2>4
  <2> HIDE DEF B
  <2> QED  BY <2>1, <2>2, <2>3, <2>5, StartIs
<1>6. w \in 0..T /\ w + 1 \in 0..T
  BY <1>t
<1>7. /\ range[w] \in Seq(Values) /\ Len(range[w]) = Begin(w + 1) - Begin(w)
      /\ \A k \in DOMAIN range[w] : range[w][k] = Sorted[Begin(w) + k]
  BY <1>3 DEF Slice
<1>8. pos[w] \in 1..Len(range[w]) /\ DOMAIN range[w] = 1..Len(range[w])
  BY <1>1, <1>7
<1>9. range[w][pos[w]] = Sorted[Begin(w) + pos[w]] /\ range[w][pos[w]] \in Values
  BY <1>7, <1>8
<1>10. Begin(w) + pos[w] \in 1..Len(input)
  <2>1. /\ Begin(w) \in Nat /\ Begin(w + 1) \in Nat /\ Begin(w + 1) <= Len(input)
        /\ Len(input) \in Nat
    BY <1>1, <1>4, <1>6
  <2> QED  BY <2>1, <1>7, <1>8
<1> QED  BY <1>1, <1>3, <1>4, <1>5, <1>6, <1>9, <1>10

(* The middle ones of the sorted samples are limits in order. *)
LEMMA SampleSlices ==
    ASSUME Ordered, SortTypeOK, Sample
    PROVE  Limits'
<1>t. T \in Nat \ {0} /\ 3 * (T - 1) \in Nat /\ T - 1 \in Nat /\ (T - 1) + 2 = T + 1
  BY TAssumption
<1> DEFINE n == 3 * (T - 1)
<1>1. PICK loc \in [1..n -> DOMAIN fs] :
        medians' = <<0>> \o [k \in 1..(T - 1) |->
                     qsort_floats([i \in DOMAIN loc |-> fs[loc[i]]])[3 * k - 1]] \o <<INFINITY>>
  BY DEF Sample
<1> DEFINE s == [i \in DOMAIN loc |-> fs[loc[i]]]
           q == qsort_floats(s)
           f == [k \in 1..(T - 1) |-> q[3 * k - 1]]
<1>2. s \in [1..n -> Values]
  BY DEF SortTypeOK
<1> HIDE DEF s, n
<1>3. s \in Seq(Values) /\ Len(s) = n
  BY <1>2, <1>t DEF n
<1>4. /\ q \in Seq(Values) /\ DOMAIN q = 1..n /\ Len(q) = n
      /\ \A i, j \in 1..n : i <= j => q[i] <= q[j]
  BY <1>3, SortSorts, ValuesAssumption
<1> HIDE DEF q
<1>5. \A i \in 1..n : q[i] \in Nat
  <2>1. q \in [1..n -> Values]
    BY <1>4
  <2> QED  BY <2>1, ValuesAssumption
<1>6. \A k \in 1..(T - 1) : 3 * k - 1 \in 1..n
  BY <1>t DEF n
<1>7. f \in [1..(T - 1) -> Nat]
  BY <1>5, <1>6
<1>8. ASSUME NEW k \in 1..(T - 1), NEW j \in 1..(T - 1), k <= j PROVE f[k] <= f[j]
  <2>1. 3 * k - 1 <= 3 * j - 1
    BY <1>8
  <2> QED  BY <2>1, <1>4, <1>6
<1>9. medians' = <<0>> \o f \o <<INFINITY>>
  BY <1>1 DEF q, s
<1> HIDE DEF f
<1>10. /\ medians' \in [1..((T - 1) + 2) -> Nat]
       /\ medians'[1] = 0 /\ medians'[(T - 1) + 2] = INFINITY
       /\ \A k \in 1..(T - 1) : medians'[k + 1] = f[k]
  <2>1. T - 1 \in Nat /\ INFINITY \in Nat
    BY <1>t, Infinite
  <2>2. LET m == <<0>> \o f \o <<INFINITY>>
        IN  /\ m \in [1..((T - 1) + 2) -> Nat]
            /\ m[1] = 0 /\ m[(T - 1) + 2] = INFINITY
            /\ \A k \in 1..(T - 1) : m[k + 1] = f[k]
    BY ONLY <2>1, <1>7, LimitsAre
  <2> QED  BY <2>2, <1>9
<1>11. medians' \in [1..(T + 1) -> Nat] /\ medians'[1] = 0 /\ medians'[T + 1] = INFINITY
  BY <1>10, <1>t
<1>12. ASSUME NEW k \in 1..T PROVE medians'[k] <= medians'[k + 1]
  <2>1. k \in 1..(T + 1) /\ k + 1 \in 1..(T + 1)
    BY <1>t
  <2>2. medians'[k] \in Nat /\ medians'[k + 1] \in Nat
    BY <2>1, <1>11
  <2>3. CASE k = 1
    BY <2>2, <2>3, <1>11
  <2>4. CASE k # 1 /\ k # T
    <3>1. k - 1 \in 1..(T - 1) /\ k \in 1..(T - 1) /\ (k - 1) + 1 = k /\ k - 1 <= k
      BY <2>4, <1>t
    <3>2. medians'[k] = f[k - 1] /\ medians'[k + 1] = f[k]
      BY <3>1, <1>10
    <3> QED  BY <3>1, <3>2, <1>8
  <2>5. CASE k # 1 /\ k = T
    <3>1. k - 1 \in 1..(T - 1) /\ (k - 1) + 1 = k /\ 3 * (k - 1) - 1 \in 1..n
      BY <2>5, <1>t, <1>6
    <3>2. medians'[k] = f[k - 1] /\ medians'[k + 1] = INFINITY
      BY <2>5, <3>1, <1>10, <1>11
    <3>3. f[k - 1] \in Values
      BY <3>1, <1>4 DEF f
    <3>4. f[k - 1] < INFINITY /\ INFINITY \in Nat /\ f[k - 1] \in Nat
      BY <3>3, Infinite, ValuesAssumption
    <3> QED  BY <3>2, <3>4
  <2> QED  BY <2>3, <2>4, <2>5
<1> QED  BY <1>11, <1>12, Infinite DEF Limits

(* The limits and the ranges in every state: a step of the main thread. *)
LEMMA MainSlices ==
    ASSUME Ordered, SortTypeOK, Slices, Main
    PROVE  Slices'
<1>t. T \in Nat \ {0} /\ Workers = 0..(T - 1)
  BY TAssumption DEF Workers
<1>1. CASE Sample
  <2>1. /\ main = "sample" /\ main' = "create" /\ phase' = phase /\ pos' = pos /\ range' = range
    BY <1>1 DEF Sample
  <2>2. Limits'
    BY <1>1, SampleSlices
  <2>3. ASSUME NEW w \in Workers PROVE Sliced(w)'
    <3>1. phase[w] = "unborn" /\ range[w] = <<>> /\ pos[w] = 1
      BY <2>1 DEF Ordered, Created, Slices
    <3> QED  BY <2>1, <3>1 DEF Sliced
  <2> QED  BY <2>1, <2>2, <2>3 DEF Slices
<1>2. CASE Create
  <2>1. /\ main = "create" /\ main' \in {"create", "join"} /\ next \in Workers
        /\ phase' = [phase EXCEPT ![next] = "scan"] /\ phase \in [Workers -> Phases]
        /\ phase[next] = "unborn" /\ input \in Seq(Values)
        /\ UNCHANGED <<input, fs, medians, sizes, pos, range>>
    BY <1>2, <1>t DEF Create, Ordered, Created
  <2>2. Limits /\ \A w \in Workers : Sliced(w)
    BY <2>1 DEF Slices
  <2>3. Limits'
    BY <2>1, <2>2 DEF Limits
  <2>4. ASSUME NEW w \in Workers PROVE Sliced(w)'
    <3>1. CASE w = next
      <4>1. range[w] = <<>> /\ pos[w] = 1
        BY <2>1, <2>2, <3>1 DEF Sliced
      <4>2. Scanned(w)
        BY <4>1, <2>1, FirstScan
      <4>3. Scanned(w)'
        BY <4>2, <2>1 DEF Scanned, InRange
      <4>4. phase'[w] = "scan"
        BY <2>1, <3>1
      <4> QED  BY <4>3, <4>4 DEF Sliced
    <3>2. CASE w # next
      <4>1. phase'[w] = phase[w]
        BY <2>1, <3>2
      <4>2. \A i : InPlace(i) => InPlace(i)'
        BY <2>1 DEF InPlace, Sorted
      <4> QED  BY <2>1, <2>2, <4>1, <4>2, Framed
    <3> QED  BY <3>1, <3>2
  <2> QED  BY <2>1, <2>3, <2>4 DEF Slices
<1>3. CASE Join
  <2>1. /\ main = "join" /\ next \in Workers /\ input \in Seq(Values) /\ phase[next] = "exited"
        /\ \A w \in Workers : w < next => phase[w] = "exited"
        /\ UNCHANGED <<input, fs, sizes, phase, pos, range>>
    BY <1>3 DEF Join, Ordered, Created
  <2>2. Limits /\ \A w \in Workers : Sliced(w)
    BY <2>1 DEF Slices
  <2>3. CASE next + 1 # T
    <3>1. main' = "join" /\ medians' = medians
      BY <1>3, <2>1, <2>3 DEF Join
    <3>2. \A i : InPlace(i) => InPlace(i)'
      BY <2>1 DEF InPlace, Sorted
    <3>3. \A w \in Workers : Sliced(w)'
      BY <2>1, <2>2, <3>1, <3>2, Framed
    <3>4. Limits'
      BY <2>2, <3>1 DEF Limits
    <3> QED  BY <3>1, <3>3, <3>4 DEF Slices
  <2>4. CASE next + 1 = T
    <3>1. main' = "write"
      BY <1>3, <2>4 DEF Join
    <3>2. ASSUME NEW i \in 1..Len(input) PROVE fs[i] = Sorted[i]
      <4>1. PICK w \in Workers : i \in (Begin(w) + 1)..Begin(w + 1)
        BY <2>1, <2>2, SomeSlice
      <4>2. phase[w] = "exited"
        <5>1. w < next \/ w = next
          BY <2>1, <2>4, <1>t
        <5> QED  BY <5>1, <2>1
      <4> QED  BY <4>1, <4>2, <2>2 DEF Sliced, InPlace
    <3>3. Sorted \in [1..Len(input) -> Values]
      <4>1. Sorted \in Seq(Values) /\ Len(Sorted) = Len(input)
        BY <2>1, SortSorts, ValuesAssumption DEF Sorted
      <4> QED  BY <4>1
    <3>4. fs = Sorted
      BY <3>2, <3>3 DEF SortTypeOK
    <3>5. fs' = Sorted'
      BY <3>4, <2>1 DEF Sorted
    <3> QED  BY <3>1, <3>5 DEF Slices
  <2> QED  BY <2>3, <2>4
<1>4. CASE Write
  BY <1>4 DEF Write, Slices, Sorted
<1> QED  BY <1>1, <1>2, <1>3, <1>4 DEF Main

(* The ranges after a step of sort_worker. *)
LEMMA WorkerSlices ==
    ASSUME NEW w \in Workers, Ordered, SortTypeOK, Slices, Worker(w)
    PROVE  Slices'
<1>t. T \in Nat \ {0} /\ Workers = 0..(T - 1)
  BY TAssumption DEF Workers
<1>1. /\ main \in {"create", "join"} /\ main' = main /\ input \in Seq(Values)
      /\ input' = input /\ medians' = medians
      /\ phase \in [Workers -> Phases] /\ pos \in [Workers -> Nat \ {0}]
      /\ DOMAIN sizes = Workers /\ DOMAIN range = Workers
  BY DEF Ordered, Created, Worker, ScanOne, Publish, Arrive, Leave, CopyOne, Exit
<1>2. Limits /\ Sliced(w) /\ \A v \in Workers : Sliced(v)
  BY <1>1 DEF Slices
<1>3. Limits'
  BY <1>1, <1>2 DEF Limits
<1>4. Begin(w)' = Begin(w) /\ Begin(w + 1)' = Begin(w + 1) /\ Sorted' = Sorted
  BY <1>1 DEF Begin, Sorted
<1>5. SUFFICES /\ Sliced(w)'
               /\ \A i : InPlace(i) => InPlace(i)'
               /\ \A v \in Workers \ {w} : /\ phase'[v] = phase[v] /\ pos'[v] = pos[v]
                                           /\ range'[v] = range[v] /\ sizes'[v] = sizes[v]
  <2>1. ASSUME NEW v \in Workers \ {w} PROVE Sliced(v)'
    BY <1>1, <1>2, <1>5, Framed
  <2> QED  BY <1>1, <1>3, <1>5, <2>1 DEF Slices
<1>6. CASE ScanOne(w)
  <2>1. /\ phase[w] = "scan" /\ UNCHANGED <<fs, phase, sizes>>
        /\ \A v \in Workers \ {w} : pos'[v] = pos[v] /\ range'[v] = range[v]
    BY <1>1, <1>6 DEF ScanOne
  <2>2. Scanned(w)'
    BY <1>6, ScanSlices
  <2>3. Sliced(w)'
    BY <2>1, <2>2 DEF Sliced
  <2> QED  BY <1>4, <2>1, <2>3 DEF InPlace
<1>7. CASE Publish(w)
  <2>1. /\ fs' = fs /\ phase'[w] = "barrier" /\ pos'[w] = 1
        /\ \A v \in Workers \ {w} : /\ phase'[v] = phase[v] /\ pos'[v] = pos[v]
                                    /\ range'[v] = range[v] /\ sizes'[v] = sizes[v]
    BY <1>1, <1>7 DEF Publish
  <2>2. Slice(w)' /\ sizes'[w] = (Begin(w + 1) - Begin(w))'
    BY <1>7, PublishSlices
  <2>3. pos'[w] <= Len(range'[w]) + 1
    <3>1. range'[w] \in Seq(Values)
      BY <2>2 DEF Slice
    <3>2. Len(range'[w]) \in Nat
      BY <3>1
    <3> QED  BY <2>1, <3>2
  <2>4. Sliced(w)'
    BY <2>1, <2>2, <2>3 DEF Sliced
  <2> QED  BY <1>4, <2>1, <2>4 DEF InPlace
<1>8. CASE Arrive(w)
  <2>1. UNCHANGED <<fs, phase, pos, range, sizes>>
    BY <1>8 DEF Arrive
  <2>2. \A i : InPlace(i) => InPlace(i)'
    BY <1>4, <2>1 DEF InPlace
  <2>3. Sliced(w)'
    BY <1>1, <1>2, <2>1, <2>2, Framed
  <2> QED  BY <2>1, <2>2, <2>3
<1>9. CASE Leave(w)
  <2>1. /\ phase[w] = "barrier" /\ phase'[w] = "copy" /\ UNCHANGED <<fs, pos, range, sizes>>
        /\ \A v \in Workers \ {w} : phase'[v] = phase[v]
    BY <1>1, <1>9 DEF Leave
  <2>2. Slice(w) /\ pos[w] <= Len(range[w]) + 1 /\ pos[w] = 1 /\ sizes[w] = Begin(w + 1) - Begin(w)
    BY <1>2, <2>1 DEF Sliced
  <2>3. Slice(w)'
    BY <1>4, <2>1, <2>2 DEF Slice
  <2>4. \A k \in 1..(pos'[w] - 1) : InPlace(Begin(w) + k)'
    BY <2>1, <2>2
  <2>5. Sliced(w)'
    BY <1>4, <2>1, <2>2, <2>3, <2>4 DEF Sliced
  <2> QED  BY <1>4, <2>1, <2>5 DEF InPlace
<1>10. CASE CopyOne(w)
  <2>1. /\ phase[w] = "copy" /\ UNCHANGED <<phase, range, sizes>>
        /\ pos'[w] = pos[w] + 1 /\ pos[w] \in Nat \ {0}
        /\ \A v \in Workers \ {w} : pos'[v] = pos[v]
    BY <1>1, <1>10 DEF CopyOne
  <2>2. /\ Begin(w) \in Nat /\ Begin(w) + pos[w] \in 1..Len(input)
        /\ fs' = [fs EXCEPT ![Begin(w) + pos[w]] = Sorted[Begin(w) + pos[w]]]
        /\ Slice(w) /\ pos[w] <= Len(range[w])
    BY <1>10, CopySlices
  <2>3. DOMAIN fs = 1..Len(input)
    BY DEF SortTypeOK
  <2>4. \A i : InPlace(i) => InPlace(i)'
    BY <1>4, <2>2, <2>3 DEF InPlace
  <2>5. fs'[Begin(w) + pos[w]] = Sorted[Begin(w) + pos[w]]
    BY <2>2, <2>3
  <2>6. Slice(w)'
    BY <1>4, <2>1, <2>2 DEF Slice
  <2>7. \A k \in 1..(pos[w] - 1) : InPlace(Begin(w) + k)
    BY <1>2, <2>1 DEF Sliced
  <2>8. ASSUME NEW k \in 1..(pos'[w] - 1) PROVE InPlace(Begin(w) + k)'
    <3>1. k \in 1..(pos[w] - 1) \/ k = pos[w]
      BY <2>1
    <3>2. CASE k \in 1..(pos[w] - 1)
      <4>1. InPlace(Begin(w) + k)
        BY <3>2, <2>7
      <4>2. fs'[Begin(w) + k] = Sorted'[Begin(w) + k]
        BY <4>1, <2>4 DEF InPlace
      <4> QED  BY <4>2, <1>4 DEF InPlace
    <3>3. CASE k = pos[w]
      BY <3>3, <2>5, <1>4 DEF InPlace
    <3> QED  BY <3>1, <3>2, <3>3
  <2>9. pos'[w] <= Len(range'[w]) + 1
    <3>1. range[w] \in Seq(Values)
      BY <2>2 DEF Slice
    <3>2. Len(range[w]) \in Nat
      BY <3>1
    <3> QED  BY <2>1, <2>2, <3>2
  <2>10. sizes[w] = Begin(w + 1) - Begin(w)
    BY <1>2, <2>1 DEF Sliced
  <2>11. Sliced(w)'
    BY <1>4, <2>1, <2>6, <2>8, <2>9, <2>10 DEF Sliced
  <2> QED  BY <2>1, <2>4, <2>11
<1>11. CASE Exit(w)
  <2>1. /\ phase[w] = "copy" /\ phase'[w] = "exited" /\ UNCHANGED <<fs, pos, sizes>>
        /\ pos[w] > Len(range[w]) /\ pos[w] \in Nat \ {0}
        /\ \A v \in Workers \ {w} : phase'[v] = phase[v] /\ range'[v] = range[v]
    BY <1>1, <1>11 DEF Exit
  <2>2. /\ Len(range[w]) = Begin(w + 1) - Begin(w) /\ sizes[w] = Begin(w + 1) - Begin(w)
        /\ \A k \in 1..(pos[w] - 1) : InPlace(Begin(w) + k)
    BY <1>2, <2>1 DEF Sliced, Slice
  <2>3. Begin(w) \in Nat /\ Begin(w + 1) \in Nat
    <3>1. w \in 0..T /\ w + 1 \in 0..T
      BY <1>t
    <3> QED  BY <3>1, <1>1, <1>2, BeginIs
  <2>4. ASSUME NEW i \in (Begin(w) + 1)..Begin(w + 1) PROVE InPlace(i)
    <3>1. i - Begin(w) \in 1..(pos[w] - 1) /\ Begin(w) + (i - Begin(w)) = i
      BY <2>1, <2>2, <2>3
    <3> QED  BY <3>1, <2>2
  <2>5. \A i : InPlace(i) => InPlace(i)'
    BY <1>4, <2>1 DEF InPlace
  <2>6. Sliced(w)'
    BY <1>4, <2>1, <2>2, <2>4, <2>5 DEF Sliced
  <2> QED  BY <2>1, <2>5, <2>6
<1> QED  BY <1>6, <1>7, <1>8, <1>9, <1>10, <1>11 DEF Worker

(* sizes and ranges are empty when main begins. *)
LEMMA InitSortInv == SortInit => SortTypeOK /\ Slices
<1> SUFFICES ASSUME SortInit PROVE SortTypeOK /\ Slices
  OBVIOUS
<1>1. PICK n \in 1..MaxSize : input \in [1..n -> Values]
  BY DEF SortInit
<1>2. n \in Nat /\ Len(input) = n
  BY <1>1, MaxSizeAssumption
<1>3. 0 \in Workers
  BY TAssumption DEF Workers
<1>4. SortTypeOK
  BY <1>1, <1>2, <1>3 DEF SortInit, SortTypeOK, Phases
<1>5. Slices
  BY DEF SortInit, Slices
<1> QED  BY <1>4, <1>5

(* No step leaves the array, and sizes are at most its length. *)
LEMMA NextTypes ==
    ASSUME Ordered, SortTypeOK, Slices, SortNext
    PROVE  SortTypeOK'
<1>o. Ordered'
  BY MainOrdered, WorkerOrdered DEF SortNext
<1>1. /\ phase' \in [Workers -> Phases] /\ next' \in Workers
      /\ main' \in {"sample", "create", "join", "write", "end"}
  BY <1>o DEF Ordered
<1>2. SUFFICES /\ input' = input
               /\ fs' \in [1..Len(input) -> Values]
               /\ sizes' \in [Workers -> {Uninit} \cup 0..Len(input)]
               /\ pos' \in [Workers -> 1..(Len(input) + 1)]
  BY <1>1 DEF SortTypeOK
<1> DEFINE n == Len(input)
<1>3. /\ input \in Seq(Values) /\ n \in Nat /\ fs \in [1..n -> Values]
      /\ sizes \in [Workers -> {Uninit} \cup 0..n] /\ pos \in [Workers -> 1..(n + 1)]
  BY DEF SortTypeOK, Ordered
<1>4. CASE Main
  BY <1>3, <1>4 DEF Main, Sample, Create, Join, Write
<1>5. ASSUME NEW w \in Workers, Worker(w)
      PROVE  /\ input' = input /\ fs' \in [1..n -> Values]
             /\ sizes' \in [Workers -> {Uninit} \cup 0..n]
             /\ pos' \in [Workers -> 1..(n + 1)]
  <2>1. CASE ScanOne(w)
    <3>1. /\ pos' = [pos EXCEPT ![w] = pos[w] + 1] /\ pos[w] <= Len(fs)
          /\ UNCHANGED <<input, fs, sizes>>
      BY <2>1 DEF ScanOne
    <3>2. Len(fs) = n
      BY <1>3
    <3> HIDE DEF n
    <3>3. pos[w] + 1 \in 1..(n + 1)
      BY <1>3, <3>1, <3>2
    <3> QED  BY <1>3, <3>1, <3>3 DEF n
  <2>2. CASE Publish(w)
    <3>1. /\ pos' = [pos EXCEPT ![w] = 1] /\ UNCHANGED <<input, fs>>
          /\ sizes' = [sizes EXCEPT ![w] = Len(range[w])]
      BY <2>2 DEF Publish
    <3>2. sizes'[w] \in 0..n
      BY <2>2, PublishSlices
    <3>3. Len(range[w]) \in 0..n
      BY <3>1, <3>2, <1>3
    <3> HIDE DEF n
    <3> QED  BY <1>3, <3>1, <3>3 DEF n
  <2>3. CASE Arrive(w)
    BY <1>3, <2>3 DEF Arrive
  <2>4. CASE Leave(w)
    BY <1>3, <2>4 DEF Leave
  <2>5. CASE CopyOne(w)
    <3>1. /\ pos' = [pos EXCEPT ![w] = pos[w] + 1] /\ UNCHANGED <<input, sizes>>
          /\ pos[w] <= Len(range[w])
      BY <2>5 DEF CopyOne
    <3>2. /\ Begin(w) \in Nat /\ Begin(w) + pos[w] \in 1..n
          /\ fs' = [fs EXCEPT ![Begin(w) + pos[w]] = range[w][pos[w]]]
          /\ range[w][pos[w]] \in Values
      BY <2>5, CopySlices
    <3> HIDE DEF n
    <3>3. pos[w] + 1 \in 1..(n + 1)
      BY <1>3, <3>2
    <3> QED  BY <1>3, <3>1, <3>2, <3>3 DEF n
  <2>6. CASE Exit(w)
    BY <1>3, <2>6 DEF Exit
  <2> QED  BY <1>5, <2>1, <2>2, <2>3, <2>4, <2>5, <2>6 DEF Worker
<1> QED  BY <1>4, <1>5 DEF SortNext

(* For any number of threads, input and samples: the types, the order of   *)
(* the accesses to shared memory, and what each worker has in its range    *)
(* and in its part of the array, from the scan to the join.                *)
THEOREM SortInvariance == SortSpec => []SortInv
<1>1. SortInit => SortInv
  BY InitOrdered, InitSortInv, OrderedFresh DEF SortInv
<1>2. SortInv /\ [SortNext]_sortVars => SortInv'
  <2> SUFFICES ASSUME SortInv, [SortNext]_sortVars PROVE SortInv'
    OBVIOUS
  <2>1. CASE SortNext
    <3>1. Ordered'
      BY <2>1, MainOrdered, WorkerOrdered DEF SortNext, SortInv
    <3>2. SortTypeOK'
      BY <2>1, NextTypes DEF SortInv
    <3>3. Slices'
      BY <2>1, MainSlices, WorkerSlices DEF SortNext, SortInv
    <3>4. NoStaleMemory'
      BY <3>1, OrderedFresh, PTL
    <3> QED  BY <3>1, <3>2, <3>3, <3>4 DEF SortInv
  <2>2. CASE UNCHANGED sortVars
    <3>1. SortTypeOK' /\ Ordered'
      BY <2>2 DEF sortVars, SortInv, SortTypeOK, Ordered, Created, Met
    <3>2. NoStaleMemory'
      BY <3>1, OrderedFresh, PTL
    <3>3. \A i : InPlace(i) => InPlace(i)'
      BY <2>2 DEF sortVars, InPlace, Sorted
    <3>4. \A w \in Workers : Sliced(w) => Sliced(w)'
      BY <2>2, <3>3, Framed DEF sortVars
    <3>5. Slices'
      BY <2>2, <3>4 DEF sortVars, SortInv, Slices, Limits, Sorted
    <3> QED  BY <3>1, <3>2, <3>5 DEF SortInv
  <2> QED  BY <2>1, <2>2
<1> QED  BY <1>1, <1>2, PTL DEF SortSpec

(* tsort sorts: whatever the input, the number of threads, the samples     *)
(* drawn and the order in which the threads run, the array that main       *)
(* writes has the floats of the input, each as often, in order.            *)
THEOREM SortsItsInput == SortSpec => []OutputSorted
<1>1. SortInv => OutputSorted
  <2> SUFFICES ASSUME SortInv, main = "end"
               PROVE  /\ \A i, j \in DOMAIN fs : i < j => fs[i] <= fs[j]
                      /\ \A x \in Values : Times(fs, x) = Times(input, x)
    BY DEF OutputSorted
  <2>1. fs = qsort_floats(input) /\ input \in Seq(Values)
    BY DEF SortInv, Slices, Sorted, Ordered
  <2>2. Values \in SUBSET Nat
    BY ValuesAssumption
  <2>3. /\ fs \in Seq(Values) /\ DOMAIN fs = 1..Len(input)
        /\ \A i, j \in 1..Len(input) : i <= j => fs[i] <= fs[j]
        /\ \A x \in Int : AtMost(fs, x) = AtMost(input, x)
    BY <2>1, <2>2, SortSorts
  <2>4. fs \in Seq(Nat) /\ input \in Seq(Nat)
    BY <2>1, <2>3, SeqNat
  <2>5. ASSUME NEW i \in 1..Len(input), NEW j \in 1..Len(input), i < j PROVE i <= j
    BY <2>5
  <2>6. ASSUME NEW x \in Values PROVE Times(fs, x) = Times(input, x)
    <3>1. x \in Nat /\ x \in Int /\ x - 1 \in Int
      BY <2>2
    <3>2. AtMost(fs, x) = AtMost(input, x) /\ AtMost(fs, x - 1) = AtMost(input, x - 1)
      BY <2>3, <3>1
    <3> QED  BY <3>1, <3>2, <2>4, TimesIs
  <2> QED  BY <2>3, <2>5, <2>6
<1> QED  BY <1>1, SortInvariance, PTL

-----------------------------------------------------------------------------
(***************************************************************************)
(* The barrier is correct for any finite number of threads: the inductive  *)
(* invariant IInv, the safety properties that follow from it, and the      *)
(* refinement of the abstract barrier.                                     *)
(***************************************************************************)

USE ThreadsAssumption, NoThreadAssumption

(* The number of callers is a natural number. *)
LEMMA CountIsNat == count \in Nat
  BY FS_CardinalityType DEF count

(* The set of counted threads is finite and no larger than all of them. *)
LEMMA CountedSubset ==
  ASSUME TypeOK
  PROVE  /\ IsFiniteSet(counted)
         /\ Cardinality(counted) \in 0..count
         /\ Cardinality(counted) = count => counted = Threads
  <1>1. counted \subseteq Threads
    BY DEF counted
  <1>2. /\ IsFiniteSet(counted)
        /\ Cardinality(counted) <= Cardinality(Threads)
        /\ Cardinality(counted) = Cardinality(Threads) => counted = Threads
    BY <1>1, FS_Subset
  <1>3. Cardinality(counted) \in Nat
    BY <1>2, FS_CardinalityType
  <1> QED
    BY <1>2, <1>3, CountIsNat DEF count

(* barrier_wait has no caller yet, and nothing is counted. *)
LEMMA InitIInv == Init => IInv
  <1> SUFFICES ASSUME Init PROVE IInv
    OBVIOUS
  <1>1. TypeOK
    BY CountIsNat DEF Init, TypeOK, Labels
  <1>2. counted = {}
    BY DEF Init, counted, AfterStore
  <1>3. SeenIsExact
    BY <1>2, FS_EmptySet DEF Init, SeenIsExact
  <1>4. /\ MutualExclusion
        /\ LoadedIsFresh
        /\ NobodyPassesEarly
        /\ NoLostWakeup
    BY DEF Init, MutualExclusion, LoadedIsFresh, NobodyPassesEarly,
           NoLostWakeup, InSeenLock, InWall, Released
  <1> QED
    BY <1>1, <1>3, <1>4 DEF IInv

(* Every step but the store leaves the set of counted threads alone. *)
LEMMA CountedUnchanged ==
  ASSUME TypeOK, NEW t \in Threads, NEW label \in Labels, Goto(t, label),
         pc[t] \in AfterStore <=> label \in AfterStore
  PROVE  counted' = counted
  BY DEF TypeOK, Goto, counted

(* The store of seen++ counts exactly the thread that does it. *)
LEMMA StoreCounts ==
  ASSUME IInv, NEW t \in Threads, StoreSeen(t)
  PROVE  /\ counted' = counted \cup {t}
         /\ seen' = seen + 1
         /\ Cardinality(counted') = Cardinality(counted) + 1
         /\ seen' \in 0..count
  <1>1. counted' = counted \cup {t} /\ t \notin counted
    BY DEF IInv, TypeOK, StoreSeen, Goto, counted, AfterStore
  <1>2. seen' = seen + 1 /\ seen \in Nat
    BY CountIsNat DEF IInv, TypeOK, StoreSeen, LoadedIsFresh
  <1>3. IsFiniteSet(counted) /\ Cardinality(counted) \in Nat
    BY CountedSubset, FS_CardinalityType DEF IInv
  <1>4. Cardinality(counted') = Cardinality(counted) + 1
    BY <1>1, <1>3, FS_AddElement
  <1>5. counted' \subseteq Threads
    BY <1>1 DEF counted
  <1>6. Cardinality(counted') <= count
    BY <1>5, FS_Subset DEF count
  <1> QED
    BY <1>1, <1>2, <1>3, <1>4, <1>6, CountIsNat DEF IInv, SeenIsExact

(* Each step of barrier_wait, spurious wakeups included, preserves IInv. *)
LEMMA NextIInv == IInv /\ [Next]_vars => IInv'
  <1> SUFFICES ASSUME IInv, [Next]_vars PROVE IInv'
    OBVIOUS
  <1> USE CountIsNat DEF Goto
  <1>1. ASSUME NEW t \in Threads, LockSeen(t) PROVE IInv'
    <2>1. TypeOK'
      BY <1>1 DEF LockSeen, IInv, TypeOK, Labels
    <2>2. counted' = counted
      BY <1>1, CountedUnchanged DEF LockSeen, IInv, Labels, AfterStore
    <2>3. MutualExclusion' /\ LoadedIsFresh'
      BY <1>1 DEF LockSeen, IInv, TypeOK, MutualExclusion, LoadedIsFresh,
                  InSeenLock, InWall
    <2>4. NobodyPassesEarly'
      BY <1>1, <2>2 DEF LockSeen, IInv, TypeOK, NobodyPassesEarly, Released
    <2>5. NoLostWakeup'
      BY <1>1 DEF LockSeen, IInv, TypeOK, NoLostWakeup, count
    <2> QED
      BY <1>1, <2>1, <2>2, <2>3, <2>4, <2>5
         DEF LockSeen, IInv, SeenIsExact
  <1>2. ASSUME NEW t \in Threads, LoadSeen(t) PROVE IInv'
    <2>1. TypeOK'
      BY <1>2 DEF LoadSeen, IInv, TypeOK, Labels
    <2>2. counted' = counted
      BY <1>2, CountedUnchanged DEF LoadSeen, IInv, Labels, AfterStore
    <2>3. MutualExclusion' /\ LoadedIsFresh'
      BY <1>2 DEF LoadSeen, IInv, TypeOK, MutualExclusion, LoadedIsFresh,
                  InSeenLock, InWall
    <2>4. NobodyPassesEarly'
      BY <1>2, <2>2 DEF LoadSeen, IInv, TypeOK, NobodyPassesEarly, Released
    <2>5. NoLostWakeup'
      BY <1>2 DEF LoadSeen, IInv, TypeOK, NoLostWakeup, count
    <2> QED
      BY <1>2, <2>1, <2>2, <2>3, <2>4, <2>5
         DEF LoadSeen, IInv, SeenIsExact
  <1>3. ASSUME NEW t \in Threads, StoreSeen(t) PROVE IInv'
    <2>1. counted' = counted \cup {t} /\ seen' = seen + 1
      BY <1>3, StoreCounts
    <2>2. TypeOK'
      BY <1>3, StoreCounts DEF StoreSeen, IInv, TypeOK, Labels
    <2>3. SeenIsExact'
      BY <1>3, StoreCounts DEF IInv, SeenIsExact
    <2>4. MutualExclusion' /\ LoadedIsFresh'
      BY <1>3 DEF StoreSeen, IInv, TypeOK, MutualExclusion, LoadedIsFresh,
                  InSeenLock, InWall
    <2>5. NobodyPassesEarly'
      BY <1>3, <2>1 DEF StoreSeen, IInv, TypeOK, NobodyPassesEarly, Released,
                        counted
    <2>6. NoLostWakeup'
      BY <1>3 DEF StoreSeen, IInv, TypeOK, NoLostWakeup
    <2> QED
      BY <2>2, <2>3, <2>4, <2>5, <2>6 DEF IInv
  <1>4. ASSUME NEW t \in Threads, UnlockSeen(t) PROVE IInv'
    <2>1. TypeOK'
      BY <1>4 DEF UnlockSeen, IInv, TypeOK, Labels
    <2>2. counted' = counted
      BY <1>4, CountedUnchanged DEF UnlockSeen, IInv, Labels, AfterStore
    <2>3. MutualExclusion' /\ LoadedIsFresh'
      BY <1>4 DEF UnlockSeen, IInv, TypeOK, MutualExclusion, LoadedIsFresh,
                  InSeenLock, InWall
    <2>4. NobodyPassesEarly'
      BY <1>4, <2>2 DEF UnlockSeen, IInv, TypeOK, NobodyPassesEarly, Released
    <2>5. NoLostWakeup'
      BY <1>4 DEF UnlockSeen, IInv, TypeOK, NoLostWakeup
    <2> QED
      BY <1>4, <2>1, <2>2, <2>3, <2>4, <2>5
         DEF UnlockSeen, IInv, SeenIsExact
  <1>5. ASSUME NEW t \in Threads, LockWall(t) \/ Relock(t) PROVE IInv'
    <2>1. TypeOK'
      BY <1>5 DEF LockWall, Relock, IInv, TypeOK, Labels
    <2>2. counted' = counted
      BY <1>5, CountedUnchanged
         DEF LockWall, Relock, IInv, Labels, AfterStore
    <2>3. MutualExclusion' /\ LoadedIsFresh'
      BY <1>5 DEF LockWall, Relock, IInv, TypeOK, MutualExclusion,
                  LoadedIsFresh, InSeenLock, InWall
    <2>4. NobodyPassesEarly'
      BY <1>5, <2>2 DEF LockWall, Relock, IInv, TypeOK, NobodyPassesEarly,
                        Released
    <2>5. NoLostWakeup'
      BY <1>5 DEF LockWall, Relock, IInv, TypeOK, NoLostWakeup
    <2> QED
      BY <1>5, <2>1, <2>2, <2>3, <2>4, <2>5
         DEF LockWall, Relock, IInv, SeenIsExact
  <1>6. ASSUME NEW t \in Threads, TestPasses(t) PROVE IInv'
    <2>1. TypeOK'
      BY <1>6 DEF TestPasses, IInv, TypeOK, Labels
    <2>2. counted' = counted
      BY <1>6, CountedUnchanged DEF TestPasses, IInv, Labels, AfterStore
    <2>3. MutualExclusion' /\ LoadedIsFresh'
      BY <1>6 DEF TestPasses, IInv, TypeOK, MutualExclusion, LoadedIsFresh,
                  InSeenLock, InWall
    <2>4. counted = Threads
      BY <1>6, CountedSubset DEF TestPasses, IInv, TypeOK, SeenIsExact
    <2>5. NobodyPassesEarly'
      BY <2>2, <2>4 DEF NobodyPassesEarly
    <2>6. NoLostWakeup'
      BY <1>6 DEF TestPasses, IInv, TypeOK, NoLostWakeup
    <2> QED
      BY <1>6, <2>1, <2>2, <2>3, <2>5, <2>6
         DEF TestPasses, IInv, SeenIsExact
  <1>7. ASSUME NEW t \in Threads, CondWait(t) PROVE IInv'
    <2>1. TypeOK'
      BY <1>7 DEF CondWait, IInv, TypeOK, Labels
    <2>2. counted' = counted
      BY <1>7, CountedUnchanged DEF CondWait, IInv, Labels, AfterStore
    <2>3. MutualExclusion' /\ LoadedIsFresh'
      BY <1>7 DEF CondWait, IInv, TypeOK, MutualExclusion, LoadedIsFresh,
                  InSeenLock, InWall
    <2>4. NobodyPassesEarly'
      BY <1>7, <2>2 DEF CondWait, IInv, TypeOK, NobodyPassesEarly, Released
    <2>5. NoLostWakeup'
      BY <1>7 DEF CondWait, IInv, TypeOK, NoLostWakeup, count
    <2> QED
      BY <1>7, <2>1, <2>2, <2>3, <2>4, <2>5
         DEF CondWait, IInv, SeenIsExact
  <1>8. ASSUME NEW t \in Threads, Wake(t) PROVE IInv'
    <2>1. TypeOK'
      BY <1>8 DEF Wake, IInv, TypeOK, Labels
    <2>2. counted' = counted
      BY <1>8, CountedUnchanged DEF Wake, IInv, Labels, AfterStore
    <2>3. MutualExclusion' /\ LoadedIsFresh'
      BY <1>8 DEF Wake, IInv, TypeOK, MutualExclusion, LoadedIsFresh,
                  InSeenLock, InWall
    <2>4. NobodyPassesEarly'
      BY <1>8, <2>2 DEF Wake, IInv, TypeOK, NobodyPassesEarly, Released
    <2>5. NoLostWakeup'
      BY <1>8 DEF Wake, IInv, TypeOK, NoLostWakeup
    <2> QED
      BY <1>8, <2>1, <2>2, <2>3, <2>4, <2>5 DEF Wake, IInv, SeenIsExact
  <1>9. ASSUME NEW t \in Threads, Broadcast(t) PROVE IInv'
    <2>1. TypeOK'
      BY <1>9 DEF Broadcast, IInv, TypeOK, Labels
    <2>2. counted' = counted
      BY <1>9, CountedUnchanged DEF Broadcast, IInv, Labels, AfterStore
    <2>3. MutualExclusion' /\ LoadedIsFresh'
      BY <1>9 DEF Broadcast, IInv, TypeOK, MutualExclusion, LoadedIsFresh,
                  InSeenLock, InWall
    <2>4. NobodyPassesEarly'
      BY <1>9, <2>2 DEF Broadcast, IInv, TypeOK, NobodyPassesEarly, Released
    <2>5. NoLostWakeup'
      BY <1>9 DEF Broadcast, NoLostWakeup
    <2> QED
      BY <1>9, <2>1, <2>2, <2>3, <2>4, <2>5
         DEF Broadcast, IInv, SeenIsExact
  <1>10. ASSUME NEW t \in Threads, UnlockWall(t) PROVE IInv'
    <2>1. TypeOK'
      BY <1>10 DEF UnlockWall, IInv, TypeOK, Labels
    <2>2. counted' = counted
      BY <1>10, CountedUnchanged DEF UnlockWall, IInv, Labels, AfterStore
    <2>3. MutualExclusion' /\ LoadedIsFresh'
      BY <1>10 DEF UnlockWall, IInv, TypeOK, MutualExclusion, LoadedIsFresh,
                   InSeenLock, InWall
    <2>4. NobodyPassesEarly'
      BY <1>10, <2>2 DEF UnlockWall, IInv, TypeOK, NobodyPassesEarly, Released
    <2>5. NoLostWakeup'
      BY <1>10 DEF UnlockWall, IInv, TypeOK, NoLostWakeup
    <2> QED
      BY <1>10, <2>1, <2>2, <2>3, <2>4, <2>5
         DEF UnlockWall, IInv, SeenIsExact
  <1>11. CASE UNCHANGED vars
    BY <1>11 DEF vars, IInv, TypeOK, MutualExclusion, LoadedIsFresh,
                 SeenIsExact, NobodyPassesEarly, NoLostWakeup, counted, count
  <1> QED
    BY <1>1, <1>2, <1>3, <1>4, <1>5, <1>6, <1>7, <1>8, <1>9, <1>10, <1>11
       DEF Next, Step

-----------------------------------------------------------------------------
(* barrier.c keeps IInv in every reachable state, for any set of threads. *)
THEOREM Invariance == Spec => []IInv
  BY InitIInv, NextIInv, PTL DEF Spec

(* Every variable of the barrier stays in its type; seen never exceeds nn. *)
THEOREM TypeCorrect == Spec => []TypeOK
  <1>1. IInv => TypeOK
    BY DEF IInv
  <1> QED
    BY <1>1, Invariance, PTL

(* No thread returns from barrier_wait before the last one has called it. *)
THEOREM BarrierSafe == Spec => []NobodyPassesEarly
  <1>1. IInv => NobodyPassesEarly
    BY DEF IInv
  <1> QED
    BY <1>1, Invariance, PTL

(* A full barrier with a sleeping thread always has a broadcast to come. *)
THEOREM WakeupNotLost == Spec => []NoLostWakeup
  <1>1. IInv => NoLostWakeup
    BY DEF IInv
  <1> QED
    BY <1>1, Invariance, PTL

(* barrier.c implements the abstract barrier. *)
THEOREM Refinement == Spec => AbsSpec
  <1> DEFINE leavers == {t \in Threads : pc[t] = "done"}
  <1>1. Init => Abs!AInit
    BY DEF Init, Abs!AInit, counted, AfterStore
  <1>2. IInv /\ [Next]_vars => [Abs!ANext]_(Abs!absVars)
    <2> SUFFICES ASSUME IInv, [Next]_vars
                 PROVE  Abs!ANext \/ (counted' = counted /\ leavers' = leavers)
      BY DEF Abs!absVars
    <2>1. CASE UNCHANGED vars
      BY <2>1 DEF vars, counted
    <2>2. ASSUME NEW t \in Threads, StoreSeen(t) PROVE Abs!Arrive(t)
      <3>1. counted' = counted \cup {t}
        BY <2>2, StoreCounts
      <3>2. t \notin counted
        BY <2>2 DEF StoreSeen, counted, AfterStore
      <3>3. leavers' = leavers
        BY <2>2 DEF StoreSeen, Goto, IInv, TypeOK
      <3> QED
        BY <3>1, <3>2, <3>3 DEF Abs!Arrive
    <2>3. ASSUME NEW t \in Threads, UnlockWall(t) PROVE Abs!Leave(t)
      <3>1. counted = Threads
        BY <2>3 DEF UnlockWall, IInv, NobodyPassesEarly, Released
      <3>2. counted' = counted
        BY <2>3, CountedUnchanged DEF UnlockWall, IInv, Labels, AfterStore
      <3>3. t \notin leavers /\ leavers' = leavers \cup {t}
        BY <2>3 DEF UnlockWall, Goto, IInv, TypeOK
      <3> QED
        BY <3>1, <3>2, <3>3 DEF Abs!Leave
    <2>4. ASSUME NEW t \in Threads,
                 \/ LockSeen(t) \/ LoadSeen(t) \/ UnlockSeen(t)
                 \/ LockWall(t) \/ TestPasses(t) \/ CondWait(t)
                 \/ Wake(t) \/ Relock(t) \/ Broadcast(t)
          PROVE  counted' = counted /\ leavers' = leavers
      BY <2>4 DEF LockSeen, LoadSeen, UnlockSeen, LockWall, TestPasses,
                  CondWait, Wake, Relock, Broadcast, Goto, counted,
                  AfterStore, IInv, TypeOK
    <2> QED
      BY <2>1, <2>2, <2>3, <2>4 DEF Next, Step, Abs!ANext
  <1> QED
    BY <1>1, <1>2, Invariance, PTL DEF Spec, AbsSpec, Abs!ASpec
=============================================================================

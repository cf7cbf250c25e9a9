--------------------------- MODULE LibraryProofs ---------------------------
(***************************************************************************)
(* The parts that the driver is built from: results of several modules,    *)
(* containers, regions of interest, durations as text, counts of missed    *)
(* packets and the arrays of a module's settings.                          *)
(***************************************************************************)
EXTENDS MissedPackets, Containers, Regions, Durations, DetectorModule,
        SequenceTheorems, FiniteSetTheorems, WellFoundedInduction, TLAPS

-----------------------------------------------------------------------------
(***************************************************************************)
(* Induction over numbers, for what recursive functions compute.           *)
(***************************************************************************)
LEMMA LeastNatural ==
    ASSUME NEW T \in SUBSET Nat, T # {}
    PROVE  \E m \in T : \A n \in T : m <= n
<1> DEFINE R == OpToRel(<, Nat)
<1>1. IsWellFoundedOn(R, Nat)
    BY NatLessThanWellFounded, Zenon
<1>2. \E m \in T : \A n \in T : <<n, m>> \notin R
    <2> HIDE DEF R
    <2> QED BY <1>1, WFMin, Zenon
<1>3. R = {ss \in Nat \X Nat : ss[1] < ss[2]}
    BY DEF OpToRel
<1>4. \A m, n \in Nat : <<n, m>> \notin R => m <= n
    <2> HIDE DEF R
    <2> QED BY <1>3
<1> QED
    BY <1>2, <1>4

\* Induction: a set of natural numbers with 0 and the successors of its members.
LEMMA NatInd ==
    ASSUME NEW T \in SUBSET Nat, 0 \in T, \A n \in T : n + 1 \in T
    PROVE  T = Nat
<1>1. SUFFICES ASSUME Nat \ T # {} PROVE FALSE
    OBVIOUS
<1>2. PICK m \in Nat \ T : \A n \in Nat \ T : m <= n
    BY <1>1, LeastNatural
<1>3. m # 0 /\ m - 1 \in Nat
    BY <1>2
<1>4. m - 1 \in T
    BY <1>2, <1>3
<1> QED
    BY <1>2, <1>3, <1>4

\* Functions of the numbers up to n are sequences of that length.
LEMMA FunctionIsSequence ==
    ASSUME NEW n \in Nat, NEW S, NEW f \in [1 .. n -> S]
    PROVE  f \in Seq(S) /\ Len(f) = n /\ \A i \in 1 .. n : f[i] \in S
<1>1. f \in Seq(S)
    BY SeqDef
<1>2. DOMAIN f = 1 .. n
    OBVIOUS
<1>3. Len(f) = n
    BY <1>1, <1>2, LenProperties
<1> QED
    BY <1>1, <1>3

\* f is the function that begins with base and goes on with next.
Recursion(f, N, base, next) ==
    f[0] = base /\ \A n \in 1 .. N : f[n] = next[n][f[n - 1]]

\* A recursive function of the numbers up to N is one: it exists.  Its value at
\* n is got with next from that at n - 1.
LEMMA RecursionExists ==
    ASSUME NEW N \in Nat, NEW S, NEW base \in S, NEW next \in [1 .. N -> [S -> S]]
    PROVE  \E f \in [0 .. N -> S] : Recursion(f, N, base, next)
<1> DEFINE Upto(k) == \E f \in [0 .. k -> S] :
            f[0] = base /\ \A n \in 1 .. k : f[n] = next[n][f[n - 1]]
           T == {k \in Nat : k <= N => Upto(k)}
<1>1. 0 \in T
    <2>1. [n \in 0 .. 0 |-> base] \in [0 .. 0 -> S]
        OBVIOUS
    <2>2. /\ [n \in 0 .. 0 |-> base][0] = base
          /\ \A n \in 1 .. 0 :
                [i \in 0 .. 0 |-> base][n] = next[n][[i \in 0 .. 0 |-> base][n - 1]]
        OBVIOUS
    <2> QED
        BY <2>1, <2>2
<1>2. ASSUME NEW k \in T PROVE k + 1 \in T
    <2>1. SUFFICES ASSUME k + 1 <= N PROVE Upto(k + 1)
        BY k \in Nat
    <2>2. PICK f \in [0 .. k -> S] :
            f[0] = base /\ \A n \in 1 .. k : f[n] = next[n][f[n - 1]]
        BY <2>1
    <2> DEFINE g == [n \in 0 .. k + 1 |->
                        IF n <= k THEN f[n] ELSE next[k + 1][f[k]]]
    <2>3. next[k + 1][f[k]] \in S
        BY <2>1
    <2>4. g \in [0 .. k + 1 -> S]
        BY <2>3
    <2>5. g[0] = base
        BY <2>2
    <2>6. ASSUME NEW n \in 1 .. k + 1 PROVE g[n] = next[n][g[n - 1]]
        <3>1. g[n - 1] = f[n - 1]
            OBVIOUS
        <3>2. g[n] = IF n <= k THEN f[n] ELSE next[k + 1][f[k]]
            OBVIOUS
        <3> HIDE DEF g
        <3>3. CASE n \in 1 .. k
            BY <2>2, <3>1, <3>2, <3>3
        <3>4. CASE n = k + 1
            BY <3>1, <3>2, <3>4
        <3> QED
            BY <3>3, <3>4
    <2> HIDE DEF g
    <2> QED
        BY <2>4, <2>5, <2>6
<1> HIDE DEF T
<1>3. T = Nat
    <2>1. T \in SUBSET Nat
        BY DEF T
    <2> QED
        BY <1>1, <1>2, <2>1, NatInd
<1> QED
    BY <1>3 DEF T, Recursion

-----------------------------------------------------------------------------
(***************************************************************************)
(* Missed packets, for any numbers of modules and ports and any width of the *)
(* counters.                                                               *)
(***************************************************************************)
\* What sls::sum has added up is what the equations of Sums say.
LEMMA SumsEquations ==
    ASSUME NEW c \in Seq(Int)
    PROVE  /\ Sums(c) \in [0 .. Len(c) -> Int] /\ Sums(c)[0] = 0
           /\ \A n \in 1 .. Len(c) : Sums(c)[n] = Sums(c)[n - 1] + c[n]
<1> DEFINE N == Len(c)
           next == [n \in 1 .. N |-> [s \in Int |-> s + c[n]]]
           Defn(f) == f = [n \in 0 .. N |-> IF n = 0 THEN 0 ELSE f[n - 1] + c[n]]
<1>1. N \in Nat /\ \A n \in 1 .. N : c[n] \in Int
    OBVIOUS
<1>2. Sums(c) = CHOOSE f : Defn(f)
    BY DEF Sums
<1> HIDE DEF N
<1>3. next \in [1 .. N -> [Int -> Int]]
    BY <1>1
<1>3a. \A n \in 1 .. N, x \in Int : next[n][x] = x + c[n]
    OBVIOUS
<1> HIDE DEF next
<1>4. PICK f \in [0 .. N -> Int] : Recursion(f, N, 0, next)
    <2>1. 0 \in Int
        OBVIOUS
    <2> QED
        BY <1>1, <1>3, <2>1, RecursionExists
<1>5. ASSUME NEW n \in 1 .. N PROVE f[n] = f[n - 1] + c[n]
    <2>1. n - 1 \in 0 .. N
        BY <1>1
    <2>2. f[n - 1] \in Int
        BY <1>4, <2>1
    <2> QED
        BY <1>3a, <1>4, <2>2 DEF Recursion
<1>6. Defn(f)
    BY <1>1, <1>4, <1>5 DEF Recursion
<1>7. Defn(Sums(c))
    BY <1>2, <1>6
<1> DEFINE s == Sums(c)
<1> HIDE DEF s
<1>8. s = [n \in 0 .. N |-> IF n = 0 THEN 0 ELSE s[n - 1] + c[n]]
    BY <1>7 DEF s
<1>9. s[0] = 0 /\ \A n \in 1 .. N : s[n] = s[n - 1] + c[n]
    BY <1>1, <1>8
<1>10. {k \in Nat : k <= N => s[k] \in Int} = Nat
    <2> DEFINE T == {k \in Nat : k <= N => s[k] \in Int}
    <2>1. 0 \in T
        BY <1>9
    <2>2. ASSUME NEW k \in T PROVE k + 1 \in T
        <3>1. SUFFICES ASSUME k + 1 <= N PROVE s[k + 1] \in Int
            BY k \in Nat
        <3>2. s[k + 1] = s[k] + c[k + 1] /\ s[k] \in Int
            BY <1>1, <1>9, <3>1
        <3> QED
            BY <1>1, <3>1, <3>2
    <2> HIDE DEF T
    <2>3. T \in SUBSET Nat
        BY DEF T
    <2> QED
        BY <2>1, <2>2, <2>3, NatInd DEF T
<1>11. s \in [0 .. N -> Int]
    <2>1. \A k \in 0 .. N : s[k] \in Int
        <3>1. \A k \in 0 .. N : k \in Nat /\ k <= N
            BY <1>1
        <3> QED
            BY <1>10, <3>1
    <2> QED
        BY <1>8, <2>1
<1> QED
    BY <1>9, <1>11 DEF s, N

\* A sum of numbers is a number.
LEMMA TotalType ==
    ASSUME NEW c \in Seq(Int) PROVE Total(c) \in Int
BY SumsEquations DEF Total

\* Integers that differ by a multiple of the number of values of an int.
Multiple(d) == \E k \in Int : d = k * IntRange

\* Differences that are multiples of the range add up, and only 0 is within it.
LEMMA MultipleFacts ==
    /\ Multiple(0)
    /\ \A a, b \in Int : Multiple(a) /\ Multiple(b) => Multiple(a + b)
    /\ \A d \in Int : Multiple(d) <=> d % IntRange = 0
    /\ \A d \in Int : Multiple(d) /\ -IntRange < d /\ d < IntRange => d = 0
<1>1. IntRange \in Nat \ {0}
    BY IntLimitAssumption DEF IntRange
<1>2. Multiple(0)
    <2>1. 0 = 0 * IntRange
        BY <1>1
    <2> QED
        BY <2>1 DEF Multiple
<1>3. ASSUME NEW a \in Int, NEW b \in Int, Multiple(a), Multiple(b)
      PROVE  Multiple(a + b)
    <2>1. PICK j \in Int : a = j * IntRange
        BY <1>3 DEF Multiple
    <2>2. PICK k \in Int : b = k * IntRange
        BY <1>3 DEF Multiple
    <2>3. a + b = (j + k) * IntRange
        BY <1>1, <2>1, <2>2
    <2> QED
        BY <2>3 DEF Multiple
<1>4. ASSUME NEW d \in Int PROVE Multiple(d) <=> d % IntRange = 0
    <2>1. d = (d \div IntRange) * IntRange + (d % IntRange)
        BY <1>1
    <2>2. \A k \in Int : (k * IntRange) % IntRange = 0
        BY <1>1
    <2>3. d \div IntRange \in Int
        BY <1>1
    <2> QED
        BY <1>1, <2>1, <2>2, <2>3 DEF Multiple
<1>5. ASSUME NEW d \in Int, Multiple(d), -IntRange < d, d < IntRange PROVE d = 0
    <2>1. PICK k \in Int : d = k * IntRange
        BY <1>5 DEF Multiple
    <2> QED
        BY <1>1, <1>5, <2>1
<1> QED
    BY <1>2, <1>3, <1>4, <1>5

\* An int keeps a number but for a multiple of how many values it has.
LEMMA WrapFacts ==
    ASSUME NEW n \in Int
    PROVE  Wrap(n) \in Ints /\ Multiple(Wrap(n) - n)
<1> DEFINE w == IntRange
           m == (n + IntLimit) % w
           q == (n + IntLimit) \div w
<1>1. w \in Nat \ {0} /\ w = 2 * IntLimit /\ IntLimit \in Nat
    BY IntLimitAssumption DEF IntRange
<1>2. m \in 0 .. w - 1 /\ q \in Int
    BY <1>1
<1>3. n + IntLimit = q * w + m
    BY <1>1
<1>4. Wrap(n) = m - IntLimit
    BY DEF Wrap
<1> HIDE DEF w, m, q
<1>5. Wrap(n) \in -IntLimit .. IntLimit - 1
    BY <1>1, <1>2, <1>4
<1>6. Wrap(n) - n = (-q) * w
    BY <1>1, <1>2, <1>3, <1>4
<1>7. -q \in Int
    BY <1>2
<1> QED
    BY <1>5, <1>6, <1>7 DEF Ints, Multiple, w

\* The counts of a module are a sequence of numbers.
LEMMA CountsAreSequences ==
    ASSUME NEW counts \in [1 .. NumModules -> [1 .. Ports -> Counts]]
    PROVE  /\ Len(counts) = NumModules
           /\ \A m \in 1 .. NumModules : Total(counts[m]) \in Int
<1>1. Len(counts) = NumModules
    BY PortsAssumption, FunctionIsSequence
<1>2. ASSUME NEW m \in 1 .. NumModules PROVE Total(counts[m]) \in Int
    <2>1. counts[m] \in [1 .. Ports -> Int]
        BY CountsAssumption
    <2>2. counts[m] \in Seq(Int)
        BY <2>1, PortsAssumption, FunctionIsSequence
    <2> QED
        BY <2>2, TotalType
<1> QED
    BY <1>1, <1>2

\* The int follows its own equations.
LEMMA MissedEquations ==
    ASSUME NEW counts \in [1 .. NumModules -> [1 .. Ports -> Counts]]
    PROVE  /\ MissedAfter(counts)[0] = 0
           /\ \A m \in 1 .. NumModules :
                MissedAfter(counts)[m] =
                    Wrap(MissedAfter(counts)[m - 1] + Total(counts[m]))
<1> DEFINE next == [m \in 1 .. NumModules |->
                        [s \in Ints |-> Wrap(s + Total(counts[m]))]]
           Defn(f) == f = [m \in 0 .. NumModules |->
                        IF m = 0 THEN 0 ELSE Wrap(f[m - 1] + Total(counts[m]))]
<1>1. MissedAfter(counts) = CHOOSE f : Defn(f)
    BY CountsAreSequences DEF MissedAfter
<1>2. ASSUME NEW m \in 1 .. NumModules, NEW s \in Ints
      PROVE  Wrap(s + Total(counts[m])) \in Ints
    <2>1. s \in Int /\ Total(counts[m]) \in Int
        BY IntLimitAssumption, CountsAreSequences DEF Ints
    <2>2. s + Total(counts[m]) \in Int
        BY <2>1
    <2> QED
        BY <2>2, WrapFacts
<1>3. next \in [1 .. NumModules -> [Ints -> Ints]]
    BY <1>2
<1>4. \A m \in 1 .. NumModules, s \in Ints :
        next[m][s] = Wrap(s + Total(counts[m]))
    OBVIOUS
<1> HIDE DEF next
<1>5. 0 \in Ints
    BY IntLimitAssumption DEF Ints
<1>6. PICK f \in [0 .. NumModules -> Ints] : Recursion(f, NumModules, 0, next)
    BY <1>3, <1>5, PortsAssumption, RecursionExists
<1>7. \A m \in 1 .. NumModules : f[m] = Wrap(f[m - 1] + Total(counts[m]))
    <2>1. \A m \in 1 .. NumModules : m - 1 \in 0 .. NumModules
        BY PortsAssumption
    <2> QED
        BY <1>4, <1>6, <2>1 DEF Recursion
<1>8. Defn(f)
    <2>1. f[0] = 0
        BY <1>6 DEF Recursion
    <2>2. \A m \in 0 .. NumModules : m # 0 => m \in 1 .. NumModules
        BY PortsAssumption
    <2> QED
        BY <1>6, <1>7, <2>1, <2>2
<1>9. Defn(MissedAfter(counts))
    BY <1>1, <1>8
<1> DEFINE a == MissedAfter(counts)
<1> HIDE DEF a
<1>10. a = [m \in 0 .. NumModules |->
                IF m = 0 THEN 0 ELSE Wrap(a[m - 1] + Total(counts[m]))]
    BY <1>9 DEF a
<1>11. 0 \in 0 .. NumModules /\ \A m \in 1 .. NumModules :
                                    m \in 0 .. NumModules /\ m # 0
    BY PortsAssumption
<1>12. a[0] = 0 /\ \A m \in 1 .. NumModules :
                        a[m] = Wrap(a[m - 1] + Total(counts[m]))
    BY <1>10, <1>11
<1> QED
    BY <1>12 DEF a

\* All the packets that the modules missed.
OfAll(counts) == Total([m \in 1 .. NumModules |-> Total(counts[m])])

\* The int that is posted is the number of packets missed, but for a multiple.
LEMMA MissedFacts ==
    ASSUME NEW counts \in [1 .. NumModules -> [1 .. Ports -> Counts]]
    PROVE  /\ Missed(counts) \in Ints /\ OfAll(counts) \in Int
           /\ Multiple(Missed(counts) - OfAll(counts))
<1> DEFINE c == [m \in 1 .. NumModules |-> Total(counts[m])]
           a == MissedAfter(counts)
           s == Sums(c)
<1>1. c \in Seq(Int) /\ Len(c) = NumModules
    <2>1. c \in [1 .. NumModules -> Int]
        BY CountsAreSequences
    <2> HIDE DEF c
    <2> QED
        BY <2>1, PortsAssumption, FunctionIsSequence
<1>2. \A m \in 1 .. NumModules : c[m] = Total(counts[m]) /\ c[m] \in Int
    BY CountsAreSequences
<1> HIDE DEF c
<1>3. /\ s \in [0 .. NumModules -> Int] /\ s[0] = 0
      /\ \A m \in 1 .. NumModules : s[m] = s[m - 1] + c[m]
    BY <1>1, SumsEquations
<1>4. a[0] = 0 /\ \A m \in 1 .. NumModules : a[m] = Wrap(a[m - 1] + c[m])
    BY <1>2, MissedEquations
<1> HIDE DEF a, s
<1> DEFINE T == {m \in Nat : m <= NumModules => a[m] \in Ints /\ Multiple(a[m] - s[m])}
<1>5. 0 \in T
    <2>1. 0 \in Ints
        BY IntLimitAssumption DEF Ints
    <2>2. a[0] - s[0] = 0
        BY <1>3, <1>4
    <2> QED
        BY <1>3, <1>4, <2>1, <2>2, MultipleFacts
<1>6. ASSUME NEW m \in T PROVE m + 1 \in T
    <2>1. SUFFICES ASSUME m + 1 <= NumModules
                   PROVE  a[m + 1] \in Ints /\ Multiple(a[m + 1] - s[m + 1])
        BY m \in Nat
    <2>2. m \in 0 .. NumModules /\ m + 1 \in 1 .. NumModules
        BY <2>1, PortsAssumption
    <2>3. a[m] \in Ints /\ Multiple(a[m] - s[m]) /\ a[m] \in Int /\ s[m] \in Int
        BY <1>3, <2>2, IntLimitAssumption, PortsAssumption DEF Ints
    <2>4. c[m + 1] \in Int /\ s[m + 1] = s[m] + c[m + 1]
        BY <1>2, <1>3, <2>2
    <2>5. a[m + 1] = Wrap(a[m] + c[m + 1])
        BY <1>4, <2>2
    <2> HIDE DEF T
    <2>6. a[m] + c[m + 1] \in Int
        BY <2>3, <2>4
    <2>7. a[m + 1] \in Ints /\ Multiple(a[m + 1] - (a[m] + c[m + 1]))
        BY <2>5, <2>6, WrapFacts
    <2>8. a[m + 1] \in Int
        BY <2>7, IntLimitAssumption DEF Ints
    <2>9. a[m + 1] - s[m + 1] = (a[m + 1] - (a[m] + c[m + 1])) + (a[m] - s[m])
        BY <2>3, <2>4, <2>8
    <2>10. a[m + 1] - (a[m] + c[m + 1]) \in Int /\ a[m] - s[m] \in Int
        BY <2>3, <2>4, <2>8
    <2> QED
        BY <2>3, <2>7, <2>9, <2>10, MultipleFacts
<1> HIDE DEF T
<1>7. T = Nat
    <2>1. T \in SUBSET Nat
        BY DEF T
    <2> QED
        BY <1>5, <1>6, <2>1, NatInd
<1>8. a[NumModules] \in Ints /\ Multiple(a[NumModules] - s[NumModules])
    BY <1>7, PortsAssumption DEF T
<1>9. Missed(counts) = a[NumModules]
    BY CountsAreSequences DEF Missed, a
<1>10. OfAll(counts) = s[NumModules] /\ s[NumModules] \in Int
    <2>1. Total(c) = s[NumModules]
        BY <1>1 DEF Total, s
    <2>2. OfAll(counts) = Total(c)
        BY DEF OfAll, c
    <2>3. NumModules \in 0 .. NumModules
        BY PortsAssumption
    <2> QED
        BY <1>3, <2>1, <2>2, <2>3
<1> QED
    BY <1>8, <1>9, <1>10

-----------------------------------------------------------------------------
MissedIInv == MissedTypeOK /\ LossesAreTold

LEMMA IntsAreIntegers == Ints \subseteq Int /\ 0 \in Ints
BY IntLimitAssumption DEF Ints

\* The invariant at the start, and under the steps that move the count.
LEMMA MissedInitInv == MissedInit => MissedIInv
<1> SUFFICES ASSUME MissedInit PROVE MissedIInv
    OBVIOUS
<1>1. MissedTypeOK
    BY IntsAreIntegers DEF MissedInit, MissedTypeOK, ImageModes, Phases
<1>2. ShownIsTotal
    <2>1. shown = 0 /\ total = 0 /\ shown - total = 0
        BY DEF MissedInit
    <2> QED
        BY <2>1, MultipleFacts DEF ShownIsTotal
<1>3. PostedWhenLast
    BY DEF MissedInit, PostedWhenLast
<1> QED
    BY <1>1, <1>2, <1>3 DEF MissedIInv, LossesAreTold

\* A number that an int keeps as it is, and one that it cannot.
LEMMA CloseIsTrue ==
    ASSUME NEW m \in Ints, NEW told \in Int, Multiple(m - told)
    PROVE  (told \in Ints => m = told) /\ (m - told) % IntRange = 0
<1>1. m \in Int /\ m - told \in Int
    BY IntsAreIntegers
<1>2. (m - told) % IntRange = 0
    BY <1>1, MultipleFacts
<1>3. ASSUME told \in Ints PROVE m = told
    <2>1. -IntRange < m - told /\ m - told < IntRange
        BY <1>3, IntLimitAssumption DEF Ints, IntRange
    <2>2. m - told = 0
        BY <1>1, <2>1, MultipleFacts
    <2> QED
        BY <1>1, <2>2
<1> QED
    BY <1>2, <1>3

LEMMA FetchInv == ASSUME MissedIInv, Fetch PROVE MissedIInv'
<1>1. CASE hasReceiver
    <2>1. missing \in [1 .. NumModules -> [1 .. Ports -> Counts]]
        BY DEF MissedIInv, MissedTypeOK
    <2>2. shown' = Missed(missing) /\ total' = OfAll(missing)
        BY <1>1 DEF Fetch, OfAll
    <2>3. shown' \in Ints /\ total' \in Int /\ Multiple(shown' - total')
        BY <2>1, <2>2, MissedFacts
    <2>4. ShownIsTotal'
        BY <2>3, CloseIsTrue DEF ShownIsTotal
    <2>5. MissedTypeOK'
        BY <2>3 DEF Fetch, MissedIInv, MissedTypeOK, Phases, driver
    <2>6. PostedWhenLast'
        BY DEF Fetch, PostedWhenLast
    <2> QED
        BY <2>4, <2>5, <2>6 DEF MissedIInv, LossesAreTold
<1>2. CASE ~hasReceiver
    <2>1. UNCHANGED <<shown, total>>
        BY <1>2 DEF Fetch
    <2> QED
        BY <2>1 DEF Fetch, MissedIInv, MissedTypeOK, LossesAreTold,
                    ShownIsTotal, PostedWhenLast, Phases, driver
<1> QED
    BY <1>1, <1>2

\* Every other step moves posted counts and phases together.
LEMMA MissedInvStep == ASSUME MissedIInv, [MissedNext]_missedVars PROVE MissedIInv'
<1> USE DEF MissedIInv, MissedTypeOK, LossesAreTold, PostedWhenLast, driver
<1>1. CASE Launch
    <2>1. shown' = 0 /\ total' = 0 /\ shown' - total' = 0
        BY <1>1 DEF Launch
    <2>2. ShownIsTotal'
        BY <2>1, MultipleFacts DEF ShownIsTotal
    <2> QED
        BY <1>1, <2>2, IntsAreIntegers DEF Launch, Phases
<1>2. CASE AcquireEnds
    BY <1>2 DEF AcquireEnds, Phases, ShownIsTotal
<1>3. CASE AcquireThrows
    BY <1>3 DEF AcquireThrows, Phases, ShownIsTotal
<1>4. CASE Fetch
    BY <1>4, FetchInv
<1>5. CASE FetchThrows
    BY <1>5 DEF FetchThrows, Phases, ShownIsTotal
<1>6. CASE Finish
    BY <1>6 DEF Finish, Phases, ShownIsTotal
<1>7. CASE GoOn
    BY <1>7 DEF GoOn, Phases, ShownIsTotal, IsLast, ImageModes
<1>8. CASE OthersPost
    BY <1>8 DEF OthersPost, ShownIsTotal
<1>9. ASSUME NEW v \in {0, 1}, WriteAcquire(v) PROVE MissedIInv'
    BY <1>9 DEF WriteAcquire, ShownIsTotal
<1>10. ASSUME NEW mode \in ImageModes, WriteImageMode(mode) PROVE MissedIInv'
    BY <1>10 DEF WriteImageMode, ShownIsTotal
<1>11. CASE UNCHANGED missedVars
    BY <1>11 DEF missedVars, ShownIsTotal
<1> QED
    BY <1>1, <1>2, <1>3, <1>4, <1>5, <1>6, <1>7, <1>8, <1>9, <1>10, <1>11
       DEF MissedNext

LEMMA MissedInvariance == MissedSpec => []MissedIInv
<1>1. MissedIInv /\ [MissedNext]_missedVars => MissedIInv'
    BY MissedInvStep
<1> QED
    BY <1>1, MissedInitInv, PTL DEF MissedSpec

\* The counts, the parameter and its posted value have their types: the sum is
\* an int whatever the receivers count (acquisitionTask).
THEOREM MissedTypes == MissedSpec => []MissedTypeOK
<1>1. MissedIInv => MissedTypeOK
    BY DEF MissedIInv
<1> QED
    BY <1>1, MissedInvariance, PTL

\* SDRecvMissed is the number of packets missed in the last run if it fits an
\* int, whatever the partial sums, and is posted once the task rests.
THEOREM LossesTold == MissedSpec => []LossesAreTold
<1>1. MissedIInv => LossesAreTold
    BY DEF MissedIInv
<1> QED
    BY <1>1, MissedInvariance, PTL

-----------------------------------------------------------------------------
(***************************************************************************)
(* Results of several modules, for any values and any number of modules.   *)
(***************************************************************************)
\* R orders all members of S.
OrderOn(S, R) ==
    /\ \A x \in S : <<x, x>> \in R
    /\ \A x, y \in S : <<x, y>> \in R \/ <<y, x>> \in R
    /\ \A x, y \in S : <<x, y>> \in R /\ <<y, x>> \in R => x = y
    /\ \A x, y, z \in S : <<x, y>> \in R /\ <<y, z>> \in R => <<x, z>> \in R

Before(S, R, x) == {y \in S : <<y, x>> \in R}

\* In an ordered finite set the members up to one number its place, and each
\* number up to the size is the place of one member.
LEMMA Places ==
    ASSUME NEW S, IsFiniteSet(S), NEW R, OrderOn(S, R)
    PROVE  /\ Cardinality(S) \in Nat
           /\ \A x \in S : Cardinality(Before(S, R, x)) \in 1 .. Cardinality(S)
           /\ \A p \in 1 .. Cardinality(S) :
                \E x \in S : Cardinality(Before(S, R, x)) = p
           /\ \A x, y \in S :
                Cardinality(Before(S, R, x)) <= Cardinality(Before(S, R, y))
                    <=> <<x, y>> \in R
<1> DEFINE n == Cardinality(S)
           B(x) == Before(S, R, x)
           place == [x \in S |-> Cardinality(B(x))]
<1>1. n \in Nat
    BY FS_CardinalityType
<1>2. ASSUME NEW x \in S
      PROVE  /\ B(x) \in SUBSET S /\ IsFiniteSet(B(x)) /\ x \in B(x)
             /\ Cardinality(B(x)) \in Nat /\ Cardinality(B(x)) \in 1 .. n
    <2>1. B(x) \in SUBSET S /\ x \in B(x)
        BY DEF OrderOn, Before
    <2> HIDE DEF B
    <2>2. IsFiniteSet(B(x)) /\ Cardinality(B(x)) <= n
        BY <2>1, FS_Subset
    <2>3. Cardinality(B(x)) \in Nat
        BY <2>2, FS_CardinalityType
    <2>4. Cardinality(B(x)) # 0
        BY <2>1, <2>2, FS_EmptySet
    <2> QED
        BY <1>1, <2>1, <2>2, <2>3, <2>4
<1>3. ASSUME NEW x \in S, NEW y \in S, <<x, y>> \in R
      PROVE  /\ Cardinality(B(x)) <= Cardinality(B(y))
             /\ Cardinality(B(x)) = Cardinality(B(y)) => x = y
    <2>1. B(x) \in SUBSET B(y)
        BY <1>3 DEF OrderOn, Before
    <2>2. B(x) = B(y) => x = y
        BY <1>3, <1>2 DEF OrderOn, Before
    <2> HIDE DEF B
    <2>3. /\ Cardinality(B(x)) <= Cardinality(B(y))
          /\ Cardinality(B(x)) = Cardinality(B(y)) => B(x) = B(y)
        BY <1>2, <2>1, FS_Subset
    <2> QED
        BY <2>2, <2>3
<1>4. \A x, y \in S : <<x, y>> \in R \/ <<y, x>> \in R
    BY DEF OrderOn
<1>5. \A x \in S : <<x, x>> \in R
    BY DEF OrderOn
<1> HIDE DEF B
<1>6. \A x, y \in S : Cardinality(B(x)) <= Cardinality(B(y)) <=> <<x, y>> \in R
    <2> SUFFICES ASSUME NEW x \in S, NEW y \in S,
                        Cardinality(B(x)) <= Cardinality(B(y)), <<y, x>> \in R
                 PROVE  <<x, y>> \in R
        BY <1>3, <1>4
    <2>1. Cardinality(B(x)) = Cardinality(B(y))
        BY <1>2, <1>3
    <2> QED
        BY <1>3, <1>5, <2>1
<1>7. \A x \in S : place[x] = Cardinality(B(x))
    OBVIOUS
<1>8. place \in [S -> 1 .. n]
    BY <1>2
<1> HIDE DEF place
<1>9. \A x, y \in S : place[x] = place[y] => x = y
    BY <1>3, <1>4, <1>7
<1>10. place \in Injection(S, 1 .. n)
    BY <1>8, <1>9 DEF Injection, IsInjective
<1>11. IsFiniteSet(1 .. n) /\ Cardinality(1 .. n) = n
    <2> HIDE DEF n
    <2>1. IsFiniteSet(1 .. n) /\ Cardinality(1 .. n) = IF 1 > n THEN 0 ELSE n - 1 + 1
        BY <1>1, FS_Interval
    <2> QED
        BY <1>1, <2>1
<1>12. place \in Surjection(S, 1 .. n)
    BY <1>10, <1>11, FS_Injection
<1>13. \A p \in 1 .. n : \E x \in S : place[x] = p
    BY <1>12 DEF Surjection
<1> QED
    BY <1>1, <1>2, <1>6, <1>7, <1>13 DEF B

-----------------------------------------------------------------------------
\* Sorting keeps the elements and leaves them in ascending order.
LEMMA SortedFacts ==
    ASSUME NEW n \in Nat, NEW c \in [1 .. n -> Int]
    PROVE  /\ Sorted(c) \in [1 .. n -> Int]
           /\ \A p \in 1 .. n : \E i \in 1 .. n : Sorted(c)[p] = c[i]
           /\ \A i \in 1 .. n : \E p \in 1 .. n : Sorted(c)[p] = c[i]
           /\ \A p, r \in 1 .. n : p <= r => Sorted(c)[p] <= Sorted(c)[r]
<1> DEFINE N == 1 .. n
           R == {x \in N \X N : c[x[1]] < c[x[2]] \/ (c[x[1]] = c[x[2]] /\ x[1] <= x[2])}
           at(p) == CHOOSE i \in N : Place(c, i) = p
<1>1. \A i \in N : Place(c, i) = Cardinality(Before(N, R, i))
    <2> SUFFICES ASSUME NEW i \in N
                 PROVE  {j \in DOMAIN c : c[j] < c[i] \/ (c[j] = c[i] /\ j <= i)}
                            = Before(N, R, i)
        BY DEF Place
    <2>1. DOMAIN c = N
        OBVIOUS
    <2>2. \A j \in N : <<j, i>> \in R <=> c[j] < c[i] \/ (c[j] = c[i] /\ j <= i)
        OBVIOUS
    <2> HIDE DEF R, N
    <2> QED
        BY <2>1, <2>2 DEF Before
<1>2. OrderOn(N, R)
    <2>1. \A i, j \in N : <<i, j>> \in R <=> c[i] < c[j] \/ (c[i] = c[j] /\ i <= j)
        OBVIOUS
    <2>2. \A i \in N : i \in Int /\ c[i] \in Int
        OBVIOUS
    <2> HIDE DEF R, N
    <2>3. \A i \in N : <<i, i>> \in R
        BY <2>1, <2>2
    <2>4. ASSUME NEW i \in N, NEW j \in N PROVE <<i, j>> \in R \/ <<j, i>> \in R
        <3>1. \/ c[i] < c[j] \/ (c[i] = c[j] /\ i <= j)
              \/ c[j] < c[i] \/ (c[j] = c[i] /\ j <= i)
            BY <2>2
        <3> QED
            BY <2>1, <3>1
    <2>5. ASSUME NEW i \in N, NEW j \in N, <<i, j>> \in R, <<j, i>> \in R PROVE i = j
        <3>1. /\ c[i] < c[j] \/ (c[i] = c[j] /\ i <= j)
              /\ c[j] < c[i] \/ (c[j] = c[i] /\ j <= i)
            BY <2>1, <2>5
        <3> QED
            BY <2>2, <3>1
    <2>6. ASSUME NEW i \in N, NEW j \in N, NEW k \in N,
                 <<i, j>> \in R, <<j, k>> \in R
          PROVE  <<i, k>> \in R
        <3>1. /\ c[i] < c[j] \/ (c[i] = c[j] /\ i <= j)
              /\ c[j] < c[k] \/ (c[j] = c[k] /\ j <= k)
            BY <2>1, <2>6
        <3>2. c[i] < c[k] \/ (c[i] = c[k] /\ i <= k)
            BY <2>2, <3>1
        <3> QED
            BY <2>1, <3>2
    <2> QED
        BY <2>3, <2>4, <2>5, <2>6 DEF OrderOn
<1>3. IsFiniteSet(N) /\ Cardinality(N) = n
    <2>1. IsFiniteSet(N) /\ Cardinality(N) = IF 1 > n THEN 0 ELSE n - 1 + 1
        BY FS_Interval
    <2> QED
        BY <2>1
<1>4. \A i, j \in N : <<i, j>> \in R => c[i] <= c[j]
    OBVIOUS
<1> HIDE DEF R
<1>5. /\ \A i \in N : Place(c, i) \in 1 .. n
      /\ \A p \in 1 .. n : \E i \in N : Place(c, i) = p
      /\ \A i, j \in N : Place(c, i) <= Place(c, j) <=> <<i, j>> \in R
      /\ \A i, j \in N : <<i, j>> \in R /\ <<j, i>> \in R => i = j
    <2> HIDE DEF N
    <2>1. /\ \A i \in N : Cardinality(Before(N, R, i)) \in 1 .. n
          /\ \A p \in 1 .. n : \E i \in N : Cardinality(Before(N, R, i)) = p
          /\ \A i, j \in N : Cardinality(Before(N, R, i)) <= Cardinality(Before(N, R, j))
                <=> <<i, j>> \in R
        BY <1>2, <1>3, Places
    <2> QED
        BY <1>1, <1>2, <2>1 DEF OrderOn
<1>6. \A p \in N : at(p) \in N /\ Place(c, at(p)) = p
    BY <1>5
<1>7. /\ DOMAIN Sorted(c) = N
      /\ Sorted(c) = [p \in N |-> c[at(p)]]
    <2>1. DOMAIN c = N
        OBVIOUS
    <2> QED
        BY <2>1 DEF Sorted
<1> HIDE DEF at
<1>8. \A p \in N : Sorted(c)[p] = c[at(p)]
    BY <1>7
<1>9. Sorted(c) \in [N -> Int]
    BY <1>6, <1>7
<1>10. ASSUME NEW i \in N PROVE Sorted(c)[Place(c, i)] = c[i]
    <2>1. Place(c, i) \in N /\ at(Place(c, i)) \in N
          /\ Place(c, at(Place(c, i))) = Place(c, i)
        BY <1>5, <1>6
    <2>2. Place(c, i) \in Int
        BY <2>1
    <2>3. at(Place(c, i)) = i
        <3>1. \A k \in N : Place(c, k) = Place(c, i) => k = i
            <4> SUFFICES ASSUME NEW k \in N, Place(c, k) = Place(c, i)
                         PROVE  k = i
                OBVIOUS
            <4>1. Place(c, i) <= Place(c, k) /\ Place(c, k) <= Place(c, i)
                BY <2>2
            <4> QED
                BY <1>5, <4>1
        <3> QED
            BY <2>1, <3>1
    <2> QED
        BY <1>8, <2>1, <2>3
<1>11. ASSUME NEW p \in N, NEW r \in N, p <= r PROVE Sorted(c)[p] <= Sorted(c)[r]
    <2>1. <<at(p), at(r)>> \in R
        BY <1>5, <1>6, <1>11
    <2> QED
        BY <1>4, <1>6, <1>8, <2>1
<1> QED
    BY <1>5, <1>6, <1>8, <1>9, <1>10, <1>11

-----------------------------------------------------------------------------
\* The members of a finite set of integers in their order.
LEMMA NthFacts ==
    ASSUME NEW K \in SUBSET Int, IsFiniteSet(K), NEW k, k = Cardinality(K)
    PROVE  /\ k \in Nat
           /\ \A m \in 1 .. k : Nth(K, m) \in K
           /\ \A i \in K : \E m \in 1 .. k : Nth(K, m) = i
           /\ \A m, l \in 1 .. k : m < l => Nth(K, m) < Nth(K, l)
<1> DEFINE R == {x \in K \X K : x[1] <= x[2]}
           upto(i) == Cardinality({j \in K : j <= i})
<1>1. \A i, j \in K : <<i, j>> \in R <=> i <= j
    OBVIOUS
<1> HIDE DEF R
<1>2. OrderOn(K, R)
    <2>1. \A i, j \in K : i <= j \/ j <= i
        OBVIOUS
    <2>2. \A i, j \in K : i <= j /\ j <= i => i = j
        OBVIOUS
    <2>3. \A i, j, m \in K : i <= j /\ j <= m => i <= m
        OBVIOUS
    <2> QED
        BY <1>1, <2>1, <2>2, <2>3 DEF OrderOn
<1>3. \A i \in K : upto(i) = Cardinality(Before(K, R, i))
    <2> SUFFICES ASSUME NEW i \in K PROVE {j \in K : j <= i} = Before(K, R, i)
        OBVIOUS
    <2> QED
        BY <1>1 DEF Before
<1> HIDE DEF upto
<1>4. /\ k \in Nat
      /\ \A i \in K : upto(i) \in 1 .. k
      /\ \A m \in 1 .. k : \E i \in K : upto(i) = m
      /\ \A i, j \in K : upto(i) <= upto(j) <=> i <= j
    <2>1. /\ k \in Nat
          /\ \A i \in K : Cardinality(Before(K, R, i)) \in 1 .. k
          /\ \A m \in 1 .. k : \E i \in K : Cardinality(Before(K, R, i)) = m
          /\ \A i, j \in K : Cardinality(Before(K, R, i)) <= Cardinality(Before(K, R, j))
                <=> <<i, j>> \in R
        BY <1>2, Places
    <2>2. \A i \in K : upto(i) \in 1 .. k
        BY <1>3, <2>1
    <2>3. \A m \in 1 .. k : \E i \in K : upto(i) = m
        BY <1>3, <2>1
    <2>4. ASSUME NEW i \in K, NEW j \in K PROVE upto(i) <= upto(j) <=> i <= j
        <3>1. /\ upto(i) = Cardinality(Before(K, R, i))
              /\ upto(j) = Cardinality(Before(K, R, j))
            BY <1>3
        <3>2. Cardinality(Before(K, R, i)) <= Cardinality(Before(K, R, j))
                <=> <<i, j>> \in R
            BY <2>1
        <3>3. <<i, j>> \in R <=> i <= j
            BY <1>1
        <3> QED
            BY <3>1, <3>2, <3>3
    <2> QED
        BY <2>1, <2>2, <2>3, <2>4
<1>5. \A m \in 1 .. k : Nth(K, m) \in K /\ upto(Nth(K, m)) = m
    BY <1>4 DEF Nth, upto
<1>6. ASSUME NEW i \in K PROVE \E m \in 1 .. k : Nth(K, m) = i
    <2> DEFINE m == upto(i)
               j == Nth(K, m)
    <2>1. m \in 1 .. k /\ j \in K /\ upto(j) = upto(i) /\ upto(i) \in Int
        BY <1>4, <1>5
    <2>2. i <= j /\ j <= i /\ i \in Int /\ j \in Int
        <3> HIDE DEF m, j
        <3>1. upto(j) <= upto(i) /\ upto(i) <= upto(j)
            BY <2>1
        <3> QED
            BY <1>4, <2>1, <3>1
    <2>3. j = i
        <3> HIDE DEF j
        <3> QED BY <2>2
    <2> QED
        BY <2>1, <2>3
<1>7. ASSUME NEW m \in 1 .. k, NEW l \in 1 .. k, m < l
      PROVE  Nth(K, m) < Nth(K, l)
    <2> DEFINE i == Nth(K, m)
               j == Nth(K, l)
    <2>1. i \in K /\ j \in K /\ upto(i) = m /\ upto(j) = l
        BY <1>5
    <2> HIDE DEF i, j
    <2>2. ~(j <= i)
        BY <1>4, <1>7, <2>1
    <2>3. i < j
        BY <2>1, <2>2
    <2> QED
        BY <2>3 DEF i, j
<1> QED
    BY <1>4, <1>5, <1>6, <1>7

\* What removing duplicates leaves of c.
LEMMA UniqueFacts ==
    ASSUME NEW n \in Nat, NEW c \in [1 .. n -> Int], NEW k,
           k = Cardinality(Kept(Sorted(c)))
    PROVE  /\ k \in Nat /\ k <= n
           /\ UniqueSorted(c) \in [1 .. k -> {c[i] : i \in 1 .. n}]
           /\ \A i \in 1 .. n : c[i] \in {UniqueSorted(c)[m] : m \in 1 .. k}
           /\ \A m, l \in 1 .. k : m < l => UniqueSorted(c)[m] < UniqueSorted(c)[l]
           /\ k # n <=> \E i \in 2 .. n : Sorted(c)[i] = Sorted(c)[i - 1]
<1> DEFINE s == Sorted(c)
           K == Kept(s)
           N == 1 .. n
           u == UniqueSorted(c)
<1>1. /\ s \in [N -> Int]
      /\ \A p \in N : \E i \in N : s[p] = c[i]
      /\ \A i \in N : \E p \in N : s[p] = c[i]
      /\ \A p, r \in N : p <= r => s[p] <= s[r]
    BY SortedFacts
<1>2. u = [m \in 1 .. k |-> s[Nth(K, m)]]
    BY DEF UniqueSorted
<1> HIDE DEF s, u
<1>3. /\ K \in SUBSET N
      /\ \A i \in N : i \in K <=> i = 1 \/ s[i] # s[i - 1]
    BY <1>1 DEF Kept
<1>4. k = Cardinality(K)
    BY DEF s
<1> HIDE DEF K
<1>5. /\ IsFiniteSet(N) /\ Cardinality(N) = n
    <2>1. IsFiniteSet(N) /\ Cardinality(N) = IF 1 > n THEN 0 ELSE n - 1 + 1
        BY FS_Interval
    <2> QED
        BY <2>1
<1>6. IsFiniteSet(K) /\ k <= n /\ (k = n => K = N) /\ K \in SUBSET Int
    <2>1. K \in SUBSET Int
        BY <1>3
    <2> HIDE DEF N
    <2> QED
        BY <1>3, <1>4, <1>5, <2>1, FS_Subset
<1>7. /\ k \in Nat
      /\ \A m \in 1 .. k : Nth(K, m) \in K
      /\ \A i \in K : \E m \in 1 .. k : Nth(K, m) = i
      /\ \A m, l \in 1 .. k : m < l => Nth(K, m) < Nth(K, l)
    BY <1>4, <1>6, NthFacts
<1>8. \A m \in 1 .. k : u[m] = s[Nth(K, m)] /\ u[m] \in {c[i] : i \in N}
    BY <1>1, <1>2, <1>3, <1>7
<1>9. u \in [1 .. k -> {c[i] : i \in N}]
    BY <1>2, <1>8
<1>10. ASSUME NEW i \in N PROVE \E m \in 1 .. k : u[m] = c[i]
    <2> DEFINE T == {p \in N : s[p] = c[i]}
    <2>1. T \in SUBSET Nat /\ T # {}
        <3>1. PICK p \in N : s[p] = c[i]
            BY <1>1
        <3>2. N \subseteq Nat
            OBVIOUS
        <3> QED
            BY <3>1, <3>2
    <2>2. PICK p \in T : \A r \in T : p <= r
        <3> HIDE DEF T
        <3> QED BY <2>1, LeastNatural
    <2>3. p \in K
        <3>1. CASE p = 1
            BY <1>3, <3>1
        <3>2. CASE p # 1
            <4>1. p - 1 \in N /\ p - 1 \notin T
                BY <2>2, <3>2
            <4> QED
                BY <1>3, <2>2, <4>1
        <3> QED
            BY <3>1, <3>2
    <2>4. PICK m \in 1 .. k : Nth(K, m) = p
        BY <1>7, <2>3
    <2> QED
        BY <1>8, <2>2, <2>4
<1>10a. \A i \in N : c[i] \in {u[m] : m \in 1 .. k}
    BY <1>10
<1>11. ASSUME NEW m \in 1 .. k, NEW l \in 1 .. k, m < l PROVE u[m] < u[l]
    <2> DEFINE i == Nth(K, m)
               j == Nth(K, l)
    <2>1. i \in K /\ j \in K /\ i < j /\ u[m] = s[i] /\ u[l] = s[j]
        BY <1>7, <1>8, <1>11
    <2> HIDE DEF i, j
    <2>2. i \in N /\ j \in N /\ j - 1 \in N /\ i <= j - 1 /\ j - 1 <= j /\ j # 1
        BY <1>3, <2>1
    <2>3. s[j] # s[j - 1] /\ s[i] <= s[j - 1] /\ s[j - 1] <= s[j]
        BY <1>1, <1>3, <2>1, <2>2
    <2>4. s[i] \in Int /\ s[j] \in Int /\ s[j - 1] \in Int
        BY <1>1, <2>2
    <2> QED
        BY <2>1, <2>3, <2>4
<1>12. k # n <=> \E i \in 2 .. n : s[i] = s[i - 1]
    <2>1. ASSUME NEW i \in 2 .. n, s[i] = s[i - 1] PROVE k # n
        <3>1. i \in N /\ i # 1
            OBVIOUS
        <3>2. i \notin K
            BY <1>3, <2>1, <3>1
        <3> QED
            BY <1>6, <3>1, <3>2
    <2>2. ASSUME \A i \in 2 .. n : s[i] # s[i - 1] PROVE k = n
        <3>1. \A i \in N : i # 1 => i \in 2 .. n
            OBVIOUS
        <3>2. K = N
            BY <1>3, <2>2, <3>1
        <3> QED
            BY <1>4, <1>5, <3>2
    <2> QED
        BY <2>1, <2>2
<1> QED
    BY <1>6, <1>7, <1>9, <1>10a, <1>11, <1>12 DEF s, u

-----------------------------------------------------------------------------
\* The vector as a function of a range of numbers, which is easier to reason
\* about.
LEMMA VecFacts ==
    ASSUME ContainersTypeOK, NEW n, n = Len(vec)
    PROVE  /\ n \in Nat /\ DOMAIN vec = 1 .. n /\ vec \in [1 .. n -> Values]
           /\ vec \in [1 .. n -> Int] /\ n <= MaxSize
           /\ vec = <<>> <=> n = 0
           /\ Elements = {vec[i] : i \in 1 .. n}
<1>1. /\ n \in Nat /\ DOMAIN vec = 1 .. n /\ vec \in [1 .. n -> Values]
      /\ n <= MaxSize /\ (vec = <<>> <=> n = 0)
    BY LenProperties, EmptySeq DEF ContainersTypeOK
<1>2. vec \in [1 .. n -> Int]
    BY <1>1, ValuesAssumption
<1> QED
    BY <1>1, <1>2 DEF Elements

\* Appending and removing keep the type: what remains is among what was there.
LEMMA ContainersStep ==
    ASSUME ContainersTypeOK, [ContainersNext]_containersVars
    PROVE  ContainersTypeOK'
<1> DEFINE n == Len(vec)
<1>1. /\ n \in Nat /\ vec \in [1 .. n -> Values] /\ vec \in [1 .. n -> Int]
      /\ n <= MaxSize
    BY VecFacts
<1>2. CASE removeDuplicates
    <2> DEFINE k == Cardinality(Kept(Sorted(vec)))
               u == UniqueSorted(vec)
    <2>1. k \in Nat /\ k <= n /\ u \in [1 .. k -> {vec[i] : i \in 1 .. n}]
        <3> HIDE DEF n
        <3> QED BY <1>1, UniqueFacts
    <2> HIDE DEF k, n, u
    <2>2. u \in [1 .. k -> Values]
        BY <1>1, <2>1
    <2>3. u \in Seq(Values) /\ Len(u) = k
        BY <2>1, <2>2, FunctionIsSequence
    <2>4. vec' = u
        BY <1>2 DEF removeDuplicates, u
    <2> QED
        BY <1>1, <2>1, <2>3, <2>4, MaxSizeAssumption DEF ContainersTypeOK
<1>3. ASSUME NEW value \in Values, push_back(value) PROVE ContainersTypeOK'
    BY <1>3, AppendProperties, MaxSizeAssumption
       DEF push_back, ContainersTypeOK
<1>4. CASE UNCHANGED containersVars
    BY <1>4 DEF containersVars, ContainersTypeOK
<1> QED
    BY <1>2, <1>3, <1>4 DEF ContainersNext

LEMMA ContainersStart == ContainersInit => ContainersTypeOK
BY EmptySeq, MaxSizeAssumption DEF ContainersInit, ContainersTypeOK

\* A Result has at most as many elements as it was given, and of their type
\* (Result).
THEOREM ContainersTypes == ContainersSpec => []ContainersTypeOK
<1>1. ContainersTypeOK /\ [ContainersNext]_containersVars => ContainersTypeOK'
    BY ContainersStep
<1> QED
    BY <1>1, ContainersStart, PTL DEF ContainersSpec

-----------------------------------------------------------------------------
\* All elements are one value if and only if there is one and no second.
LEMMA OneElement ==
    ASSUME ContainersTypeOK
    PROVE  /\ (vec # <<>> /\ \A i \in DOMAIN vec : vec[i] = vec[1])
                <=> Cardinality(Elements) = 1
           /\ Cardinality(Elements) = 1 => (CHOOSE v \in Elements : TRUE) = vec[1]
<1> DEFINE n == Len(vec)
<1>1. /\ n \in Nat /\ DOMAIN vec = 1 .. n /\ (vec = <<>> <=> n = 0)
      /\ Elements = {vec[i] : i \in 1 .. n} /\ vec \in [1 .. n -> Values]
    BY VecFacts
<1> HIDE DEF n
<1>2. IsFiniteSet(Elements)
    <2>1. Elements \in SUBSET Values
        BY <1>1
    <2> QED
        BY <2>1, ValuesAssumption, FS_Subset
<1>3. ASSUME vec # <<>>, \A i \in DOMAIN vec : vec[i] = vec[1]
      PROVE  Elements = {vec[1]}
    <2>1. 1 \in 1 .. n
        BY <1>1, <1>3
    <2> QED
        BY <1>1, <1>3, <2>1
<1>4. ASSUME NEW v, Elements = {v}
      PROVE  vec # <<>> /\ \A i \in DOMAIN vec : vec[i] = vec[1]
    <2>1. n # 0
        BY <1>1, <1>4
    <2>2. 1 \in 1 .. n
        BY <1>1, <2>1
    <2> QED
        BY <1>1, <1>4, <2>1, <2>2
<1>5. Cardinality(Elements) = 1 <=> \E v : Elements = {v}
    BY <1>2, FS_Singleton
<1>6. (vec # <<>> /\ \A i \in DOMAIN vec : vec[i] = vec[1])
                <=> Cardinality(Elements) = 1
    BY <1>3, <1>4, <1>5
<1> QED
    BY <1>3, <1>6

\* The parts of ContainersAgree, of every vector.
LEMMA SquashFacts == ASSUME ContainersTypeOK PROVE SquashNeedsAgreement
BY OneElement
   DEF SquashNeedsAgreement, Squash, minusOneIfDifferent, tsquash, allEqual

\* The difference of two elements that are near a third.
LEMMA ToleranceFacts == ASSUME ContainersTypeOK PROVE ToleranceBoundsSpread
<1> DEFINE n == Len(vec)
<1>1. /\ n \in Nat /\ DOMAIN vec = 1 .. n /\ (vec = <<>> <=> n = 0)
      /\ Elements = {vec[i] : i \in 1 .. n} /\ vec \in [1 .. n -> Int]
    BY VecFacts
<1> HIDE DEF n
<1>2. \A i \in 1 .. n : vec[i] \in Int
    BY <1>1
<1>3. n # 0 => 1 \in 1 .. n
    BY <1>1
<1> SUFFICES ASSUME NEW tol \in Tolerances
    PROVE   LET equal == allEqualWithTol(vec, tol)
        IN  /\ equal => /\ tol > 0
                        /\ \A v, w \in Elements : v - w < 2 * tol - 1
            /\ vec # <<>> /\ (\A v, w \in Elements : v - w < tol) => equal
            /\ \A v \in Values :
                /\ allEqualToWithTol(vec, v, tol) =>
                        anyEqualToWithTol(vec, v, tol)
                /\ allEqualToWithTol(vec, v, 1) <=> allEqualTo(vec, v)
                /\ anyEqualToWithTol(vec, v, 1) <=> anyEqualTo(vec, v)
    BY DEF ToleranceBoundsSpread
<1>4. tol \in Int
    BY TolerancesAssumption
<1>5. ASSUME allEqualWithTol(vec, tol)
      PROVE  tol > 0 /\ \A v, w \in Elements : v - w < 2 * tol - 1
    <2>1. n # 0 /\ \A i \in 1 .. n : abs(vec[i] - vec[1]) < tol
        BY <1>1, <1>5 DEF allEqualWithTol
    <2>2. \A i \in 1 .. n : vec[i] - vec[1] < tol /\ vec[1] - vec[i] < tol
        BY <1>2, <1>3, <1>4, <2>1 DEF abs
    <2>3. tol > 0
        BY <1>2, <1>3, <1>4, <2>1, <2>2
    <2>4. \A i, j \in 1 .. n : vec[i] - vec[j] < 2 * tol - 1
        BY <1>2, <1>3, <1>4, <2>1, <2>2
    <2> QED
        BY <1>1, <2>3, <2>4
<1>6. ASSUME vec # <<>>, \A v, w \in Elements : v - w < tol
      PROVE  allEqualWithTol(vec, tol)
    <2>1. \A i, j \in 1 .. n : vec[i] - vec[j] < tol
        BY <1>1, <1>6
    <2>2. \A i \in 1 .. n : abs(vec[i] - vec[1]) < tol
        BY <1>1, <1>2, <1>3, <1>4, <1>6, <2>1 DEF abs
    <2> QED
        BY <1>1, <1>6, <2>2 DEF allEqualWithTol
<1>7. ASSUME NEW v \in Values
      PROVE  /\ allEqualToWithTol(vec, v, tol) => anyEqualToWithTol(vec, v, tol)
             /\ allEqualToWithTol(vec, v, 1) <=> allEqualTo(vec, v)
             /\ anyEqualToWithTol(vec, v, 1) <=> anyEqualTo(vec, v)
    <2>1. v \in Int
        BY ValuesAssumption
    <2>2. \A i \in 1 .. n : abs(vec[i] - v) < 1 <=> vec[i] = v
        BY <1>2, <2>1 DEF abs
    <2> QED
        BY <1>1, <1>3, <2>2
           DEF allEqualToWithTol, anyEqualToWithTol, allEqualTo, anyEqualTo
<1> QED
    BY <1>5, <1>6, <1>7

\* Sorted, equal elements stand together: the first of each is kept.
LEMMA DuplicatesFacts == ASSUME ContainersTypeOK PROVE DuplicatesAreFound
<1> DEFINE n == Len(vec)
           u == UniqueSorted(vec)
           s == Sorted(vec)
           k == Cardinality(Kept(s))
<1>1. /\ n \in Nat /\ Elements = {vec[i] : i \in 1 .. n}
      /\ vec \in [1 .. n -> Int]
    BY VecFacts
<1> HIDE DEF n
<1>2. /\ k \in Nat /\ k <= n /\ u \in [1 .. k -> Elements]
      /\ \A i \in 1 .. n : vec[i] \in {u[m] : m \in 1 .. k}
      /\ \A m, l \in 1 .. k : m < l => u[m] < u[l]
      /\ k # n <=> \E i \in 2 .. n : s[i] = s[i - 1]
    <2>1. /\ k \in Nat /\ k <= n /\ u \in [1 .. k -> {vec[i] : i \in 1 .. n}]
          /\ \A i \in 1 .. n : vec[i] \in {u[m] : m \in 1 .. k}
          /\ \A m, l \in 1 .. k : m < l => u[m] < u[l]
          /\ k # n <=> \E i \in 2 .. n : s[i] = s[i - 1]
        <3>1. k = Cardinality(Kept(Sorted(vec)))
            OBVIOUS
        <3> HIDE DEF k
        <3>2. k \in Nat /\ k <= n /\ u \in [1 .. k -> {vec[i] : i \in 1 .. n}]
            BY <1>1, <3>1, UniqueFacts
        <3>3. \A i \in 1 .. n : vec[i] \in {u[m] : m \in 1 .. k}
            BY <1>1, <3>1, UniqueFacts
        <3>4. \A m, l \in 1 .. k : m < l => u[m] < u[l]
            BY <1>1, <3>1, UniqueFacts
        <3>5. k # n <=> \E i \in 2 .. n : s[i] = s[i - 1]
            BY <1>1, <3>1, UniqueFacts
        <3> HIDE DEF u, s
        <3> QED
            BY <3>2, <3>3, <3>4, <3>5
    <2> HIDE DEF k, u, s
    <2> QED
        BY <1>1, <2>1
<1>3. s \in [1 .. n -> Int]
    BY <1>1, SortedFacts
<1> HIDE DEF u, s, k
<1>4. Len(u) = k /\ Len(s) = n
    BY <1>1, <1>2, <1>3, FunctionIsSequence
<1>5. \A v \in Elements : \E m \in 1 .. k : u[m] = v
    BY <1>1, <1>2
<1>6. Range(u) = Elements
    BY <1>2, <1>5 DEF Range
<1>7. Cardinality(Elements) = k
    <2>1. \A m, l \in 1 .. k : u[m] = u[l] => m = l
        <3> SUFFICES ASSUME NEW m \in 1 .. k, NEW l \in 1 .. k, u[m] = u[l]
                     PROVE  m = l
            OBVIOUS
        <3>1. u[m] \in Int
            BY <1>1, <1>2
        <3>2. ~(m < l) /\ ~(l < m)
            BY <1>2, <3>1
        <3> QED
            BY <1>2, <3>2
    <2>2. u \in Bijection(1 .. k, Elements)
        BY <1>2, <1>5, <2>1 DEF Bijection, Injection, Surjection, IsInjective
    <2> QED
        BY <1>2, <2>2, FS_CountingElements DEF ExistsBijection
<1>8. \A i \in 2 .. k : u[i - 1] < u[i]
    <2>1. \A i \in 2 .. k : i - 1 \in 1 .. k /\ i \in 1 .. k /\ i - 1 < i
        BY <1>2
    <2> QED
        BY <1>2, <2>1
<1>9. hasDuplicates(vec) <=> k # n
    BY <1>2, <1>4 DEF hasDuplicates, s
<1> QED
    BY <1>4, <1>6, <1>7, <1>8, <1>9 DEF DuplicatesAreFound, u, n

\* A sequence of the members of a finite set has each of them.
LEMMA SetToSeqFacts ==
    ASSUME NEW S, IsFiniteSet(S)
    PROVE  /\ \A v : v \in S <=> \E j \in DOMAIN SetToSeq(S) : SetToSeq(S)[j] = v
           /\ IsFiniteSet(DOMAIN SetToSeq(S))
<1> DEFINE n == Cardinality(S)
<1>1. n \in Nat /\ ExistsBijection(1 .. n, S)
    BY FS_CardinalityType
<1>2. PICK f \in Bijection(1 .. n, S) : TRUE
    BY <1>1 DEF ExistsBijection
<1>3. f \in [1 .. n -> S] /\ IsInjective(f)
    BY <1>2 DEF Bijection, Injection, IsInjective
<1>4. SetToSeq(S) \in [1 .. n -> S] /\ IsInjective(SetToSeq(S))
    BY <1>3 DEF SetToSeq
<1> DEFINE g == SetToSeq(S)
<1> HIDE DEF g, n
<1>5. g \in Injection(1 .. n, S)
    BY <1>4 DEF Injection, IsInjective, g
<1>6. IsFiniteSet(1 .. n) /\ Cardinality(1 .. n) = n
    <2>1. IsFiniteSet(1 .. n) /\ Cardinality(1 .. n) = IF 1 > n THEN 0 ELSE n - 1 + 1
        BY <1>1, FS_Interval
    <2> QED
        BY <1>1, <2>1
<1>7. g \in Surjection(1 .. n, S)
    BY <1>5, <1>6, FS_Injection DEF n
<1>8. DOMAIN g = 1 .. n /\ g \in [1 .. n -> S]
    BY <1>4 DEF g
<1>9. \A v \in S : \E j \in 1 .. n : g[j] = v
    BY <1>7 DEF Surjection
<1> QED
    BY <1>6, <1>8, <1>9 DEF g

\* Elements that all are true as booleans are none of them 0.
LEMMA BooleansFacts == ASSUME ContainersTypeOK PROVE BooleansAgree
<1> DEFINE n == Len(vec)
           b == AsBool(vec)
           others == SetToSeq(Values \ {0})
<1>1. /\ n \in Nat /\ DOMAIN vec = 1 .. n /\ (vec = <<>> <=> n = 0)
      /\ vec \in [1 .. n -> Values]
    BY VecFacts
<1> HIDE DEF n
<1>2. b = [i \in 1 .. n |-> vec[i] # 0]
    BY <1>1 DEF AsBool
<1>3. DOMAIN b = 1 .. n /\ \A i \in 1 .. n : b[i] = (vec[i] # 0)
    BY <1>2
<1>4. b # <<>> <=> n # 0
    <2>1. b \in [1 .. n -> BOOLEAN]
        BY <1>2
    <2>2. b \in Seq(BOOLEAN) /\ Len(b) = n
        BY <1>1, <2>1, FunctionIsSequence
    <2> QED
        BY <2>2, EmptySeq
<1> HIDE DEF b
<1>5. allEqual(vec) => allEqual(b)
    BY <1>1, <1>3, <1>4 DEF allEqual
<1>6. ASSUME allEqual(b), ~allEqualTo(vec, 0)
      PROVE  contains_only(vec, others)
    <2>1. n # 0 /\ \A i \in 1 .. n : (vec[i] # 0) = (vec[1] # 0)
        BY <1>1, <1>3, <1>4, <1>6 DEF allEqual
    <2>2. \A i \in 1 .. n : vec[i] # 0
        BY <1>1, <1>6, <2>1 DEF allEqualTo
    <2>3. IsFiniteSet(Values \ {0})
        BY ValuesAssumption, FS_RemoveElement
    <2>4. /\ \A v : v \in Values \ {0} <=> \E j \in DOMAIN others : others[j] = v
          /\ IsFiniteSet(DOMAIN others)
        BY <2>3, SetToSeqFacts
    <2> HIDE DEF others
    <2>5. ASSUME NEW i \in DOMAIN vec
          PROVE  Cardinality({j \in DOMAIN others : others[j] = vec[i]}) # 0
        <3> DEFINE J == {j \in DOMAIN others : others[j] = vec[i]}
        <3>1. J # {} /\ J \in SUBSET DOMAIN others
            BY <1>1, <2>2, <2>4
        <3> HIDE DEF J
        <3>2. IsFiniteSet(J)
            BY <2>4, <3>1, FS_Subset
        <3>3. Cardinality(J) # 0
            BY <3>1, <3>2, FS_EmptySet
        <3> QED
            BY <3>3 DEF J
    <2> QED
        BY <2>5 DEF contains_only
<1> QED
    BY <1>5, <1>6 DEF BooleansAgree, b

\* What the driver is told of several modules is what they have in common, as
\* squashing, tolerances, duplicates and booleans go (Result, container_utils.h).
THEOREM ContainersAgreeAlways == ContainersSpec => []ContainersAgree
<1>1. ContainersTypeOK => ContainersAgree
    BY SquashFacts, ToleranceFacts, DuplicatesFacts, BooleansFacts
       DEF ContainersAgree
<1> QED
    BY <1>1, ContainersTypes, PTL

-----------------------------------------------------------------------------
(***************************************************************************)
(* Regions of interest, for any sizes.                                     *)
(***************************************************************************)
RegionsIInv ==
    /\ RegionsTypeOK
    /\ made = "complete" => completeRoi(region)
    /\ made = "nothing" => noRoi(region)

\* The invariant at the start, and under every step.
LEMMA RegionsInitInv == RegionsInit => RegionsIInv
BY LastAssumption DEF RegionsInit, RegionsIInv, RegionsTypeOK, AllPixels, Rectangle,
                      Regions, Coordinates, completeRoi

LEMMA RegionsInvStep ==
    ASSUME RegionsIInv, [RegionsNext]_regionsVars PROVE RegionsIInv'
<1> USE DEF RegionsIInv, RegionsTypeOK, Regions
<1>1. ASSUME NEW x1 \in Coordinates, NEW x2 \in Coordinates,
             ConstructStrip(x1, x2)
      PROVE  RegionsIInv'
    <2>1. region' = [xmin |-> x1, xmax |-> x2, ymin |-> -1, ymax |-> -1]
        BY <1>1 DEF ConstructStrip, Strip, AllPixels, Rectangle
    <2>2. -1 \in Coordinates
        BY LastAssumption DEF Coordinates
    <2>3. region' \in Regions /\ region'.ymin = -1 /\ region'.ymax = -1
        BY <2>1, <2>2
    <2> QED
        BY <1>1, <2>3 DEF ConstructStrip
<1>2. ASSUME NEW x1 \in Coordinates, NEW x2 \in Coordinates,
             NEW y1 \in Coordinates, NEW y2 \in Coordinates,
             ConstructRectangle(x1, x2, y1, y2)
      PROVE  RegionsIInv'
    BY <1>2 DEF ConstructRectangle, Rectangle
<1>3. CASE setNoRoi
    BY <1>3, LastAssumption
       DEF setNoRoi, Nothing, Rectangle, Coordinates, noRoi
<1>4. CASE Copy
    BY <1>4 DEF Copy
<1>5. CASE UNCHANGED regionsVars
    BY <1>5 DEF regionsVars
<1> QED
    BY <1>1, <1>2, <1>3, <1>4, <1>5 DEF RegionsNext

LEMMA RegionsInvariance == RegionsSpec => []RegionsIInv
<1>1. RegionsIInv /\ [RegionsNext]_regionsVars => RegionsIInv'
    BY RegionsInvStep
<1> QED
    BY <1>1, RegionsInitInv, PTL DEF RegionsSpec

-----------------------------------------------------------------------------
\* Coordinates are numbers.
LEMMA RegionIntegers ==
    ASSUME NEW r \in Regions
    PROVE  /\ r.xmin \in Int /\ r.xmax \in Int /\ r.ymin \in Int /\ r.ymax \in Int
           /\ r.xmin >= -1 /\ r.xmax >= -1 /\ r.ymin >= -1 /\ r.ymax >= -1
BY LastAssumption DEF Regions, Coordinates

Meet(S, T) == S \cap T # {}

\* Two intervals that begin before the other ends have a number in common.
LEMMA IntervalsMeet ==
    ASSUME NEW a \in Int, NEW b \in Int, NEW c \in Int, NEW d \in Int,
           a <= b, c <= d
    PROVE  Meet(a .. b, c .. d) <=> a <= d /\ b >= c
<1>1. CASE a >= c
    BY <1>1, a \in a .. b DEF Meet
<1>2. CASE c > a
    BY <1>2, c \in c .. d DEF Meet
<1> QED
    BY <1>1, <1>2

\* Rectangles meet exactly if their sides do.
LEMMA ProductsMeet ==
    ASSUME NEW A, NEW B, NEW C, NEW D
    PROVE  Meet(A \X B, C \X D) <=> Meet(A, C) /\ Meet(B, D)
<1>1. ASSUME NEW m \in A, m \in C, NEW n \in B, n \in D
      PROVE  Meet(A \X B, C \X D)
    <2>1. <<m, n>> \in A \X B /\ <<m, n>> \in C \X D
        BY <1>1
    <2> QED
        BY <2>1 DEF Meet
<1>2. ASSUME NEW p \in (A \X B) \cap (C \X D)
      PROVE  Meet(A, C) /\ Meet(B, D)
    BY p[1] \in A, p[1] \in C, p[2] \in B, p[2] \in D DEF Meet
<1> QED
    BY <1>1, <1>2 DEF Meet

\* The parts of RegionsArePixels, of every pair of regions.
LEMMA OverlapFacts == ASSUME RegionsIInv PROVE OverlapIsCommonPixel
<1> DEFINE r == region
           o == other
<1>1. /\ r.xmin \in Int /\ r.xmax \in Int /\ r.ymin \in Int /\ r.ymax \in Int
      /\ o.xmin \in Int /\ o.xmax \in Int /\ o.ymin \in Int /\ o.ymax \in Int
    BY RegionIntegers DEF RegionsIInv, RegionsTypeOK
<1>2. overlap(r, o) <=> overlap(o, r)
    BY <1>1 DEF overlap
<1>3. ASSUME Proper(r), Proper(o)
      PROVE  overlap(r, o) <=> Pixels(r) \cap Pixels(o) # {}
    <2> DEFINE RX == r.xmin .. r.xmax
               RY == r.ymin .. r.ymax
               OX == o.xmin .. o.xmax
               OY == o.ymin .. o.ymax
    <2>1. /\ Meet(RX, OX) <=> r.xmin <= o.xmax /\ r.xmax >= o.xmin
          /\ Meet(RY, OY) <=> r.ymin <= o.ymax /\ r.ymax >= o.ymin
        BY <1>1, <1>3, IntervalsMeet DEF Proper
    <2>2. Pixels(r) = RX \X RY /\ Pixels(o) = OX \X OY
        BY DEF Pixels
    <2> HIDE DEF RX, RY, OX, OY
    <2>3. Meet(RX \X RY, OX \X OY) <=> Meet(RX, OX) /\ Meet(RY, OY)
        BY ProductsMeet
    <2>4. Meet(Pixels(r), Pixels(o)) <=> overlap(r, o)
        BY <2>1, <2>2, <2>3 DEF overlap
    <2> QED
        BY <2>4 DEF Meet
<1>4. made = "strip" /\ o.ymin >= 0 => ~overlap(r, o)
    BY <1>1 DEF RegionsIInv, RegionsTypeOK, overlap
<1>5. completeRoi(r) /\ o.xmin >= 0 => ~overlap(r, o)
    BY <1>1 DEF completeRoi, AllPixels, Rectangle, overlap
<1> QED
    BY <1>2, <1>3, <1>4, <1>5 DEF OverlapIsCommonPixel

LEMMA SizeFacts == ASSUME RegionsIInv PROVE SizeCountsPixels
<1> SUFFICES ASSUME Proper(region)
             PROVE  width(region) * height(region) = Cardinality(Pixels(region))
    BY DEF SizeCountsPixels
<1> DEFINE X == region.xmin .. region.xmax
           Y == region.ymin .. region.ymax
<1>1. /\ region.xmin \in Int /\ region.xmax \in Int
      /\ region.ymin \in Int /\ region.ymax \in Int
      /\ region.xmin <= region.xmax /\ region.ymin <= region.ymax
    BY RegionIntegers DEF RegionsIInv, RegionsTypeOK, Proper
<1>2. /\ IsFiniteSet(X) /\ Cardinality(X) = width(region)
      /\ IsFiniteSet(Y) /\ Cardinality(Y) = height(region)
    <2>1. /\ width(region) = region.xmax - region.xmin + 1
          /\ height(region) = region.ymax - region.ymin + 1
        BY DEF width, height
    <2>2. \A a, b \in Int : a <= b =>
            IsFiniteSet(a .. b) /\ Cardinality(a .. b) = b - a + 1
        BY FS_Interval
    <2> QED
        BY <1>1, <2>1, <2>2
<1> HIDE DEF X, Y
<1>3. Cardinality(X \X Y) = width(region) * height(region)
    BY <1>2, FS_Product
<1> QED
    BY <1>3 DEF Pixels, X, Y

LEMMA NoneFacts == ASSUME RegionsIInv PROVE NoneIsKnown
BY RegionIntegers
   DEF RegionsIInv, RegionsTypeOK, NoneIsKnown, noRoi, completeRoi, AllPixels,
       Rectangle, width, height

\* A region keeps coordinates of a detector however it is made (ROI).
THEOREM RegionsTypes == RegionsSpec => []RegionsTypeOK
<1>1. RegionsIInv => RegionsTypeOK
    BY DEF RegionsIInv
<1> QED
    BY <1>1, RegionsInvariance, PTL

\* Regions overlap if they have a pixel in common, their sizes count pixels, and
\* the one that stands for none is known (ROI).
THEOREM RegionsPixels == RegionsSpec => []RegionsArePixels
<1>1. RegionsIInv => RegionsArePixels
    BY OverlapFacts, SizeFacts, NoneFacts DEF RegionsArePixels
<1> QED
    BY <1>1, RegionsInvariance, PTL

-----------------------------------------------------------------------------
(***************************************************************************)
(* Durations as text, for all durations of less than eleven days.          *)
(***************************************************************************)
Farthest == 999999000000000

\* Durations of which every nanosecond counts.
Near == {d \in Int : -Farthest <= d /\ d <= Farthest}

\* What the assumption on the inputs comes down to.
LEMMA InputsAreNear == Inputs \subseteq Near
<1> SUFFICES ASSUME NEW d \in Inputs PROVE d \in Near
    OBVIOUS
<1>1. d \in Int /\ absDuration(d) \div 1000000000 < 999999
    BY InputsAssumption DEF SixDigits
<1>2. absDuration(d) <= Farthest
    BY <1>1 DEF Farthest, absDuration
<1> QED
    BY <1>1, <1>2 DEF Near, absDuration, Farthest

\* The powers of ten are ten times each other.
LEMMA PowersFacts ==
    /\ \A p \in Powers : p \in Nat \ {0} /\ p <= 1000000000
    /\ \A p, q \in Powers : p < q => 10 * p <= q
    /\ \A p \in Powers : p # 1 => p >= 10 /\ \E q \in Powers : p = 10 * q
BY DEF Powers

\* The last digit is the first that leaves six, and d has six unless it is 1.
LEMMA LastDigitFacts ==
    ASSUME NEW d \in Near
    PROVE  /\ LastDigit(d) \in Powers
           /\ absDuration(d) < 1000000 * LastDigit(d)
           /\ LastDigit(d) # 1 => absDuration(d) >= 100000 * LastDigit(d)
<1> DEFINE a == absDuration(d)
           Fits(r) == a \div r < 1000000
           T == {p \in Powers : Fits(p)}
           l == LastDigit(d)
<1>1. a \in Nat /\ a <= Farthest
    BY DEF absDuration, Near, Farthest
<1> HIDE DEF a
<1>2. 1000000000 \in T
    BY <1>1 DEF Powers, Farthest
<1>3. T \in SUBSET Nat
    BY PowersFacts
<1>4. PICK least \in T : \A q \in T : least <= q
    <2> HIDE DEF T
    <2> QED BY <1>2, <1>3, LeastNatural
<1>5. l \in Powers /\ Fits(l) /\ \A q \in Powers : Fits(q) => l <= q
    <2>1. \E k \in Powers : Fits(k) /\ \A q \in Powers : Fits(q) => k <= q
        BY <1>4
    <2> QED
        BY <2>1 DEF LastDigit, SixDigits, a
<1> HIDE DEF l
<1>6. \A p \in Powers : Fits(p) <=> a < 1000000 * p
    BY <1>1 DEF Powers
<1> HIDE DEF Fits
<1>7. a < 1000000 * l
    BY <1>5, <1>6
<1>8. l # 1 => a >= 100000 * l
    <2> SUFFICES ASSUME l # 1, a < 100000 * l PROVE FALSE
        BY <1>1, <1>5, PowersFacts
    <2>1. PICK q \in Powers : l = 10 * q
        BY <1>5, PowersFacts
    <2>2. a < 1000000 * q /\ q < l
        BY <2>1, PowersFacts
    <2>3. l <= q
        BY <1>5, <1>6, <2>2
    <2> QED
        BY <2>2, <2>3, <1>5, PowersFacts
<1> QED
    BY <1>5, <1>7, <1>8 DEF l, a

-----------------------------------------------------------------------------
\* Multiples of powers of ten.
Whole(v, p) == v % p = 0

\* A multiple of p that exceeds another by less than p does not exceed it.
LEMMA WholeFacts ==
    ASSUME NEW p \in Powers, NEW v \in Int, NEW w \in Int,
           Whole(v, p), Whole(w, p)
    PROVE  /\ w - v < p => w <= v
           /\ Whole(-v, p)
           /\ \A q \in Powers : q <= p => Whole(v, q)
           /\ Whole(100000 * p, p) /\ Whole(1000000 * p, p)
<1>1. w - v < p => w <= v
    BY DEF Powers, Whole
<1>2. Whole(-v, p)
    BY DEF Powers, Whole
<1>3. ASSUME NEW q \in Powers, q <= p PROVE Whole(v, q)
    BY <1>3 DEF Powers, Whole
<1>4. Whole(100000 * p, p) /\ Whole(1000000 * p, p)
    BY DEF Powers, Whole
<1> QED
    BY <1>1, <1>2, <1>3, <1>4

\* What is written of d.
LEMMA TextFacts ==
    ASSUME NEW d \in Near, NEW txt \in WriteText(d), NEW p, p = LastDigit(d)
    PROVE  /\ txt.unit = UnitFor(d) /\ txt.value \in Int
           /\ Whole(txt.value, p)
           /\ 2 * (txt.value - d) <= p /\ 2 * (d - txt.value) <= p
<1> DEFINE v == txt.value
           below == d - (d % p)
<1>1. p \in Powers /\ d \in Int
    BY LastDigitFacts DEF Near, Farthest
<1>2. below \in Int /\ Whole(below, p) /\ Whole(below + p, p)
    BY <1>1 DEF Powers, Whole
<1> HIDE DEF below
<1>3. /\ txt.unit = UnitFor(d) /\ v \in {below, below + p}
      /\ 2 * absDuration(v - d) <= p
    BY DEF WriteText, below
<1>4. v \in Int /\ Whole(v, p)
    BY <1>1, <1>2, <1>3, PowersFacts
<1> HIDE DEF v
<1>5. 2 * (v - d) <= p /\ 2 * (d - v) <= p
    BY <1>1, <1>3, <1>4, PowersFacts DEF absDuration
<1> QED
    BY <1>3, <1>4, <1>5 DEF v

-----------------------------------------------------------------------------
\* Writing keeps the order.
LEMMA WritingIsMonotone ==
    ASSUME NEW d \in Near, NEW e \in Near, d < e,
           NEW v \in WriteText(d), NEW w \in WriteText(e)
    PROVE  v.value <= w.value
<1> DEFINE p == LastDigit(d)
           q == LastDigit(e)
           x == v.value
           y == w.value
<1>1. /\ p \in Powers /\ q \in Powers /\ p \in Nat \ {0} /\ q \in Nat \ {0}
      /\ absDuration(d) < 1000000 * p /\ absDuration(e) < 1000000 * q
      /\ p # 1 => absDuration(d) >= 100000 * p
      /\ q # 1 => absDuration(e) >= 100000 * q
    BY LastDigitFacts, PowersFacts
<1>2. /\ x \in Int /\ y \in Int /\ Whole(x, p) /\ Whole(y, q)
      /\ 2 * (x - d) <= p /\ 2 * (d - x) <= p
      /\ 2 * (y - e) <= q /\ 2 * (e - y) <= q
    BY TextFacts
<1>3. d \in Int /\ e \in Int
    BY DEF Near
<1> HIDE DEF p, q, x, y
<1>4. ASSUME p = q PROVE x <= y
    <2>1. x - y < p
        BY <1>1, <1>2, <1>3, <1>4
    <2> QED
        BY <1>1, <1>2, <1>4, <2>1, WholeFacts
<1>5. ASSUME p < q PROVE x <= y
    <2>1. 10 * p <= q /\ q # 1
        BY <1>1, <1>5, PowersFacts
    <2>2. e >= 100000 * q /\ d < 1000000 * p
        BY <1>1, <1>3, <2>1 DEF absDuration
    <2>3. /\ Whole(1000000 * p, p) /\ Whole(100000 * q, q)
          /\ 1000000 * p \in Int /\ 100000 * q \in Int
        BY <1>1, <1>2, WholeFacts
    <2>4. x - 1000000 * p < p /\ 100000 * q - y < q
        BY <1>1, <1>2, <1>3, <2>2
    <2>5. x <= 1000000 * p
        BY <1>1, <1>2, <2>3, <2>4, WholeFacts
    <2>6. 100000 * q <= y
        BY <1>1, <1>2, <2>3, <2>4, WholeFacts
    <2> QED
        BY <1>1, <1>2, <2>1, <2>5, <2>6
<1>6. ASSUME q < p PROVE x <= y
    <2>1. 10 * q <= p /\ p # 1
        BY <1>1, <1>6, PowersFacts
    <2>2. d <= -(100000 * p) /\ e > -(1000000 * q)
        BY <1>1, <1>3, <2>1 DEF absDuration
    <2>3. /\ Whole(1000000 * q, q) /\ Whole(100000 * p, p)
          /\ 1000000 * q \in Int /\ 100000 * p \in Int
        BY <1>1, <1>2, WholeFacts
    <2>4. /\ Whole(-(1000000 * q), q) /\ Whole(-(100000 * p), p)
          /\ -(1000000 * q) \in Int /\ -(100000 * p) \in Int
        BY <1>1, <2>3, WholeFacts
    <2>5. x - -(100000 * p) < p /\ -(1000000 * q) - y < q
        BY <1>1, <1>2, <1>3, <2>2
    <2>6. x <= -(100000 * p)
        BY <1>1, <1>2, <2>4, <2>5, WholeFacts
    <2>7. -(1000000 * q) <= y
        BY <1>1, <1>2, <2>4, <2>5, WholeFacts
    <2> QED
        BY <1>1, <1>2, <2>1, <2>6, <2>7
<1>7. x <= y
    BY <1>1, <1>4, <1>5, <1>6
<1> QED
    BY <1>7 DEF x, y

\* The units, one by one.
LEMMA UnitsFacts ==
    /\ DOMAIN Units = {"ns", "us", "ms", "s"}
    /\ Units["ns"] = 1 /\ Units["us"] = 1000 /\ Units["ms"] = 1000000
    /\ Units["s"] = 1000000000
    /\ \A d : UnitFor(d) \in DOMAIN Units
    /\ \A u \in DOMAIN Units : Units[u] \in Nat \ {0}
BY DEF Units, UnitFor

\* What is read is the number, or one nearer to 0 by one.
LEMMA ReadFacts ==
    ASSUME NEW txt \in [unit : DOMAIN Units, value : Int], NEW x \in Read(txt)
    PROVE  /\ x \in Int
           /\ \/ x = txt.value
              \/ txt.value > 0 /\ x = txt.value - 1
              \/ txt.value < 0 /\ x = txt.value + 1
           /\ Whole(txt.value, Units[txt.unit]) => x = txt.value
<1> DEFINE v == txt.value
           n == Units[txt.unit]
<1>1. v \in Int /\ n \in Nat \ {0}
    BY UnitsFacts
<1>2. /\ v % n = 0 => x = v
      /\ v % n # 0 /\ v > 0 => x \in {v - 1, v}
      /\ v % n # 0 /\ ~(v > 0) => x \in {v, v + 1}
    BY DEF Read
<1>3. v = 0 => v % n = 0
    BY <1>1
<1> HIDE DEF v, n
<1>4. /\ x \in Int
      /\ x = v \/ (v > 0 /\ x = v - 1) \/ (v < 0 /\ x = v + 1)
    BY <1>1, <1>2, <1>3
<1> QED
    BY <1>2, <1>4 DEF v, n, Whole

\* What is written is a text.
LEMMA WrittenType ==
    ASSUME NEW d \in Near, NEW txt \in WriteText(d)
    PROVE  txt \in [unit : DOMAIN Units, value : Int]
<1>1. txt.value \in Int
    BY TextFacts
<1>2. txt = [unit |-> txt.unit, value |-> txt.value] /\ txt.unit \in DOMAIN Units
    BY UnitsFacts DEF WriteText
<1> QED
    BY <1>1, <1>2

-----------------------------------------------------------------------------
\* v may have been written of the given duration.
First(v) ==
    LET p == LastDigit(given)
    IN  /\ Whole(v, p)
        /\ 2 * (v - given) <= p /\ 2 * (given - v) <= p

\* u has been cut off e times from v, which cannot happen twice unless all its
\* digits are written.
Cut(v, u, e) ==
    /\ (u = v - e /\ u >= 0) \/ (u = v + e /\ u <= 0)
    /\ e <= 1 \/ absDuration(u) < SixDigits

CutFrom(v, u, n) == \E e \in 0 .. n : Cut(v, u, e)

DurationsIInv ==
    /\ given \in Inputs /\ passes \in 0 .. MaxPasses /\ t \in Int
    /\ text = NoText \/ text \in WriteText(t)
    /\ IF passes = 0 THEN t = given
       ELSE \E v \in Int : First(v) /\ CutFrom(v, t, passes)
    /\ ExactStays

\* The first text keeps within the digits and the range of the given duration.
LEMMA FirstFacts ==
    ASSUME given \in Near, NEW v \in Int, First(v), NEW p, p = LastDigit(given)
    PROVE  /\ p \in Powers /\ p \in Nat \ {0} /\ Whole(v, p)
           /\ absDuration(v) <= 1000000 * p
           /\ absDuration(v) <= Farthest
<1>1. /\ p \in Powers /\ p \in Nat \ {0} /\ p <= 1000000000
      /\ absDuration(given) < 1000000 * p
    BY LastDigitFacts, PowersFacts
<1>2. given \in Int /\ -Farthest <= given /\ given <= Farthest /\ Farthest \in Int
    BY DEF Near, Farthest
<1>3. Whole(v, p) /\ 2 * (v - given) <= p /\ 2 * (given - v) <= p
    BY DEF First
<1>4. 1000000 * p \in Int /\ Whole(1000000 * p, p)
    BY <1>1, <1>3, WholeFacts
<1>5. -(1000000 * p) \in Int /\ Whole(-(1000000 * p), p)
    BY <1>1, <1>4, WholeFacts
<1>6. Whole(Farthest, p)
    BY <1>1 DEF Whole, Powers, Farthest
<1>7. -Farthest \in Int /\ Whole(-Farthest, p)
    BY <1>1, <1>2, <1>6, WholeFacts
<1>8. v - 1000000 * p < p /\ -(1000000 * p) - v < p
    BY <1>1, <1>2, <1>3 DEF absDuration
<1>9. v - Farthest < p /\ -Farthest - v < p
    <2> HIDE DEF Farthest
    <2> QED BY <1>1, <1>2, <1>3
<1>10. v <= 1000000 * p
    BY <1>1, <1>3, <1>4, <1>8, WholeFacts
<1>11. -(1000000 * p) <= v
    BY <1>1, <1>3, <1>5, <1>8, WholeFacts
<1>12. v <= Farthest
    BY <1>1, <1>2, <1>3, <1>6, <1>9, WholeFacts
<1>13. -Farthest <= v
    BY <1>1, <1>2, <1>3, <1>7, <1>9, WholeFacts
<1> QED
    BY <1>1, <1>2, <1>3, <1>10, <1>11, <1>12, <1>13 DEF absDuration

\* What was cut off from a first text is near.
LEMMA CutIsNear ==
    ASSUME given \in Near, NEW v \in Int, First(v),
           NEW u \in Int, NEW e \in Nat, Cut(v, u, e)
    PROVE  u \in Near
<1>1. v \in Int /\ absDuration(v) <= Farthest
    BY FirstFacts
<1> QED
    BY <1>1 DEF Cut, Near, absDuration, Farthest

\* One more pass: a number with all its digits written may be cut off again,
\* any other is written as it was first, and cut off from that.
LEMMA CutAgain ==
    ASSUME given \in Near, NEW v \in Int, First(v), NEW n \in Nat \ {0},
           NEW u \in Int, CutFrom(v, u, n), NEW txt \in WriteText(u), NEW x \in Read(txt)
    PROVE  CutFrom(v, x, n + 1)
<1>1. PICK e \in 0 .. n : Cut(v, u, e)
    BY DEF CutFrom
<1>2. u \in Near
    BY <1>1, CutIsNear
<1> DEFINE p == LastDigit(u)
           g == LastDigit(given)
           w == txt.value
<1>3. /\ p \in Powers /\ p \in Nat \ {0}
      /\ absDuration(u) < 1000000 * p
      /\ p # 1 => absDuration(u) >= 100000 * p
    BY <1>2, LastDigitFacts, PowersFacts
<1>4. w \in Int /\ Whole(w, p) /\ 2 * (w - u) <= p /\ 2 * (u - w) <= p
    BY <1>2, TextFacts
<1>5. x \in Int /\ (x = w \/ (w > 0 /\ x = w - 1) \/ (w < 0 /\ x = w + 1))
    BY <1>2, WrittenType, ReadFacts
<1>6. g \in Powers /\ g \in Nat \ {0} /\ Whole(v, g) /\ absDuration(v) <= 1000000 * g
    BY FirstFacts
<1> HIDE DEF p, g, w
<1>7. ASSUME NEW k \in 0 .. n + 1, Cut(v, x, k) PROVE CutFrom(v, x, n + 1)
    BY <1>7 DEF CutFrom
<1>8. CASE absDuration(u) < 1000000
    <2>1. p = 1
        BY <1>3, <1>8, PowersFacts DEF absDuration
    <2>2. w = u
        BY <1>4, <2>1
    <2>3. (u = v - e /\ u >= 0) \/ (u = v + e /\ u <= 0)
        BY <1>1 DEF Cut
    <2>4. absDuration(x) < 1000000
        BY <1>5, <1>8, <2>2 DEF absDuration
    <2>5. \/ (x = v - e /\ x >= 0) \/ (x = v + e /\ x <= 0)
          \/ (x = v - (e + 1) /\ x >= 0) \/ (x = v + (e + 1) /\ x <= 0)
        BY <1>5, <2>2, <2>3
    <2>6. Cut(v, x, e) \/ Cut(v, x, e + 1)
        BY <2>4, <2>5 DEF Cut, SixDigits
    <2> QED
        BY <1>7, <2>6
<1>9. CASE ~(absDuration(u) < 1000000)
    <2>1. e \in {0, 1} /\ ((u = v - e /\ u >= 0) \/ (u = v + e /\ u <= 0))
        BY <1>1, <1>9 DEF Cut, SixDigits
    <2>2. p # 1 /\ p >= 10 /\ absDuration(u) >= 100000 * p
        BY <1>3, <1>9, PowersFacts DEF Powers
    <2>3. absDuration(u) <= absDuration(v)
        BY <2>1 DEF absDuration
    <2>4. Whole(v, p)
        <3>1. CASE p <= g
            BY <1>3, <1>6, <3>1, WholeFacts
        <3>2. CASE g < p
            <4>1. 10 * g <= p
                BY <1>3, <1>6, <3>2, PowersFacts
            <4>2. absDuration(v) = 100000 * p
                BY <1>3, <1>6, <2>2, <2>3, <4>1 DEF absDuration
            <4>3. v = 100000 * p \/ v = -(100000 * p)
                BY <1>3, <4>2 DEF absDuration
            <4>4. 100000 * p \in Int /\ Whole(100000 * p, p)
                BY <1>3, <1>4, WholeFacts
            <4>5. Whole(-(100000 * p), p)
                BY <1>3, <4>4, WholeFacts
            <4> QED
                BY <4>3, <4>4, <4>5
        <3> QED
            BY <1>3, <1>6, <3>1, <3>2
    <2>5. w - v < p /\ v - w < p
        BY <1>3, <1>4, <2>1, <2>2
    <2>6. w <= v /\ v <= w
        BY <1>3, <1>4, <2>4, <2>5, WholeFacts
    <2>7. x = v \/ (v > 0 /\ x = v - 1) \/ (v < 0 /\ x = v + 1)
        BY <1>4, <1>5, <2>6
    <2>8. Cut(v, x, 0) \/ Cut(v, x, 1)
        BY <1>5, <2>7 DEF Cut
    <2> QED
        BY <1>7, <2>8
<1> QED
    BY <1>8, <1>9

\* What can be written without loss is read as it was.
LEMMA ExactIsRead ==
    ASSUME NEW d \in Near, NEW txt \in WriteText(d), NEW x \in Read(txt),
           \/ absDuration(d) < 1000
           \/ d % Units[UnitFor(d)] = 0 /\ d % LastDigit(d) = 0
    PROVE  x = d
<1> DEFINE p == LastDigit(d)
           w == txt.value
           u == Units[txt.unit]
<1>1. p \in Powers /\ p \in Nat \ {0} /\ (p # 1 => absDuration(d) >= 100000 * p)
    BY LastDigitFacts, PowersFacts
<1>2. w \in Int /\ Whole(w, p) /\ 2 * (w - d) <= p /\ 2 * (d - w) <= p
    BY TextFacts
<1>3. d \in Int
    BY DEF Near
<1>4. /\ u = Units[UnitFor(d)] /\ (Whole(w, u) => x = w)
      /\ absDuration(d) < 1000 => u = 1
    <2>1. txt.unit = UnitFor(d)
        BY TextFacts
    <2>2. absDuration(d) < 1000 => UnitFor(d) = "ns"
        BY DEF UnitFor, Units
    <2>3. Whole(w, u) => x = w
        BY WrittenType, ReadFacts
    <2> QED
        BY <2>1, <2>2, <2>3, UnitsFacts
<1> HIDE DEF p, w, u
<1>5. CASE absDuration(d) < 1000
    <2>1. p = 1
        BY <1>1, <1>3, <1>5, PowersFacts DEF absDuration
    <2>2. w = d
        BY <1>2, <1>3, <2>1
    <2>3. Whole(w, u)
        BY <1>2, <1>4, <1>5 DEF Whole
    <2> QED
        BY <1>4, <2>2, <2>3
<1>6. CASE d % Units[UnitFor(d)] = 0 /\ d % LastDigit(d) = 0
    <2>1. Whole(d, p) /\ Whole(d, u)
        BY <1>4, <1>6 DEF Whole, p
    <2>2. w - d < p /\ d - w < p
        BY <1>1, <1>2, <1>3
    <2>3. w <= d /\ d <= w
        BY <1>1, <1>2, <1>3, <2>1, <2>2, WholeFacts
    <2> QED
        BY <1>2, <1>3, <1>4, <2>1, <2>3
<1> QED
    BY <1>5, <1>6

\* The invariant at the start.
LEMMA DurationsInitial == DurationsInit => DurationsIInv
BY InputsAssumption, MaxPassesAssumption DEF DurationsInit, DurationsIInv, ExactStays

\* The invariant under writing, which leaves the duration alone, and reading.
LEMMA DurationsStep ==
    DurationsIInv /\ [DurationsNext]_durationsVars => DurationsIInv'
<1> SUFFICES ASSUME DurationsIInv, [DurationsNext]_durationsVars
             PROVE  DurationsIInv'
    OBVIOUS
<1>1. CASE DurationToString
    BY <1>1 DEF DurationToString, DurationsIInv, ExactStays, First
<1>2. CASE StringToDuration
    <2>1. /\ given' = given /\ passes' = passes + 1 /\ passes \in 0 .. MaxPasses
          /\ passes' \in 0 .. MaxPasses /\ text' = NoText
          /\ given \in Inputs /\ given \in Near /\ given \in Int /\ t \in Int
          /\ text \in WriteText(t) /\ t' \in Read(text)
        BY <1>2, MaxPassesAssumption, InputsAreNear, InputsAssumption
           DEF StringToDuration, DurationsIInv
    <2>2. t \in Near
        <3>1. CASE passes = 0
            BY <2>1, <3>1 DEF DurationsIInv
        <3>2. CASE passes # 0
            <4>1. PICK v \in Int : First(v) /\ CutFrom(v, t, passes)
                BY <3>2 DEF DurationsIInv
            <4>2. PICK e \in 0 .. passes : Cut(v, t, e)
                BY <4>1 DEF CutFrom
            <4> QED
                BY <2>1, <4>1, <4>2, CutIsNear
        <3> QED
            BY <3>1, <3>2
    <2>3. t' \in Int
        BY <2>1, <2>2, WrittenType, ReadFacts
    <2>4. \E v \in Int : First(v) /\ CutFrom(v, t', passes + 1)
        <3>1. CASE passes = 0
            <4>1. t = given
                BY <3>1 DEF DurationsIInv
            <4>2. text.value \in Int /\ First(text.value)
                BY <2>1, <4>1, TextFacts DEF First
            <4>3. \/ t' = text.value
                  \/ text.value > 0 /\ t' = text.value - 1
                  \/ text.value < 0 /\ t' = text.value + 1
                BY <2>1, <2>2, WrittenType, ReadFacts
            <4>4. Cut(text.value, t', 0) \/ Cut(text.value, t', 1)
                BY <4>2, <4>3 DEF Cut
            <4>5. CutFrom(text.value, t', passes + 1)
                BY <3>1, <4>4 DEF CutFrom
            <4> QED
                BY <4>2, <4>5
        <3>2. CASE passes # 0
            <4>1. PICK v \in Int : First(v) /\ CutFrom(v, t, passes)
                BY <3>2 DEF DurationsIInv
            <4>2. CutFrom(v, t', passes + 1)
                BY <2>1, <3>2, <4>1, CutAgain
            <4> QED
                BY <4>1, <4>2
        <3> QED
            BY <3>1, <3>2
    <2>5. \E v \in Int : First(v)' /\ CutFrom(v, t', passes')
        BY <2>1, <2>4 DEF First
    <2>6. ExactStays'
        <3> DEFINE exact == \/ absDuration(given) < 1000
                            \/ /\ given % Units[UnitFor(given)] = 0
                               /\ given % LastDigit(given) = 0
        <3>1. ExactStays' <=> (exact => t' = given)
            BY <2>1 DEF ExactStays
        <3>2. exact => t = given
            BY DEF DurationsIInv, ExactStays
        <3>3. exact => t' = given
            BY <2>1, <2>2, <3>2, ExactIsRead
        <3> QED
            BY <3>1, <3>3
    <2>7. IF passes' = 0 THEN t' = given'
          ELSE \E v \in Int : First(v)' /\ CutFrom(v, t', passes')
        BY <2>1, <2>5
    <2> QED
        BY <2>1, <2>3, <2>6, <2>7 DEF DurationsIInv, First
<1>3. CASE UNCHANGED durationsVars
    BY <1>3 DEF durationsVars, DurationsIInv, ExactStays, First
<1> QED
    BY <1>1, <1>2, <1>3 DEF DurationsNext

-----------------------------------------------------------------------------
\* The invariant holds throughout.
LEMMA DurationsAlways == DurationsSpec => []DurationsIInv
<1> USE DurationsInitial, DurationsStep
<1> QED
    BY PTL DEF DurationsSpec

\* The duration and the first one have only nanoseconds that count.
LEMMA Nearness == DurationsIInv => t \in Near /\ given \in Near
<1> SUFFICES ASSUME DurationsIInv PROVE t \in Near /\ given \in Near
    OBVIOUS
<1>1. given \in Near
    BY InputsAreNear DEF DurationsIInv
<1>2. CASE passes = 0
    BY <1>1, <1>2 DEF DurationsIInv
<1>3. CASE passes # 0
    <2>1. PICK v \in Int : First(v) /\ CutFrom(v, t, passes)
        BY <1>3 DEF DurationsIInv
    <2>2. PICK e \in 0 .. passes : Cut(v, t, e)
        BY <2>1 DEF CutFrom
    <2>3. t \in Int /\ e \in Nat
        BY MaxPassesAssumption DEF DurationsIInv
    <2> QED
        BY <1>1, <2>1, <2>2, <2>3, CutIsNear
<1> QED
    BY <1>2, <1>3, <1>1

\* The invariant implies the types and each part of TextKeepsDurations.
LEMMA InvTypes == DurationsIInv => DurationsTypeOK
<1> SUFFICES ASSUME DurationsIInv PROVE DurationsTypeOK
    OBVIOUS
<1>1. text \in Texts
    BY Nearness, WrittenType DEF DurationsIInv, Texts
<1> QED
    BY <1>1 DEF DurationsIInv, DurationsTypeOK

LEMMA InvDrift == DurationsIInv => DriftIsBounded
<1> SUFFICES ASSUME DurationsIInv PROVE DriftIsBounded
    OBVIOUS
<1> DEFINE p == LastDigit(given)
<1>1. /\ given \in Near /\ given \in Int /\ t \in Int /\ p \in Nat \ {0}
      /\ passes \in Nat
    BY Nearness, LastDigitFacts, PowersFacts, MaxPassesAssumption DEF DurationsIInv, Near
<1>2. 2 * absDuration(t - given) <= p + 2 * passes
    <2>1. CASE passes = 0
        <3>1. t = given
            BY <2>1 DEF DurationsIInv
        <3> HIDE DEF p
        <3> QED
            BY <1>1, <3>1 DEF absDuration
    <2>2. CASE passes # 0
        <3>1. PICK v \in Int : First(v) /\ CutFrom(v, t, passes)
            BY <2>2 DEF DurationsIInv
        <3>2. PICK e \in 0 .. passes : Cut(v, t, e)
            BY <3>1 DEF CutFrom
        <3>3. 2 * (v - given) <= p /\ 2 * (given - v) <= p
            BY <3>1 DEF First
        <3>4. (t = v - e) \/ (t = v + e)
            BY <3>2 DEF Cut
        <3> HIDE DEF p
        <3> QED
            BY <1>1, <3>2, <3>3, <3>4 DEF absDuration
    <2> QED
        BY <2>1, <2>2
<1> QED
    BY <1>2 DEF DriftIsBounded

LEMMA InvOrder == DurationsIInv => OrderIsKept
<1> SUFFICES ASSUME DurationsIInv, NEW d \in Inputs, d > t,
                    NEW v \in WriteText(t), NEW w \in WriteText(d)
             PROVE  /\ v.value <= w.value
                    /\ (v.value < w.value => \A x \in Read(v), y \in Read(w) : x <= y)
    BY DEF OrderIsKept
<1>1. t \in Near /\ d \in Near /\ t < d
    BY Nearness, InputsAreNear, InputsAssumption DEF Near
<1>2. v.value <= w.value
    BY <1>1, WritingIsMonotone
<1>3. v.value \in Int /\ w.value \in Int
    BY <1>1, TextFacts
<1>4. ASSUME v.value < w.value, NEW x \in Read(v), NEW y \in Read(w) PROVE x <= y
    <2>1. /\ x \in Int
          /\ \/ x = v.value
             \/ v.value > 0 /\ x = v.value - 1
             \/ v.value < 0 /\ x = v.value + 1
        BY <1>1, WrittenType, ReadFacts
    <2>2. /\ y \in Int
          /\ \/ y = w.value
             \/ w.value > 0 /\ y = w.value - 1
             \/ w.value < 0 /\ y = w.value + 1
        BY <1>1, WrittenType, ReadFacts
    <2> QED
        BY <1>3, <1>4, <2>1, <2>2
<1> QED
    BY <1>2, <1>4

LEMMA InvTelling == DurationsIInv => UnitIsTelling
<1> SUFFICES ASSUME DurationsIInv, text # NoText, text.value # 0, text.unit # "s"
             PROVE  absDuration(text.value) \div Units[text.unit] \in 1 .. 999
    BY DEF UnitIsTelling
<1> DEFINE p == LastDigit(t)
           w == text.value
<1>1. text \in WriteText(t) /\ t \in Near /\ t \in Int
    BY Nearness DEF DurationsIInv
<1>2. /\ text.unit = UnitFor(t) /\ w \in Int /\ Whole(w, p)
      /\ 2 * (w - t) <= p /\ 2 * (t - w) <= p
    BY <1>1, TextFacts
<1>3. p \in Powers /\ p \in Nat \ {0} /\ (p # 1 => p >= 10 /\ absDuration(t) >= 100000 * p)
    BY <1>1, LastDigitFacts, PowersFacts
<1>4. w # 0
    OBVIOUS
<1> HIDE DEF p, w
<1>5. absDuration(t) < 1000000 => w = t
    BY <1>1, <1>2, <1>3 DEF absDuration
<1>6. /\ text.unit = "ns" => absDuration(t) < 1000
      /\ text.unit = "us" => 1000 <= absDuration(t) /\ absDuration(t) < 1000000
      /\ text.unit = "ms" => 1000000 <= absDuration(t) /\ absDuration(t) < 99000000
    BY <1>1, <1>2 DEF UnitFor, Units, absDuration
<1>10. text.unit \in {"ns", "us", "ms"}
    BY <1>2 DEF UnitFor
<1>11. absDuration(t) \in Nat
    BY <1>1 DEF absDuration
<1>7. CASE text.unit = "ns"
    <2>1. absDuration(w) \in Nat /\ 1 <= absDuration(w) /\ absDuration(w) <= 999
        BY <1>1, <1>4, <1>5, <1>6, <1>7 DEF absDuration
    <2> QED
        BY <1>7, <2>1, UnitsFacts DEF w
<1>8. CASE text.unit = "us"
    <2>1. absDuration(w) \in Nat /\ 1000 <= absDuration(w) /\ absDuration(w) <= 999999
        BY <1>1, <1>5, <1>6, <1>8, <1>11 DEF absDuration
    <2> DEFINE n == absDuration(w)
    <2>3. n \in Nat /\ 1000 <= n /\ n <= 999999
        BY <2>1
    <2> HIDE DEF n
    <2>4. n \div 1000 \in Int /\ 1 <= n \div 1000 /\ n \div 1000 <= 999
        BY <2>3
    <2>2. absDuration(w) \div 1000 \in 1 .. 999
        BY <2>4 DEF n
    <2> QED
        BY <1>8, <2>2, UnitsFacts DEF w
<1>9. CASE text.unit = "ms"
    <2>1. p <= 100
        BY <1>3, <1>6, <1>9, <1>11 DEF Powers
    <2>2. Whole(1000000, p)
        BY <1>3, <2>1 DEF Powers, Whole
    <2>3. Whole(-1000000, p)
        BY <1>3, <2>1 DEF Powers, Whole
    <2>4. ASSUME t >= 0 PROVE 1000000 <= absDuration(w) /\ absDuration(w) <= 99000100
        <3>1. t >= 1000000 /\ t < 99000000
            BY <1>1, <1>6, <1>9, <2>4 DEF absDuration
        <3>2. 1000000 - w < p
            BY <1>1, <1>2, <1>3, <3>1
        <3>3. 1000000 <= w
            BY <1>2, <1>3, <2>2, <3>2, WholeFacts
        <3>4. w <= 99000100 /\ -99000100 <= w
            BY <1>1, <1>2, <1>3, <2>1, <3>1
        <3> QED
            BY <1>2, <3>3, <3>4 DEF absDuration
    <2>5. ASSUME t < 0 PROVE 1000000 <= absDuration(w) /\ absDuration(w) <= 99000100
        <3>1. t <= -1000000 /\ t > -99000000
            BY <1>1, <1>6, <1>9, <2>5 DEF absDuration
        <3>2. w - -1000000 < p
            BY <1>1, <1>2, <1>3, <3>1
        <3>3. w <= -1000000
            BY <1>2, <1>3, <2>3, <3>2, WholeFacts
        <3>4. w <= 99000100 /\ -99000100 <= w
            BY <1>1, <1>2, <1>3, <2>1, <3>1
        <3> QED
            BY <1>2, <3>3, <3>4 DEF absDuration
    <2>6. /\ absDuration(w) \in Nat /\ 1000000 <= absDuration(w)
          /\ absDuration(w) <= 99000100
        BY <1>1, <1>2, <2>4, <2>5 DEF absDuration
    <2> DEFINE n == absDuration(w)
    <2>8. n \in Nat /\ 1000000 <= n /\ n <= 99000100
        BY <2>6
    <2> HIDE DEF n
    <2>9. n \div 1000000 \in Int /\ 1 <= n \div 1000000 /\ n \div 1000000 <= 999
        BY <2>8
    <2>7. absDuration(w) \div 1000000 \in 1 .. 999
        BY <2>9 DEF n
    <2> QED
        BY <1>9, <2>7, UnitsFacts DEF w
<1> QED
    BY <1>7, <1>8, <1>9, <1>10, Zenon

\* The variables keep their types.
THEOREM DurationsTypes == DurationsSpec => []DurationsTypeOK
BY DurationsAlways, InvTypes, PTL

\* TextKeepsDurations for all durations of less than eleven days.
THEOREM DurationsKept == DurationsSpec => []TextKeepsDurations
<1>1. DurationsIInv => TextKeepsDurations
    BY InvDrift, InvOrder, InvTelling DEF TextKeepsDurations, DurationsIInv
<1> QED
    BY <1>1, DurationsAlways, PTL

-----------------------------------------------------------------------------
(***************************************************************************)
(* The arrays of a module's settings, for any number of holders.           *)
(***************************************************************************)
ModuleTypes ==
    /\ module \in [Holders -> Objects \cup {none}]
    /\ heap \in [Arrays -> Data \cup {free}]
    /\ outOfMemory \in BOOLEAN

\* No array has two pointers to it.
NoSharing ==
    \A m, n \in Live :
        /\ module[m].dacs \in Arrays => module[m].dacs # module[n].chanregs
        /\ module[m].dacs \in Arrays /\ module[m].dacs = module[n].dacs => m = n
        /\ module[m].chanregs \in Arrays /\ module[m].chanregs = module[n].chanregs
            => m = n

\* No pointer to an array is to one that is free.
PointersAreLive ==
    \A n \in Live :
        /\ module[n].dacs \in Arrays => heap[module[n].dacs] # free
        /\ module[n].chanregs \in Arrays => heap[module[n].chanregs] # free

NothingIsLost ==
    ~outOfMemory =>
        /\ \A n \in Live : Usable(n)
        /\ \A a \in Arrays : heap[a] # free =>
                \E n \in Live : a \in {module[n].dacs, module[n].chanregs}

ModuleIInv ==
    /\ ModuleTypes /\ NoSharing /\ PointersAreLive /\ NothingIsLost
    /\ LengthsAreSizes

-----------------------------------------------------------------------------
\* The heap once the arrays of n are deleted.
From(n) == Deleted(heap, Dead(n))

\* n gets the object obj, or none, with arrays that were free before.
Replaced(n, obj) ==
    /\ module' = [module EXCEPT ![n] = obj]
    /\ heap' \in [Arrays -> Data \cup {free}]
    /\ outOfMemory' \in BOOLEAN /\ (outOfMemory => outOfMemory')
    /\ \A a \in Arrays : From(n)[a] # free => heap'[a] = From(n)[a]
    /\ \A a \in Arrays : heap'[a] # free =>
            \/ From(n)[a] # free \/ outOfMemory'
            \/ (obj # none /\ a \in {obj.dacs, obj.chanregs})
    /\ obj = none \/ obj \in Objects
    /\ obj # none =>
        /\ obj.dacs \in Arrays =>
            /\ obj.dacs # obj.chanregs /\ From(n)[obj.dacs] = free
            /\ heap'[obj.dacs] # free
            /\ heap'[obj.dacs].length = obj.sizes.ndac
        /\ obj.chanregs \in Arrays =>
            /\ From(n)[obj.chanregs] = free
            /\ heap'[obj.chanregs] # free
            /\ heap'[obj.chanregs].length = obj.sizes.nchan
        /\ ~outOfMemory' =>
            /\ dangling \notin {obj.dacs, obj.chanregs}
            /\ null \in {obj.dacs, obj.chanregs} => obj.sizes = Sizes

\* A module that lives has pointers to arrays, null or dangling ones.
LEMMA LiveObjects ==
    ASSUME ModuleTypes, NEW n \in Live
    PROVE  /\ n \in Holders /\ module[n] \in Objects
           /\ module[n].dacs \in Arrays \cup {null, dangling}
           /\ module[n].chanregs \in Arrays \cup {null, dangling}
BY DEF ModuleTypes, Live, Objects, Pointers

\* What deleting the arrays of n leaves: those of the others, as they are.
LEMMA FromFacts ==
    ASSUME ModuleIInv, NEW n \in Holders, n \in Live => Usable(n)
    PROVE  /\ From(n) \in [Arrays -> Data \cup {free}]
           /\ \A m \in Live \ {n} :
                /\ module[m].dacs \in Arrays =>
                    /\ From(n)[module[m].dacs] # free
                    /\ From(n)[module[m].dacs] = heap[module[m].dacs]
                /\ module[m].chanregs \in Arrays =>
                    /\ From(n)[module[m].chanregs] # free
                    /\ From(n)[module[m].chanregs] = heap[module[m].chanregs]
           /\ ~outOfMemory => \A a \in Arrays : From(n)[a] # free =>
                \E m \in Live \ {n} : a \in {module[m].dacs, module[m].chanregs}
<1>1. From(n) \in [Arrays -> Data \cup {free}]
    BY DEF From, Deleted, ModuleIInv, ModuleTypes
<1>2. \A a \in Arrays : From(n)[a] = IF a \in Dead(n) THEN free ELSE heap[a]
    BY DEF From, Deleted
<1>3. \A a \in Arrays :
        a \in Dead(n) <=> n \in Live /\ a \in {module[n].dacs, module[n].chanregs}
    BY PointersAssumption DEF Dead, Owned
<1>4. ASSUME NEW m \in Live \ {n}
      PROVE  /\ module[m].dacs \in Arrays => module[m].dacs \notin Dead(n)
             /\ module[m].chanregs \in Arrays => module[m].chanregs \notin Dead(n)
    BY <1>3 DEF ModuleIInv, NoSharing
<1>5. ~outOfMemory => \A a \in Arrays : From(n)[a] # free =>
                \E m \in Live \ {n} : a \in {module[m].dacs, module[m].chanregs}
    BY <1>2, <1>3 DEF ModuleIInv, NothingIsLost
<1> QED
    BY <1>1, <1>2, <1>4, <1>5 DEF ModuleIInv, PointersAreLive

\* One object given new arrays of its own: the others keep theirs.
LEMMA ReplacedInv ==
    ASSUME ModuleIInv, NEW n \in Holders, n \in Live => Usable(n), NEW obj,
           Replaced(n, obj)
    PROVE  ModuleIInv'
<1>1. ModuleTypes'
    BY DEF Replaced, ModuleIInv, ModuleTypes
<1>2. /\ module'[n] = obj
      /\ \A m \in Holders \ {n} : module'[m] = module[m]
    BY DEF Replaced, ModuleIInv, ModuleTypes
<1>3. /\ obj # none => n \in Live'
      /\ \A m \in Live' : (m = n /\ obj # none) \/ m \in Live \ {n}
      /\ \A m \in Live \ {n} : m \in Live' /\ module'[m] = module[m]
    BY <1>2 DEF Live
<1>4. \A m \in Live \ {n} :
        /\ module[m].dacs \in Arrays =>
            /\ heap'[module[m].dacs] = heap[module[m].dacs]
            /\ heap'[module[m].dacs] # free
            /\ obj # none => module[m].dacs \notin {obj.dacs, obj.chanregs}
        /\ module[m].chanregs \in Arrays =>
            /\ heap'[module[m].chanregs] = heap[module[m].chanregs]
            /\ heap'[module[m].chanregs] # free
            /\ obj # none => module[m].chanregs \notin {obj.dacs, obj.chanregs}
    BY FromFacts DEF Replaced
<1>5. NoSharing'
    <2> SUFFICES ASSUME NEW m \in Live', NEW k \in Live'
                 PROVE  /\ module'[m].dacs \in Arrays =>
                            module'[m].dacs # module'[k].chanregs
                        /\ module'[m].dacs \in Arrays
                            /\ module'[m].dacs = module'[k].dacs => m = k
                        /\ module'[m].chanregs \in Arrays
                            /\ module'[m].chanregs = module'[k].chanregs => m = k
        BY DEF NoSharing
    <2>1. CASE m \in Live \ {n} /\ k \in Live \ {n}
        BY <1>3, <2>1 DEF ModuleIInv, NoSharing
    <2>2. CASE m = n /\ obj # none /\ k \in Live \ {n}
        BY <1>2, <1>3, <1>4, <2>2
    <2>3. CASE m \in Live \ {n} /\ k = n /\ obj # none
        BY <1>2, <1>3, <1>4, <2>3
    <2>4. CASE m = n /\ k = n /\ obj # none
        BY <1>2, <2>4 DEF Replaced
    <2> QED
        BY <1>3, <2>1, <2>2, <2>3, <2>4
<1>6. PointersAreLive'
    <2> SUFFICES ASSUME NEW m \in Live'
                 PROVE  /\ module'[m].dacs \in Arrays =>
                                heap'[module'[m].dacs] # free
                        /\ module'[m].chanregs \in Arrays =>
                                heap'[module'[m].chanregs] # free
        BY DEF PointersAreLive
    <2>1. CASE m = n /\ obj # none
        BY <1>2, <2>1 DEF Replaced
    <2>2. CASE m \in Live \ {n}
        BY <1>3, <1>4, <2>2
    <2> QED
        BY <1>3, <2>1, <2>2
<1>7. NothingIsLost'
    <2> SUFFICES ASSUME ~outOfMemory'
                 PROVE  /\ \A m \in Live' : Usable(m)'
                        /\ \A a \in Arrays : heap'[a] # free =>
                            \E m \in Live' :
                                a \in {module'[m].dacs, module'[m].chanregs}
        BY DEF NothingIsLost
    <2>1. ~outOfMemory
        BY DEF Replaced
    <2>2. ASSUME NEW m \in Live' PROVE Usable(m)'
        <3>1. CASE m = n /\ obj # none
            BY <1>2, <3>1 DEF Replaced, Usable
        <3>2. CASE m \in Live \ {n}
            BY <1>3, <2>1, <3>2 DEF ModuleIInv, NothingIsLost, Usable
        <3> QED
            BY <1>3, <3>1, <3>2
    <2>3. ASSUME NEW a \in Arrays, heap'[a] # free
          PROVE  \E m \in Live' : a \in {module'[m].dacs, module'[m].chanregs}
        <3>1. CASE From(n)[a] # free
            BY <1>3, <2>1, <3>1, FromFacts
        <3>2. CASE obj # none /\ a \in {obj.dacs, obj.chanregs}
            BY <1>2, <1>3, <3>2
        <3> QED
            BY <2>3, <3>1, <3>2 DEF Replaced
    <2> QED
        BY <2>2, <2>3
<1>8. LengthsAreSizes'
    <2> SUFFICES ASSUME NEW m \in Live', Usable(m)'
                 PROVE  /\ module'[m].dacs # null =>
                            heap'[module'[m].dacs].length = module'[m].sizes.ndac
                        /\ module'[m].chanregs # null =>
                            heap'[module'[m].chanregs].length = module'[m].sizes.nchan
                        /\ ~outOfMemory' /\ null \in {module'[m].dacs, module'[m].chanregs}
                            => module'[m].sizes = Sizes
        BY DEF LengthsAreSizes
    <2>1. CASE m = n /\ obj # none
        BY <1>2, <2>1 DEF Replaced, Usable, Objects, Pointers
    <2>2. CASE m \in Live \ {n}
        <3>1. Usable(m) /\ (~outOfMemory' => ~outOfMemory)
            BY <1>3, <2>2 DEF Usable, Replaced
        <3>2. /\ module[m].dacs \in Arrays \cup {null, dangling}
              /\ module[m].chanregs \in Arrays \cup {null, dangling}
            BY <2>2, LiveObjects DEF ModuleIInv
        <3> QED
            BY <1>3, <1>4, <2>2, <3>1, <3>2 DEF ModuleIInv, LengthsAreSizes, Usable
    <2> QED
        BY <1>3, <2>1, <2>2
<1> QED
    BY <1>1, <1>5, <1>6, <1>7, <1>8 DEF ModuleIInv

-----------------------------------------------------------------------------
\* The sizes that a type of detector has are numbers.
LEMMA SizeTypes ==
    ASSUME NEW sizes \in {Sizes} \cup {detParameters(kind) : kind \in Known}
    PROVE  sizes.ndac \in Lengths /\ sizes.nchan \in Lengths
BY DEF Lengths, Sizes

\* A new array is one that was free, and the others stay.
LEMMA NewArray ==
    ASSUME NEW h \in [Arrays -> Data \cup {free}], NEW a \in New(h),
           NEW length \in Lengths, NEW content \in Contents \cup {unset}
    PROVE  /\ a \in Arrays /\ h[a] = free
           /\ WithArray(h, a, length, content) \in [Arrays -> Data \cup {free}]
           /\ WithArray(h, a, length, content)[a] # free
           /\ WithArray(h, a, length, content)[a].length = length
           /\ \A b \in Arrays \ {a} : WithArray(h, a, length, content)[b] = h[b]
<1>1. a \in Arrays /\ h[a] = free
    BY DEF New, Free
<1>2. [length |-> length, content |-> content] \in Data
    BY DEF Data
<1> QED
    BY <1>1, <1>2, NothingAssumption DEF WithArray

\* So are two, one after the other.
LEMMA NewArrays ==
    ASSUME NEW h \in [Arrays -> Data \cup {free}],
           NEW l1 \in Lengths, NEW l2 \in Lengths,
           NEW c1 \in Contents \cup {unset}, NEW c2 \in Contents \cup {unset},
           NEW a \in New(h), NEW b \in New(WithArray(h, a, l1, c1)),
           NEW both, both = WithArray(WithArray(h, a, l1, c1), b, l2, c2)
    PROVE  /\ a \in Arrays /\ b \in Arrays /\ a # b
           /\ h[a] = free /\ h[b] = free
           /\ both \in [Arrays -> Data \cup {free}]
           /\ both[a] # free /\ both[b] # free
           /\ both[a].length = l1 /\ both[b].length = l2
           /\ \A c \in Arrays \ {a, b} : both[c] = h[c]
<1> DEFINE one == WithArray(h, a, l1, c1)
<1>1. /\ a \in Arrays /\ h[a] = free
      /\ one \in [Arrays -> Data \cup {free}]
      /\ one[a] # free /\ one[a].length = l1
      /\ \A c \in Arrays \ {a} : one[c] = h[c]
    BY NewArray
<1>2. b \in New(one) /\ both = WithArray(one, b, l2, c2)
    OBVIOUS
<1> HIDE DEF one
<1>3. /\ b \in Arrays /\ one[b] = free
      /\ both \in [Arrays -> Data \cup {free}]
      /\ both[b] # free /\ both[b].length = l2
      /\ \A c \in Arrays \ {b} : both[c] = one[c]
    BY <1>1, <1>2, NewArray
<1> QED
    BY <1>1, <1>3

\* What is copied of an array is content.
LEMMA ContentType ==
    ASSUME ModuleIInv, NEW m \in Live, Usable(m)
    PROVE  /\ ContentOf(heap, module[m].dacs) \in Contents \cup {unset}
           /\ ContentOf(heap, module[m].chanregs) \in Contents \cup {unset}
<1>1. /\ module[m].dacs \in Arrays \cup {null}
      /\ module[m].chanregs \in Arrays \cup {null}
    BY LiveObjects DEF Usable, ModuleIInv
<1>2. \A a \in Arrays : heap[a] # free => heap[a].content \in Contents \cup {unset}
    BY DEF ModuleIInv, ModuleTypes, Data
<1> QED
    BY <1>1, <1>2 DEF ContentOf, ModuleIInv, PointersAreLive

\* Two new arrays of the sizes that n gets.
LEMMA BothInv ==
    ASSUME ModuleIInv, NEW n \in Holders, n \in Live => Usable(n),
           NEW sizes \in {Sizes} \cup {detParameters(kind) : kind \in Known},
           NEW c1 \in Contents \cup {unset}, NEW c2 \in Contents \cup {unset},
           NEW a \in New(From(n)),
           NEW b \in New(WithArray(From(n), a, sizes.ndac, c1)),
           module' = [module EXCEPT ![n] =
                        [sizes |-> sizes, dacs |-> a, chanregs |-> b]],
           heap' = WithArray(WithArray(From(n), a, sizes.ndac, c1),
                             b, sizes.nchan, c2),
           UNCHANGED outOfMemory
    PROVE  ModuleIInv'
<1> DEFINE obj == [sizes |-> sizes, dacs |-> a, chanregs |-> b]
           from == From(n)
           l1 == sizes.ndac
           l2 == sizes.nchan
           both == WithArray(WithArray(from, a, l1, c1), b, l2, c2)
<1>1. from \in [Arrays -> Data \cup {free}]
    BY FromFacts
<1>2. l1 \in Lengths /\ l2 \in Lengths
    BY SizeTypes
<1>3. a \in New(from) /\ b \in New(WithArray(from, a, l1, c1))
    OBVIOUS
<1>4. /\ a \in Arrays /\ b \in Arrays /\ a # b
      /\ from[a] = free /\ from[b] = free
      /\ both \in [Arrays -> Data \cup {free}]
      /\ both[a] # free /\ both[b] # free
      /\ both[a].length = l1 /\ both[b].length = l2
      /\ \A c \in Arrays \ {a, b} : both[c] = from[c]
    <2> HIDE DEF from, l1, l2
    <2> QED BY <1>1, <1>2, <1>3, NewArrays
<1>5. obj \in Objects
    BY <1>4 DEF Objects, Pointers
<1>6. heap' = both
    OBVIOUS
<1>7. /\ obj.dacs = a /\ obj.chanregs = b /\ obj.sizes = sizes
      /\ a \notin {null, dangling} /\ b \notin {null, dangling}
    BY <1>4, PointersAssumption
<1>8. /\ obj # none /\ outOfMemory' = outOfMemory /\ outOfMemory \in BOOLEAN
      /\ module' = [module EXCEPT ![n] = obj]
    BY <1>5, NothingAssumption DEF ModuleIInv, ModuleTypes
<1> HIDE DEF obj, both
<1>9. Replaced(n, obj)
    <2> HIDE DEF from, l1, l2
    <2>1. \A c \in Arrays : from[c] # free => heap'[c] = from[c]
        BY <1>4, <1>6
    <2>2. \A c \in Arrays :
            heap'[c] # free => from[c] # free \/ c \in {obj.dacs, obj.chanregs}
        BY <1>4, <1>6, <1>7
    <2>3. /\ obj.dacs # obj.chanregs
          /\ from[obj.dacs] = free /\ from[obj.chanregs] = free
          /\ heap'[obj.dacs] # free /\ heap'[obj.dacs].length = l1
          /\ heap'[obj.chanregs] # free /\ heap'[obj.chanregs].length = l2
        BY <1>4, <1>6, <1>7
    <2>4. l1 = obj.sizes.ndac /\ l2 = obj.sizes.nchan
        BY <1>7 DEF l1, l2
    <2>5. {null, dangling} \cap {obj.dacs, obj.chanregs} = {}
        BY <1>7
    <2>6. heap' \in [Arrays -> Data \cup {free}]
        BY <1>4, <1>6
    <2>7. /\ from[obj.dacs] = free /\ from[obj.chanregs] = free
          /\ heap'[obj.dacs].length = obj.sizes.ndac
          /\ heap'[obj.chanregs].length = obj.sizes.nchan
        BY <2>3, <2>4
    <2>8. /\ dangling \notin {obj.dacs, obj.chanregs}
          /\ null \notin {obj.dacs, obj.chanregs}
        BY <2>5
    <2>9. /\ \A c \in Arrays : from[c] # free => heap'[c] = from[c]
          /\ \A c \in Arrays :
                heap'[c] # free =>
                    \/ from[c] # free \/ outOfMemory'
                    \/ (obj # none /\ c \in {obj.dacs, obj.chanregs})
        BY <2>1, <2>2, <1>8
    <2>10. /\ module' = [module EXCEPT ![n] = obj]
           /\ outOfMemory' \in BOOLEAN /\ (outOfMemory => outOfMemory')
           /\ obj = none \/ obj \in Objects
        <3>1. outOfMemory' = outOfMemory
            BY <1>8
        <3>2. outOfMemory => outOfMemory'
            BY <1>8, <3>1
        <3>3. outOfMemory' \in BOOLEAN
            BY <1>8, <3>1
        <3> QED
            BY <1>5, <1>8, <3>2, <3>3
    <2> QED
        BY <2>3, <2>6, <2>7, <2>8, <2>9, <2>10, Zenon DEF Replaced, from
<1> QED
    BY <1>9, ReplacedInv

\* Before n is alive nothing is deleted.
LEMMA FromOfNothing ==
    ASSUME ModuleIInv, NEW n \in Holders, n \notin Live PROVE From(n) = heap
BY DEF From, Deleted, Dead, ModuleIInv, ModuleTypes

\* The invariant under each operation in turn.
LEMMA ConstructInv ==
    ASSUME ModuleIInv, NEW n \in Holders, Construct(n) PROVE ModuleIInv'
<1> DEFINE obj == [sizes |-> Sizes, dacs |-> null, chanregs |-> null]
<1>1. obj \in Objects
    BY DEF Objects, Pointers
<1>2. From(n) = heap
    BY FromOfNothing DEF Construct
<1>3. Replaced(n, obj)
    BY <1>1, <1>2, PointersAssumption
       DEF Construct, Replaced, ModuleIInv, ModuleTypes
<1> QED
    BY <1>3, ReplacedInv DEF Construct

LEMMA ConstructForInv ==
    ASSUME ModuleIInv, NEW n \in Holders, NEW type \in DetectorTypes,
           ConstructFor(n, type)
    PROVE  ModuleIInv'
<1> DEFINE sizes == detParameters(type)
<1>1. From(n) = heap /\ n \notin Live
    BY FromOfNothing DEF ConstructFor
<1>2. sizes \in {detParameters(kind) : kind \in Known}
    BY DEF ConstructFor
<1>3. PICK a \in New(From(n)) :
        \E b \in New(WithArray(From(n), a, sizes.ndac, unset)) :
            /\ module' = [module EXCEPT ![n] =
                    [sizes |-> sizes, dacs |-> a, chanregs |-> b]]
            /\ heap' = WithArray(WithArray(From(n), a, sizes.ndac, unset),
                                 b, sizes.nchan, unset)
    BY <1>1, Zenon DEF ConstructFor
<1> HIDE DEF sizes
<1> QED
    BY <1>1, <1>2, <1>3, BothInv DEF ConstructFor

LEMMA AssignedInv ==
    ASSUME ModuleIInv, NEW n \in Holders, NEW m \in Live, Usable(m),
           n \in Live => Usable(n), Assigned(n, m), UNCHANGED outOfMemory
    PROVE  ModuleIInv'
<1> DEFINE sizes == module[m].sizes
           content(p) == IF n = m THEN unset ELSE ContentOf(heap, p)
           c1 == content(module[m].dacs)
           c2 == content(module[m].chanregs)
<1>1. sizes \in {Sizes} \cup {detParameters(kind) : kind \in Known}
    BY LiveObjects DEF Objects, ModuleIInv
<1>2. c1 \in Contents \cup {unset} /\ c2 \in Contents \cup {unset}
    BY ContentType
<1>3. PICK a \in New(From(n)) :
        \E b \in New(WithArray(From(n), a, sizes.ndac, c1)) :
            /\ module' = [module EXCEPT ![n] =
                    [sizes |-> sizes, dacs |-> a, chanregs |-> b]]
            /\ heap' = WithArray(WithArray(From(n), a, sizes.ndac, c1),
                                 b, sizes.nchan, c2)
    BY Zenon DEF Assigned, From
<1> HIDE DEF sizes, c1, c2
<1> QED
    BY <1>1, <1>2, <1>3, BothInv

LEMMA AssignFailsInv ==
    ASSUME ModuleIInv, NEW n \in Holders, NEW m \in Holders, AssignFails(n, m)
    PROVE  ModuleIInv'
<1> DEFINE sizes == module[m].sizes
           c == IF n = m THEN unset ELSE ContentOf(heap, module[m].dacs)
           dead(p) == IF p = null THEN null ELSE dangling
<1>0. n \in Live /\ m \in Live /\ Usable(n) /\ Usable(m) /\ outOfMemory' = TRUE
    BY DEF AssignFails
<1>1. sizes \in {Sizes} \cup {detParameters(kind) : kind \in Known}
    BY <1>0, LiveObjects DEF Objects, ModuleIInv
<1>2. c \in Contents \cup {unset} /\ sizes.ndac \in Lengths
    BY <1>0, <1>1, ContentType, SizeTypes
<1>3. From(n) \in [Arrays -> Data \cup {free}]
    BY <1>0, FromFacts
<1>4. dead(module[n].dacs) \notin Arrays /\ dead(module[n].chanregs) \notin Arrays
    BY PointersAssumption
<1>5. ASSUME module' = [module EXCEPT ![n] =
                [sizes |-> sizes, dacs |-> dead(@.dacs),
                 chanregs |-> dead(@.chanregs)]],
             heap' = From(n)
      PROVE  ModuleIInv'
    <2> DEFINE obj == [sizes |-> sizes, dacs |-> dead(module[n].dacs),
                       chanregs |-> dead(module[n].chanregs)]
    <2>1. obj \in Objects
        BY <1>1 DEF Objects, Pointers
    <2>2. Replaced(n, obj)
        BY <1>0, <1>3, <1>4, <1>5, <2>1 DEF Replaced
    <2> QED
        BY <1>0, <2>2, ReplacedInv
<1>6. ASSUME NEW a \in New(From(n)),
             module' = [module EXCEPT ![n] =
                [sizes |-> sizes, dacs |-> a, chanregs |-> dead(@.chanregs)]],
             heap' = WithArray(From(n), a, sizes.ndac, c)
      PROVE  ModuleIInv'
    <2> DEFINE obj == [sizes |-> sizes, dacs |-> a,
                       chanregs |-> dead(module[n].chanregs)]
    <2>1. /\ a \in Arrays /\ From(n)[a] = free
          /\ heap' \in [Arrays -> Data \cup {free}]
          /\ heap'[a] # free /\ heap'[a].length = sizes.ndac
          /\ \A b \in Arrays \ {a} : heap'[b] = From(n)[b]
        BY <1>2, <1>3, <1>6, NewArray
    <2>2. obj \in Objects
        BY <1>1, <2>1 DEF Objects, Pointers
    <2>3. Replaced(n, obj)
        BY <1>0, <1>4, <1>6, <2>1, <2>2 DEF Replaced
    <2> QED
        BY <1>0, <2>3, ReplacedInv
<1> QED
    BY <1>5, <1>6, Zenon DEF AssignFails, From

\* A copy that fails leaves an array that nothing points to.
LEMMA CopyFailsInv ==
    ASSUME ModuleIInv, NEW n \in Holders, NEW m \in Holders, CopyFails(n, m)
    PROVE  ModuleIInv'
<1>0. /\ n \notin Live /\ m \in Live /\ Usable(m)
      /\ outOfMemory' = TRUE /\ UNCHANGED module
    BY DEF CopyFails
<1>1. From(n) = heap /\ heap \in [Arrays -> Data \cup {free}]
    BY <1>0, FromOfNothing DEF ModuleIInv, ModuleTypes
<1>2. /\ module[m].sizes.ndac \in Lengths
      /\ ContentOf(heap, module[m].dacs) \in Contents \cup {unset}
    BY <1>0, LiveObjects, SizeTypes, ContentType DEF Objects, ModuleIInv
<1>3. PICK a \in New(heap) :
        heap' = WithArray(heap, a, module[m].sizes.ndac,
                          ContentOf(heap, module[m].dacs))
    BY DEF CopyFails
<1>4. /\ a \in Arrays /\ heap[a] = free
      /\ heap' \in [Arrays -> Data \cup {free}]
      /\ \A b \in Arrays \ {a} : heap'[b] = heap[b]
    BY <1>1, <1>2, <1>3, NewArray
<1>5. module' = [module EXCEPT ![n] = none]
    BY <1>0 DEF Live, ModuleIInv, ModuleTypes
<1>6. Replaced(n, none)
    BY <1>0, <1>1, <1>4, <1>5 DEF Replaced
<1> QED
    BY <1>0, <1>6, ReplacedInv

LEMMA DestroyInv ==
    ASSUME ModuleIInv, NEW n \in Holders, Destroy(n) PROVE ModuleIInv'
<1>1. From(n) = heap' /\ n \in Live /\ Usable(n)
    BY DEF Destroy, From, Dead
<1>2. heap' \in [Arrays -> Data \cup {free}]
    BY <1>1, FromFacts
<1>3. Replaced(n, none)
    BY <1>1, <1>2 DEF Replaced, Destroy, ModuleIInv, ModuleTypes
<1> QED
    BY <1>1, <1>3, ReplacedInv

\* Writing keeps the array's length.
LEMMA WriteArrayInv ==
    ASSUME ModuleIInv, NEW n \in Holders, NEW content \in Contents,
           WriteArray(n, content)
    PROVE  ModuleIInv'
<1>1. PICK a \in Owned(n) : heap' = [heap EXCEPT ![a].content = content]
    BY DEF WriteArray
<1>2. a \in Arrays /\ heap[a] \in Data
    BY <1>1, LiveObjects, PointersAssumption
       DEF WriteArray, Owned, ModuleIInv, ModuleTypes, PointersAreLive
<1>3. /\ [heap[a] EXCEPT !.content = content] \in Data
      /\ [heap[a] EXCEPT !.content = content].length = heap[a].length
    BY <1>2 DEF Data
<1>4. heap' = [heap EXCEPT ![a] = [heap[a] EXCEPT !.content = content]]
    BY <1>1
<1>5. /\ heap' \in [Arrays -> Data \cup {free}]
      /\ \A b \in Arrays : heap'[b] = free <=> heap[b] = free
      /\ \A b \in Arrays : heap'[b].length = heap[b].length
    BY <1>2, <1>3, <1>4, NothingAssumption DEF ModuleIInv, ModuleTypes
<1>6. UNCHANGED <<module, outOfMemory>>
    BY DEF WriteArray
<1>7. ModuleTypes' /\ NoSharing' /\ PointersAreLive' /\ NothingIsLost'
    BY <1>5, <1>6 DEF ModuleIInv, ModuleTypes, NoSharing, PointersAreLive,
                      NothingIsLost, Live, Usable
<1>8. LengthsAreSizes'
    BY <1>5, <1>6, LiveObjects DEF ModuleIInv, LengthsAreSizes, Live, Usable
<1> QED
    BY <1>7, <1>8 DEF ModuleIInv

-----------------------------------------------------------------------------
\* The invariant at the start.
LEMMA ModuleInitInv == ModuleInit => ModuleIInv
BY DEF ModuleInit, ModuleIInv, ModuleTypes, NoSharing, PointersAreLive,
       NothingIsLost, LengthsAreSizes, Live

\* Every operation keeps the invariant.
LEMMA ModuleInvStep ==
    ASSUME ModuleIInv, [ModuleNext]_moduleVars PROVE ModuleIInv'
<1>1. CASE UNCHANGED moduleVars
    BY <1>1 DEF moduleVars, ModuleIInv, ModuleTypes, NoSharing, PointersAreLive,
                NothingIsLost, LengthsAreSizes, Live, Usable
<1>2. ASSUME NEW n \in Holders, Construct(n) PROVE ModuleIInv'
    BY <1>2, ConstructInv
<1>3. ASSUME NEW n \in Holders, Destroy(n) PROVE ModuleIInv'
    BY <1>3, DestroyInv
<1>4. ASSUME NEW n \in Holders, NEW type \in DetectorTypes,
             ConstructFor(n, type)
      PROVE  ModuleIInv'
    BY <1>4, ConstructForInv
<1>5. ASSUME NEW n \in Holders, NEW content \in Contents,
             WriteArray(n, content)
      PROVE  ModuleIInv'
    BY <1>5, WriteArrayInv
<1>6. ASSUME NEW n \in Holders, NEW m \in Holders, Assign(n, m)
      PROVE  ModuleIInv'
    BY <1>6, AssignedInv DEF Assign
<1>7. ASSUME NEW n \in Holders, NEW m \in Holders, AssignFails(n, m)
      PROVE  ModuleIInv'
    BY <1>7, AssignFailsInv
<1>8. ASSUME NEW n \in Holders, NEW m \in Holders, CopyConstruct(n, m)
      PROVE  ModuleIInv'
    BY <1>8, AssignedInv DEF CopyConstruct
<1>9. ASSUME NEW n \in Holders, NEW m \in Holders, CopyFails(n, m)
      PROVE  ModuleIInv'
    BY <1>9, CopyFailsInv
<1> QED
    BY <1>1, <1>2, <1>3, <1>4, <1>5, <1>6, <1>7, <1>8, <1>9 DEF ModuleNext

LEMMA ModuleInvariance == ModuleSpec => []ModuleIInv
<1>1. ModuleIInv /\ [ModuleNext]_moduleVars => ModuleIInv'
    BY ModuleInvStep
<1> QED
    BY <1>1, ModuleInitInv, PTL DEF ModuleSpec

\* Every module is none or an object with the sizes of a known type, every array
\* free or of a length that a type has (the constructors and operator=).
THEOREM ModuleTypesHold == ModuleSpec => []ModuleTypeOK
<1>1. ModuleIInv => ModuleTypeOK
    BY DEF ModuleIInv, ModuleTypes, ModuleTypeOK
<1> QED
    BY <1>1, ModuleInvariance, PTL

-----------------------------------------------------------------------------
\* A set whose members are all equal has no member or one.
LEMMA AtMostOne ==
    ASSUME NEW S, \A x, y \in S : x = y
    PROVE  IF S = {} THEN Cardinality(S) = 0 ELSE Cardinality(S) = 1
<1>1. CASE S = {}
    BY <1>1, FS_EmptySet
<1>2. CASE S # {}
    <2>1. PICK x \in S : TRUE
        BY <1>2
    <2>2. S = {x}
        BY <2>1
    <2> QED
        BY <1>2, <2>2, FS_Singleton
<1> QED
    BY <1>1, <1>2

\* Arrays that are live and not shared have one owner each.
LEMMA InvariantOwners == ASSUME ModuleIInv PROVE EachArrayHasOneOwner
<1>1. ASSUME NEW a \in Arrays
      PROVE  LET owners == Cardinality({n \in Live : module[n].dacs = a})
                            + Cardinality({n \in Live : module[n].chanregs = a})
             IN  IF heap[a] = free THEN owners = 0
                 ELSE owners = 1 \/ (outOfMemory /\ owners = 0)
    <2> DEFINE D == {n \in Live : module[n].dacs = a}
               C == {n \in Live : module[n].chanregs = a}
    <2>1. (\A x, y \in D : x = y) /\ (\A x, y \in C : x = y)
        BY DEF ModuleIInv, NoSharing
    <2>2. D = {} \/ C = {}
        BY DEF ModuleIInv, NoSharing
    <2>3. heap[a] = free => D = {} /\ C = {}
        BY DEF ModuleIInv, PointersAreLive
    <2>4. heap[a] # free /\ ~outOfMemory => D # {} \/ C # {}
        BY DEF ModuleIInv, NothingIsLost
    <2>5. outOfMemory \in BOOLEAN
        BY DEF ModuleIInv, ModuleTypes
    <2> HIDE DEF D, C
    <2>6. /\ IF D = {} THEN Cardinality(D) = 0 ELSE Cardinality(D) = 1
          /\ IF C = {} THEN Cardinality(C) = 0 ELSE Cardinality(C) = 1
        BY <2>1, AtMostOne
    <2>7. IF heap[a] = free THEN Cardinality(D) + Cardinality(C) = 0
          ELSE \/ Cardinality(D) + Cardinality(C) = 1
               \/ outOfMemory /\ Cardinality(D) + Cardinality(C) = 0
        BY <2>2, <2>3, <2>4, <2>5, <2>6
    <2> QED
        BY <2>7 DEF D, C
<1> QED
    BY <1>1 DEF EachArrayHasOneOwner, ModuleIInv, NothingIsLost

\* Modules that are copied, assigned and destroyed in any order have arrays of
\* their own, as long as their sizes say (operator= and the copy constructor).
THEOREM ArraysOwned == ModuleSpec => []ArraysAreOwned
<1>1. ModuleIInv => ArraysAreOwned
    BY InvariantOwners DEF ModuleIInv, ArraysAreOwned
<1> QED
    BY <1>1, ModuleInvariance, PTL
=============================================================================

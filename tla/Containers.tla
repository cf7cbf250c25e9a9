----------------------------- MODULE Containers -----------------------------
(***************************************************************************)
(* What the driver makes of the answers of several modules: sls::Result,   *)
(* a vector with one element per module, and the functions of              *)
(* container_utils.h that compare its elements, squash them to one value   *)
(* or remove duplicates.  The operators follow the code, element by        *)
(* element from the first one, after sorting where the code sorts; the     *)
(* properties compare them with the set of the elements.                   *)
(***************************************************************************)
EXTENDS Integers, Sequences, FiniteSets, SequencesExt

CONSTANTS
    Values,             \* of the elements
    Tolerances,
    MaxSize             \* bound: elements of the vector

ASSUME ValuesAssumption ==
    Values \subseteq Int /\ -1 \in Values /\ IsFiniteSet(Values)
ASSUME TolerancesAssumption == Tolerances \subseteq Int
ASSUME MaxSizeAssumption == MaxSize \in Nat

VARIABLE vec            \* of a Result, or given to removeDuplicates

containersVars == <<vec>>

ContainersTypeOK == vec \in Seq(Values) /\ Len(vec) <= MaxSize

ContainersInit == vec = <<>>

-----------------------------------------------------------------------------
abs(n) == IF n < 0 THEN -n ELSE n

\* Comparisons are with the first element; no element is equal to none.
allEqual(c) == c # <<>> /\ \A i \in DOMAIN c : c[i] = c[1]

allEqualWithTol(c, tol) ==
    c # <<>> /\ \A i \in DOMAIN c : abs(c[i] - c[1]) < tol

allEqualTo(c, value) == c # <<>> /\ \A i \in DOMAIN c : c[i] = value
allEqualToWithTol(c, value, tol) ==
    c # <<>> /\ \A i \in DOMAIN c : abs(c[i] - value) < tol

anyEqualTo(c, value) == \E i \in DOMAIN c : c[i] = value
anyEqualToWithTol(c, value, tol) == \E i \in DOMAIN c : abs(c[i] - value) < tol

minusOneIfDifferent(c) == IF allEqual(c) THEN c[1] ELSE -1

\* Mutant: the first element if there is one.
MutSquash(c, default) == IF c # <<>> THEN c[1] ELSE default

Squash(c, default) ==
    IF c # <<>> /\ \A i \in DOMAIN c : c[i] = c[1] THEN c[1] ELSE default

\* Result::tsquash, with exception for what it throws.
tsquash(c, exception) == IF allEqual(c) THEN c[1] ELSE exception

contains_only(c, values) ==
    \A i \in DOMAIN c :
        Cardinality({j \in DOMAIN values : values[j] = c[i]}) # 0

\* A Result<bool> made of integers.
AsBool(c) == [i \in DOMAIN c |-> c[i] # 0]

-----------------------------------------------------------------------------
\* Where an element goes: behind the smaller ones, and behind its equals that
\* come before it.
Place(c, i) ==
    Cardinality({j \in DOMAIN c : c[j] < c[i] \/ (c[j] = c[i] /\ j <= i)})

Sorted(c) == [p \in DOMAIN c |-> c[CHOOSE i \in DOMAIN c : Place(c, i) = p]]

\* std::adjacent_find after the copy was sorted.
hasDuplicates(c) ==
    LET s == Sorted(c) IN \E i \in 2 .. Len(s) : s[i] = s[i - 1]

Nth(S, n) == CHOOSE i \in S : Cardinality({j \in S : j <= i}) = n

\* std::unique on the sorted elements: those unlike the one before.
Kept(s) == {i \in DOMAIN s : i = 1 \/ s[i] # s[i - 1]}
UniqueSorted(c) ==
    LET s == Sorted(c)
    IN  [n \in 1 .. Cardinality(Kept(s)) |-> s[Nth(Kept(s), n)]]

\* It also tells whether the length has changed.
removeDuplicates == vec' = UniqueSorted(vec)

push_back(value) ==
    /\ Len(vec) < MaxSize
    /\ vec' = Append(vec, value)

ContainersNext == removeDuplicates \/ \E value \in Values : push_back(value)

ContainersSpec == ContainersInit /\ [][ContainersNext]_containersVars

-----------------------------------------------------------------------------
Elements == {vec[i] : i \in DOMAIN vec}

\* Squashing gives a value of the modules only if all modules have it, and the
\* default value, -1 or the exception if two of them differ or there is none; a
\* value that is itself the default does not tell.
SquashNeedsAgreement ==
    LET one == Cardinality(Elements) = 1
        the == CHOOSE v \in Elements : TRUE
    IN  /\ \A d \in Values : Squash(vec, d) = IF one THEN the ELSE d
        /\ minusOneIfDifferent(vec) = IF one THEN the ELSE -1
        /\ tsquash(vec, "thrown") = IF one THEN the ELSE "thrown"

\* Elements equal up to a tolerance differ from each other by less than twice
\* that much, and those that differ by less than it are found equal, whichever
\* is first; nothing is equal with a tolerance of 0.
ToleranceBoundsSpread ==
    \A tol \in Tolerances :
        LET equal == allEqualWithTol(vec, tol)
        IN  /\ equal => /\ tol > 0
                        /\ \A v, w \in Elements : v - w < 2 * tol - 1
            /\ vec # <<>> /\ (\A v, w \in Elements : v - w < tol) => equal
            /\ \A v \in Values :
                /\ allEqualToWithTol(vec, v, tol) =>
                        anyEqualToWithTol(vec, v, tol)
                /\ allEqualToWithTol(vec, v, 1) <=> allEqualTo(vec, v)
                /\ anyEqualToWithTol(vec, v, 1) <=> anyEqualTo(vec, v)

\* Duplicates are found wherever they stand; removing them leaves each element
\* once, in ascending order, and tells whether there was one.
DuplicatesAreFound ==
    LET unique == UniqueSorted(vec)
    IN  /\ Range(unique) = Elements /\ Len(unique) = Cardinality(Elements)
        /\ \A i \in 2 .. Len(unique) : unique[i - 1] < unique[i]
        /\ hasDuplicates(vec) <=> Len(unique) # Len(vec)

\* Made booleans, modules that agree still do, and integers of which only some
\* are zero never do.
BooleansAgree ==
    /\ allEqual(vec) => allEqual(AsBool(vec))
    /\ allEqual(AsBool(vec)) =>
            allEqualTo(vec, 0) \/ contains_only(vec, SetToSeq(Values \ {0}))

\* What the driver is told of several modules is what they have in common: no
\* disagreement is taken for a value, whichever module comes first.
ContainersAgree ==
    /\ SquashNeedsAgreement /\ ToleranceBoundsSpread
    /\ DuplicatesAreFound /\ BooleansAgree
=============================================================================

--------------------------- MODULE DetectorModule ---------------------------
(***************************************************************************)
(* sls_detector_module: the settings of a module with its two arrays, the  *)
(* DAC values and the channel registers, which the object owns through raw *)
(* pointers.  Modules are constructed by default or for a detector type,   *)
(* copied, assigned, written and destroyed; an allocation may throw at any *)
(* of them.                                                                *)
(***************************************************************************)
EXTENDS Naturals, FiniteSets, FiniteSetsExt

CONSTANTS
    Holders,          \* of variables that may hold a module
    Arrays,         \* that the heap has room for, numbered
    Contents,       \* of an array
    Tried,          \* bound: detector types that modules are constructed for
    none, free,     \* no module, no array
    null, dangling, \* pointers to nothing and to an array deleted since
    unset           \* content never written

ASSUME HoldersAssumption ==
    IsFiniteSet(Holders) /\ IsFiniteSet(Arrays) /\ Arrays \subseteq Nat
ASSUME PointersAssumption ==
    null # dangling /\ {null, dangling} \cap Arrays = {}
ASSUME ContentsAssumption == unset \notin Contents

VARIABLES
    module,         \* the object of each name
    heap,           \* length and content of the arrays
    outOfMemory     \* history: an allocation has thrown in an assignment or a
                    \* copy

moduleVars == <<module, heap, outOfMemory>>

-----------------------------------------------------------------------------
DetectorTypes == {"GENERIC", "EIGER", "GOTTHARD", "JUNGFRAU", "CHIPTESTBOARD",
          "MOENCH", "MYTHEN3", "GOTTHARD2", "XILINX_CHIPTESTBOARD"}

\* Channels of a chip, chips of a module and DACs.
detParameters(type) ==
    LET p(x, y, cx, cy, dacs) == [nchan |-> x * y * cx * cy, nchip |-> cx * cy,
                                  ndac |-> dacs]
    IN  CASE type = "MOENCH"    -> p(400, 400, 1, 1, 8)
          [] type = "JUNGFRAU"  -> p(256, 256, 4, 2, 8)
          [] type = "EIGER"     -> p(256, 256, 4, 1, 16)
          [] type = "MYTHEN3"   -> p(128 * 3, 1, 10, 1, 16)
          [] type = "GOTTHARD2" -> p(128, 1, 10, 1, 14)
          [] OTHER              -> p(36, 1, 1, 1, 24)

\* Throws for the others.
Known == (DetectorTypes \ {"GENERIC", "GOTTHARD"}) \cap Tried

Pointers == Arrays \cup {null, dangling}
Sizes == [nchan |-> 0, nchip |-> 0, ndac |-> 0]
Objects == [sizes : {Sizes} \cup {detParameters(t) : t \in Known},
            dacs : Pointers, chanregs : Pointers]
Lengths == {0} \cup {detParameters(t).ndac : t \in Known}
               \cup {detParameters(t).nchan : t \in Known}
Data == [length : Lengths, content : Contents \cup {unset}]

ASSUME NothingAssumption == none \notin Objects /\ free \notin Data

Live == {n \in Holders : module[n] # none}
Free(h) == {a \in Arrays : h[a] = free}
Owned(n) == {module[n].dacs, module[n].chanregs} \ {null, dangling}

ModuleTypeOK ==
    /\ \A n \in Holders : module[n] = none \/ module[n] \in Objects
    /\ \A a \in Arrays : heap[a] = free \/ heap[a] \in Data
    /\ outOfMemory \in BOOLEAN

ModuleInit ==
    /\ module = [n \in Holders |-> none]
    /\ heap = [a \in Arrays |-> free]
    /\ outOfMemory = FALSE

-----------------------------------------------------------------------------
\* heap h without the arrays in dead.
Deleted(h, dead) == [a \in Arrays |-> IF a \in dead THEN free ELSE h[a]]

\* heap h with a new array.
WithArray(h, a, length, content) ==
    [h EXCEPT ![a] = [length |-> length, content |-> content]]

\* The array that new finds in heap h.  Which one it is the code cannot tell.
New(h) == {a \in Free(h) : a = Min(Free(h))}

ContentOf(h, a) == IF a = null THEN unset ELSE h[a].content

Construct(n) ==
    /\ n \notin Live
    /\ module' = [module EXCEPT ![n] =
            [sizes |-> Sizes, dacs |-> null, chanregs |-> null]]
    /\ UNCHANGED <<heap, outOfMemory>>

\* The arrays are not initialised.  If the second cannot be had, the destructor
\* frees the first and nothing has happened.
ConstructFor(n, type) ==
    /\ n \notin Live /\ type \in Known
    /\ LET sizes == detParameters(type)
       IN  \E a \in New(heap) :
           \E b \in New(WithArray(heap, a, sizes.ndac, unset)) :
            /\ module' = [module EXCEPT ![n] =
                    [sizes |-> sizes, dacs |-> a, chanregs |-> b]]
            /\ heap' = WithArray(WithArray(heap, a, sizes.ndac, unset),
                                 b, sizes.nchan, unset)
    /\ UNCHANGED outOfMemory

\* The arrays that an assignment to n deletes first.
Dead(n) == IF n \in Live THEN Owned(n) ELSE {}

\* Mutant: the pointers are copied.
MutAssigned(n, m) ==
    /\ module' = [module EXCEPT ![n] = module[m]]
    /\ heap' = Deleted(heap, IF n = m THEN {} ELSE Dead(n))

\* n gets copies of the arrays of m.  If n is m, the arrays copied are those
\* that have just been allocated.
Assigned(n, m) ==
    LET from  == Deleted(heap, Dead(n))
        sizes == module[m].sizes
        content(p) == IF n = m THEN unset ELSE ContentOf(heap, p)
        first(a) == WithArray(from, a, sizes.ndac, content(module[m].dacs))
    IN  \E a \in New(from) : \E b \in New(first(a)) :
            /\ module' = [module EXCEPT ![n] =
                    [sizes |-> sizes, dacs |-> a, chanregs |-> b]]
            /\ heap' = WithArray(first(a), b, sizes.nchan,
                                 content(module[m].chanregs))

\* It is undefined to delete or to read what a dangling pointer points to.
Usable(n) == dangling \notin {module[n].dacs, module[n].chanregs}

Assign(n, m) ==
    /\ n \in Live /\ m \in Live /\ Usable(n) /\ Usable(m)
    /\ Assigned(n, m)
    /\ UNCHANGED outOfMemory

CopyConstruct(n, m) ==
    /\ n \notin Live /\ m \in Live /\ Usable(m)
    /\ Assigned(n, m)
    /\ UNCHANGED outOfMemory

\* An allocation throws after both arrays are deleted: the first one, or the
\* second one.
AssignFails(n, m) ==
    /\ n \in Live /\ m \in Live /\ Usable(n) /\ Usable(m)
    /\ LET from  == Deleted(heap, Dead(n))
           sizes == module[m].sizes
           content == IF n = m THEN unset ELSE ContentOf(heap, module[m].dacs)
           dead(p) == IF p = null THEN null ELSE dangling
       IN  \/ /\ module' = [module EXCEPT ![n] =
                    [sizes |-> sizes, dacs |-> dead(@.dacs),
                     chanregs |-> dead(@.chanregs)]]
              /\ heap' = from
           \/ \E a \in New(from) :
                /\ module' = [module EXCEPT ![n] =
                        [sizes |-> sizes, dacs |-> a,
                         chanregs |-> dead(@.chanregs)]]
                /\ heap' = WithArray(from, a, sizes.ndac, content)
    /\ outOfMemory' = TRUE

\* The second allocation throws and the object does not come to be, nor does
\* anything free the first one.
CopyFails(n, m) ==
    /\ n \notin Live /\ m \in Live /\ Usable(m)
    /\ \E a \in New(heap) :
        heap' = WithArray(heap, a, module[m].sizes.ndac,
                          ContentOf(heap, module[m].dacs))
    /\ outOfMemory' = TRUE
    /\ UNCHANGED module

\* Its user writes the DAC values or the channel registers.
WriteArray(n, content) ==
    /\ n \in Live /\ Usable(n)
    /\ \E a \in Owned(n) :
        /\ heap[a].length > 0
        /\ heap' = [heap EXCEPT ![a].content = content]
    /\ UNCHANGED <<module, outOfMemory>>

Destroy(n) ==
    /\ n \in Live /\ Usable(n)
    /\ heap' = Deleted(heap, Owned(n))
    /\ module' = [module EXCEPT ![n] = none]
    /\ UNCHANGED outOfMemory

ModuleNext ==
    \E n \in Holders :
        \/ Construct(n) \/ Destroy(n)
        \/ \E type \in DetectorTypes : ConstructFor(n, type)
        \/ \E content \in Contents : WriteArray(n, content)
        \/ \E m \in Holders :
            \/ Assign(n, m) \/ AssignFails(n, m)
            \/ CopyConstruct(n, m) \/ CopyFails(n, m)

ModuleSpec == ModuleInit /\ [][ModuleNext]_moduleVars

-----------------------------------------------------------------------------
\* No two pointers share an array and none that is not dangling points to a
\* deleted one; as long as no allocation has thrown none dangles and no array
\* is left without a pointer (operator=, the constructors and the destructor).
EachArrayHasOneOwner ==
    /\ \A a \in Arrays :
        LET owners == Cardinality({n \in Live : module[n].dacs = a})
                        + Cardinality({n \in Live : module[n].chanregs = a})
        IN  IF heap[a] = free THEN owners = 0
            ELSE owners = 1 \/ (outOfMemory /\ owners = 0)
    /\ ~outOfMemory => \A n \in Live : Usable(n)

\* A module that can be used has as many values as its sizes say, whatever it
\* was assigned and whichever allocation threw (operator=).
LengthsAreSizes ==
    \A n \in Live : Usable(n) =>
        /\ module[n].dacs # null =>
                heap[module[n].dacs].length = module[n].sizes.ndac
        /\ module[n].chanregs # null =>
                heap[module[n].chanregs].length = module[n].sizes.nchan
        /\ ~outOfMemory /\ null \in {module[n].dacs, module[n].chanregs} =>
                module[n].sizes = Sizes

\* Modules that were copied, assigned and destroyed in any order have arrays of
\* their own, as long as they say.
ArraysAreOwned == EachArrayHasOneOwner /\ LengthsAreSizes
=============================================================================

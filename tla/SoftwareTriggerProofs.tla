----------------------- MODULE SoftwareTriggerProofs ------------------------
(***************************************************************************)
(* The safety properties of SoftwareTrigger, for any set of clients, any   *)
(* number of triggers per run and any bound on the history counter.        *)
(***************************************************************************)
EXTENDS SoftwareTrigger, TLAPS

\* 1 for what is the case, 0 for what is not.
Ind(b) == IF b THEN 1 ELSE 0

\* A trigger not yet taken up and the one being sent are both owed.
DebtInv == debt >= Ind(event) + Ind(pc = "sending")

\* What set the parameter is still on its way.
FlagInv == flag = 1 => event \/ pc \in {"sending", "clear"} \/ portPc = "set"

\* One client that waits goes through write, sending and clearing in turn.
TurnInv ==
    OneClient =>
        /\ debt = Ind(event) + Ind(pc = "sending")
        /\ event => pc = "wait"
        /\ portPc = "set" => ~event /\ pc = "wait"
        /\ portPc \in {"set", "signalled"} => waiting # {}
        /\ waiting = {} => ~event /\ pc = "wait"

IInv == TypeOK /\ EventStandsForAsked /\ DebtInv /\ FlagInv /\ TurnInv

LEMMA InitInv == Init => IInv
<1> SUFFICES ASSUME Init PROVE IInv
    OBVIOUS
<1>1. event \in BOOLEAN /\ ~event
    BY Zenon DEF Init
<1> QED
    BY <1>1, CyclesAssumption, MaxDebtAssumption
       DEF Init, IInv, TypeOK, EventStandsForAsked, DebtInv, FlagInv, TurnInv, Ind

\* The steps preserve the types; a debt is there to be counted down.
LEMMA TypeStep == IInv /\ [Next]_vars => TypeOK'
<1> SUFFICES ASSUME IInv, [Next]_vars PROVE TypeOK'
    OBVIOUS
<1> USE CyclesAssumption, MaxDebtAssumption, ValuesAssumption DEF IInv, TypeOK
<1>1. ASSUME NEW c \in Clients, NEW v \in Values, WriteBegins(c, v) PROVE TypeOK'
    BY <1>1 DEF WriteBegins, taskVars
<1>2. CASE WriteSignals
    BY <1>2 DEF WriteSignals
<1>3. CASE HandlerEnds
    BY <1>3 DEF HandlerEnds, taskVars, clientVars
<1>4. CASE OtherBegins
    BY <1>4 DEF OtherBegins, taskVars, clientVars
<1>5. CASE Wake
    BY <1>5 DEF Wake, portVars
<1>6. CASE SendReturns
    BY <1>6 DEF SendReturns, portVars, clientVars, DebtInv, Ind
<1>7. CASE SendThrows
    BY <1>7 DEF SendThrows, portVars, clientVars, DebtInv, Ind
<1>8. CASE Clear
    BY <1>8 DEF Clear, portVars
<1>9. CASE RunBegins
    BY <1>9 DEF RunBegins, taskVars, portVars, clientVars
<1>10. CASE UNCHANGED vars
    BY <1>10 DEF vars, taskVars, portVars, clientVars
<1> QED
    BY <1>1, <1>2, <1>3, <1>4, <1>5, <1>6, <1>7, <1>8, <1>9, <1>10
       DEF Next, HandlerStep, SendEnds

\* The event and the set of those who asked are changed together.
LEMMA AskedStep == IInv /\ [Next]_vars => EventStandsForAsked'
<1> SUFFICES ASSUME IInv, [Next]_vars PROVE EventStandsForAsked'
    OBVIOUS
<1> USE DEF IInv, EventStandsForAsked
<1>1. CASE WriteSignals
    BY <1>1 DEF WriteSignals
<1>2. CASE Wake
    BY <1>2 DEF Wake
<1>3. CASE UNCHANGED <<event, asked>>
    BY <1>3
<1> QED
    BY <1>1, <1>2, <1>3
       DEF Next, HandlerStep, SendEnds, WriteBegins, HandlerEnds, OtherBegins,
           SendReturns, SendThrows, Clear, RunBegins, vars, taskVars, clientVars

\* The debt covers the trigger just signalled even where its count is capped.
LEMMA DebtStep == IInv /\ [Next]_vars => DebtInv'
<1> SUFFICES ASSUME IInv, [Next]_vars PROVE DebtInv'
    OBVIOUS
<1> USE MaxDebtAssumption DEF IInv, TypeOK, DebtInv, Ind
<1>1. CASE WriteSignals
    BY <1>1 DEF WriteSignals
<1>2. CASE Wake
    BY <1>2 DEF Wake
<1>3. CASE SendEnds
    BY <1>3 DEF SendEnds, SendReturns, SendThrows
<1>4. CASE Clear
    BY <1>4 DEF Clear
<1>5. CASE UNCHANGED <<taskVars, debt>>
    BY <1>5 DEF taskVars
<1> QED
    BY <1>1, <1>2, <1>3, <1>4, <1>5
       DEF Next, HandlerStep, WriteBegins, HandlerEnds, OtherBegins, RunBegins,
           vars, taskVars

\* The parameter is cleared before the task waits again, and only the handler
\* that is about to signal sets it.
LEMMA FlagStep == IInv /\ [Next]_vars => FlagInv'
<1> SUFFICES ASSUME IInv, [Next]_vars PROVE FlagInv'
    OBVIOUS
<1> USE DEF IInv, TypeOK, FlagInv
<1>1. ASSUME NEW c \in Clients, NEW v \in Values, WriteBegins(c, v) PROVE FlagInv'
    BY <1>1 DEF WriteBegins
<1>2. CASE WriteSignals
    BY <1>2 DEF WriteSignals
<1>3. CASE HandlerEnds
    BY <1>3 DEF HandlerEnds, taskVars
<1>4. CASE OtherBegins
    BY <1>4 DEF OtherBegins, taskVars
<1>5. CASE Wake
    BY <1>5 DEF Wake, portVars
<1>6. CASE SendEnds
    BY <1>6 DEF SendEnds, SendReturns, SendThrows
<1>7. CASE Clear
    BY <1>7 DEF Clear
<1>8. CASE RunBegins
    BY <1>8 DEF RunBegins, taskVars, portVars
<1>9. CASE UNCHANGED vars
    BY <1>9 DEF vars, taskVars, portVars
<1> QED
    BY <1>1, <1>2, <1>3, <1>4, <1>5, <1>6, <1>7, <1>8, <1>9
       DEF Next, HandlerStep

\* A client that waits keeps its turn: it writes only when nothing is owed.
LEMMA TurnStep == IInv /\ [Next]_vars => TurnInv'
<1> SUFFICES ASSUME IInv, [Next]_vars, OneClient PROVE TurnInv'
    BY DEF TurnInv, OneClient
<1> USE MaxDebtAssumption, ValuesAssumption DEF IInv, TypeOK, TurnInv, Ind
<1>1. ASSUME NEW c \in Clients, NEW v \in Values, WriteBegins(c, v) PROVE TurnInv'
  <2>1. waiting = {}
      BY <1>1 DEF WriteBegins, OneClient
  <2>2. v = 1 /\ waiting' # {}
      BY <1>1 DEF WriteBegins, OneClient
  <2> QED
      BY <1>1, <2>1, <2>2 DEF WriteBegins, taskVars
<1>2. CASE WriteSignals
    BY <1>2 DEF WriteSignals
<1>3. CASE HandlerEnds
    BY <1>3 DEF HandlerEnds, taskVars, clientVars
<1>4. CASE OtherBegins
    BY <1>4 DEF OtherBegins, taskVars, clientVars
<1>5. CASE Wake
    BY <1>5 DEF Wake, portVars
<1>6. CASE SendEnds
    BY <1>6 DEF SendEnds, SendReturns, SendThrows, portVars, clientVars
<1>7. CASE Clear
    BY <1>7 DEF Clear, portVars
<1>8. CASE RunBegins
    BY <1>8 DEF RunBegins, taskVars, portVars, clientVars
<1>9. CASE UNCHANGED vars
    BY <1>9 DEF vars, taskVars, portVars, clientVars
<1> QED
    BY <1>1, <1>2, <1>3, <1>4, <1>5, <1>6, <1>7, <1>8, <1>9
       DEF Next, HandlerStep

\* The conjuncts together are an invariant.
LEMMA Inductive == Spec => []IInv
<1>1. IInv /\ [Next]_vars => IInv'
    BY TypeStep, AskedStep, DebtStep, FlagStep, TurnStep DEF IInv
<1> QED
    BY InitInv, <1>1, PTL DEF Spec

\* Every variable is of its type, with any number of clients.
THEOREM Types == Spec => []TypeOK
<1>1. IInv => TypeOK
    BY DEF IInv
<1> QED
    BY Inductive, <1>1, PTL

\* No trigger is forgotten and none is made up, with any number of clients.
THEOREM NoTriggerForgotten == Spec => []EventStandsForAsked
<1>1. IInv => EventStandsForAsked
    BY DEF IInv
<1> QED
    BY Inductive, <1>1, PTL

\* The busy parameter is never left set with nothing to clear it.
THEOREM FlagIsCleared == Spec => []FlagHasCause
<1>1. IInv => FlagHasCause
    BY DEF IInv, TypeOK, FlagInv, FlagHasCause
<1> QED
    BY Inductive, <1>1, PTL

\* For one client that waits, each trigger is sent once, before it is told.
THEOREM OneClientSentOnce == Spec => []SentOnce
<1>1. IInv => SentOnce
    BY DEF IInv, TypeOK, TurnInv, SentOnce, Ind
<1> QED
    BY Inductive, <1>1, PTL
=============================================================================

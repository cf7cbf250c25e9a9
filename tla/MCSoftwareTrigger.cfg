SPECIFICATION Spec
CONSTANTS
    Clients = {c1, c2}
    Values = {0, 1}
    Cycles = 2
    MaxDebt = 3
INVARIANTS TypeOK EventStandsForAsked FlagHasCause
PROPERTIES TriggerServed BusyEnds

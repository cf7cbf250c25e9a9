SPECIFICATION TriggeredSpec
CONSTANTS
    Clients = {c1}
    Values = {1}
    Cycles = 9
    MaxDebt = 3
INVARIANT SentOnce
PROPERTY RunIsTriggered

SPECIFICATION MCSpec
CONSTANTS
    N = 2
    NumAddr = 3
    Undefined = Undefined
    Values = {v1, v2}
    Counters = {c1, c2}
    Thresholds = {0, 1}
    Energies = {2}
    Settings = {s1, s2}
    Gates = {g1, g2}
    Times = {3, 4}
    Below = {2}
    NoTime = NoTime
    NumModes = 2
SYMMETRY Symmetry
INVARIANTS
    TypesOK AgreeUnlessDisturbed TrueUnlessDisturbed TimesAreTrue
    ReceivingIsShown
PROPERTY ImplementsView

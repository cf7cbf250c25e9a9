SPECIFICATION Spec
CONSTANT MaxIndex = 2
INVARIANTS
    TypeOK
    NoLostStart
    FlagCoversRun
    ExclusiveWhileAsked
    RestingStatusIsTrue
PROPERTIES
    ShutterClosesAtRest
    NameIsOfSavedFile

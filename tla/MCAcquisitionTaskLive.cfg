SPECIFICATION TimedSpec
CONSTANT MaxIndex = 0
PROPERTIES
    StartServed
    ComesToRest
    HandlerReturns
    ImplementsService

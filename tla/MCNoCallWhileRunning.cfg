SPECIFICATION Spec
CONSTANT MaxIndex = 0
INVARIANT NoCallWhileRunning

SPECIFICATION Spec
CONSTANT MaxStarts = 3
INVARIANT StopIsHonest
PROPERTY NoPollAfterRestart
PROPERTY ToldThreadsEnd

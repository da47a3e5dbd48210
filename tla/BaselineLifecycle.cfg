SPECIFICATION Spec
CONSTANTS
    p1 = p1
    p2 = p2
    Participants = {p1, p2}
    TestConfigs = {c1}
    Invocations = {i1}
    Playbooks = {pb}
    NoPlaybook = NoPlaybook
    Requests <- MCRequests
INVARIANTS
    Nested
    SafeToReuse
PROPERTIES
    FailureIsFinal
    ImplementsContract

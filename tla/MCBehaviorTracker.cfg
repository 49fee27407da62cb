\* The agent and one approval thread in one session, a window of one tick,
\* and time for an overlap to leave it.
SPECIFICATION Spec
CONSTANTS
    Sessions = {s1}
    Tools = {"read_file", "write_file", "run_command"}
    Main = main
    ApiThreads = {a1}
    Window = 1
    ReadLimit = 1
    RunLimit = 1
    MaxTime = 3
    MaxCalls = 3
CONSTRAINT FewWrites
CHECK_DEADLOCK FALSE
INVARIANTS
    TypeOK
    CountsAreExact

\* One command, asked for and approved within one window.
SPECIFICATION Spec
CONSTANTS
    Sessions = {s1}
    Tools = {"read_file", "write_file", "run_command"}
    Main = main
    ApiThreads = {a1}
    Window = 1
    ReadLimit = 1
    RunLimit = 1
    MaxTime = 0
    MaxCalls = 3
CHECK_DEADLOCK FALSE
INVARIANT LimitIsOfCalls

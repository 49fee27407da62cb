-------------------------- MODULE MCBehaviorTracker --------------------------
EXTENDS BehaviorTracker

(* The agent's recorded calls of a tool.                                   *)
Asked(tool) ==
    {p \in Sessions \X (1 .. 2 * MaxCalls) :
        /\ p[2] \in DOMAIN recorded[p[1]]
        /\ recorded[p[1]][p[2]].tool = tool /\ ~recorded[p[1]][p[2]].again}

(* Writes are recorded and not counted: one of the agent's and one more    *)
(* when it is approved, in a session without reads, show all they do.      *)
FewWrites ==
    \/ Asked("write_file") = {}
    \/ Cardinality(Asked("write_file")) = 1 /\ Asked("read_file") = {}
=============================================================================

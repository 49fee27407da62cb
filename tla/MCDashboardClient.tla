-------------------------- MODULE MCDashboardClient --------------------------
EXTENDS DashboardClient, TLC

(* Requests and threads are interchangeable; the run checks safety only.   *)
Symmetry == Permutations(Requests) \cup Permutations(Threads)

(* Bound: every request is for the same tool, as the page treats all alike. *)
OneTool == \A r \in Present : requests[r].tool = "run_command"

(* Bound: one abandoned handler at a time; two would leave no thread for   *)
(* the page, which then could only wait.                                   *)
OneAbandoned ==
    Cardinality({t \in Threads : pc[t] # "idle" /\ \A p \in Pages : call[p].thread # t}) <= 1

(* Bound: an exception ends the last call's handler, with its page waiting. *)
FaultsAreTold ==
    faults' # faults =>
        /\ calls = MaxCalls
        /\ \E p \in Pages : page[p].step = "posting" /\ page'[p].step # "posting"

(* Bound: calls come between a request and its payload only for the first  *)
(* request; the second one is for the page to have two rows to choose from. *)
SecondIsWhole == agent.step = "attach" /\ Present = Requests => agent' # agent

(* Reduction: the agent appends its audit events at once.  Nothing the run *)
(* checks reads them, and no other step depends on them.                   *)
AppendsAtOnce == agent.step \in {"log_call", "log_created"} => agent' # agent

(* Reduction: a handler's step that concerns nobody else is taken before   *)
(* any other.  It reads what the handler has read already, or appends an   *)
(* event that nothing here reads; no page waits for it, and no exception   *)
(* can end the handler instead.                                            *)
Unwatched(t) == \A p \in Pages : call[p].thread # t
NoFault(t)   == faults = MaxFaults \/ calls < MaxCalls \/ Unwatched(t)

OwnStep(t) ==
    \/ /\ stage[t] = "ready"
       /\ \/ pc[t] \in {"get", "reject_get"}
          \/ pc[t] = "approve" /\ seen[t] # "pending"
          \/ pc[t] = "mark" /\ seen[t] \notin {"approved", "executed"}
          \/ pc[t] = "list" /\ todo[t] # {id[t]}
    \/ pc[t] \in {"log_approved", "recheck", "log_ran", "log_not_run"} /\ NoFault(t)
    \/ pc[t] \in {"log_refused", "log_executed", "log_rejected"} /\ Unwatched(t)

OwnStepsFirst ==
    (\E t \in Threads : OwnStep(t)) =>
        \E t \in Threads :
            OwnStep(t) /\ <<pc[t], stage[t], id[t]>> # <<pc'[t], stage'[t], id'[t]>>
=============================================================================

-------------------------- MODULE ApprovalWorkflow --------------------------
(***************************************************************************)
(* The approval workflow: InMemoryApprovalStore (approvals/store.py), the  *)
(* handlers of SafeToolService that use it (tools/safe_tools.py), and the  *)
(* threads that run them.  The MCP server handles the agent's tool calls   *)
(* one at a time on the main thread (agent below); the approval API runs   *)
(* each HTTP request on a thread of FastAPI's pool (Threads below), and    *)
(* both share one store, whose dictionaries nothing locks.                 *)
(*                                                                         *)
(* A step is one access to shared state: a read or a write of one of the   *)
(* store's two dictionaries, one audit append, or the operation itself.    *)
(* Reading a request and reading the clock to see whether it has expired   *)
(* are one step: the clock only moves on, so a later reading of it finds   *)
(* nothing that a later step would not.                                    *)
(*                                                                         *)
(* Nothing keeps two threads from being inside a store method at once, so  *)
(* the status a method has read may be out of date when it writes.  raced  *)
(* records the requests that this happened to: a decision taken on a       *)
(* pending request was written over an answer given in between.            *)
(***************************************************************************)
EXTENDS Naturals, FiniteSets, RiskPolicy

CONSTANTS
    Requests,          \* the ids (uuid4) the service will give its requests
    UnknownId,         \* an id the service never gave
    Threads,           \* worker threads of the approval API
    TTL,               \* lifetime of a pending request, in ticks
    MaxTime,           \* bound: the clock stops here
    MaxCalls,          \* bound: approve and reject calls the API receives
    MaxFaults          \* bound: handlers that an unexpected exception ends

ASSUME ConstantsAssumption ==
    /\ UnknownId \notin Requests
    /\ TTL \in Nat /\ MaxTime \in Nat /\ MaxCalls \in Nat /\ MaxFaults \in Nat

(* The pool has a limit.                                                   *)
ASSUME ThreadsAssumption == IsFiniteSet(Threads)

VARIABLES
    now,        \* the wall clock
    requests,   \* InMemoryApprovalStore._requests
    payloads,   \* InMemoryApprovalStore._execution_payloads
    pc,         \* per thread: the next step of its handler
    stage,      \* per thread: how far the _refresh_expiry it is in has come
    id,         \* per thread: the request id it was called with
    seen,       \* per thread: the status it read
    held,       \* per thread: the payload it read
    todo,       \* per thread: ids a listing has still to refresh
    agent,      \* the MCP thread: its next step and the request it creates
    audit,      \* how many events of each kind the audit store has per id
    runs,       \* history: how often each operation was attempted
    late,       \* history: requests answered before their payload was there
    raced,      \* history: requests whose answer a stale decision overwrote
    calls,      \* approve and reject calls received so far
    faults      \* handlers ended by an exception so far

store   == <<requests, payloads>>
handler == <<pc, stage, id, seen, held, todo>>
vars    == <<now, store, handler, agent, audit, runs, late, raced, calls, faults>>

-----------------------------------------------------------------------------
(* Data *)

Ids      == Requests \cup {UnknownId}
Statuses == {"pending", "approved", "rejected", "expired", "executed"}

NoRequest       == [status |-> "missing"]
RequestRecords  == [status : Statuses, tool : ApprovableTools, expires_at : Nat]
NoPayload       == [tool |-> "none"]
PayloadRecords  == [tool : ApprovableTools, fingerprint : Requests \X ApprovableTools]

Events == {"requires_approval", "created", "approved", "refused", "denied",
           "ran", "not_run", "executed", "rejected"}

(* The store methods that begin by refreshing a request, by call site.     *)
RefreshSites == {"get", "approve", "payload", "mark", "reject_get", "reject", "list"}
Locals       == {"log_refused", "log_approved", "recheck", "deny", "log_denied",
                 "execute", "log_ran", "log_not_run", "discard", "mark_drop",
                 "log_executed", "reject_drop", "log_rejected"}
Steps        == {"idle"} \cup RefreshSites \cup Locals
Stages       == {"start", "expire", "drop", "ready"}
AgentSteps   == {"idle", "attach", "log_call", "log_created"}

StoreTypes ==
    /\ requests \in [Requests -> RequestRecords \cup {NoRequest}]
    /\ payloads \in [Requests -> PayloadRecords \cup {NoPayload}]

HandlerTypes ==
    /\ pc \in [Threads -> Steps]
    /\ stage \in [Threads -> Stages]
    /\ id \in [Threads -> Ids]
    /\ seen \in [Threads -> Statuses \cup {"missing"}]
    /\ held \in [Threads -> PayloadRecords \cup {NoPayload}]
    /\ todo \in [Threads -> SUBSET Requests]

OtherTypes ==
    /\ agent \in [step : AgentSteps, id : Ids]
    /\ audit \in [Ids -> [Events -> Nat]]
    /\ runs \in [Requests -> Nat]
    /\ late \in SUBSET Requests
    /\ raced \in SUBSET Requests
    /\ now \in Nat /\ calls \in Nat /\ faults \in Nat

TypeOK == StoreTypes /\ HandlerTypes /\ OtherTypes

Present == {r \in Requests : requests[r] # NoRequest}

StatusOf(i) == IF i \in Requests THEN requests[i].status ELSE "missing"

Init ==
    /\ now = 0
    /\ requests = [r \in Requests |-> NoRequest]
    /\ payloads = [r \in Requests |-> NoPayload]
    /\ pc = [t \in Threads |-> "idle"]
    /\ stage = [t \in Threads |-> "start"]
    /\ id = [t \in Threads |-> UnknownId]
    /\ seen = [t \in Threads |-> "missing"]
    /\ held = [t \in Threads |-> NoPayload]
    /\ todo = [t \in Threads |-> {}]
    /\ agent = [step |-> "idle", id |-> UnknownId]
    /\ audit = [i \in Ids |-> [e \in Events |-> 0]]
    /\ runs = [r \in Requests |-> 0]
    /\ late = {} /\ raced = {}
    /\ calls = 0 /\ faults = 0

-----------------------------------------------------------------------------
(* Store calls *)

\* A request past its time expires whatever its status.
LapsedWhateverStatus(i) ==
    i \in Requests /\ requests[i] # NoRequest /\ requests[i].expires_at <= now

(* _refresh_expiry finds the request pending and its time over.            *)
Lapsed(i) == StatusOf(i) = "pending" /\ requests[i].expires_at <= now

(* The thread's handler goes on at step s, its store call over.            *)
Goto(t, s) ==
    /\ pc' = [pc EXCEPT ![t] = s]
    /\ stage' = [stage EXCEPT ![t] = "start"]

(* The handler returns; what its locals held is gone.                      *)
Return(t) ==
    /\ Goto(t, "idle")
    /\ id' = [id EXCEPT ![t] = UnknownId]
    /\ seen' = [seen EXCEPT ![t] = "missing"]
    /\ held' = [held EXCEPT ![t] = NoPayload]
    /\ todo' = [todo EXCEPT ![t] = {}]

SetStatus(i, s) == requests' = [requests EXCEPT ![i].status = s]

(* History: thread t writes what it decided on the status it has read; by  *)
(* now the request may have another one that this write must not replace.  *)
NoteRace(t, replaced) ==
    raced' = IF StatusOf(id[t]) \in replaced THEN raced ELSE raced \cup {id[t]}

Discard(i) ==
    payloads' = IF i \in Requests THEN [payloads EXCEPT ![i] = NoPayload] ELSE payloads

\* A listing reads the requests without refreshing them.
ListOnlyReads(t) ==
    LET lapsed == Lapsed(id[t]) /\ pc[t] # "list" IN
    /\ pc[t] \in RefreshSites /\ stage[t] = "start"
    /\ seen' = [seen EXCEPT ![t] = StatusOf(id[t])]
    /\ stage' = [stage EXCEPT ![t] = IF lapsed THEN "expire" ELSE "ready"]
    /\ UNCHANGED <<now, store, pc, id, held, todo, agent, audit, runs, late, raced, calls, faults>>

(* _refresh_expiry in three steps: read the request and the clock ...      *)
RefreshRead(t) ==
    /\ pc[t] \in RefreshSites /\ stage[t] = "start"
    /\ seen' = [seen EXCEPT ![t] = StatusOf(id[t])]
    /\ stage' = [stage EXCEPT ![t] = IF Lapsed(id[t]) THEN "expire" ELSE "ready"]
    /\ UNCHANGED <<now, store, pc, id, held, todo, agent, audit, runs, late, raced, calls, faults>>

(* ... if it lapsed, store it as expired ...                               *)
RefreshExpire(t) ==
    /\ stage[t] = "expire"
    /\ SetStatus(id[t], "expired")
    /\ NoteRace(t, {seen[t], "expired"})
    /\ seen' = [seen EXCEPT ![t] = "expired"]
    /\ stage' = [stage EXCEPT ![t] = "drop"]
    /\ UNCHANGED <<now, payloads, pc, id, held, todo, agent, audit, runs, late, calls, faults>>

(* ... and drop its payload.                                               *)
RefreshDrop(t) ==
    /\ stage[t] = "drop"
    /\ Discard(id[t])
    /\ stage' = [stage EXCEPT ![t] = "ready"]
    /\ UNCHANGED <<now, requests, pc, id, seen, held, todo, agent, audit, runs, late, raced, calls, faults>>

(* The refresh of call site s is done and the method goes on from there.   *)
Refreshed(t, s) == pc[t] = s /\ stage[t] = "ready"

-----------------------------------------------------------------------------
(* The audit store, and exceptions: one that ends a handler makes the API  *)
(* answer 500; what the handler did before stays done.                     *)

Logged(i, e) == audit' = [audit EXCEPT ![i][e] = @ + 1]

Append(t, step, e, next) ==
    /\ pc[t] = step
    /\ Logged(id[t], e)
    /\ IF next = "idle"
       THEN Return(t)
       ELSE Goto(t, next) /\ UNCHANGED <<id, seen, held, todo>>
    /\ UNCHANGED <<now, store, agent, runs, late, raced, calls, faults>>

(* An exception nobody catches ends the handler: an append fails, a path   *)
(* cannot be resolved when the call is scored again or about to run.       *)
HandlerRaises(t) ==
    /\ pc[t] \in {"log_refused", "log_approved", "log_denied", "log_ran", "log_not_run",
                  "log_executed", "log_rejected", "recheck", "execute"}
    /\ faults < MaxFaults
    /\ faults' = faults + 1
    /\ Return(t)
    /\ UNCHANGED <<now, store, agent, audit, runs, late, raced, calls>>

-----------------------------------------------------------------------------
(* POST /approvals/<id>/approve: SafeToolService.approve_request           *)

(* The operator may name any request the store has, or an id it never had. *)
Callable == Present \cup {UnknownId}

Receive(t, step) ==
    /\ pc[t] = "idle"
    /\ calls < MaxCalls
    /\ calls' = calls + 1
    /\ \E i \in Callable : id' = [id EXCEPT ![t] = i]
    /\ Goto(t, step)
    /\ UNCHANGED <<now, store, seen, held, todo, agent, audit, runs, late, raced, faults>>

ReceiveApprove(t) == Receive(t, "get")

(* approval_store.get, for the session id of the audit span *)
GetReturns(t) ==
    /\ Refreshed(t, "get")
    /\ Goto(t, "approve")
    /\ UNCHANGED <<now, store, id, seen, held, todo, agent, audit, runs, late, raced, calls, faults>>

\* The status is not looked at: what was answered can be approved again.
ApproveAnythingPresent(t) ==
    /\ Refreshed(t, "approve") /\ seen[t] # "missing"
    /\ SetStatus(id[t], "approved")
    /\ NoteRace(t, {seen[t]})
    /\ Goto(t, "log_approved")
    /\ UNCHANGED <<now, payloads, id, seen, held, todo, agent, audit, runs, late, calls, faults>>

(* approval_store.approve, once _pending_request_or_raise has returned     *)
ApproveWrite(t) ==
    /\ Refreshed(t, "approve") /\ seen[t] = "pending"
    /\ SetStatus(id[t], "approved")
    /\ NoteRace(t, {seen[t]})
    /\ Goto(t, "log_approved")
    /\ UNCHANGED <<now, payloads, id, seen, held, todo, agent, audit, runs, late, calls, faults>>

\* Approving what is approved already goes on as if it had just been.
ApproveAgain(t) ==
    /\ Refreshed(t, "approve") /\ seen[t] # "pending"
    /\ Goto(t, IF seen[t] = "approved" THEN "payload" ELSE "log_refused")
    /\ UNCHANGED <<now, store, id, seen, held, todo, agent, audit, runs, late, raced, calls, faults>>

(* ... or has raised: not found, or not pending                            *)
ApproveRefused(t) ==
    /\ Refreshed(t, "approve") /\ seen[t] # "pending"
    /\ Goto(t, "log_refused")
    /\ UNCHANGED <<now, store, id, seen, held, todo, agent, audit, runs, late, raced, calls, faults>>

(* approval_store.get_execution_payload *)
GetPayload(t) ==
    /\ Refreshed(t, "payload")
    /\ held' = [held EXCEPT ![t] = payloads[id[t]]]
    /\ Goto(t, "recheck")
    /\ UNCHANGED <<now, store, id, seen, todo, agent, audit, runs, late, raced, calls, faults>>

(* The payload is there, is for the reviewed tool, and its fingerprint is  *)
(* that of this request id, tool and arguments.                            *)
PayloadMatches(i, p) ==
    /\ p # NoPayload
    /\ p.tool = requests[i].tool
    /\ p.fingerprint = <<i, p.tool>>

\* A missing payload ends the handler without a denial.
SilentRecheck(t) ==
    /\ pc[t] = "recheck"
    /\ IF PayloadMatches(id[t], held[t])
       THEN Goto(t, "execute") /\ UNCHANGED <<id, seen, held, todo>>
       ELSE Return(t)
    /\ UNCHANGED <<now, store, agent, audit, runs, late, raced, calls, faults>>

(* Score and review the call again; a write's boundary is checked again.   *)
(* The operation may go on unless the decision is now block or the path    *)
(* now leaves the workspace.                                               *)
Recheck(t) ==
    /\ pc[t] = "recheck"
    /\ \/ ~PayloadMatches(id[t], held[t]) /\ Goto(t, "deny")
       \/ /\ PayloadMatches(id[t], held[t])
          /\ \E decision \in RecheckDecisions(held[t].tool), outside \in BOOLEAN :
                Goto(t, IF decision = "block" \/ (held[t].tool = "write_file" /\ outside)
                        THEN "deny" ELSE "execute")
    /\ UNCHANGED <<now, store, id, seen, held, todo, agent, audit, runs, late, raced, calls, faults>>

\* A denied request goes back to pending, for another try.
DenyReopens(t) ==
    /\ pc[t] = "deny"
    /\ SetStatus(id[t], "pending")
    /\ Goto(t, "log_denied")
    /\ UNCHANGED <<now, payloads, id, seen, held, todo, agent, audit, runs, late, raced, calls, faults>>

\* The payload stays when execution is denied.
KeepPayloadOnDeny(t) ==
    /\ pc[t] = "deny"
    /\ Goto(t, "log_denied")
    /\ UNCHANGED <<now, store, id, seen, held, todo, agent, audit, runs, late, raced, calls, faults>>

(* _approval_execution_denied_result *)
Deny(t) ==
    /\ pc[t] = "deny"
    /\ Discard(id[t])
    /\ Goto(t, "log_denied")
    /\ UNCHANGED <<now, requests, id, seen, held, todo, agent, audit, runs, late, raced, calls, faults>>

\* An operation that ended in an error is taken for one that never ran.
FailedAttemptUntold(t) ==
    /\ pc[t] = "execute"
    /\ runs' = [runs EXCEPT ![id[t]] = @ + 1]
    /\ \E step \in {"log_ran", "log_not_run"} : Goto(t, step)
    /\ UNCHANGED <<now, store, id, seen, held, todo, agent, audit, late, raced, calls, faults>>

(* _execute_write_file, _execute_run_command: the operation was attempted, *)
(* whether it succeeded or ended in an error the handler reports.          *)
Attempt(t) ==
    /\ pc[t] = "execute"
    /\ runs' = [runs EXCEPT ![id[t]] = @ + 1]
    /\ Goto(t, "log_ran")
    /\ UNCHANGED <<now, store, id, seen, held, todo, agent, audit, late, raced, calls, faults>>

(* The operation was attempted and an exception no handler catches comes   *)
(* out of it: output that is no UTF-8 (UnicodeDecodeError out of           *)
(* subprocess.run), content that cannot be encoded (write_text).           *)
AttemptRaises(t) ==
    /\ pc[t] = "execute"
    /\ faults < MaxFaults
    /\ runs' = [runs EXCEPT ![id[t]] = @ + 1]
    /\ faults' = faults + 1
    /\ Return(t)
    /\ UNCHANGED <<now, store, agent, audit, late, raced, calls>>

(* A setup error: an empty command, a path that leaves the workspace now.  *)
SetupError(t) ==
    /\ pc[t] = "execute"
    /\ Goto(t, "log_not_run")
    /\ UNCHANGED <<now, store, id, seen, held, todo, agent, audit, runs, late, raced, calls, faults>>

\* What was not attempted is marked executed like what was.
MarkUnrun(t) ==
    /\ pc[t] = "discard"
    /\ Goto(t, "mark")
    /\ UNCHANGED <<now, store, id, seen, held, todo, agent, audit, runs, late, raced, calls, faults>>

(* Not attempted: discard_execution_payload, and the handler returns.      *)
DiscardUnrun(t) ==
    /\ pc[t] = "discard"
    /\ Discard(id[t])
    /\ Return(t)
    /\ UNCHANGED <<now, requests, agent, audit, runs, late, raced, calls, faults>>

(* approval_store.mark_executed; a status other than this thread's own     *)
(* approval is one that raced with it already.                             *)
MarkWrite(t) ==
    /\ Refreshed(t, "mark") /\ seen[t] \in {"approved", "executed"}
    /\ SetStatus(id[t], "executed")
    /\ Goto(t, "mark_drop")
    /\ UNCHANGED <<now, payloads, id, seen, held, todo, agent, audit, runs, late, raced, calls, faults>>

MarkDrop(t) ==
    /\ pc[t] = "mark_drop"
    /\ Discard(id[t])
    /\ Goto(t, "log_executed")
    /\ UNCHANGED <<now, requests, id, seen, held, todo, agent, audit, runs, late, raced, calls, faults>>

(* mark_executed raises, and approve_request swallows it.                  *)
MarkRefused(t) ==
    /\ Refreshed(t, "mark") /\ seen[t] \notin {"approved", "executed"}
    /\ Goto(t, "log_executed")
    /\ UNCHANGED <<now, store, id, seen, held, todo, agent, audit, runs, late, raced, calls, faults>>

ApproveAppends(t) ==
    \/ Append(t, "log_refused", "refused", "idle")
    \/ Append(t, "log_approved", "approved", "payload")
    \/ Append(t, "log_denied", "denied", "idle")
    \/ Append(t, "log_ran", "ran", "mark")
    \/ Append(t, "log_not_run", "not_run", "discard")
    \/ Append(t, "log_executed", "executed", "idle")

-----------------------------------------------------------------------------
(* POST /approvals/<id>/reject: SafeToolService.reject_request             *)

ReceiveReject(t) == Receive(t, "reject_get")

RejectGetReturns(t) ==
    /\ Refreshed(t, "reject_get")
    /\ Goto(t, "reject")
    /\ UNCHANGED <<now, store, id, seen, held, todo, agent, audit, runs, late, raced, calls, faults>>

\* An approved request can still be rejected.
RejectApprovedToo(t) ==
    /\ Refreshed(t, "reject") /\ seen[t] \in {"pending", "approved"}
    /\ SetStatus(id[t], "rejected")
    /\ NoteRace(t, {seen[t]})
    /\ Goto(t, "reject_drop")
    /\ UNCHANGED <<now, payloads, id, seen, held, todo, agent, audit, runs, late, calls, faults>>

(* approval_store.reject, pending request found *)
RejectWrite(t) ==
    /\ Refreshed(t, "reject") /\ seen[t] = "pending"
    /\ SetStatus(id[t], "rejected")
    /\ NoteRace(t, {seen[t]})
    /\ Goto(t, "reject_drop")
    /\ UNCHANGED <<now, payloads, id, seen, held, todo, agent, audit, runs, late, calls, faults>>

RejectDrop(t) ==
    /\ pc[t] = "reject_drop"
    /\ Discard(id[t])
    /\ Goto(t, "log_rejected")
    /\ UNCHANGED <<now, requests, id, seen, held, todo, agent, audit, runs, late, raced, calls, faults>>

(* It raises ApprovalStoreError, which the endpoint maps to 404 or 409.    *)
RejectRefused(t) ==
    /\ Refreshed(t, "reject") /\ seen[t] # "pending"
    /\ Return(t)
    /\ UNCHANGED <<now, store, agent, audit, runs, late, raced, calls, faults>>

RejectAppends(t) == Append(t, "log_rejected", "rejected", "idle")

-----------------------------------------------------------------------------
(* GET /approvals/pending: approval_store.list_pending.  It refreshes      *)
(* every request it has the id of, and answers with those still pending;   *)
(* the answer changes nothing, so no action is needed for it.              *)

ListFrom(t, s) ==
    /\ todo' = [todo EXCEPT ![t] = s]
    /\ \E r \in s : id' = [id EXCEPT ![t] = r]

ReceiveList(t) ==
    /\ pc[t] = "idle" /\ Present # {}
    /\ ListFrom(t, Present)
    /\ Goto(t, "list")
    /\ UNCHANGED <<now, store, seen, held, agent, audit, runs, late, raced, calls, faults>>

ListNext(t) ==
    /\ Refreshed(t, "list")
    /\ LET rest == todo[t] \ {id[t]} IN
        IF rest = {}
        THEN Return(t)
        ELSE ListFrom(t, rest) /\ Goto(t, "list") /\ UNCHANGED <<seen, held>>
    /\ UNCHANGED <<now, store, agent, audit, runs, late, raced, calls, faults>>

-----------------------------------------------------------------------------
(* The agent's call needs approval: SafeToolService._create_approval_result *)
(* on the MCP thread.                                                      *)

(* approval_store.create, with a new uuid *)
Create ==
    /\ agent.step = "idle"
    /\ \E r \in Requests \ Present, tool \in ApprovableTools :
        /\ requests' = [requests EXCEPT ![r] =
              [status |-> "pending", tool |-> tool, expires_at |-> now + TTL]]
        /\ agent' = [step |-> "attach", id |-> r]
    /\ UNCHANGED <<now, payloads, handler, audit, runs, late, raced, calls, faults>>

(* approval_store.attach_execution_payload: a call of its own              *)
Attach ==
    /\ agent.step = "attach"
    /\ LET r == agent.id  tool == requests[r].tool IN
        /\ payloads' = [payloads EXCEPT ![r] =
              [tool |-> tool, fingerprint |-> <<r, tool>>]]
        /\ late' = IF requests[r].status = "pending" THEN late ELSE late \cup {r}
    /\ agent' = [agent EXCEPT !.step = "log_call"]
    /\ UNCHANGED <<now, requests, handler, audit, runs, raced, calls, faults>>

AgentAppends ==
    /\ \/ /\ agent.step = "log_call"
          /\ Logged(agent.id, "requires_approval")
          /\ agent' = [agent EXCEPT !.step = "log_created"]
       \/ /\ agent.step = "log_created"
          /\ Logged(agent.id, "created")
          /\ agent' = [step |-> "idle", id |-> UnknownId]
    /\ UNCHANGED <<now, store, handler, runs, late, raced, calls, faults>>

(* The append raises; the tool call fails and the request stays up.        *)
AgentAppendFails ==
    /\ agent.step \in {"log_call", "log_created"}
    /\ faults < MaxFaults
    /\ faults' = faults + 1
    /\ agent' = [step |-> "idle", id |-> UnknownId]
    /\ UNCHANGED <<now, store, handler, audit, runs, late, raced, calls>>

-----------------------------------------------------------------------------
Tick ==
    /\ now < MaxTime
    /\ now' = now + 1
    /\ UNCHANGED <<store, handler, agent, audit, runs, late, raced, calls, faults>>

Refresh(t) == RefreshRead(t) \/ RefreshExpire(t) \/ RefreshDrop(t)

ApproveStep(t) ==
    \/ GetReturns(t) \/ ApproveWrite(t) \/ ApproveRefused(t) \/ GetPayload(t)
    \/ Recheck(t) \/ Deny(t) \/ Attempt(t) \/ SetupError(t) \/ DiscardUnrun(t)
    \/ MarkWrite(t) \/ MarkDrop(t) \/ MarkRefused(t) \/ ApproveAppends(t)

RejectStep(t) ==
    \/ RejectGetReturns(t) \/ RejectWrite(t) \/ RejectDrop(t) \/ RejectRefused(t)
    \/ RejectAppends(t)

(* A handler under way takes its next step.                                *)
Proceed(t) == Refresh(t) \/ ApproveStep(t) \/ RejectStep(t) \/ ListNext(t)

Fault(t) == HandlerRaises(t) \/ AttemptRaises(t)

AgentStep == Create \/ Attach \/ AgentAppends \/ AgentAppendFails

Next ==
    \/ \E t \in Threads :
        \/ ReceiveApprove(t) \/ ReceiveReject(t) \/ ReceiveList(t)
        \/ Proceed(t)
        \/ Fault(t)
    \/ AgentStep
    \/ Tick

Spec == Init /\ [][Next]_vars

(* Threads that can go on do: nothing makes a handler wait for good.  The  *)
(* code promises no more: calls need not arrive.                           *)
Fairness == \A t \in Threads : WF_vars(Proceed(t))
FairSpec == Spec /\ Fairness

-----------------------------------------------------------------------------
(* Properties *)

(* STEP_12: an already answered request is never answered again.  However  *)
(* often it is approved, the operation of a request is attempted once.     *)
(* The code breaks this: of two overlapping approvals each finds the       *)
(* request pending.                                                        *)
AtMostOnce == \A r \in Requests : runs[r] <= 1

(* ... and breaks it in no other way: an operation is attempted twice only *)
(* if an answer was written over another one.                              *)
OnceUnlessRaced == \A r \in Requests \ raced : runs[r] <= 1

(* STEP_12: what was rejected, or expired, is not executable, not later    *)
(* and not by an approval that was already under way -- unless one answer  *)
(* was written over the other.                                             *)
RefusedNeverRuns ==
    \A r \in Requests \ raced :
        requests[r] # NoRequest /\ requests[r].status \in {"rejected", "expired"}
            => runs[r] = 0

(* An approval that the re-check denied is used up: its request never runs *)
(* afterwards, though the store keeps calling it approved -- unless it was *)
(* approved twice over.                                                    *)
DeniedIsFinal ==
    \A r \in Requests \ raced : audit[r]["denied"] > 0 => runs[r] = 0

(* Threads that attempted the operation of r and have yet to record it.    *)
Recording(r) == {t \in Threads : id[t] = r /\ pc[t] = "log_ran"}

(* The audit trail accounts for every attempt: it has one executed=True    *)
(* event of the tool per attempt, but for handlers about to append theirs  *)
(* and handlers an exception ended; it never has an event too many.  This  *)
(* holds however the store calls overlap.                                  *)
AuditAccountsForRuns ==
    \A r \in Requests :
        LET told == audit[r]["ran"] + Cardinality(Recording(r)) IN
        told <= runs[r] /\ runs[r] <= told + faults

(* approval_operation_executed, and the status executed, are only said of  *)
(* an operation that was attempted.                                        *)
ExecutedMeansAttempted ==
    \A r \in Requests :
        /\ audit[r]["executed"] <= audit[r]["ran"]
        /\ requests[r].status = "executed" => runs[r] > 0

(* approve_request goes on when mark_executed raises, and still logs       *)
(* approval_operation_executed.  Without a race that never comes about:    *)
(* the event is only logged of a request that the store has marked as      *)
(* executed, and that stays so, whenever its time is over meanwhile.       *)
ExecutedIsMarked ==
    \A r \in Requests \ raced :
        audit[r]["executed"] > 0 => requests[r].status = "executed"

(* A private payload lives no longer than its request can still run: once  *)
(* no handler works on the request, only a pending request has a payload,  *)
(* save for a request that was answered before its payload was attached    *)
(* and an approved one whose handler an exception ended.                   *)
PayloadsDieWithRequests ==
    \A r \in Requests :
        /\ payloads[r] # NoPayload
        /\ requests[r].status # "pending"
        /\ r \notin late
        /\ \A t \in Threads : id[t] # r
        => requests[r].status = "approved" /\ faults > 0

(* At the store's level the workflow is the lifecycle.                     *)
PhaseOf(r) == IF r \in raced THEN "raced" ELSE requests[r].status

Lifecycle == INSTANCE ApprovalLifecycle
                WITH phase <- [r \in Requests |-> PhaseOf(r)], runs <- runs

ImplementsLifecycle == Lifecycle!Spec

(* An approval is never lost without trace: the approved request runs, is  *)
(* denied, or fails to set up, and the audit trail says which -- unless an *)
(* exception ended a handler.                                              *)
ApprovalIsSettled ==
    \A r \in Requests :
        requests[r].status = "approved" ~>
            audit[r]["ran"] + audit[r]["denied"] + audit[r]["not_run"] + faults > 0

(* Thread t is in a call that will look at request r.                      *)
AboutToRead(t, r) ==
    /\ pc[t] \in RefreshSites /\ stage[t] = "start"
    /\ r = id[t] \/ (pc[t] = "list" /\ r \in todo[t])

(* Expiry is lazy: a request past its time stays pending until somebody    *)
(* reads it.  Then it does not stay pending: every call that comes across  *)
(* an overdue request -- a listing comes across all of them -- sees to it  *)
(* that it is expired, unless somebody else ends its wait.                 *)
OverdueIsExpired ==
    \A r \in Requests :
        (\E t \in Threads : AboutToRead(t, r)) /\ Lapsed(r) ~> StatusOf(r) # "pending"

(* Every attempt has an approval of its own in the audit trail, logged     *)
(* before it, however the store calls overlap.                             *)
ApprovalsBoundRuns == \A r \in Requests : runs[r] <= audit[r]["approved"]

-----------------------------------------------------------------------------
(* The inductive invariant behind OnceUnlessRaced, RefusedNeverRuns,       *)
(* DeniedIsFinal and ImplementsLifecycle.                                  *)

(* Steps of a handler whose approval the store has accepted ...            *)
BeforeRun == {"log_approved", "payload", "recheck", "deny", "log_denied",
              "execute", "log_not_run", "discard"}
AfterRun  == {"log_ran", "mark", "mark_drop", "log_executed"}
Approving == BeforeRun \cup AfterRun

(* Only a handler inside a store method refreshes anything, and it expires *)
(* what it found pending.                                                  *)
StepsFit ==
    \A t \in Threads :
        /\ stage[t] # "start" => pc[t] \in RefreshSites
        /\ stage[t] = "expire" => seen[t] = "pending"

(* Whoever is about to change a request has found it in the store, which   *)
(* forgets none.                                                           *)
RequestsKnown ==
    /\ \A t \in Threads :
        \/ pc[t] \in Approving \cup {"reject_drop", "log_rejected"}
        \/ stage[t] \in {"expire", "drop"}
        \/ stage[t] = "ready" /\ seen[t] # "missing"
        => id[t] \in Present
    /\ agent.step # "idle" => agent.id \in Present

TypeInv == TypeOK /\ StepsFit /\ RequestsKnown

Unraced(t) == id[t] \notin raced

(* A handler whose approval was accepted owns its request, which stays     *)
(* approved until the handler marks it.                                    *)
ApproversOwn ==
    /\ \A t \in Threads :
        /\ pc[t] \in Approving /\ Unraced(t)
              => StatusOf(id[t]) \in {"approved", "executed"}
        /\ pc[t] \in Approving \ {"mark_drop", "log_executed"} /\ Unraced(t)
              => StatusOf(id[t]) = "approved"
    /\ \A t, u \in Threads :
        /\ pc[t] \in Approving /\ pc[u] \in Approving
        /\ id[t] = id[u] /\ Unraced(t)
        => t = u

RunsFit ==
    /\ \A t \in Threads :
        /\ pc[t] \in BeforeRun /\ Unraced(t) => runs[id[t]] = 0
        /\ pc[t] \in AfterRun /\ Unraced(t)  => runs[id[t]] = 1
    /\ \A r \in Requests \ raced :
        /\ runs[r] \in {0, 1}
        /\ requests[r].status \in {"missing", "pending", "rejected", "expired"}
              => runs[r] = 0
        /\ requests[r].status = "executed" => runs[r] = 1

(* A denial is the last thing that happens to a request.                   *)
DenialsFit ==
    \A r \in Requests \ raced :
        audit[r]["denied"] > 0 =>
            /\ runs[r] = 0
            /\ requests[r].status = "approved"
            /\ \A t \in Threads : pc[t] \in Approving => id[t] # r

(* All of it: a request whose answer nobody overwrote has at most one      *)
(* handler that approved it, and its status, runs and audit trail agree    *)
(* with the step that handler is at.  A request that is not in the store   *)
(* has raced with nobody.                                                  *)
WorkflowInv ==
    /\ TypeInv
    /\ ApproversOwn
    /\ RunsFit
    /\ DenialsFit
    /\ raced \subseteq Present
=============================================================================

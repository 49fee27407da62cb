----------------------- MODULE ApprovalWorkflowProofs -----------------------
(***************************************************************************)
(* Theorems about ApprovalWorkflow, for any requests, threads, lifetime    *)
(* and bounds, and however the store calls of the threads overlap.         *)
(***************************************************************************)
EXTENDS ApprovalWorkflow, FiniteSetTheorems, TLAPS

(* The steps a handler takes with a request of the store in hand.          *)
Holding == Approving \cup {"reject_drop", "log_rejected"}

-----------------------------------------------------------------------------
(* Moves of one handler *)

LEMMA GotoTypes ==
    ASSUME NEW t \in Threads, NEW s \in Steps, HandlerTypes, Goto(t, s)
    PROVE  pc' \in [Threads -> Steps] /\ stage' \in [Threads -> Stages]
  BY DEF HandlerTypes, Goto, Stages

LEMMA ReturnTypes ==
    ASSUME NEW t \in Threads, HandlerTypes, Return(t)
    PROVE  HandlerTypes'
  <1>1. "idle" \in Steps /\ UnknownId \in Ids
    BY DEF Steps, Ids
  <1> QED
    BY <1>1, GotoTypes DEF Return, HandlerTypes

(* A handler may go on to a step that needs a request if it has one.       *)
LEMMA GotoKnown ==
    ASSUME TypeInv, NEW t \in Threads, NEW s \in Steps, Goto(t, s),
           UNCHANGED <<id, seen, agent>>, Present \subseteq Present',
           s \in Holding => id[t] \in Present
    PROVE  StepsFit' /\ RequestsKnown'
  BY DEF TypeInv, TypeOK, HandlerTypes, Goto, StepsFit, RequestsKnown, Holding, Stages

LEMMA ReturnKnown ==
    ASSUME TypeInv, NEW t \in Threads, Return(t),
           UNCHANGED agent, Present \subseteq Present'
    PROVE  StepsFit' /\ RequestsKnown'
  <1>1. "idle" \notin Holding
    BY DEF Holding, Approving, BeforeRun, AfterRun
  <1> QED
    BY <1>1 DEF TypeInv, TypeOK, HandlerTypes, Goto, Return, StepsFit, RequestsKnown, Holding, Stages

(* A step that leaves the store and the counters alone and only moves on.  *)
LEMMA QuietGoto ==
    ASSUME TypeInv, NEW t \in Threads, NEW s \in Steps, Goto(t, s),
           UNCHANGED <<now, store, id, seen, held, todo, agent, audit, runs, late, raced, calls, faults>>,
           s \in Holding => id[t] \in Present
    PROVE  TypeInv'
  <1>1. HandlerTypes'
    BY GotoTypes DEF TypeInv, TypeOK, HandlerTypes
  <1>2. StoreTypes' /\ OtherTypes' /\ Present' = Present
    BY DEF TypeInv, TypeOK, StoreTypes, OtherTypes, store, Present
  <1>3. StepsFit' /\ RequestsKnown'
    BY <1>2, GotoKnown
  <1> QED
    BY <1>1, <1>2, <1>3 DEF TypeInv, TypeOK

(* Giving a request of the store another status.                           *)
LEMMA StatusTypes ==
    ASSUME TypeInv, NEW r \in Present, NEW s \in Statuses, SetStatus(r, s), UNCHANGED payloads
    PROVE  StoreTypes' /\ Present' = Present
  <1>1. requests[r] \in RequestRecords
    BY DEF Present, TypeInv, TypeOK, StoreTypes
  <1>2. [requests[r] EXCEPT !.status = s] \in RequestRecords
    BY <1>1 DEF RequestRecords
  <1>3. [requests[r] EXCEPT !.status = s] # NoRequest
    <2>1. [requests[r] EXCEPT !.status = s].status = s
      BY <1>1 DEF RequestRecords
    <2>2. NoRequest.status = "missing" /\ s # "missing"
      BY DEF NoRequest, Statuses
    <2> QED
      BY <2>1, <2>2
  <1> QED
    BY <1>2, <1>3 DEF SetStatus, StoreTypes, TypeInv, TypeOK, Present

LEMMA StatusPresent ==
    ASSUME TypeInv, NEW r \in Present, NEW s \in Statuses, SetStatus(r, s)
    PROVE  Present' = Present
  <1>1. requests[r] \in RequestRecords
    BY DEF Present, TypeInv, TypeOK, StoreTypes
  <1>2. [requests[r] EXCEPT !.status = s] # NoRequest
    <2>1. [requests[r] EXCEPT !.status = s].status = s
      BY <1>1 DEF RequestRecords
    <2>2. NoRequest.status = "missing" /\ s # "missing"
      BY DEF NoRequest, Statuses
    <2> QED
      BY <2>1, <2>2
  <1> QED
    BY <1>2 DEF SetStatus, TypeInv, TypeOK, StoreTypes, Present

LEMMA DiscardTypes ==
    ASSUME TypeInv, NEW i, Discard(i), UNCHANGED requests
    PROVE  StoreTypes' /\ Present' = Present
  BY DEF Discard, TypeInv, TypeOK, StoreTypes, Present

LEMMA LoggedTypes ==
    ASSUME TypeInv, NEW i \in Ids, NEW e \in Events, Logged(i, e)
    PROVE  audit' \in [Ids -> [Events -> Nat]]
  BY DEF TypeInv, TypeOK, OtherTypes, Logged

-----------------------------------------------------------------------------
(* TypeInv is an invariant *)

LEMMA TypeInvInit == Init => TypeInv
  <1> SUFFICES ASSUME Init PROVE TypeInv
    OBVIOUS
  <1>1. TypeOK
    BY ConstantsAssumption DEF Init, TypeOK, StoreTypes, HandlerTypes, OtherTypes, Ids,
       Statuses, Steps, Stages, AgentSteps, NoRequest, NoPayload
  <1>2. "idle" \notin Holding
    BY DEF Holding, Approving, BeforeRun, AfterRun
  <1>3. StepsFit /\ RequestsKnown
    BY <1>2 DEF Init, StepsFit, RequestsKnown, Holding
  <1> QED
    BY <1>1, <1>3 DEF TypeInv

LEMMA TypeRefresh ==
    ASSUME TypeInv, NEW t \in Threads, Refresh(t)
    PROVE  TypeInv'
  <1> USE DEF TypeInv, TypeOK
  <1>1. CASE RefreshRead(t)
    <2>1. StatusOf(id[t]) \in Statuses \cup {"missing"}
      BY DEF StatusOf, StoreTypes, RequestRecords, NoRequest
    <2>2. StatusOf(id[t]) # "missing" => id[t] \in Present
      BY DEF StatusOf, Present, NoRequest
    <2>3. HandlerTypes'
      BY <1>1, <2>1 DEF RefreshRead, HandlerTypes, Stages, Statuses
    <2>4. StoreTypes' /\ OtherTypes' /\ Present' = Present
      BY <1>1 DEF RefreshRead, store, StoreTypes, OtherTypes, Present
    <2>5. StepsFit'
      <3>1. /\ \A u \in Threads \ {t} : stage'[u] = stage[u] /\ seen'[u] = seen[u]
            /\ pc' = pc /\ pc[t] \in RefreshSites
        BY <1>1 DEF RefreshRead, HandlerTypes
      <3>2. stage'[t] = "expire" => seen'[t] = "pending"
        BY <1>1 DEF RefreshRead, HandlerTypes, Lapsed
      <3> QED
        BY <3>1, <3>2 DEF StepsFit
    <2>6. Lapsed(id[t]) => id[t] \in Present
      BY <2>2 DEF Lapsed
    <2>7. RequestsKnown'
      BY <1>1, <2>2, <2>4, <2>6 DEF RefreshRead, RequestsKnown, HandlerTypes
    <2> QED
      BY <2>3, <2>4, <2>5, <2>7
  <1>2. CASE RefreshExpire(t)
    <2>1. id[t] \in Present
      BY <1>2 DEF RefreshExpire, RequestsKnown
    <2>2. StoreTypes' /\ Present' = Present
      BY <1>2, <2>1, StatusTypes DEF RefreshExpire, Statuses
    <2>3. raced' \in SUBSET Requests
      BY <1>2, <2>1 DEF RefreshExpire, NoteRace, OtherTypes, Present
    <2>4. HandlerTypes' /\ OtherTypes'
      BY <1>2, <2>3 DEF RefreshExpire, HandlerTypes, OtherTypes, Stages, Statuses
    <2>5. StepsFit' /\ RequestsKnown'
      BY <1>2, <2>1, <2>2 DEF RefreshExpire, StepsFit, RequestsKnown, HandlerTypes
    <2> QED
      BY <2>2, <2>4, <2>5
  <1>3. CASE RefreshDrop(t)
    <2>1. id[t] \in Present
      BY <1>3 DEF RefreshDrop, RequestsKnown
    <2>2. StoreTypes' /\ Present' = Present
      BY <1>3, DiscardTypes DEF RefreshDrop
    <2>3. HandlerTypes' /\ OtherTypes'
      BY <1>3 DEF RefreshDrop, HandlerTypes, OtherTypes, Stages
    <2>4. StepsFit' /\ RequestsKnown'
      BY <1>3, <2>1, <2>2 DEF RefreshDrop, StepsFit, RequestsKnown, HandlerTypes
    <2> QED
      BY <2>2, <2>3, <2>4
  <1> QED
    BY <1>1, <1>2, <1>3 DEF Refresh

(* A status write that moves the handler on to a step of the same call.    *)
LEMMA TypeWrite ==
    ASSUME TypeInv, NEW t \in Threads, NEW s \in Steps, NEW p \in Statuses,
           id[t] \in Present, SetStatus(id[t], p), Goto(t, s),
           raced' \subseteq raced \cup {id[t]},
           UNCHANGED <<now, payloads, id, seen, held, todo, agent, audit, runs, late, calls, faults>>
    PROVE  TypeInv'
  <1>1. StoreTypes' /\ Present' = Present
    BY StatusTypes
  <1>2. HandlerTypes' /\ OtherTypes'
    <2>1. raced' \in SUBSET Requests
      BY DEF TypeInv, TypeOK, OtherTypes, Present
    <2> QED
      BY <2>1, GotoTypes DEF TypeInv, TypeOK, HandlerTypes, OtherTypes
  <1>3. StepsFit' /\ RequestsKnown'
    BY <1>1, GotoKnown
  <1> QED
    BY <1>1, <1>2, <1>3 DEF TypeInv, TypeOK

LEMMA TypeDiscard ==
    ASSUME TypeInv, NEW t \in Threads, NEW s \in Steps, Discard(id[t]), Goto(t, s),
           id[t] \in Present,
           UNCHANGED <<now, requests, id, seen, held, todo, agent, audit, runs, late, raced, calls, faults>>
    PROVE  TypeInv'
  <1>1. StoreTypes' /\ Present' = Present
    BY DiscardTypes
  <1>2. HandlerTypes' /\ OtherTypes'
    BY GotoTypes DEF TypeInv, TypeOK, HandlerTypes, OtherTypes
  <1>3. StepsFit' /\ RequestsKnown'
    BY <1>1, GotoKnown
  <1> QED
    BY <1>1, <1>2, <1>3 DEF TypeInv, TypeOK

(* A handler that ends, whatever it did last.                              *)
LEMMA TypeReturn ==
    ASSUME TypeInv, NEW t \in Threads, Return(t), StoreTypes', OtherTypes',
           UNCHANGED agent, Present' = Present
    PROVE  TypeInv'
  <1>1. HandlerTypes'
    BY ReturnTypes DEF TypeInv, TypeOK
  <1>2. StepsFit' /\ RequestsKnown'
    BY ReturnKnown
  <1> QED
    BY <1>1, <1>2 DEF TypeInv, TypeOK

LEMMA TypeAppend ==
    ASSUME TypeInv, NEW t \in Threads, NEW step \in Locals, NEW e \in Events,
           NEW next \in Steps, Append(t, step, e, next),
           next = "idle" \/ step \in Holding
    PROVE  TypeInv'
  <1>1. audit' \in [Ids -> [Events -> Nat]]
    BY LoggedTypes DEF Append, TypeInv, TypeOK, HandlerTypes
  <1>2. StoreTypes' /\ OtherTypes' /\ Present' = Present
    BY <1>1 DEF Append, TypeInv, TypeOK, StoreTypes, OtherTypes, store, Present
  <1>3. CASE next = "idle"
    BY <1>2, <1>3, TypeReturn DEF Append
  <1>4. CASE next # "idle"
    <2>1. id[t] \in Present
      BY <1>4 DEF Append, TypeInv, RequestsKnown, Holding
    <2>2. HandlerTypes'
      BY <1>4, GotoTypes DEF Append, TypeInv, TypeOK, HandlerTypes
    <2>3. StepsFit' /\ RequestsKnown'
      BY <1>2, <1>4, <2>1, GotoKnown DEF Append
    <2> QED
      BY <1>2, <2>2, <2>3 DEF TypeInv, TypeOK
  <1> QED
    BY <1>3, <1>4

LEMMA TypeApprove ==
    ASSUME TypeInv, NEW t \in Threads, ApproveStep(t)
    PROVE  TypeInv'
  <1> USE DEF Steps, RefreshSites, Locals
  <1>1. pc[t] \in Holding => id[t] \in Present
    BY DEF TypeInv, RequestsKnown, Holding
  <1>2. stage[t] = "ready" /\ seen[t] # "missing" => id[t] \in Present
    BY DEF TypeInv, RequestsKnown
  <1> USE DEF Holding, Approving, BeforeRun, AfterRun
  <1>3. CASE GetReturns(t)
    BY <1>3, QuietGoto DEF GetReturns
  <1>4. CASE ApproveWrite(t)
    BY <1>4, <1>2, TypeWrite DEF ApproveWrite, NoteRace, Refreshed, Statuses
  <1>5. CASE ApproveRefused(t)
    BY <1>5, QuietGoto DEF ApproveRefused
  <1>6. CASE GetPayload(t)
    <2>1. id[t] \in Present
      BY <1>1, <1>6 DEF GetPayload, Refreshed
    <2>2. payloads[id[t]] \in PayloadRecords \cup {NoPayload}
      BY <2>1 DEF TypeInv, TypeOK, StoreTypes, Present
    <2>3. HandlerTypes'
      BY <1>6, <2>2, GotoTypes DEF GetPayload, TypeInv, TypeOK, HandlerTypes
    <2>4. StoreTypes' /\ OtherTypes' /\ Present' = Present
      BY <1>6 DEF GetPayload, TypeInv, TypeOK, StoreTypes, OtherTypes, store, Present
    <2>5. StepsFit' /\ RequestsKnown'
      BY <1>6, <2>1, <2>4, GotoKnown DEF GetPayload
    <2> QED
      BY <2>3, <2>4, <2>5 DEF TypeInv, TypeOK
  <1>7. CASE Recheck(t)
    <2>1. id[t] \in Present
      BY <1>1, <1>7 DEF Recheck
    <2>2. Goto(t, "deny") \/ Goto(t, "execute")
      BY <1>7 DEF Recheck
    <2> QED
      BY <1>7, <2>1, <2>2, QuietGoto DEF Recheck
  <1>8. CASE Deny(t)
    BY <1>1, <1>8, TypeDiscard DEF Deny
  <1>9. CASE Attempt(t)
    <2>1. id[t] \in Present /\ id[t] \in Requests
      BY <1>1, <1>9 DEF Attempt, Present
    <2>2. StoreTypes' /\ OtherTypes' /\ Present' = Present
      BY <1>9, <2>1 DEF Attempt, TypeInv, TypeOK, StoreTypes, OtherTypes, store, Present
    <2>3. HandlerTypes'
      BY <1>9, GotoTypes DEF Attempt, TypeInv, TypeOK, HandlerTypes
    <2>4. StepsFit' /\ RequestsKnown'
      BY <1>9, <2>1, <2>2, GotoKnown DEF Attempt
    <2> QED
      BY <2>2, <2>3, <2>4 DEF TypeInv, TypeOK
  <1>10. CASE SetupError(t)
    BY <1>1, <1>10, QuietGoto DEF SetupError
  <1>11. CASE DiscardUnrun(t)
    <2>1. StoreTypes' /\ Present' = Present
      BY <1>11, DiscardTypes DEF DiscardUnrun
    <2>2. OtherTypes'
      BY <1>11 DEF DiscardUnrun, TypeInv, TypeOK, OtherTypes
    <2> QED
      BY <1>11, <2>1, <2>2, TypeReturn DEF DiscardUnrun
  <1>12. CASE MarkWrite(t)
    BY <1>12, <1>2, TypeWrite DEF MarkWrite, Refreshed, Statuses
  <1>13. CASE MarkDrop(t)
    BY <1>1, <1>13, TypeDiscard DEF MarkDrop
  <1>14. CASE MarkRefused(t)
    BY <1>1, <1>14, QuietGoto DEF MarkRefused, Refreshed
  <1>15. CASE ApproveAppends(t)
    BY <1>15, TypeAppend DEF ApproveAppends, Events
  <1> QED
    BY <1>3, <1>4, <1>5, <1>6, <1>7, <1>8, <1>9, <1>10, <1>11, <1>12, <1>13, <1>14, <1>15
       DEF ApproveStep

LEMMA TypeReject ==
    ASSUME TypeInv, NEW t \in Threads, RejectStep(t)
    PROVE  TypeInv'
  <1> USE DEF Steps, RefreshSites, Locals
  <1>1. pc[t] \in Holding => id[t] \in Present
    BY DEF TypeInv, RequestsKnown, Holding
  <1>2. stage[t] = "ready" /\ seen[t] # "missing" => id[t] \in Present
    BY DEF TypeInv, RequestsKnown
  <1> USE DEF Holding, Approving, BeforeRun, AfterRun
  <1>3. CASE RejectGetReturns(t)
    BY <1>3, QuietGoto DEF RejectGetReturns
  <1>4. CASE RejectWrite(t)
    BY <1>4, <1>2, TypeWrite DEF RejectWrite, NoteRace, Refreshed, Statuses
  <1>5. CASE RejectDrop(t)
    BY <1>1, <1>5, TypeDiscard DEF RejectDrop
  <1>6. CASE RejectRefused(t)
    <2>1. StoreTypes' /\ OtherTypes' /\ Present' = Present
      BY <1>6 DEF RejectRefused, TypeInv, TypeOK, StoreTypes, OtherTypes, store, Present
    <2> QED
      BY <1>6, <2>1, TypeReturn DEF RejectRefused
  <1>7. CASE RejectAppends(t)
    BY <1>7, TypeAppend DEF RejectAppends, Events
  <1> QED
    BY <1>3, <1>4, <1>5, <1>6, <1>7 DEF RejectStep

(* A call arrives, a listing goes on, an exception ends a handler.         *)
LEMMA TypeCalls ==
    ASSUME TypeInv, NEW t \in Threads,
           \/ ReceiveApprove(t) \/ ReceiveReject(t) \/ ReceiveList(t)
           \/ ListNext(t) \/ Fault(t)
    PROVE  TypeInv'
  <1> USE DEF Steps, RefreshSites, Locals, Holding, Approving, BeforeRun, AfterRun
  <1>1. ASSUME NEW s \in {"get", "reject_get"}, Receive(t, s) PROVE TypeInv'
    <2>1. Callable \subseteq Ids
      BY DEF Callable, Present, Ids
    <2>2. HandlerTypes'
      BY <1>1, <2>1, GotoTypes DEF Receive, TypeInv, TypeOK, HandlerTypes
    <2>3. StoreTypes' /\ OtherTypes' /\ Present' = Present
      BY <1>1 DEF Receive, TypeInv, TypeOK, StoreTypes, OtherTypes, store, Present
    <2>4. StepsFit' /\ RequestsKnown'
      BY <1>1, <2>3 DEF Receive, Goto, TypeInv, TypeOK, HandlerTypes, StepsFit, RequestsKnown
    <2> QED
      BY <2>2, <2>3, <2>4 DEF TypeInv, TypeOK
  <1>2. ASSUME NEW s \in SUBSET Requests, ListFrom(t, s), Goto(t, "list"),
               UNCHANGED <<now, store, seen, held, agent, audit, runs, late, raced, calls, faults>>
        PROVE  TypeInv'
    <2>1. HandlerTypes'
      BY <1>2, GotoTypes DEF ListFrom, TypeInv, TypeOK, HandlerTypes, Ids
    <2>2. StoreTypes' /\ OtherTypes' /\ Present' = Present
      BY <1>2 DEF TypeInv, TypeOK, StoreTypes, OtherTypes, store, Present
    <2>3. StepsFit' /\ RequestsKnown'
      BY <1>2, <2>2 DEF ListFrom, Goto, TypeInv, TypeOK, HandlerTypes, StepsFit, RequestsKnown
    <2> QED
      BY <2>1, <2>2, <2>3 DEF TypeInv, TypeOK
  <1>3. CASE ReceiveApprove(t) \/ ReceiveReject(t)
    BY <1>1, <1>3 DEF ReceiveApprove, ReceiveReject
  <1>4. CASE ReceiveList(t)
    BY <1>2, <1>4 DEF ReceiveList, Present
  <1>5. CASE ListNext(t)
    <2> DEFINE rest == todo[t] \ {id[t]}
    <2>1. CASE rest = {}
      <3>1. StoreTypes' /\ OtherTypes' /\ Present' = Present
        BY <1>5 DEF ListNext, TypeInv, TypeOK, StoreTypes, OtherTypes, store, Present
      <3> QED
        BY <1>5, <2>1, <3>1, TypeReturn DEF ListNext
    <2>2. CASE rest # {}
      <3>1. rest \in SUBSET Requests
        BY DEF TypeInv, TypeOK, HandlerTypes
      <3> QED
        BY <1>2, <1>5, <2>2, <3>1 DEF ListNext
    <2> QED
      BY <2>1, <2>2
  <1>6. CASE HandlerRaises(t)
    <2>1. StoreTypes' /\ OtherTypes' /\ Present' = Present
      BY <1>6 DEF HandlerRaises, TypeInv, TypeOK, StoreTypes, OtherTypes, store, Present
    <2> QED
      BY <1>6, <2>1, TypeReturn DEF HandlerRaises
  <1>7. CASE AttemptRaises(t)
    <2>1. id[t] \in Requests
      BY <1>7 DEF AttemptRaises, TypeInv, RequestsKnown, Present
    <2>2. StoreTypes' /\ OtherTypes' /\ Present' = Present
      BY <1>7, <2>1 DEF AttemptRaises, TypeInv, TypeOK, StoreTypes, OtherTypes, store, Present
    <2> QED
      BY <1>7, <2>2, TypeReturn DEF AttemptRaises
  <1> QED
    BY <1>3, <1>4, <1>5, <1>6, <1>7 DEF Fault

LEMMA CreateTypes ==
    ASSUME TypeInv, Create
    PROVE  /\ StoreTypes' /\ agent' \in [step : AgentSteps, id : Ids]
           /\ Present \subseteq Present' /\ agent'.id \in Present'
  <1>1. PICK r \in Requests \ Present, tool \in ApprovableTools :
          /\ requests' = [requests EXCEPT ![r] =
                [status |-> "pending", tool |-> tool, expires_at |-> now + TTL]]
          /\ agent' = [step |-> "attach", id |-> r]
    BY DEF Create
  <1> DEFINE rec == [status |-> "pending", tool |-> tool, expires_at |-> now + TTL]
  <1>2. now + TTL \in Nat
    BY ConstantsAssumption DEF TypeInv, TypeOK, OtherTypes
  <1>3. rec \in RequestRecords
    BY <1>2 DEF RequestRecords, Statuses
  <1>4. rec # NoRequest
    <2>1. rec.status = "pending" /\ NoRequest.status = "missing"
      BY DEF NoRequest
    <2> QED
      BY <2>1
  <1> QED
    BY <1>1, <1>3, <1>4 DEF Create, TypeInv, TypeOK, StoreTypes, Present, AgentSteps, Ids

LEMMA TypeAgent ==
    ASSUME TypeInv, AgentStep
    PROVE  TypeInv'
  <1>1. agent \in [step : AgentSteps, id : Ids] /\ (agent.step # "idle" => agent.id \in Present)
    BY DEF TypeInv, TypeOK, OtherTypes, RequestsKnown
  <1>2. CASE Create
    <2>1. HandlerTypes' /\ OtherTypes'
      BY <1>2, CreateTypes DEF Create, handler, TypeInv, TypeOK, HandlerTypes, OtherTypes
    <2>2. StepsFit' /\ RequestsKnown'
      BY <1>2, CreateTypes DEF Create, handler, TypeInv, StepsFit, RequestsKnown
    <2> QED
      BY <1>2, <2>1, <2>2, CreateTypes DEF TypeInv, TypeOK
  <1>3. CASE Attach
    <2> DEFINE r == agent.id
               tool == requests[r].tool
    <2>1. r \in Requests /\ requests[r] \in RequestRecords
      BY <1>1, <1>3 DEF Attach, Present, TypeInv, TypeOK, StoreTypes
    <2>2. [tool |-> tool, fingerprint |-> <<r, tool>>] \in PayloadRecords
      BY <2>1 DEF PayloadRecords, RequestRecords
    <2>3. StoreTypes' /\ Present' = Present
      BY <1>3, <2>1, <2>2 DEF Attach, TypeInv, TypeOK, StoreTypes, Present
    <2>4. agent' = [step |-> "log_call", id |-> r]
      BY <1>1, <1>3 DEF Attach
    <2>5. HandlerTypes' /\ OtherTypes'
      BY <1>1, <1>3, <2>1, <2>4
         DEF Attach, handler, TypeInv, TypeOK, HandlerTypes, OtherTypes, AgentSteps
    <2>6. StepsFit' /\ RequestsKnown'
      BY <1>1, <1>3, <2>3, <2>4 DEF Attach, handler, TypeInv, StepsFit, RequestsKnown
    <2> QED
      BY <2>3, <2>5, <2>6 DEF TypeInv, TypeOK
  <1>4. CASE AgentAppends \/ AgentAppendFails
    <2>1. StoreTypes' /\ HandlerTypes' /\ Present' = Present
      BY <1>4 DEF AgentAppends, AgentAppendFails, store, handler, TypeInv, TypeOK,
                  StoreTypes, HandlerTypes, Present
    <2>2. audit' \in [Ids -> [Events -> Nat]]
      BY <1>1, <1>4, LoggedTypes
         DEF AgentAppends, AgentAppendFails, Events, TypeInv, TypeOK, OtherTypes
    <2>3. /\ agent' \in [step : AgentSteps, id : Ids]
          /\ agent'.step # "idle" => agent'.id = agent.id /\ agent.step # "idle"
      BY <1>1, <1>4 DEF AgentAppends, AgentAppendFails, AgentSteps, Ids
    <2>4. OtherTypes'
      BY <1>4, <2>2, <2>3 DEF AgentAppends, AgentAppendFails, TypeInv, TypeOK, OtherTypes
    <2>5. StepsFit' /\ RequestsKnown'
      BY <1>1, <1>4, <2>1, <2>3
         DEF AgentAppends, AgentAppendFails, handler, TypeInv, StepsFit, RequestsKnown
    <2> QED
      BY <2>1, <2>4, <2>5 DEF TypeInv, TypeOK
  <1> QED
    BY <1>2, <1>3, <1>4 DEF AgentStep

LEMMA TypeInvStep == TypeInv /\ [Next]_vars => TypeInv'
  <1> SUFFICES ASSUME TypeInv, [Next]_vars PROVE TypeInv'
    OBVIOUS
  <1>1. CASE Tick
    <2>1. StoreTypes' /\ HandlerTypes' /\ OtherTypes' /\ Present' = Present
      BY <1>1 DEF Tick, store, handler, TypeInv, TypeOK, StoreTypes, HandlerTypes, OtherTypes, Present
    <2>2. StepsFit' /\ RequestsKnown'
      BY <1>1, <2>1 DEF Tick, handler, TypeInv, StepsFit, RequestsKnown
    <2> QED
      BY <2>1, <2>2 DEF TypeInv, TypeOK
  <1>2. CASE UNCHANGED vars
    BY <1>2 DEF vars, store, handler, TypeInv, TypeOK, StoreTypes, HandlerTypes,
                OtherTypes, Present, StepsFit, RequestsKnown
  <1> QED
    BY <1>1, <1>2, TypeRefresh, TypeApprove, TypeReject, TypeCalls, TypeAgent
       DEF Next, Proceed

(* Whatever the threads do, every variable keeps its type, no handler ever *)
(* changes a request the store does not have, and the store forgets none.  *)
THEOREM TypeCorrect == Spec => []TypeInv
  BY TypeInvInit, TypeInvStep, PTL DEF Spec

(* Every variable keeps its type, however the store calls overlap: a       *)
(* status written over another is still a whole request.                   *)
THEOREM TypesHold == Spec => []TypeOK
  <1>1. TypeInv => TypeOK
    BY DEF TypeInv
  <1> QED
    BY <1>1, TypeCorrect, PTL

-----------------------------------------------------------------------------
(* WorkflowInv is an invariant                                             *)

LEMMA WorkflowInvInit == Init => WorkflowInv
  <1> SUFFICES ASSUME Init PROVE WorkflowInv
    OBVIOUS
  <1>1. "idle" \notin Approving
    BY DEF Approving, BeforeRun, AfterRun
  <1>2. ApproversOwn /\ raced \subseteq Present
    BY <1>1 DEF Init, ApproversOwn
  <1>3. RunsFit /\ DenialsFit
    BY <1>1 DEF Init, RunsFit, DenialsFit, Approving, NoRequest, Ids, Events
  <1> QED
    BY <1>2, <1>3, TypeInvInit DEF WorkflowInv

(* The conjuncts of WorkflowInv that a step has to preserve once TypeInv   *)
(* is known to be kept.                                                    *)
OwnInv == ApproversOwn /\ RunsFit /\ DenialsFit /\ raced \subseteq Present

(* A handler moves on without writing a status: what it gains by the move  *)
(* it had before.                                                          *)
LEMMA Moves ==
    ASSUME WorkflowInv, NEW t \in Threads, NEW s \in Steps, Goto(t, s),
           UNCHANGED <<requests, runs, raced>>,
           \A u \in Threads \ {t} : id'[u] = id[u],
           s \in Approving => id'[t] = id[t] /\ pc[t] \in Approving,
           s \in BeforeRun => pc[t] \in BeforeRun,
           s \in AfterRun  => pc[t] \in AfterRun,
           pc[t] \in {"mark_drop", "log_executed"} /\ s \in Approving => s = "log_executed",
           s # "mark_drop",
           \A r \in Requests : audit'[r]["denied"] = audit[r]["denied"]
    PROVE  OwnInv'
  <1> USE DEF WorkflowInv, TypeInv, TypeOK, HandlerTypes, Goto
  <1>1. \A u \in Threads \ {t} : pc'[u] = pc[u]
    OBVIOUS
  <1>2. pc'[t] = s
    OBVIOUS
  <1>3. \A i : StatusOf(i)' = StatusOf(i)
    BY DEF StatusOf
  <1>4. ApproversOwn'
    BY <1>1, <1>2, <1>3 DEF ApproversOwn, Unraced
  <1>5. RunsFit'
    BY <1>1, <1>2, <1>3 DEF RunsFit, Unraced, Approving
  <1>6. DenialsFit'
    BY <1>1, <1>2 DEF DenialsFit
  <1>7. (raced \subseteq Present)'
    BY DEF Present
  <1> QED
    BY <1>4, <1>5, <1>6, <1>7 DEF OwnInv

(* What SetStatus does to every status. *)
LEMMA StatusAfter ==
    ASSUME TypeInv, NEW r \in Present, NEW s, SetStatus(r, s)
    PROVE  /\ \A q \in Requests : requests'[q].status = IF q = r THEN s ELSE requests[q].status
           /\ \A i : StatusOf(i)' = IF i = r THEN s ELSE StatusOf(i)
  <1>1. requests[r] \in RequestRecords /\ r \in Requests
    BY DEF Present, TypeInv, TypeOK, StoreTypes
  <1>2. [requests[r] EXCEPT !.status = s].status = s
    BY <1>1 DEF RequestRecords
  <1>3. \A q \in Requests : requests'[q].status = IF q = r THEN s ELSE requests[q].status
    BY <1>2 DEF SetStatus, TypeInv, TypeOK, StoreTypes
  <1> QED
    BY <1>1, <1>3 DEF StatusOf

(* A request that is pending or expired, and whose answer nobody has       *)
(* overwritten, has nobody who is approving it, and it has neither run nor *)
(* been denied.                                                            *)
LEMMA UnansweredIsFree ==
    ASSUME WorkflowInv, NEW r \in Requests \ raced, StatusOf(r) \in {"pending", "expired"}
    PROVE  /\ \A u \in Threads : pc[u] \in Approving => id[u] # r
           /\ runs[r] = 0
           /\ ~(audit[r]["denied"] > 0)
  <1>1. requests[r].status \in {"pending", "expired"}
    BY DEF StatusOf
  <1> QED
    BY <1>1 DEF WorkflowInv, ApproversOwn, Unraced, RunsFit, DenialsFit

(* A write of status p takes the handler from a pending request to step s. *)
(* If it was not too late, it has overwritten nothing; if it was, nothing  *)
(* more is claimed of the request.                                         *)
LEMMA AnswerKeeps ==
    ASSUME WorkflowInv, NEW t \in Threads, NEW p \in {"approved", "rejected", "expired"},
           NEW s \in Steps, id[t] \in Present, SetStatus(id[t], p),
           pc' = [pc EXCEPT ![t] = s], UNCHANGED <<id, audit, runs>>,
           NoteRace(t, {"pending", "expired"}) \/ NoteRace(t, {"pending"}),
           s \in Approving => s = pc[t] \/ (s = "log_approved" /\ p = "approved")
    PROVE  OwnInv'
  <1> USE DEF WorkflowInv, TypeInv, TypeOK, HandlerTypes
  <1> PICK r \in Requests : r = id[t]
    BY DEF Present
  <1>1. /\ \A q \in Requests : requests'[q].status = IF q = r THEN p ELSE requests[q].status
        /\ \A i : StatusOf(i)' = IF i = r THEN p ELSE StatusOf(i)
    BY StatusAfter
  <1>2. /\ raced \subseteq raced' /\ raced' \subseteq raced \cup {r}
        /\ r \notin raced' => r \notin raced /\ StatusOf(r) \in {"pending", "expired"}
    BY DEF NoteRace
  <1>3. pc'[t] = s /\ \A u \in Threads \ {t} : pc'[u] = pc[u]
    OBVIOUS
  <1>4. r \notin raced' => /\ \A u \in Threads : pc[u] \in Approving => id[u] # r
                           /\ runs[r] = 0
                           /\ ~(audit[r]["denied"] > 0)
    BY <1>2, UnansweredIsFree
  <1>5. r \notin raced' /\ s \in Approving => s = "log_approved" /\ p = "approved"
    BY <1>4
  <1>6. "log_approved" \in BeforeRun /\ "log_approved" \notin AfterRun
    BY DEF BeforeRun, AfterRun
  <1>7. ApproversOwn'
    <2>1. ASSUME NEW u \in Threads, pc'[u] \in Approving, id[u] \notin raced'
          PROVE  /\ StatusOf(id[u])' \in {"approved", "executed"}
                 /\ pc'[u] \notin {"mark_drop", "log_executed"} => StatusOf(id[u])' = "approved"
                 /\ id[u] = r => u = t
      <3>1. CASE id[u] = r
        BY <1>1, <1>3, <1>4, <1>5, <2>1, <3>1
      <3>2. CASE id[u] # r
        <4>1. u # t /\ pc'[u] = pc[u] /\ id[u] \notin raced
          BY <1>2, <1>3, <2>1, <3>2
        <4> QED
          BY <1>1, <2>1, <3>2, <4>1 DEF ApproversOwn, Unraced
      <3> QED
        BY <3>1, <3>2
    <2>2. ASSUME NEW u \in Threads, NEW v \in Threads, pc'[u] \in Approving,
                 pc'[v] \in Approving, id[u] = id[v], id[u] \notin raced'
          PROVE  u = v
      <3>1. CASE id[u] = r
        BY <2>1, <2>2, <3>1
      <3>2. CASE id[u] # r
        BY <1>2, <1>3, <2>2, <3>2 DEF ApproversOwn, Unraced
      <3> QED
        BY <3>1, <3>2
    <2>3. id' = id
      OBVIOUS
    <2> QED
      BY <2>1, <2>2, <2>3 DEF ApproversOwn, Unraced
  <1>8. RunsFit'
    <2>1. ASSUME NEW u \in Threads, id[u] \notin raced'
          PROVE  /\ pc'[u] \in BeforeRun => runs[id[u]] = 0
                 /\ pc'[u] \in AfterRun  => runs[id[u]] = 1
      <3>1. CASE id[u] = r
        <4>1. u # t => pc'[u] \notin Approving
          BY <1>3, <1>4, <2>1, <3>1
        <4> QED
          BY <1>3, <1>4, <1>5, <1>6, <2>1, <3>1, <4>1 DEF Approving
      <3>2. CASE id[u] # r
        BY <1>2, <1>3, <2>1, <3>2 DEF RunsFit, Unraced
      <3> QED
        BY <3>1, <3>2
    <2>2. ASSUME NEW q \in Requests \ raced'
          PROVE  /\ runs[q] \in {0, 1}
                 /\ requests'[q].status \in {"missing", "pending", "rejected", "expired"}
                       => runs[q] = 0
                 /\ requests'[q].status = "executed" => runs[q] = 1
      <3>1. CASE q = r
        BY <1>1, <1>4, <2>2, <3>1
      <3>2. CASE q # r
        BY <1>1, <1>2, <2>2, <3>2 DEF RunsFit
      <3> QED
        BY <3>1, <3>2
    <2>3. id' = id /\ runs' = runs
      OBVIOUS
    <2> QED
      BY <2>1, <2>2, <2>3 DEF RunsFit, Unraced
  <1>9. DenialsFit'
    <2> SUFFICES ASSUME NEW q \in Requests \ raced', audit[q]["denied"] > 0
                 PROVE  /\ runs[q] = 0 /\ requests'[q].status = "approved"
                        /\ \A u \in Threads : pc'[u] \in Approving => id[u] # q
      BY DEF DenialsFit
    <2>1. q # r /\ q \notin raced
      BY <1>2, <1>4
    <2> QED
      BY <1>1, <1>3, <2>1 DEF DenialsFit
  <1>10. (raced \subseteq Present)'
    <2>1. p \in Statuses /\ r \in Present /\ SetStatus(r, p)
      BY DEF Statuses
    <2>2. Present' = Present
      BY <2>1, StatusPresent
    <2> QED
      BY <1>2, <2>1, <2>2
  <1> QED
    BY <1>7, <1>8, <1>9, <1>10 DEF OwnInv

LEMMA RefreshKeeps ==
    ASSUME WorkflowInv, NEW t \in Threads, Refresh(t)
    PROVE  OwnInv'
  <1> USE DEF WorkflowInv, TypeInv, TypeOK, HandlerTypes
  <1>1. CASE RefreshRead(t) \/ RefreshDrop(t)
    <2>1. UNCHANGED <<requests, pc, id, runs, audit, raced>>
      BY <1>1 DEF RefreshRead, RefreshDrop, store
    <2> QED
      BY <2>1 DEF OwnInv, ApproversOwn, RunsFit, DenialsFit, Unraced, StatusOf, Present
  <1>2. CASE RefreshExpire(t)
    <2>1. id[t] \in Present /\ seen[t] = "pending" /\ pc[t] \in Steps
      BY <1>2 DEF RefreshExpire, RequestsKnown, StepsFit
    <2>2. pc' = [pc EXCEPT ![t] = pc[t]]
      BY <1>2 DEF RefreshExpire
    <2> QED
      BY <1>2, <2>1, <2>2, AnswerKeeps DEF RefreshExpire
  <1> QED
    BY <1>1, <1>2 DEF Refresh

(* The handler that ran the operation calls its request executed.          *)
LEMMA MarkKeeps ==
    ASSUME WorkflowInv, NEW t \in Threads, MarkWrite(t)
    PROVE  OwnInv'
  <1> USE DEF WorkflowInv, TypeInv, TypeOK, HandlerTypes
  <1>1. pc[t] = "mark"
    BY DEF MarkWrite, Refreshed
  <1>2. "mark" \in Approving /\ "mark" \in AfterRun /\ "mark" \notin BeforeRun
    BY DEF Approving, BeforeRun, AfterRun
  <1>3. id[t] \in Present
    BY <1>1, <1>2 DEF RequestsKnown
  <1> PICK r \in Requests : r = id[t]
    BY <1>3 DEF Present
  <1>4. r \notin raced => StatusOf(r) = "approved" /\ runs[r] = 1
    BY <1>1, <1>2 DEF ApproversOwn, RunsFit, Unraced
  <1>5. /\ \A q \in Requests : requests'[q].status =
              IF q = r THEN "executed" ELSE requests[q].status
        /\ \A i : StatusOf(i)' = IF i = r THEN "executed" ELSE StatusOf(i)
    BY <1>3, StatusAfter DEF MarkWrite
  <1>6. /\ \A u \in Threads \ {t} : pc'[u] = pc[u]
        /\ pc'[t] = "mark_drop"
        /\ UNCHANGED <<id, audit, runs, raced>>
    BY DEF MarkWrite, Goto
  <1>7. r \notin raced => \A u \in Threads \ {t} : pc[u] \in Approving => id[u] # r
    BY <1>1, <1>2 DEF ApproversOwn, Unraced
  <1>8. "mark_drop" \in Approving /\ "mark_drop" \in AfterRun /\ "mark_drop" \notin BeforeRun
    BY DEF Approving, BeforeRun, AfterRun
  <1>9. \A u \in Threads : pc'[u] \in Approving => pc[u] \in Approving
    BY <1>1, <1>2, <1>6
  <1>10. ApproversOwn'
    <2>1. ASSUME NEW u \in Threads, pc'[u] \in Approving, id[u] \notin raced
          PROVE  /\ StatusOf(id[u])' \in {"approved", "executed"}
                 /\ pc'[u] \notin {"mark_drop", "log_executed"} => StatusOf(id[u])' = "approved"
      <3>1. CASE id[u] = r
        BY <1>5, <1>6, <1>7, <2>1, <3>1
      <3>2. CASE id[u] # r
        BY <1>5, <1>6, <2>1, <3>2 DEF ApproversOwn, Unraced
      <3> QED
        BY <3>1, <3>2
    <2> QED
      BY <1>6, <1>9, <2>1 DEF ApproversOwn, Unraced
  <1>11. RunsFit'
    <2>1. ASSUME NEW u \in Threads, id[u] \notin raced
          PROVE  /\ pc'[u] \in BeforeRun => runs[id[u]] = 0
                 /\ pc'[u] \in AfterRun  => runs[id[u]] = 1
      BY <1>4, <1>6, <1>8, <2>1 DEF RunsFit, Unraced
    <2>2. ASSUME NEW q \in Requests \ raced
          PROVE  /\ runs[q] \in {0, 1}
                 /\ requests'[q].status \in {"missing", "pending", "rejected", "expired"}
                       => runs[q] = 0
                 /\ requests'[q].status = "executed" => runs[q] = 1
      BY <1>4, <1>5, <2>2 DEF RunsFit
    <2> QED
      BY <1>6, <2>1, <2>2 DEF RunsFit, Unraced
  <1>12. DenialsFit'
    <2> SUFFICES ASSUME NEW q \in Requests \ raced, audit[q]["denied"] > 0
                 PROVE  /\ runs[q] = 0 /\ requests'[q].status = "approved"
                        /\ \A u \in Threads : pc'[u] \in Approving => id[u] # q
      BY <1>6 DEF DenialsFit
    <2>1. q # r
      BY <1>1, <1>2 DEF DenialsFit
    <2> QED
      BY <1>5, <1>9, <2>1 DEF DenialsFit
  <1>13. (raced \subseteq Present)'
    <2>1. Present' = Present
      BY <1>3, StatusPresent DEF MarkWrite, Statuses
    <2> QED
      BY <1>6, <2>1
  <1> QED
    BY <1>10, <1>11, <1>12, <1>13 DEF OwnInv

(* The operation runs, and the handler records it or an exception ends it. *)
LEMMA AttemptKeeps ==
    ASSUME WorkflowInv, NEW t \in Threads, pc[t] = "execute",
           runs' = [runs EXCEPT ![id[t]] = @ + 1],
           UNCHANGED <<requests, audit, raced>>,
           \A u \in Threads \ {t} : id'[u] = id[u],
           \/ Goto(t, "log_ran") /\ id' = id
           \/ Goto(t, "idle")
    PROVE  OwnInv'
  <1> USE DEF WorkflowInv, TypeInv, TypeOK, HandlerTypes, OtherTypes
  <1>1. "execute" \in BeforeRun /\ "execute" \in Approving /\ "execute" \notin AfterRun
    BY DEF Approving, BeforeRun, AfterRun
  <1>2. id[t] \in Requests
    BY <1>1 DEF RequestsKnown, Present
  <1> PICK r \in Requests : r = id[t]
    BY <1>2
  <1>3. r \notin raced =>
           /\ StatusOf(r) = "approved" /\ runs[r] = 0
           /\ \A u \in Threads \ {t} : pc[u] \in Approving => id[u] # r
    BY <1>1 DEF ApproversOwn, RunsFit, Unraced
  <1>4. \A q \in Requests : runs'[q] = IF q = r THEN runs[r] + 1 ELSE runs[q]
    OBVIOUS
  <1>5. /\ \A u \in Threads \ {t} : pc'[u] = pc[u]
        /\ pc'[t] \in {"log_ran", "idle"}
        /\ pc'[t] = "log_ran" => id'[t] = id[t]
    BY DEF Goto
  <1>6. /\ "log_ran" \in AfterRun /\ "log_ran" \notin BeforeRun
        /\ "idle" \notin Approving /\ "idle" \notin BeforeRun /\ "idle" \notin AfterRun
    BY DEF Approving, BeforeRun, AfterRun
  <1>7. \A u \in Threads : pc'[u] \in Approving => id'[u] = id[u] /\ pc[u] \in Approving
    BY <1>1, <1>5, <1>6
  <1>8. ApproversOwn'
    <2>1. \A i : StatusOf(i)' = StatusOf(i)
      BY DEF StatusOf
    <2>2. \A u \in Threads : pc'[u] \in Approving /\ pc'[u] # "log_ran" => u # t /\ pc'[u] = pc[u]
      BY <1>5, <1>6
    <2> QED
      BY <1>3, <1>5, <1>7, <2>1, <2>2 DEF ApproversOwn, Unraced
  <1>9. RunsFit'
    <2>1. ASSUME NEW u \in Threads, id'[u] \notin raced
          PROVE  /\ pc'[u] \in BeforeRun => runs'[id'[u]] = 0
                 /\ pc'[u] \in AfterRun  => runs'[id'[u]] = 1
      <3>1. CASE u = t
        BY <1>3, <1>4, <1>5, <1>6, <2>1, <3>1
      <3>2. CASE u # t
        <4>1. pc'[u] \in Approving => id[u] \in Requests /\ id[u] # r
          BY <1>3, <1>7, <2>1, <3>2 DEF RequestsKnown, Present
        <4> QED
          BY <1>4, <1>5, <2>1, <3>2, <4>1 DEF RunsFit, Unraced, Approving
      <3> QED
        BY <3>1, <3>2
    <2>2. ASSUME NEW q \in Requests \ raced
          PROVE  /\ runs'[q] \in {0, 1}
                 /\ requests[q].status \in {"missing", "pending", "rejected", "expired"}
                       => runs'[q] = 0
                 /\ requests[q].status = "executed" => runs'[q] = 1
      BY <1>3, <1>4, <2>2 DEF RunsFit, StatusOf
    <2> QED
      BY <2>1, <2>2 DEF RunsFit, Unraced
  <1>10. DenialsFit'
    <2> SUFFICES ASSUME NEW q \in Requests \ raced, audit[q]["denied"] > 0
                 PROVE  /\ runs'[q] = 0 /\ requests[q].status = "approved"
                        /\ \A u \in Threads : pc'[u] \in Approving => id'[u] # q
      BY DEF DenialsFit
    <2>1. q # r
      BY <1>1 DEF DenialsFit
    <2> QED
      BY <1>4, <1>7, <2>1 DEF DenialsFit
  <1>11. (raced \subseteq Present)'
    BY DEF Present
  <1> QED
    BY <1>8, <1>9, <1>10, <1>11 DEF OwnInv

(* The approval that found its request denied is the last of its handlers. *)
LEMMA DenialKeeps ==
    ASSUME WorkflowInv, NEW t \in Threads, Append(t, "log_denied", "denied", "idle")
    PROVE  OwnInv'
  <1> USE DEF WorkflowInv, TypeInv, TypeOK, HandlerTypes, OtherTypes
  <1>1. "log_denied" \in BeforeRun /\ "log_denied" \in Approving /\ "idle" \notin Approving
    BY DEF Approving, BeforeRun, AfterRun
  <1>2. pc[t] = "log_denied" /\ Return(t) /\ Logged(id[t], "denied")
        /\ UNCHANGED <<requests, runs, raced>>
    BY DEF Append, store
  <1> PICK r \in Requests : r = id[t]
    BY <1>1, <1>2 DEF RequestsKnown, Present
  <1>3. r \notin raced =>
           /\ StatusOf(r) = "approved" /\ runs[r] = 0
           /\ \A u \in Threads \ {t} : pc[u] \in Approving => id[u] # r
    BY <1>1, <1>2 DEF ApproversOwn, RunsFit, Unraced
  <1>4. /\ \A u \in Threads \ {t} : pc'[u] = pc[u] /\ id'[u] = id[u]
        /\ pc'[t] = "idle"
    BY <1>2 DEF Return, Goto
  <1>5. \A i : StatusOf(i)' = StatusOf(i)
    BY <1>2 DEF StatusOf
  <1>6. \A u \in Threads : pc'[u] \in Approving => u # t /\ pc'[u] = pc[u] /\ id'[u] = id[u]
    BY <1>1, <1>4
  <1>7. ApproversOwn'
    BY <1>2, <1>5, <1>6 DEF ApproversOwn, Unraced
  <1>8. RunsFit'
    <2>1. \A u \in Threads : pc'[u] \in BeforeRun \cup AfterRun =>
             pc'[u] = pc[u] /\ id'[u] = id[u]
      BY <1>6 DEF Approving
    <2> QED
      BY <1>2, <2>1 DEF RunsFit, Unraced
  <1>9. DenialsFit'
    <2> SUFFICES ASSUME NEW q \in Requests \ raced, audit'[q]["denied"] > 0
                 PROVE  /\ runs[q] = 0 /\ requests[q].status = "approved"
                        /\ \A u \in Threads : pc'[u] \in Approving => id'[u] # q
      BY <1>2 DEF DenialsFit
    <2>1. CASE q = r
      BY <1>3, <1>6, <2>1 DEF StatusOf
    <2>2. CASE q # r
      <3>1. audit'[q]["denied"] = audit[q]["denied"]
        BY <1>2, <2>2 DEF Logged, Ids, Events
      <3> QED
        BY <1>6, <3>1 DEF DenialsFit
    <2> QED
      BY <2>1, <2>2
  <1>10. (raced \subseteq Present)'
    BY <1>2 DEF Present
  <1> QED
    BY <1>7, <1>8, <1>9, <1>10 DEF OwnInv

(* A new request is one that no thread knew of.                            *)
LEMMA CreateKeeps ==
    ASSUME WorkflowInv, Create
    PROVE  OwnInv'
  <1> USE DEF WorkflowInv, TypeInv
  <1>1. PICK r \in Requests \ Present, tool \in ApprovableTools :
          requests' = [requests EXCEPT ![r] =
              [status |-> "pending", tool |-> tool, expires_at |-> now + TTL]]
    BY DEF Create
  <1>2. UNCHANGED <<pc, id, audit, runs, raced>>
    BY DEF Create, handler
  <1>3. requests[r].status = "missing" /\ r \notin raced
    BY DEF Present, NoRequest
  <1>4. \A q \in Requests : requests'[q].status =
            IF q = r THEN "pending" ELSE requests[q].status
    BY <1>1 DEF TypeOK, StoreTypes
  <1>5. \A i : i # r => StatusOf(i)' = StatusOf(i)
    BY <1>4 DEF StatusOf
  <1>6. /\ \A u \in Threads : pc[u] \in Approving => id[u] # r
        /\ runs[r] = 0
        /\ ~(audit[r]["denied"] > 0)
    BY <1>3 DEF RequestsKnown, RunsFit, DenialsFit
  <1>7. ApproversOwn'
    BY <1>2, <1>5, <1>6 DEF ApproversOwn, Unraced
  <1>8. RunsFit'
    BY <1>2, <1>4, <1>6 DEF RunsFit, Unraced
  <1>9. DenialsFit'
    BY <1>2, <1>4, <1>6 DEF DenialsFit
  <1>10. (raced \subseteq Present)'
    <2>1. Present \subseteq Present'
      BY CreateTypes
    <2> QED
      BY <1>2, <2>1
  <1> QED
    BY <1>7, <1>8, <1>9, <1>10 DEF OwnInv

(* Steps of the agent and the clock that touch no request.                 *)
LEMMA ElsewhereKeeps ==
    ASSUME WorkflowInv, UNCHANGED <<requests, handler, runs, raced>>,
           \A r \in Requests : audit'[r]["denied"] = audit[r]["denied"]
    PROVE  OwnInv'
  <1>1. UNCHANGED <<requests, pc, id, runs, raced>>
    BY DEF handler
  <1>2. ApproversOwn' /\ (raced \subseteq Present)'
    BY <1>1 DEF WorkflowInv, ApproversOwn, Unraced, StatusOf, Present
  <1>3. RunsFit' /\ DenialsFit'
    BY <1>1 DEF WorkflowInv, RunsFit, Unraced, DenialsFit
  <1> QED
    BY <1>2, <1>3 DEF OwnInv

LEMMA AgentKeeps ==
    ASSUME WorkflowInv, AgentStep
    PROVE  OwnInv'
  <1>1. CASE Create
    BY <1>1, CreateKeeps
  <1>2. CASE Attach
    BY <1>2, ElsewhereKeeps DEF Attach
  <1>3. CASE AgentAppends
    <2>1. audit \in [Ids -> [Events -> Nat]]
      BY DEF WorkflowInv, TypeInv, TypeOK, OtherTypes
    <2>2. \A r \in Requests : audit'[r]["denied"] = audit[r]["denied"]
      BY <1>3, <2>1 DEF AgentAppends, Logged, Ids, Events
    <2> QED
      BY <1>3, <2>2, ElsewhereKeeps DEF AgentAppends, store
  <1>4. CASE AgentAppendFails
    BY <1>4, ElsewhereKeeps DEF AgentAppendFails, store
  <1> QED
    BY <1>1, <1>2, <1>3, <1>4 DEF AgentStep

(* Audit appends that record no denial.                                    *)
LEMMA AppendKeeps ==
    ASSUME WorkflowInv, NEW t \in Threads, NEW step, NEW e, NEW s \in Steps,
           Append(t, step, e, s), e # "denied",
           s \in Approving => step \in Approving,
           s \in BeforeRun => step \in BeforeRun,
           s \in AfterRun  => step \in AfterRun,
           step \in {"mark_drop", "log_executed"} => s = "idle",
           s # "mark_drop"
    PROVE  OwnInv'
  <1>1. "idle" \notin Approving
    BY DEF Approving, BeforeRun, AfterRun
  <1>2. pc[t] = step /\ Goto(t, s) /\ UNCHANGED <<requests, runs, raced>>
    BY DEF Append, Return, store
  <1>3. /\ \A u \in Threads \ {t} : id'[u] = id[u]
        /\ s # "idle" => id'[t] = id[t]
    BY DEF Append, Return, WorkflowInv, TypeInv, TypeOK, HandlerTypes
  <1>4. \A r \in Requests : audit'[r]["denied"] = audit[r]["denied"]
    BY DEF Append, Logged, WorkflowInv, TypeInv, TypeOK, OtherTypes, Ids, Events
  <1>5. OwnInv'
    <2>1. /\ s \in Approving => id'[t] = id[t] /\ pc[t] \in Approving
          /\ s \in BeforeRun => pc[t] \in BeforeRun
          /\ s \in AfterRun  => pc[t] \in AfterRun
          /\ pc[t] \in {"mark_drop", "log_executed"} /\ s \in Approving => s = "log_executed"
      BY <1>1, <1>2, <1>3
    <2> QED
      BY <1>2, <1>3, <1>4, <2>1, Moves DEF OwnInv
  <1> QED
    BY <1>5

(* Moves that leave audit and id alone as well.                               *)
LEMMA StepKeeps ==
    ASSUME WorkflowInv, NEW t \in Threads, NEW s \in Steps, Goto(t, s),
           UNCHANGED <<requests, runs, audit, id, raced>>,
           s \in Approving => pc[t] \in Approving,
           s \in BeforeRun => pc[t] \in BeforeRun,
           s \in AfterRun  => pc[t] \in AfterRun,
           pc[t] \in {"mark_drop", "log_executed"} /\ s \in Approving => s = "log_executed",
           s # "mark_drop"
    PROVE  OwnInv'
  BY Moves DEF OwnInv

(* A handler that returns, or starts, without a request in hand.           *)
LEMMA AsideKeeps ==
    ASSUME WorkflowInv, NEW t \in Threads, NEW s \in {"idle", "get", "reject_get", "list"},
           Goto(t, s), UNCHANGED <<requests, runs, audit, raced>>,
           \A u \in Threads \ {t} : id'[u] = id[u]
    PROVE  OwnInv'
  <1>1. s \in Steps /\ s \notin Approving /\ s \notin BeforeRun /\ s \notin AfterRun
        /\ s # "mark_drop"
    BY DEF Steps, RefreshSites, Locals, Approving, BeforeRun, AfterRun
  <1> QED
    BY <1>1, Moves DEF OwnInv

LEMMA ApproveKeeps ==
    ASSUME WorkflowInv, NEW t \in Threads, ApproveStep(t)
    PROVE  OwnInv'
  <1> USE DEF Steps, RefreshSites, Locals
  <1>1. CASE GetReturns(t)
    BY <1>1, StepKeeps DEF GetReturns, store, Approving, BeforeRun, AfterRun
  <1>2. CASE ApproveWrite(t)
    <2>1. /\ SetStatus(id[t], "approved") /\ NoteRace(t, {"pending"})
          /\ pc' = [pc EXCEPT ![t] = "log_approved"] /\ UNCHANGED <<id, audit, runs>>
      BY <1>2 DEF ApproveWrite, Goto, Refreshed
    <2>2. id[t] \in Present
      BY <1>2 DEF ApproveWrite, Refreshed, WorkflowInv, TypeInv, RequestsKnown
    <2>3. "log_approved" \in Steps /\ ("log_approved" \in Approving => "log_approved" = "log_approved")
      BY DEF Approving, BeforeRun, AfterRun
    <2> QED
      BY <2>1, <2>2, <2>3, AnswerKeeps
  <1>3. CASE ApproveRefused(t)
    BY <1>3, StepKeeps DEF ApproveRefused, store, Approving, BeforeRun, AfterRun
  <1>4. CASE GetPayload(t)
    BY <1>4, StepKeeps DEF GetPayload, Refreshed, store, Approving, BeforeRun, AfterRun
  <1>5. CASE Recheck(t)
    <2>1. Goto(t, "deny") \/ Goto(t, "execute")
      BY <1>5 DEF Recheck
    <2> QED
      BY <1>5, <2>1, StepKeeps DEF Recheck, store, Approving, BeforeRun, AfterRun
  <1>6. CASE Deny(t)
    BY <1>6, StepKeeps DEF Deny, Approving, BeforeRun, AfterRun
  <1>7. CASE Attempt(t)
    BY <1>7, AttemptKeeps DEF Attempt, store
  <1>8. CASE SetupError(t)
    BY <1>8, StepKeeps DEF SetupError, store, Approving, BeforeRun, AfterRun
  <1>9. CASE DiscardUnrun(t)
    <2>1. \A u \in Threads \ {t} : id'[u] = id[u]
      BY <1>9 DEF DiscardUnrun, Return, WorkflowInv, TypeInv, TypeOK, HandlerTypes
    <2> QED
      BY <1>9, <2>1, AsideKeeps DEF DiscardUnrun, Return
  <1>10. CASE MarkWrite(t)
    BY <1>10, MarkKeeps
  <1>11. CASE MarkDrop(t)
    BY <1>11, StepKeeps DEF MarkDrop, Approving, BeforeRun, AfterRun
  <1>12. CASE MarkRefused(t)
    BY <1>12, StepKeeps DEF MarkRefused, Refreshed, store, Approving, BeforeRun, AfterRun
  <1>13. CASE ApproveAppends(t)
    <2>1. CASE Append(t, "log_denied", "denied", "idle")
      BY <2>1, DenialKeeps
    <2>2. CASE Append(t, "log_refused", "refused", "idle")
      BY <2>2, AppendKeeps DEF Approving, BeforeRun, AfterRun
    <2>3. CASE Append(t, "log_approved", "approved", "payload")
      BY <2>3, AppendKeeps DEF Approving, BeforeRun, AfterRun
    <2>4. CASE Append(t, "log_ran", "ran", "mark")
      BY <2>4, AppendKeeps DEF Approving, BeforeRun, AfterRun
    <2>5. CASE Append(t, "log_not_run", "not_run", "discard")
      BY <2>5, AppendKeeps DEF Approving, BeforeRun, AfterRun
    <2>6. CASE Append(t, "log_executed", "executed", "idle")
      BY <2>6, AppendKeeps DEF Approving, BeforeRun, AfterRun
    <2> QED
      BY <1>13, <2>1, <2>2, <2>3, <2>4, <2>5, <2>6 DEF ApproveAppends
  <1> QED
    BY <1>1, <1>2, <1>3, <1>4, <1>5, <1>6, <1>7, <1>8, <1>9, <1>10, <1>11, <1>12, <1>13
       DEF ApproveStep

LEMMA RejectKeeps ==
    ASSUME WorkflowInv, NEW t \in Threads, RejectStep(t)
    PROVE  OwnInv'
  <1> USE DEF Steps, RefreshSites, Locals
  <1>1. CASE RejectGetReturns(t)
    BY <1>1, StepKeeps DEF RejectGetReturns, store, Approving, BeforeRun, AfterRun
  <1>2. CASE RejectWrite(t)
    <2>1. /\ SetStatus(id[t], "rejected") /\ NoteRace(t, {"pending"})
          /\ pc' = [pc EXCEPT ![t] = "reject_drop"] /\ UNCHANGED <<id, audit, runs>>
      BY <1>2 DEF RejectWrite, Goto, Refreshed
    <2>2. id[t] \in Present
      BY <1>2 DEF RejectWrite, Refreshed, WorkflowInv, TypeInv, RequestsKnown
    <2>3. "reject_drop" \in Steps /\ ("reject_drop" \in Approving => "reject_drop" = "log_approved")
      BY DEF Approving, BeforeRun, AfterRun
    <2> QED
      BY <2>1, <2>2, <2>3, AnswerKeeps
  <1>3. CASE RejectDrop(t)
    BY <1>3, StepKeeps DEF RejectDrop, Approving, BeforeRun, AfterRun
  <1>4. CASE RejectRefused(t)
    <2>1. \A u \in Threads \ {t} : id'[u] = id[u]
      BY <1>4 DEF RejectRefused, Return, WorkflowInv, TypeInv, TypeOK, HandlerTypes
    <2> QED
      BY <1>4, <2>1, AsideKeeps DEF RejectRefused, Return, store
  <1>5. CASE RejectAppends(t)
    BY <1>5, AppendKeeps DEF RejectAppends, Approving, BeforeRun, AfterRun
  <1> QED
    BY <1>1, <1>2, <1>3, <1>4, <1>5 DEF RejectStep

LEMMA CallsKeep ==
    ASSUME WorkflowInv, NEW t \in Threads,
           \/ ReceiveApprove(t) \/ ReceiveReject(t) \/ ReceiveList(t)
           \/ ListNext(t) \/ Fault(t)
    PROVE  OwnInv'
  <1> USE DEF WorkflowInv, TypeInv, TypeOK, HandlerTypes
  <1>1. CASE ReceiveApprove(t) \/ ReceiveReject(t)
    <2>1. \A u \in Threads \ {t} : id'[u] = id[u]
      BY <1>1 DEF ReceiveApprove, ReceiveReject, Receive
    <2> QED
      BY <1>1, <2>1, AsideKeeps DEF ReceiveApprove, ReceiveReject, Receive, store
  <1>2. CASE ReceiveList(t)
    <2>1. \A u \in Threads \ {t} : id'[u] = id[u]
      BY <1>2 DEF ReceiveList, ListFrom
    <2> QED
      BY <1>2, <2>1, AsideKeeps DEF ReceiveList, store
  <1>3. CASE ListNext(t)
    <2>1. \A u \in Threads \ {t} : id'[u] = id[u]
      BY <1>3 DEF ListNext, ListFrom, Return
    <2>2. Goto(t, "idle") \/ Goto(t, "list")
      BY <1>3 DEF ListNext, Return
    <2> QED
      BY <1>3, <2>1, <2>2, AsideKeeps DEF ListNext, store
  <1>4. CASE HandlerRaises(t)
    <2>1. \A u \in Threads \ {t} : id'[u] = id[u]
      BY <1>4 DEF HandlerRaises, Return
    <2> QED
      BY <1>4, <2>1, AsideKeeps DEF HandlerRaises, Return, store
  <1>5. CASE AttemptRaises(t)
    <2>1. \A u \in Threads \ {t} : id'[u] = id[u]
      BY <1>5 DEF AttemptRaises, Return
    <2> QED
      BY <1>5, <2>1, AttemptKeeps DEF AttemptRaises, Return, store
  <1> QED
    BY <1>1, <1>2, <1>3, <1>4, <1>5 DEF Fault

LEMMA WorkflowInvStep == WorkflowInv /\ [Next]_vars => WorkflowInv'
  <1> SUFFICES ASSUME WorkflowInv, [Next]_vars PROVE WorkflowInv'
    OBVIOUS
  <1>1. TypeInv'
    BY TypeInvStep DEF WorkflowInv
  <1>2. OwnInv'
    <2>1. CASE Tick
      BY <2>1, ElsewhereKeeps DEF Tick, store
    <2>2. CASE UNCHANGED vars
      BY <2>2, ElsewhereKeeps DEF vars, store
    <2> QED
      BY <2>1, <2>2, RefreshKeeps, ApproveKeeps, RejectKeeps, CallsKeep, AgentKeeps
         DEF Next, Proceed
  <1> QED
    BY <1>1, <1>2 DEF WorkflowInv, OwnInv

(* However the threads, the agent and the clock interleave, inside and     *)
(* between store calls, WorkflowInv holds.                                 *)
THEOREM WorkflowCorrect == Spec => []WorkflowInv
  BY WorkflowInvInit, WorkflowInvStep, PTL DEF Spec

(* approve_request attempts the operation of a request at most once,       *)
(* whatever else is approved, rejected, listed or created meanwhile,       *)
(* unless an answer to this request was written over another one.          *)
THEOREM RunsAtMostOnce == Spec => []OnceUnlessRaced
  <1>1. WorkflowInv => OnceUnlessRaced
    BY DEF WorkflowInv, RunsFit, OnceUnlessRaced
  <1> QED
    BY <1>1, WorkflowCorrect, PTL

(* A request whose status is rejected or expired has not run: what runs a  *)
(* refused request is a write of one answer over another, nothing else.    *)
THEOREM RefusedNeverExecuted == Spec => []RefusedNeverRuns
  <1>1. WorkflowInv => RefusedNeverRuns
    BY DEF WorkflowInv, RunsFit, RefusedNeverRuns
  <1> QED
    BY <1>1, WorkflowCorrect, PTL

(* A request whose re-check denied execution stays unexecuted, but for a   *)
(* second approval that overlapped the first.                              *)
THEOREM DenialIsFinal == Spec => []DeniedIsFinal
  <1>1. WorkflowInv => DeniedIsFinal
    BY DEF WorkflowInv, DenialsFit, DeniedIsFinal
  <1> QED
    BY <1>1, WorkflowCorrect, PTL

-----------------------------------------------------------------------------
(* The workflow implements ApprovalLifecycle                               *)

(* A status write of the store is the step of the lifecycle that changes   *)
(* that one phase.                                                         *)
LEMMA PhaseAfter ==
    ASSUME TypeInv, NEW r \in Present, NEW s, SetStatus(r, s),
           raced \subseteq raced', raced' \subseteq raced \cup {r}
    PROVE  [q \in Requests |-> PhaseOf(q)]' =
              [[q \in Requests |-> PhaseOf(q)] EXCEPT ![r] =
                  IF r \in raced' THEN "raced" ELSE s]
  <1>1. \A q \in Requests : requests'[q].status = IF q = r THEN s ELSE requests[q].status
    BY StatusAfter
  <1> QED
    BY <1>1 DEF Present, PhaseOf

LEMMA InitMaps == Init => Lifecycle!Init
  BY DEF Init, Lifecycle!Init, PhaseOf, NoRequest

(* The phases and attempts are what they were.                             *)
LEMMA Stutters ==
    ASSUME UNCHANGED <<requests, runs, raced>>
    PROVE  UNCHANGED Lifecycle!vars
  BY DEF Lifecycle!vars, PhaseOf

(* An answer is the lifecycle's, a race, or one more write in a race.      *)
LEMMA AnswerMaps ==
    ASSUME WorkflowInv, NEW t \in Threads, id[t] \in Present,
           NEW s \in {"approved", "rejected", "expired"},
           SetStatus(id[t], s), UNCHANGED runs,
           NoteRace(t, {"pending"}) \/ (s = "expired" /\ NoteRace(t, {"pending", "expired"}))
    PROVE  Lifecycle!Next \/ UNCHANGED Lifecycle!vars
  <1> PICK r \in Present : r = id[t]
    OBVIOUS
  <1> DEFINE phases == [q \in Requests |-> PhaseOf(q)]
  <1>1. r \in Requests /\ requests[r].status \in Statuses /\ StatusOf(r) = requests[r].status
    BY DEF Present, StatusOf, WorkflowInv, TypeInv, TypeOK, StoreTypes, RequestRecords
  <1>2. /\ raced \subseteq raced' /\ raced' \subseteq raced \cup {r}
        /\ r \notin raced' => StatusOf(r) = "pending" \/ (s = "expired" /\ StatusOf(r) = s)
        /\ r \in raced' => r \in raced \/ StatusOf(r) # "pending"
    BY DEF NoteRace
  <1>3. phases' = [phases EXCEPT ![r] = IF r \in raced' THEN "raced" ELSE s]
    BY <1>2, PhaseAfter DEF WorkflowInv
  <1>4. phases[r] = PhaseOf(r)
    BY <1>1
  <1>5. CASE r \in raced
    <2>1. phases' = phases
      BY <1>2, <1>3, <1>5 DEF PhaseOf
    <2> QED
      BY <2>1 DEF Lifecycle!vars
  <1>6. CASE r \notin raced /\ r \in raced'
    <2>1. phases[r] \in {"approved", "rejected", "expired", "executed"}
      BY <1>1, <1>2, <1>4, <1>6 DEF PhaseOf, Statuses
    <2>2. Lifecycle!Race(r)
      BY <1>3, <1>6, <2>1 DEF Lifecycle!Race, Lifecycle!Answered
    <2> QED
      BY <1>1, <2>2 DEF Lifecycle!Next
  <1>7. CASE r \notin raced' /\ StatusOf(r) = "pending"
    <2>1. phases[r] = "pending"
      BY <1>1, <1>2, <1>4, <1>7 DEF PhaseOf
    <2>2. Lifecycle!Answer(r, s)
      BY <1>3, <1>7, <2>1 DEF Lifecycle!Answer
    <2> QED
      BY <1>1, <2>2 DEF Lifecycle!Next
  <1>8. CASE r \notin raced' /\ StatusOf(r) = s
    <2>1. phases[r] = s
      BY <1>1, <1>2, <1>4, <1>8 DEF PhaseOf
    <2>2. phases' = phases
      BY <1>3, <1>8, <2>1
    <2> QED
      BY <2>2 DEF Lifecycle!vars
  <1> QED
    BY <1>2, <1>5, <1>6, <1>7, <1>8

LEMMA AttemptMaps ==
    ASSUME WorkflowInv, NEW t \in Threads, pc[t] = "execute",
           runs' = [runs EXCEPT ![id[t]] = @ + 1], UNCHANGED <<requests, raced>>
    PROVE  Lifecycle!Next
  <1>1. "execute" \in BeforeRun /\ "execute" \in Approving
    BY DEF Approving, BeforeRun
  <1> PICK r \in Requests : r = id[t]
    BY <1>1 DEF WorkflowInv, TypeInv, RequestsKnown, Present
  <1>2. r \notin raced => requests[r].status = "approved" /\ runs[r] = 0
    BY <1>1 DEF WorkflowInv, ApproversOwn, RunsFit, Unraced, StatusOf
  <1>3. runs' = [runs EXCEPT ![r] = runs[r] + 1] /\ runs[r] \in Nat
    BY DEF WorkflowInv, TypeInv, TypeOK, OtherTypes
  <1>4. CASE r \in raced
    <2>1. Lifecycle!RunAgain(r)
      BY <1>3, <1>4 DEF Lifecycle!RunAgain, PhaseOf
    <2> QED
      BY <2>1 DEF Lifecycle!Next
  <1>5. CASE r \notin raced
    <2>1. runs' = [runs EXCEPT ![r] = 1]
      <3>1. runs[r] + 1 = 1
        BY <1>2, <1>5
      <3> QED
        BY <1>3, <3>1
    <2>2. UNCHANGED [q \in Requests |-> PhaseOf(q)]
      BY DEF PhaseOf
    <2>3. [q \in Requests |-> PhaseOf(q)][r] = "approved"
      BY <1>2, <1>5 DEF PhaseOf
    <2>4. Lifecycle!Run(r)
      BY <1>2, <1>5, <2>1, <2>2, <2>3 DEF Lifecycle!Run
    <2> QED
      BY <2>4 DEF Lifecycle!Next
  <1> QED
    BY <1>4, <1>5

LEMMA MarkMaps ==
    ASSUME WorkflowInv, NEW t \in Threads, MarkWrite(t)
    PROVE  Lifecycle!Next \/ UNCHANGED Lifecycle!vars
  <1>1. pc[t] = "mark" /\ SetStatus(id[t], "executed") /\ UNCHANGED <<runs, raced>>
    BY DEF MarkWrite, Refreshed
  <1>2. "mark" \in Approving /\ "mark" \in AfterRun
    BY DEF Approving, AfterRun
  <1> PICK r \in Present : r = id[t]
    BY <1>1, <1>2 DEF WorkflowInv, TypeInv, RequestsKnown
  <1> DEFINE phases == [q \in Requests |-> PhaseOf(q)]
  <1>3. r \in Requests
    BY DEF Present
  <1>4. r \notin raced => requests[r].status = "approved" /\ runs[r] = 1
    BY <1>1, <1>2, <1>3 DEF WorkflowInv, ApproversOwn, RunsFit, Unraced, StatusOf
  <1>5. phases' = [phases EXCEPT ![r] = IF r \in raced THEN "raced" ELSE "executed"]
    BY <1>1, PhaseAfter DEF WorkflowInv
  <1>6. CASE r \in raced
    <2>1. phases' = phases
      BY <1>3, <1>5, <1>6 DEF PhaseOf
    <2> QED
      BY <1>1, <2>1 DEF Lifecycle!vars
  <1>7. CASE r \notin raced
    <2>1. phases[r] = "approved"
      BY <1>3, <1>4, <1>7 DEF PhaseOf
    <2>2. Lifecycle!Finish(r)
      BY <1>1, <1>4, <1>5, <1>7, <2>1 DEF Lifecycle!Finish
    <2> QED
      BY <1>3, <2>2 DEF Lifecycle!Next
  <1> QED
    BY <1>6, <1>7

LEMMA CreateMaps ==
    ASSUME WorkflowInv, Create
    PROVE  Lifecycle!Next
  <1>1. PICK r \in Requests \ Present, tool \in ApprovableTools :
          requests' = [requests EXCEPT ![r] =
              [status |-> "pending", tool |-> tool, expires_at |-> now + TTL]]
    BY DEF Create
  <1>2. requests[r].status = "missing" /\ r \notin raced /\ UNCHANGED <<runs, raced>>
    BY DEF Present, NoRequest, WorkflowInv, Create
  <1>3. \A q \in Requests : requests'[q].status =
            IF q = r THEN "pending" ELSE requests[q].status
    BY <1>1 DEF WorkflowInv, TypeInv, TypeOK, StoreTypes
  <1>4. Lifecycle!Create(r)
    BY <1>2, <1>3 DEF Lifecycle!Create, PhaseOf
  <1> QED
    BY <1>4 DEF Lifecycle!Next

(* Every step of a handler that writes a status or runs the operation is a *)
(* step of the lifecycle, or one that the lifecycle does not see.          *)
LEMMA ThreadMaps ==
    ASSUME WorkflowInv, NEW t \in Threads,
           Refresh(t) \/ ApproveStep(t) \/ RejectStep(t) \/ Fault(t)
    PROVE  Lifecycle!Next \/ UNCHANGED Lifecycle!vars
  <1>1. CASE RefreshExpire(t)
    <2>1. id[t] \in Present /\ seen[t] = "pending"
      BY <1>1 DEF RefreshExpire, WorkflowInv, TypeInv, RequestsKnown, StepsFit
    <2> QED
      BY <1>1, <2>1, AnswerMaps DEF RefreshExpire
  <1>2. ASSUME NEW s, Refreshed(t, s), seen[t] = "pending"
        PROVE  id[t] \in Present
    BY <1>2 DEF Refreshed, WorkflowInv, TypeInv, RequestsKnown
  <1>3. CASE ApproveWrite(t)
    BY <1>2, <1>3, AnswerMaps DEF ApproveWrite
  <1>4. CASE RejectWrite(t)
    BY <1>2, <1>4, AnswerMaps DEF RejectWrite
  <1>5. CASE MarkWrite(t)
    BY <1>5, MarkMaps
  <1>6. CASE Attempt(t) \/ AttemptRaises(t)
    BY <1>6, AttemptMaps DEF Attempt, AttemptRaises, store
  <1>7. CASE RefreshRead(t) \/ RefreshDrop(t)
    BY <1>7, Stutters DEF RefreshRead, RefreshDrop, store
  <1>8. CASE \/ GetReturns(t) \/ ApproveRefused(t) \/ GetPayload(t) \/ Recheck(t)
             \/ Deny(t) \/ SetupError(t) \/ DiscardUnrun(t)
    BY <1>8, Stutters DEF GetReturns, ApproveRefused, GetPayload, Recheck, Deny, SetupError,
                DiscardUnrun, store
  <1>9. CASE MarkDrop(t) \/ MarkRefused(t) \/ ApproveAppends(t) \/ HandlerRaises(t)
    BY <1>9, Stutters DEF MarkDrop, MarkRefused, ApproveAppends, Append, HandlerRaises, store
  <1>10. CASE RejectGetReturns(t) \/ RejectDrop(t) \/ RejectRefused(t) \/ RejectAppends(t)
    BY <1>10, Stutters
       DEF RejectGetReturns, RejectDrop, RejectRefused, RejectAppends, Append, store
  <1> QED
    BY <1>1, <1>3, <1>4, <1>5, <1>6, <1>7, <1>8, <1>9, <1>10
       DEF Refresh, ApproveStep, RejectStep, Fault

LEMMA StepMaps ==
    ASSUME WorkflowInv, [Next]_vars
    PROVE  [Lifecycle!Next]_(Lifecycle!vars)
  <1>1. CASE UNCHANGED vars
    BY <1>1, Stutters DEF vars, store
  <1>2. CASE Tick
    BY <1>2, Stutters DEF Tick, store
  <1>3. CASE AgentStep
    BY <1>3, CreateMaps, Stutters
       DEF AgentStep, Attach, AgentAppends, AgentAppendFails, store
  <1>4. ASSUME NEW t \in Threads,
               \/ ReceiveApprove(t) \/ ReceiveReject(t) \/ ReceiveList(t) \/ ListNext(t)
        PROVE  UNCHANGED Lifecycle!vars
    BY <1>4, Stutters
       DEF ReceiveApprove, ReceiveReject, Receive, ReceiveList, ListNext, store
  <1>5. ASSUME NEW t \in Threads,
               Refresh(t) \/ ApproveStep(t) \/ RejectStep(t) \/ Fault(t)
        PROVE  [Lifecycle!Next]_(Lifecycle!vars)
    BY <1>5, ThreadMaps
  <1> QED
    BY <1>1, <1>2, <1>3, <1>4, <1>5 DEF Next, Proceed

(* The store's statuses and the attempts behave as ApprovalLifecycle says: *)
(* one answer, one run after an approval, executed only after the run --   *)
(* and the only way out of that is an answer written over another.         *)
THEOREM ImplementsApprovalLifecycle == Spec => ImplementsLifecycle
  <1>1. Init => Lifecycle!Init
    BY InitMaps
  <1>2. WorkflowInv /\ [Next]_vars => [Lifecycle!Next]_(Lifecycle!vars)
    BY StepMaps
  <1> QED
    BY <1>1, <1>2, WorkflowCorrect, PTL DEF Spec, ImplementsLifecycle, Lifecycle!Spec

(* The operation of a request whose answer was not written over another    *)
(* one is attempted once at most, after an approval, and before the        *)
(* request is called executed (approve_request, the store's answers).      *)
THEOREM RunsFollowApprovals == Spec => []Lifecycle!RunsAreApproved
  <1>1. WorkflowInv => Lifecycle!RunsAreApproved
    BY DEF WorkflowInv, TypeInv, TypeOK, StoreTypes, RequestRecords, NoRequest, Statuses, RunsFit,
           PhaseOf, Lifecycle!RunsAreApproved
  <1> QED
    BY <1>1, WorkflowCorrect, PTL

-----------------------------------------------------------------------------
(* Private payloads.  What has a payload and is answered has somebody who  *)
(* will drop the payload: not always the handler that answered it, since   *)
(* two may have answered it in a race.                                     *)

(* Thread t is about to drop the payload of r ...                          *)
Dropping(t, r) ==
    id[t] = r /\ (pc[t] \in {"mark_drop", "reject_drop"} \/ stage[t] = "drop")

(* ... or approved r and will come to it, unless an exception ends it.     *)
Finishing(t, r) ==
    /\ id[t] = r
    /\ pc[t] \in (BeforeRun \ {"log_denied"}) \cup {"log_ran", "mark"}
    /\ Refreshed(t, "mark") => seen[t] \in {"approved", "executed"}

Dropper(r)  == \E t \in Threads : Dropping(t, r)
Finisher(r) == \E t \in Threads : Dropping(t, r) \/ Finishing(t, r)

(* Whatever has a payload and is answered has a handler that will drop it. *)
PayloadsTended ==
    \A r \in Requests : payloads[r] # NoPayload =>
        /\ requests[r].status # "missing"
        /\ requests[r].status \in {"rejected", "expired", "executed"}
              => r \in late \/ Dropper(r)
        /\ requests[r].status = "approved"
              => r \in late \/ faults > 0 \/ Finisher(r)

(* A step of t may change the status, or drop the payload, of the request  *)
(* t works on; it must leave somebody to tend to the payload.              *)
LEMMA TendedAfter ==
    ASSUME PayloadsTended, NEW t \in Threads, NEW i, i = id[t], late' = late,
           faults \in Nat, faults' \in Nat, faults' >= faults,
           \A u \in Threads \ {t} : /\ pc'[u] = pc[u] /\ stage'[u] = stage[u]
                                    /\ id'[u] = id[u] /\ seen'[u] = seen[u],
           \A r \in Requests : payloads'[r] \in {payloads[r], NoPayload},
           \A r \in Requests \ {i} : requests'[r].status = requests[r].status,
           i \in Requests /\ payloads'[i] # NoPayload =>
               /\ requests'[i].status # "missing"
               /\ requests'[i].status \in {"rejected", "expired", "executed"}
                     => \/ Dropping(t, i)'
                        \/ requests'[i].status = requests[i].status /\ ~Dropping(t, i)
               /\ requests'[i].status = "approved"
                     => \/ Dropping(t, i)' \/ Finishing(t, i)' \/ faults' > 0
                        \/ /\ requests'[i].status = requests[i].status
                           /\ ~Dropping(t, i) /\ ~Finishing(t, i)
    PROVE  PayloadsTended'
  <1> SUFFICES ASSUME NEW r \in Requests, payloads'[r] # NoPayload
               PROVE  /\ requests'[r].status # "missing"
                      /\ requests'[r].status \in {"rejected", "expired", "executed"}
                            => r \in late' \/ Dropper(r)'
                      /\ requests'[r].status = "approved"
                            => r \in late' \/ faults' > 0 \/ Finisher(r)'
    BY DEF PayloadsTended
  <1>1. /\ requests[r].status # "missing"
        /\ requests[r].status \in {"rejected", "expired", "executed"} => r \in late \/ Dropper(r)
        /\ requests[r].status = "approved" => r \in late \/ faults > 0 \/ Finisher(r)
    BY DEF PayloadsTended
  <1>2. \A u \in Threads \ {t} : /\ Dropping(u, r) => Dropping(u, r)'
                                 /\ Finishing(u, r) => Finishing(u, r)'
    BY DEF Dropping, Finishing, Refreshed
  <1>3. Dropper(r) /\ ~Dropping(t, r) => Dropper(r)'
    BY <1>2 DEF Dropper
  <1>4. Finisher(r) /\ ~Dropping(t, r) /\ ~Finishing(t, r) => Finisher(r)'
    BY <1>2 DEF Finisher
  <1>5. /\ Dropping(t, r)' => Dropper(r)'
        /\ Dropping(t, r)' \/ Finishing(t, r)' => Finisher(r)'
    BY DEF Dropper, Finisher
  <1>6. CASE r = i
    <2>1. /\ requests'[r].status # "missing"
          /\ requests'[r].status \in {"rejected", "expired", "executed"}
                => \/ Dropping(t, r)'
                   \/ requests'[r].status = requests[r].status /\ ~Dropping(t, r)
          /\ requests'[r].status = "approved"
                => \/ Dropping(t, r)' \/ Finishing(t, r)' \/ faults' > 0
                   \/ /\ requests'[r].status = requests[r].status
                      /\ ~Dropping(t, r) /\ ~Finishing(t, r)
      BY <1>6
    <2> QED
      BY <1>1, <1>3, <1>4, <1>5, <2>1
  <1>7. CASE r # i
    <2>1. ~Dropping(t, r) /\ ~Finishing(t, r) /\ requests'[r].status = requests[r].status
      BY <1>7 DEF Dropping, Finishing
    <2> QED
      BY <1>1, <1>3, <1>4, <2>1
  <1> QED
    BY <1>6, <1>7
(* The three kinds of steps: a handler only moves on, ...                  *)
LEMMA TendedMove ==
      ASSUME TypeInv, PayloadsTended, NEW t \in Threads, NEW i, i = id[t],
             UNCHANGED <<requests, payloads, late>>, faults' \in Nat, faults' >= faults,
             \A u \in Threads \ {t} : /\ pc'[u] = pc[u] /\ stage'[u] = stage[u]
                                      /\ id'[u] = id[u] /\ seen'[u] = seen[u],
             Dropping(t, i) => Dropping(t, i)',
             Finishing(t, i) /\ StatusOf(i) = "approved" => Finishing(t, i)' \/ faults' > 0
      PROVE  PayloadsTended'
  <1>1. \A r \in Requests : /\ payloads'[r] \in {payloads[r], NoPayload}
                            /\ requests'[r].status = requests[r].status
    OBVIOUS
  <1>2. faults \in Nat
    BY DEF TypeInv, TypeOK, OtherTypes
  <1>3. ASSUME i \in Requests, payloads'[i] # NoPayload
        PROVE  /\ requests'[i].status # "missing"
               /\ requests'[i].status \in {"rejected", "expired", "executed"}
                     => \/ Dropping(t, i)'
                        \/ requests'[i].status = requests[i].status /\ ~Dropping(t, i)
               /\ requests'[i].status = "approved"
                     => \/ Dropping(t, i)' \/ Finishing(t, i)' \/ faults' > 0
                        \/ /\ requests'[i].status = requests[i].status
                           /\ ~Dropping(t, i) /\ ~Finishing(t, i)
    <2>1. requests[i].status # "missing" /\ StatusOf(i) = requests[i].status
      BY <1>3 DEF PayloadsTended, StatusOf
    <2> QED
      BY <2>1
  <1> QED
    BY <1>1, <1>2, <1>3, TendedAfter

(* ... drops the payload ...                                               *)
LEMMA TendedDiscard ==
    ASSUME TypeInv, PayloadsTended, NEW t \in Threads, NEW i, i = id[t], Discard(i),
           UNCHANGED <<requests, late, faults>>,
           \A u \in Threads \ {t} : /\ pc'[u] = pc[u] /\ stage'[u] = stage[u]
                                    /\ id'[u] = id[u] /\ seen'[u] = seen[u]
    PROVE  PayloadsTended'
  <1>1. /\ \A r \in Requests : /\ payloads'[r] \in {payloads[r], NoPayload}
                               /\ requests'[r].status = requests[r].status
        /\ i \in Requests => payloads'[i] = NoPayload
    BY DEF Discard, TypeInv, TypeOK, StoreTypes
  <1>2. faults \in Nat /\ faults' = faults
    BY DEF TypeInv, TypeOK, OtherTypes
  <1> QED
    BY <1>1, <1>2, TendedAfter

(* ... or writes a status, and will drop the payload or goes on to run.    *)
LEMMA TendedWrite ==
    ASSUME TypeInv, PayloadsTended, NEW t \in Threads, NEW i, i = id[t], i \in Present,
           NEW s, s \in {"expired", "executed", "rejected", "approved"}, SetStatus(i, s),
           UNCHANGED <<payloads, late, faults>>,
           \A u \in Threads \ {t} : /\ pc'[u] = pc[u] /\ stage'[u] = stage[u]
                                    /\ id'[u] = id[u] /\ seen'[u] = seen[u],
           s # "approved" => Dropping(t, i)',
           s = "approved" => Finishing(t, i)'
    PROVE  PayloadsTended'
  <1>1. /\ requests'[i].status = s
        /\ \A r \in Requests \ {i} : requests'[r].status = requests[r].status
        /\ i \in Requests
    BY StatusAfter DEF Present
  <1>2. faults \in Nat /\ faults' = faults /\ s # "missing"
        /\ \A r \in Requests : payloads'[r] \in {payloads[r], NoPayload}
    BY DEF TypeInv, TypeOK, OtherTypes
  <1> QED
    BY <1>1, <1>2, TendedAfter

LEMMA OthersStay ==
    ASSUME TypeInv, NEW t \in Threads
    PROVE  /\ \A s : Goto(t, s) =>
                /\ \A u \in Threads \ {t} : pc'[u] = pc[u] /\ stage'[u] = stage[u]
                /\ pc'[t] = s /\ stage'[t] = "start"
           /\ Return(t) =>
                /\ \A u \in Threads \ {t} : /\ pc'[u] = pc[u] /\ stage'[u] = stage[u]
                                            /\ id'[u] = id[u] /\ seen'[u] = seen[u]
                /\ pc'[t] = "idle" /\ stage'[t] = "start"
    BY DEF Goto, Return, TypeInv, TypeOK, HandlerTypes

(* A handler that holds nothing, or whose step is not one of an approval.  *)
LEMMA Idle ==
    ASSUME TypeInv, NEW t \in Threads, stage[t] # "drop",
           pc[t] \in {"idle", "get", "approve", "reject_get", "reject", "list",
                      "log_refused", "log_denied", "log_executed", "log_rejected"}
    PROVE  \A i : ~Dropping(t, i) /\ ~Finishing(t, i)
    BY DEF Dropping, Finishing, BeforeRun

LEMMA InitTended == Init => PayloadsTended
  BY DEF Init, PayloadsTended

LEMMA TendedRefresh ==
    ASSUME TypeInv, PayloadsTended, NEW t \in Threads, Refresh(t)
    PROVE  PayloadsTended'
  <1>1. PICK j : j = id[t]
    OBVIOUS
  <1>2. CASE RefreshRead(t)
    <2>1. /\ \A u \in Threads \ {t} : /\ pc'[u] = pc[u] /\ stage'[u] = stage[u]
                                      /\ id'[u] = id[u] /\ seen'[u] = seen[u]
          /\ pc' = pc /\ id' = id /\ UNCHANGED <<requests, payloads, late, faults>>
          /\ stage[t] = "start" /\ pc[t] \in RefreshSites
          /\ seen'[t] = StatusOf(j)
      BY <1>1, <1>2 DEF RefreshRead, store, TypeInv, TypeOK, HandlerTypes
    <2>2. ~Dropping(t, j)
      BY <2>1 DEF Dropping, RefreshSites
    <2>3. Finishing(t, j) /\ StatusOf(j) = "approved" => Finishing(t, j)'
      BY <2>1 DEF Finishing
    <2>4. faults' \in Nat /\ faults' >= faults
      BY <2>1 DEF TypeInv, TypeOK, OtherTypes
    <2> QED
      BY <1>1, <2>1, <2>2, <2>3, <2>4, TendedMove
  <1>3. CASE RefreshExpire(t)
    <2>1. j \in Present /\ "expired" \in Statuses
      BY <1>1, <1>3 DEF RefreshExpire, TypeInv, RequestsKnown, Statuses
    <2>2. /\ \A u \in Threads \ {t} : /\ pc'[u] = pc[u] /\ stage'[u] = stage[u]
                                      /\ id'[u] = id[u] /\ seen'[u] = seen[u]
          /\ SetStatus(j, "expired") /\ UNCHANGED <<payloads, late, faults>>
          /\ stage'[t] = "drop" /\ id'[t] = j
      BY <1>1, <1>3 DEF RefreshExpire, TypeInv, TypeOK, HandlerTypes
    <2>3. Dropping(t, j)'
      BY <2>2 DEF Dropping
    <2> QED
      BY <1>1, <2>1, <2>2, <2>3, TendedWrite
  <1>4. CASE RefreshDrop(t)
    <2>1. /\ \A u \in Threads \ {t} : /\ pc'[u] = pc[u] /\ stage'[u] = stage[u]
                                      /\ id'[u] = id[u] /\ seen'[u] = seen[u]
          /\ Discard(j) /\ UNCHANGED <<requests, late, faults>>
      BY <1>1, <1>4 DEF RefreshDrop, TypeInv, TypeOK, HandlerTypes
    <2> QED
      BY <1>1, <2>1, TendedDiscard
  <1> QED
    BY <1>2, <1>3, <1>4 DEF Refresh

(* A handler that keeps its locals and goes on at s.                       *)
LEMMA TendedGoto ==
    ASSUME TypeInv, PayloadsTended, NEW t \in Threads, NEW s, Goto(t, s),
           UNCHANGED <<requests, payloads, late, faults>>,
           \A u \in Threads \ {t} : id'[u] = id[u] /\ seen'[u] = seen[u],
           ~Dropping(t, id[t]),
           \/ ~Finishing(t, id[t])
           \/ s \in (BeforeRun \ {"log_denied"}) \cup {"log_ran", "mark"} /\ id'[t] = id[t]
    PROVE  PayloadsTended'
  <1>1. PICK j : j = id[t]
    OBVIOUS
  <1>2. ~Dropping(t, j) /\ faults' \in Nat /\ faults' >= faults
    BY <1>1 DEF TypeInv, TypeOK, OtherTypes
  <1>3. /\ \A u \in Threads \ {t} : /\ pc'[u] = pc[u] /\ stage'[u] = stage[u]
                                    /\ id'[u] = id[u] /\ seen'[u] = seen[u]
        /\ pc'[t] = s /\ stage'[t] = "start"
    BY OthersStay
  <1>4. Finishing(t, j) => Finishing(t, j)'
    BY <1>1, <1>3 DEF Finishing, Refreshed
  <1> QED
    BY <1>1, <1>2, <1>3, <1>4, TendedMove

(* A handler that ends, with an exception unless it has no payload to mind.*)
LEMMA TendedReturn ==
    ASSUME TypeInv, PayloadsTended, NEW t \in Threads, Return(t),
           UNCHANGED <<requests, payloads, late>>,
           ~Dropping(t, id[t]),
           \/ faults' = faults /\ ~Finishing(t, id[t])
           \/ faults' = faults + 1
    PROVE  PayloadsTended'
  <1>1. PICK j : j = id[t]
    OBVIOUS
  <1>2. ~Dropping(t, j) /\ faults' \in Nat /\ faults' >= faults
        /\ (Finishing(t, j) => faults' > 0)
    BY <1>1 DEF TypeInv, TypeOK, OtherTypes
  <1>3. \A u \in Threads \ {t} : /\ pc'[u] = pc[u] /\ stage'[u] = stage[u]
                                 /\ id'[u] = id[u] /\ seen'[u] = seen[u]
    BY OthersStay
  <1> QED
    BY <1>1, <1>2, <1>3, TendedMove

LEMMA TendedAppend ==
    ASSUME TypeInv, PayloadsTended, NEW t \in Threads, NEW step \in Locals, NEW e, NEW next,
           Append(t, step, e, next), step \notin {"mark_drop", "reject_drop"},
           \/ step \notin BeforeRun \ {"log_denied"} /\ step # "log_ran"
           \/ next \in (BeforeRun \ {"log_denied"}) \cup {"mark"} /\ next # "idle"
    PROVE  PayloadsTended'
  <1>1. pc[t] = step /\ UNCHANGED <<requests, payloads, late, faults>>
    BY DEF Append, store
  <1>2. stage[t] = "start"
    BY <1>1 DEF TypeInv, StepsFit, Locals, RefreshSites
  <1>3. ~Dropping(t, id[t])
    BY <1>1, <1>2 DEF Dropping
  <1>4. step \notin BeforeRun \ {"log_denied"} /\ step # "log_ran" => ~Finishing(t, id[t])
    BY <1>1 DEF Finishing, Locals
  <1>5. CASE next = "idle"
    <2>1. Return(t)
      BY <1>5 DEF Append
    <2> QED
      BY <1>1, <1>3, <1>4, <1>5, <2>1, TendedReturn
  <1>6. CASE next # "idle"
    <2>1. Goto(t, next) /\ id' = id /\ seen' = seen
      BY <1>6 DEF Append
    <2> QED
      BY <1>1, <1>3, <1>4, <2>1, TendedGoto
  <1> QED
    BY <1>5, <1>6

LEMMA TendedApprove ==
    ASSUME TypeInv, PayloadsTended, NEW t \in Threads, ApproveStep(t)
    PROVE  PayloadsTended'
  <1> USE DEF Locals, RefreshSites
  <1>1. PICK j : j = id[t]
    OBVIOUS
  <1>2. pc[t] \notin RefreshSites => stage[t] = "start"
    BY DEF TypeInv, StepsFit
  <1>3. /\ stage[t] = "ready" /\ seen[t] # "missing" => j \in Present
        /\ pc[t] \in Approving => j \in Present
    BY <1>1 DEF TypeInv, RequestsKnown
  <1>4. CASE GetReturns(t) \/ ApproveRefused(t)
    <2>1. ~Dropping(t, id[t]) /\ ~Finishing(t, id[t])
      BY <1>4, Idle DEF GetReturns, ApproveRefused, Refreshed
    <2> QED
      BY <1>4, <2>1, TendedGoto DEF GetReturns, ApproveRefused, store
  <1>5. CASE ApproveWrite(t)
    <2>1. /\ j \in Present /\ SetStatus(j, "approved") /\ Goto(t, "log_approved")
          /\ UNCHANGED <<payloads, id, seen, late, faults>>
      BY <1>1, <1>3, <1>5 DEF ApproveWrite, Refreshed
    <2>2. Finishing(t, j)'
      BY <1>1, <2>1, OthersStay DEF Finishing, Refreshed, BeforeRun
    <2>3. \A u \in Threads \ {t} : /\ pc'[u] = pc[u] /\ stage'[u] = stage[u]
                                   /\ id'[u] = id[u] /\ seen'[u] = seen[u]
      BY <2>1, OthersStay
    <2> QED
      BY <1>1, <2>1, <2>2, <2>3, TendedWrite
  <1>6. CASE GetPayload(t) \/ Recheck(t) \/ SetupError(t) \/ Attempt(t)
    <2>1. PICK s \in {"recheck", "deny", "execute", "log_not_run", "log_ran"} : Goto(t, s)
      BY <1>6 DEF GetPayload, Recheck, SetupError, Attempt
    <2>2. UNCHANGED <<requests, payloads, id, seen, late, faults>>
      BY <1>6 DEF GetPayload, Recheck, SetupError, Attempt, store
    <2>3. ~Dropping(t, id[t])
      BY <1>2, <1>6 DEF Dropping, GetPayload, Recheck, SetupError, Attempt, Refreshed
    <2>4. s \in (BeforeRun \ {"log_denied"}) \cup {"log_ran", "mark"}
      BY DEF BeforeRun
    <2> QED
      BY <2>1, <2>2, <2>3, <2>4, TendedGoto
  <1>7. CASE Deny(t) \/ DiscardUnrun(t) \/ MarkDrop(t)
    <2>1. Discard(j) /\ UNCHANGED <<requests, late, faults>>
      BY <1>1, <1>7 DEF Deny, DiscardUnrun, MarkDrop
    <2>2. \A u \in Threads \ {t} : /\ pc'[u] = pc[u] /\ stage'[u] = stage[u]
                                   /\ id'[u] = id[u] /\ seen'[u] = seen[u]
      BY <1>7, OthersStay DEF Deny, DiscardUnrun, MarkDrop
    <2> QED
      BY <1>1, <2>1, <2>2, TendedDiscard
  <1>8. CASE MarkWrite(t)
    <2>1. /\ j \in Present /\ SetStatus(j, "executed") /\ Goto(t, "mark_drop")
          /\ UNCHANGED <<payloads, id, seen, late, faults>>
      BY <1>1, <1>3, <1>8 DEF MarkWrite, Refreshed
    <2>2. Dropping(t, j)'
      BY <1>1, <2>1, OthersStay DEF Dropping
    <2>3. \A u \in Threads \ {t} : /\ pc'[u] = pc[u] /\ stage'[u] = stage[u]
                                   /\ id'[u] = id[u] /\ seen'[u] = seen[u]
      BY <2>1, OthersStay
    <2> QED
      BY <1>1, <2>1, <2>2, <2>3, TendedWrite
  <1>9. CASE MarkRefused(t)
    <2>1. ~Dropping(t, id[t]) /\ ~Finishing(t, id[t])
      BY <1>9 DEF MarkRefused, Refreshed, Dropping, Finishing
    <2> QED
      BY <1>9, <2>1, TendedGoto DEF MarkRefused, store
  <1>10. CASE ApproveAppends(t)
    <2>1. CASE Append(t, "log_denied", "denied", "idle")
      BY <2>1, TendedAppend
    <2>2. CASE Append(t, "log_refused", "refused", "idle")
      BY <2>2, TendedAppend DEF BeforeRun
    <2>3. CASE Append(t, "log_approved", "approved", "payload")
      BY <2>3, TendedAppend DEF BeforeRun
    <2>4. CASE Append(t, "log_ran", "ran", "mark")
      BY <2>4, TendedAppend
    <2>5. CASE Append(t, "log_not_run", "not_run", "discard")
      BY <2>5, TendedAppend DEF BeforeRun
    <2>6. CASE Append(t, "log_executed", "executed", "idle")
      BY <2>6, TendedAppend DEF BeforeRun
    <2> QED
      BY <1>10, <2>1, <2>2, <2>3, <2>4, <2>5, <2>6 DEF ApproveAppends
  <1> QED
    BY <1>4, <1>5, <1>6, <1>7, <1>8, <1>9, <1>10 DEF ApproveStep

LEMMA TendedReject ==
    ASSUME TypeInv, PayloadsTended, NEW t \in Threads, RejectStep(t)
    PROVE  PayloadsTended'
  <1>1. PICK j : j = id[t]
    OBVIOUS
  <1>2. CASE RejectGetReturns(t)
    <2>1. ~Dropping(t, id[t]) /\ ~Finishing(t, id[t])
      BY <1>2, Idle DEF RejectGetReturns, Refreshed
    <2> QED
      BY <1>2, <2>1, TendedGoto DEF RejectGetReturns, store
  <1>3. CASE RejectWrite(t)
    <2>1. /\ j \in Present /\ SetStatus(j, "rejected") /\ Goto(t, "reject_drop")
          /\ UNCHANGED <<payloads, id, seen, late, faults>>
      BY <1>1, <1>3 DEF RejectWrite, Refreshed, TypeInv, RequestsKnown
    <2>2. Dropping(t, j)'
      BY <1>1, <2>1, OthersStay DEF Dropping
    <2>3. \A u \in Threads \ {t} : /\ pc'[u] = pc[u] /\ stage'[u] = stage[u]
                                   /\ id'[u] = id[u] /\ seen'[u] = seen[u]
      BY <2>1, OthersStay
    <2> QED
      BY <1>1, <2>1, <2>2, <2>3, TendedWrite
  <1>4. CASE RejectDrop(t)
    <2>1. Discard(j) /\ UNCHANGED <<requests, late, faults>>
      BY <1>1, <1>4 DEF RejectDrop
    <2>2. \A u \in Threads \ {t} : /\ pc'[u] = pc[u] /\ stage'[u] = stage[u]
                                   /\ id'[u] = id[u] /\ seen'[u] = seen[u]
      BY <1>4, OthersStay DEF RejectDrop
    <2> QED
      BY <1>1, <2>1, <2>2, TendedDiscard
  <1>5. CASE RejectRefused(t)
    <2>1. ~Dropping(t, id[t]) /\ ~Finishing(t, id[t])
      BY <1>5, Idle DEF RejectRefused, Refreshed
    <2> QED
      BY <1>5, <2>1, TendedReturn DEF RejectRefused, store
  <1>6. CASE RejectAppends(t)
    BY <1>6, TendedAppend DEF RejectAppends, BeforeRun, Locals
  <1> QED
    BY <1>2, <1>3, <1>4, <1>5, <1>6 DEF RejectStep

LEMMA TendedCalls ==
    ASSUME TypeInv, PayloadsTended, NEW t \in Threads,
           \/ ReceiveApprove(t) \/ ReceiveReject(t) \/ ReceiveList(t)
           \/ ListNext(t) \/ Fault(t)
    PROVE  PayloadsTended'
  <1>1. stage[t] = "drop" => pc[t] \in RefreshSites
    BY DEF TypeInv, StepsFit
  <1>2. CASE ReceiveApprove(t) \/ ReceiveReject(t) \/ ReceiveList(t)
    <2>1. ~Dropping(t, id[t]) /\ ~Finishing(t, id[t])
      BY <1>1, <1>2, Idle DEF ReceiveApprove, ReceiveReject, ReceiveList, Receive, RefreshSites
    <2>2. PICK s : Goto(t, s)
      BY <1>2 DEF ReceiveApprove, ReceiveReject, ReceiveList, Receive
    <2>3. /\ \A u \in Threads \ {t} : id'[u] = id[u] /\ seen'[u] = seen[u]
          /\ UNCHANGED <<requests, payloads, late, faults>>
      BY <1>2 DEF ReceiveApprove, ReceiveReject, ReceiveList, Receive, ListFrom, store,
                  TypeInv, TypeOK, HandlerTypes
    <2> QED
      BY <2>1, <2>2, <2>3, TendedGoto
  <1>3. CASE ListNext(t)
    <2>1. ~Dropping(t, id[t]) /\ ~Finishing(t, id[t])
      BY <1>3, Idle DEF ListNext, Refreshed
    <2>2. UNCHANGED <<requests, payloads, late, faults>>
      BY <1>3 DEF ListNext, store
    <2>3. CASE Return(t)
      BY <2>1, <2>2, <2>3, TendedReturn
    <2>4. CASE ~Return(t)
      <3>1. Goto(t, "list") /\ \A u \in Threads \ {t} : id'[u] = id[u] /\ seen'[u] = seen[u]
        BY <1>3, <2>4 DEF ListNext, ListFrom, TypeInv, TypeOK, HandlerTypes
      <3> QED
        BY <2>1, <2>2, <3>1, TendedGoto
    <2> QED
      BY <2>3, <2>4
  <1>4. CASE Fault(t)
    <2>1. ~Dropping(t, id[t])
      BY <1>1, <1>4 DEF Fault, HandlerRaises, AttemptRaises, Dropping, RefreshSites
    <2> QED
      BY <1>4, <2>1, TendedReturn DEF Fault, HandlerRaises, AttemptRaises, store
  <1> QED
    BY <1>2, <1>3, <1>4

(* The agent's thread makes no request answered.                           *)
LEMMA TendedAgent ==
    ASSUME TypeInv, PayloadsTended, AgentStep
    PROVE  PayloadsTended'
  <1>1. CASE Create
    <2>1. PICK r \in Requests \ Present, tool \in ApprovableTools :
            requests' = [requests EXCEPT ![r] =
                [status |-> "pending", tool |-> tool, expires_at |-> now + TTL]]
      BY <1>1 DEF Create
    <2>2. /\ requests'[r].status = "pending"
          /\ \A q \in Requests \ {r} : requests'[q] = requests[q]
      BY <2>1 DEF TypeInv, TypeOK, StoreTypes
    <2>3. \A q \in Requests : Dropper(q)' = Dropper(q) /\ Finisher(q)' = Finisher(q)
      BY <1>1 DEF Create, handler, Dropper, Finisher, Dropping, Finishing, Refreshed
    <2> QED
      BY <1>1, <2>2, <2>3 DEF Create, PayloadsTended
  <1>2. CASE Attach
    <2>1. \A q \in Requests : Dropper(q)' = Dropper(q) /\ Finisher(q)' = Finisher(q)
      BY <1>2 DEF Attach, handler, Dropper, Finisher, Dropping, Finishing, Refreshed
    <2>2. PICK r \in Present : r = agent.id
      BY <1>2 DEF Attach, TypeInv, RequestsKnown
    <2>3. requests[r].status # "missing"
      BY <2>2 DEF TypeInv, TypeOK, StoreTypes, Present, RequestRecords, Statuses
    <2>4. requests[r].status = "pending" \/ r \in late'
      BY <1>2, <2>2 DEF Attach
    <2>5. late \subseteq late' /\ requests' = requests /\ faults' = faults
          /\ \A q \in Requests \ {r} : payloads'[q] = payloads[q]
      BY <1>2, <2>2 DEF Attach, TypeInv, TypeOK, StoreTypes
    <2> QED
      BY <2>1, <2>3, <2>4, <2>5 DEF PayloadsTended
  <1>3. CASE AgentAppends \/ AgentAppendFails
    <2>1. \A q \in Requests : Dropper(q)' = Dropper(q) /\ Finisher(q)' = Finisher(q)
      BY <1>3 DEF AgentAppends, AgentAppendFails, handler, Dropper, Finisher, Dropping, Finishing,
                  Refreshed
    <2>2. UNCHANGED <<requests, payloads, late>> /\ (faults > 0 => faults' > 0)
      BY <1>3 DEF AgentAppends, AgentAppendFails, store, TypeInv, TypeOK, OtherTypes
    <2> QED
      BY <2>1, <2>2 DEF PayloadsTended
  <1> QED
    BY <1>1, <1>2, <1>3 DEF AgentStep

LEMMA TendedStep == TypeInv /\ PayloadsTended /\ [Next]_vars => PayloadsTended'
  <1> SUFFICES ASSUME TypeInv, PayloadsTended, [Next]_vars
               PROVE  PayloadsTended'
    OBVIOUS
  <1>1. CASE Tick \/ UNCHANGED vars
    <2>1. UNCHANGED <<requests, payloads, handler, late, faults>>
      BY <1>1 DEF Tick, vars, store
    <2>2. \A q \in Requests : Dropper(q)' = Dropper(q) /\ Finisher(q)' = Finisher(q)
      BY <2>1 DEF handler, Dropper, Finisher, Dropping, Finishing, Refreshed
    <2> QED
      BY <2>1, <2>2 DEF PayloadsTended
  <1> QED
    BY <1>1, TendedRefresh, TendedApprove, TendedReject, TendedCalls, TendedAgent
       DEF Next, Proceed

(* A private payload does not outlive its request, store calls overlapping *)
(* or not: whoever answers a request drops its payload, or an exception    *)
(* ended the handler that approved it.                                     *)
THEOREM PayloadsDie == Spec => []PayloadsDieWithRequests
  <1>1. TypeInv /\ PayloadsTended => PayloadsDieWithRequests
    <2> SUFFICES ASSUME TypeInv, PayloadsTended, NEW r \in Requests,
                        payloads[r] # NoPayload, requests[r].status # "pending", r \notin late,
                        \A t \in Threads : id[t] # r
                 PROVE  requests[r].status = "approved" /\ faults > 0
      BY DEF PayloadsDieWithRequests
    <2>1. ~Dropper(r) /\ ~Finisher(r)
      BY DEF Dropper, Finisher, Dropping, Finishing
    <2>2. requests[r].status \in Statuses \cup {"missing"}
      BY DEF TypeInv, TypeOK, StoreTypes, RequestRecords, NoRequest
    <2> QED
      BY <2>1, <2>2 DEF PayloadsTended, Statuses
  <1> QED
    BY <1>1, TypeInvInit, TypeInvStep, InitTended, TendedStep, PTL DEF Spec

-----------------------------------------------------------------------------
(* The audit trail of the approval workflow keeps account of what ran.     *)
(* What the store does is not needed for that: a handler appends its       *)
(* events itself, in the order of its own steps.                           *)

(* The threads that have logged an approval of r and have yet to attempt   *)
(* its operation: each has an approval in the trail that no attempt has    *)
(* used.                                                                   *)
ReadySteps == {"payload", "recheck", "execute"}
Ready(r)   == {t \in Threads : id[t] = r /\ pc[t] \in ReadySteps}

(* The threads that have recorded an attempt and have yet to say executed. *)
MarkSteps  == {"mark", "mark_drop", "log_executed"}
Marking(r) == {t \in Threads : id[t] = r /\ pc[t] \in MarkSteps}

ApprovalsToSpare ==
    \A r \in Requests : runs[r] + Cardinality(Ready(r)) <= audit[r]["approved"]

AccountsInv == TypeInv /\ ApprovalsToSpare /\ AuditAccountsForRuns

AttemptsToSpare ==
    \A r \in Requests : audit[r]["executed"] + Cardinality(Marking(r)) <= audit[r]["ran"]

ExecutedInv == AccountsInv /\ AttemptsToSpare /\ ExecutedMeansAttempted

-----------------------------------------------------------------------------
(* Sets of threads *)

LEMMA FinitelyMany ==
    ASSUME NEW S \in SUBSET Threads PROVE IsFiniteSet(S)
  BY ThreadsAssumption, FS_Subset

LEMMA SizeOf ==
    ASSUME NEW S \in SUBSET Threads PROVE Cardinality(S) \in Nat
  BY FinitelyMany, FS_CardinalityType

LEMMA OneMore ==
    ASSUME NEW S \in SUBSET Threads, NEW t \in Threads \ S
    PROVE  Cardinality(S \cup {t}) = Cardinality(S) + 1
  BY FinitelyMany, FS_AddElement

LEMMA OneLess ==
    ASSUME NEW S \in SUBSET Threads, NEW t \in S
    PROVE  Cardinality(S \ {t}) = Cardinality(S) - 1
  BY FinitelyMany, FS_RemoveElement

(* How the two sets change when t goes on at step s.                       *)
LEMMA SetsAfter ==
    ASSUME TypeInv, NEW t \in Threads, NEW s \in Steps, Goto(t, s),
           \A u \in Threads \ {t} : id'[u] = id[u],
           s \in ReadySteps \cup {"log_ran"} => id'[t] = id[t],
           NEW r \in Requests
    PROVE  /\ Ready(r)' = IF s \in ReadySteps /\ id[t] = r
                          THEN Ready(r) \cup {t} ELSE Ready(r) \ {t}
           /\ Recording(r)' = IF s = "log_ran" /\ id[t] = r
                              THEN Recording(r) \cup {t} ELSE Recording(r) \ {t}
  <1>1. pc'[t] = s /\ \A u \in Threads \ {t} : pc'[u] = pc[u]
    BY DEF Goto, TypeInv, TypeOK, HandlerTypes
  <1> QED
    BY <1>1 DEF Ready, Recording

LEMMA AccountTypes ==
    ASSUME TypeInv, NEW r \in Requests
    PROVE  /\ runs[r] \in Nat /\ faults \in Nat
           /\ audit[r]["approved"] \in Nat /\ audit[r]["ran"] \in Nat
  BY DEF TypeInv, TypeOK, OtherTypes, Ids, Events

LEMMA ReadyCount ==
    ASSUME NEW r, NEW t \in Threads
    PROVE  /\ Cardinality(Ready(r)) \in Nat
           /\ t \in Ready(r) => Cardinality(Ready(r) \ {t}) = Cardinality(Ready(r)) - 1
           /\ t \notin Ready(r) => Cardinality(Ready(r) \cup {t}) = Cardinality(Ready(r)) + 1
           /\ t \notin Ready(r) => Ready(r) \ {t} = Ready(r)
  <1>1. Ready(r) \in SUBSET Threads
    BY DEF Ready
  <1>2. Cardinality(Ready(r)) \in Nat
    BY <1>1, SizeOf
  <1>3. t \in Ready(r) => Cardinality(Ready(r) \ {t}) = Cardinality(Ready(r)) - 1
    BY <1>1, OneLess
  <1>4. t \notin Ready(r) => Cardinality(Ready(r) \cup {t}) = Cardinality(Ready(r)) + 1
    BY <1>1, OneMore
  <1> QED
    BY <1>2, <1>3, <1>4

LEMMA RecordingCount ==
    ASSUME NEW r, NEW t \in Threads
    PROVE  /\ Cardinality(Recording(r)) \in Nat
           /\ t \in Recording(r) => Cardinality(Recording(r) \ {t}) = Cardinality(Recording(r)) - 1
           /\ t \notin Recording(r) =>
                 Cardinality(Recording(r) \cup {t}) = Cardinality(Recording(r)) + 1
           /\ t \notin Recording(r) => Recording(r) \ {t} = Recording(r)
  <1>1. Recording(r) \in SUBSET Threads
    BY DEF Recording
  <1>2. Cardinality(Recording(r)) \in Nat
    BY <1>1, SizeOf
  <1>3. t \in Recording(r) => Cardinality(Recording(r) \ {t}) = Cardinality(Recording(r)) - 1
    BY <1>1, OneLess
  <1>4. t \notin Recording(r) => Cardinality(Recording(r) \cup {t}) = Cardinality(Recording(r)) + 1
    BY <1>1, OneMore
  <1> QED
    BY <1>2, <1>3, <1>4

(* What an append does to the numbers of events. *)
LEMMA LoggedCounts ==
    ASSUME TypeInv, NEW i \in Ids, NEW e \in Events, Logged(i, e),
           NEW r \in Requests, NEW f \in Events
    PROVE  audit'[r][f] = IF r = i /\ f = e THEN audit[r][f] + 1 ELSE audit[r][f]
  BY DEF Logged, TypeInv, TypeOK, OtherTypes, Ids

-----------------------------------------------------------------------------
(* Steps *)

LEMMA AccountsInit == Init => ApprovalsToSpare /\ AuditAccountsForRuns
  <1> SUFFICES ASSUME Init PROVE ApprovalsToSpare /\ AuditAccountsForRuns
    OBVIOUS
  <1>1. ASSUME NEW r \in Requests
        PROVE  /\ Ready(r) = {} /\ Recording(r) = {}
               /\ runs[r] = 0 /\ faults = 0
               /\ audit[r]["approved"] = 0 /\ audit[r]["ran"] = 0
    BY DEF Init, Ready, Recording, ReadySteps, Ids, Events
  <1>2. ASSUME NEW r \in Requests
        PROVE  Cardinality(Ready(r)) = 0 /\ Cardinality(Recording(r)) = 0
    BY <1>1, FS_EmptySet
  <1>3. ApprovalsToSpare
    BY <1>1, <1>2 DEF ApprovalsToSpare
  <1>4. AuditAccountsForRuns
    BY <1>1, <1>2 DEF AuditAccountsForRuns
  <1> QED
    BY <1>3, <1>4

(* A step that is neither an approval logged nor an attempt made, logged   *)
(* or lost.                                                                *)
LEMMA AsideAccounts ==
    ASSUME AccountsInv, NEW t \in Threads, NEW s \in Steps, Goto(t, s),
           UNCHANGED runs, faults' \in {faults, faults + 1},
           \A u \in Threads \ {t} : id'[u] = id[u],
           pc[t] # "log_ran", s # "log_ran",
           s \in ReadySteps => pc[t] \in ReadySteps /\ id'[t] = id[t],
           \A r \in Requests : /\ audit'[r]["approved"] = audit[r]["approved"]
                               /\ audit'[r]["ran"] = audit[r]["ran"]
    PROVE  ApprovalsToSpare' /\ AuditAccountsForRuns'
  <1> SUFFICES ASSUME NEW r \in Requests
               PROVE  /\ runs'[r] + Cardinality(Ready(r)') <= audit'[r]["approved"]
                      /\ Recording(r)' = Recording(r)
                      /\ runs[r] <= audit[r]["ran"] + Cardinality(Recording(r)) + faults'
    BY DEF ApprovalsToSpare, AuditAccountsForRuns, AccountsInv
  <1>1. TypeInv /\ runs[r] + Cardinality(Ready(r)) <= audit[r]["approved"]
    BY DEF AccountsInv, ApprovalsToSpare
  <1>2. Ready(r)' = Ready(r) \/ Ready(r)' = Ready(r) \ {t}
    BY <1>1, SetsAfter DEF Ready
  <1>3. Recording(r)' = Recording(r)
    BY <1>1, SetsAfter DEF Recording
  <1>4. Ready(r)' # Ready(r) => t \in Ready(r) /\ Ready(r)' = Ready(r) \ {t}
    BY <1>2
  <1>5. /\ Cardinality(Ready(r)') \in Nat
        /\ Cardinality(Ready(r)') <= Cardinality(Ready(r))
    <2>1. CASE Ready(r)' = Ready(r)
      <3>1. Cardinality(Ready(r)) \in Nat
        BY ReadyCount
      <3> QED
        BY <2>1, <3>1
    <2>2. CASE Ready(r)' # Ready(r)
      <3>1. /\ Cardinality(Ready(r)) \in Nat
            /\ Cardinality(Ready(r)') = Cardinality(Ready(r)) - 1
        BY <1>4, <2>2, ReadyCount
      <3>2. Cardinality(Ready(r)') \in Nat
        <4>1. Ready(r)' \in SUBSET Threads
          BY <1>4, <2>2 DEF Ready
        <4> QED
          BY <4>1, SizeOf
      <3> QED
        BY <3>1, <3>2
    <2> QED
      BY <2>1, <2>2
  <1>6. runs'[r] = runs[r] /\ audit'[r]["approved"] = audit[r]["approved"]
    OBVIOUS
  <1>7. /\ Cardinality(Ready(r)) \in Nat
        /\ runs[r] \in Nat /\ audit[r]["approved"] \in Nat
    BY <1>1, AccountTypes, ReadyCount, RecordingCount
  <1>8. runs'[r] + Cardinality(Ready(r)') <= audit'[r]["approved"]
    BY <1>1, <1>5, <1>6, <1>7
  <1>9. runs[r] <= audit[r]["ran"] + Cardinality(Recording(r)) + faults'
    <2>1. runs[r] <= audit[r]["ran"] + Cardinality(Recording(r)) + faults
      BY DEF AccountsInv, AuditAccountsForRuns
    <2>2. /\ runs[r] \in Nat /\ faults \in Nat /\ audit[r]["ran"] \in Nat
          /\ Cardinality(Recording(r)) \in Nat
      BY <1>1, AccountTypes, RecordingCount
    <2> QED
      BY <2>1, <2>2
  <1> QED
    BY <1>3, <1>8, <1>9
(* The approval is in the trail before its handler is ready to run.        *)
LEMMA ApprovedAccounts ==
    ASSUME AccountsInv, NEW t \in Threads, Append(t, "log_approved", "approved", "payload")
    PROVE  ApprovalsToSpare' /\ AuditAccountsForRuns'
  <1>1. /\ TypeInv /\ id[t] \in Ids /\ pc[t] = "log_approved"
        /\ Logged(id[t], "approved") /\ Goto(t, "payload")
        /\ UNCHANGED <<id, runs, faults>>
    BY DEF Append, AccountsInv, TypeInv, TypeOK, HandlerTypes
  <1> SUFFICES ASSUME NEW r \in Requests
               PROVE  /\ runs'[r] + Cardinality(Ready(r)') <= audit'[r]["approved"]
                      /\ Recording(r)' = Recording(r)
                      /\ audit'[r]["ran"] = audit[r]["ran"]
    BY <1>1 DEF ApprovalsToSpare, AuditAccountsForRuns, AccountsInv
  <1>2. /\ runs[r] + Cardinality(Ready(r)) <= audit[r]["approved"]
        /\ Cardinality(Ready(r)) \in Nat
        /\ runs[r] \in Nat /\ audit[r]["approved"] \in Nat
    BY <1>1, AccountTypes, ReadyCount, RecordingCount DEF AccountsInv, ApprovalsToSpare
  <1>3. /\ audit'[r]["approved"] =
              IF r = id[t] THEN audit[r]["approved"] + 1 ELSE audit[r]["approved"]
        /\ audit'[r]["ran"] = audit[r]["ran"]
    BY <1>1, LoggedCounts DEF Events
  <1>4. /\ Ready(r)' = IF id[t] = r THEN Ready(r) \cup {t} ELSE Ready(r) \ {t}
        /\ Recording(r)' = Recording(r) \ {t}
    <2>1. "payload" \in Steps /\ "payload" \in ReadySteps
      BY DEF ReadySteps, Steps, RefreshSites
    <2> QED
      BY <1>1, <2>1, SetsAfter
  <1>5. t \notin Recording(r) /\ t \notin Ready(r)
    BY <1>1 DEF Recording, Ready, ReadySteps
  <1>6. Cardinality(Ready(r) \cup {t}) = Cardinality(Ready(r)) + 1
    BY <1>1, <1>5, AccountTypes, ReadyCount, RecordingCount
  <1>7. runs'[r] + Cardinality(Ready(r)') <= audit'[r]["approved"]
    <2>1. CASE id[t] = r
      BY <1>1, <1>2, <1>3, <1>4, <1>6, <2>1
    <2>2. CASE id[t] # r
      <3>1. Ready(r)' = Ready(r)
        BY <1>4, <1>5, <2>2
      <3> QED
        BY <1>1, <1>2, <1>3, <2>2, <3>1
    <2> QED
      BY <2>1, <2>2
  <1> QED
    BY <1>3, <1>4, <1>5, <1>7

(* An attempt uses an approval and is recorded next, unless it raises.     *)
LEMMA AttemptAccounts ==
    ASSUME AccountsInv, NEW t \in Threads, Attempt(t) \/ AttemptRaises(t)
    PROVE  ApprovalsToSpare' /\ AuditAccountsForRuns'
  <1>1. /\ TypeInv /\ id[t] \in Requests /\ pc[t] = "execute"
        /\ runs' = [runs EXCEPT ![id[t]] = @ + 1]
        /\ audit' = audit
        /\ \A u \in Threads \ {t} : id'[u] = id[u]
        /\ \/ Goto(t, "log_ran") /\ id' = id /\ faults' = faults
           \/ Goto(t, "idle") /\ faults' = faults + 1
    BY DEF Attempt, AttemptRaises, Return, AccountsInv, TypeInv, TypeOK, HandlerTypes,
           RequestsKnown, Approving, BeforeRun, Present
  <1> SUFFICES ASSUME NEW r \in Requests
               PROVE  /\ runs'[r] + Cardinality(Ready(r)') <= audit[r]["approved"]
                      /\ audit[r]["ran"] + Cardinality(Recording(r)') <= runs'[r]
                      /\ runs'[r] <= audit[r]["ran"] + Cardinality(Recording(r)') + faults'
    BY <1>1 DEF ApprovalsToSpare, AuditAccountsForRuns
  <1>2. /\ runs[r] + Cardinality(Ready(r)) <= audit[r]["approved"]
        /\ audit[r]["ran"] + Cardinality(Recording(r)) <= runs[r]
        /\ runs[r] <= audit[r]["ran"] + Cardinality(Recording(r)) + faults
    BY DEF AccountsInv, ApprovalsToSpare, AuditAccountsForRuns
  <1>3. /\ Cardinality(Ready(r)) \in Nat /\ Cardinality(Recording(r)) \in Nat
        /\ runs[r] \in Nat /\ faults \in Nat
        /\ audit[r]["approved"] \in Nat /\ audit[r]["ran"] \in Nat
    BY <1>1, AccountTypes, ReadyCount, RecordingCount
  <1>4. /\ Ready(r)' = Ready(r) \ {t}
        /\ Recording(r)' = IF Goto(t, "log_ran") /\ id[t] = r
                           THEN Recording(r) \cup {t} ELSE Recording(r) \ {t}
    <2>1. {"log_ran", "idle"} \subseteq Steps /\ "log_ran" \notin ReadySteps
          /\ "idle" \notin ReadySteps
      BY DEF Steps, Locals, ReadySteps
    <2>2. CASE Goto(t, "log_ran") /\ id' = id
      BY <1>1, <2>1, <2>2, SetsAfter
    <2>3. CASE Goto(t, "idle")
      <3>1. ~Goto(t, "log_ran")
        BY <1>1, <2>3 DEF Goto, TypeInv, TypeOK, HandlerTypes
      <3> QED
        BY <1>1, <2>1, <2>3, <3>1, SetsAfter
    <2> QED
      BY <1>1, <2>2, <2>3
  <1>5. t \notin Recording(r) /\ (t \in Ready(r) <=> id[t] = r)
    BY <1>1 DEF Recording, Ready, ReadySteps
  <1>6. /\ Cardinality(Recording(r) \cup {t}) = Cardinality(Recording(r)) + 1
        /\ Recording(r) \ {t} = Recording(r)
        /\ Cardinality(Ready(r) \ {t}) =
              IF id[t] = r THEN Cardinality(Ready(r)) - 1 ELSE Cardinality(Ready(r))
    BY <1>1, <1>5, AccountTypes, ReadyCount, RecordingCount
  <1>7. runs'[r] = IF id[t] = r THEN runs[r] + 1 ELSE runs[r]
    BY <1>1 DEF TypeInv, TypeOK, OtherTypes
  <1>8. runs'[r] + Cardinality(Ready(r)') <= audit[r]["approved"]
    BY <1>2, <1>3, <1>4, <1>6, <1>7
  <1>9. faults' \in {faults, faults + 1} /\ (~Goto(t, "log_ran") => faults' = faults + 1)
    BY <1>1
  <1>10. Cardinality(Recording(r)') =
            IF Goto(t, "log_ran") /\ id[t] = r
            THEN Cardinality(Recording(r)) + 1 ELSE Cardinality(Recording(r))
    BY <1>4, <1>6
  <1> QED
    BY <1>2, <1>3, <1>7, <1>8, <1>9, <1>10

(* The attempt is recorded, or an exception keeps it from being recorded   *)
(* and is counted instead.                                                 *)
LEMMA RecordAccounts ==
    ASSUME AccountsInv, NEW t \in Threads, pc[t] = "log_ran",
           Append(t, "log_ran", "ran", "mark") \/ HandlerRaises(t)
    PROVE  ApprovalsToSpare' /\ AuditAccountsForRuns'
  <1>1. /\ TypeInv /\ id[t] \in Ids
        /\ runs' = runs
        /\ \A u \in Threads \ {t} : id'[u] = id[u]
        /\ \/ Goto(t, "mark") /\ Logged(id[t], "ran") /\ faults' = faults
           \/ Goto(t, "idle") /\ audit' = audit /\ faults' = faults + 1
    BY DEF Append, HandlerRaises, Return, AccountsInv, TypeInv, TypeOK, HandlerTypes
  <1> SUFFICES ASSUME NEW r \in Requests
               PROVE  /\ runs[r] + Cardinality(Ready(r)') <= audit'[r]["approved"]
                      /\ audit'[r]["ran"] + Cardinality(Recording(r)') <= runs[r]
                      /\ runs[r] <= audit'[r]["ran"] + Cardinality(Recording(r)') + faults'
    BY <1>1 DEF ApprovalsToSpare, AuditAccountsForRuns
  <1>2. /\ runs[r] + Cardinality(Ready(r)) <= audit[r]["approved"]
        /\ audit[r]["ran"] + Cardinality(Recording(r)) <= runs[r]
        /\ runs[r] <= audit[r]["ran"] + Cardinality(Recording(r)) + faults
    BY DEF AccountsInv, ApprovalsToSpare, AuditAccountsForRuns
  <1>3. /\ Cardinality(Ready(r)) \in Nat /\ Cardinality(Recording(r)) \in Nat
        /\ runs[r] \in Nat /\ faults \in Nat
        /\ audit[r]["approved"] \in Nat /\ audit[r]["ran"] \in Nat
    BY <1>1, AccountTypes, ReadyCount, RecordingCount
  <1>4. Ready(r)' = Ready(r) /\ Recording(r)' = Recording(r) \ {t}
    <2>1. /\ {"mark", "idle"} \subseteq Steps
          /\ {"mark", "idle"} \cap (ReadySteps \cup {"log_ran"}) = {}
          /\ t \notin Ready(r)
      BY DEF Steps, RefreshSites, Locals, ReadySteps, Ready
    <2> QED
      BY <1>1, <2>1, SetsAfter
  <1>5. Cardinality(Recording(r)') =
            IF id[t] = r THEN Cardinality(Recording(r)) - 1 ELSE Cardinality(Recording(r))
    <2>1. t \in Recording(r) <=> id[t] = r
      BY DEF Recording
    <2> QED
      BY <1>1, <1>4, <2>1, AccountTypes, ReadyCount, RecordingCount
  <1>6. /\ audit'[r]["approved"] = audit[r]["approved"]
        /\ \/ /\ audit'[r]["ran"] = IF id[t] = r THEN audit[r]["ran"] + 1 ELSE audit[r]["ran"]
              /\ faults' = faults
           \/ audit'[r]["ran"] = audit[r]["ran"] /\ faults' = faults + 1
    <2>1. {"ran", "approved"} \subseteq Events
      BY DEF Events
    <2> QED
      BY <1>1, <2>1, LoggedCounts
  <1> QED
    BY <1>2, <1>3, <1>4, <1>5, <1>6

(* A step that moves no handler, and at most counts a fault.               *)
LEMMA StillAccounts ==
    ASSUME AccountsInv, UNCHANGED <<pc, id, runs>>, faults' \in {faults, faults + 1},
           \A r \in Requests : /\ audit'[r]["approved"] = audit[r]["approved"]
                               /\ audit'[r]["ran"] = audit[r]["ran"]
    PROVE  ApprovalsToSpare' /\ AuditAccountsForRuns'
  <1>1. \A r : Ready(r)' = Ready(r) /\ Recording(r)' = Recording(r)
    BY DEF Ready, Recording
  <1>2. ApprovalsToSpare'
    BY <1>1 DEF AccountsInv, ApprovalsToSpare
  <1>3. AuditAccountsForRuns'
    <2> SUFFICES ASSUME NEW r \in Requests
                 PROVE  /\ audit[r]["ran"] + Cardinality(Recording(r)) <= runs[r]
                        /\ runs[r] <= audit[r]["ran"] + Cardinality(Recording(r)) + faults'
      BY <1>1 DEF AuditAccountsForRuns
    <2>1. /\ audit[r]["ran"] + Cardinality(Recording(r)) <= runs[r]
          /\ runs[r] <= audit[r]["ran"] + Cardinality(Recording(r)) + faults
      BY DEF AccountsInv, AuditAccountsForRuns
    <2>2. /\ runs[r] \in Nat /\ faults \in Nat /\ audit[r]["ran"] \in Nat
          /\ Cardinality(Recording(r)) \in Nat
      <3>1. Recording(r) \in SUBSET Threads
        BY DEF Recording
      <3> QED
        BY <3>1, AccountTypes, SizeOf DEF AccountsInv
    <2> QED
      BY <2>1, <2>2
  <1> QED
    BY <1>2, <1>3

(* An append of another event, by a handler that then neither gets ready   *)
(* nor attempts.                                                           *)
LEMMA AppendAccounts ==
    ASSUME AccountsInv, NEW t \in Threads, NEW step, NEW e \in Events \ {"approved", "ran"},
           NEW s \in Steps, Append(t, step, e, s),
           step # "log_ran", s \notin ReadySteps \cup {"log_ran"}
    PROVE  ApprovalsToSpare' /\ AuditAccountsForRuns'
  <1>1. /\ TypeInv /\ id[t] \in Ids /\ pc[t] = step
        /\ Logged(id[t], e) /\ Goto(t, s)
        /\ UNCHANGED <<runs, faults>>
        /\ \A u \in Threads \ {t} : id'[u] = id[u]
    BY DEF Append, Return, AccountsInv, TypeInv, TypeOK, HandlerTypes
  <1>2. \A r \in Requests : /\ audit'[r]["approved"] = audit[r]["approved"]
                            /\ audit'[r]["ran"] = audit[r]["ran"]
    BY <1>1, LoggedCounts DEF Events
  <1> QED
    BY <1>1, <1>2, AsideAccounts

LEMMA ApproveAccounts ==
    ASSUME AccountsInv, NEW t \in Threads, ApproveStep(t)
    PROVE  ApprovalsToSpare' /\ AuditAccountsForRuns'
  <1> USE DEF Steps, RefreshSites, Locals, ReadySteps
  <1>1. CASE GetReturns(t)
    BY <1>1, AsideAccounts DEF GetReturns, Refreshed
  <1>2. CASE ApproveWrite(t)
    BY <1>2, AsideAccounts DEF ApproveWrite, Refreshed
  <1>3. CASE ApproveRefused(t)
    BY <1>3, AsideAccounts DEF ApproveRefused, Refreshed
  <1>4. CASE GetPayload(t)
    BY <1>4, AsideAccounts DEF GetPayload, Refreshed
  <1>5. CASE Recheck(t)
    <2>1. Goto(t, "deny") \/ Goto(t, "execute")
      BY <1>5 DEF Recheck
    <2> QED
      BY <1>5, <2>1, AsideAccounts DEF Recheck
  <1>6. CASE Deny(t)
    BY <1>6, AsideAccounts DEF Deny
  <1>7. CASE Attempt(t)
    BY <1>7, AttemptAccounts
  <1>8. CASE SetupError(t)
    BY <1>8, AsideAccounts DEF SetupError
  <1>9. CASE DiscardUnrun(t)
    <2>1. \A u \in Threads \ {t} : id'[u] = id[u]
      BY <1>9 DEF DiscardUnrun, Return, AccountsInv, TypeInv, TypeOK, HandlerTypes
    <2> QED
      BY <1>9, <2>1, AsideAccounts DEF DiscardUnrun, Return
  <1>10. CASE MarkWrite(t)
    BY <1>10, AsideAccounts DEF MarkWrite, Refreshed
  <1>11. CASE MarkDrop(t)
    BY <1>11, AsideAccounts DEF MarkDrop
  <1>12. CASE MarkRefused(t)
    BY <1>12, AsideAccounts DEF MarkRefused, Refreshed
  <1>13. CASE ApproveAppends(t)
    <2>1. CASE Append(t, "log_refused", "refused", "idle")
      BY <2>1, AppendAccounts DEF Events
    <2>2. CASE Append(t, "log_approved", "approved", "payload")
      BY <2>2, ApprovedAccounts
    <2>3. CASE Append(t, "log_denied", "denied", "idle")
      BY <2>3, AppendAccounts DEF Events
    <2>4. CASE Append(t, "log_ran", "ran", "mark")
      BY <2>4, RecordAccounts DEF Append
    <2>5. CASE Append(t, "log_not_run", "not_run", "discard")
      BY <2>5, AppendAccounts DEF Events
    <2>6. CASE Append(t, "log_executed", "executed", "idle")
      BY <2>6, AppendAccounts DEF Events
    <2> QED
      BY <1>13, <2>1, <2>2, <2>3, <2>4, <2>5, <2>6 DEF ApproveAppends
  <1> QED
    BY <1>1, <1>2, <1>3, <1>4, <1>5, <1>6, <1>7, <1>8, <1>9, <1>10, <1>11, <1>12, <1>13
       DEF ApproveStep

LEMMA RejectAccounts ==
    ASSUME AccountsInv, NEW t \in Threads, RejectStep(t)
    PROVE  ApprovalsToSpare' /\ AuditAccountsForRuns'
  <1> USE DEF Steps, RefreshSites, Locals, ReadySteps
  <1>1. CASE RejectGetReturns(t)
    BY <1>1, AsideAccounts DEF RejectGetReturns, Refreshed
  <1>2. CASE RejectWrite(t)
    BY <1>2, AsideAccounts DEF RejectWrite, Refreshed
  <1>3. CASE RejectDrop(t)
    BY <1>3, AsideAccounts DEF RejectDrop
  <1>4. CASE RejectRefused(t)
    <2>1. \A u \in Threads \ {t} : id'[u] = id[u]
      BY <1>4 DEF RejectRefused, Return, AccountsInv, TypeInv, TypeOK, HandlerTypes
    <2> QED
      BY <1>4, <2>1, AsideAccounts DEF RejectRefused, Refreshed, Return
  <1>5. CASE RejectAppends(t)
    BY <1>5, AppendAccounts DEF RejectAppends, Events
  <1> QED
    BY <1>1, <1>2, <1>3, <1>4, <1>5 DEF RejectStep

LEMMA CallAccounts ==
    ASSUME AccountsInv, NEW t \in Threads,
           \/ ReceiveApprove(t) \/ ReceiveReject(t) \/ ReceiveList(t)
           \/ ListNext(t) \/ Fault(t)
    PROVE  ApprovalsToSpare' /\ AuditAccountsForRuns'
  <1> USE DEF Steps, RefreshSites, Locals, ReadySteps, AccountsInv, TypeInv, TypeOK, HandlerTypes
  <1>1. CASE ReceiveApprove(t) \/ ReceiveReject(t)
    <2>1. \A u \in Threads \ {t} : id'[u] = id[u]
      BY <1>1 DEF ReceiveApprove, ReceiveReject, Receive
    <2> QED
      BY <1>1, <2>1, AsideAccounts DEF ReceiveApprove, ReceiveReject, Receive
  <1>2. CASE ReceiveList(t)
    <2>1. \A u \in Threads \ {t} : id'[u] = id[u]
      BY <1>2 DEF ReceiveList, ListFrom
    <2> QED
      BY <1>2, <2>1, AsideAccounts DEF ReceiveList
  <1>3. CASE ListNext(t)
    <2>1. \A u \in Threads \ {t} : id'[u] = id[u]
      BY <1>3 DEF ListNext, ListFrom, Return
    <2>2. Goto(t, "idle") \/ Goto(t, "list")
      BY <1>3 DEF ListNext, Return
    <2> QED
      BY <1>3, <2>1, <2>2, AsideAccounts DEF ListNext, Refreshed
  <1>4. CASE HandlerRaises(t)
    <2>1. CASE pc[t] = "log_ran"
      BY <1>4, <2>1, RecordAccounts
    <2>2. CASE pc[t] # "log_ran"
      <3>1. \A u \in Threads \ {t} : id'[u] = id[u]
        BY <1>4 DEF HandlerRaises, Return
      <3> QED
        BY <1>4, <2>2, <3>1, AsideAccounts DEF HandlerRaises, Return
    <2> QED
      BY <2>1, <2>2
  <1>5. CASE AttemptRaises(t)
    BY <1>5, AttemptAccounts
  <1> QED
    BY <1>1, <1>2, <1>3, <1>4, <1>5 DEF Fault

LEMMA AgentAccounts ==
    ASSUME AccountsInv, AgentStep
    PROVE  ApprovalsToSpare' /\ AuditAccountsForRuns'
  <1>1. CASE Create \/ Attach \/ AgentAppendFails
    BY <1>1, StillAccounts DEF Create, Attach, AgentAppendFails, handler
  <1>2. CASE AgentAppends
    <2>1. PICK e \in {"requires_approval", "created"} : Logged(agent.id, e)
      BY <1>2 DEF AgentAppends
    <2>2. agent.id \in Ids /\ TypeInv
      BY DEF AccountsInv, TypeInv, TypeOK, OtherTypes
    <2>3. \A r \in Requests : /\ audit'[r]["approved"] = audit[r]["approved"]
                              /\ audit'[r]["ran"] = audit[r]["ran"]
      BY <2>1, <2>2, LoggedCounts DEF Events
    <2> QED
      BY <1>2, <2>3, StillAccounts DEF AgentAppends, handler
  <1> QED
    BY <1>1, <1>2 DEF AgentStep

LEMMA AccountsInvStep == AccountsInv /\ [Next]_vars => AccountsInv'
  <1> SUFFICES ASSUME AccountsInv, [Next]_vars PROVE AccountsInv'
    OBVIOUS
  <1>1. TypeInv'
    BY TypeInvStep DEF AccountsInv
  <1>2. ApprovalsToSpare' /\ AuditAccountsForRuns'
    <2>1. CASE Tick
      BY <2>1, StillAccounts DEF Tick, handler
    <2>2. CASE UNCHANGED vars
      BY <2>2, StillAccounts DEF vars, handler
    <2>3. ASSUME NEW t \in Threads, Refresh(t)
          PROVE  ApprovalsToSpare' /\ AuditAccountsForRuns'
      BY <2>3, StillAccounts DEF Refresh, RefreshRead, RefreshExpire, RefreshDrop
    <2> QED
      BY <2>1, <2>2, <2>3, ApproveAccounts, RejectAccounts, CallAccounts, AgentAccounts
         DEF Next, Proceed
  <1> QED
    BY <1>1, <1>2 DEF AccountsInv

(* However threads, agent and clock interleave and store calls overlap,    *)
(* AccountsInv holds.                                                      *)
THEOREM AccountsHold == Spec => []AccountsInv
  <1>1. Init => AccountsInv
    BY TypeInvInit, AccountsInit DEF AccountsInv
  <1> QED
    BY <1>1, AccountsInvStep, PTL DEF Spec

(* The trail has one executed=True event of a tool per attempt, but for    *)
(* handlers about to append theirs and handlers an exception ended, and    *)
(* none too many: _execute_approved_request appends it right after the     *)
(* operation.                                                              *)
THEOREM TrailAccountsForRuns == Spec => []AuditAccountsForRuns
  <1>1. AccountsInv => AuditAccountsForRuns
    BY DEF AccountsInv
  <1> QED
    BY <1>1, AccountsHold, PTL

(* Whatever the store lets through twice, no operation is attempted        *)
(* without an approval of its own in the trail before it.                  *)
THEOREM NoRunWithoutApproval == Spec => []ApprovalsBoundRuns
  <1>1. AccountsInv => ApprovalsBoundRuns
    <2> SUFFICES ASSUME AccountsInv, NEW r \in Requests
                 PROVE  runs[r] <= audit[r]["approved"]
      BY DEF ApprovalsBoundRuns
    <2>1. runs[r] \in Nat /\ audit[r]["approved"] \in Nat
      BY AccountTypes DEF AccountsInv
    <2>2. Cardinality(Ready(r)) \in Nat
      <3>1. Ready(r) \in SUBSET Threads
        BY DEF Ready
      <3> QED
        BY <3>1, SizeOf
    <2>3. runs[r] + Cardinality(Ready(r)) <= audit[r]["approved"]
      BY DEF AccountsInv, ApprovalsToSpare
    <2> QED
      BY <2>1, <2>2, <2>3
  <1> QED
    BY <1>1, AccountsHold, PTL

-----------------------------------------------------------------------------
(* What is said to be executed was attempted.                              *)

LEMMA MarkingCount ==
    ASSUME NEW r, NEW t \in Threads
    PROVE  /\ Cardinality(Marking(r)) \in Nat
           /\ t \in Marking(r) => Cardinality(Marking(r) \ {t}) = Cardinality(Marking(r)) - 1
           /\ t \notin Marking(r) => Cardinality(Marking(r) \cup {t}) = Cardinality(Marking(r)) + 1
  <1>1. Marking(r) \in SUBSET Threads
    BY DEF Marking
  <1>2. Cardinality(Marking(r)) \in Nat
    BY <1>1, SizeOf
  <1>3. t \in Marking(r) => Cardinality(Marking(r) \ {t}) = Cardinality(Marking(r)) - 1
    BY <1>1, OneLess
  <1>4. t \notin Marking(r) => Cardinality(Marking(r) \cup {t}) = Cardinality(Marking(r)) + 1
    BY <1>1, OneMore
  <1> QED
    BY <1>2, <1>3, <1>4

LEMMA MarkTypes ==
    ASSUME TypeInv, NEW r \in Requests
    PROVE  audit[r]["executed"] \in Nat /\ audit[r]["ran"] \in Nat /\ runs[r] \in Nat
  BY DEF TypeInv, TypeOK, OtherTypes, Ids, Events

(* A thread goes on, to a marking step only from another.                  *)
LEMMA AsideMarks ==
    ASSUME TypeInv, AttemptsToSpare, NEW t \in Threads, NEW s \in Steps, Goto(t, s),
           \A u \in Threads \ {t} : id'[u] = id[u],
           s \in MarkSteps => pc[t] \in MarkSteps /\ id'[t] = id[t],
           \A r \in Requests : /\ audit'[r]["executed"] = audit[r]["executed"]
                               /\ audit'[r]["ran"] = audit[r]["ran"]
    PROVE  AttemptsToSpare'
  <1> SUFFICES ASSUME NEW r \in Requests
               PROVE  audit[r]["executed"] + Cardinality(Marking(r)') <= audit[r]["ran"]
    BY DEF AttemptsToSpare
  <1>1. /\ audit[r]["executed"] + Cardinality(Marking(r)) <= audit[r]["ran"]
        /\ audit[r]["executed"] \in Nat /\ audit[r]["ran"] \in Nat
        /\ Cardinality(Marking(r)) \in Nat
    BY MarkTypes, MarkingCount DEF AttemptsToSpare
  <1>2. pc'[t] = s /\ \A u \in Threads \ {t} : pc'[u] = pc[u]
    BY DEF Goto, TypeInv, TypeOK, HandlerTypes
  <1>3. Marking(r)' = Marking(r) \/ (t \in Marking(r) /\ Marking(r)' = Marking(r) \ {t})
    BY <1>2 DEF Marking
  <1>4. CASE Marking(r)' = Marking(r)
    BY <1>1, <1>4
  <1>5. CASE t \in Marking(r) /\ Marking(r)' = Marking(r) \ {t}
    <2>1. Cardinality(Marking(r)') = Cardinality(Marking(r)) - 1
      BY <1>5, MarkingCount
    <2> QED
      BY <1>1, <2>1
  <1> QED
    BY <1>3, <1>4, <1>5

(* The attempt is recorded before the request is marked ...                *)
LEMMA RecordMarks ==
    ASSUME TypeInv, AttemptsToSpare, NEW t \in Threads, Append(t, "log_ran", "ran", "mark")
    PROVE  AttemptsToSpare'
  <1>1. /\ id[t] \in Ids /\ pc[t] = "log_ran" /\ id' = id
        /\ Logged(id[t], "ran") /\ Goto(t, "mark")
    BY DEF Append, TypeInv, TypeOK, HandlerTypes
  <1> SUFFICES ASSUME NEW r \in Requests
               PROVE  audit'[r]["executed"] + Cardinality(Marking(r)') <= audit'[r]["ran"]
    BY DEF AttemptsToSpare
  <1>2. /\ audit[r]["executed"] + Cardinality(Marking(r)) <= audit[r]["ran"]
        /\ audit[r]["executed"] \in Nat /\ audit[r]["ran"] \in Nat
        /\ Cardinality(Marking(r)) \in Nat
    BY MarkTypes, MarkingCount DEF AttemptsToSpare
  <1>3. /\ audit'[r]["executed"] = audit[r]["executed"]
        /\ audit'[r]["ran"] = IF r = id[t] THEN audit[r]["ran"] + 1 ELSE audit[r]["ran"]
    BY <1>1, LoggedCounts DEF Events
  <1>4. pc'[t] = "mark" /\ \A u \in Threads \ {t} : pc'[u] = pc[u]
    BY <1>1 DEF Goto, TypeInv, TypeOK, HandlerTypes
  <1>5. CASE id[t] = r
    <2>1. t \notin Marking(r) /\ Marking(r)' = Marking(r) \cup {t}
      BY <1>1, <1>4, <1>5 DEF Marking, MarkSteps
    <2>2. Cardinality(Marking(r)') = Cardinality(Marking(r)) + 1
      BY <2>1, MarkingCount
    <2> QED
      BY <1>2, <1>3, <1>5, <2>2
  <1>6. CASE id[t] # r
    <2>1. Marking(r)' = Marking(r)
      BY <1>1, <1>4, <1>6 DEF Marking, MarkSteps
    <2> QED
      BY <1>2, <1>3, <1>6, <2>1
  <1> QED
    BY <1>5, <1>6

(* ... and the handler that says executed says it once.                    *)
LEMMA ExecutedMarks ==
    ASSUME TypeInv, AttemptsToSpare, NEW t \in Threads,
           Append(t, "log_executed", "executed", "idle")
    PROVE  AttemptsToSpare'
  <1>1. /\ id[t] \in Ids /\ pc[t] = "log_executed"
        /\ \A u \in Threads \ {t} : id'[u] = id[u]
        /\ Logged(id[t], "executed") /\ Goto(t, "idle")
    BY DEF Append, Return, TypeInv, TypeOK, HandlerTypes
  <1> SUFFICES ASSUME NEW r \in Requests
               PROVE  audit'[r]["executed"] + Cardinality(Marking(r)') <= audit'[r]["ran"]
    BY DEF AttemptsToSpare
  <1>2. /\ audit[r]["executed"] + Cardinality(Marking(r)) <= audit[r]["ran"]
        /\ audit[r]["executed"] \in Nat /\ audit[r]["ran"] \in Nat
        /\ Cardinality(Marking(r)) \in Nat
    BY MarkTypes, MarkingCount DEF AttemptsToSpare
  <1>3. /\ audit'[r]["ran"] = audit[r]["ran"]
        /\ audit'[r]["executed"] =
              IF r = id[t] THEN audit[r]["executed"] + 1 ELSE audit[r]["executed"]
    BY <1>1, LoggedCounts DEF Events
  <1>4. pc'[t] = "idle" /\ \A u \in Threads \ {t} : pc'[u] = pc[u]
    BY <1>1 DEF Goto, TypeInv, TypeOK, HandlerTypes
  <1>5. CASE id[t] = r
    <2>1. t \in Marking(r) /\ Marking(r)' = Marking(r) \ {t}
      BY <1>1, <1>4, <1>5 DEF Marking, MarkSteps
    <2>2. Cardinality(Marking(r)') = Cardinality(Marking(r)) - 1
      BY <2>1, MarkingCount
    <2> QED
      BY <1>2, <1>3, <1>5, <2>2
  <1>6. CASE id[t] # r
    <2>1. Marking(r)' = Marking(r)
      BY <1>1, <1>4, <1>6 DEF Marking, MarkSteps
    <2> QED
      BY <1>2, <1>3, <1>6, <2>1
  <1> QED
    BY <1>5, <1>6

LEMMA AppendMarks ==
    ASSUME TypeInv, AttemptsToSpare, NEW t \in Threads, NEW step,
           NEW e \in Events \ {"executed", "ran"}, NEW s \in Steps \ MarkSteps, Append(t, step, e, s)
    PROVE  AttemptsToSpare'
  <1>1. /\ id[t] \in Ids /\ Logged(id[t], e) /\ Goto(t, s)
        /\ \A u \in Threads \ {t} : id'[u] = id[u]
    BY DEF Append, Return, TypeInv, TypeOK, HandlerTypes
  <1>2. \A r \in Requests : /\ audit'[r]["executed"] = audit[r]["executed"]
                            /\ audit'[r]["ran"] = audit[r]["ran"]
    BY <1>1, LoggedCounts DEF Events
  <1> QED
    BY <1>1, <1>2, AsideMarks

LEMMA ProceedMarks ==
    ASSUME TypeInv, AttemptsToSpare, NEW t \in Threads, ApproveStep(t) \/ RejectStep(t)
    PROVE  AttemptsToSpare'
  <1> USE DEF Steps, RefreshSites, Locals, MarkSteps
  <1>1. CASE GetReturns(t) \/ ApproveWrite(t) \/ ApproveRefused(t) \/ GetPayload(t)
    BY <1>1, AsideMarks DEF GetReturns, ApproveWrite, ApproveRefused, GetPayload
  <1>2. CASE Recheck(t) \/ Deny(t) \/ Attempt(t) \/ SetupError(t)
    <2>1. Goto(t, "deny") \/ Goto(t, "execute") \/ Goto(t, "log_denied")
          \/ Goto(t, "log_ran") \/ Goto(t, "log_not_run")
      BY <1>2 DEF Recheck, Deny, Attempt, SetupError
    <2> QED
      BY <1>2, <2>1, AsideMarks DEF Recheck, Deny, Attempt, SetupError
  <1>3. CASE MarkWrite(t) \/ MarkDrop(t) \/ MarkRefused(t)
    BY <1>3, AsideMarks DEF MarkWrite, MarkDrop, MarkRefused, Refreshed
  <1>4. CASE RejectGetReturns(t) \/ RejectWrite(t) \/ RejectDrop(t)
    BY <1>4, AsideMarks DEF RejectGetReturns, RejectWrite, RejectDrop
  <1>5. CASE DiscardUnrun(t) \/ RejectRefused(t)
    <2>1. \A u \in Threads \ {t} : id'[u] = id[u]
      BY <1>5 DEF DiscardUnrun, RejectRefused, Return, TypeInv, TypeOK, HandlerTypes
    <2> QED
      BY <1>5, <2>1, AsideMarks DEF DiscardUnrun, RejectRefused, Return
  <1>6. CASE ApproveAppends(t) \/ RejectAppends(t)
    <2>1. CASE \/ Append(t, "log_refused", "refused", "idle")
               \/ Append(t, "log_denied", "denied", "idle")
               \/ Append(t, "log_rejected", "rejected", "idle")
      BY <2>1, AppendMarks DEF Events
    <2>2. CASE Append(t, "log_approved", "approved", "payload")
      BY <2>2, AppendMarks DEF Events
    <2>3. CASE Append(t, "log_not_run", "not_run", "discard")
      BY <2>3, AppendMarks DEF Events
    <2> QED
      BY <1>6, <2>1, <2>2, <2>3, RecordMarks, ExecutedMarks DEF ApproveAppends, RejectAppends
  <1> QED
    BY <1>1, <1>2, <1>3, <1>4, <1>5, <1>6 DEF ApproveStep, RejectStep

LEMMA CallMarks ==
    ASSUME TypeInv, AttemptsToSpare, NEW t \in Threads,
           \/ ReceiveApprove(t) \/ ReceiveReject(t) \/ ReceiveList(t)
           \/ ListNext(t) \/ Fault(t)
    PROVE  AttemptsToSpare'
  <1> USE DEF Steps, RefreshSites, Locals, MarkSteps
  <1>1. \A u \in Threads \ {t} : id'[u] = id[u]
    BY DEF ReceiveApprove, ReceiveReject, Receive, ReceiveList, ListFrom, ListNext, Return,
           Fault, HandlerRaises, AttemptRaises, TypeInv, TypeOK, HandlerTypes
  <1>2. /\ Goto(t, "get") \/ Goto(t, "reject_get") \/ Goto(t, "list") \/ Goto(t, "idle")
        /\ audit' = audit
    BY DEF ReceiveApprove, ReceiveReject, Receive, ReceiveList, ListNext, Return,
           Fault, HandlerRaises, AttemptRaises
  <1> QED
    BY <1>1, <1>2, AsideMarks

LEMMA StillMarks ==
    ASSUME TypeInv, AttemptsToSpare,
           (AgentStep \/ Tick \/ UNCHANGED vars) \/ \E t \in Threads : Refresh(t)
    PROVE  AttemptsToSpare'
  <1>1. UNCHANGED <<pc, id>>
    BY DEF AgentStep, Create, Attach, AgentAppends, AgentAppendFails, Tick, vars, handler,
           Refresh, RefreshRead, RefreshExpire, RefreshDrop
  <1>2. \/ audit' = audit
        \/ \E e \in {"requires_approval", "created"} : Logged(agent.id, e)
    BY DEF AgentStep, Create, Attach, AgentAppends, AgentAppendFails, Tick, vars,
           Refresh, RefreshRead, RefreshExpire, RefreshDrop
  <1>3. agent.id \in Ids
    BY DEF TypeInv, TypeOK, OtherTypes
  <1>4. \A r \in Requests : /\ audit'[r]["executed"] = audit[r]["executed"]
                            /\ audit'[r]["ran"] = audit[r]["ran"]
    BY <1>2, <1>3, LoggedCounts DEF Events
  <1>5. \A r : Marking(r)' = Marking(r)
    BY <1>1 DEF Marking
  <1> QED
    BY <1>4, <1>5 DEF AttemptsToSpare

(* A request is marked by a handler that has recorded its attempt.         *)
LEMMA MarkedAfterRun ==
    ASSUME ExecutedInv, NEW t \in Threads, MarkWrite(t)
    PROVE  id[t] \in Requests /\ runs[id[t]] > 0
  <1>1. id[t] \in Requests /\ pc[t] = "mark" /\ TypeInv
    BY DEF MarkWrite, Refreshed, ExecutedInv, AccountsInv, TypeInv, RequestsKnown,
           Approving, AfterRun, Present
  <1> DEFINE r == id[t]
  <1>2. t \in Marking(r) /\ Marking(r) \ {t} \in SUBSET Threads
    BY <1>1 DEF Marking, MarkSteps
  <1>3. Cardinality(Marking(r)) \in Nat /\ Cardinality(Marking(r)) - 1 \in Nat
    <2>1. Cardinality(Marking(r) \ {t}) \in Nat
      BY <1>2, SizeOf
    <2> QED
      BY <1>2, <2>1, MarkingCount
  <1>4. audit[r]["executed"] + Cardinality(Marking(r)) <= audit[r]["ran"]
    BY <1>1 DEF ExecutedInv, AttemptsToSpare
  <1>5. audit[r]["ran"] + Cardinality(Recording(r)) <= runs[r]
    BY <1>1 DEF ExecutedInv, AccountsInv, AuditAccountsForRuns
  <1>6. /\ audit[r]["executed"] \in Nat /\ audit[r]["ran"] \in Nat /\ runs[r] \in Nat
        /\ Cardinality(Recording(r)) \in Nat
    BY <1>1, MarkTypes, RecordingCount
  <1> QED
    BY <1>1, <1>3, <1>4, <1>5, <1>6

(* Nothing else makes a request executed, and no run is undone.            *)
LEMMA StatusAccounts ==
    ASSUME ExecutedInv, [Next]_vars, NEW r \in Requests, requests'[r].status = "executed"
    PROVE  runs'[r] > 0
  <1> USE DEF Lapsed
  <1>1. TypeInv /\ runs[r] \in Nat /\ (requests[r].status = "executed" => runs[r] > 0)
    BY MarkTypes DEF ExecutedInv, AccountsInv, ExecutedMeansAttempted
  <1>2. CASE runs' = runs /\ requests' = requests
    BY <1>1, <1>2
  <1>3. ASSUME NEW t \in Threads, Attempt(t) \/ AttemptRaises(t) PROVE runs'[r] > 0
    <2>1. requests' = requests /\ runs' = [runs EXCEPT ![id[t]] = @ + 1]
      BY <1>3 DEF Attempt, AttemptRaises, store
    <2>2. runs'[r] = runs[r] \/ runs'[r] = runs[r] + 1
      BY <1>1, <2>1 DEF TypeInv, TypeOK, OtherTypes
    <2> QED
      BY <1>1, <2>1, <2>2
  <1>4. ASSUME NEW t \in Threads, NEW q \in {"expired", "approved", "rejected"},
               id[t] \in Present, SetStatus(id[t], q), runs' = runs
        PROVE  runs'[r] > 0
    <2>1. requests[r].status = "executed"
      BY <1>1, <1>4, StatusAfter
    <2> QED
      BY <1>1, <1>4, <2>1
  <1>5. ASSUME NEW t \in Threads, MarkWrite(t) PROVE runs'[r] > 0
    <2>1. id[t] \in Present /\ SetStatus(id[t], "executed") /\ runs' = runs
      BY <1>1, <1>5 DEF MarkWrite, Refreshed, TypeInv, RequestsKnown, Approving, AfterRun
    <2>2. id[t] = r \/ requests[r].status = "executed"
      BY <1>1, <2>1, StatusAfter
    <2> QED
      BY <1>1, <1>5, <2>1, <2>2, MarkedAfterRun
  <1>6. CASE Create
    <2>1. PICK q \in Requests, tool \in ApprovableTools :
            requests' = [requests EXCEPT ![q] =
              [status |-> "pending", tool |-> tool, expires_at |-> now + TTL]]
      BY <1>6 DEF Create
    <2>2. requests'[r].status = "pending" \/ requests'[r] = requests[r]
      BY <1>1, <2>1 DEF TypeInv, TypeOK, StoreTypes
    <2> QED
      BY <1>1, <1>6, <2>2 DEF Create
  <1>7. CASE AgentStep
    BY <1>2, <1>6, <1>7 DEF AgentStep, Attach, AgentAppends, AgentAppendFails, store
  <1>8. CASE Tick \/ UNCHANGED vars
    BY <1>2, <1>8 DEF Tick, vars, store
  <1>9. ASSUME NEW t \in Threads, Refresh(t) PROVE runs'[r] > 0
    <2>1. CASE RefreshExpire(t)
      <3>1. id[t] \in Present
        BY <1>1, <2>1 DEF RefreshExpire, TypeInv, RequestsKnown
      <3> QED
        BY <1>4, <2>1, <3>1 DEF RefreshExpire
    <2> QED
      BY <1>2, <1>9, <2>1 DEF Refresh, RefreshRead, RefreshDrop, store
  <1>10. ASSUME NEW t \in Threads, ApproveStep(t) \/ RejectStep(t) PROVE runs'[r] > 0
    <2>1. CASE ApproveWrite(t) \/ RejectWrite(t)
      <3>1. id[t] \in Present
        BY <1>1, <2>1 DEF ApproveWrite, RejectWrite, Refreshed, TypeInv, RequestsKnown
      <3> QED
        BY <1>4, <2>1, <3>1 DEF ApproveWrite, RejectWrite
    <2>2. CASE ApproveAppends(t) \/ RejectAppends(t)
      BY <1>2, <2>2 DEF ApproveAppends, RejectAppends, Append, store
    <2> QED
      BY <1>2, <1>3, <1>5, <1>10, <2>1, <2>2
         DEF ApproveStep, RejectStep, GetReturns, ApproveRefused, GetPayload, Recheck, Deny,
             SetupError, DiscardUnrun, MarkDrop, MarkRefused, RejectGetReturns, RejectDrop,
             RejectRefused, store
  <1>11. ASSUME NEW t \in Threads,
                \/ ReceiveApprove(t) \/ ReceiveReject(t) \/ ReceiveList(t)
                \/ ListNext(t) \/ HandlerRaises(t)
         PROVE  runs'[r] > 0
    BY <1>2, <1>11 DEF ReceiveApprove, ReceiveReject, Receive, ReceiveList, ListNext,
                       HandlerRaises, store
  <1> QED
    BY <1>3, <1>7, <1>8, <1>9, <1>10, <1>11 DEF Next, Proceed, Fault

LEMMA ExecutedInvInit == Init => ExecutedInv
  <1> SUFFICES ASSUME Init PROVE ExecutedInv
    OBVIOUS
  <1>1. AccountsInv
    BY TypeInvInit, AccountsInit DEF AccountsInv
  <1>2. \A r \in Requests :
           /\ audit[r]["executed"] = 0 /\ audit[r]["ran"] = 0
           /\ Marking(r) = {} /\ requests[r].status # "executed"
    BY DEF Init, Marking, MarkSteps, Ids, Events, NoRequest
  <1>3. AttemptsToSpare
    <2>1. Cardinality({}) = 0
      BY FS_EmptySet
    <2> QED
      BY <1>2, <2>1 DEF AttemptsToSpare
  <1>4. ExecutedMeansAttempted
    BY <1>2 DEF ExecutedMeansAttempted
  <1> QED
    BY <1>1, <1>3, <1>4 DEF ExecutedInv

LEMMA ExecutedInvStep == ExecutedInv /\ [Next]_vars => ExecutedInv'
  <1> SUFFICES ASSUME ExecutedInv, [Next]_vars PROVE ExecutedInv'
    OBVIOUS
  <1>1. AccountsInv' /\ TypeInv'
    BY AccountsInvStep DEF ExecutedInv, AccountsInv
  <1>2. AttemptsToSpare'
    <2>1. TypeInv /\ AttemptsToSpare
      BY DEF ExecutedInv, AccountsInv
    <2> QED
      BY <2>1, ProceedMarks, CallMarks, StillMarks DEF Next, Proceed
  <1>3. ExecutedMeansAttempted'
    <2> SUFFICES ASSUME NEW r \in Requests
                 PROVE  (audit[r]["executed"] <= audit[r]["ran"])'
      BY StatusAccounts DEF ExecutedMeansAttempted
    <2>1. (audit[r]["executed"] + Cardinality(Marking(r)) <= audit[r]["ran"])'
      BY <1>2 DEF AttemptsToSpare
    <2>2. (audit[r]["executed"] \in Nat /\ audit[r]["ran"] \in Nat)'
      BY <1>1 DEF TypeInv, TypeOK, OtherTypes, Ids, Events
    <2>3. (Cardinality(Marking(r)) \in Nat)'
      <3>1. (Marking(r))' \in SUBSET Threads
        BY DEF Marking
      <3> QED
        BY <3>1, SizeOf
    <2> QED
      BY <2>1, <2>2, <2>3
  <1> QED
    BY <1>1, <1>2, <1>3 DEF ExecutedInv

(* approval_operation_executed, and the status executed, are only said of  *)
(* an operation that was attempted, however store calls overlap: a handler *)
(* marks its request after it has recorded the attempt.                    *)
THEOREM ExecutedWasAttempted == Spec => []ExecutedMeansAttempted
  <1>1. ExecutedInv => ExecutedMeansAttempted
    BY DEF ExecutedInv
  <1> QED
    BY <1>1, ExecutedInvInit, ExecutedInvStep, PTL DEF Spec

-----------------------------------------------------------------------------
(* The executed event and the status executed.  What a marking handler has *)
(* read of its request is the approval it owns, and what it has written    *)
(* stays, unless the request raced.                                        *)

MarkersFit ==
    \A t \in Threads : Unraced(t) =>
        /\ pc[t] = "mark" /\ stage[t] # "start" => stage[t] = "ready" /\ seen[t] = "approved"
        /\ pc[t] \in {"mark_drop", "log_executed"} => StatusOf(id[t]) = "executed"

MarkedInv == WorkflowInv /\ MarkersFit /\ ExecutedIsMarked

(* A race is never forgotten, and without one executed is the last status. *)
LEMMA ExecutedStays ==
    ASSUME WorkflowInv, [Next]_vars
    PROVE  /\ raced \subseteq raced'
           /\ \A r \in Requests \ raced' :
                requests[r].status = "executed" => requests'[r].status = "executed"
  <1>1. raced \subseteq raced'
    <2>1. ASSUME NEW t \in Threads, RefreshExpire(t) \/ ApproveWrite(t) \/ RejectWrite(t)
          PROVE  raced \subseteq raced'
      BY <2>1 DEF RefreshExpire, ApproveWrite, RejectWrite, NoteRace
    <2>2. ASSUME NEW t \in Threads, ApproveStep(t) \/ RejectStep(t),
                 ~ApproveWrite(t), ~RejectWrite(t)
          PROVE  raced' = raced
      BY <2>2 DEF ApproveStep, RejectStep, GetReturns, ApproveRefused, GetPayload, Recheck, Deny,
             Attempt, SetupError, DiscardUnrun, MarkWrite, MarkDrop, MarkRefused, ApproveAppends,
             RejectGetReturns, RejectDrop, RejectRefused, RejectAppends, Append
    <2>3. ASSUME NEW t \in Threads,
                 \/ RefreshRead(t) \/ RefreshDrop(t) \/ ReceiveApprove(t) \/ ReceiveReject(t)
                 \/ ReceiveList(t) \/ ListNext(t) \/ Fault(t)
          PROVE  raced' = raced
      BY <2>3 DEF RefreshRead, RefreshDrop, ReceiveApprove, ReceiveReject, Receive, ReceiveList,
             ListNext, Fault, HandlerRaises, AttemptRaises
    <2>4. AgentStep \/ Tick \/ UNCHANGED vars => raced' = raced
      BY DEF AgentStep, Create, Attach, AgentAppends, AgentAppendFails, Tick, vars
    <2> QED
      BY <2>1, <2>2, <2>3, <2>4 DEF Next, Proceed, Refresh
  <1>2. ASSUME NEW r \in Requests \ raced', requests[r].status = "executed"
        PROVE  requests'[r].status = "executed"
    <2>1. [q \in Requests |-> PhaseOf(q)][r] = "executed"
      BY <1>1, <1>2 DEF PhaseOf
    <2>2. [q \in Requests |-> PhaseOf(q)]'[r] \in {"executed", "raced"}
      BY <2>1, StepMaps
         DEF Lifecycle!vars, Lifecycle!Next, Lifecycle!Create, Lifecycle!Answer, Lifecycle!Run,
             Lifecycle!Finish, Lifecycle!Race, Lifecycle!RunAgain
    <2>3. requests'[r].status \in {"executed", "raced"}
      BY <1>2, <2>2 DEF PhaseOf
    <2> QED
      BY <2>3, TypeInvStep DEF WorkflowInv, TypeInv, TypeOK, StoreTypes, RequestRecords,
                               NoRequest, Statuses
  <1> QED
    BY <1>1, <1>2

(* How a handler comes to a step at which its request is marked.           *)
LEMMA MarkerSteps ==
    ASSUME TypeInv, [Next]_vars, NEW t \in Threads, pc'[t] \in {"mark", "mark_drop", "log_executed"}
    PROVE  /\ id'[t] = id[t]
           /\ \/ pc'[t] = pc[t] /\ stage'[t] = stage[t] /\ seen'[t] = seen[t]
              \/ pc'[t] = "mark" /\ stage'[t] = "start"
              \/ RefreshRead(t) \/ RefreshExpire(t) \/ RefreshDrop(t)
              \/ MarkWrite(t) \/ MarkDrop(t) \/ MarkRefused(t)
  <1> USE DEF TypeInv, TypeOK, HandlerTypes
  <1>1. CASE UNCHANGED vars \/ Tick \/ AgentStep
    BY <1>1 DEF vars, handler, Tick, AgentStep, Create, Attach, AgentAppends, AgentAppendFails
  <1>2. ASSUME NEW u \in Threads, Refresh(u)
        PROVE  \/ u = t
               \/ /\ id'[t] = id[t] /\ pc'[t] = pc[t]
                  /\ stage'[t] = stage[t] /\ seen'[t] = seen[t]
    BY <1>2 DEF Refresh, RefreshRead, RefreshExpire, RefreshDrop
  <1>3. ASSUME NEW u \in Threads, u # t,
               \/ ReceiveApprove(u) \/ ReceiveReject(u) \/ ReceiveList(u) \/ ListNext(u)
               \/ ApproveStep(u) \/ RejectStep(u) \/ Fault(u)
        PROVE  /\ id'[t] = id[t] /\ pc'[t] = pc[t]
               /\ stage'[t] = stage[t] /\ seen'[t] = seen[t]
    BY <1>3 DEF ReceiveApprove, ReceiveReject, Receive, ReceiveList, ListFrom, ListNext, Goto,
           Return, Fault, HandlerRaises, AttemptRaises, ApproveStep, RejectStep, GetReturns,
           ApproveWrite, ApproveRefused, GetPayload, Recheck, Deny, Attempt, SetupError,
           DiscardUnrun, MarkWrite, MarkDrop, MarkRefused, ApproveAppends, RejectGetReturns,
           RejectWrite, RejectDrop, RejectRefused, RejectAppends, Append
  <1>4. CASE \/ ReceiveApprove(t) \/ ReceiveReject(t) \/ ReceiveList(t) \/ ListNext(t) \/ Fault(t)
    BY <1>4 DEF ReceiveApprove, ReceiveReject, Receive, ReceiveList, ListNext, Goto, Return,
                Fault, HandlerRaises, AttemptRaises
  <1>5. CASE ApproveStep(t)
    BY <1>5 DEF ApproveStep, Goto, Return, GetReturns, ApproveWrite, ApproveRefused, GetPayload,
                Recheck, Deny, Attempt, SetupError, DiscardUnrun, MarkWrite, MarkDrop,
                MarkRefused, ApproveAppends, Append
  <1>6. CASE RejectStep(t)
    BY <1>6 DEF RejectStep, Goto, Return, RejectGetReturns, RejectWrite, RejectDrop,
                RejectRefused, RejectAppends, Append
  <1>7. CASE Refresh(t)
    BY <1>7 DEF Refresh, RefreshRead, RefreshExpire, RefreshDrop
  <1> QED
    BY <1>1, <1>2, <1>3, <1>4, <1>5, <1>6, <1>7 DEF Next, Proceed

LEMMA MarkersStep ==
    ASSUME MarkedInv, [Next]_vars
    PROVE  MarkersFit'
  <1> SUFFICES ASSUME NEW t \in Threads, Unraced(t)',
                      pc'[t] \in {"mark", "mark_drop", "log_executed"}
               PROVE  /\ pc'[t] = "mark" /\ stage'[t] # "start"
                            => stage'[t] = "ready" /\ seen'[t] = "approved"
                      /\ pc'[t] \in {"mark_drop", "log_executed"}
                            => StatusOf(id[t])' = "executed"
    BY DEF MarkersFit
  <1>1. id'[t] = id[t] /\ Unraced(t) /\ TypeInv
    BY MarkerSteps, ExecutedStays DEF MarkedInv, WorkflowInv, Unraced
  <1>2. StatusOf(id[t]) = "executed" => StatusOf(id[t])' = "executed"
    BY <1>1, ExecutedStays DEF MarkedInv, StatusOf, Unraced
  <1>3. CASE pc'[t] = pc[t] /\ stage'[t] = stage[t] /\ seen'[t] = seen[t]
    BY <1>1, <1>2, <1>3 DEF MarkedInv, MarkersFit
  <1>4. CASE RefreshRead(t)
    <2>1. pc'[t] = "mark" /\ pc[t] = "mark" /\ seen'[t] = StatusOf(id[t])
          /\ stage'[t] = IF Lapsed(id[t]) THEN "expire" ELSE "ready"
      BY <1>1, <1>4 DEF RefreshRead, RefreshSites, TypeInv, TypeOK, HandlerTypes
    <2>2. StatusOf(id[t]) = "approved"
      BY <1>1, <2>1 DEF MarkedInv, WorkflowInv, ApproversOwn, Approving, AfterRun
    <2> QED
      BY <2>1, <2>2 DEF Lapsed
  <1>5. CASE RefreshExpire(t) \/ RefreshDrop(t)
    <2>1. pc'[t] = pc[t] /\ stage[t] \in {"expire", "drop"}
      BY <1>5 DEF RefreshExpire, RefreshDrop
    <2>2. pc[t] = "mark"
      BY <1>1, <2>1 DEF TypeInv, StepsFit, RefreshSites
    <2> QED
      BY <1>1, <2>1, <2>2 DEF MarkedInv, MarkersFit
  <1>6. CASE MarkWrite(t)
    <2>1. id[t] \in Present /\ SetStatus(id[t], "executed") /\ pc'[t] = "mark_drop"
      BY <1>1, <1>6 DEF MarkWrite, Refreshed, Goto, TypeInv, TypeOK, HandlerTypes,
                        RequestsKnown, Approving, AfterRun
    <2> QED
      BY <1>1, <2>1, StatusAfter DEF StatusOf
  <1>7. CASE MarkDrop(t)
    <2>1. pc[t] = "mark_drop" /\ pc'[t] = "log_executed"
      BY <1>1, <1>7 DEF MarkDrop, Goto, TypeInv, TypeOK, HandlerTypes
    <2> QED
      BY <1>1, <1>2, <2>1 DEF MarkedInv, MarkersFit
  <1>8. CASE MarkRefused(t)
    BY <1>1, <1>8 DEF MarkRefused, Refreshed, MarkedInv, MarkersFit
  <1> QED
    BY <1>1, <1>3, <1>4, <1>5, <1>6, <1>7, <1>8, MarkerSteps

(* Only the handler that has marked the request says that it is executed.  *)
LEMMA ExecutedSaid ==
    ASSUME TypeInv, [Next]_vars, NEW r \in Requests, audit'[r]["executed"] # audit[r]["executed"]
    PROVE  \E t \in Threads : /\ pc[t] = "log_executed" /\ id[t] = r
                              /\ UNCHANGED <<requests, raced>>
  <1>1. ASSUME NEW i \in Ids, NEW e \in Events, Logged(i, e)
        PROVE  e = "executed" /\ i = r
    BY <1>1, LoggedCounts DEF Events
  <1>2. audit' # audit
    OBVIOUS
  <1>3. ~AgentStep
    <2>1. agent.id \in Ids
      BY DEF TypeInv, TypeOK, OtherTypes
    <2> QED
      BY <1>1, <1>2, <2>1 DEF AgentStep, Create, Attach, AgentAppends, AgentAppendFails, Events
  <1>4. PICK t \in Threads : ApproveAppends(t) \/ RejectAppends(t)
    <2>1. ~(Tick \/ UNCHANGED vars)
      BY <1>2 DEF Tick, vars
    <2>2. ASSUME NEW t \in Threads,
                 \/ Refresh(t) \/ ReceiveApprove(t) \/ ReceiveReject(t) \/ ReceiveList(t)
                 \/ ListNext(t) \/ Fault(t)
          PROVE  audit' = audit
      BY <2>2 DEF Refresh, RefreshRead, RefreshExpire, RefreshDrop, ReceiveApprove,
             ReceiveReject, Receive, ReceiveList, ListNext, Fault, HandlerRaises, AttemptRaises
    <2>3. ASSUME NEW t \in Threads, ApproveStep(t), ~ApproveAppends(t)
          PROVE  audit' = audit
      BY <2>3 DEF ApproveStep, GetReturns, ApproveWrite, ApproveRefused, GetPayload, Recheck,
             Deny, Attempt, SetupError, DiscardUnrun, MarkWrite, MarkDrop, MarkRefused
    <2>4. ASSUME NEW t \in Threads, RejectStep(t), ~RejectAppends(t)
          PROVE  audit' = audit
      BY <2>4 DEF RejectStep, RejectGetReturns, RejectWrite, RejectDrop, RejectRefused
    <2> QED
      BY <1>2, <1>3, <2>1, <2>2, <2>3, <2>4 DEF Next, Proceed
  <1>5. ASSUME NEW step, NEW e \in Events, NEW s, Append(t, step, e, s)
        PROVE  e = "executed" /\ id[t] = r /\ pc[t] = step /\ UNCHANGED <<requests, raced>>
    <2>1. id[t] \in Ids /\ Logged(id[t], e)
      BY <1>5 DEF Append, TypeInv, TypeOK, HandlerTypes
    <2> QED
      BY <1>1, <1>5, <2>1 DEF Append, store
  <1> QED
    BY <1>4, <1>5 DEF ApproveAppends, RejectAppends, Events

(* The executed event is only logged of a request that is marked executed, *)
(* unless that request raced: whatever mark_executed may raise, it raises  *)
(* for no other (approve_request's except ApprovalStoreError).             *)
THEOREM ExecutedSaidOfMarked == Spec => []ExecutedIsMarked
  <1>1. Init => MarkedInv
    <2>1. Init => MarkersFit /\ ExecutedIsMarked
      BY DEF Init, MarkersFit, ExecutedIsMarked, Ids, Events
    <2> QED
      BY <2>1, WorkflowInvInit DEF MarkedInv
  <1>2. MarkedInv /\ [Next]_vars => MarkedInv'
    <2> SUFFICES ASSUME MarkedInv, [Next]_vars PROVE MarkedInv'
      OBVIOUS
    <2>1. WorkflowInv' /\ MarkersFit'
      BY WorkflowInvStep, MarkersStep DEF MarkedInv
    <2>2. ASSUME NEW r \in Requests, r \notin raced', audit'[r]["executed"] > 0
          PROVE  requests'[r].status = "executed"
      <3>1. r \notin raced /\ TypeInv
        BY <2>2, ExecutedStays DEF MarkedInv, WorkflowInv
      <3>2. CASE audit'[r]["executed"] = audit[r]["executed"]
        BY <2>2, <3>1, <3>2, ExecutedStays DEF MarkedInv, ExecutedIsMarked
      <3>3. CASE audit'[r]["executed"] # audit[r]["executed"]
        <4>1. PICK t \in Threads : pc[t] = "log_executed" /\ id[t] = r /\ requests' = requests
          BY <3>1, <3>3, ExecutedSaid
        <4> QED
          BY <3>1, <4>1 DEF MarkedInv, MarkersFit, Unraced, StatusOf
      <3> QED
        BY <3>2, <3>3
    <2> QED
      BY <2>1, <2>2 DEF MarkedInv, ExecutedIsMarked
  <1>3. MarkedInv => ExecutedIsMarked
    BY DEF MarkedInv
  <1> QED
    BY <1>1, <1>2, <1>3, PTL DEF Spec
=============================================================================

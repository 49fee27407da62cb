-------------------------- MODULE DashboardProofs --------------------------
(***************************************************************************)
(* The dashboard beside the approval workflow, for any number of sessions, *)
(* requests and threads.  Every step of the composition is a step of       *)
(* ApprovalWorkflow or leaves it alone, so what is proved of the workflow  *)
(* holds here as well.                                                     *)
(***************************************************************************)
EXTENDS DashboardClient, ApprovalWorkflowProofs

PageRecords == [step : {"shown", "start", "fetching", "post", "posting"},
                listed : BOOLEAN, rows : SUBSET Requests, selected : Ids, click : Clicks]
CallRecords == [thread : Threads \cup {NoThread}, known : SUBSET Requests, since : Nat,
                pass : BOOLEAN, left : SUBSET Requests,
                all : SUBSET Requests, got : SUBSET Requests]
ToldRecords == [what : Replies, id : Ids]

(* The steps of a handler that answers a click.                            *)
AnswerSteps == Steps \ {"idle", "list"}

Known == Present \cup {UnknownId}

(* What PageFits says of one session, ...                                  *)
Fits(p) ==
    /\ page[p].step \in {"shown", "post", "posting"} =>
          page[p].selected \in IF page[p].rows = {} THEN {UnknownId} ELSE page[p].rows
    /\ page[p].click # NoClick => page[p].step \in {"fetching", "post", "posting"}
    /\ page[p].step \in {"post", "posting"} => page[p].click.id = page[p].selected
    /\ call[p].thread # NoThread <=>
          page[p].step = "posting" \/ (page[p].step = "fetching" /\ ~call[p].pass)

(* ... that all it knows of was in the store ...                           *)
KnowsPresent(p) ==
    /\ page[p].rows \subseteq Present /\ call[p].known \subseteq Present
    /\ call[p].left \subseteq Present /\ call[p].all \subseteq Present
    /\ call[p].got \subseteq Present
    /\ page[p].selected \in Known /\ page[p].click.id \in Known /\ told[p].id \in Known

(* ... and that the thread it waits for is at work on what it asked for.   *)
Served(p) ==
    /\ call[p].pass => page[p].step = "fetching"
    /\ page[p].step = "fetching" /\ call[p].thread # NoThread
          => pc[call[p].thread] = "list"
    /\ page[p].step = "posting"
          => pc[call[p].thread] \in AnswerSteps /\ id[call[p].thread] = page[p].click.id

OwnThreads ==
    \A p, q \in Pages : call[p].thread # NoThread /\ call[p].thread = call[q].thread => p = q

DashTypes ==
    /\ page \in [Pages -> PageRecords] /\ call \in [Pages -> CallRecords]
    /\ told \in [Pages -> ToldRecords]

PagesInv ==
    /\ TypeInv /\ DashTypes /\ OwnThreads
    /\ \A p \in Pages : Fits(p) /\ KnowsPresent(p) /\ Served(p)

-----------------------------------------------------------------------------
(* The workflow inside *)

(* A step of the dashboard is one of the workflow, or none.                *)
LEMMA StepInside == [DashboardNext]_allVars => [Next]_vars
<1> SUFFICES ASSUME [DashboardNext]_allVars
             PROVE  [Next]_vars
  OBVIOUS
<1>1. ASSUME NEW p \in Pages, NEW selected, NEW click, Fetch(p, selected, click)
      PROVE  [Next]_vars
  BY <1>1 DEF Fetch, Next
<1>2. ASSUME NEW p \in Pages, Look(p) \/ Click(p) \/ Rerun(p)
      PROVE  [Next]_vars
  BY <1>1, <1>2 DEF Look, Click, Rerun
<1>3. ASSUME NEW p \in Pages,
             \/ ReadRow(p) \/ Fetched(p) \/ FetchFails(p)
             \/ FetchTimesOut(p) \/ PostTimesOut(p)
      PROVE  UNCHANGED vars
  BY <1>3 DEF ReadRow, Fetched, FetchFails, FetchTimesOut, PostTimesOut, ShowRows, ShowWarning
<1>4. ASSUME NEW p \in Pages, Post(p)
      PROVE  Next
  BY <1>4 DEF Post, Next
<1>5. ASSUME NEW t \in Threads, ApiProceeds(t) \/ ApiFaults(t)
      PROVE  Next
  BY <1>5 DEF ApiProceeds, ApiFaults, Next
<1>6. CASE (AgentStep \/ Tick) /\ UNCHANGED pageVars
  BY <1>6 DEF Next
<1>7. CASE UNCHANGED allVars
  BY <1>7 DEF allVars
<1> QED
  BY <1>2, <1>3, <1>4, <1>5, <1>6, <1>7 DEF DashboardNext, PageStep

(* The approval workflow a dashboard is connected to is the one of         *)
(* ApprovalWorkflow: what its theorems say, of runs, refusals, payloads    *)
(* and the audit trail, is so with dashboards, their clicks and timeouts.  *)
THEOREM DashboardKeepsWorkflow == DashboardSpec => Spec
<1>1. DashboardInit => Init
  BY DEF DashboardInit
<1> QED
  BY <1>1, StepInside, PTL DEF DashboardSpec, Spec

(* The store's requests change one at a time: one is created, or one that  *)
(* is there gets a status other than pending.                              *)
LEMMA StoreWrites ==
    ASSUME TypeInv, [Next]_vars
    PROVE  \/ requests' = requests
           \/ \E r \in Present : \E s \in Statuses \ {"pending"} : SetStatus(r, s)
           \/ Create
<1>1. ASSUME NEW t \in Threads,
             RefreshExpire(t) \/ ApproveWrite(t) \/ RejectWrite(t) \/ MarkWrite(t)
      PROVE  \E r \in Present : \E s \in Statuses \ {"pending"} : SetStatus(r, s)
  <2>1. id[t] \in Present
    BY <1>1 DEF RefreshExpire, ApproveWrite, RejectWrite, MarkWrite, Refreshed, TypeInv,
                RequestsKnown
  <2> QED
    BY <1>1, <2>1 DEF RefreshExpire, ApproveWrite, RejectWrite, MarkWrite, Statuses
<1>2. ASSUME NEW t \in Threads, RefreshRead(t) \/ RefreshDrop(t)
      PROVE  requests' = requests
  BY <1>2 DEF RefreshRead, RefreshDrop, store
<1>3. ASSUME NEW t \in Threads, ApproveStep(t) \/ RejectStep(t),
             ~ApproveWrite(t), ~RejectWrite(t), ~MarkWrite(t)
      PROVE  requests' = requests
  BY <1>3
     DEF ApproveStep, RejectStep, GetReturns, ApproveRefused, GetPayload, Recheck, Deny,
         Attempt, SetupError, DiscardUnrun, MarkDrop, MarkRefused, ApproveAppends, Append,
         RejectGetReturns, RejectDrop, RejectRefused, RejectAppends, store
<1>4. ASSUME NEW t \in Threads,
             \/ ReceiveApprove(t) \/ ReceiveReject(t) \/ ReceiveList(t)
             \/ ListNext(t) \/ Fault(t)
      PROVE  requests' = requests
  BY <1>4 DEF ReceiveApprove, ReceiveReject, Receive, ReceiveList, ListNext, Fault,
              HandlerRaises, AttemptRaises, store
<1>5. ASSUME (AgentStep /\ ~Create) \/ Tick \/ UNCHANGED vars
      PROVE  requests' = requests
  BY <1>5 DEF AgentStep, Attach, AgentAppends, AgentAppendFails, Tick, vars, store
<1> QED
  BY <1>1, <1>2, <1>3, <1>4, <1>5 DEF Next, Proceed, Refresh

(* The store forgets no request, settles one for good, and gives it a term *)
(* that stays.                                                             *)
LEMMA StoreKeeps ==
    ASSUME TypeInv, [Next]_vars, NEW r \in Present
    PROVE  /\ r \in Present'
           /\ requests'[r].expires_at = requests[r].expires_at
           /\ StatusOf(r) # "pending" => StatusOf(r)' # "pending"
<1>1. /\ requests[r] \in RequestRecords /\ r \in Requests
      /\ requests \in [Requests -> RequestRecords \cup {NoRequest}]
  BY DEF Present, TypeInv, TypeOK, StoreTypes
<1>2. CASE requests' = requests
  BY <1>2 DEF Present, StatusOf
<1>3. ASSUME NEW q \in Present, NEW s \in Statuses \ {"pending"}, SetStatus(q, s)
      PROVE  /\ r \in Present'
             /\ requests'[r].expires_at = requests[r].expires_at
             /\ StatusOf(r) # "pending" => StatusOf(r)' # "pending"
  <2>1. CASE q = r
    <3>1. requests'[r] = [requests[r] EXCEPT !.status = s]
      BY <1>1, <1>3, <2>1 DEF SetStatus
    <3>2. /\ [requests[r] EXCEPT !.status = s].status = s
          /\ [requests[r] EXCEPT !.status = s].expires_at = requests[r].expires_at
      BY <1>1 DEF RequestRecords
    <3>3. [requests[r] EXCEPT !.status = s] # NoRequest
      BY <3>2 DEF NoRequest, Statuses
    <3> QED
      BY <1>1, <3>1, <3>2, <3>3 DEF Present, StatusOf
  <2>2. CASE q # r
    BY <1>1, <1>3, <2>2 DEF SetStatus, Present, StatusOf
  <2> QED
    BY <2>1, <2>2
<1>4. CASE Create
  <2>1. requests'[r] = requests[r]
    BY <1>1, <1>4 DEF Create, Present
  <2> QED
    BY <1>1, <2>1 DEF Present, StatusOf
<1> QED
  BY <1>2, <1>3, <1>4, StoreWrites

LEMMA PresentGrows ==
    ASSUME TypeInv, [Next]_vars
    PROVE  Present \subseteq Present'
  BY StoreKeeps

(* How a thread's handler moves on: what the page that waits for it needs. *)
LEMMA HandlerMoves ==
    ASSUME TypeInv, NEW t \in Threads, Proceed(t)
    PROVE  /\ \A u \in Threads \ {t} : pc'[u] = pc[u] /\ id'[u] = id[u]
           /\ pc[t] # "idle"
           /\ pc[t] = "list" => pc'[t] \in {"list", "idle"}
           /\ pc[t] # "list" /\ pc'[t] # "idle"
                 => pc'[t] \in AnswerSteps /\ id'[t] = id[t]
           /\ pc[t] # "list" /\ pc'[t] = "idle"
                 => pc[t] \in {"log_executed", "log_refused", "log_denied", "discard",
                               "reject", "log_rejected"}
<1>1. /\ \A s : Goto(t, s) =>
            pc'[t] = s /\ \A u \in Threads \ {t} : pc'[u] = pc[u]
      /\ Return(t) =>
            pc'[t] = "idle" /\ \A u \in Threads \ {t} : pc'[u] = pc[u] /\ id'[u] = id[u]
  BY DEF Goto, Return, TypeInv, TypeOK, HandlerTypes
<1>2. CASE Refresh(t)
  <2>1. pc[t] \in RefreshSites /\ pc' = pc /\ id' = id
    BY <1>2 DEF Refresh, RefreshRead, RefreshExpire, RefreshDrop, TypeInv, StepsFit
  <2> QED
    BY <2>1 DEF AnswerSteps, Steps, RefreshSites
<1>3. ASSUME NEW s \in AnswerSteps, Goto(t, s), id' = id, pc[t] \notin {"idle", "list"}
      PROVE  /\ \A u \in Threads \ {t} : pc'[u] = pc[u] /\ id'[u] = id[u]
             /\ pc'[t] \in AnswerSteps /\ id'[t] = id[t] /\ pc'[t] # "idle"
  BY <1>1, <1>3 DEF AnswerSteps
<1>4. ASSUME NEW step, NEW e, NEW next \in AnswerSteps \cup {"idle"}, Append(t, step, e, next)
      PROVE  /\ pc[t] = step /\ \A u \in Threads \ {t} : pc'[u] = pc[u] /\ id'[u] = id[u]
             /\ pc'[t] = next /\ (next # "idle" => id'[t] = id[t])
  BY <1>1, <1>4 DEF Append
<1> USE DEF AnswerSteps, Steps, RefreshSites, Locals
<1>5. CASE ApproveAppends(t) \/ RejectAppends(t)
  BY <1>4, <1>5 DEF ApproveAppends, RejectAppends
<1>6. CASE GetReturns(t) \/ ApproveWrite(t) \/ ApproveRefused(t) \/ GetPayload(t)
  BY <1>3, <1>6 DEF GetReturns, ApproveWrite, ApproveRefused, GetPayload, Refreshed
<1>7. CASE Recheck(t) \/ Deny(t) \/ Attempt(t) \/ SetupError(t)
  BY <1>3, <1>7 DEF Recheck, Deny, Attempt, SetupError
<1>8. CASE MarkWrite(t) \/ MarkDrop(t) \/ MarkRefused(t)
  BY <1>3, <1>8 DEF MarkWrite, MarkDrop, MarkRefused, Refreshed
<1>9. CASE RejectGetReturns(t) \/ RejectWrite(t) \/ RejectDrop(t)
  BY <1>3, <1>9 DEF RejectGetReturns, RejectWrite, RejectDrop, Refreshed
<1>10. CASE DiscardUnrun(t) \/ RejectRefused(t)
  BY <1>1, <1>10 DEF DiscardUnrun, RejectRefused, Refreshed
<1>11. CASE ListNext(t)
  <2>1. pc[t] = "list" /\ (Return(t) \/ (Goto(t, "list") /\ \E s : ListFrom(t, s)))
    BY <1>11 DEF ListNext, Refreshed
  <2> QED
    BY <1>1, <2>1 DEF ListFrom, TypeInv, TypeOK, HandlerTypes
<1> QED
  BY <1>2, <1>5, <1>6, <1>7, <1>8, <1>9, <1>10, <1>11 DEF Proceed, ApproveStep, RejectStep

LEMMA FaultEnds ==
    ASSUME TypeInv, NEW t \in Threads, Fault(t)
    PROVE  /\ \A u \in Threads \ {t} : pc'[u] = pc[u] /\ id'[u] = id[u]
           /\ pc[t] \notin {"idle", "list"} /\ pc'[t] = "idle"
<1>1. Return(t) /\ pc[t] \notin {"idle", "list"}
  BY DEF Fault, HandlerRaises, AttemptRaises
<1> QED
  BY <1>1 DEF Goto, Return, TypeInv, TypeOK, HandlerTypes

-----------------------------------------------------------------------------
(* Steps of one page *)

LEMMA InitPages == DashboardInit => PagesInv
<1> SUFFICES ASSUME DashboardInit
             PROVE  PagesInv
  OBVIOUS
<1>1. TypeInv
  BY TypeInvInit DEF DashboardInit
<1>2. NoClick \in Clicks /\ UnknownId \in Ids /\ NoClick.id = UnknownId
  BY DEF NoClick, Clicks, Ids
<1>3. DashTypes
  BY <1>2 DEF DashboardInit, DashTypes, PageRecords, CallRecords, ToldRecords, NoCall, Replies
<1>4. \A p \in Pages : Fits(p) /\ KnowsPresent(p) /\ Served(p)
  BY <1>2 DEF DashboardInit, Fits, KnowsPresent, Served, NoCall, Known
<1>5. OwnThreads
  BY DEF DashboardInit, OwnThreads, NoCall
<1> QED
  BY <1>1, <1>3, <1>4, <1>5 DEF PagesInv

(* A step that changes page p, and at most a thread no other page waits    *)
(* for, needs to be looked at for p only.                                  *)
LEMMA OnePage ==
    ASSUME PagesInv, NEW p \in Pages, TypeInv', Present \subseteq Present', DashTypes',
           \A q \in Pages \ {p} :
               page'[q] = page[q] /\ call'[q] = call[q] /\ told'[q] = told[q],
           \A q \in Pages \ {p} : call[q].thread # NoThread =>
               /\ pc'[call[q].thread] = pc[call[q].thread]
               /\ id'[call[q].thread] = id[call[q].thread]
               /\ call'[p].thread # call[q].thread,
           Fits(p)', KnowsPresent(p)', Served(p)'
    PROVE  PagesInv'
<1>1. ASSUME NEW q \in Pages \ {p}
      PROVE  Fits(q)' /\ KnowsPresent(q)' /\ Served(q)'
  <2>1. Fits(q)'
    BY DEF PagesInv, Fits
  <2>2. KnowsPresent(q)'
    BY DEF PagesInv, KnowsPresent, Known
  <2>3. Served(q)'
    BY DEF PagesInv, Served, Fits
  <2> QED
    BY <2>1, <2>2, <2>3
<1>2. OwnThreads'
  BY DEF PagesInv, OwnThreads
<1> QED
  BY <1>1, <1>2 DEF PagesInv

LEMMA PresentTypes ==
    ASSUME TypeInv
    PROVE  /\ Present \subseteq Requests /\ Known \subseteq Ids /\ now \in Nat
           /\ UnknownId \notin Present
  BY ConstantsAssumption DEF Present, Known, Ids, TypeInv, TypeOK, OtherTypes

(* No thread: the workflow stands still.                                   *)
LEMMA StandsStill ==
    ASSUME TypeInv, UNCHANGED vars
    PROVE  /\ TypeInv' /\ Present' = Present
           /\ pc' = pc /\ id' = id /\ requests' = requests /\ now' = now
<1>1. [Next]_vars /\ requests' = requests
  BY DEF vars, store
<1>2. Present' = Present
  BY <1>1 DEF Present
<1>3. pc' = pc /\ id' = id /\ now' = now
  BY DEF vars, handler
<1> QED
  BY <1>1, <1>2, <1>3, TypeInvStep

LEMMA FetchKeeps ==
    ASSUME PagesInv, NEW p \in Pages, NEW selected \in Known, NEW click \in Clicks,
           click.id \in Known, Fetch(p, selected, click)
    PROVE  PagesInv'
<1>1. page \in [Pages -> PageRecords] /\ selected \in Ids
  BY PresentTypes DEF PagesInv, DashTypes
<1>2. page' = [page EXCEPT ![p] = [page[p] EXCEPT !.step = "fetching", !.listed = FALSE,
                                                 !.selected = selected, !.click = click]]
  BY DEF Fetch
<1>3. /\ page' \in [Pages -> PageRecords]
      /\ page'[p].step = "fetching" /\ page'[p].rows = page[p].rows
      /\ page'[p].selected = selected /\ page'[p].click = click
      /\ \A q \in Pages \ {p} : page'[q] = page[q]
  BY <1>1, <1>2 DEF PageRecords
<1>4. told \in [Pages -> ToldRecords] /\ told' = told
  BY DEF Fetch, PagesInv, DashTypes
<1>5. TypeInv /\ TypeInv' /\ Present \subseteq Present'
  <2>1. [Next]_vars
    BY DEF Fetch, Next
  <2> QED
    BY <2>1, TypeInvStep, PresentGrows DEF PagesInv
<1>6. KnowsPresent(p) /\ call \in [Pages -> CallRecords]
  BY DEF PagesInv, DashTypes
<1>7. CASE Present = {}
  <2> DEFINE C == [NoCall EXCEPT !.since = now, !.pass = TRUE]
  <2>1. UNCHANGED vars /\ call' = [call EXCEPT ![p] = C]
    BY <1>7 DEF Fetch
  <2>2. /\ C \in CallRecords /\ C.thread = NoThread /\ C.pass
        /\ C.known = {} /\ C.left = {} /\ C.all = {} /\ C.got = {}
    BY <1>5, PresentTypes DEF CallRecords, NoCall
  <2> HIDE DEF C
  <2>3. /\ call' \in [Pages -> CallRecords] /\ call'[p] = C
        /\ \A q \in Pages \ {p} : call'[q] = call[q]
    BY <1>6, <2>1, <2>2
  <2>4. pc' = pc /\ id' = id
    BY <1>5, <2>1, StandsStill
  <2>5. Fits(p)' /\ Served(p)'
    BY <1>3, <2>2, <2>3 DEF Fits, Served
  <2>6. KnowsPresent(p)'
    BY <1>3, <1>4, <1>5, <1>6, <2>2, <2>3 DEF KnowsPresent, Known
  <2>7. DashTypes'
    BY <1>3, <1>4, <2>3 DEF DashTypes
  <2> QED
    BY <1>3, <1>4, <1>5, <2>2, <2>3, <2>4, <2>5, <2>6, <2>7, OnePage
<1>8. CASE Present # {}
  <2>1. PICK t \in Threads :
          /\ ReceiveList(t)
          /\ call' = [call EXCEPT ![p] =
                [NoCall EXCEPT !.thread = t, !.known = Present, !.since = now]]
    BY <1>8 DEF Fetch
  <2> DEFINE C == [NoCall EXCEPT !.thread = t, !.known = Present, !.since = now]
  <2>2. /\ C \in CallRecords /\ C.thread = t /\ ~C.pass
        /\ C.known = Present /\ C.left = {} /\ C.all = {} /\ C.got = {}
    BY <1>5, PresentTypes DEF CallRecords, NoCall
  <2> HIDE DEF C
  <2>3. /\ call' \in [Pages -> CallRecords] /\ call'[p] = C
        /\ \A q \in Pages \ {p} : call'[q] = call[q]
    BY <1>6, <2>1, <2>2 DEF C
  <2>4. /\ pc[t] = "idle" /\ pc'[t] = "list"
        /\ \A u \in Threads \ {t} : pc'[u] = pc[u] /\ id'[u] = id[u]
    BY <1>5, <2>1 DEF ReceiveList, ListFrom, Goto, TypeInv, TypeOK, HandlerTypes
  <2>5. ASSUME NEW q \in Pages, call[q].thread # NoThread
        PROVE  call[q].thread \in Threads /\ call[q].thread # t
    BY <2>4, <2>5 DEF PagesInv, DashTypes, CallRecords, Fits, Served, AnswerSteps
  <2>6. Fits(p)' /\ Served(p)'
    BY <1>3, <2>2, <2>3, <2>4, PagesAssumption DEF Fits, Served
  <2>7. KnowsPresent(p)'
    BY <1>3, <1>4, <1>5, <1>6, <2>2, <2>3 DEF KnowsPresent, Known
  <2>8. DashTypes'
    BY <1>3, <1>4, <2>3 DEF DashTypes
  <2> QED
    BY <1>3, <1>4, <1>5, <2>2, <2>3, <2>4, <2>5, <2>6, <2>7, <2>8, OnePage
<1> QED
  BY <1>7, <1>8

LEMMA StartsKeep ==
    ASSUME PagesInv, NEW p \in Pages, Look(p) \/ Click(p) \/ Rerun(p)
    PROVE  PagesInv'
<1>1. /\ page[p] \in PageRecords /\ page[p].rows \subseteq Present
      /\ page[p].selected \in Known /\ UnknownId \in Known
  BY DEF PagesInv, DashTypes, KnowsPresent, Known
<1>2. NoClick \in Clicks /\ NoClick.id \in Known
  BY <1>1 DEF NoClick, Clicks
<1>3. ASSUME Look(p)
      PROVE  PagesInv'
  <2>1. PICK r \in page[p].rows \cup {page[p].selected} : Fetch(p, r, NoClick)
    BY <1>3 DEF Look
  <2>2. r \in Known
    BY <1>1 DEF Known
  <2> QED
    BY <1>2, <2>1, <2>2, FetchKeeps
<1>4. ASSUME Rerun(p)
      PROVE  PagesInv'
  BY <1>1, <1>2, <1>4, FetchKeeps DEF Rerun
<1>5. ASSUME Click(p)
      PROVE  PagesInv'
  <2>1. PICK action \in {"approve", "reject"} :
          Fetch(p, page[p].selected, [action |-> action, id |-> page[p].selected])
    BY <1>5 DEF Click
  <2> DEFINE c == [action |-> action, id |-> page[p].selected]
  <2>2. page[p].selected \in Requests
    BY <1>1, <1>5, PresentTypes DEF Click, Known, PagesInv
  <2>3. c \in Clicks /\ c.id = page[p].selected
    BY <2>2 DEF Clicks
  <2> QED
    BY <1>1, <2>1, <2>3, FetchKeeps
<1> QED
  BY <1>3, <1>4, <1>5

LEMMA ReadRowKeeps ==
    ASSUME PagesInv, NEW p \in Pages, ReadRow(p)
    PROVE  PagesInv'
<1>1. PICK r \in call[p].left :
        call' = [call EXCEPT ![p].left = @ \ {r},
                    ![p].got = IF StatusOf(r) = "pending" THEN @ \cup {r} ELSE @]
  BY DEF ReadRow
<1>2. /\ page \in [Pages -> PageRecords] /\ call \in [Pages -> CallRecords]
      /\ told \in [Pages -> ToldRecords] /\ KnowsPresent(p) /\ Fits(p) /\ Served(p)
      /\ page' = page /\ told' = told
  BY DEF PagesInv, DashTypes, ReadRow
<1>3. r \in Present /\ r \in Requests
  BY <1>2, PresentTypes DEF KnowsPresent, PagesInv
<1>4. /\ call' \in [Pages -> CallRecords]
      /\ call'[p].thread = call[p].thread /\ call'[p].pass = call[p].pass
      /\ call'[p].known = call[p].known /\ call'[p].all = call[p].all
      /\ call'[p].left \subseteq call[p].left /\ call'[p].got \subseteq call[p].got \cup {r}
      /\ \A q \in Pages \ {p} : call'[q] = call[q]
  <2>1. PICK got : got = (IF StatusOf(r) = "pending" THEN call[p].got \cup {r} ELSE call[p].got)
    OBVIOUS
  <2>2. PICK c : c = [call[p] EXCEPT !.left = @ \ {r}, !.got = got]
    OBVIOUS
  <2>3. call[p] \in CallRecords /\ got \subseteq call[p].got \cup {r} /\ got \in SUBSET Requests
    BY <1>2, <1>3, <2>1 DEF CallRecords
  <2>4. /\ c \in CallRecords /\ c.thread = call[p].thread /\ c.pass = call[p].pass
        /\ c.known = call[p].known /\ c.all = call[p].all
        /\ c.left = call[p].left \ {r} /\ c.got = got
    BY <2>2, <2>3 DEF CallRecords
  <2>5. call' = [call EXCEPT ![p] = c]
    BY <1>1, <2>1, <2>2
  <2> QED
    BY <1>2, <2>3, <2>4, <2>5
<1>5. TypeInv' /\ Present' = Present /\ pc' = pc /\ id' = id
  BY StandsStill DEF ReadRow, PagesInv
<1>6. DashTypes'
  BY <1>2, <1>4 DEF DashTypes
<1>7. Fits(p)' /\ Served(p)'
  BY <1>2, <1>4, <1>5 DEF Fits, Served
<1>8. KnowsPresent(p)'
  BY <1>2, <1>3, <1>4, <1>5 DEF KnowsPresent, Known
<1>9. \A q \in Pages \ {p} : call[q].thread # NoThread => call'[p].thread # call[q].thread
  BY <1>4 DEF PagesInv, OwnThreads
<1> QED
  BY <1>2, <1>4, <1>5, <1>6, <1>7, <1>8, <1>9, OnePage

LEMMA ShowKeeps ==
    ASSUME PagesInv, NEW p \in Pages, NEW listed \in BOOLEAN, NEW rows \in SUBSET Present,
           NEW selected \in IF rows = {} THEN {UnknownId} ELSE rows,
           Show(p, listed, rows, selected), call' = [call EXCEPT ![p] = NoCall],
           UNCHANGED <<vars, told>>
    PROVE  PagesInv'
<1> DEFINE clicked == page[p].click # NoClick /\ page[p].click.id = selected
<1> DEFINE P == [step |-> IF clicked THEN "post" ELSE "shown",
                 listed |-> listed, rows |-> rows, selected |-> selected,
                 click |-> IF clicked THEN page[p].click ELSE NoClick]
<1>1. /\ page \in [Pages -> PageRecords] /\ call \in [Pages -> CallRecords]
      /\ told \in [Pages -> ToldRecords] /\ KnowsPresent(p) /\ told' = told
  BY DEF PagesInv, DashTypes
<1>2. TypeInv' /\ Present' = Present /\ pc' = pc /\ id' = id
  BY StandsStill DEF PagesInv
<1>3. /\ Present \subseteq Requests /\ UnknownId \in Known /\ selected \in Known
      /\ selected \in Ids
  BY PresentTypes DEF Known, Ids, PagesInv
<1>4. NoClick \in Clicks /\ NoClick.id = UnknownId
  BY DEF NoClick, Clicks
<1>5. page' = [page EXCEPT ![p] = P]
  BY DEF Show
<1>6. /\ P \in PageRecords /\ P.step \in {"shown", "post"} /\ P.rows = rows
      /\ P.selected = selected /\ P.click \in {page[p].click, NoClick}
      /\ P.click # NoClick => P.step = "post"
      /\ P.step = "post" => P.click.id = selected
  BY <1>1, <1>3, <1>4 DEF PageRecords
<1> HIDE DEF P, clicked
<1>7. /\ page' \in [Pages -> PageRecords] /\ page'[p] = P
      /\ \A q \in Pages \ {p} : page'[q] = page[q]
  BY <1>1, <1>5, <1>6
<1>8. /\ NoCall \in CallRecords /\ NoCall.thread = NoThread /\ ~NoCall.pass
      /\ NoCall.known = {} /\ NoCall.left = {} /\ NoCall.all = {} /\ NoCall.got = {}
  BY DEF NoCall, CallRecords
<1>9. /\ call' \in [Pages -> CallRecords] /\ call'[p] = NoCall
      /\ \A q \in Pages \ {p} : call'[q] = call[q]
  BY <1>1, <1>8
<1>10. DashTypes'
  BY <1>1, <1>7, <1>9 DEF DashTypes
<1>11. Fits(p)' /\ Served(p)'
  BY <1>6, <1>7, <1>8, <1>9 DEF Fits, Served
<1>12. KnowsPresent(p)'
  BY <1>1, <1>2, <1>3, <1>4, <1>6, <1>7, <1>8, <1>9 DEF KnowsPresent, Known
<1> QED
  BY <1>1, <1>2, <1>7, <1>8, <1>9, <1>10, <1>11, <1>12, OnePage

LEMMA AnswersKeep ==
    ASSUME PagesInv, NEW p \in Pages, Fetched(p) \/ FetchFails(p) \/ FetchTimesOut(p)
    PROVE  PagesInv'
<1>1. CASE ShowWarning(p)
  BY <1>1, ShowKeeps DEF ShowWarning
<1>2. CASE ShowRows(p)
  <2>1. PICK r \in Selections(p, call[p].got) : Show(p, TRUE, call[p].got, r)
    BY <1>2 DEF ShowRows
  <2>2. call[p].got \in SUBSET Present
    BY DEF PagesInv, KnowsPresent
  <2>3. r \in IF call[p].got = {} THEN {UnknownId} ELSE call[p].got
    BY DEF Selections
  <2> QED
    BY <1>2, <2>1, <2>2, <2>3, ShowKeeps DEF ShowRows
<1> QED
  BY <1>1, <1>2 DEF Fetched, FetchFails, FetchTimesOut

LEMMA PostKeeps ==
    ASSUME PagesInv, NEW p \in Pages, Post(p)
    PROVE  PagesInv'
<1>1. PICK t \in Threads :
        /\ ReceiveApprove(t) \/ ReceiveReject(t)
        /\ id'[t] = page[p].selected
        /\ call' = [call EXCEPT ![p] = [NoCall EXCEPT !.thread = t]]
  BY DEF Post
<1>2. /\ page \in [Pages -> PageRecords] /\ call \in [Pages -> CallRecords]
      /\ told \in [Pages -> ToldRecords] /\ KnowsPresent(p) /\ Fits(p) /\ told' = told
      /\ page[p].step = "post" /\ page' = [page EXCEPT ![p].step = "posting"]
  BY DEF PagesInv, DashTypes, Post
<1>3. TypeInv /\ TypeInv' /\ Present \subseteq Present'
  <2>1. [Next]_vars
    BY <1>1 DEF Next
  <2> QED
    BY <2>1, TypeInvStep, PresentGrows DEF PagesInv
<1>4. /\ page' \in [Pages -> PageRecords]
      /\ page'[p].step = "posting" /\ page'[p].rows = page[p].rows
      /\ page'[p].selected = page[p].selected /\ page'[p].click = page[p].click
      /\ \A q \in Pages \ {p} : page'[q] = page[q]
  BY <1>2 DEF PageRecords
<1> DEFINE C == [NoCall EXCEPT !.thread = t]
<1>5. /\ C \in CallRecords /\ C.thread = t /\ ~C.pass
      /\ C.known = {} /\ C.left = {} /\ C.all = {} /\ C.got = {}
  BY DEF CallRecords, NoCall
<1> HIDE DEF C
<1>6. /\ call' \in [Pages -> CallRecords] /\ call'[p] = C
      /\ \A q \in Pages \ {p} : call'[q] = call[q]
  BY <1>1, <1>2, <1>5 DEF C
<1>7. /\ pc[t] = "idle" /\ pc'[t] \in AnswerSteps
      /\ \A u \in Threads \ {t} : pc'[u] = pc[u] /\ id'[u] = id[u]
  BY <1>1, <1>3 DEF ReceiveApprove, ReceiveReject, Receive, Goto, TypeInv, TypeOK,
                    HandlerTypes, AnswerSteps, Steps, RefreshSites
<1>8. ASSUME NEW q \in Pages, call[q].thread # NoThread
      PROVE  call[q].thread \in Threads /\ call[q].thread # t
  BY <1>7, <1>8 DEF PagesInv, DashTypes, CallRecords, Fits, Served, AnswerSteps
<1>9. Fits(p)' /\ Served(p)'
  <2>1. call'[p].thread = t /\ ~call'[p].pass /\ t # NoThread
    BY <1>5, <1>6, PagesAssumption
  <2>2. Fits(p)'
    BY <1>2, <1>4, <2>1 DEF Fits
  <2>3. page'[p].click.id = id'[t]
    BY <1>1, <1>2, <1>4 DEF Fits
  <2>4. Served(p)'
    BY <1>4, <1>7, <2>1, <2>3 DEF Served
  <2> QED
    BY <2>2, <2>4
<1>10. KnowsPresent(p)'
  BY <1>2, <1>3, <1>4, <1>5, <1>6 DEF KnowsPresent, Known
<1>11. DashTypes'
  BY <1>2, <1>4, <1>6 DEF DashTypes
<1> QED
  BY <1>2, <1>3, <1>4, <1>5, <1>6, <1>7, <1>8, <1>9, <1>10, <1>11, OnePage

(* A page is told: the thread that answers, if any, was its own.           *)
LEMMA TellKeeps ==
    ASSUME PagesInv, NEW p \in Pages, NEW what \in Replies, Tell(p, what),
           TypeInv', Present \subseteq Present',
           \A q \in Pages \ {p} : call[q].thread # NoThread =>
               /\ pc'[call[q].thread] = pc[call[q].thread]
               /\ id'[call[q].thread] = id[call[q].thread]
    PROVE  PagesInv'
<1>1. /\ page \in [Pages -> PageRecords] /\ call \in [Pages -> CallRecords]
      /\ told \in [Pages -> ToldRecords] /\ KnowsPresent(p) /\ TypeInv
  BY DEF PagesInv, DashTypes
<1>2. NoClick \in Clicks /\ NoClick.id = UnknownId /\ UnknownId \in Known
  BY DEF NoClick, Clicks, Known
<1>3. page[p].click.id \in Known /\ page[p].click.id \in Ids
  BY <1>1, PresentTypes DEF KnowsPresent
<1>4. /\ page' \in [Pages -> PageRecords]
      /\ page'[p].step = "start" /\ page'[p].rows = page[p].rows
      /\ page'[p].selected = page[p].selected /\ page'[p].click = NoClick
      /\ \A q \in Pages \ {p} : page'[q] = page[q]
  BY <1>1, <1>2 DEF PageRecords, Tell
<1>5. /\ NoCall \in CallRecords /\ NoCall.thread = NoThread /\ ~NoCall.pass
      /\ NoCall.known = {} /\ NoCall.left = {} /\ NoCall.all = {} /\ NoCall.got = {}
  BY DEF NoCall, CallRecords
<1>6. /\ call' \in [Pages -> CallRecords] /\ call'[p] = NoCall
      /\ \A q \in Pages \ {p} : call'[q] = call[q]
  BY <1>1, <1>5 DEF Tell
<1>7. /\ told' \in [Pages -> ToldRecords] /\ told'[p].id = page[p].click.id
      /\ \A q \in Pages \ {p} : told'[q] = told[q]
  BY <1>1, <1>3 DEF Tell, ToldRecords
<1>8. DashTypes'
  BY <1>4, <1>6, <1>7 DEF DashTypes
<1>9. Fits(p)' /\ Served(p)'
  BY <1>4, <1>5, <1>6 DEF Fits, Served
<1>10. KnowsPresent(p)'
  BY <1>1, <1>2, <1>3, <1>4, <1>5, <1>6, <1>7 DEF KnowsPresent, Known
<1> QED
  BY <1>4, <1>5, <1>6, <1>7, <1>8, <1>9, <1>10, OnePage

(* A thread makes a step, and its page, if it is done, learns of it.       *)
LEMMA RespondKeeps ==
    ASSUME PagesInv, NEW t \in Threads, NEW what, Respond(t, what),
           TypeInv', Present \subseteq Present',
           \A u \in Threads \ {t} : pc'[u] = pc[u] /\ id'[u] = id[u],
           pc[t] = "list" => pc'[t] \in {"list", "idle"},
           pc[t] # "list" /\ pc'[t] # "idle" => pc'[t] \in AnswerSteps /\ id'[t] = id[t],
           pc[t] # "list" /\ pc'[t] = "idle" => what \in Replies
    PROVE  PagesInv'
<1>1. \A p \in Pages : call[p].thread # NoThread => call[p].thread \in Threads
  BY DEF PagesInv, DashTypes, CallRecords
<1>2. \A p \in Pages : Fits(p) /\ KnowsPresent(p) /\ Served(p)
  BY DEF PagesInv
<1>3. CASE \E p \in Pages : call[p].thread = t /\ pc'[t] = "idle"
  <2>0. PICK q \in Pages : q = CHOOSE p \in Pages : call[p].thread = t
    BY <1>3
  <2>1. call[q].thread = t /\ pc'[t] = "idle" /\ t # NoThread
    BY <1>3, <2>0, PagesAssumption
  <2>2. IF page[q].step = "posting"
        THEN Tell(q, what)
        ELSE /\ call' = [call EXCEPT ![q] = [@ EXCEPT !.thread = NoThread, !.pass = TRUE,
                                                !.left = Present, !.all = Present]]
             /\ UNCHANGED <<page, told>>
    <3>1. LET p == CHOOSE p \in Pages : call[p].thread = t IN
          IF page[p].step = "posting"
          THEN Tell(p, what)
          ELSE /\ call' = [call EXCEPT ![p] = [@ EXCEPT !.thread = NoThread, !.pass = TRUE,
                                                  !.left = Present, !.all = Present]]
               /\ UNCHANGED <<page, told>>
      BY <1>3 DEF Respond
    <3> QED
      BY <2>0, <3>1
  <2>3. ASSUME NEW p \in Pages \ {q}, call[p].thread # NoThread
        PROVE  /\ call[p].thread # t
               /\ pc'[call[p].thread] = pc[call[p].thread]
               /\ id'[call[p].thread] = id[call[p].thread]
    BY <1>1, <2>1, <2>3 DEF PagesInv, OwnThreads
  <2>4. CASE page[q].step = "posting"
    <3>1. pc[t] # "list"
      BY <1>2, <2>1, <2>4 DEF Served, AnswerSteps
    <3> QED
      BY <2>1, <2>2, <2>3, <2>4, <3>1, TellKeeps
  <2>5. CASE page[q].step # "posting"
    <3>1. page[q].step = "fetching" /\ ~call[q].pass
      BY <1>2, <2>1, <2>5 DEF Fits
    <3>2. /\ call \in [Pages -> CallRecords] /\ page \in [Pages -> PageRecords]
          /\ told \in [Pages -> ToldRecords] /\ page' = page /\ told' = told
          /\ Present \in SUBSET Requests
      BY <2>2, <2>5, PresentTypes DEF PagesInv, DashTypes
    <3>3. call' = [call EXCEPT ![q] = [call[q] EXCEPT !.thread = NoThread, !.pass = TRUE,
                                               !.left = Present, !.all = Present]]
      BY <2>2, <2>5
    <3>4. /\ call' \in [Pages -> CallRecords]
          /\ call'[q].thread = NoThread /\ call'[q].pass
          /\ call'[q].known = call[q].known /\ call'[q].got = call[q].got
          /\ call'[q].left = Present /\ call'[q].all = Present
          /\ \A p \in Pages \ {q} : call'[p] = call[p]
      <4>0. PICK S \in SUBSET Requests : S = Present
        BY <3>2
      <4>1. PICK c : c = [call[q] EXCEPT !.thread = NoThread, !.pass = TRUE,
                                         !.left = S, !.all = S]
        OBVIOUS
      <4>2. /\ c \in CallRecords /\ c.thread = NoThread /\ c.pass
            /\ c.known = call[q].known /\ c.got = call[q].got
            /\ c.left = S /\ c.all = S
        <5>1. call[q] \in CallRecords
          BY <2>1, <3>2
        <5> QED
          BY <4>1, <5>1 DEF CallRecords
      <4>3. call' = [call EXCEPT ![q] = c]
        BY <3>3, <4>0, <4>1
      <4> QED
        BY <2>1, <3>2, <4>0, <4>2, <4>3
    <3>5. DashTypes'
      BY <3>2, <3>4 DEF DashTypes
    <3>6. Fits(q) /\ KnowsPresent(q)
      BY <1>2, <2>1
    <3>7. Fits(q)' /\ Served(q)'
      BY <3>1, <3>2, <3>4, <3>6 DEF Fits, Served
    <3>8. KnowsPresent(q)'
      BY <3>2, <3>4, <3>6 DEF KnowsPresent, Known
    <3> QED
      BY <2>1, <2>3, <3>2, <3>4, <3>5, <3>7, <3>8, OnePage
  <2> QED
    BY <2>4, <2>5
<1>4. CASE ~ \E p \in Pages : call[p].thread = t /\ pc'[t] = "idle"
  <2>1. page' = page /\ call' = call /\ told' = told
    BY <1>4 DEF Respond, pageVars
  <2>2. DashTypes' /\ OwnThreads'
    BY <2>1 DEF PagesInv, DashTypes, OwnThreads
  <2>3. ASSUME NEW p \in Pages
        PROVE  Fits(p)' /\ KnowsPresent(p)'
    BY <1>2, <2>1 DEF Fits, KnowsPresent, Known
  <2>4. ASSUME NEW p \in Pages
        PROVE  Served(p)'
    <3>1. CASE call[p].thread \in Threads \ {t}
      BY <1>2, <2>1, <3>1 DEF Served
    <3>2. CASE call[p].thread = NoThread
      BY <1>2, <2>1, <3>2 DEF Served, Fits
    <3>3. CASE call[p].thread = t
      <4>1. pc'[t] # "idle" /\ Served(p)
        BY <1>2, <1>4, <3>3
      <4>2. page[p].step = "fetching" => pc'[t] = "list"
        BY <3>3, <4>1, PagesAssumption DEF Served
      <4>3. page[p].step = "posting"
              => pc'[t] \in AnswerSteps /\ id'[t] = page[p].click.id
        BY <3>3, <4>1 DEF Served, AnswerSteps
      <4> QED
        BY <2>1, <3>3, <4>1, <4>2, <4>3 DEF Served
    <3> QED
      BY <1>1, <3>1, <3>2, <3>3
  <2> QED
    BY <2>2, <2>3, <2>4 DEF PagesInv
<1> QED
  BY <1>3, <1>4

LEMMA ApiKeeps ==
    ASSUME PagesInv, NEW t \in Threads, ApiProceeds(t) \/ ApiFaults(t)
    PROVE  PagesInv'
<1>1. TypeInv /\ TypeInv' /\ Present \subseteq Present'
  <2>1. [Next]_vars
    BY DEF ApiProceeds, ApiFaults, Next
  <2> QED
    BY <2>1, TypeInvStep, PresentGrows DEF PagesInv
<1>2. CASE ApiProceeds(t)
  <2>1. \A step \in {"log_executed", "log_refused", "log_denied", "discard",
                     "reject", "log_rejected"} : Reply(step) \in Replies
    BY DEF Reply, Replies
  <2> DEFINE what == IF pc[t] = "list" THEN "none" ELSE Reply(pc[t])
  <2>2. Proceed(t) /\ Respond(t, what)
    BY <1>2 DEF ApiProceeds
  <2>3. pc[t] # "list" /\ pc'[t] = "idle" => what \in Replies
    BY <1>1, <2>1, <2>2, HandlerMoves
  <2> HIDE DEF what
  <2> QED
    BY <1>1, <2>2, <2>3, HandlerMoves, RespondKeeps
<1>3. CASE ApiFaults(t)
  <2>1. "error" \in Replies
    BY DEF Replies
  <2> QED
    BY <1>1, <1>3, <2>1, FaultEnds, RespondKeeps DEF ApiFaults
<1> QED
  BY <1>2, <1>3

LEMMA PostTimesOutKeeps ==
    ASSUME PagesInv, NEW p \in Pages, PostTimesOut(p)
    PROVE  PagesInv'
<1>1. TypeInv' /\ Present' = Present /\ pc' = pc /\ id' = id
  BY StandsStill DEF PostTimesOut, PagesInv
<1>2. "unavailable" \in Replies
  BY DEF Replies
<1> QED
  BY <1>1, <1>2, TellKeeps DEF PostTimesOut

(* The pages stand still while the agent works and the clock goes on.      *)
LEMMA AsidePages ==
    ASSUME PagesInv, [Next]_vars, UNCHANGED pageVars, pc' = pc, id' = id
    PROVE  PagesInv'
<1>1. TypeInv' /\ Present \subseteq Present'
  BY TypeInvStep, PresentGrows DEF PagesInv
<1>2. page' = page /\ call' = call /\ told' = told
  BY DEF pageVars
<1>3. DashTypes' /\ OwnThreads'
  BY <1>2 DEF PagesInv, DashTypes, OwnThreads
<1>4. ASSUME NEW p \in Pages
      PROVE  Fits(p)' /\ KnowsPresent(p)' /\ Served(p)'
  <2>1. Fits(p) /\ KnowsPresent(p) /\ Served(p)
    BY DEF PagesInv
  <2> QED
    BY <1>1, <1>2, <2>1 DEF Fits, KnowsPresent, Known, Served
<1> QED
  BY <1>1, <1>3, <1>4 DEF PagesInv

LEMMA PagesStep == PagesInv /\ [DashboardNext]_allVars => PagesInv'
<1> SUFFICES ASSUME PagesInv, [DashboardNext]_allVars
             PROVE  PagesInv'
  OBVIOUS
<1>1. [Next]_vars
  BY StepInside
<1>2. CASE \E p \in Pages : Look(p) \/ Click(p) \/ Rerun(p)
  BY <1>2, StartsKeep
<1>3. CASE \E p \in Pages : ReadRow(p)
  BY <1>3, ReadRowKeeps
<1>4. CASE \E p \in Pages : Fetched(p) \/ FetchFails(p) \/ FetchTimesOut(p)
  BY <1>4, AnswersKeep
<1>5. CASE \E p \in Pages : Post(p) \/ PostTimesOut(p)
  BY <1>5, PostKeeps, PostTimesOutKeeps
<1>6. CASE \E t \in Threads : ApiProceeds(t) \/ ApiFaults(t)
  BY <1>6, ApiKeeps
<1>7. CASE (AgentStep \/ Tick) /\ UNCHANGED pageVars
  <2>1. pc' = pc /\ id' = id
    BY <1>7 DEF AgentStep, Create, Attach, AgentAppends, AgentAppendFails, Tick, handler
  <2> QED
    BY <1>1, <1>7, <2>1, AsidePages
<1>8. CASE UNCHANGED allVars
  BY <1>1, <1>8, AsidePages DEF allVars, vars, handler
<1> QED
  BY <1>2, <1>3, <1>4, <1>5, <1>6, <1>7, <1>8 DEF DashboardNext, PageStep

(* Whatever the sessions do, their pages keep fitting together, each waits *)
(* for a thread of its own, and it knows of no request the store never had. *)
THEOREM PagesCorrect == DashboardSpec => []PagesInv
  BY InitPages, PagesStep, PTL DEF DashboardSpec

(* A page's selection is among its rows, a click is sent from the run that *)
(* shows its request, and a page waits for one handler at a time, for any  *)
(* number of sessions (_render_approval_actions, _request_json).           *)
THEOREM PagesAlwaysFit == DashboardSpec => []DashboardInv
<1>1. PagesInv => DashboardInv
  BY DEF PagesInv, TypeInv, DashboardInv, DashboardTypeOK, DashTypes, PageRecords,
         CallRecords, ToldRecords, PageFits, Fits
<1> QED
  BY <1>1, PagesCorrect, PTL

(* However the lists change and whichever answers are late, the handler a  *)
(* page waits for after a click works on the request that was clicked.     *)
THEOREM ClicksHitTheirRequest == DashboardSpec => []ClickHitsItsRequest
<1>1. PagesInv => ClickHitsItsRequest
  BY DEF PagesInv, Served, ClickHitsItsRequest
<1> QED
  BY <1>1, PagesCorrect, PTL

-----------------------------------------------------------------------------
(* What a page is told stays so: an answer settles its request, and        *)
(* nothing is undone.  A race can put another answer in the place of this  *)
(* one, and is then on record.                                             *)

Settling == Approving \cup {"log_refused", "reject_drop", "log_rejected"}

(* A handler that answers knows its request.  Once it is past reading it,  *)
(* the request is settled for good: rejected, if the handler is about to   *)
(* say so, and attempted, if it is about to say that.                      *)
Answered(t) ==
    /\ pc[t] \in AnswerSteps => id[t] \in Known
    /\ pc[t] \in Settling => StatusOf(id[t]) # "pending"
    /\ pc[t] \in AnswerSteps /\ stage[t] # "start" /\ seen[t] # "pending"
          => StatusOf(id[t]) # "pending"
    /\ pc[t] \in {"reject_drop", "log_rejected"}
          => StatusOf(id[t]) = "rejected" \/ id[t] \in raced
    /\ pc[t] \in AfterRun => runs[id[t]] > 0

AnsweredInv == \A t \in Threads : Answered(t)

(* ToldIsSo of one session, with what keeps it so.                         *)
TrulyTold(p) ==
    LET r == told[p].id  what == told[p].what IN
    /\ what = "ran" => r \in Requests /\ runs[r] > 0
    /\ what = "denied" => audit[r]["denied"] > 0
    /\ what = "rejected" => StatusOf(r) = "rejected" \/ r \in raced
    /\ what \in Replies \ {"none", "error", "unavailable"} => StatusOf(r) # "pending"

ToldInv ==
    /\ WorkflowInv /\ PagesInv /\ AnsweredInv
    /\ \A p \in Pages : TrulyTold(p)

(* A request that is rejected stays so, or another answer overwrites it.   *)
LEMMA RejectedStays ==
    ASSUME WorkflowInv, [Next]_vars, NEW i \in Present, StatusOf(i) = "rejected" \/ i \in raced
    PROVE  StatusOf(i)' = "rejected" \/ i \in raced'
<1> DEFINE phase == [r \in Requests |-> PhaseOf(r)]
<1>1. i \in Requests /\ phase[i] \in {"rejected", "raced"}
  BY DEF Present, PhaseOf, StatusOf
<1>4. StatusOf(i)' = requests'[i].status
  BY <1>1 DEF StatusOf
<1>5. i \in raced' \/ PhaseOf(i)' = requests'[i].status
  BY DEF PhaseOf
<1>6. requests'[i].status # "raced"
  <2>1. requests'[i].status \in Statuses \cup {"missing"}
    <3>1. TypeInv'
      BY TypeInvStep DEF WorkflowInv
    <3> QED
      BY <1>1, <3>1 DEF TypeInv, TypeOK, StoreTypes, RequestRecords, NoRequest
  <2> QED
    BY <2>1 DEF Statuses
<1> SUFFICES PhaseOf(i)' \in {"rejected", "raced"}
  BY <1>4, <1>5, <1>6
<1>2. CASE UNCHANGED Lifecycle!vars
  <2>1. phase' = phase
    BY <1>2 DEF Lifecycle!vars
  <2>2. phase'[i] = phase[i]
    BY <2>1
  <2> QED
    BY <1>1, <2>2
<1>3. CASE Lifecycle!Next
  <2>1. PICK r \in Requests :
          \/ Lifecycle!Create(r) \/ Lifecycle!Run(r) \/ Lifecycle!Finish(r)
          \/ Lifecycle!Race(r) \/ Lifecycle!RunAgain(r)
          \/ \E s \in {"approved", "rejected", "expired"} : Lifecycle!Answer(r, s)
    BY <1>3 DEF Lifecycle!Next
  <2>2. \/ phase' = phase
        \/ phase' = [phase EXCEPT ![r] = "raced"]
        \/ phase[r] \in {"missing", "pending", "approved"}
             /\ \E s : phase' = [phase EXCEPT ![r] = s]
    BY <2>1 DEF Lifecycle!Create, Lifecycle!Run, Lifecycle!Finish, Lifecycle!Race,
                Lifecycle!RunAgain, Lifecycle!Answer
  <2>3. DOMAIN phase = Requests
    OBVIOUS
  <2> HIDE DEF phase
  <2>4. CASE phase' = phase
    <3>1. phase'[i] = phase[i]
      BY <2>4
    <3> QED
      BY <1>1, <3>1 DEF phase
  <2>5. CASE phase' = [phase EXCEPT ![r] = "raced"]
    <3>1. phase'[i] = IF i = r THEN "raced" ELSE phase[i]
      BY <1>1, <2>3, <2>5
    <3>2. phase'[i] \in {"rejected", "raced"}
      BY <1>1, <3>1
    <3> QED
      BY <1>1, <3>2 DEF phase
  <2>6. ASSUME phase[r] \in {"missing", "pending", "approved"},
               NEW s, phase' = [phase EXCEPT ![r] = s]
        PROVE  PhaseOf(i)' \in {"rejected", "raced"}
    <3>1. i # r
      BY <1>1, <2>6
    <3>2. phase'[i] = phase[i]
      BY <1>1, <2>3, <2>6, <3>1
    <3> QED
      BY <1>1, <3>2 DEF phase
  <2> QED
    BY <2>2, <2>4, <2>5, <2>6
<1> QED
  BY <1>2, <1>3, StepMaps

(* A request that is settled stays so; a rejected one stays rejected, or   *)
(* another answer overwrites it.                                           *)
LEMMA Settled ==
    ASSUME WorkflowInv, [Next]_vars, NEW i \in Known
    PROVE  /\ StatusOf(i) # "pending" => StatusOf(i)' # "pending"
           /\ StatusOf(i) = "rejected" \/ i \in raced
                => StatusOf(i)' = "rejected" \/ i \in raced'
<1>1. CASE i = UnknownId
  BY <1>1, ConstantsAssumption DEF StatusOf, WorkflowInv, TypeInv, TypeOK, OtherTypes
<1>2. CASE i \in Present
  <2>1. StatusOf(i) # "pending" => StatusOf(i)' # "pending"
    BY <1>2, StoreKeeps DEF WorkflowInv
  <2> QED
    BY <1>2, <2>1, RejectedStays
<1> QED
  BY <1>1, <1>2 DEF Known

LEMMA RunsStay ==
    ASSUME WorkflowInv, [Next]_vars, NEW r \in Requests, runs[r] > 0
    PROVE  runs'[r] > 0
<1>1. \/ runs' = runs
      \/ \E q \in Requests : runs' = [runs EXCEPT ![q] = 1]
      \/ \E q \in Requests : runs' = [runs EXCEPT ![q] = @ + 1]
  BY StepMaps DEF Lifecycle!vars, Lifecycle!Next, Lifecycle!Create, Lifecycle!Answer,
                  Lifecycle!Run, Lifecycle!Finish, Lifecycle!Race, Lifecycle!RunAgain
<1> QED
  BY <1>1 DEF WorkflowInv, TypeInv, TypeOK, OtherTypes

LEMMA DenialsStay ==
    ASSUME TypeInv, [Next]_vars, NEW i \in Ids, audit[i]["denied"] > 0
    PROVE  audit'[i]["denied"] > 0
<1>1. ASSUME NEW j \in Ids, NEW e \in Events, Logged(j, e)
      PROVE  audit'[i]["denied"] > 0
  BY <1>1 DEF Logged, TypeInv, TypeOK, OtherTypes, Events
<1>2. ASSUME NEW t \in Threads, NEW step, NEW e \in Events, NEW next, Append(t, step, e, next)
      PROVE  audit'[i]["denied"] > 0
  BY <1>1, <1>2 DEF Append, TypeInv, TypeOK, HandlerTypes
<1>3. ASSUME NEW t \in Threads, ApproveAppends(t) \/ RejectAppends(t)
      PROVE  audit'[i]["denied"] > 0
  BY <1>2, <1>3 DEF ApproveAppends, RejectAppends, Events
<1>4. CASE AgentAppends
  BY <1>1, <1>4 DEF AgentAppends, Events, TypeInv, TypeOK, OtherTypes
<1>5. ASSUME NEW t \in Threads, Refresh(t) \/ Fault(t) \/ ListNext(t)
      PROVE  audit' = audit
  BY <1>5 DEF Refresh, RefreshRead, RefreshExpire, RefreshDrop, Fault, HandlerRaises,
              AttemptRaises, ListNext
<1>6. ASSUME NEW t \in Threads, ApproveStep(t), ~ApproveAppends(t)
      PROVE  audit' = audit
  BY <1>6 DEF ApproveStep, GetReturns, ApproveWrite, ApproveRefused, GetPayload, Recheck,
              Deny, Attempt, SetupError, DiscardUnrun, MarkWrite, MarkDrop, MarkRefused
<1>7. ASSUME NEW t \in Threads, RejectStep(t), ~RejectAppends(t)
      PROVE  audit' = audit
  BY <1>7 DEF RejectStep, RejectGetReturns, RejectWrite, RejectDrop, RejectRefused
<1>8. ASSUME NEW t \in Threads, ReceiveApprove(t) \/ ReceiveReject(t) \/ ReceiveList(t)
      PROVE  audit' = audit
  BY <1>8 DEF ReceiveApprove, ReceiveReject, Receive, ReceiveList
<1>9. CASE Create \/ Attach \/ AgentAppendFails \/ Tick \/ UNCHANGED vars
  BY <1>9 DEF Create, Attach, AgentAppendFails, Tick, vars
<1> QED
  BY <1>3, <1>4, <1>5, <1>6, <1>7, <1>8, <1>9 DEF Next, Proceed, AgentStep

(* How a handler comes by the answer it gives.                             *)
LEMMA Outcomes ==
    ASSUME TypeInv, NEW t \in Threads, Proceed(t)
    PROVE  /\ pc[t] = "reject" /\ pc'[t] = "idle" => Refreshed(t, "reject") /\ seen[t] # "pending"
           /\ pc[t] = "log_denied" => Logged(id[t], "denied")
           /\ pc'[t] = "log_refused" => Refreshed(t, "approve") /\ seen[t] # "pending"
           /\ pc'[t] = "reject_drop" =>
                /\ Refreshed(t, "reject") /\ seen[t] = "pending"
                /\ SetStatus(id[t], "rejected")
           /\ pc'[t] = "log_rejected" => pc[t] = "reject_drop"
           /\ pc'[t] \in Approving =>
                \/ pc[t] \in Approving
                \/ Refreshed(t, "approve") /\ seen[t] = "pending" /\ SetStatus(id[t], "approved")
           /\ pc'[t] \in AfterRun =>
                pc[t] \in AfterRun \/ runs' = [runs EXCEPT ![id[t]] = @ + 1]
           /\ Refresh(t) \/ stage'[t] = "start"
<1> USE DEF Approving, BeforeRun, AfterRun
<1>1. /\ \A s : Goto(t, s) => pc'[t] = s /\ stage'[t] = "start"
      /\ Return(t) => pc'[t] = "idle" /\ stage'[t] = "start"
  BY DEF Goto, Return, TypeInv, TypeOK, HandlerTypes
<1>2. CASE Refresh(t)
  <2>1. pc[t] \in RefreshSites /\ pc' = pc
    BY <1>2 DEF Refresh, RefreshRead, RefreshExpire, RefreshDrop, TypeInv, StepsFit
  <2>2. CASE pc[t] # "reject"
    BY <1>2, <2>1, <2>2 DEF RefreshSites
  <2> QED
    BY <1>2, <2>1, <2>2 DEF RefreshSites
<1>3. ASSUME NEW step, NEW e, NEW next, Append(t, step, e, next)
      PROVE  pc[t] = step /\ pc'[t] = next /\ Logged(id[t], e) /\ stage'[t] = "start"
  BY <1>1, <1>3 DEF Append
<1>4. CASE ApproveAppends(t) \/ RejectAppends(t)
  BY <1>3, <1>4 DEF ApproveAppends, RejectAppends
<1>5. CASE GetReturns(t) \/ ApproveWrite(t) \/ ApproveRefused(t) \/ GetPayload(t)
  BY <1>1, <1>5 DEF GetReturns, ApproveWrite, ApproveRefused, GetPayload, Refreshed
<1>6. CASE Recheck(t) \/ Deny(t) \/ Attempt(t) \/ SetupError(t)
  BY <1>1, <1>6 DEF Recheck, Deny, Attempt, SetupError
<1>7. CASE MarkWrite(t) \/ MarkDrop(t) \/ MarkRefused(t)
  BY <1>1, <1>7 DEF MarkWrite, MarkDrop, MarkRefused, Refreshed
<1>8. CASE RejectGetReturns(t) \/ RejectWrite(t) \/ RejectDrop(t)
  BY <1>1, <1>8 DEF RejectGetReturns, RejectWrite, RejectDrop, Refreshed
<1>9. CASE DiscardUnrun(t) \/ RejectRefused(t)
  BY <1>1, <1>9 DEF DiscardUnrun, RejectRefused, Refreshed
<1>10. CASE ListNext(t)
  <2>1. pc[t] = "list" /\ (Return(t) \/ Goto(t, "list"))
    BY <1>10 DEF ListNext, Refreshed
  <2> QED
    BY <1>1, <2>1
<1> QED
  BY <1>2, <1>4, <1>5, <1>6, <1>7, <1>8, <1>9, <1>10 DEF Proceed, ApproveStep, RejectStep

(* What the other handlers have read, they have read.                      *)
LEMMA OthersRemember ==
    ASSUME TypeInv, NEW t \in Threads,
           \/ Proceed(t) \/ Fault(t)
           \/ ReceiveApprove(t) \/ ReceiveReject(t) \/ ReceiveList(t)
    PROVE  \A u \in Threads \ {t} : stage'[u] = stage[u] /\ seen'[u] = seen[u]
<1>1. /\ \A s : Goto(t, s) => \A u \in Threads \ {t} : stage'[u] = stage[u]
      /\ Return(t) => \A u \in Threads \ {t} : stage'[u] = stage[u] /\ seen'[u] = seen[u]
  BY OthersStay
<1>2. CASE Refresh(t)
  BY <1>2 DEF Refresh, RefreshRead, RefreshExpire, RefreshDrop, TypeInv, TypeOK, HandlerTypes
<1>3. ASSUME NEW step, NEW e, NEW next, Append(t, step, e, next)
      PROVE  \A u \in Threads \ {t} : stage'[u] = stage[u] /\ seen'[u] = seen[u]
  BY <1>1, <1>3 DEF Append
<1>4. CASE ApproveAppends(t) \/ RejectAppends(t)
  BY <1>3, <1>4 DEF ApproveAppends, RejectAppends
<1>5. CASE GetReturns(t) \/ ApproveWrite(t) \/ ApproveRefused(t) \/ GetPayload(t)
  BY <1>1, <1>5 DEF GetReturns, ApproveWrite, ApproveRefused, GetPayload
<1>6. CASE Recheck(t) \/ Deny(t) \/ Attempt(t) \/ SetupError(t)
  <2>1. seen' = seen /\ \E s : Goto(t, s)
    BY <1>6 DEF Recheck, Deny, Attempt, SetupError
  <2> QED
    BY <1>1, <2>1
<1>7. CASE MarkWrite(t) \/ MarkDrop(t) \/ MarkRefused(t)
  BY <1>1, <1>7 DEF MarkWrite, MarkDrop, MarkRefused
<1>8. CASE RejectGetReturns(t) \/ RejectWrite(t) \/ RejectDrop(t)
  BY <1>1, <1>8 DEF RejectGetReturns, RejectWrite, RejectDrop
<1>9. CASE DiscardUnrun(t) \/ RejectRefused(t) \/ Fault(t)
  BY <1>1, <1>9 DEF DiscardUnrun, RejectRefused, Fault, HandlerRaises, AttemptRaises
<1>10. CASE ListNext(t)
  <2>1. Return(t) \/ (Goto(t, "list") /\ seen' = seen)
    BY <1>10 DEF ListNext
  <2> QED
    BY <1>1, <2>1
<1>11. CASE ReceiveApprove(t) \/ ReceiveReject(t) \/ ReceiveList(t)
  BY <1>1, <1>11 DEF ReceiveApprove, ReceiveReject, ReceiveList, Receive
<1> QED
  BY <1>2, <1>4, <1>5, <1>6, <1>7, <1>8, <1>9, <1>10, <1>11
     DEF Proceed, ApproveStep, RejectStep

LEMMA AnsweredStays ==
    ASSUME WorkflowInv, [Next]_vars, NEW t \in Threads, Answered(t),
           pc'[t] = pc[t], id'[t] = id[t], stage'[t] = stage[t], seen'[t] = seen[t]
    PROVE  Answered(t)'
<1>1. PICK i : i = id[t]
  OBVIOUS
<1>2. /\ pc[t] \in Settling => pc[t] \in AnswerSteps
      /\ pc[t] \in {"reject_drop", "log_rejected"} => pc[t] \in AnswerSteps
      /\ pc[t] \in AfterRun => i \in Present /\ i \in Requests
  BY <1>1 DEF Settling, AnswerSteps, Steps, Locals, RefreshSites, Approving, BeforeRun, AfterRun,
              WorkflowInv, TypeInv, RequestsKnown, Present
<1>3. Known \subseteq Known'
  BY PresentGrows DEF Known, WorkflowInv
<1>4. i \in Known => /\ StatusOf(i) # "pending" => StatusOf(i)' # "pending"
                     /\ StatusOf(i) = "rejected" \/ i \in raced
                          => StatusOf(i)' = "rejected" \/ i \in raced'
  BY Settled
<1>5. StatusOf(id[t]) = StatusOf(i) /\ StatusOf(id[t])' = StatusOf(i)'
  BY <1>1
<1>6. pc[t] \in AfterRun => runs'[i] > 0
  BY <1>1, <1>2, RunsStay DEF Answered
<1> QED
  BY <1>1, <1>2, <1>3, <1>4, <1>5, <1>6 DEF Answered

LEMMA AnsweredProceeds ==
    ASSUME WorkflowInv, [Next]_vars, NEW t \in Threads, Answered(t), Proceed(t)
    PROVE  Answered(t)'
<1>1. TypeInv /\ Known \subseteq Known'
  BY PresentGrows DEF Known, WorkflowInv
<1>2. pc'[t] \in AnswerSteps => pc[t] \in AnswerSteps /\ id'[t] = id[t] /\ id[t] \in Known
  <2>1. pc[t] \in Steps /\ pc[t] # "idle"
    BY <1>1, HandlerMoves DEF TypeInv, TypeOK, HandlerTypes
  <2> QED
    BY <1>1, <2>1, HandlerMoves DEF AnswerSteps, Answered
<1>3. PICK i : i = id[t]
  OBVIOUS
<1>4. /\ Settling \subseteq AnswerSteps /\ AfterRun \subseteq AnswerSteps
      /\ {"reject_drop", "log_rejected"} \subseteq AnswerSteps
      /\ {"approve", "reject"} \subseteq AnswerSteps
  BY DEF Settling, Approving, BeforeRun, AfterRun, AnswerSteps, Steps, RefreshSites, Locals
<1>5. ASSUME NEW s, Refreshed(t, s), s \in {"approve", "reject"}
      PROVE  /\ seen[t] # "pending" => StatusOf(i) # "pending"
             /\ seen[t] = "pending" => i \in Present
  BY <1>1, <1>3, <1>4, <1>5 DEF Refreshed, Answered, TypeInv, RequestsKnown
<1>6. pc'[t] \in Settling => StatusOf(i)' # "pending"
  <2>1. CASE pc'[t] \in Approving
    <3>1. CASE pc[t] \in Approving
      <4>1. i \in Known /\ StatusOf(i) # "pending"
        BY <1>2, <1>3, <1>4, <2>1, <3>1 DEF Settling, Answered
      <4> QED
        BY <4>1, Settled
    <3>2. CASE Refreshed(t, "approve") /\ seen[t] = "pending" /\ SetStatus(id[t], "approved")
      <4>1. i \in Present /\ SetStatus(i, "approved")
        BY <1>3, <1>5, <3>2
      <4> QED
        BY <1>1, <4>1, StatusAfter
    <3> QED
      BY <1>1, <2>1, <3>1, <3>2, Outcomes
  <2>2. CASE pc'[t] = "log_refused"
    <3>1. i \in Known /\ StatusOf(i) # "pending"
      BY <1>1, <1>2, <1>3, <1>4, <1>5, <2>2, Outcomes DEF Settling
    <3> QED
      BY <3>1, Settled
  <2>3. CASE pc'[t] = "reject_drop"
    <3>1. i \in Present /\ SetStatus(i, "rejected")
      BY <1>1, <1>3, <1>5, <2>3, Outcomes
    <3> QED
      BY <1>1, <3>1, StatusAfter
  <2>4. CASE pc'[t] = "log_rejected"
    <3>1. i \in Known /\ StatusOf(i) # "pending"
      BY <1>1, <1>2, <1>3, <1>4, <2>4, Outcomes DEF Settling, Answered
    <3> QED
      BY <3>1, Settled
  <2> QED
    BY <2>1, <2>2, <2>3, <2>4 DEF Settling
<1>7. pc'[t] \in {"reject_drop", "log_rejected"} => StatusOf(i)' = "rejected" \/ i \in raced'
  <2>1. CASE pc'[t] = "reject_drop"
    <3>1. i \in Present /\ SetStatus(i, "rejected")
      BY <1>1, <1>3, <1>5, <2>1, Outcomes
    <3> QED
      BY <1>1, <3>1, StatusAfter
  <2>2. CASE pc'[t] = "log_rejected"
    <3>1. i \in Known /\ (StatusOf(i) = "rejected" \/ i \in raced)
      BY <1>1, <1>2, <1>3, <1>4, <2>2, Outcomes DEF Answered
    <3> QED
      BY <3>1, Settled
  <2> QED
    BY <2>1, <2>2
<1>8. pc'[t] \in AnswerSteps /\ stage'[t] # "start" /\ seen'[t] # "pending"
         => StatusOf(i)' # "pending"
  <2> SUFFICES ASSUME pc'[t] \in AnswerSteps, stage'[t] # "start", seen'[t] # "pending"
               PROVE  StatusOf(i)' # "pending"
    OBVIOUS
  <2>1. i \in Known /\ Refresh(t)
    BY <1>1, <1>2, <1>3, Outcomes
  <2>2. CASE RefreshRead(t)
    <3>1. seen'[t] = StatusOf(i)
      BY <1>1, <1>3, <2>2 DEF RefreshRead, TypeInv, TypeOK, HandlerTypes
    <3> QED
      BY <2>1, <3>1, Settled
  <2>3. CASE RefreshExpire(t)
    <3>1. i \in Present /\ SetStatus(i, "expired")
      BY <1>1, <1>3, <2>3 DEF RefreshExpire, TypeInv, RequestsKnown
    <3> QED
      BY <1>1, <3>1, StatusAfter
  <2>4. CASE RefreshDrop(t)
    <3>1. stage[t] # "start" /\ seen[t] # "pending" /\ pc[t] \in AnswerSteps
      BY <1>2, <2>4 DEF RefreshDrop
    <3>2. StatusOf(i) # "pending"
      BY <1>3, <3>1 DEF Answered
    <3> QED
      BY <2>1, <3>2, Settled
  <2> QED
    BY <2>1, <2>2, <2>3, <2>4 DEF Refresh
<1>9. pc'[t] \in AfterRun => runs'[i] > 0
  <2>1. CASE pc[t] \in AfterRun
    <3>1. i \in Requests /\ runs[i] > 0
      BY <1>1, <1>3, <2>1 DEF Answered, TypeInv, RequestsKnown, Approving, Present
    <3> QED
      BY <3>1, RunsStay
  <2>2. CASE pc'[t] \in AfterRun /\ pc[t] \notin AfterRun
    <3>1. runs' = [runs EXCEPT ![i] = @ + 1]
      BY <1>1, <1>3, <2>2, Outcomes
    <3>2. i \in Requests
      <4>1. pc'[t] \in Approving
        BY <2>2 DEF Approving
      <4>2. pc[t] \in Approving \/ (Refreshed(t, "approve") /\ seen[t] = "pending")
        BY <1>1, <4>1, Outcomes
      <4> QED
        BY <1>1, <1>3, <1>5, <4>2 DEF TypeInv, RequestsKnown, Present
    <3> QED
      BY <1>1, <3>1, <3>2 DEF TypeInv, TypeOK, OtherTypes
  <2> QED
    BY <2>1, <2>2
<1>10. pc'[t] \in AnswerSteps => i = id'[t]
  BY <1>2, <1>3
<1>11. pc'[t] \in AnswerSteps => StatusOf(id[t])' = StatusOf(i)'
  BY <1>10
<1> QED
  BY <1>1, <1>2, <1>4, <1>6, <1>7, <1>8, <1>9, <1>10, <1>11 DEF Answered

LEMMA AnsweredReceives ==
    ASSUME TypeInv, NEW t \in Threads,
           ReceiveApprove(t) \/ ReceiveReject(t) \/ ReceiveList(t) \/ Fault(t)
    PROVE  /\ Answered(t)'
           /\ \A u \in Threads \ {t} : pc'[u] = pc[u] /\ id'[u] = id[u]
<1> USE DEF Settling, Approving, BeforeRun, AfterRun
<1>1. ASSUME NEW s \in {"get", "reject_get"}, Receive(t, s)
      PROVE  /\ pc'[t] = s /\ stage'[t] = "start" /\ id'[t] \in Known /\ Present' = Present
             /\ \A u \in Threads \ {t} : pc'[u] = pc[u] /\ id'[u] = id[u]
  BY <1>1 DEF Receive, Goto, Callable, Known, Present, store, TypeInv, TypeOK, HandlerTypes
<1>2. CASE ReceiveApprove(t) \/ ReceiveReject(t)
  BY <1>1, <1>2 DEF ReceiveApprove, ReceiveReject, Answered, Known
<1>3. CASE ReceiveList(t)
  <2>1. /\ pc'[t] = "list"
        /\ \A u \in Threads \ {t} : pc'[u] = pc[u] /\ id'[u] = id[u]
    BY <1>3 DEF ReceiveList, ListFrom, Goto, TypeInv, TypeOK, HandlerTypes
  <2> QED
    BY <2>1 DEF Answered, AnswerSteps
<1>4. CASE Fault(t)
  BY <1>4, FaultEnds DEF Answered, AnswerSteps
<1> QED
  BY <1>2, <1>3, <1>4

LEMMA AnsweredStep == WorkflowInv /\ AnsweredInv /\ [Next]_vars => AnsweredInv'
<1> SUFFICES ASSUME WorkflowInv, AnsweredInv, [Next]_vars, NEW u \in Threads
             PROVE  Answered(u)'
  BY DEF AnsweredInv
<1>1. Answered(u) /\ TypeInv
  BY DEF AnsweredInv, WorkflowInv
<1>2. CASE pc'[u] = pc[u] /\ id'[u] = id[u] /\ stage'[u] = stage[u] /\ seen'[u] = seen[u]
  BY <1>1, <1>2, AnsweredStays
<1>3. ASSUME NEW t \in Threads, Proceed(t)
      PROVE  Answered(u)'
  BY <1>1, <1>2, <1>3, HandlerMoves, OthersRemember, AnsweredProceeds
<1>4. ASSUME NEW t \in Threads,
             ReceiveApprove(t) \/ ReceiveReject(t) \/ ReceiveList(t) \/ Fault(t)
      PROVE  Answered(u)'
  BY <1>1, <1>2, <1>4, OthersRemember, AnsweredReceives
<1>5. AgentStep \/ Tick \/ UNCHANGED vars => UNCHANGED <<pc, id, stage, seen>>
  BY DEF AgentStep, Create, Attach, AgentAppends, AgentAppendFails, Tick, vars, handler
<1> QED
  BY <1>2, <1>3, <1>4, <1>5 DEF Next

(* The last step of a handler leaves what it answers true.                 *)
LEMMA Finished ==
    ASSUME WorkflowInv, [Next]_vars, NEW t \in Threads, Answered(t), Proceed(t),
           pc[t] # "list", pc'[t] = "idle", NEW i, i = id[t]
    PROVE  /\ pc[t] = "log_executed" => i \in Requests /\ runs'[i] > 0
           /\ pc[t] = "log_denied" => audit'[i]["denied"] > 0
           /\ pc[t] = "log_rejected" => StatusOf(i)' = "rejected" \/ i \in raced'
           /\ StatusOf(i)' # "pending"
<1>1. TypeInv /\ pc[t] \in {"log_executed", "log_refused", "log_denied", "discard",
                            "reject", "log_rejected"}
  BY HandlerMoves DEF WorkflowInv
<1>2. pc[t] \in AnswerSteps /\ i \in Known /\ i \in Ids
  BY <1>1, PresentTypes DEF Answered, AnswerSteps, Steps, RefreshSites, Locals
<1>3. StatusOf(i) # "pending"
  <2>1. CASE pc[t] # "reject"
    BY <1>1, <2>1 DEF Answered, Settling, Approving, BeforeRun, AfterRun
  <2>2. CASE pc[t] = "reject"
    BY <1>1, <1>2, <2>2, Outcomes DEF Refreshed, Answered
  <2> QED
    BY <2>1, <2>2
<1>4. pc[t] = "log_executed" => i \in Requests /\ runs'[i] > 0
  <2>1. pc[t] = "log_executed" => i \in Present /\ runs[i] > 0
    BY DEF WorkflowInv, TypeInv, RequestsKnown, Answered, Approving, AfterRun
  <2> QED
    BY <2>1, RunsStay DEF Present
<1>5. pc[t] = "log_denied" => audit'[i]["denied"] > 0
  <2>1. pc[t] = "log_denied" => Logged(i, "denied")
    BY <1>1, Outcomes
  <2> QED
    BY <1>1, <1>2, <2>1 DEF Logged, TypeInv, TypeOK, OtherTypes, Events
<1>6. pc[t] = "log_rejected" => StatusOf(i) = "rejected" \/ i \in raced
  BY DEF Answered
<1> QED
  BY <1>2, <1>3, <1>4, <1>5, <1>6, Settled

(* Where what a page is told comes from.                                   *)
LEMMA HowTold ==
    ASSUME PagesInv, [DashboardNext]_allVars, NEW p \in Pages
    PROVE  \/ told'[p] = told[p]
           \/ told'[p].what \in {"error", "unavailable"}
           \/ \E t \in Threads :
                 /\ Proceed(t) /\ pc[t] # "list" /\ pc'[t] = "idle"
                 /\ told'[p] = [what |-> Reply(pc[t]), id |-> id[t]]
<1>1. told \in [Pages -> ToldRecords]
  BY DEF PagesInv, DashTypes
<1>2. ASSUME NEW q \in Pages, NEW what, Tell(q, what)
      PROVE  /\ told'[p] = IF p = q THEN [what |-> what, id |-> page[q].click.id] ELSE told[p]
             /\ told'[p] = told[p] \/ told'[p].what = what
  BY <1>1, <1>2 DEF Tell
<1>3. ASSUME NEW t \in Threads, NEW what, Respond(t, what), told'[p] # told[p]
      PROVE  /\ told'[p] = [what |-> what, id |-> id[t]] /\ told'[p].what = what
             /\ pc[t] # "list" /\ pc'[t] = "idle"
  <2>1. \E q \in Pages : call[q].thread = t /\ pc'[t] = "idle"
    BY <1>3 DEF Respond, pageVars
  <2>2. PICK q \in Pages : q = CHOOSE r \in Pages : call[r].thread = t
    BY <2>1
  <2>3. call[q].thread = t /\ pc'[t] = "idle"
    BY <2>1, <2>2
  <2>4. IF page[q].step = "posting" THEN Tell(q, what) ELSE told' = told
    <3>1. LET r == CHOOSE r \in Pages : call[r].thread = t IN
          IF page[r].step = "posting" THEN Tell(r, what) ELSE told' = told
      BY <1>3, <2>1 DEF Respond
    <3> QED
      BY <2>2, <3>1
  <2>5. page[q].step = "posting" /\ Tell(q, what)
    BY <1>3, <2>4
  <2>6. page[q].click.id = id[t] /\ pc[t] # "list"
    BY <2>3, <2>5 DEF PagesInv, Served, AnswerSteps
  <2> QED
    BY <1>2, <1>3, <2>3, <2>5, <2>6
<1>4. ASSUME NEW q \in Pages, PostTimesOut(q)
      PROVE  told'[p] = told[p] \/ told'[p].what = "unavailable"
  BY <1>2, <1>4 DEF PostTimesOut
<1>5. ASSUME NEW t \in Threads, ApiFaults(t)
      PROVE  told'[p] = told[p] \/ told'[p].what = "error"
  BY <1>3, <1>5 DEF ApiFaults
<1>6. ASSUME NEW t \in Threads, ApiProceeds(t), told'[p] # told[p]
      PROVE  /\ Proceed(t) /\ pc[t] # "list" /\ pc'[t] = "idle"
             /\ told'[p] = [what |-> Reply(pc[t]), id |-> id[t]]
  <2> DEFINE what == IF pc[t] = "list" THEN "none" ELSE Reply(pc[t])
  <2>1. Proceed(t) /\ Respond(t, what)
    BY <1>6 DEF ApiProceeds
  <2>2. pc[t] # "list" => what = Reply(pc[t])
    OBVIOUS
  <2> HIDE DEF what
  <2> QED
    BY <1>3, <1>6, <2>1, <2>2
<1>7. ASSUME NEW q \in Pages, Look(q) \/ Click(q) \/ Rerun(q) \/ Post(q)
      PROVE  told' = told
  BY <1>7 DEF Look, Click, Rerun, Fetch, Post
<1>8. ASSUME NEW q \in Pages, ReadRow(q) \/ Fetched(q) \/ FetchFails(q) \/ FetchTimesOut(q)
      PROVE  told' = told
  BY <1>8 DEF ReadRow, Fetched, FetchFails, FetchTimesOut, ShowRows, ShowWarning
<1>9. UNCHANGED pageVars \/ UNCHANGED allVars => told' = told
  BY DEF pageVars, allVars
<1> QED
  BY <1>4, <1>5, <1>6, <1>7, <1>8, <1>9 DEF DashboardNext, PageStep

LEMMA TrulyToldStep ==
    ASSUME ToldInv, [DashboardNext]_allVars, NEW p \in Pages
    PROVE  TrulyTold(p)'
<1>1. WorkflowInv /\ TypeInv /\ PagesInv /\ [Next]_vars
  BY StepInside DEF ToldInv, WorkflowInv
<1>2. CASE told'[p] = told[p]
  <2>1. PICK r, what : r = told[p].id /\ what = told[p].what
    OBVIOUS
  <2>2. r \in Known /\ r \in Ids
    BY <1>1, <2>1, PresentTypes DEF PagesInv, KnowsPresent
  <2>3. /\ what = "ran" => r \in Requests /\ runs[r] > 0
        /\ what = "denied" => audit[r]["denied"] > 0
        /\ what = "rejected" => StatusOf(r) = "rejected" \/ r \in raced
        /\ what \in Replies \ {"none", "error", "unavailable"} => StatusOf(r) # "pending"
    BY <2>1 DEF ToldInv, TrulyTold
  <2>4. /\ what = "ran" => r \in Requests /\ runs'[r] > 0
        /\ what = "denied" => audit'[r]["denied"] > 0
        /\ what = "rejected" => StatusOf(r)' = "rejected" \/ r \in raced'
        /\ what \in Replies \ {"none", "error", "unavailable"} => StatusOf(r)' # "pending"
    BY <1>1, <2>2, <2>3, Settled, RunsStay, DenialsStay
  <2>5. told'[p].id = r /\ told'[p].what = what
    BY <1>2, <2>1
  <2>6. StatusOf(told[p].id)' = StatusOf(r)'
    BY <2>5
  <2> QED
    BY <2>4, <2>5, <2>6 DEF TrulyTold
<1>3. CASE told'[p].what \in {"error", "unavailable"}
  BY <1>3 DEF TrulyTold
<1>4. ASSUME NEW t \in Threads, Proceed(t), pc[t] # "list", pc'[t] = "idle",
             told'[p] = [what |-> Reply(pc[t]), id |-> id[t]]
      PROVE  TrulyTold(p)'
  <2>1. PICK i, what : i = id[t] /\ what = Reply(pc[t])
    OBVIOUS
  <2>2. told'[p].id = i /\ told'[p].what = what
    BY <1>4, <2>1
  <2>3. Answered(t)
    BY DEF ToldInv, AnsweredInv
  <2>4. /\ pc[t] = "log_executed" => i \in Requests /\ runs'[i] > 0
        /\ pc[t] = "log_denied" => audit'[i]["denied"] > 0
        /\ pc[t] = "log_rejected" => StatusOf(i)' = "rejected" \/ i \in raced'
        /\ StatusOf(i)' # "pending"
    BY <1>1, <1>4, <2>1, <2>3, Finished
  <2>5. pc[t] \in {"log_executed", "log_refused", "log_denied", "discard",
                   "reject", "log_rejected"}
    BY <1>1, <1>4, HandlerMoves
  <2>6. /\ what = "ran" => pc[t] = "log_executed"
        /\ what = "denied" => pc[t] = "log_denied"
        /\ what = "rejected" => pc[t] = "log_rejected"
    BY <2>1, <2>5 DEF Reply
  <2>7. StatusOf(told[p].id)' = StatusOf(i)'
    BY <2>2
  <2> QED
    BY <2>2, <2>4, <2>6, <2>7 DEF TrulyTold
<1> QED
  BY <1>1, <1>2, <1>3, <1>4, HowTold

(* An operator is told no lie: "ran", "denied", "rejected" and the rest    *)
(* are so when the answer arrives and ever after, whatever calls the       *)
(* dashboards gave up on are still at work (_store_approval_action_result, *)
(* approve_request, reject_request); only of a request whose answer        *)
(* another one was written over, "rejected" may be the loser's answer.     *)
(* "error" and "unavailable" claim nothing.                                *)
THEOREM WhatIsToldIsSo == DashboardSpec => []ToldIsSo
<1>1. DashboardInit => AnsweredInv /\ \A p \in Pages : TrulyTold(p)
  BY DEF DashboardInit, Init, AnsweredInv, Answered, AnswerSteps, Settling, Approving, BeforeRun,
         AfterRun, TrulyTold
<1> DEFINE Told == AnsweredInv /\ \A p \in Pages : TrulyTold(p)
<1>2. WorkflowInv /\ PagesInv /\ Told /\ [DashboardNext]_allVars => Told'
  <2> SUFFICES ASSUME WorkflowInv, PagesInv, Told, [DashboardNext]_allVars
               PROVE  Told'
    OBVIOUS
  <2>1. ToldInv /\ [Next]_vars
    BY StepInside DEF ToldInv
  <2>2. AnsweredInv'
    BY <2>1, AnsweredStep
  <2>3. \A p \in Pages : TrulyTold(p)'
    BY <2>1, TrulyToldStep
  <2> QED
    BY <2>2, <2>3
<1>3. WorkflowInv /\ Told => ToldIsSo
  BY DEF TrulyTold, ToldIsSo, WorkflowInv, RunsFit, StatusOf
<1>4. Spec => []WorkflowInv
  BY WorkflowCorrect
<1> HIDE DEF Told
<1> QED
  BY <1>1, <1>2, <1>3, <1>4, DashboardKeepsWorkflow, PagesCorrect, PTL
     DEF DashboardSpec, Told

-----------------------------------------------------------------------------
(* A list that is shown is right: of what the store had when the page      *)
(* asked, the listing's first pass leaves pending only what had time left; *)
(* what came later is younger; and the second pass takes every request     *)
(* that is pending and stays so.                                           *)

Fresh(r, since) == StatusOf(r) = "pending" => requests[r].expires_at > since

(* The first pass, by thread t: it has refreshed all but todo[t].          *)
Refreshing(t, known, since) ==
    /\ id[t] \in todo[t] /\ todo[t] \subseteq Present
    /\ \A r \in known \ todo[t] : Fresh(r, since)
    /\ stage[t] = "ready" => Fresh(id[t], since)
    /\ stage[t] = "drop" => StatusOf(id[t]) # "pending"

(* The second pass: what it has read so far.                               *)
Reading(c) ==
    /\ c.known \subseteq c.all
    /\ \A r \in c.known : Fresh(r, c.since)
    /\ \A r \in c.all \ c.left : StatusOf(r) = "pending" => r \in c.got
    /\ \A r \in c.got : requests[r].expires_at > c.since

(* The page's call c, whichever pass its listing is in.                    *)
Listing(c) ==
    /\ c.since <= now
    /\ \A r \in Present \ c.known : requests[r].expires_at > c.since
    /\ IF c.pass
       THEN Reading(c)
       ELSE c.got = {} /\ Refreshing(c.thread, c.known, c.since)

Lists(p) == page[p].step = "fetching" => Listing(call[p])

ListsInv == \A p \in Pages : Lists(p)

LEMMA FreshStays ==
    ASSUME TypeInv, [Next]_vars, NEW r \in Present, NEW since, Fresh(r, since)
    PROVE  Fresh(r, since)'
  BY StoreKeeps DEF Fresh

(* What is created later expires later: a term is not empty.               *)
LEMMA YoungerStay ==
    ASSUME TTL > 0, TypeInv, [Next]_vars, NEW known \in SUBSET Present, NEW since \in Nat,
           since <= now, \A r \in Present \ known : requests[r].expires_at > since
    PROVE  /\ since <= now'
           /\ \A r \in Present' \ known : requests'[r].expires_at > since
<1>1. now \in Nat /\ TTL \in Nat
  BY ConstantsAssumption DEF TypeInv, TypeOK, OtherTypes
<1>2. now' = now \/ now' = now + 1
  <2>1. ASSUME NEW t \in Threads, Refresh(t) \/ Fault(t) \/ ListNext(t)
        PROVE  now' = now
    BY <2>1 DEF Refresh, RefreshRead, RefreshExpire, RefreshDrop, Fault, HandlerRaises,
                AttemptRaises, ListNext
  <2>2. ASSUME NEW t \in Threads, ApproveStep(t)
        PROVE  now' = now
    BY <2>2 DEF ApproveStep, GetReturns, ApproveWrite, ApproveRefused, GetPayload, Recheck,
                Deny, Attempt, SetupError, DiscardUnrun, MarkWrite, MarkDrop, MarkRefused,
                ApproveAppends, Append
  <2>3. ASSUME NEW t \in Threads, RejectStep(t)
        PROVE  now' = now
    BY <2>3 DEF RejectStep, RejectGetReturns, RejectWrite, RejectDrop, RejectRefused,
                RejectAppends, Append
  <2>4. ASSUME NEW t \in Threads, ReceiveApprove(t) \/ ReceiveReject(t) \/ ReceiveList(t)
        PROVE  now' = now
    BY <2>4 DEF ReceiveApprove, ReceiveReject, Receive, ReceiveList
  <2>5. AgentStep \/ UNCHANGED vars => now' = now
    BY DEF AgentStep, Create, Attach, AgentAppends, AgentAppendFails, vars
  <2> QED
    BY <2>1, <2>2, <2>3, <2>4, <2>5 DEF Next, Proceed, Tick
<1>3. \A r \in Present \ known : requests'[r].expires_at > since
  BY StoreKeeps
<1>4. ASSUME NEW r \in Present' \ Present
      PROVE  requests'[r].expires_at > since
  <2>1. Create
    <3>1. ASSUME NEW q \in Present, NEW s, SetStatus(q, s)
          PROVE  r \in Present
      BY <1>4, <3>1 DEF SetStatus, Present, TypeInv, TypeOK, StoreTypes
    <3> QED
      BY <1>4, <3>1, StoreWrites DEF Present
  <2>2. PICK q \in Requests \ Present, tool \in ApprovableTools :
          requests' = [requests EXCEPT ![q] =
              [status |-> "pending", tool |-> tool, expires_at |-> now + TTL]]
    BY <2>1 DEF Create
  <2>3. q = r
    BY <1>4, <2>2 DEF Present, TypeInv, TypeOK, StoreTypes
  <2>4. requests'[r].expires_at = now + TTL
    BY <2>2, <2>3 DEF TypeInv, TypeOK, StoreTypes
  <2> QED
    BY <1>1, <2>4
<1> QED
  BY <1>1, <1>2, <1>3, <1>4

(* Other threads do not undo what a listing has done.                      *)
LEMMA RefreshingStays ==
    ASSUME TypeInv, [Next]_vars, NEW t \in Threads, NEW known \in SUBSET Present, NEW since,
           Refreshing(t, known, since),
           id'[t] = id[t], todo'[t] = todo[t], stage'[t] = stage[t]
    PROVE  Refreshing(t, known, since)'
<1>1. PICK i \in Present : i = id[t]
  BY DEF Refreshing
<1>2. Fresh(i, since) => Fresh(i, since)'
  BY FreshStays
<1>3. StatusOf(i) # "pending" => StatusOf(i)' # "pending"
  BY StoreKeeps
<1>4. \A r \in known : Fresh(r, since) => Fresh(r, since)'
  BY FreshStays
<1>5. /\ Fresh(id[t], since)' <=> Fresh(i, since)'
      /\ StatusOf(id[t])' = StatusOf(i)'
  BY <1>1
<1>6. /\ Fresh(id[t], since) <=> Fresh(i, since)
      /\ StatusOf(id[t]) = StatusOf(i)
  BY <1>1
<1> QED
  BY <1>1, <1>2, <1>3, <1>4, <1>5, <1>6, PresentGrows DEF Refreshing

LEMMA ReadingStays ==
    ASSUME TypeInv, [Next]_vars, NEW c, c.known \subseteq Present, c.all \subseteq Present,
           c.got \subseteq Present, Reading(c)
    PROVE  Reading(c)'
<1>1. \A r \in c.known : Fresh(r, c.since)'
  BY FreshStays DEF Reading
<1>2. \A r \in c.all \ c.left : StatusOf(r)' = "pending" => r \in c.got
  BY StoreKeeps DEF Reading
<1>3. \A r \in c.got : requests'[r].expires_at > c.since
  BY StoreKeeps DEF Reading
<1> QED
  BY <1>1, <1>2, <1>3 DEF Reading

(* A listing goes on, and has refreshed everything when it is done.        *)
LEMMA RefreshingProceeds ==
    ASSUME TypeInv, [Next]_vars, NEW t \in Threads, Proceed(t), pc[t] = "list",
           NEW known \in SUBSET Present, NEW since \in Nat, since <= now,
           Refreshing(t, known, since)
    PROVE  /\ pc'[t] # "idle" => Refreshing(t, known, since)'
           /\ pc'[t] = "idle" => \A r \in known : Fresh(r, since)'
<1>1. RefreshRead(t) \/ RefreshExpire(t) \/ RefreshDrop(t) \/ ListNext(t)
  BY DEF Proceed, Refresh, ApproveStep, RejectStep, GetReturns, ApproveWrite, ApproveRefused,
         GetPayload, Recheck, Deny, Attempt, SetupError, DiscardUnrun, MarkWrite, MarkDrop,
         MarkRefused, ApproveAppends, Append, RejectGetReturns, RejectWrite, RejectDrop,
         RejectRefused, RejectAppends, Refreshed
<1>2. PICK i \in Present : i = id[t]
  BY DEF Refreshing
<1>3. /\ i \in Requests /\ requests[i] \in RequestRecords /\ now \in Nat
      /\ stage \in [Threads -> Stages] /\ id \in [Threads -> Ids]
      /\ todo \in [Threads -> SUBSET Requests]
  BY <1>2 DEF Present, TypeInv, TypeOK, StoreTypes, OtherTypes, HandlerTypes
<1>4. \A r \in known : Fresh(r, since) => Fresh(r, since)'
  BY FreshStays
<1>5. todo[t] \subseteq Present' /\ i \in todo[t]
  BY <1>2, PresentGrows DEF Refreshing
<1>6. ASSUME id'[t] = i, todo'[t] = todo[t], pc'[t] = "list",
             stage'[t] = "ready" => Fresh(i, since)',
             stage'[t] = "drop" => StatusOf(i)' # "pending"
      PROVE  Refreshing(t, known, since)'
  <2>1. Fresh(id[t], since)' <=> Fresh(i, since)'
    BY <1>6
  <2>2. StatusOf(id[t])' = StatusOf(i)'
    BY <1>6
  <2>3. \A r \in known \ todo[t] : Fresh(r, since)'
    BY <1>4 DEF Refreshing
  <2> QED
    BY <1>5, <1>6, <2>1, <2>2, <2>3 DEF Refreshing
<1>7. CASE RefreshRead(t)
  <2>1. /\ pc' = pc /\ id' = id /\ todo' = todo /\ requests' = requests
        /\ stage'[t] = IF Lapsed(i) THEN "expire" ELSE "ready"
    BY <1>2, <1>3, <1>7 DEF RefreshRead, store
  <2>2. ~Lapsed(i) => Fresh(i, since)
    BY <1>3 DEF Lapsed, Fresh, RequestRecords
  <2>3. Fresh(i, since) => Fresh(i, since)'
    BY FreshStays
  <2> QED
    BY <1>2, <1>6, <2>1, <2>2, <2>3
<1>8. CASE RefreshExpire(t)
  <2>1. pc' = pc /\ id' = id /\ todo' = todo /\ stage'[t] = "drop" /\ SetStatus(i, "expired")
    BY <1>2, <1>3, <1>8 DEF RefreshExpire
  <2>2. StatusOf(i)' = "expired"
    BY <2>1, StatusAfter
  <2> QED
    BY <1>2, <1>6, <2>1, <2>2
<1>9. CASE RefreshDrop(t)
  <2>1. /\ pc' = pc /\ id' = id /\ todo' = todo /\ requests' = requests
        /\ stage[t] = "drop" /\ stage'[t] = "ready"
    BY <1>3, <1>9 DEF RefreshDrop
  <2>2. Fresh(i, since)'
    BY <1>2, <2>1 DEF Refreshing, Fresh, StatusOf
  <2> QED
    BY <1>2, <1>6, <2>1, <2>2
<1>10. CASE ListNext(t)
  <2> DEFINE rest == todo[t] \ {i}
  <2>1. /\ stage[t] = "ready"
        /\ IF rest = {} THEN Return(t) ELSE ListFrom(t, rest) /\ Goto(t, "list")
    BY <1>2, <1>10 DEF ListNext, Refreshed
  <2>2. \A r \in known \ rest : Fresh(r, since)
    BY <1>2, <2>1 DEF Refreshing
  <2>3. \A r \in known \ rest : Fresh(r, since)'
    BY <1>4, <2>2
  <2>4. CASE rest = {}
    BY <2>1, <2>3, <2>4, OthersStay
  <2>5. CASE rest # {}
    <3>1. todo'[t] = rest /\ id'[t] \in rest /\ stage'[t] = "start"
      BY <1>3, <2>1, <2>5 DEF ListFrom, Goto
    <3> QED
      BY <1>5, <2>3, <3>1, OthersStay, <2>1, <2>5 DEF Refreshing
  <2> QED
    BY <2>4, <2>5
<1> QED
  BY <1>1, <1>7, <1>8, <1>9, <1>10

LEMMA OthersKeep ==
    ASSUME TypeInv, NEW t \in Threads,
           \/ Proceed(t) \/ Fault(t)
           \/ ReceiveApprove(t) \/ ReceiveReject(t) \/ ReceiveList(t)
    PROVE  \A u \in Threads \ {t} :
              id'[u] = id[u] /\ todo'[u] = todo[u] /\ stage'[u] = stage[u]
<1> USE DEF TypeInv, TypeOK, HandlerTypes
<1>1. /\ \A s : Goto(t, s) => \A u \in Threads \ {t} : stage'[u] = stage[u]
      /\ Return(t) => \A u \in Threads \ {t} :
            id'[u] = id[u] /\ todo'[u] = todo[u] /\ stage'[u] = stage[u]
  BY DEF Goto, Return
<1>2. CASE Refresh(t)
  BY <1>2 DEF Refresh, RefreshRead, RefreshExpire, RefreshDrop
<1>3. CASE ListNext(t)
  BY <1>1, <1>3 DEF ListNext, ListFrom
<1>4. ASSUME NEW step, NEW e, NEW next, Append(t, step, e, next)
      PROVE  \A u \in Threads \ {t} :
                id'[u] = id[u] /\ todo'[u] = todo[u] /\ stage'[u] = stage[u]
  BY <1>1, <1>4 DEF Append
<1>5. CASE ApproveAppends(t) \/ RejectAppends(t)
  BY <1>4, <1>5 DEF ApproveAppends, RejectAppends
<1>6. CASE ApproveStep(t) /\ ~ApproveAppends(t)
  BY <1>1, <1>6
     DEF ApproveStep, GetReturns, ApproveWrite, ApproveRefused, GetPayload, Recheck, Deny,
         Attempt, SetupError, DiscardUnrun, MarkWrite, MarkDrop, MarkRefused
<1>7. CASE RejectStep(t) /\ ~RejectAppends(t)
  BY <1>1, <1>7 DEF RejectStep, RejectGetReturns, RejectWrite, RejectDrop, RejectRefused
<1>8. CASE Fault(t)
  BY <1>1, <1>8 DEF Fault, HandlerRaises, AttemptRaises
<1>9. CASE ReceiveApprove(t) \/ ReceiveReject(t) \/ ReceiveList(t)
  BY <1>1, <1>9 DEF ReceiveApprove, ReceiveReject, Receive, ReceiveList, ListFrom
<1> QED
  BY <1>2, <1>3, <1>5, <1>6, <1>7, <1>8, <1>9 DEF Proceed

(* A page whose call and whose thread stand still.                         *)
LEMMA ListsStay ==
    ASSUME TTL > 0, PagesInv, [Next]_vars, NEW p \in Pages, Lists(p),
           page'[p].step = "fetching" => page[p].step = "fetching", call'[p] = call[p],
           call[p].thread # NoThread =>
              /\ id'[call[p].thread] = id[call[p].thread]
              /\ todo'[call[p].thread] = todo[call[p].thread]
              /\ stage'[call[p].thread] = stage[call[p].thread]
    PROVE  Lists(p)'
<1> SUFFICES ASSUME page'[p].step = "fetching"
             PROVE  Listing(call[p])'
  BY DEF Lists
<1>1. PICK c \in CallRecords : c = call[p]
  BY DEF PagesInv, DashTypes
<1>2. /\ TypeInv /\ Listing(c) /\ c.known \in SUBSET Present /\ c.since \in Nat
      /\ c.all \subseteq Present /\ c.got \subseteq Present
      /\ ~c.pass => c.thread \in Threads /\ c.thread # NoThread
  BY <1>1 DEF PagesInv, Lists, Fits, KnowsPresent, CallRecords
<1>3. c.since <= now' /\ \A r \in Present' \ c.known : requests'[r].expires_at > c.since
  BY <1>2, YoungerStay DEF Listing
<1>4. CASE c.pass
  <2>1. Reading(c)'
    BY <1>2, <1>4, ReadingStays DEF Listing
  <2>2. Listing(c)'
    BY <1>3, <1>4, <2>1 DEF Listing
  <2> QED
    BY <1>1, <2>2
<1>5. CASE ~c.pass
  <2>1. PICK t \in Threads : t = c.thread
    BY <1>2, <1>5
  <2>2. Refreshing(t, c.known, c.since)
    BY <1>2, <1>5, <2>1 DEF Listing
  <2>3. id'[t] = id[t] /\ todo'[t] = todo[t] /\ stage'[t] = stage[t]
    BY <1>1, <1>2, <1>5, <2>1
  <2>4. Refreshing(t, c.known, c.since)'
    BY <1>2, <2>2, <2>3, RefreshingStays
  <2>5. Listing(c)'
    BY <1>2, <1>3, <1>5, <2>1, <2>4 DEF Listing
  <2> QED
    BY <1>1, <2>5
<1> QED
  BY <1>4, <1>5

LEMMA FetchLists ==
    ASSUME PagesInv, NEW p \in Pages, NEW selected, NEW click, Fetch(p, selected, click)
    PROVE  Lists(p)'
<1>1. TypeInv /\ now \in Nat /\ call \in [Pages -> CallRecords]
  BY DEF PagesInv, TypeInv, TypeOK, OtherTypes, DashTypes
<1>2. CASE Present = {}
  <2> DEFINE C == [NoCall EXCEPT !.since = now, !.pass = TRUE]
  <2>1. UNCHANGED vars /\ call'[p] = C
    BY <1>1, <1>2 DEF Fetch
  <2>2. C.since = now /\ C.pass /\ C.known = {} /\ C.all = {} /\ C.got = {}
    BY DEF NoCall
  <2> HIDE DEF C
  <2>3. PICK c : c = call'[p]
    OBVIOUS
  <2>4. now' = now /\ Present' = {}
    BY <1>1, <1>2, <2>1, StandsStill
  <2>5. Listing(c)'
    BY <1>1, <2>1, <2>2, <2>3, <2>4 DEF Listing, Reading
  <2>6. Listing(call[p])' <=> Listing(c)'
    BY <2>3
  <2> QED
    BY <2>5, <2>6 DEF Lists
<1>3. CASE Present # {}
  <2>1. PICK t \in Threads :
          /\ ReceiveList(t)
          /\ call' = [call EXCEPT ![p] =
                [NoCall EXCEPT !.thread = t, !.known = Present, !.since = now]]
    BY <1>3 DEF Fetch
  <2> DEFINE C == [NoCall EXCEPT !.thread = t, !.known = Present, !.since = now]
  <2>2. /\ C.since = now /\ C.thread = t /\ ~C.pass /\ C.known = Present /\ C.got = {}
        /\ call'[p] = C
    BY <1>1, <2>1 DEF NoCall
  <2> HIDE DEF C
  <2>3. PICK c : c = call'[p]
    OBVIOUS
  <2>4. now' = now /\ requests' = requests
    BY <2>1 DEF ReceiveList, store
  <2>5. Present' = Present
    BY <2>4 DEF Present
  <2>6. id'[t] \in Present /\ todo'[t] = Present /\ stage'[t] = "start"
    BY <1>1, <2>1 DEF ReceiveList, ListFrom, Goto, TypeInv, TypeOK, HandlerTypes
  <2>7. Refreshing(t, c.known, c.since)'
    BY <2>2, <2>3, <2>5, <2>6 DEF Refreshing
  <2>8. Listing(c)'
    BY <1>1, <2>2, <2>3, <2>4, <2>5, <2>7 DEF Listing
  <2>9. Listing(call[p])' <=> Listing(c)'
    BY <2>3
  <2> QED
    BY <2>8, <2>9 DEF Lists
<1> QED
  BY <1>2, <1>3

LEMMA ReadRowLists ==
    ASSUME PagesInv, NEW p \in Pages, Lists(p), ReadRow(p)
    PROVE  Lists(p)'
<1> SUFFICES ASSUME page'[p].step = "fetching"
             PROVE  Listing(call[p])'
  BY DEF Lists
<1>1. PICK r \in call[p].left :
        call' = [call EXCEPT ![p].left = @ \ {r},
                    ![p].got = IF StatusOf(r) = "pending" THEN @ \cup {r} ELSE @]
  BY DEF ReadRow
<1>2. PICK c, d : c = call[p] /\ d = call'[p]
  OBVIOUS
<1>3. /\ call \in [Pages -> CallRecords] /\ r \in Present /\ KnowsPresent(p)
      /\ TypeInv /\ page' = page /\ c.pass
  BY <1>2 DEF PagesInv, DashTypes, KnowsPresent, ReadRow
<1>4. /\ d.pass = c.pass /\ d.known = c.known /\ d.all = c.all /\ d.since = c.since
      /\ d.left = c.left \ {r}
      /\ d.got = IF StatusOf(r) = "pending" THEN c.got \cup {r} ELSE c.got
  BY <1>1, <1>2, <1>3 DEF CallRecords
<1>5. now' = now /\ requests' = requests /\ Present' = Present
  BY <1>3, StandsStill DEF ReadRow
<1>6. \A q : StatusOf(q)' = StatusOf(q) /\ Fresh(q, c.since)' = Fresh(q, c.since)
  BY <1>5 DEF StatusOf, Fresh
<1>7. Listing(c) /\ Reading(c)
  BY <1>2, <1>3 DEF Lists, Listing
<1>8. Fresh(r, c.since)
  BY <1>3, <1>7 DEF Listing, Reading, Fresh
<1>9. Reading(d)'
  BY <1>4, <1>5, <1>6, <1>7, <1>8 DEF Reading, Fresh
<1>10. Listing(d)'
  BY <1>3, <1>4, <1>5, <1>7, <1>9 DEF Listing
<1>11. Listing(call[p])' <=> Listing(d)'
  BY <1>2
<1> QED
  BY <1>10, <1>11

(* The thread's first pass is over: the page's second one begins.          *)
LEMMA PassBegins ==
    ASSUME TTL > 0, PagesInv, [Next]_vars, NEW p \in Pages, Lists(p),
           NEW t \in Threads, Proceed(t), call[p].thread = t, page[p].step = "fetching",
           pc'[t] = "idle",
           call' = [call EXCEPT ![p] = [@ EXCEPT !.thread = NoThread, !.pass = TRUE,
                                            !.left = Present, !.all = Present]]
    PROVE  Lists(p)'
<1>1. PICK c, d : c = call[p] /\ d = call'[p]
  OBVIOUS
<1>2. /\ call \in [Pages -> CallRecords] /\ TypeInv /\ Present \in SUBSET Requests
      /\ c \in CallRecords /\ c.known \in SUBSET Present /\ c.since \in Nat
      /\ pc[t] = "list" /\ ~c.pass
  BY <1>1, PresentTypes, PagesAssumption
     DEF PagesInv, DashTypes, KnowsPresent, Served, Fits, CallRecords
<1>3. /\ d.pass /\ d.known = c.known /\ d.since = c.since /\ d.got = c.got
      /\ d.left = Present /\ d.all = Present
  BY <1>1, <1>2 DEF CallRecords
<1>4. Listing(c) /\ c.got = {} /\ Refreshing(t, c.known, c.since)
  BY <1>1, <1>2 DEF Lists, Listing
<1>5. c.since <= now' /\ \A r \in Present' \ c.known : requests'[r].expires_at > c.since
  BY <1>2, <1>4, YoungerStay DEF Listing
<1>6. \A r \in c.known : Fresh(r, c.since)'
  BY <1>2, <1>4, RefreshingProceeds DEF Listing
<1>7. Reading(d)'
  BY <1>2, <1>3, <1>4, <1>6 DEF Reading
<1>8. Listing(d)'
  BY <1>3, <1>5, <1>7 DEF Listing
<1>9. Listing(call[p])' <=> Listing(d)'
  BY <1>1
<1> QED
  BY <1>8, <1>9 DEF Lists

LEMMA PassGoesOn ==
    ASSUME TTL > 0, PagesInv, [Next]_vars, NEW p \in Pages, Lists(p),
           NEW t \in Threads, Proceed(t), call[p].thread = t, pc'[t] # "idle",
           page'[p] = page[p], call'[p] = call[p]
    PROVE  Lists(p)'
<1> SUFFICES ASSUME page[p].step = "fetching"
             PROVE  Listing(call[p])'
  BY DEF Lists
<1>1. PICK c : c = call[p]
  OBVIOUS
<1>2. /\ TypeInv /\ c.known \in SUBSET Present /\ c.since \in Nat
      /\ pc[t] = "list" /\ ~c.pass /\ c.thread = t
  BY <1>1, PresentTypes, PagesAssumption
     DEF PagesInv, DashTypes, KnowsPresent, Served, Fits, CallRecords
<1>3. Listing(c) /\ c.got = {} /\ Refreshing(t, c.known, c.since)
  BY <1>1, <1>2 DEF Lists, Listing
<1>4. c.since <= now' /\ \A r \in Present' \ c.known : requests'[r].expires_at > c.since
  BY <1>2, <1>3, YoungerStay DEF Listing
<1>5. Refreshing(t, c.known, c.since)'
  BY <1>2, <1>3, RefreshingProceeds DEF Listing
<1>6. Listing(c)'
  BY <1>2, <1>3, <1>4, <1>5 DEF Listing
<1>7. Listing(call[p])' <=> Listing(c)'
  BY <1>1
<1> QED
  BY <1>6, <1>7

(* The page's second pass, over the records of the whole list, begins.     *)
SecondPass(p) ==
    call' = [call EXCEPT ![p] = [@ EXCEPT !.thread = NoThread, !.pass = TRUE,
                                     !.left = Present, !.all = Present]]

(* What a step of the API does to a page: nothing, or the answer to its    *)
(* listing or its click.                                                   *)
LEMMA HowAnswered ==
    ASSUME PagesInv, NEW t \in Threads, NEW what, Respond(t, what), NEW p \in Pages
    PROVE  \/ page'[p] = page[p] /\ call'[p] = call[p] /\ ~(call[p].thread = t /\ pc'[t] = "idle")
           \/ /\ call[p].thread = t /\ pc'[t] = "idle"
              /\ page[p].step = "posting" /\ page'[p].step = "start"
           \/ /\ call[p].thread = t /\ pc'[t] = "idle" /\ page[p].step = "fetching"
              /\ page' = page /\ SecondPass(p)
<1>1. page \in [Pages -> PageRecords] /\ call \in [Pages -> CallRecords] /\ t # NoThread
  BY PagesAssumption DEF PagesInv, DashTypes
<1>2. CASE \E q \in Pages : call[q].thread = t /\ pc'[t] = "idle"
  <2>1. PICK q \in Pages : q = CHOOSE r \in Pages : call[r].thread = t
    BY <1>2
  <2>2. call[q].thread = t /\ pc'[t] = "idle"
    BY <1>2, <2>1
  <2>3. IF page[q].step = "posting"
        THEN Tell(q, what)
        ELSE /\ call' = [call EXCEPT ![q] = [@ EXCEPT !.thread = NoThread, !.pass = TRUE,
                                                !.left = Present, !.all = Present]]
             /\ page' = page
    <3>1. LET r == CHOOSE r \in Pages : call[r].thread = t IN
          IF page[r].step = "posting"
          THEN Tell(r, what)
          ELSE /\ call' = [call EXCEPT ![r] = [@ EXCEPT !.thread = NoThread, !.pass = TRUE,
                                                  !.left = Present, !.all = Present]]
               /\ page' = page
      BY <1>2 DEF Respond
    <3> QED
      BY <2>1, <3>1
  <2>4. page[q].step \in {"posting", "fetching"}
    BY <1>1, <2>2 DEF PagesInv, Fits
  <2>5. CASE p = q
    <3>1. Tell(q, what) => page'[q].step = "start"
      BY <1>1 DEF Tell, PageRecords
    <3> QED
      BY <2>2, <2>3, <2>4, <2>5, <3>1 DEF SecondPass
  <2>6. CASE p # q
    <3>1. page'[p] = page[p] /\ call'[p] = call[p]
      BY <1>1, <2>3, <2>6 DEF Tell
    <3>2. call[p].thread # t
      BY <1>1, <2>2, <2>6 DEF PagesInv, OwnThreads
    <3> QED
      BY <3>1, <3>2
  <2> QED
    BY <2>5, <2>6
<1>3. CASE ~ \E q \in Pages : call[q].thread = t /\ pc'[t] = "idle"
  BY <1>3 DEF Respond, pageVars
<1> QED
  BY <1>2, <1>3

LEMMA ApiLists ==
    ASSUME TTL > 0, PagesInv, [Next]_vars, NEW p \in Pages, Lists(p),
           NEW t \in Threads, ApiProceeds(t) \/ ApiFaults(t)
    PROVE  Lists(p)'
<1>1. TypeInv
  BY DEF PagesInv
<1>2. CASE ApiProceeds(t)
  <2>1. PICK what : Proceed(t) /\ Respond(t, what)
    BY <1>2 DEF ApiProceeds
  <2>2. CASE page'[p] = page[p] /\ call'[p] = call[p] /\ call[p].thread # t
    <3>1. call[p].thread # NoThread => call[p].thread \in Threads \ {t}
      BY <2>2 DEF PagesInv, DashTypes, CallRecords
    <3> QED
      <4>1. call[p].thread # NoThread =>
               /\ id'[call[p].thread] = id[call[p].thread]
               /\ todo'[call[p].thread] = todo[call[p].thread]
               /\ stage'[call[p].thread] = stage[call[p].thread]
        BY <1>1, <2>1, <3>1, OthersKeep
      <4> QED
        BY <1>1, <2>1, <2>2, <4>1, ListsStay
  <2>3. CASE page'[p] = page[p] /\ call'[p] = call[p] /\ call[p].thread = t /\ pc'[t] # "idle"
    BY <2>1, <2>3, PassGoesOn
  <2>4. CASE page'[p].step = "start"
    BY <2>4 DEF Lists
  <2>5. CASE /\ call[p].thread = t /\ pc'[t] = "idle" /\ page[p].step = "fetching"
             /\ SecondPass(p)
    BY <2>1, <2>5, PassBegins DEF SecondPass
  <2>6. Respond(t, what)
    BY <2>1
  <2>7. \/ page'[p] = page[p] /\ call'[p] = call[p] /\ ~(call[p].thread = t /\ pc'[t] = "idle")
        \/ page'[p].step = "start"
        \/ /\ call[p].thread = t /\ pc'[t] = "idle" /\ page[p].step = "fetching"
           /\ SecondPass(p)
    BY <2>6, HowAnswered
  <2> QED
    BY <2>2, <2>3, <2>4, <2>5, <2>7
<1>3. CASE ApiFaults(t)
  <2>1. Fault(t) /\ Respond(t, "error")
    BY <1>3 DEF ApiFaults
  <2>2. pc[t] # "list" /\ pc'[t] = "idle"
    BY <1>1, <2>1, FaultEnds
  <2>3. ~(call[p].thread = t /\ page[p].step = "fetching")
    BY <2>2, PagesAssumption DEF PagesInv, Served
  <2>4. CASE page'[p] = page[p] /\ call'[p] = call[p] /\ call[p].thread # t
    <3>1. call[p].thread # NoThread => call[p].thread \in Threads \ {t}
      BY <2>4 DEF PagesInv, DashTypes, CallRecords
    <3> QED
      <4>1. call[p].thread # NoThread =>
               /\ id'[call[p].thread] = id[call[p].thread]
               /\ todo'[call[p].thread] = todo[call[p].thread]
               /\ stage'[call[p].thread] = stage[call[p].thread]
        BY <1>1, <2>1, <3>1, OthersKeep
      <4> QED
        BY <1>1, <2>1, <2>4, <4>1, ListsStay
  <2>5. CASE page'[p].step = "start"
    BY <2>5 DEF Lists
  <2>6. Respond(t, "error")
    BY <2>1
  <2>7. \/ page'[p] = page[p] /\ call'[p] = call[p] /\ ~(call[p].thread = t /\ pc'[t] = "idle")
        \/ page'[p].step = "start"
        \/ /\ call[p].thread = t /\ pc'[t] = "idle" /\ page[p].step = "fetching"
           /\ SecondPass(p)
    BY <2>6, HowAnswered
  <2> QED
    BY <2>2, <2>3, <2>4, <2>5, <2>7
<1> QED
  BY <1>2, <1>3

LEMMA InitLists == DashboardInit => ListsInv
  BY DEF DashboardInit, ListsInv, Lists

(* Another page's step leaves this page and its thread alone.              *)
LEMMA OtherPages ==
    ASSUME TTL > 0, PagesInv, [Next]_vars, NEW p \in Pages, Lists(p), NEW q \in Pages \ {p},
           \/ Look(q) \/ Click(q) \/ Rerun(q) \/ ReadRow(q) \/ Fetched(q) \/ FetchFails(q)
           \/ FetchTimesOut(q) \/ Post(q) \/ PostTimesOut(q)
    PROVE  Lists(p)'
<1>1. /\ page \in [Pages -> PageRecords] /\ call \in [Pages -> CallRecords] /\ TypeInv
      /\ call[p].thread # NoThread
            => call[p].thread \in Threads /\ pc[call[p].thread] # "idle"
  BY DEF PagesInv, DashTypes, CallRecords, Fits, Served, AnswerSteps
<1>2. CASE page'[p] = page[p] /\ call'[p] = call[p] /\ UNCHANGED vars
  <2>1. id' = id /\ todo' = todo /\ stage' = stage
    BY <1>2 DEF vars, handler
  <2> QED
    BY <1>2, <2>1, ListsStay
<1>3. ASSUME page'[p] = page[p], call'[p] = call[p], NEW t \in Threads,
             ReceiveApprove(t) \/ ReceiveReject(t) \/ ReceiveList(t)
      PROVE  Lists(p)'
  <2>1. pc[t] = "idle"
    BY <1>3 DEF ReceiveApprove, ReceiveReject, Receive, ReceiveList
  <2> QED
    BY <1>1, <1>3, <2>1, OthersKeep, ListsStay
<1>4. ASSUME NEW selected, NEW click, Fetch(q, selected, click)
      PROVE  Lists(p)'
  <2>1. page'[p] = page[p] /\ call'[p] = call[p]
    BY <1>1, <1>4 DEF Fetch
  <2> QED
    BY <1>2, <1>3, <1>4, <2>1 DEF Fetch
<1>5. CASE Look(q) \/ Click(q) \/ Rerun(q)
  BY <1>4, <1>5 DEF Look, Click, Rerun
<1>6. CASE Post(q)
  <2>1. page'[p] = page[p] /\ call'[p] = call[p]
    BY <1>1, <1>6 DEF Post
  <2> QED
    BY <1>3, <1>6, <2>1 DEF Post
<1>7. CASE ReadRow(q) \/ PostTimesOut(q)
  BY <1>1, <1>2, <1>7 DEF ReadRow, PostTimesOut, Tell
<1>8. CASE Fetched(q) \/ FetchFails(q) \/ FetchTimesOut(q)
  BY <1>1, <1>2, <1>8 DEF Fetched, FetchFails, FetchTimesOut, ShowRows, ShowWarning, Show
<1> QED
  BY <1>5, <1>6, <1>7, <1>8

(* What a step that ends the page's fetching shows.                        *)
LEMMA HowShown ==
    ASSUME PagesInv, NEW p \in Pages, Fetched(p) \/ FetchFails(p) \/ FetchTimesOut(p)
    PROVE  /\ page'[p].step \in {"shown", "post"}
           /\ page'[p].listed => Fetched(p) /\ page'[p].rows = call[p].got
<1>1. page \in [Pages -> PageRecords]
  BY DEF PagesInv, DashTypes
<1>2. ASSUME NEW listed, NEW rows, NEW selected, Show(p, listed, rows, selected)
      PROVE  /\ page'[p].step \in {"shown", "post"}
             /\ page'[p].listed = listed /\ page'[p].rows = rows
  BY <1>1, <1>2 DEF Show
<1>3. CASE Fetched(p)
  BY <1>2, <1>3 DEF Fetched, ShowRows
<1>4. CASE FetchFails(p) \/ FetchTimesOut(p)
  BY <1>2, <1>4 DEF FetchFails, FetchTimesOut, ShowWarning
<1> QED
  BY <1>3, <1>4

LEMMA ListsStep ==
    ASSUME TTL > 0
    PROVE  PagesInv /\ ListsInv /\ [DashboardNext]_allVars => ListsInv'
<1> SUFFICES ASSUME PagesInv, ListsInv, [DashboardNext]_allVars, NEW p \in Pages
             PROVE  Lists(p)'
  BY DEF ListsInv
<1>1. Lists(p) /\ [Next]_vars /\ page \in [Pages -> PageRecords]
  BY StepInside DEF ListsInv, PagesInv, DashTypes
<1>2. CASE Look(p) \/ Click(p) \/ Rerun(p)
  BY <1>2, FetchLists DEF Look, Click, Rerun
<1>3. CASE ReadRow(p)
  BY <1>1, <1>3, ReadRowLists
<1>4. CASE Fetched(p) \/ FetchFails(p) \/ FetchTimesOut(p)
  BY <1>4, HowShown DEF Lists
<1>5. CASE Post(p) \/ PostTimesOut(p)
  <2>1. page'[p].step \in {"posting", "start"}
    BY <1>1, <1>5 DEF Post, PostTimesOut, Tell, PageRecords
  <2> QED
    BY <2>1 DEF Lists
<1>6. ASSUME NEW q \in Pages \ {p},
             \/ Look(q) \/ Click(q) \/ Rerun(q) \/ ReadRow(q) \/ Fetched(q) \/ FetchFails(q)
             \/ FetchTimesOut(q) \/ Post(q) \/ PostTimesOut(q)
      PROVE  Lists(p)'
  BY <1>1, <1>6, OtherPages
<1>7. ASSUME NEW t \in Threads, ApiProceeds(t) \/ ApiFaults(t)
      PROVE  Lists(p)'
  BY <1>1, <1>7, ApiLists
<1>8. CASE ((AgentStep \/ Tick) /\ UNCHANGED pageVars) \/ UNCHANGED allVars
  <2>1. /\ page' = page /\ call' = call
        /\ id' = id /\ todo' = todo /\ stage' = stage
    BY <1>8 DEF AgentStep, Create, Attach, AgentAppends, AgentAppendFails, Tick, handler,
                pageVars, allVars, vars
  <2> QED
    BY <1>1, <2>1, ListsStay
<1> QED
  BY <1>2, <1>3, <1>4, <1>5, <1>6, <1>7, <1>8 DEF DashboardNext, PageStep

(* A list a page shows has every request it was to show, and none whose    *)
(* time was over when the page asked, whoever creates, answers and lists   *)
(* meanwhile and however the store calls overlap (list_pending's two       *)
(* passes over a dictionary that nothing locks).                           *)
THEOREM ListingsAreRight ==
    ASSUME TTL > 0
    PROVE  DashboardSpec => ListingIsRight
<1>1. ASSUME PagesInv, ListsInv, DashboardNext, NEW p \in Pages,
             page[p].step = "fetching", page'[p].step # "fetching", page'[p].listed
      PROVE  /\ {r \in call[p].known : StatusOf(r) = "pending"} \subseteq page'[p].rows
             /\ \A r \in page'[p].rows : requests[r].expires_at > call[p].since
  <2>1. page \in [Pages -> PageRecords] /\ call \in [Pages -> CallRecords]
    BY <1>1 DEF PagesInv, DashTypes
  <2>2. Fetched(p) => Reading(call[p]) /\ call[p].left = {}
    BY <1>1 DEF Fetched, ListsInv, Lists, Listing
  <2>3. Fetched(p) /\ page'[p].rows = call[p].got
    <3>1. ASSUME NEW q \in Pages, NEW selected, NEW click, Fetch(q, selected, click)
          PROVE  page'[p].step = "fetching"
      BY <1>1, <2>1, <3>1 DEF Fetch, PageRecords
    <3>2. ASSUME NEW q \in Pages, Look(q) \/ Click(q) \/ Rerun(q)
          PROVE  page'[p].step = "fetching"
      BY <3>1, <3>2 DEF Look, Click, Rerun
    <3>3. ASSUME NEW q \in Pages, ReadRow(q) \/ Post(q) \/ PostTimesOut(q)
          PROVE  page'[p].step = "fetching"
      BY <1>1, <2>1, <3>3 DEF ReadRow, Post, PostTimesOut, Tell, PageRecords
    <3>4. ASSUME NEW q \in Pages \ {p}, Fetched(q) \/ FetchFails(q) \/ FetchTimesOut(q)
          PROVE  page'[p].step = "fetching"
      BY <1>1, <2>1, <3>4 DEF Fetched, FetchFails, FetchTimesOut, ShowRows, ShowWarning, Show
    <3>5. ASSUME NEW t \in Threads, ApiProceeds(t) \/ ApiFaults(t)
          PROVE  page'[p].step = "fetching"
      <4>1. PICK what : Respond(t, what)
        BY <3>5 DEF ApiProceeds, ApiFaults
      <4> QED
        BY <1>1, <4>1, HowAnswered
    <3>6. CASE (AgentStep \/ Tick) /\ UNCHANGED pageVars
      BY <1>1, <3>6 DEF pageVars
    <3>7. CASE Fetched(p) \/ FetchFails(p) \/ FetchTimesOut(p)
      BY <1>1, <3>7, HowShown
    <3> QED
      BY <1>1, <3>2, <3>3, <3>4, <3>5, <3>6, <3>7 DEF DashboardNext, PageStep
  <2> QED
    BY <2>2, <2>3 DEF Reading
<1>2. ASSUME PagesInv, ListsInv, [DashboardNext]_allVars
      PROVE  [\A p \in Pages :
                page[p].step = "fetching" /\ page'[p].step # "fetching" /\ page'[p].listed =>
                    /\ {r \in call[p].known : StatusOf(r) = "pending"} \subseteq page'[p].rows
                    /\ \A r \in page'[p].rows : requests[r].expires_at > call[p].since]_allVars
  BY <1>1, <1>2
<1>3. PagesInv /\ ListsInv /\ [DashboardNext]_allVars => ListsInv'
  BY ListsStep
<1> QED
  BY <1>2, <1>3, InitLists, PagesCorrect, PTL DEF DashboardSpec, ListingIsRight
=============================================================================

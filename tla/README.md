# SentryGate: TLA+ models, model checking and proofs

SentryGate sits between an agent and the machine. It scores every tool call,
runs the harmless ones, puts writes and commands up for approval by an
operator, masks secrets in everything it shows, and keeps an audit log. This
directory holds TLA+ modules translated from that code (`src/backend`), TLC
configurations that check them on small instances, and TLAPS proofs of the
most important properties for every value of the constants. `PROJECT.json`
ties each definition to the lines it models, and each run, theorem, hazard and
finding to the property it is about.

## Inventory

| Part (under `src/backend`) | State | Operations | Talks to |
|---|---|---|---|
| Risk policy and scorer `app/risk/policy.py`, `scorer.py` | behaviour tracker: calls of the last 60 s per session | `score_tool_call` | tracker, file system (path resolution) |
| LM Studio review `app/risk/lmstudio_client.py` | none | `review_risk`, `merge_review` | a local HTTP server that may fail |
| Safe tool service `app/tools/safe_tools.py` | none of its own | four `sentry_*` handlers, `approve_request`, `reject_request` | all parts below and above |
| Approval store `app/approvals/store.py` | requests, private payloads: two unlocked dictionaries | `create`, `get`, `list_pending`, `approve`, `reject`, `mark_executed`, payload methods, lazy expiry | the clock |
| Approval API `app/approvals/api.py` | none | pending, approve, reject | service and store, one pool thread per request |
| Audit stores `app/audit/jsonl_store.py`, `store.py` | a file of lines, or a list | `append`, `list_events` | the operating system |
| Audit metrics `app/audit/metrics.py` | none | sums over events | |
| Privacy masker `app/privacy/masker.py`, `patterns.py` | token per secret, counter per kind: two unlocked dictionaries | `mask_text` | |
| MCP server `app/mcp/server.py` | API thread | startup, forwarding of tools | FastMCP, uvicorn, sockets |
| Dashboard `dashboard/` | session state of Streamlit | read the log, list, approve, reject | log file, approval API with a 3 s timeout |

The MCP server handles tool calls on the main thread; the approval API runs in
a daemon thread of the same process and its synchronous endpoints on a thread
pool. Store, masker, tracker and audit store are shared by all of them and
nothing takes a lock. The dashboard is a second process that shares the log
file and the API. What is hard here is therefore interleaving (two approvals,
an approval and a rejection, an expiry under an approval), partial failure (an
exception between setting a status, running the operation, logging it and
marking it), lazy expiry, two merges of an unreliable reviewer's answer, a log
file that several threads append to, a client that gives up on calls that go
on, and a startup that races its own thread and other processes for a port.
`PROJECT.json` lists each hazard at its line.

What makes each part correct:

* *Policy and review*: no reviewer answer weakens a decision; only quiet reads
  run unattended; what a detector objects to is never put up for approval.
* *Approval workflow*: one answer per request, at most one run, none after a
  refusal or a denial, and no way out of this but an answer written over
  another one; the audit trail accounts for every run; a private payload does
  not outlive its request; approvals are settled, and an overdue request
  expires when it is read.
* *Audit log*: an append that returned can be read, but for a bounded and
  visible loss around a failed write; readers never raise.
* *Masker*: tokens identify secrets, unless two threads number secrets of one
  kind at once.
* *Tracker*: its counts are those of the last window, overlaps healing.
* *Detectors*: a decision does not depend on how a command is spelled -- but
  for the directory of a pipeline's names -- and a longer command or path is no
  safer.
* *Dashboard*: a click reaches the request it was made on or none; what the
  operator is told is so; a list that is shown is right.
* *Startup*: it ends; MCP is served only beside an approval API that started;
  processes that race for a port leave one that has it.

## Modules

| Module | Models | Properties |
|---|---|---|
| `RiskPolicy` | scores, thresholds, bumps, the two merges, as operators | used by `RiskReview` and `ApprovalWorkflow` |
| `RiskReview` | one call: score, review, merge, boundary check, route | `ReviewInv`, `ReviewOnlyTightens`, `SecondMergeChangesNothing`, `OnlyQuietReadsRunUnattended`, `HardBlocksAreNotApprovable`, `HighRiskIsBlocked` |
| `Detectors` | the command and path detectors, over arguments that are written and rewritten | `SameIntent`, `QualifiedStaysBlocked`, `LongerIsNoSafer`, `MovingDoesNotHide` |
| `BehaviorTracker` | `record_and_count` by the MCP thread and API threads | `TypeOK`, `CountsAreExact`, `LimitIsOfCalls` |
| `ApprovalLifecycle` | abstract promise of the workflow: one answer, one run, or a race | `RunsAreApproved`; implemented by the next |
| `ApprovalWorkflow` | store, service handlers, API threads, agent, clock | `WorkflowInv`, `AtMostOnce`, `OnceUnlessRaced`, `RefusedNeverRuns`, `DeniedIsFinal`, `ExecutedMeansAttempted`, `ExecutedIsMarked`, `PayloadsDieWithRequests`, `AuditAccountsForRuns`, `ApprovalsBoundRuns`, `ImplementsLifecycle`, `ApprovalIsSettled`, `OverdueIsExpired` |
| `DashboardClient` | the dashboard's approval section, composed with `ApprovalWorkflow` | `DashboardInv`, `ClickHitsItsRequest`, `ToldIsSo`, `ListingIsRight` |
| `ServerStartup` | processes that start, their API threads, the ports they want | `StartupInv`, `ServesOnlyStarted`, `ConflictLeavesOne`, `StartupEnds` |
| `AuditLog` | the JSONL file, its writers and readers | `LogInv`, `LossIsBounded`, `LossIsCounted`, `ReadableStays`, `ReadingNeverRaises` |
| `PrivacyMasker` | `_token_for` and the passes of `mask_text`, by several threads | `MaskerInv`, `DifferentSecretsDifferentTokens`, `SameKindSameToken`, `TokensAreNumbered` |
| `RiskReviewProofs`, `DetectorsProofs`, `BehaviorTrackerProofs`, `ApprovalWorkflowProofs`, `DashboardProofs`, `ServerStartupProofs`, `AuditLogProofs`, `PrivacyMaskerProofs` | theorems | |
| `MC...` | instances for TLC: constants and symmetry | |

Operators whose comment begins with `\*` and that stand before the definition
they vary (`ApproveAnythingPresent` before `ApproveWrite`, and so on) are
plausible bugs. Replacing the definition by such an operator must make TLC find
a property violated; `PROJECT.json` pairs them under `mutants`.

### RiskPolicy and RiskReview

A call carries what the detectors say of it (`none`, `invalid`, `hard_block`)
and the tracker's counts; `Detectors` and `BehaviorTracker` say how these come
about. The reviewer
answers anything `LMStudioReviewOutput` admits, or nothing (`NoReview`: not
configured, timed out, unreadable). `AskReviewer` contains the client's
`merge_review`, `MergeAnswer` the service's `_conservative_review_result`: the
code merges twice and so does the model. `CheckBoundary` is the extra
resolution of a write's path before it is put up for approval, which may
disagree with the scorer's because the file system may have changed.

### Detectors

A command line is a sequence of tokens, each a word, whether it has capitals
and whether a directory stands before it; a path is the sequence of its
resolved components. How `shlex` finds the tokens is not modelled, but what
follows from it is: a quotation that never ends (`unclosed`) makes the POSIX
detector block, silences the PowerShell one, and hides only the part of a
pipeline it is in. Pipes stand between blanks. The two detectors differ as
they do in the code: PowerShell compares whole lowered tokens, POSIX takes a
directory off and reads flags letter by letter, and the first token of a part
of a pipeline keeps its directory. The reasons the detectors return are
abstracted to whether there is one: any is a hard block.

The state machine is the argument: `Write` and `Move` make it longer,
`Capitalize`, `Qualify`, `Respell`, `SwapFlags` and `SplitFlag` (together
`Rewrite`) say the same thing differently. STEP_3 asks that `rm -rf`, `rm -fr`
and `rm --recursive --force` be treated alike, and `SameIntent` says it of
every command of the instance, PowerShell's aliases included. Flags are
respelled in the dialect of the removers on the line, since `-rf` means
nothing to `Remove-Item`. `Qualify` writes a directory before any name the
POSIX rules know: those looked for among all tokens (`TokenNames`), and those
looked for at the head of a pipeline's part (`PipeNames`). `_command_basename`
takes it off the former; `_first_token` leaves it to the latter, so the
decision depends on it. `SameIntent` excepts exactly that rewriting
(`QualifyFirstOfPart`: at the head of a part; anywhere else such a name means
nothing with or without its directory), and `QualifiedStaysBlocked`, which does
not, is the violation under Findings.

The empty path is the workspace root, which the code tests by its own name and
extension (`RootName`, in the instance a sensitive one).

### BehaviorTracker

The scorer's list of recent calls, with each loop over the live list split at
its elements, because another thread's slice assignment or append can come in
between. `blurred` remembers when two calls last overlapped in a session.
`CountsAreExact` demands exact counts of a call only if that is more than a
window ago (`Clear`); without the condition TLC finds lost records, and with it
that the damage heals. Writes and commands that may be approved are counted in
`awaiting`; each approval scores the call again (`again`), which is the finding
below: a write's second record is counted by nobody, a command's is.
A call that a path detector objects to, or of an unknown tool, is not recorded
by the code and does not appear.

### ApprovalWorkflow

A step is one access to shared state. `pc[t]` is where thread `t`'s handler is:
`get`, `approve`, `payload`, `mark`, `reject_get`, `reject` and `list` are the
store calls that begin with `_refresh_expiry`, which has up to three steps of
its own (`stage`: read request and clock; store it as expired; drop the
payload); the other values are the write that ends a call, an audit append, the
re-check, or the operation.

| Code | Actions |
|---|---|
| `_refresh_expiry` | `RefreshRead`, `RefreshExpire`, `RefreshDrop` |
| `approve_request` | `ReceiveApprove`, `GetReturns`, `ApproveWrite` or `ApproveRefused`, `GetPayload`, `Recheck`, `Deny`, `Attempt` / `AttemptRaises` / `SetupError`, `MarkWrite`, `MarkDrop` or `MarkRefused`, `DiscardUnrun`, `ApproveAppends` |
| `reject_request` | `ReceiveReject`, `RejectGetReturns`, `RejectWrite`, `RejectDrop` or `RejectRefused`, `RejectAppends` |
| `list_pending` | `ReceiveList`, `ListNext` |
| `_create_approval_result` | `Create`, `Attach`, `AgentAppends`, `AgentAppendFails` |
| an exception that reaches the endpoint | `HandlerRaises`, `AttemptRaises` |

What the re-check may decide is `RecheckDecisions` of `RiskPolicy`: every
decision the scorer and a reviewer can reach together, behaviour bumps and
links that now point elsewhere included. An operation's outcome is abstracted
to whether it was attempted; what it printed is not. `runs`, `late`, `calls`
and `faults` are histories and bounds, not program state.

Nothing in the code keeps two threads from being inside a store method at once,
and nothing in the model does. What a method has read may then be out of date
when it writes. `raced` is the history of that: the requests for which a
decision taken on one status was written while the request had another
(`NoteRace`, at every write that follows a look at the status). It changes
nothing a thread does. What the workflow promises of single answers and runs --
`OnceUnlessRaced`, `RefusedNeverRuns`, `DeniedIsFinal`, `ExecutedIsMarked` --
it promises of the requests that are not in `raced`, which says two things: a
request nobody's answer was overwritten of is safe however calls to it and to
others interleave, and such an overwriting is the *only* way to a double run or
the run of a refused request. That the code does have it is Finding 1. In
`ApprovalLifecycle` a race is a step of its own (`Race`, `RunAgain`) that only
an answered request can take. `PayloadsDieWithRequests`,
`AuditAccountsForRuns`, `ApprovalsBoundRuns`, `ExecutedMeansAttempted` and the
two liveness properties except no request for having raced.

A listing refreshes its ids one after the other, each counted as one store
call; its answer changes nothing and is modelled where it is read, in
`DashboardClient`. A restart of the process
empties the store and is `Init` again. Only the audit log survives it, and
`AuditLog` models that.

### DashboardClient

Streamlit runs the script again for every interaction, so a page is a loop:
start, fetch the pending requests, show one of them, and if the run was caused
by a click on a button that is shown again, post it. A request in flight binds
the page to an API thread of `ApprovalWorkflow`; both `FetchTimesOut` and
`PostTimesOut` may end the wait at any step of that thread, whose handler then
goes on unwatched. The timeout is 3 s (`_data.py:14`) and a command may take
5 s after the reviewer's 5 s, so this happens in ordinary use.
`ReadRow` is the second pass of `list_pending` over the live dictionary: when
the agent has added a request since it began, Python raises and the API
answers 500 (`FetchFails`).

| Code | Actions |
|---|---|
| `render`, `st.rerun` | `Rerun`, `Look`, `Click` |
| `fetch_pending_approvals`, `_request_approval_api` | `Fetch`, `ReadRow`, `Fetched`, `FetchFails`, `FetchTimesOut` |
| `_render_pending_approvals` | `Show`, `Selections`, `ShowRows`, `ShowWarning` |
| `approve_pending_request`, `reject_pending_request` | `Post`, `PostTimesOut` |
| `_store_approval_action_result` | `Tell` |
| the API's answers | `Respond`, `Reply` |

Of Streamlit, outside the repository, it is assumed that a button reports a
click once and only in a run that shows it, and that a select box without a key
keeps its choice only while its options are the same. Two consequences are
worth knowing and are no property: a click is silently dropped when the list
changed or could not be fetched in the run it caused (STEP_13 lines 276-280
say the dashboard must call the API), and after a timeout the operator reads
"Approval API unavailable." while the operation runs.

### ServerStartup

`main` up to serving MCP, the port probe with its short-lived socket, the API
thread, and the wait that looks at `started`, `startup_errors` and the thread
in turn. Sockets and uvicorn are outside: a bind succeeds when nobody is
bound, uvicorn sets `started` after binding, exits by `SystemExit` if it
cannot, and may raise, return or hang. `trouble` remembers what else than a
race between these processes happened to a process or a port, so that
`ConflictLeavesOne` can say what a race alone may do. After startup nobody
looks at the API thread again, and the model lets it die.

### AuditLog

The operating system is outside the repository; it is modelled by what Python
relies on: appends go to the end of the file in one piece, a write may be short
and the rest follow later or fail. A line is the pieces it was written in, a
piece where its cut fell: in the text, inside a character, or just before the
newline. `Listed` and `Skipped` are what `list_events` and `load_events` make
of such a file. A line longer than Python's buffer is covered by the same
short writes.

### PrivacyMasker

A text is a set of occurrences of secrets, as the value of an assignment to a
secret-looking key or bare. Assignments are masked first, then pattern by
pattern. `_token_for` is split at each access to a dictionary.
Nothing keeps two threads out of it at once; `base` remembers the counter a
thread has read, and `raced` the kinds in which a thread then wrote over what
another had written since. Of those kinds nothing is claimed, of all others
everything. A value that is already a
token is skipped by the code; texts here hold only raw secrets. A private key
spans lines, so its place in an assignment is abstracted too coarsely to be
used; the instance has none.

## Runs

| Run | Instance | Shows |
|---|---|---|
| `risk_review` | counts at and above both limits, reviewer scores on both sides of every threshold, all decisions, one unsupported tool | the six properties of `RiskReview` |
| `command_risk` | six vocabularies of 6 to 8 words, command lines and paths of up to 4 tokens, 2 of them with capitals or a directory | spelling does not matter but for the directory of a pipeline's names, longer is no safer |
| `command_qualified` | the same, one token with capitals or a directory | violation: `curl` &#124; `bash` is blocked, with a directory before `curl` it is not |
| `behavior_tracker` | one session, the MCP thread and an API thread, 3 calls and their approvals, a window of 1 tick, a clock to 3 | counts are exact a window after any overlap |
| `behavior_limit` | same kind | violation: fewer commands than the limit exceed it |
| `approval_workflow` | 1 request, 2 threads, 2 calls and listings, 1 exception, clock to the expiry, fairness | the inductive invariant; at most one run, none after refusal or denial, no false executed event, unless raced; payloads and audit trail, raced or not; refinement of `ApprovalLifecycle`; approvals are settled, overdue requests that are read expire |
| `approval_twice` | 1 request, 2 threads, no time, no faults | violation: two runs |
| `dashboard` | 2 requests, 1 page, 2 API threads, 2 clicks, 1 exception, clock to the expiry | clicks, answers and lists are right |
| `server_startup` | 2 processes, 1 port, another program, a wait of 2 ticks, restarts | startup ends, serves only when it may, a race has a winner |
| `audit_log` | 3 writers, 4 events, 2 short writes, restarts | what a failed write can cost |
| `audit_log_torn` | 2 writers, 2 events, 1 short write | violation: half a character makes readers raise |
| `privacy_masker` | 2 threads, 2 texts, 3 secrets (address, URL, password) | tokens identify and number secrets in every kind that did not race |

*Bounds.* `MaxTime`, `MaxCalls`, `MaxFaults`, `TTL`, `MaxShort`, `MaxTexts`,
`MaxLength`, `MaxEdits` and `Timeout` stand in guards. One request suffices for
most workflow properties because no property and no store method relates two
requests, except a listing; `dashboard` has two for that, and the theorems hold
for any number. Two threads and two calls are enough for a race of any two
answers, and for a call after one that is over; listings, which also expire
requests, are not counted. `TTL = 1` with a clock to 1 puts the expiry before,
at and after every step. Two short writes are the least that can tear neighbouring
lines, with a third writer in between. A removal with two flags needs three
tokens and a pipeline three; the fourth comes before, between or after. The
behaviour limits and the window are scaled down to what few calls reach, and a
clock of three windows lets an overlap leave the window with calls on both sides.

Three configurations name further bounds as constraints. `OneTool` (in
`MCApprovalWorkflow` and `MCDashboardClient`): every request is for a command;
the re-check may deny either tool. `FewWrites` (in `MCBehaviorTracker`): at most
one write, in a session without reads, since a write is recorded and counted by
nobody.

`MCDashboardClient` adds four bounds and a reduction: `OneAbandoned` (two
abandoned handlers would leave no thread for the page), `FaultsAreTold` (an
exception ends the last call, with its page waiting; exceptions anywhere are in
`approval_workflow`), `SecondIsWhole` (calls come between a request and its
payload only for the first one), `AppendsAtOnce` (the agent's audit appends,
which nothing in that run reads, do not wait), and `OwnStepsFirst`: a handler's
step that reads and writes nothing others do, such as going on from a read to
the next call, is taken before any other.

*Deadlock* is checked where something can always happen: in the workflow a
listing can always arrive once there is a request, in `RiskReview` a finished
call stutters, and a stopped server process can be started again. It is off
where finitely many inputs run out, in `AuditLog`, `PrivacyMasker`,
`BehaviorTracker` and `Detectors`.

*Fairness.* `FairSpec` lets a handler that can go on do so (`WF` of `Proceed`
per thread): Python's threads are scheduled and no step waits for another. The
subprocess, the reviewer and the HTTP client all have timeouts, so the steps
that stand for them end. No fairness is assumed of calls, listings, time, faults
or the agent: nothing in the repository calls by itself, the dashboard fetches
only when somebody interacts with it. So a pending request may stay pending past
its time for good if nobody looks, and `OverdueIsExpired` claims no more than
that every call about to read an overdue request ends its wait.
`ServerStartup`'s `FairSpec` lets the main thread run and time pass, and assumes
nothing of the API thread: the wait must end even if uvicorn hangs.

*Symmetry* is used only in runs of invariants and action properties.

## Proofs

All for every value of the constants under the modules' named assumptions.

* `RiskReviewProofs`: `ReviewCorrect` proves `ReviewInv` inductive: it records
  what the service holds at each stage (`ScoredFits`, `ReviewFits`,
  `ResultFits`, `RouteFits`). The other five follow: merges never weaken
  (`ReviewNeverWeakens`), merging twice is merging once, what runs unattended
  is quiet, approvals are clean, and a score in the block tier is a block.
* `BehaviorTrackerProofs`: `TypesHold` and `CountsHeal`, for any sessions,
  threads and window, with no lock anywhere. The invariant (`TrackerInv`)
  compares a session's list with the history of all its calls: both end in the
  same records, in the order of their times, and what stands before that end is
  older than the last overlap or than the window (`Tidy`). A call alone keeps
  this so, though it works in many steps: while it filters, what the list is
  about to be (`Outlook`) is tidy, and a record it drops takes with it only
  records that are older still (`TidyDrop`). That the order of times is needed
  for this is why the invariant has it; a record with an earlier time can get
  behind a later one only if two calls overlap. During and after an overlap all
  that is known is that everything in the session, including what a filter has
  in hand, is no later than it (`Stale`). A call that reads the clock later than
  that finds a tidy list again, because all that is in it is old enough to be
  anything. `CountsHeal` then counts: a tidy list within the window has as many
  records of a tool as the history (`TidyCounts`).
* `ApprovalWorkflowProofs`: nothing is assumed of store calls, they overlap as
  they like. `TypeCorrect` and `TypesHold`: `TypeInv` adds to the types that
  whoever is about to write a request has found it in the store, without which a
  status write could be applied to a request that is not there. "At most one
  run" is not inductive: one must know of each request that did not race that
  at most one handler has approved it and owns it, still approved, until it
  marks it (`ApproversOwn`), and how often the operation ran at each step of that
  handler (`RunsFit`, `DenialsFit`). Their conjunction is `WorkflowInv`
  (`WorkflowCorrect`). What makes it hold is that the write of an answer
  (`AnswerKeeps`) either finds the request still unanswered, and then no handler
  approves it yet (`UnansweredIsFree`), or puts it in `raced`. `RunsAtMostOnce`,
  `RefusedNeverExecuted` and `DenialIsFinal` follow, and
  `ImplementsApprovalLifecycle` shows each step to be one of the lifecycle's, a
  race included, or a stutter; `RunsFollowApprovals` is what the lifecycle
  promises, said of the workflow. `ExecutedSaidOfMarked` uses the refinement:
  executed is the last status without a race (`ExecutedStays`), and the handler
  that logs the event has written it (`MarkersFit`), so that `MarkRefused` is the
  step of raced requests only.
  `PayloadsDie` excepts no race. It is not always the handler that answered a request that drops its payload, since two may have answered
  it in a race. So the invariant (`PayloadsTended`) says
  that an answered request with a payload has some handler on its way to the
  drop, or was answered before its payload came, or lost its handler to an
  exception.
  Then comes the audit trail, again of all requests, raced or not, and for
  finitely many threads (`ThreadsAssumption`). Counting is what makes it
  inductive. `AccountsInv`: runs and the handlers that logged an approval and
  have yet to attempt (`Ready`) together are at most the approvals in the trail;
  recorded attempts and handlers about to record one (`Recording`) differ from
  the runs by at most the faults. `ExecutedInv` adds that what is said to be
  executed, and the handlers about to say so (`Marking`), are at most the
  recorded attempts. From these follow `NoRunWithoutApproval`,
  `TrailAccountsForRuns` and `ExecutedWasAttempted`: even the double run of
  Finding 1 leaves two approvals and two executions in the trail.
* `DashboardProofs`: `DashboardKeepsWorkflow` shows every step of the
  composition to be a step of `ApprovalWorkflow` or a stutter, so all theorems
  above hold beside dashboards. `PagesInv` says what a page's rows, selection,
  click and call have to do with each other (`Fits`), that a page knows only of
  requests the store has (`KnowsPresent`), that the thread it waits for does what
  it asked (`Served`) and nobody else's work (`OwnThreads`): `PagesAlwaysFit` and
  `ClicksHitTheirRequest`. `WhatIsToldIsSo` needs
  `WorkflowInv`: what a handler is about to answer is already true of the store
  and the runs, and no other handler can undo it, but for a rejection that
  another answer is written over. `ListingsAreRight` is about a
  step, the arrival of a list: its
  invariant (`ListsInv`) follows the two passes of `list_pending`, by what is
  still to be refreshed, what is still to be read, and what was read. It assumes
  that a request lives for a while (`TTL > 0`; `DEFAULT_APPROVAL_TTL_MINUTES` is
  30, `safe_tools.py:26`); else one could expire as it is made.
* `DetectorsProofs`: `LongerStaysBlocked` and `MovedStaysBlocked`, for lines
  and paths of any length. The heart of the first is that a pipeline found is
  found again (`PipesStay`): its left part cannot grow past the pipe that ends
  it, and if the new word makes its right part unsplittable the whole line is
  blocked for that.
  `IntentDecides` is `SameIntent`, with its exception for the directories of a
  pipeline's names. A line is a risk for a quotation that never
  ends, for a pipeline, or for one of its tokens (`RiskForm`). A token written
  anew plays the same part in the first two (`Alike`), and the risk of a name
  depends on the name and on the flags after it (`SameTokenRisks`), of which a
  removal is told the same by every spelling the vocabulary of the line's
  removers has. What PowerShell's rules alone would lose, `rm` behind a
  directory, POSIX's catch (`RmIsPosix`). One flag written as two
  moves all that follows: parts of a pipeline are then recognised by the pipes
  around them (`NextPart`) rather than by their length. A directory before curl,
  wget, bash or sh elsewhere than at the head of a part is seen by no rule
  (`AlikeAt`, `SameRiskAt`). The invariant needed is
  `DirsAreNames`: no flag has a directory before it.
* `ServerStartupProofs`: `StartupInv` is inductive for any number of processes
  and ports (`StartupInvHolds`). A process that serves has `started` set
  (`FlagsAreTrue`), and by `ThreadsOwn` a thread that listens owns the port:
  `NeverServesUnstarted`. For `ConflictAlwaysLeavesOne` one needs besides that
  only a probe or a bind that found the port taken gives it up, and that the
  owner then contends (`OwnersAreThreads`).
* `AuditLogProofs`: `LogIsExact`, `LossIsAlwaysBounded`, `LossIsAlwaysCounted`
  and `ReadableForever`, for any events and writers and any number of short
  writes. `LogIInv` adds to `LogInv` what a writer between two pieces holds
  (`WritersInv`), that of one event there are at most a head and, later, its tail
  (`OrderInv`), and that every short write left one head (`HeadsInv`), so there
  are no more cuts than short writes. A piece lies on the line that starts last
  before it; so a lost event has a head in its line or just before it, and a short
  write costs two events at most. Its line has text and is no event, so
  `load_events` counts it. And a line that can be read ends in a newline, gets no
  more pieces, and stays readable.
* `PrivacyMaskerProofs`: any number of threads in `_token_for` at once. Of a kind
  that did not race, `MaskerInv` says that every token given is remembered,
  numbers are distinct and at most the counter (`TokensFit`), and that a number a
  thread has stored in the counter is nobody else's (`ThreadsFit`): a store that
  finds the counter as it was read makes a new number, and any other store is a
  race. `TokensIdentify` and `TokensAreStable` follow. `NumbersHaveNoGap` needs
  besides that whatever is remembered has been given (`RememberedIsGiven`).

Only model-checked: liveness (`ApprovalIsSettled`, `OverdueIsExpired`,
`StartupEnds`), for which the prover has no support.

## Findings

1. Two `approve` calls of one request can both succeed and run its operation
   twice (`store.py:46`, against STEP_12 lines 160-161).
2. An approved command is recorded twice in the behaviour tracker, at its
   request and at its re-check, so fewer than the documented number of calls
   put a session over the limit (`safe_tools.py:391`, against STEP_3 line 202).
3. A line torn inside a character makes every reader raise
   (`dashboard/_data.py:150`, against STEP_10 lines 81-82). The dashboard reads
   the log before it shows approvals (`agentops_dashboard.py:366`), so the
   operator can then answer none.
4. A download piped into a shell is blocked only if both names are written bare:
   `curl … | bash` is, `/usr/bin/curl … | bash` and `curl … | /bin/bash` are not
   (`scorer.py:315`), though `evaluation.md` lines 161-165 count it with the
   POSIX commands blocked in their absolute-path variants. They still need an
   operator's approval.

Observed with the same models, in instances that are not among the runs:

* Without `\ raced` in `RefusedNeverRuns` TLC finds a request that was rejected
  and run (`store.py:52`, against STEP_12 line 291).
* Without the conditions on `raced` in `DifferentSecretsDifferentTokens` it finds
  two secrets with one token (`masker.py:87`, against STEP_2 line 53).
* Without `\ raced` in `ExecutedIsMarked` it finds the event
  `approval_operation_executed` of a request that is not executed
  (`safe_tools.py:451`).
* A secret found as the value of an assignment and on its own has two tokens
  (`masker.py:82`, against STEP_2 line 52).
* A reviewer's block keeps a score below the block tier, so `high_risk_events`
  is not the number of blocks (`metrics.py:60-66`); `HighRiskIsBlocked` is the
  half of that comment that holds.
* Without `Clear` in `CountsAreExact` a record is lost when two threads filter
  one session's list at once (`scorer.py:47`).

## Plan

What is left, in the order of importance.

1. A refinement of the counts `RiskReview` takes as inputs by
   `BehaviorTracker`, and of its findings by `Detectors`.
2. Masking of masked text, with tokens as texts of their own: the thousandth
   token of a kind no longer matches `MASK_TOKEN_PATTERN`.
3. `AuditMetrics` over the events `ApprovalWorkflow` appends.

## Not modelled

The health app, settings, demo and setup scripts have no state. The API's
header checks and the dashboard's URL check are pure predicates on strings;
how `shlex` splits a line, how paths are resolved and what the masker's regular
expressions match is left to those libraries. Wording, summaries, display of
arguments, charts, tables and sums over events are presentation. The MCP
server's tools only forward to the service. A death of the API thread after
startup is in `ServerStartup`, but nothing in the code notices it, so there is
no property about it.

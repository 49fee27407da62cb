--------------------------- MODULE BehaviorTracker ---------------------------
(***************************************************************************)
(* The behaviour tracker (BehaviorTracker.record_and_count in scorer.py):  *)
(* per session a list of the calls of the last Window seconds, pruned,     *)
(* appended to and counted by every call that is scored.  One tracker      *)
(* serves the MCP thread, which scores the agent's calls one at a time,    *)
(* and the threads of the approval API, which score an approved call       *)
(* again; no lock keeps two of them out of one session's list.             *)
(*                                                                         *)
(* A step is what the interpreter does without giving way: reading the     *)
(* clock, looking at the element of the list a loop has come to, replacing *)
(* the list's contents, appending.  Only calls that reach the tracker      *)
(* appear: a path a detector objects to, or an unknown tool, never does.   *)
(***************************************************************************)
EXTENDS Integers, Sequences, FiniteSets

CONSTANTS
    Sessions,      \* session keys, the anonymous one among them
    Tools,         \* the tools the agent calls
    Main,          \* the MCP thread
    ApiThreads,    \* worker threads of the approval API
    Window,        \* BEHAVIOR_WINDOW_SECONDS
    ReadLimit,     \* READ_FILE_WINDOW_LIMIT
    RunLimit,      \* RUN_COMMAND_WINDOW_LIMIT
    MaxTime,       \* bound: the clock stops here
    MaxCalls       \* bound: calls the agent makes

ASSUME TrackerAssumption ==
    /\ Main \notin ApiThreads
    /\ Tools \subseteq {"read_file", "write_file", "list_directory", "run_command"}
    /\ {Window, ReadLimit, RunLimit, MaxTime, MaxCalls} \subseteq Nat

VARIABLES
    now,           \* time.monotonic
    events,        \* BehaviorTracker._events_by_session
    step,          \* per thread: where its call is
    call,          \* per thread: the call's session and tool, and whether an
                   \* approval scores it again
    at,            \* per thread: the time it read
    pos,           \* per thread: the index its loop has come to
    kept,          \* per thread: the records its comprehension has kept
    counts,        \* per thread: its two sums
    awaiting,      \* per session and tool: calls up for approval, unanswered
    recorded,      \* history: every record ever appended, per session
    blurred,       \* history: when two calls last overlapped, per session
    calls          \* calls the agent has made

locals == <<step, call, at, pos, kept, counts>>
vars   == <<now, events, locals, awaiting, recorded, blurred, calls>>

Threads == {Main} \cup ApiThreads
Loops   == {"filter", "count_reads", "count_runs"}
Steps   == {"idle", "clock", "write", "append", "scored"} \cup Loops

(* A write and a command, that is.                                         *)
Approvable == Tools \cap {"write_file", "run_command"}

Records  == [time : 0 .. MaxTime, tool : Tools, again : BOOLEAN]
NoCall   == [tool |-> "none"]
Calls    == [session : Sessions, tool : Tools, again : BOOLEAN]
NoCounts == [reads |-> 0, runs |-> 0]
Never    == -Window - 1

TypeOK ==
    /\ now \in 0 .. MaxTime /\ calls \in 0 .. MaxCalls
    /\ events \in [Sessions -> Seq(Records)]
    /\ step \in [Threads -> Steps]
    /\ call \in [Threads -> Calls \cup {NoCall}]
    /\ \A t \in Threads : call[t] = NoCall <=> step[t] = "idle"
    /\ at \in [Threads -> 0 .. MaxTime]
    /\ pos \in [Threads -> Nat \ {0}]
    /\ kept \in [Threads -> Seq(Records)]
    /\ counts \in [Threads -> [reads : Nat, runs : Nat]]
    /\ awaiting \in [Sessions \X Approvable -> Nat]
    /\ recorded \in [Sessions -> Seq(Records)]
    /\ blurred \in [Sessions -> {Never} \cup 0 .. MaxTime]

Init ==
    /\ now = 0 /\ calls = 0
    /\ events = [s \in Sessions |-> <<>>]
    /\ step = [t \in Threads |-> "idle"]
    /\ call = [t \in Threads |-> NoCall]
    /\ at = [t \in Threads |-> 0]
    /\ pos = [t \in Threads |-> 1]
    /\ kept = [t \in Threads |-> <<>>]
    /\ counts = [t \in Threads |-> NoCounts]
    /\ awaiting = [p \in Sessions \X Approvable |-> 0]
    /\ recorded = [s \in Sessions |-> <<>>]
    /\ blurred = [s \in Sessions |-> Never]

-----------------------------------------------------------------------------
(* record_and_count *)

List(t) == events[call[t].session]

Record(t) == [time |-> at[t], tool |-> call[t].tool, again |-> call[t].again]

\* A record exactly Window old is dropped.
InWindowStrictly(time, clock) == time > clock - Window

(* event_time >= cutoff *)
InWindow(time, clock) == time >= clock - Window

Goto(t, s) ==
    /\ step' = [step EXCEPT ![t] = s]
    /\ pos' = [pos EXCEPT ![t] = 1]

(* History: somebody else is at work on the session of t's call.           *)
Blur(t, s) ==
    blurred' = IF \E u \in Threads \ {t} : call[u] # NoCall /\ call[u].session = s
               THEN [blurred EXCEPT ![s] = now] ELSE blurred

(* One step of thread t, by what it may change beside its own locals.      *)
Alone(t) ==
    /\ Blur(t, call[t].session)
    /\ UNCHANGED <<now, call, awaiting, calls>>

(* The session's list is made if it is missing and the clock is read.      *)
ReadClock(t) ==
    /\ step[t] = "clock"
    /\ at' = [at EXCEPT ![t] = now]
    /\ Goto(t, "filter")
    /\ Alone(t) /\ UNCHANGED <<events, kept, counts, recorded>>

(* A loop over the live list has an element to look at.                    *)
AtElement(t, loop) == step[t] = loop /\ pos[t] <= Len(List(t))
PastEnd(t, loop)   == step[t] = loop /\ pos[t] > Len(List(t))

Advance(t) == pos' = [pos EXCEPT ![t] = @ + 1] /\ UNCHANGED step

(* The comprehension keeps what is in the window ...                       *)
Filter(t) ==
    /\ \/ /\ AtElement(t, "filter")
          /\ LET e == List(t)[pos[t]] IN
                kept' = IF InWindow(e.time, at[t])
                        THEN [kept EXCEPT ![t] = Append(@, e)] ELSE kept
          /\ Advance(t)
       \/ PastEnd(t, "filter") /\ Goto(t, "write") /\ UNCHANGED kept
    /\ Alone(t) /\ UNCHANGED <<events, at, counts, recorded>>

(* ... the slice assignment makes that the list's contents ...             *)
WriteBack(t) ==
    /\ step[t] = "write"
    /\ events' = [events EXCEPT ![call[t].session] = kept[t]]
    /\ kept' = [kept EXCEPT ![t] = <<>>]
    /\ Goto(t, "append")
    /\ Alone(t) /\ UNCHANGED <<at, counts, recorded>>

(* ... and the call itself is appended.                                    *)
AppendRecord(t) ==
    /\ step[t] = "append"
    /\ events' = [events EXCEPT ![call[t].session] = Append(@, Record(t))]
    /\ recorded' = [recorded EXCEPT ![call[t].session] = Append(@, Record(t))]
    /\ Goto(t, "count_reads")
    /\ Alone(t) /\ UNCHANGED <<at, kept, counts>>

(* The two sums, one after the other.                                      *)
Count(t) ==
    /\ \/ \E loop \in {"count_reads", "count_runs"} :
            /\ AtElement(t, loop)
            /\ LET tool == List(t)[pos[t]].tool IN
                  counts' = IF loop = "count_reads" /\ tool = "read_file"
                            THEN [counts EXCEPT ![t].reads = @ + 1]
                            ELSE IF loop = "count_runs" /\ tool = "run_command"
                            THEN [counts EXCEPT ![t].runs = @ + 1]
                            ELSE counts
            /\ Advance(t)
       \/ PastEnd(t, "count_reads") /\ Goto(t, "count_runs") /\ UNCHANGED counts
       \/ PastEnd(t, "count_runs") /\ Goto(t, "scored") /\ UNCHANGED counts
    /\ Alone(t) /\ UNCHANGED <<events, at, kept, recorded>>

-----------------------------------------------------------------------------
(* The callers: RiskScorer._score_path_tool, _score_run_command            *)

Begin(t, c) ==
    /\ step[t] = "idle"
    /\ call' = [call EXCEPT ![t] = c]
    /\ Goto(t, "clock")
    /\ Blur(t, c.session)
    /\ UNCHANGED <<now, events, at, kept, counts, recorded>>

(* The agent calls a tool.                                                 *)
AgentCalls ==
    /\ calls < MaxCalls
    /\ calls' = calls + 1
    /\ \E c \in Calls : ~c.again /\ Begin(Main, c)
    /\ UNCHANGED awaiting

(* The call an approval is for, scored once more.                          *)
Again(s, tool) == [session |-> s, tool |-> tool, again |-> TRUE]

\* One approval is good for any number of re-checks.
ApprovalCallsAnyTime(t) ==
    /\ \E s \in Sessions, tool \in Approvable :
        /\ calls > 0
        /\ awaiting' = [awaiting EXCEPT ![<<s, tool>>] = @ - 1]
        /\ Begin(t, Again(s, tool))
    /\ UNCHANGED calls

(* An operator approves a write or a command, and approve_request scores   *)
(* it again for the session that asked for it.                             *)
ApprovalCalls(t) ==
    /\ \E s \in Sessions, tool \in Approvable :
        /\ awaiting[<<s, tool>>] > 0
        /\ awaiting' = [awaiting EXCEPT ![<<s, tool>>] = @ - 1]
        /\ Begin(t, Again(s, tool))
    /\ UNCHANGED calls

(* _record_behavior: a count over its limit raises the score, to a block   *)
(* for a write or a command and to an approval for a read, which can have  *)
(* none.                                                                   *)
Flagged(c) == c.reads > ReadLimit \/ c.runs > RunLimit

(* The call leaves the scorer; a write or a command the tracker did not    *)
(* flag may be put up for approval, or be blocked for another reason.      *)
Settle(t) ==
    /\ step[t] = "scored"
    /\ \/ UNCHANGED awaiting
       \/ /\ call[t].tool \in Approvable /\ ~call[t].again /\ ~Flagged(counts[t])
          /\ awaiting' = [awaiting EXCEPT ![<<call[t].session, call[t].tool>>] = @ + 1]
    /\ Blur(t, call[t].session)
    /\ Goto(t, "idle")
    /\ call' = [call EXCEPT ![t] = NoCall]
    /\ at' = [at EXCEPT ![t] = 0]
    /\ counts' = [counts EXCEPT ![t] = NoCounts]
    /\ UNCHANGED <<now, events, kept, recorded, calls>>

Tick ==
    /\ now < MaxTime
    /\ now' = now + 1
    /\ UNCHANGED <<events, locals, awaiting, recorded, blurred, calls>>

RecordAndCount(t) ==
    ReadClock(t) \/ Filter(t) \/ WriteBack(t) \/ AppendRecord(t) \/ Count(t)

Next ==
    \/ AgentCalls
    \/ \E t \in ApiThreads : ApprovalCalls(t)
    \/ \E t \in Threads : RecordAndCount(t) \/ Settle(t)
    \/ Tick

Spec == Init /\ [][Next]_vars

-----------------------------------------------------------------------------
(* Properties *)

(* What call t should have counted: the records of its session, its own    *)
(* included, that are of the tool and no older than Window.                *)
InReach(t, tool) ==
    {i \in DOMAIN recorded[call[t].session] :
        LET r == recorded[call[t].session][i]
        IN  r.tool = tool /\ at[t] - r.time <= Window}

(* The last overlap of two calls in the session has left t's window.       *)
Clear(t) == blurred[call[t].session] < at[t] - Window

(* Two calls that overlap in a session can lose or double each other's     *)
(* records, but the damage heals: once an overlap is a window old, every   *)
(* call counts exactly the calls of the last Window seconds, neither one   *)
(* that is too old nor one too few at the window's edge.                   *)
CountsAreExact ==
    \A t \in Threads :
        step[t] = "scored" /\ Clear(t) =>
            counts[t] = [reads |-> Cardinality(InReach(t, "read_file")),
                         runs  |-> Cardinality(InReach(t, "run_command"))]

(* STEP_3: a session is over the limit of commands after more than         *)
(* RunLimit run_command calls in a window.                                 *)
LimitIsOfCalls ==
    \A t \in Threads :
        step[t] = "scored" /\ Clear(t) /\ counts[t].runs > RunLimit =>
            Cardinality({i \in InReach(t, "run_command") :
                            ~recorded[call[t].session][i].again}) > RunLimit
=============================================================================

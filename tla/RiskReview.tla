----------------------------- MODULE RiskReview -----------------------------
(***************************************************************************)
(* One tool call on its way through SafeToolService: the deterministic     *)
(* scorer, the optional LM Studio reviewer, the service's own conservative *)
(* merge of the reviewer's answer, the write boundary check, and the route *)
(* the decision selects (run it, ask for approval, or deny it).  The call, *)
(* the counts of the behaviour tracker and every answer of the reviewer    *)
(* are nondeterministic.                                                   *)
(***************************************************************************)
EXTENDS RiskPolicy

CONSTANTS
    Tools,           \* names a call may carry, supported or not
    ReadCounts,      \* counts of recent reads the tracker may report
    RunCounts,       \* counts of recent commands the tracker may report
    Outputs          \* answers of the reviewer, NoReview among them

ASSUME InputsAssumption ==
    /\ ReadCounts \subseteq Nat /\ RunCounts \subseteq Nat
    /\ Outputs \subseteq ReviewOutputs /\ NoReview \in Outputs

VARIABLES
    stage,           \* where the call is: see Stages
    call,            \* the tool, the detectors' finding, the tracker's counts
    scored,          \* the scorer's result
    reviewed,        \* what the reviewer handed back to the service
    result,          \* the result the service holds
    route            \* what the service does with the call

vars == <<stage, call, scored, reviewed, result, route>>

Stages == {"score", "review", "merge", "boundary", "route", "done"}
Routes == {"none", "execute", "approval", "denied"}
Calls  == [tool : Tools, finding : Findings, reads : ReadCounts, runs : RunCounts]
Unset  == [score |-> 0, decision |-> "allow"]

TypeOK ==
    /\ stage \in Stages
    /\ call \in Calls
    /\ {scored, reviewed, result} \subseteq Results
    /\ route \in Routes

Init ==
    /\ stage = "score"
    /\ call \in Calls
    /\ scored = Unset /\ reviewed = Unset /\ result = Unset
    /\ route = "none"

(* risk_scorer.score_tool_call *)
Score ==
    /\ stage = "score"
    /\ scored' = ScoreCall(call.tool, call.finding, call.reads, call.runs)
    /\ result' = scored'
    /\ stage' = IF ReviewEligible(scored') THEN "review" ELSE "boundary"
    /\ UNCHANGED <<call, reviewed, route>>

(* LMStudioRiskReviewer.review_risk, the client's answer included *)
AskReviewer ==
    /\ stage = "review"
    /\ \E out \in Outputs : reviewed' = MergeReview(result, out)
    /\ stage' = "merge"
    /\ UNCHANGED <<call, scored, result, route>>

(* SafeToolService._conservative_review_result *)
MergeAnswer ==
    /\ stage = "merge"
    /\ result' = ConservativeReview(result, reviewed)
    /\ stage' = "boundary"
    /\ UNCHANGED <<call, scored, reviewed, route>>

(* sentry_write_file checks the workspace boundary of a write it is about  *)
(* to put up for approval; the file system may have changed since scoring. *)
CheckBoundary ==
    /\ stage = "boundary"
    /\ \/ /\ call.tool = "write_file" /\ result.decision = "require_approval"
          /\ result' = [score |-> HardBlockScore, decision |-> "block"]
       \/ UNCHANGED result
    /\ stage' = "route"
    /\ UNCHANGED <<call, scored, reviewed, route>>

RouteFor(tool, decision) ==
    IF decision = "allow" THEN "execute"
    ELSE IF decision = "require_approval" /\ tool \in ApprovableTools THEN "approval"
    ELSE "denied"

(* Run at once, create an approval request, or deny. *)
Route ==
    /\ stage = "route"
    /\ route' = RouteFor(call.tool, result.decision)
    /\ stage' = "done"
    /\ UNCHANGED <<call, scored, reviewed, result>>

Done == stage = "done" /\ UNCHANGED vars

Next == Score \/ AskReviewer \/ MergeAnswer \/ CheckBoundary \/ Route \/ Done

Spec == Init /\ [][Next]_vars

-----------------------------------------------------------------------------
(* Properties *)

Rank(decision) ==
    CASE decision = "allow" -> 0 [] decision = "require_approval" -> 1
      [] decision = "block" -> 2

(* A reviewer, whatever it answers, and the two merges of its answer never *)
(* lower the score or weaken the decision of the deterministic policy      *)
(* (merge_review, _conservative_review_result).                            *)
ReviewOnlyTightens ==
    stage \in {"boundary", "route", "done"} =>
        /\ result.score >= scored.score
        /\ Rank(result.decision) >= Rank(scored.decision)

(* The service merges an answer the reviewer has merged already; the       *)
(* second merge neither loosens nor tightens it, so the decision a         *)
(* reviewer reached is the one the service acts on.                        *)
SecondMergeChangesNothing ==
    stage = "boundary" /\ ReviewEligible(scored) => result = reviewed

(* Only a read or a listing that no detector objects to, in a session      *)
(* below both behaviour limits, runs without an operator: a session over   *)
(* the limit of either tool loses unattended reads too, and a write or a   *)
(* command is never run unattended (scorer.score, the sentry_ handlers).   *)
OnlyQuietReadsRunUnattended ==
    route = "execute" =>
        /\ call.tool \in {"read_file", "list_directory"}
        /\ call.finding = "none"
        /\ call.reads <= ReadFileWindowLimit
        /\ call.runs <= RunCommandWindowLimit

(* A call a detector objects to never reaches an operator: a hard block    *)
(* must not create an approval request (_approval_or_denied_result).       *)
HardBlocksAreNotApprovable ==
    route = "approval" => call.finding = "none" /\ scored.decision = "require_approval"

(* One result is no laxer than another.                                    *)
AtLeast(a, b) == a.score >= b.score /\ Rank(a.decision) >= Rank(b.decision)

ScoredFits == stage # "score" => scored = ScoreCall(call.tool, call.finding, call.reads, call.runs)

ReviewFits ==
    /\ stage \in {"review", "merge"} => ReviewEligible(scored) /\ result = scored
    /\ stage = "merge" => \E out \in Outputs : reviewed = MergeReview(scored, out)
    /\ stage = "boundary" => result = IF ReviewEligible(scored) THEN reviewed ELSE scored

ResultFits == stage \in {"boundary", "route", "done"} => AtLeast(result, scored)

RouteFits == route = IF stage = "done" THEN RouteFor(call.tool, result.decision) ELSE "none"

(* The inductive invariant behind the four: what each stage of a call knows *)
(* of the results the service holds for it.                                 *)
ReviewInv == TypeOK /\ ScoredFits /\ ReviewFits /\ ResultFits /\ RouteFits

(* metrics.py takes a score above the approval limit for a blocked call:   *)
(* what it counts as high_risk_events was blocked, whoever raised the      *)
(* score.  (Not the other way round: a reviewer's block may keep a score   *)
(* within the limit, and such a call is missing from the figure.)          *)
HighRiskIsBlocked ==
    stage = "done" /\ result.score > RequireApprovalMaxScore => result.decision = "block"
=============================================================================

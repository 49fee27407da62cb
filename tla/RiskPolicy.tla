----------------------------- MODULE RiskPolicy -----------------------------
(***************************************************************************)
(* The deterministic risk policy of the gateway and the two merges that    *)
(* combine it with an optional semantic review: what score and decision a  *)
(* tool call gets.  These are pure operators; RiskReview runs them as the  *)
(* service does, and ApprovalWorkflow uses them to decide what a re-check  *)
(* of an approved operation may answer.                                    *)
(*                                                                         *)
(* What the detectors in scorer.py say of a path or a command line is data *)
(* here: a call carries a "finding", one of                                *)
(*    "none"        nothing detected,                                      *)
(*    "invalid"     the path or command argument is missing or no string,  *)
(*    "hard_block"  outside the workspace, a sensitive path, or a          *)
(*                  dangerous command.                                     *)
(***************************************************************************)
EXTENDS Integers

(* policy.py: thresholds, base scores and behaviour limits. *)
AllowMaxScore           == 39
RequireApprovalMaxScore == 74
ReadFileWindowLimit     == 20
RunCommandWindowLimit   == 10
ReadFileScoreBump       == 40
RunCommandScoreBump     == 30
InvalidArgumentScore    == 80
UnknownToolScore        == 80
HardBlockScore          == 100

SupportedTools  == {"read_file", "write_file", "list_directory", "run_command"}
ApprovableTools == {"write_file", "run_command"}
Findings        == {"none", "invalid", "hard_block"}
Decisions       == {"allow", "require_approval", "block"}
Scores          == 0 .. 100
Results         == [score : Scores, decision : Decisions]

BaseScore(tool) == IF tool \in ApprovableTools THEN 50 ELSE 10

-----------------------------------------------------------------------------
(* Scoring *)

\* Everything below the block tier is allowed.
LenientDecisionForScore(s) ==
    IF s <= RequireApprovalMaxScore THEN "allow" ELSE "block"

DecisionForScore(s) ==
    IF s <= AllowMaxScore THEN "allow"
    ELSE IF s <= RequireApprovalMaxScore THEN "require_approval"
    ELSE "block"

\* Only the lower end is cut off.
ClampBelow(s) == IF s < 0 THEN 0 ELSE s

Clamp(s) == IF s < 0 THEN 0 ELSE IF s > 100 THEN 100 ELSE s

Result(s) == [score |-> Clamp(s), decision |-> DecisionForScore(Clamp(s))]

(* What the calls of the last minute add; the two counts are the          *)
(* tracker's, the present call included.                                   *)
BehaviorBump(reads, runs) ==
      (IF reads > ReadFileWindowLimit THEN ReadFileScoreBump ELSE 0)
    + (IF runs > RunCommandWindowLimit THEN RunCommandScoreBump ELSE 0)

\* The detectors' answer is forgotten once the tool has a base score.
DetectorBlindScoreCall(tool, finding, reads, runs) ==
    IF tool \notin SupportedTools THEN Result(UnknownToolScore)
    ELSE Result(BaseScore(tool) + BehaviorBump(reads, runs))

ScoreCall(tool, finding, reads, runs) ==
    IF tool \notin SupportedTools    THEN Result(UnknownToolScore)
    ELSE IF finding = "invalid"      THEN Result(InvalidArgumentScore)
    ELSE IF finding = "hard_block"   THEN Result(HardBlockScore)
    ELSE Result(BaseScore(tool) + BehaviorBump(reads, runs))

-----------------------------------------------------------------------------
(* Semantic review: NoReview stands for a reviewer that is not configured, *)
(* fails, times out or answers something unreadable.                       *)

NoReview      == [decision |-> "none"]
ReviewOutputs == Results \cup {NoReview}

LargerOf(a, b) == IF a >= b THEN a ELSE b

ReviewEligible(original) ==
    /\ original.decision = "require_approval"
    /\ original.score > AllowMaxScore
    /\ original.score <= RequireApprovalMaxScore

\* The reviewer's score replaces the policy's.
TightenTrusting(original, review) ==
    [score    |-> review.score,
     decision |-> IF review.decision = "block" THEN "block" ELSE original.decision]

\* The larger score, and no second look at what it means.
TightenScoreOnly(original, review) ==
    [score    |-> LargerOf(original.score, review.score),
     decision |-> IF review.decision = "block" THEN "block" ELSE original.decision]

(* The larger score; a block from either the reviewer or that score.       *)
Tighten(original, review) ==
    LET score == LargerOf(original.score, review.score)
    IN  [score    |-> score,
         decision |-> IF review.decision = "block" \/ score > RequireApprovalMaxScore
                      THEN "block"
                      ELSE original.decision]

(* lmstudio_client.merge_review *)
MergeReview(original, output) ==
    IF output = NoReview \/ original.decision \in {"allow", "block"}
    THEN original
    ELSE Tighten(original, output)

\* The service replaces the reviewer's decision by its own threshold.
RescoringConservativeReview(original, reviewed) ==
    IF reviewed = original THEN original
    ELSE Result(LargerOf(original.score, reviewed.score))

(* SafeToolService._conservative_review_result *)
ConservativeReview(original, reviewed) ==
    IF original.decision \in {"allow", "block"} \/ reviewed = original
    THEN original
    ELSE Tighten(original, reviewed)

(* A score and the review of it, as _review_risk_result does them.         *)
Reviewed(original, output) ==
    IF ReviewEligible(original)
    THEN ConservativeReview(original, MergeReview(original, output))
    ELSE original

(* Every decision the policy and a reviewer can reach together for a call  *)
(* that passed the detectors when it was first scored.  The counts and the *)
(* reviewer's answer may be anything; the detectors' answer for a path may *)
(* have changed since, because links are resolved again, and for a command *)
(* line, which is only read, it may not.                                   *)
RecheckDecisions(tool) ==
    {Reviewed(ScoreCall(tool, f, reads, runs), out).decision :
        f \in IF tool = "write_file" THEN {"none", "hard_block"} ELSE {"none"},
        reads \in {0, ReadFileWindowLimit + 1},
        runs \in {0, RunCommandWindowLimit + 1},
        out \in [score : {0, 50, 100}, decision : Decisions] \cup {NoReview}}
=============================================================================

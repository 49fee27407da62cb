-------------------------- MODULE RiskReviewProofs --------------------------
(***************************************************************************)
(* Theorems about RiskReview, for any tools, counts and reviewer answers.  *)
(***************************************************************************)
EXTENDS RiskReview, TLAPS

-----------------------------------------------------------------------------
(* The policy's operators *)

LEMMA ResultType ==
    ASSUME NEW s \in Int
    PROVE  Result(s) \in Results
  BY DEF Result, Results, Scores, Decisions, Clamp, DecisionForScore,
         AllowMaxScore, RequireApprovalMaxScore

LEMMA ScoreCallType ==
    ASSUME NEW c \in Calls
    PROVE  ScoreCall(c.tool, c.finding, c.reads, c.runs) \in Results
  <1>1. BehaviorBump(c.reads, c.runs) \in Int /\ BaseScore(c.tool) \in Int
    BY DEF BehaviorBump, BaseScore, ReadFileScoreBump, RunCommandScoreBump
  <1>2. BaseScore(c.tool) + BehaviorBump(c.reads, c.runs) \in Int
    BY <1>1
  <1> QED
    BY <1>2, ResultType DEF ScoreCall, UnknownToolScore, InvalidArgumentScore, HardBlockScore

(* Tighten, the step both merges share: the result is one of the policy's, *)
(* at least as strict as the original.                                     *)
LEMMA TightenIsStricter ==
    ASSUME NEW o \in Results, NEW r \in Results, o.decision = "require_approval"
    PROVE  Tighten(o, r) \in Results /\ AtLeast(Tighten(o, r), o)
  <1>1. o.score \in Int /\ r.score \in Int
    BY DEF Results, Scores
  <1>2. LargerOf(o.score, r.score) \in Scores /\ LargerOf(o.score, r.score) >= o.score
    BY <1>1 DEF LargerOf, Results, Scores
  <1>3. Tighten(o, r).score = LargerOf(o.score, r.score)
        /\ Tighten(o, r).decision \in {"block", "require_approval"}
    BY DEF Tighten
  <1> QED
    BY <1>2, <1>3 DEF Tighten, Results, Decisions, AtLeast, Rank

LEMMA MergeReviewIsStricter ==
    ASSUME NEW o \in Results, NEW out \in ReviewOutputs, o.decision = "require_approval"
    PROVE  MergeReview(o, out) \in Results /\ AtLeast(MergeReview(o, out), o)
  <1>1. CASE out = NoReview
    BY <1>1 DEF MergeReview, AtLeast, Rank, Results, Scores
  <1>2. CASE out # NoReview
    BY <1>2, TightenIsStricter DEF MergeReview, ReviewOutputs
  <1> QED
    BY <1>1, <1>2

(* The service's merge of an answer the reviewer merged gives that answer. *)
LEMMA SecondMerge ==
    ASSUME NEW o \in Results, NEW out \in ReviewOutputs, o.decision = "require_approval"
    PROVE  ConservativeReview(o, MergeReview(o, out)) = MergeReview(o, out)
  <1> DEFINE m == MergeReview(o, out)
  <1>1. CASE m = o
    BY <1>1 DEF ConservativeReview
  <1>2. CASE m # o
    <2>1. out # NoReview /\ out \in Results /\ m = Tighten(o, out)
      BY <1>2 DEF MergeReview, ReviewOutputs
    <2>2. o.score \in Int /\ out.score \in Int
      BY <2>1 DEF Results, Scores
    <2>3. m.score = LargerOf(o.score, out.score) /\ LargerOf(o.score, m.score) = m.score
      BY <2>1, <2>2 DEF Tighten, LargerOf
    <2>4. m.decision = "block" \/ (m.decision = o.decision /\ ~(m.score > RequireApprovalMaxScore))
      BY <2>1 DEF Tighten
    <2>5. m.score > RequireApprovalMaxScore => m.decision = "block"
      BY <2>1 DEF Tighten
    <2>6. Tighten(o, m) = m
      BY <2>1, <2>3, <2>4, <2>5 DEF Tighten
    <2> QED
      BY <1>2, <2>6 DEF ConservativeReview
  <1> QED
    BY <1>1, <1>2

(* The deterministic policy lets only a read or a listing pass unattended  *)
(* that no detector objects to, below both behaviour limits.               *)
LEMMA AllowIsQuiet ==
    ASSUME NEW c \in Calls,
           ScoreCall(c.tool, c.finding, c.reads, c.runs).decision = "allow"
    PROVE  /\ c.tool \in {"read_file", "list_directory"} /\ c.finding = "none"
           /\ c.reads <= ReadFileWindowLimit /\ c.runs <= RunCommandWindowLimit
  <1>1. c.reads \in Nat /\ c.runs \in Nat /\ c.finding \in Findings
    BY InputsAssumption DEF Calls
  <1>2. c.tool \in SupportedTools /\ c.finding = "none"
    BY <1>1 DEF ScoreCall, Result, Clamp, DecisionForScore, UnknownToolScore,
       InvalidArgumentScore, HardBlockScore, AllowMaxScore, RequireApprovalMaxScore, Findings
  <1>3. BaseScore(c.tool) + BehaviorBump(c.reads, c.runs) <= AllowMaxScore
    BY <1>1, <1>2 DEF ScoreCall, Result, Clamp, DecisionForScore, AllowMaxScore,
       RequireApprovalMaxScore, BaseScore, BehaviorBump, ReadFileScoreBump, RunCommandScoreBump
  <1> QED
    BY <1>1, <1>2, <1>3 DEF BaseScore, BehaviorBump, ReadFileScoreBump, RunCommandScoreBump,
       ReadFileWindowLimit, RunCommandWindowLimit, AllowMaxScore, SupportedTools, ApprovableTools

(* ... and asks for an approval only where no detector objects.            *)
LEMMA ApprovalNeedsNoFinding ==
    ASSUME NEW c \in Calls,
           ScoreCall(c.tool, c.finding, c.reads, c.runs).decision = "require_approval"
    PROVE  c.finding = "none"
  BY DEF ScoreCall, Result, Clamp, DecisionForScore, UnknownToolScore, InvalidArgumentScore,
         HardBlockScore, AllowMaxScore, RequireApprovalMaxScore, Calls, Findings

-----------------------------------------------------------------------------
(* ReviewInv is an invariant *)

LEMMA UnsetType == Unset \in Results
  BY DEF Unset, Results, Scores, Decisions

LEMMA ReviewInvInit == Init => ReviewInv
  BY UnsetType DEF Init, ReviewInv, TypeOK, Stages, Routes, ScoredFits, ReviewFits,
     ResultFits, RouteFits

LEMMA ReviewInvStep == ReviewInv /\ [Next]_vars => ReviewInv'
  <1> SUFFICES ASSUME ReviewInv, [Next]_vars PROVE ReviewInv'
    OBVIOUS
  <1> USE DEF ReviewInv
  <1>1. CASE Score
    <2>1. scored' \in Results /\ result' = scored' /\ UNCHANGED <<call, reviewed, route>>
          /\ scored' = ScoreCall(call.tool, call.finding, call.reads, call.runs)
      BY <1>1, ScoreCallType DEF Score, TypeOK
    <2>2. stage' = IF ReviewEligible(scored') THEN "review" ELSE "boundary"
      BY <1>1 DEF Score
    <2>3. TypeOK'
      BY <2>1, <2>2 DEF TypeOK, Stages
    <2>4. AtLeast(result', scored')
      BY <2>1 DEF AtLeast, Results, Scores, Decisions, Rank
    <2>5. ScoredFits' /\ ResultFits' /\ RouteFits'
      BY <1>1, <2>1, <2>2, <2>4 DEF Score, ScoredFits, ResultFits, RouteFits, AtLeast
    <2>6. ReviewFits'
      BY <2>1, <2>2 DEF ReviewFits, ReviewEligible
    <2> QED
      BY <2>3, <2>5, <2>6
  <1>2. CASE AskReviewer
    <2>1. PICK out \in Outputs : reviewed' = MergeReview(result, out)
      BY <1>2 DEF AskReviewer
    <2>2. result = scored /\ ReviewEligible(scored) /\ stage' = "merge"
          /\ UNCHANGED <<call, scored, result, route>>
      BY <1>2 DEF AskReviewer, ReviewFits
    <2>3. reviewed' \in Results
      BY <2>1, <2>2, MergeReviewIsStricter, InputsAssumption DEF ReviewEligible, TypeOK
    <2>4. TypeOK' /\ ScoredFits' /\ ResultFits' /\ RouteFits'
      BY <1>2, <2>2, <2>3 DEF AskReviewer, TypeOK, Stages, ScoredFits, ResultFits, RouteFits
    <2>5. ReviewFits'
      BY <2>1, <2>2 DEF ReviewFits, ReviewEligible
    <2> QED
      BY <2>4, <2>5
  <1>3. CASE MergeAnswer
    <2>1. PICK out \in Outputs : reviewed = MergeReview(scored, out)
      BY <1>3 DEF MergeAnswer, ReviewFits
    <2>2. result = scored /\ ReviewEligible(scored) /\ stage' = "boundary"
          /\ UNCHANGED <<call, scored, reviewed, route>>
      BY <1>3 DEF MergeAnswer, ReviewFits
    <2>3. scored \in Results /\ scored.decision = "require_approval" /\ out \in ReviewOutputs
      BY <2>2, InputsAssumption DEF TypeOK, ReviewEligible
    <2>4. result' = reviewed
      BY <1>3, <2>1, <2>2, <2>3, SecondMerge DEF MergeAnswer
    <2>5. AtLeast(reviewed, scored)
      BY <2>1, <2>3, MergeReviewIsStricter
    <2>6. TypeOK' /\ ScoredFits' /\ RouteFits'
      BY <1>3, <2>2, <2>4 DEF MergeAnswer, TypeOK, Stages, ScoredFits, RouteFits
    <2>7. ReviewFits' /\ ResultFits'
      BY <2>2, <2>4, <2>5 DEF ReviewFits, ReviewEligible, ResultFits, AtLeast
    <2> QED
      BY <2>6, <2>7
  <1>4. CASE CheckBoundary
    <2>1. stage = "boundary" /\ stage' = "route" /\ UNCHANGED <<call, scored, reviewed, route>>
      BY <1>4 DEF CheckBoundary
    <2>2. result' \in Results /\ AtLeast(result', scored)
      <3>1. CASE UNCHANGED result
        BY <2>1, <3>1 DEF TypeOK, ResultFits
      <3>2. CASE result' = [score |-> HardBlockScore, decision |-> "block"]
        BY <3>2 DEF TypeOK, Results, Scores, Decisions, HardBlockScore, AtLeast, Rank
      <3> QED
        BY <1>4, <3>1, <3>2 DEF CheckBoundary
    <2>3. AtLeast(result', scored')
      BY <2>1, <2>2
    <2> QED
      BY <2>1, <2>2, <2>3 DEF TypeOK, Stages, ScoredFits, ReviewFits, ResultFits, RouteFits, AtLeast
  <1>5. CASE Route
    <2>1. RouteFor(call.tool, result.decision) \in Routes
      BY DEF RouteFor, Routes
    <2> QED
      BY <1>5, <2>1 DEF Route, TypeOK, Stages, ScoredFits, ReviewFits, ResultFits, RouteFits, AtLeast
  <1>6. CASE Done \/ UNCHANGED vars
    BY <1>6 DEF Done, vars, TypeOK, ScoredFits, ReviewFits, ReviewEligible, ResultFits,
                AtLeast, RouteFits
  <1> QED
    BY <1>1, <1>2, <1>3, <1>4, <1>5, <1>6 DEF Next

(* Every stage of a call holds the results that the stages before it give. *)
THEOREM ReviewCorrect == Spec => []ReviewInv
  BY ReviewInvInit, ReviewInvStep, PTL DEF Spec

(* merge_review and _conservative_review_result never weaken the policy,   *)
(* whatever the reviewer answers.                                          *)
THEOREM ReviewNeverWeakens == Spec => []ReviewOnlyTightens
  <1>1. ReviewInv => ReviewOnlyTightens
    BY DEF ReviewInv, ResultFits, AtLeast, ReviewOnlyTightens
  <1> QED
    BY <1>1, ReviewCorrect, PTL

(* The second merge of a reviewer's answer is redundant.                   *)
THEOREM MergingTwiceIsMergingOnce == Spec => []SecondMergeChangesNothing
  <1>1. ReviewInv => SecondMergeChangesNothing
    BY DEF ReviewInv, ReviewFits, SecondMergeChangesNothing
  <1> QED
    BY <1>1, ReviewCorrect, PTL

(* Nothing but a quiet read or listing runs without an operator.           *)
THEOREM UnattendedRunsAreQuiet == Spec => []OnlyQuietReadsRunUnattended
  <1>1. ReviewInv => OnlyQuietReadsRunUnattended
    <2> SUFFICES ASSUME ReviewInv, route = "execute"
                 PROVE  OnlyQuietReadsRunUnattended
      BY DEF OnlyQuietReadsRunUnattended
    <2>1. stage = "done" /\ result.decision = "allow"
      BY DEF ReviewInv, RouteFits, RouteFor
    <2>2. scored.decision = "allow" /\ call \in Calls
      BY <2>1 DEF ReviewInv, TypeOK, ResultFits, AtLeast, Rank, Results, Decisions
    <2> QED
      BY <2>1, <2>2, AllowIsQuiet DEF ReviewInv, ScoredFits, OnlyQuietReadsRunUnattended
  <1> QED
    BY <1>1, ReviewCorrect, PTL

(* An operator is only asked about calls no detector objects to.           *)
THEOREM ApprovalsAreClean == Spec => []HardBlocksAreNotApprovable
  <1>1. ReviewInv => HardBlocksAreNotApprovable
    <2> SUFFICES ASSUME ReviewInv, route = "approval"
                 PROVE  HardBlocksAreNotApprovable
      BY DEF HardBlocksAreNotApprovable
    <2>1. stage = "done" /\ result.decision = "require_approval" /\ call.tool \in ApprovableTools
      BY DEF ReviewInv, RouteFits, RouteFor
    <2>2. scored.decision \in {"allow", "require_approval"} /\ call \in Calls
      BY <2>1 DEF ReviewInv, TypeOK, ResultFits, AtLeast, Rank, Results, Decisions
    <2>3. scored = ScoreCall(call.tool, call.finding, call.reads, call.runs)
      BY <2>1 DEF ReviewInv, ScoredFits
    <2>4. scored.decision # "allow"
      BY <2>1, <2>2, <2>3, AllowIsQuiet DEF ApprovableTools
    <2> QED
      BY <2>2, <2>3, <2>4, ApprovalNeedsNoFinding DEF HardBlocksAreNotApprovable
  <1> QED
    BY <1>1, ReviewCorrect, PTL

-----------------------------------------------------------------------------
(* A high score is a block, whoever raised it *)

BlockedIfHigh(r) == r.score > RequireApprovalMaxScore => r.decision = "block"

LEMMA ScoringBlocksHigh ==
    ASSUME NEW c \in Calls
    PROVE  BlockedIfHigh(ScoreCall(c.tool, c.finding, c.reads, c.runs))
  <1>1. ASSUME NEW s \in Int PROVE BlockedIfHigh(Result(s))
    BY DEF BlockedIfHigh, Result, DecisionForScore, Clamp, AllowMaxScore, RequireApprovalMaxScore
  <1>2. BehaviorBump(c.reads, c.runs) \in Int /\ BaseScore(c.tool) \in Int
    BY DEF BehaviorBump, BaseScore, ReadFileScoreBump, RunCommandScoreBump
  <1>3. BaseScore(c.tool) + BehaviorBump(c.reads, c.runs) \in Int
    BY <1>2
  <1> QED
    BY <1>1, <1>3 DEF ScoreCall, UnknownToolScore, InvalidArgumentScore, HardBlockScore

LEMMA MergingBlocksHigh ==
    ASSUME NEW o, NEW r, BlockedIfHigh(o)
    PROVE  BlockedIfHigh(ConservativeReview(o, r))
  <1>1. BlockedIfHigh(Tighten(o, r))
    BY DEF BlockedIfHigh, Tighten
  <1> QED
    BY <1>1 DEF ConservativeReview

HighInv == ReviewInv /\ BlockedIfHigh(result)

LEMMA HighStep == HighInv /\ [Next]_vars => HighInv'
  <1> SUFFICES ASSUME ReviewInv, BlockedIfHigh(result), [Next]_vars
               PROVE  BlockedIfHigh(result')
    BY ReviewInvStep DEF HighInv
  <1>1. CASE Score
    BY <1>1, ScoringBlocksHigh DEF Score, ReviewInv, TypeOK
  <1>2. CASE MergeAnswer
    BY <1>2, MergingBlocksHigh DEF MergeAnswer
  <1>3. CASE CheckBoundary
    BY <1>3 DEF CheckBoundary, BlockedIfHigh
  <1>4. CASE AskReviewer \/ Route \/ Done \/ UNCHANGED vars
    BY <1>4 DEF AskReviewer, Route, Done, vars
  <1> QED
    BY <1>1, <1>2, <1>3, <1>4 DEF Next

(* metrics.py: a call whose score is above the approval limit was blocked. *)
(* No reviewer's answer and no merge of it, which may raise a score past   *)
(* the limit, leaves such a call to be approved.                           *)
THEOREM HighScoresAreBlocked == Spec => []HighRiskIsBlocked
  <1>1. Init => HighInv
    BY ReviewInvInit DEF HighInv, Init, Unset, BlockedIfHigh, RequireApprovalMaxScore
  <1>2. HighInv => HighRiskIsBlocked
    BY DEF HighInv, BlockedIfHigh, HighRiskIsBlocked
  <1> QED
    BY <1>1, <1>2, HighStep, PTL DEF Spec
=============================================================================

---------------------------- MODULE MCRiskReview ----------------------------
(* RiskReview with counts on both sides of the limits and reviewer scores  *)
(* on both sides of the thresholds.                                        *)
EXTENDS RiskReview

MCTools   == SupportedTools \cup {"delete_file"}
MCReads   == {1, ReadFileWindowLimit, ReadFileWindowLimit + 1}
MCRuns    == {1, RunCommandWindowLimit, RunCommandWindowLimit + 1}
MCOutputs == [score : {0, 39, 40, 50, 51, 74, 75, 100}, decision : Decisions]
                \cup {NoReview}
=============================================================================

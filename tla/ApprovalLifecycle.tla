-------------------------- MODULE ApprovalLifecycle --------------------------
(***************************************************************************)
(* What the approval workflow promises, without threads, clocks, payloads  *)
(* or audit trail: a request is put up once, gets at most one answer, runs *)
(* at most once and only after it was approved, and is called executed     *)
(* only after it ran.  The one way out of this is a race: an answer        *)
(* written over another one, after which nothing is promised of the        *)
(* request but that its runs are counted one by one.                       *)
(***************************************************************************)
EXTENDS Naturals

CONSTANT Requests

VARIABLES
    phase,   \* what the store says of each request
    runs     \* how often its operation was attempted

vars == <<phase, runs>>

Answered == {"approved", "rejected", "expired", "executed"}
Phases   == {"missing", "pending", "raced"} \cup Answered

TypeOK ==
    /\ phase \in [Requests -> Phases]
    /\ runs \in [Requests -> Nat]

Init ==
    /\ phase = [r \in Requests |-> "missing"]
    /\ runs = [r \in Requests |-> 0]

Create(r) ==
    /\ phase[r] = "missing"
    /\ phase' = [phase EXCEPT ![r] = "pending"]
    /\ UNCHANGED runs

(* The one answer: approved, rejected, or nobody answered in time.         *)
Answer(r, p) ==
    /\ phase[r] = "pending"
    /\ phase' = [phase EXCEPT ![r] = p]
    /\ UNCHANGED runs

Run(r) ==
    /\ phase[r] = "approved" /\ runs[r] = 0
    /\ runs' = [runs EXCEPT ![r] = 1]
    /\ UNCHANGED phase

Finish(r) ==
    /\ phase[r] = "approved" /\ runs[r] = 1
    /\ phase' = [phase EXCEPT ![r] = "executed"]
    /\ UNCHANGED runs

(* An answer is written over the one the request has ...                   *)
Race(r) ==
    /\ phase[r] \in Answered
    /\ phase' = [phase EXCEPT ![r] = "raced"]
    /\ UNCHANGED runs

(* ... and both are acted on.                                              *)
RunAgain(r) ==
    /\ phase[r] = "raced"
    /\ runs' = [runs EXCEPT ![r] = @ + 1]
    /\ UNCHANGED phase

Next ==
    \E r \in Requests :
        \/ Create(r)
        \/ \E p \in {"approved", "rejected", "expired"} : Answer(r, p)
        \/ Run(r)
        \/ Finish(r)
        \/ Race(r)
        \/ RunAgain(r)

Spec == Init /\ [][Next]_vars

(* The operation of a request that did not race runs at most once, only of *)
(* a request that was approved, and a request is called executed only      *)
(* after it ran.                                                           *)
RunsAreApproved ==
    \A r \in Requests :
        phase[r] # "raced" =>
            /\ runs[r] <= 1
            /\ runs[r] = 1 => phase[r] \in {"approved", "executed"}
            /\ phase[r] = "executed" => runs[r] = 1
=============================================================================

--------------------------- MODULE DashboardClient ---------------------------
(***************************************************************************)
(* The dashboard's approval section (dashboard/agentops_dashboard.py and   *)
(* _data.py) as a client of the approval workflow.  Streamlit runs the     *)
(* whole script again for every interaction: it shows the result of the    *)
(* last action, fetches the pending requests, shows one of them with its   *)
(* two buttons, and only if the clicked button is among those shown this   *)
(* time does it send the click to the approval API.  Every HTTP call gives *)
(* up after a timeout, while its handler in the API goes on.               *)
(*                                                                         *)
(* Streamlit, httpx and FastAPI are outside the repository.  Of Streamlit  *)
(* it is assumed that a button reports a click only in the run the click   *)
(* causes and only if that run shows the button again, and that a select   *)
(* box keeps its choice only while its options stay the same.              *)
(***************************************************************************)
EXTENDS ApprovalWorkflow

CONSTANTS
    Pages,      \* browser sessions of the dashboard
    NoThread    \* no API thread serves a page

ASSUME PagesAssumption == NoThread \notin Threads

VARIABLES
    page,       \* per session: its script, and what the script shows
    call,       \* per session: the HTTP call it is waiting for
    told        \* per session: st.session_state[APPROVAL_ACTION_RESULT_KEY]

pageVars == <<page, call, told>>

NoClick == [action |-> "none", id |-> UnknownId]
Clicks  == [action : {"approve", "reject"}, id : Requests] \cup {NoClick}
Replies == {"none", "ran", "answered", "denied", "not_run", "rejected", "error",
            "unavailable"}

DashboardTypeOK ==
    /\ TypeOK
    /\ page \in [Pages -> [step : {"shown", "start", "fetching", "post", "posting"},
                           listed : BOOLEAN,
                           rows : SUBSET Requests,
                           selected : Ids,
                           click : Clicks]]
    /\ call \in [Pages -> [thread : Threads \cup {NoThread},
                           known : SUBSET Requests, since : Nat,
                           pass : BOOLEAN, left : SUBSET Requests,
                           all : SUBSET Requests, got : SUBSET Requests]]
    /\ told \in [Pages -> [what : Replies, id : Ids]]

NoCall == [thread |-> NoThread, known |-> {}, since |-> 0, pass |-> FALSE,
           left |-> {}, all |-> {}, got |-> {}]

DashboardInit ==
    /\ Init
    /\ page = [p \in Pages |-> [step |-> "start", listed |-> FALSE, rows |-> {},
                                selected |-> UnknownId, click |-> NoClick]]
    /\ call = [p \in Pages |-> NoCall]
    /\ told = [p \in Pages |-> [what |-> "none", id |-> UnknownId]]

-----------------------------------------------------------------------------
(* The script starts: GET /approvals/pending.  A store without requests    *)
(* has nothing to refresh.                                                 *)

Fetch(p, selected, click) ==
    /\ page' = [page EXCEPT ![p] =
          [@ EXCEPT !.step = "fetching", !.listed = FALSE,
                    !.selected = selected, !.click = click]]
    /\ IF Present = {}
       THEN /\ call' = [call EXCEPT ![p] = [NoCall EXCEPT !.since = now, !.pass = TRUE]]
            /\ UNCHANGED vars
       ELSE \E t \in Threads :
            /\ ReceiveList(t)
            /\ call' = [call EXCEPT ![p] =
                  [NoCall EXCEPT !.thread = t, !.known = Present, !.since = now]]
    /\ UNCHANGED told

(* A new session, or st.rerun after an action.                             *)
Rerun(p) == page[p].step = "start" /\ Fetch(p, page[p].selected, NoClick)

(* The operator reloads, or picks another row in the select box.           *)
Look(p) ==
    /\ page[p].step = "shown"
    /\ \E r \in page[p].rows \cup {page[p].selected} : Fetch(p, r, NoClick)

(* The operator clicks Approve or Reject.                                  *)
Click(p) ==
    /\ page[p].step = "shown" /\ page[p].selected # UnknownId
    /\ calls < MaxCalls
    /\ \E action \in {"approve", "reject"} :
          Fetch(p, page[p].selected, [action |-> action, id |-> page[p].selected])

-----------------------------------------------------------------------------
(* The answer to it *)

(* list_pending's second pass: one request of the live dictionary.         *)
ReadRow(p) ==
    /\ call[p].pass /\ call[p].all = Present
    /\ \E r \in call[p].left :
          call' = [call EXCEPT ![p].left = @ \ {r},
                      ![p].got = IF StatusOf(r) = "pending" THEN @ \cup {r} ELSE @]
    /\ UNCHANGED <<vars, page, told>>

\* The buttons have the same key whichever request is selected.
ShowAnyButton(p, listed, rows, selected) ==
    LET clicked == page[p].click # NoClick /\ selected # UnknownId IN
    page' = [page EXCEPT ![p] = [step |-> IF clicked THEN "post" ELSE "shown",
                                 listed |-> listed, rows |-> rows, selected |-> selected,
                                 click |-> IF clicked THEN @.click ELSE NoClick]]

(* What the script shows next: whether it got an answer, the rows in it,   *)
(* the selected one; and whether the buttons of that row, named after its  *)
(* request, include the one that was clicked.                              *)
Show(p, listed, rows, selected) ==
    LET clicked == page[p].click # NoClick /\ page[p].click.id = selected IN
    page' = [page EXCEPT ![p] = [step |-> IF clicked THEN "post" ELSE "shown",
                                 listed |-> listed, rows |-> rows, selected |-> selected,
                                 click |-> IF clicked THEN @.click ELSE NoClick]]

\* The choice is kept whatever the rows are now.
KeepSelection(p, rows) ==
    IF rows = {} THEN {UnknownId}
    ELSE IF page[p].selected # UnknownId THEN {page[p].selected}
    ELSE rows

(* The old choice if the rows are the same as before, and any otherwise.   *)
Selections(p, rows) ==
    IF rows = {} THEN {UnknownId}
    ELSE IF rows = page[p].rows /\ page[p].selected \in rows THEN {page[p].selected}
    ELSE rows

ShowRows(p) ==
    /\ call' = [call EXCEPT ![p] = NoCall]
    /\ \E r \in Selections(p, call[p].got) : Show(p, TRUE, call[p].got, r)
    /\ UNCHANGED <<vars, told>>

(* st.warning, and nothing to click.                                       *)
ShowWarning(p) ==
    /\ call' = [call EXCEPT ![p] = NoCall]
    /\ Show(p, FALSE, {}, UnknownId)
    /\ UNCHANGED <<vars, told>>

(* The pass is through, whatever is created before the answer arrives.     *)
Fetched(p) == call[p].pass /\ call[p].left = {} /\ ShowRows(p)

\* The rows read before the error are taken for the answer.
FetchFailsPartly(p) == call[p].pass /\ call[p].all # Present /\ ShowRows(p)

(* A request created before the pass was through makes it raise            *)
(* RuntimeError, "dictionary changed size" (HTTP 500).  The pass still has *)
(* to find that no row is left when it has read the last one.              *)
FetchFails(p) == call[p].pass /\ call[p].all # Present /\ ShowWarning(p)

(* httpx gives up; the listing goes on refreshing without anybody waiting. *)
FetchTimesOut(p) ==
    /\ page[p].step = "fetching"
    /\ ShowWarning(p)

-----------------------------------------------------------------------------
(* POST /approvals/<id>/approve and /reject *)

Post(p) ==
    /\ page[p].step = "post"
    /\ \E t \in Threads :
        /\ IF page[p].click.action = "approve" THEN ReceiveApprove(t) ELSE ReceiveReject(t)
        /\ id'[t] = page[p].selected
        /\ call' = [call EXCEPT ![p] = [NoCall EXCEPT !.thread = t]]
    /\ page' = [page EXCEPT ![p].step = "posting"]
    /\ UNCHANGED told

(* _store_approval_action_result, and st.rerun.                            *)
Tell(p, what) ==
    /\ told' = [told EXCEPT ![p] = [what |-> what, id |-> page[p].click.id]]
    /\ page' = [page EXCEPT ![p].step = "start", ![p].click = NoClick]
    /\ call' = [call EXCEPT ![p] = NoCall]

PostTimesOut(p) ==
    /\ page[p].step = "posting"
    /\ Tell(p, "unavailable")
    /\ UNCHANGED vars

\* The status code of the response is not looked at.
ReplyIgnoresCode(step) ==
    CASE step = "log_executed" -> "ran"
      [] step = "log_refused"  -> "answered"
      [] step = "log_denied"   -> "denied"
      [] step = "discard"      -> "not_run"
      [] step \in {"reject", "log_rejected"} -> "rejected"

(* What the response says, by the last step of the handler.                *)
Reply(step) ==
    CASE step = "log_executed" -> "ran"
      [] step = "log_refused"  -> "answered"
      [] step = "log_denied"   -> "denied"
      [] step = "discard"      -> "not_run"
      [] step = "reject"       -> "answered"
      [] step = "log_rejected" -> "rejected"

-----------------------------------------------------------------------------
(* A step of the API thread t, and what the page that waits for it learns. *)

Respond(t, what) ==
    IF \E p \in Pages : call[p].thread = t /\ pc'[t] = "idle"
    THEN LET p == CHOOSE q \in Pages : call[q].thread = t IN
         IF page[p].step = "posting"
         THEN Tell(p, what)
         ELSE /\ call' = [call EXCEPT ![p] =
                    [@ EXCEPT !.thread = NoThread, !.pass = TRUE,
                              !.left = Present, !.all = Present]]
              /\ UNCHANGED <<page, told>>
    ELSE UNCHANGED pageVars

ApiProceeds(t) == Proceed(t) /\ Respond(t, IF pc[t] = "list" THEN "none" ELSE Reply(pc[t]))

ApiFaults(t) == Fault(t) /\ Respond(t, "error")

PageStep(p) ==
    \/ Rerun(p) \/ ReadRow(p) \/ Fetched(p) \/ FetchFails(p) \/ Post(p)

DashboardNext ==
    \/ \E p \in Pages : Look(p) \/ Click(p) \/ PageStep(p) \/ FetchTimesOut(p) \/ PostTimesOut(p)
    \/ \E t \in Threads : ApiProceeds(t) \/ ApiFaults(t)
    \/ (AgentStep \/ Tick) /\ UNCHANGED pageVars

allVars == <<vars, pageVars>>

DashboardSpec == DashboardInit /\ [][DashboardNext]_allVars

-----------------------------------------------------------------------------
(* Properties *)

(* What a page shows, and what it does with a click, fit together: the     *)
(* selected request is among the rows, a click is sent from the run that   *)
(* shows its request, and a page waits for one handler at a time.          *)
PageFits ==
    \A p \in Pages :
        /\ page[p].step \in {"shown", "post", "posting"} =>
              page[p].selected \in IF page[p].rows = {} THEN {UnknownId} ELSE page[p].rows
        /\ page[p].click # NoClick => page[p].step \in {"fetching", "post", "posting"}
        /\ page[p].step \in {"post", "posting"} => page[p].click.id = page[p].selected
        /\ call[p].thread # NoThread <=>
              page[p].step = "posting" \/ (page[p].step = "fetching" /\ ~call[p].pass)

DashboardInv == DashboardTypeOK /\ PageFits

(* However the list changes under the operator's hand, a click reaches the *)
(* request it was made on, or none.                                        *)
ClickHitsItsRequest ==
    \A p \in Pages :
        page[p].step = "posting" =>
            id[call[p].thread] = page[p].click.id

(* What the dashboard says of an action is so and stays so, whatever calls *)
(* it gave up on are still under way: "ran" of an operation that was       *)
(* attempted, "denied" of one that was denied; what it says is rejected    *)
(* has not run and will not, unless another answer was written over the    *)
(* rejection; and nothing it says is settled can be approved, or is on     *)
(* offer, again.  An error or "unavailable" claims nothing: the action may *)
(* have been taken, or be taken yet.                                       *)
ToldIsSo ==
    \A p \in Pages :
        LET r == told[p].id  what == told[p].what IN
        /\ what = "ran" => runs[r] > 0
        /\ what = "denied" => audit[r]["denied"] > 0
        /\ what = "rejected" /\ r \notin raced => runs[r] = 0
        /\ what \in Replies \ {"none", "error", "unavailable"} =>
              StatusOf(r) # "pending"

(* A list that is shown is right: it has every request that was there when *)
(* the page asked and is pending still, and none whose time was over then. *)
(* Requests created while the list was built make the call fail, and never *)
(* make it lose a row.                                                     *)
ListingIsRight ==
    [][\A p \in Pages :
        page[p].step = "fetching" /\ page'[p].step # "fetching" /\ page'[p].listed =>
            /\ {r \in call[p].known : StatusOf(r) = "pending"} \subseteq page'[p].rows
            /\ \A r \in page'[p].rows : requests[r].expires_at > call[p].since]_allVars
=============================================================================

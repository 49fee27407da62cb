--------------------------- MODULE PrivacyMasker ---------------------------
(***************************************************************************)
(* The privacy masker's tokens (privacy/masker.py).  One PrivacyMasker     *)
(* serves the MCP thread and the approval API's threads; its two           *)
(* dictionaries, the tokens and the counters per kind, are not locked, so  *)
(* what a thread has read of them may be out of date when it writes.       *)
(* raced records the kinds that this happened to.                          *)
(*                                                                         *)
(* A text is the secrets that occur in it and where: "env" as the value of *)
(* an assignment to a key that looks secret, "bare" anywhere else.  What   *)
(* the regular expressions recognise is data: the constant Natural gives   *)
(* the kind of each secret, "plain" for one no general pattern matches.    *)
(***************************************************************************)
EXTENDS Naturals, FiniteSets

CONSTANTS
    Secrets,           \* raw secret values
    Natural,           \* per secret: the kind its form shows, or "plain"
    Threads,           \* threads that mask texts
    MaxTexts           \* bound: texts masked in this session

(* The kinds in the order of GENERAL_PATTERNS, by rank.                    *)
PatternRank == [PRIVATE_KEY |-> 1, DATABASE_URL |-> 2, API_KEY |-> 3,
                GITHUB_TOKEN |-> 4, JWT |-> 5, EMAIL |-> 6]
PatternKinds == {"PRIVATE_KEY", "DATABASE_URL", "API_KEY", "GITHUB_TOKEN", "JWT", "EMAIL"}
Kinds        == PatternKinds \cup {"ENV_SECRET"}

ASSUME MaskerAssumption ==
    /\ Natural \in [Secrets -> PatternKinds \cup {"plain"}]
    /\ MaxTexts \in Nat

VARIABLES
    tokens,    \* _tokens_by_secret: the number in the token, 0 for none
    counts,    \* _counts_by_kind
    step,      \* per thread: where in _token_for it is
    text,      \* per thread: occurrences it has still to mask
    current,   \* per thread: the occurrence it masks
    number,    \* per thread: next_count
    texts,     \* texts begun so far
    given,     \* history: every token put in place of a secret
    base,      \* history, per thread: the counter as it was when read
    raced      \* history: kinds with a write that came after another one

history == <<base, raced>>
vars    == <<tokens, counts, step, text, current, number, texts, given, history>>

Occurrences == [secret : Secrets, place : {"env", "bare"}]
NoOccurrence == [place |-> "none"]

(* _classify_env_value for the value of an assignment, else the pattern.   *)
KindOf(o) ==
    IF o.place = "bare"
       \/ Natural[o.secret] \in {"DATABASE_URL", "API_KEY", "GITHUB_TOKEN", "JWT"}
    THEN Natural[o.secret]
    ELSE "ENV_SECRET"

(* What mask_text finds: bare plain values match no pattern.               *)
Found(o) == o.place = "env" \/ Natural[o.secret] # "plain"

(* Assignments are masked first, then pattern by pattern.                  *)
Turn(o) == IF o.place = "env" THEN 0 ELSE PatternRank[Natural[o.secret]]

TypeOK ==
    /\ tokens \in [Kinds \X Secrets -> Nat]
    /\ counts \in [Kinds -> Nat]
    /\ step \in [Threads -> {"idle", "next", "lookup", "count", "store", "remember"}]
    /\ text \in [Threads -> SUBSET Occurrences]
    /\ current \in [Threads -> Occurrences \cup {NoOccurrence}]
    /\ number \in [Threads -> Nat]
    /\ texts \in 0 .. MaxTexts
    /\ given \subseteq [secret : Secrets, kind : Kinds, number : Nat]
    /\ base \in [Threads -> Nat]
    /\ raced \subseteq Kinds

Init ==
    /\ tokens = [k \in Kinds \X Secrets |-> 0]
    /\ counts = [k \in Kinds |-> 0]
    /\ step = [t \in Threads |-> "idle"]
    /\ text = [t \in Threads |-> {}]
    /\ current = [t \in Threads |-> NoOccurrence]
    /\ number = [t \in Threads |-> 0]
    /\ texts = 0
    /\ given = {}
    /\ base = [t \in Threads |-> 0]
    /\ raced = {}

(* mask_text *)
Receive(t) ==
    /\ step[t] = "idle"
    /\ texts < MaxTexts
    /\ texts' = texts + 1
    /\ \E occurrences \in SUBSET {o \in Occurrences : Found(o)} :
        text' = [text EXCEPT ![t] = occurrences]
    /\ step' = [step EXCEPT ![t] = "next"]
    /\ UNCHANGED <<tokens, counts, current, number, given, history>>

InTokenFor(t) == step[t] \in {"lookup", "count", "store", "remember"}

(* The next occurrence of the text, by pattern.                            *)
NextOccurrence(t) ==
    /\ step[t] = "next" /\ text[t] # {}
    /\ \E o \in text[t] :
        /\ \A p \in text[t] : Turn(o) <= Turn(p)
        /\ current' = [current EXCEPT ![t] = o]
        /\ text' = [text EXCEPT ![t] = @ \ {o}]
    /\ step' = [step EXCEPT ![t] = "lookup"]
    /\ UNCHANGED <<tokens, counts, number, texts, given, history>>

Finish(t) ==
    /\ step[t] = "next" /\ text[t] = {}
    /\ step' = [step EXCEPT ![t] = "idle"]
    /\ current' = [current EXCEPT ![t] = NoOccurrence]
    /\ number' = [number EXCEPT ![t] = 0]
    /\ UNCHANGED <<tokens, counts, text, texts, given, history>>

Key(t) == <<KindOf(current[t]), current[t].secret>>

(* _token_for returns: its token goes where the secret was.                *)
Give(t, n) ==
    /\ given' = given \cup {[secret |-> current[t].secret, kind |-> KindOf(current[t]), number |-> n]}
    /\ step' = [step EXCEPT ![t] = "next"]

(* _tokens_by_secret.get *)
LookUp(t) ==
    /\ step[t] = "lookup"
    /\ IF tokens[Key(t)] # 0
       THEN Give(t, tokens[Key(t)])
       ELSE step' = [step EXCEPT ![t] = "count"] /\ UNCHANGED given
    /\ UNCHANGED <<tokens, counts, text, current, number, texts, history>>

\* One counter for all kinds.
ReadAnyCount(t) ==
    /\ step[t] = "count"
    /\ \E k \in Kinds : number' = [number EXCEPT ![t] = counts[k] + 1]
    /\ base' = [base EXCEPT ![t] = counts[KindOf(current[t])]]
    /\ step' = [step EXCEPT ![t] = "store"]
    /\ UNCHANGED <<tokens, counts, text, current, texts, given, raced>>

(* next_count = _counts_by_kind.get(kind, 0) + 1 *)
ReadCount(t) ==
    /\ step[t] = "count"
    /\ number' = [number EXCEPT ![t] = counts[KindOf(current[t])] + 1]
    /\ base' = [base EXCEPT ![t] = counts[KindOf(current[t])]]
    /\ step' = [step EXCEPT ![t] = "store"]
    /\ UNCHANGED <<tokens, counts, text, current, texts, given, raced>>

(* History: thread t writes what another thread has written since t read   *)
(* it.                                                                     *)
NoteRace(t, written) ==
    raced' = IF written THEN raced \cup {KindOf(current[t])} ELSE raced

\* The counter stays as it was.
ForgetCount(t) ==
    /\ step[t] = "store"
    /\ step' = [step EXCEPT ![t] = "remember"]
    /\ UNCHANGED <<tokens, counts, text, current, number, texts, given, history>>

(* _counts_by_kind[kind] = next_count *)
StoreCount(t) ==
    /\ step[t] = "store"
    /\ counts' = [counts EXCEPT ![KindOf(current[t])] = number[t]]
    /\ NoteRace(t, counts[KindOf(current[t])] # base[t])
    /\ step' = [step EXCEPT ![t] = "remember"]
    /\ UNCHANGED <<tokens, text, current, number, texts, given, base>>

\* The new token is used and not remembered.
GiveOnly(t) ==
    /\ step[t] = "remember"
    /\ Give(t, number[t])
    /\ UNCHANGED <<tokens, counts, text, current, number, texts, history>>

(* _tokens_by_secret[key] = token *)
RememberToken(t) ==
    /\ step[t] = "remember"
    /\ tokens' = [tokens EXCEPT ![Key(t)] = number[t]]
    /\ NoteRace(t, tokens[Key(t)] # 0)
    /\ Give(t, number[t])
    /\ UNCHANGED <<counts, text, current, number, texts, base>>

Next ==
    \E t \in Threads :
        \/ Receive(t) \/ NextOccurrence(t) \/ Finish(t)
        \/ LookUp(t) \/ ReadCount(t) \/ StoreCount(t) \/ RememberToken(t)

Spec == Init /\ [][Next]_vars

-----------------------------------------------------------------------------
(* Properties *)

(* STEP_2: different raw secrets map to different tokens, so that who sees *)
(* a masked text can tell which secrets in it are the same.  Two threads   *)
(* that number secrets of a kind at the same time can give both one        *)
(* number; nothing else can.                                               *)
DifferentSecretsDifferentTokens ==
    \A g, h \in given :
        g.kind = h.kind /\ g.kind \notin raced /\ g.number = h.number => g.secret = h.secret

(* A secret that is found as the same kind again gets the same token       *)
(* again, however many texts lie between -- unless two threads numbered it *)
(* at the same time.                                                       *)
SameKindSameToken ==
    \A g, h \in given :
        g.secret = h.secret /\ g.kind = h.kind /\ g.kind \notin raced => g.number = h.number

(* Counters are scoped by kind and skip nothing: the tokens of a kind are  *)
(* numbered from 1 to its counter, each number used, but for those whose   *)
(* threads are about to use them -- unless the counter lost an update.     *)
TokensAreNumbered ==
    \A k \in Kinds \ raced :
        LET used    == {g.number : g \in {h \in given : h.kind = k}}
            pending == {number[t] : t \in {u \in Threads :
                            step[u] = "remember" /\ KindOf(current[u]) = k}}
        IN  used \cup pending = 1 .. counts[k]

(* The inductive invariant behind them: a token given is remembered, no    *)
(* two secrets of a kind share a number, and a number a thread has put in  *)
(* the counter is that thread's alone until it is remembered.              *)
TokensFit ==
    /\ \A g \in given :
        g.kind \notin raced => tokens[<<g.kind, g.secret>>] = g.number /\ g.number # 0
    /\ \A k \in Kinds \ raced, r, s \in Secrets :
        /\ tokens[<<k, r>>] <= counts[k]
        /\ tokens[<<k, r>>] = tokens[<<k, s>>] /\ tokens[<<k, r>>] # 0 => r = s

Numbering(t, k) == step[t] = "remember" /\ KindOf(current[t]) = k

ThreadsFit ==
    /\ \A t \in Threads :
        /\ InTokenFor(t) => current[t] \in Occurrences /\ Found(current[t])
        /\ \A o \in text[t] : Found(o)
        /\ step[t] = "store" => number[t] = base[t] + 1
    /\ \A k \in Kinds \ raced : \A t \in Threads :
        Numbering(t, k) =>
            /\ number[t] # 0 /\ number[t] <= counts[k]
            /\ \A s \in Secrets : tokens[<<k, s>>] # number[t]
            /\ \A u \in Threads : Numbering(u, k) /\ number[u] = number[t] => u = t

MaskerInv == TypeOK /\ TokensFit /\ ThreadsFit
=============================================================================

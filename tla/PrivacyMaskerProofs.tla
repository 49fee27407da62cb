------------------------ MODULE PrivacyMaskerProofs ------------------------
(***************************************************************************)
(* Theorems about PrivacyMasker, for any secrets, threads and texts,       *)
(* however the threads' calls of _token_for overlap.                       *)
(***************************************************************************)
EXTENDS PrivacyMasker, TLAPS

(* What mask_text finds has one of the kinds.                              *)
LEMMA KindOfFound ==
    ASSUME NEW o \in Occurrences, Found(o)
    PROVE  KindOf(o) \in Kinds
  BY MaskerAssumption DEF Occurrences, Found, KindOf, Kinds, PatternKinds

LEMMA MaskerInvInit == Init => MaskerInv
  BY MaskerAssumption DEF Init, MaskerInv, TypeOK, TokensFit, ThreadsFit, InTokenFor, Numbering

(* The key of a thread inside _token_for.                                  *)
LEMMA KeyTypes ==
    ASSUME MaskerInv, NEW t \in Threads, InTokenFor(t)
    PROVE  /\ current[t] \in Occurrences /\ KindOf(current[t]) \in Kinds
           /\ current[t].secret \in Secrets /\ Key(t) \in Kinds \X Secrets
           /\ Key(t) = <<KindOf(current[t]), current[t].secret>>
  BY KindOfFound DEF MaskerInv, ThreadsFit, Occurrences, Key

(* A thread that leaves the dictionaries alone, and does not come to       *)
(* remember a number, disturbs nobody.                                     *)
LEMMA AsideKeeps ==
    ASSUME MaskerInv, TypeOK', NEW t \in Threads, UNCHANGED <<tokens, counts, raced>>,
           \A u \in Threads \ {t} : /\ step'[u] = step[u] /\ text'[u] = text[u]
                                    /\ current'[u] = current[u] /\ number'[u] = number[u]
                                    /\ base'[u] = base[u],
           step'[t] # "remember",
           step'[t] \in {"lookup", "count", "store"}
              => current'[t] \in Occurrences /\ Found(current'[t]),
           \A o \in text'[t] : Found(o),
           step'[t] = "store" => number'[t] = base'[t] + 1,
           \A g \in given' \ given :
              g.kind \notin raced => tokens[<<g.kind, g.secret>>] = g.number /\ g.number # 0
    PROVE  MaskerInv'
  <1>1. TokensFit'
    BY DEF MaskerInv, TokensFit
  <1>2. ASSUME NEW u \in Threads
        PROVE  /\ InTokenFor(u)' => current'[u] \in Occurrences /\ Found(current'[u])
               /\ \A o \in text'[u] : Found(o)
               /\ step'[u] = "store" => number'[u] = base'[u] + 1
    <2>1. CASE u = t
      BY <2>1 DEF InTokenFor
    <2>2. CASE u # t
      BY <2>2 DEF MaskerInv, ThreadsFit, InTokenFor
    <2> QED
      BY <2>1, <2>2
  <1>3. \A u \in Threads, k \in Kinds :
          Numbering(u, k)' => u # t /\ Numbering(u, k) /\ number'[u] = number[u]
    BY DEF Numbering
  <1>4. ASSUME NEW k \in Kinds \ raced, NEW u \in Threads, Numbering(u, k)'
        PROVE  /\ number'[u] # 0 /\ number'[u] <= counts'[k]
               /\ \A s \in Secrets : tokens'[<<k, s>>] # number'[u]
               /\ \A v \in Threads : Numbering(v, k)' /\ number'[v] = number'[u] => v = u
    BY <1>3, <1>4 DEF MaskerInv, ThreadsFit
  <1>5. ThreadsFit'
    <2>1. \A u \in Threads :
            /\ InTokenFor(u)' => current'[u] \in Occurrences /\ Found(current'[u])
            /\ \A o \in text'[u] : Found(o)
            /\ step'[u] = "store" => number'[u] = base'[u] + 1
      BY <1>2
    <2>2. InTokenFor(t)' \in BOOLEAN /\ raced' = raced
      BY DEF InTokenFor
    <2> QED
      BY <1>4, <2>1, <2>2 DEF ThreadsFit
  <1> QED
    BY <1>1, <1>5 DEF MaskerInv

LEMMA OutsideKeeps ==
    ASSUME MaskerInv, NEW t \in Threads,
           Receive(t) \/ NextOccurrence(t) \/ Finish(t)
    PROVE  MaskerInv'
  <1> USE DEF MaskerInv, TypeOK
  <1>1. UNCHANGED <<tokens, counts, given, base, raced>>
    BY DEF Receive, NextOccurrence, Finish, history
  <1>2. CASE Receive(t)
    <2>1. TypeOK'
      BY <1>1, <1>2, MaskerAssumption DEF Receive
    <2>2. /\ \A u \in Threads \ {t} : /\ step'[u] = step[u] /\ text'[u] = text[u]
                                      /\ current'[u] = current[u] /\ number'[u] = number[u]
          /\ step'[t] = "next" /\ \A o \in text'[t] : Found(o)
      BY <1>2 DEF Receive
    <2> QED
      BY <1>1, <2>1, <2>2, AsideKeeps
  <1>3. CASE Finish(t)
    <2>1. TypeOK'
      BY <1>1, <1>3 DEF Finish
    <2>2. /\ \A u \in Threads \ {t} : /\ step'[u] = step[u] /\ text'[u] = text[u]
                                      /\ current'[u] = current[u] /\ number'[u] = number[u]
          /\ step'[t] = "idle" /\ \A o \in text'[t] : Found(o)
      BY <1>3 DEF Finish
    <2> QED
      BY <1>1, <2>1, <2>2, AsideKeeps
  <1>4. CASE NextOccurrence(t)
    <2>1. PICK o \in text[t] :
            /\ current' = [current EXCEPT ![t] = o]
            /\ text' = [text EXCEPT ![t] = @ \ {o}]
      BY <1>4 DEF NextOccurrence
    <2>2. o \in Occurrences /\ Found(o) /\ \A p \in text[t] : Found(p)
      BY DEF ThreadsFit
    <2>3. TypeOK'
      BY <1>1, <1>4, <2>1, <2>2 DEF NextOccurrence
    <2>4. /\ \A u \in Threads \ {t} : /\ step'[u] = step[u] /\ text'[u] = text[u]
                                      /\ current'[u] = current[u] /\ number'[u] = number[u]
          /\ step'[t] = "lookup" /\ current'[t] = o /\ \A p \in text'[t] : Found(p)
      BY <1>4, <2>1, <2>2 DEF NextOccurrence
    <2> QED
      BY <1>1, <2>2, <2>3, <2>4, AsideKeeps
  <1> QED
    BY <1>2, <1>3, <1>4

(* A known secret is given the token it has; an unknown one goes on.       *)
LEMMA LookUpKeeps ==
    ASSUME MaskerInv, NEW t \in Threads, LookUp(t)
    PROVE  MaskerInv'
  <1> USE DEF MaskerInv, TypeOK
  <1>1. InTokenFor(t) /\ UNCHANGED <<tokens, counts, text, current, number, texts, base, raced>>
    BY DEF LookUp, InTokenFor, history
  <1>2. /\ \A u \in Threads \ {t} : step'[u] = step[u]
        /\ step'[t] \in {"next", "count"}
    BY DEF LookUp, Give
  <1>3. \/ given' = given
        \/ /\ tokens[Key(t)] # 0
           /\ given' = given \cup {[secret |-> current[t].secret, kind |-> KindOf(current[t]),
                                    number |-> tokens[Key(t)]]}
    <2>1. CASE tokens[Key(t)] # 0
      BY <2>1 DEF LookUp, Give
    <2>2. CASE tokens[Key(t)] = 0
      BY <2>2 DEF LookUp
    <2> QED
      BY <2>1, <2>2
  <1>4. tokens[Key(t)] \in Nat
    BY <1>1, KeyTypes
  <1>5. TypeOK'
    BY <1>1, <1>2, <1>3, <1>4, KeyTypes DEF LookUp, Give
  <1>6. \A g \in given' \ given : tokens[<<g.kind, g.secret>>] = g.number /\ g.number # 0
    BY <1>1, <1>3, KeyTypes
  <1>7. current[t] \in Occurrences /\ Found(current[t]) /\ \A o \in text[t] : Found(o)
    BY <1>1 DEF ThreadsFit
  <1> QED
    BY <1>1, <1>2, <1>5, <1>6, <1>7, AsideKeeps

LEMMA CountKeeps ==
    ASSUME MaskerInv, NEW t \in Threads, ReadCount(t)
    PROVE  MaskerInv'
  <1> USE DEF MaskerInv, TypeOK
  <1>1. InTokenFor(t) /\ UNCHANGED <<tokens, counts, text, current, texts, given, raced>>
    BY DEF ReadCount, InTokenFor
  <1>2. /\ \A u \in Threads \ {t} : /\ step'[u] = step[u] /\ number'[u] = number[u]
                                    /\ base'[u] = base[u]
        /\ step'[t] = "store" /\ number'[t] = base'[t] + 1
    BY DEF ReadCount
  <1>3. TypeOK'
    BY <1>1, <1>2, KeyTypes DEF ReadCount
  <1>4. current[t] \in Occurrences /\ Found(current[t]) /\ \A o \in text[t] : Found(o)
    BY <1>1 DEF ThreadsFit
  <1> QED
    BY <1>1, <1>2, <1>3, <1>4, AsideKeeps

(* Who writes the counter first writes a number that nobody has; who       *)
(* writes it over another thread's number gives the kind up.               *)
LEMMA StoreKeeps ==
    ASSUME MaskerInv, NEW t \in Threads, StoreCount(t)
    PROVE  MaskerInv'
  <1> USE DEF MaskerInv, TypeOK
  <1> DEFINE c == KindOf(current[t])
  <1>1. InTokenFor(t) /\ UNCHANGED <<tokens, text, current, number, texts, given, base>>
    BY DEF StoreCount, InTokenFor
  <1>2. /\ \A u \in Threads \ {t} : step'[u] = step[u]
        /\ step'[t] = "remember" /\ number[t] = base[t] + 1
    BY DEF StoreCount, ThreadsFit
  <1>3. c \in Kinds /\ counts' = [counts EXCEPT ![c] = number[t]]
    BY <1>1, KeyTypes DEF StoreCount
  <1>4. /\ raced \subseteq raced' /\ raced' \subseteq raced \cup {c}
        /\ c \notin raced' => number[t] = counts[c] + 1
    BY <1>2 DEF StoreCount, NoteRace
  <1>5. TypeOK'
    BY <1>1, <1>3, <1>4 DEF StoreCount
  <1>6. \A k \in Kinds \ raced' :
          k \notin raced /\ counts[k] <= counts'[k] /\ (k = c => counts[k] < counts'[k])
    BY <1>3, <1>4
  <1>7. TokensFit'
    <2>1. \A g \in given : g.kind \notin raced' => g.kind \notin raced
      BY <1>4
    <2>2. \A k \in Kinds \ raced', r \in Secrets : tokens[<<k, r>>] <= counts'[k]
      <3> SUFFICES ASSUME NEW k \in Kinds \ raced', NEW r \in Secrets
                   PROVE  tokens[<<k, r>>] <= counts'[k]
        OBVIOUS
      <3>1. tokens[<<k, r>>] <= counts[k] /\ counts[k] <= counts'[k]
        BY <1>6 DEF TokensFit
      <3>2. tokens[<<k, r>>] \in Nat /\ counts[k] \in Nat /\ counts'[k] \in Nat
        BY <1>5
      <3> QED
        BY <3>1, <3>2
    <2> QED
      BY <1>1, <1>6, <2>1, <2>2 DEF TokensFit
  <1>8. ASSUME NEW k \in Kinds \ raced', NEW u \in Threads, Numbering(u, k)'
        PROVE  /\ number[u] # 0 /\ number[u] <= counts'[k]
               /\ \A s \in Secrets : tokens[<<k, s>>] # number[u]
               /\ u # t => k \notin raced /\ Numbering(u, k) /\ number[u] <= counts[k]
               /\ u = t => k = c /\ number[u] = counts[c] + 1
    <2>1. k \notin raced /\ counts[k] \in Nat /\ counts'[k] \in Nat /\ number[u] \in Nat
      BY <1>5, <1>6
    <2>2. CASE u = t
      <3>1. k = c
        BY <1>1, <1>8, <2>2 DEF Numbering
      <3>2. number[t] = counts[c] + 1 /\ counts'[k] = number[t]
        BY <1>3, <1>4, <3>1
      <3>3. \A s \in Secrets : tokens[<<k, s>>] \in Nat /\ tokens[<<k, s>>] <= counts[k]
        BY <2>1 DEF TokensFit
      <3> QED
        BY <2>1, <2>2, <3>1, <3>2, <3>3
    <2>3. CASE u # t
      <3>1. Numbering(u, k)
        BY <1>1, <1>2, <1>8, <2>3 DEF Numbering
      <3>2. /\ number[u] # 0 /\ number[u] <= counts[k]
            /\ \A s \in Secrets : tokens[<<k, s>>] # number[u]
        BY <2>1, <3>1 DEF ThreadsFit
      <3>3. counts[k] <= counts'[k]
        BY <1>6
      <3> QED
        BY <2>1, <2>3, <3>1, <3>2, <3>3
    <2> QED
      BY <2>2, <2>3
  <1>9. ASSUME NEW k \in Kinds \ raced', NEW u \in Threads, NEW v \in Threads,
               Numbering(u, k)', Numbering(v, k)', number[u] = number[v]
        PROVE  u = v
    <2>1. CASE u # t /\ v # t
      BY <1>8, <1>9, <2>1 DEF ThreadsFit
    <2>2. counts[k] \in Nat /\ number[u] \in Nat /\ number[v] \in Nat
      OBVIOUS
    <2>3. CASE u = t /\ v # t
      BY <1>8, <1>9, <2>2, <2>3
    <2>4. CASE u # t /\ v = t
      BY <1>8, <1>9, <2>2, <2>4
    <2> QED
      BY <2>1, <2>3, <2>4
  <1>10. \A u \in Threads :
            /\ InTokenFor(u)' => current[u] \in Occurrences /\ Found(current[u])
            /\ \A o \in text[u] : Found(o)
            /\ step'[u] = "store" => number[u] = base[u] + 1
    BY <1>1, <1>2 DEF ThreadsFit, InTokenFor
  <1>11. ThreadsFit'
    BY <1>1, <1>8, <1>9, <1>10 DEF ThreadsFit
  <1> QED
    BY <1>5, <1>7, <1>11

(* A number is remembered for the one secret it was taken for, unless      *)
(* another thread has numbered the secret meanwhile.                       *)
LEMMA RememberKeeps ==
    ASSUME MaskerInv, NEW t \in Threads, RememberToken(t)
    PROVE  MaskerInv'
  <1> USE DEF MaskerInv, TypeOK
  <1> DEFINE c == KindOf(current[t])
             r == current[t].secret
  <1>1. InTokenFor(t) /\ UNCHANGED <<counts, text, current, number, texts, base>>
    BY DEF RememberToken, InTokenFor
  <1>2. /\ \A u \in Threads \ {t} : step'[u] = step[u]
        /\ step'[t] = "next"
    BY DEF RememberToken, Give
  <1>3. /\ c \in Kinds /\ r \in Secrets /\ number[t] \in Nat
        /\ tokens' = [tokens EXCEPT ![<<c, r>>] = number[t]]
    BY <1>1, KeyTypes DEF RememberToken
  <1>4. /\ raced \subseteq raced' /\ raced' \subseteq raced \cup {c}
        /\ c \notin raced' => c \notin raced /\ tokens[<<c, r>>] = 0
    BY <1>1, KeyTypes DEF RememberToken, NoteRace
  <1>5. c \notin raced' => /\ number[t] # 0 /\ number[t] <= counts[c]
                           /\ \A s \in Secrets : tokens[<<c, s>>] # number[t]
                           /\ \A u \in Threads :
                                Numbering(u, c) /\ number[u] = number[t] => u = t
    BY <1>3, <1>4 DEF ThreadsFit, RememberToken, Numbering
  <1>6. given' = given \cup {[secret |-> r, kind |-> c, number |-> number[t]]}
    BY DEF RememberToken, Give
  <1>7. TypeOK'
    <2>1. tokens' \in [Kinds \X Secrets -> Nat]
      BY <1>3
    <2>2. step' \in [Threads -> {"idle", "next", "lookup", "count", "store", "remember"}]
      BY DEF RememberToken, Give
    <2>3. given' \subseteq [secret : Secrets, kind : Kinds, number : Nat]
      BY <1>3, <1>6
    <2>4. raced' \subseteq Kinds
      BY <1>3, <1>4
    <2> QED
      BY <1>1, <2>1, <2>2, <2>3, <2>4
  <1>8. \A j \in Kinds, s \in Secrets :
          tokens'[<<j, s>>] = IF j = c /\ s = r THEN number[t] ELSE tokens[<<j, s>>]
    BY <1>3
  <1>9. TokensFit'
    <2>1. ASSUME NEW g \in given', g.kind \notin raced'
          PROVE  tokens'[<<g.kind, g.secret>>] = g.number /\ g.number # 0
      <3>1. CASE g \in given
        <4>1. g.kind \in Kinds /\ g.secret \in Secrets /\ g.kind \notin raced
          BY <1>4, <2>1, <3>1
        <4>2. tokens[<<g.kind, g.secret>>] = g.number /\ g.number # 0
          BY <3>1, <4>1 DEF TokensFit
        <4>3. ~(g.kind = c /\ g.secret = r)
          BY <1>4, <2>1, <4>2
        <4> QED
          BY <1>8, <4>1, <4>2, <4>3
      <3>2. CASE g = [secret |-> r, kind |-> c, number |-> number[t]]
        BY <1>3, <1>5, <1>8, <2>1, <3>2
      <3> QED
        BY <1>6, <3>1, <3>2
    <2>2. ASSUME NEW k \in Kinds \ raced', NEW s \in Secrets
          PROVE  tokens'[<<k, s>>] <= counts[k]
      <3>1. tokens[<<k, s>>] <= counts[k]
        BY <1>4, <2>2 DEF TokensFit
      <3> QED
        BY <1>5, <1>8, <2>2, <3>1
    <2>3. ASSUME NEW k \in Kinds \ raced', NEW p \in Secrets, NEW s \in Secrets,
                 tokens'[<<k, p>>] = tokens'[<<k, s>>], tokens'[<<k, p>>] # 0
          PROVE  p = s
      <3>1. tokens[<<k, p>>] = tokens[<<k, s>>] /\ tokens[<<k, p>>] # 0 => p = s
        BY <1>4, <2>3 DEF TokensFit
      <3> QED
        BY <1>5, <1>8, <2>3, <3>1
    <2> QED
      BY <1>1, <2>1, <2>2, <2>3 DEF TokensFit
  <1>10. ASSUME NEW k \in Kinds \ raced', NEW u \in Threads, Numbering(u, k)'
         PROVE  /\ number[u] # 0 /\ number[u] <= counts[k]
                /\ \A s \in Secrets : tokens'[<<k, s>>] # number[u]
                /\ u # t /\ Numbering(u, k) /\ k \notin raced
    <2>1. u # t /\ Numbering(u, k) /\ k \notin raced
      BY <1>1, <1>2, <1>4, <1>10 DEF Numbering
    <2>2. /\ number[u] # 0 /\ number[u] <= counts[k]
          /\ \A s \in Secrets : tokens[<<k, s>>] # number[u]
      BY <2>1 DEF ThreadsFit
    <2>3. k = c => number[t] # number[u]
      BY <1>5, <1>10, <2>1
    <2> QED
      BY <1>8, <2>1, <2>2, <2>3
  <1>11. \A u \in Threads :
            /\ InTokenFor(u)' => current[u] \in Occurrences /\ Found(current[u])
            /\ \A o \in text[u] : Found(o)
            /\ step'[u] = "store" => number[u] = base[u] + 1
    BY <1>1, <1>2 DEF ThreadsFit, InTokenFor
  <1>12. ASSUME NEW k \in Kinds \ raced', NEW u \in Threads, NEW v \in Threads,
                Numbering(u, k)', Numbering(v, k)', number[u] = number[v]
         PROVE  u = v
    BY <1>10, <1>12 DEF ThreadsFit
  <1>13. ThreadsFit'
    BY <1>1, <1>10, <1>11, <1>12 DEF ThreadsFit
  <1> QED
    BY <1>7, <1>9, <1>13

(* Every token given is remembered, no two secrets of a kind share a       *)
(* number, and no two threads hold one -- of every kind but those in which *)
(* one thread wrote over another's number (_token_for).                    *)
THEOREM MaskerCorrect == Spec => []MaskerInv
  <1>1. MaskerInv /\ [Next]_vars => MaskerInv'
    <2> SUFFICES ASSUME MaskerInv, [Next]_vars PROVE MaskerInv'
      OBVIOUS
    <2>1. CASE UNCHANGED vars
      BY <2>1 DEF vars, history, MaskerInv, TypeOK, TokensFit, ThreadsFit, InTokenFor, Numbering
    <2> QED
      BY <2>1, OutsideKeeps, LookUpKeeps, CountKeeps, StoreKeeps, RememberKeeps DEF Next
  <1> QED
    BY <1>1, MaskerInvInit, PTL DEF Spec

(* Different raw secrets map to different tokens, within a kind whose      *)
(* counter lost no update.                                                 *)
THEOREM TokensIdentify == Spec => []DifferentSecretsDifferentTokens
  <1>1. MaskerInv => DifferentSecretsDifferentTokens
    <2> SUFFICES ASSUME MaskerInv, NEW g \in given, NEW h \in given,
                        g.kind = h.kind, g.kind \notin raced, g.number = h.number
                 PROVE  g.secret = h.secret
      BY DEF DifferentSecretsDifferentTokens
    <2>1. /\ g.kind \in Kinds /\ g.secret \in Secrets /\ h.secret \in Secrets
          /\ tokens[<<g.kind, g.secret>>] = g.number /\ g.number # 0
          /\ tokens[<<g.kind, h.secret>>] = g.number
      BY DEF MaskerInv, TypeOK, TokensFit
    <2> QED
      BY <2>1 DEF MaskerInv, TokensFit
  <1> QED
    BY <1>1, MaskerCorrect, PTL

(* A secret found again as the same kind gets the same token again, within *)
(* a kind in which no thread wrote over another's token.                   *)
THEOREM TokensAreStable == Spec => []SameKindSameToken
  <1>1. MaskerInv => SameKindSameToken
    BY DEF MaskerInv, TokensFit, SameKindSameToken
  <1> QED
    BY <1>1, MaskerCorrect, PTL

-----------------------------------------------------------------------------
(* The numbers of a kind that are in texts, and those on their way there.  *)
Used(k) == {g.number : g \in {h \in given : h.kind = k}}
Pending(k) == {number[t] : t \in {u \in Threads :
                  step[u] = "remember" /\ KindOf(current[u]) = k}}

(* What is remembered has been given, too.                                 *)
RememberedIsGiven ==
    \A k \in Kinds, s \in Secrets :
        tokens[<<k, s>>] # 0 =>
            [secret |-> s, kind |-> k, number |-> tokens[<<k, s>>]] \in given

NumberedInv == RememberedIsGiven /\ TokensAreNumbered

LEMMA NumberedInit == Init => NumberedInv
  <1> SUFFICES ASSUME Init PROVE NumberedInv
    OBVIOUS
  <1>1. RememberedIsGiven
    BY DEF Init, RememberedIsGiven
  <1>2. \A k \in Kinds : Used(k) \cup Pending(k) = {} /\ 1 .. counts[k] = {}
    BY DEF Init, Used, Pending
  <1> QED
    BY <1>1, <1>2 DEF NumberedInv, TokensAreNumbered, Used, Pending

(* Steps outside _token_for, and those that only read, disturb nothing.    *)
LEMMA ReadingKeepsNumbered ==
    ASSUME MaskerInv, NumberedInv, NEW t \in Threads,
           Receive(t) \/ NextOccurrence(t) \/ Finish(t) \/ LookUp(t) \/ ReadCount(t)
    PROVE  NumberedInv'
  <1> USE DEF MaskerInv, TypeOK
  <1>1. /\ UNCHANGED <<tokens, counts, raced>>
        /\ step[t] # "remember" /\ step'[t] # "remember"
        /\ \A u \in Threads \ {t} : /\ step'[u] = step[u] /\ current'[u] = current[u]
                                    /\ number'[u] = number[u]
    BY DEF Receive, NextOccurrence, Finish, LookUp, ReadCount, Give, history
  <1>2. \A k \in Kinds : Pending(k)' = Pending(k)
    BY <1>1 DEF Pending
  <1>3. /\ given \subseteq given'
        /\ \A g \in given' \ given :
              /\ g.kind \in Kinds /\ g.secret \in Secrets
              /\ g.number = tokens[<<g.kind, g.secret>>] /\ g.number # 0
    <2>1. CASE LookUp(t)
      <3> DEFINE new == [secret |-> current[t].secret, kind |-> KindOf(current[t]),
                         number |-> tokens[Key(t)]]
      <3>1. InTokenFor(t)
        BY <2>1 DEF LookUp, InTokenFor
      <3>2. given' = given \/ (tokens[Key(t)] # 0 /\ given' = given \cup {new})
        BY <2>1 DEF LookUp, Give
      <3>3. new.kind \in Kinds /\ new.secret \in Secrets
        BY <3>1, KeyTypes
      <3>4. new.number = tokens[<<new.kind, new.secret>>]
        BY DEF Key
      <3> HIDE DEF new
      <3>5. new.number # 0 \/ given' = given
        BY <3>2 DEF new
      <3> QED
        BY <3>2, <3>3, <3>4, <3>5
    <2>2. CASE ~LookUp(t)
      <3>1. given' = given
        BY <2>2 DEF Receive, NextOccurrence, Finish, ReadCount
      <3> QED
        BY <3>1
    <2> QED
      BY <2>1, <2>2
  <1>4. given' = given
    <2> SUFFICES ASSUME NEW g \in given' \ given PROVE FALSE
      BY <1>3
    <2>1. [secret |-> g.secret, kind |-> g.kind, number |-> g.number] \in given
      BY <1>3 DEF NumberedInv, RememberedIsGiven
    <2>2. g \in [secret : Secrets, kind : Kinds, number : Nat]
      <3>1. CASE LookUp(t)
        <4>1. InTokenFor(t)
          BY <3>1 DEF LookUp, InTokenFor
        <4>2. tokens[Key(t)] \in Nat
          BY <4>1, KeyTypes
        <4> QED
          BY <3>1, <4>1, <4>2, KeyTypes DEF LookUp, Give
      <3>2. CASE ~LookUp(t)
        BY <3>2 DEF Receive, NextOccurrence, Finish, ReadCount
      <3> QED
        BY <3>1, <3>2
    <2> QED
      BY <2>1, <2>2
  <1>5. RememberedIsGiven'
    BY <1>1, <1>4 DEF NumberedInv, RememberedIsGiven
  <1>6. \A k \in Kinds : Used(k)' = Used(k)
    BY <1>4 DEF Used
  <1> QED
    BY <1>1, <1>2, <1>5, <1>6 DEF NumberedInv, TokensAreNumbered, Used, Pending

LEMMA StoreKeepsNumbered ==
    ASSUME MaskerInv, NumberedInv, NEW t \in Threads, StoreCount(t)
    PROVE  NumberedInv'
  <1> USE DEF MaskerInv, TypeOK
  <1> DEFINE c == KindOf(current[t])
  <1>1. /\ InTokenFor(t) /\ UNCHANGED <<tokens, text, current, number, texts, given>>
        /\ step' = [step EXCEPT ![t] = "remember"]
    BY DEF StoreCount, InTokenFor
  <1>2. /\ \A u \in Threads \ {t} : step'[u] = step[u]
        /\ step'[t] = "remember" /\ step[t] = "store" /\ number[t] = base[t] + 1
    BY <1>1 DEF StoreCount, ThreadsFit
  <1>3. /\ c \in Kinds /\ counts[c] \in Nat
        /\ \A k \in Kinds : counts'[k] = IF k = c THEN number[t] ELSE counts[k]
    BY <1>1, KeyTypes DEF StoreCount
  <1>4. /\ \A k \in Kinds \ raced' : k \notin raced
        /\ c \notin raced' => number[t] = counts[c] + 1
    BY <1>2 DEF StoreCount, NoteRace
  <1>5. \A k \in Kinds : Pending(k)' = IF k = c THEN Pending(k) \cup {number[t]} ELSE Pending(k)
    <2> SUFFICES ASSUME NEW k \in Kinds
                 PROVE  Pending(k)' = IF k = c THEN Pending(k) \cup {number[t]} ELSE Pending(k)
      OBVIOUS
    <2>1. {u \in Threads : step'[u] = "remember" /\ KindOf(current[u]) = k} =
             {u \in Threads : step[u] = "remember" /\ KindOf(current[u]) = k}
                \cup (IF k = c THEN {t} ELSE {})
      BY <1>2
    <2> QED
      BY <1>1, <2>1 DEF Pending
  <1>6. \A k \in Kinds \ raced' :
          Used(k)' = Used(k) /\ Used(k) \cup Pending(k) = 1 .. counts[k]
    BY <1>1, <1>4 DEF NumberedInv, TokensAreNumbered, Used, Pending
  <1>7. \A k \in Kinds \ raced' : Used(k)' \cup Pending(k)' = 1 .. counts'[k]
    <2> SUFFICES ASSUME NEW k \in Kinds \ raced'
                 PROVE  Used(k)' \cup Pending(k)' = 1 .. counts'[k]
      OBVIOUS
    <2>1. CASE k = c
      <3>1. (1 .. counts[c]) \cup {counts[c] + 1} = 1 .. counts[c] + 1
        BY <1>3
      <3>2. number[t] = counts[c] + 1 /\ counts'[k] = counts[c] + 1
        BY <1>3, <1>4, <2>1
      <3>3. Used(k)' \cup Pending(k)' = (Used(k) \cup Pending(k)) \cup {counts[c] + 1}
        BY <1>5, <1>6, <2>1, <3>2
      <3> QED
        BY <1>6, <2>1, <3>1, <3>2, <3>3
    <2>2. CASE k # c
      BY <1>3, <1>5, <1>6, <2>2
    <2> QED
      BY <2>1, <2>2
  <1>8. RememberedIsGiven'
    BY <1>1 DEF NumberedInv, RememberedIsGiven
  <1> QED
    BY <1>7, <1>8 DEF NumberedInv, TokensAreNumbered, Used, Pending

LEMMA RememberKeepsNumbered ==
    ASSUME MaskerInv, NumberedInv, NEW t \in Threads, RememberToken(t)
    PROVE  NumberedInv'
  <1> USE DEF MaskerInv, TypeOK
  <1> DEFINE c == KindOf(current[t])
             r == current[t].secret
             new == [secret |-> r, kind |-> c, number |-> number[t]]
  <1>1. InTokenFor(t) /\ UNCHANGED <<counts, text, current, number, texts>>
    BY DEF RememberToken, InTokenFor
  <1>2. /\ \A u \in Threads \ {t} : step'[u] = step[u]
        /\ step'[t] = "next" /\ step[t] = "remember"
    BY <1>1 DEF RememberToken, Give
  <1>3. /\ c \in Kinds /\ r \in Secrets
        /\ tokens' = [tokens EXCEPT ![<<c, r>>] = number[t]]
        /\ given' = given \cup {new}
    BY <1>1, KeyTypes DEF RememberToken, Give
  <1>4. \A k \in Kinds \ raced' : k \notin raced
    BY DEF RememberToken, NoteRace
  <1>5. \A k \in Kinds :
          Pending(k) = IF k = c THEN Pending(k)' \cup {number[t]} ELSE Pending(k)'
    <2> SUFFICES ASSUME NEW k \in Kinds
                 PROVE  Pending(k) = IF k = c THEN Pending(k)' \cup {number[t]} ELSE Pending(k)'
      OBVIOUS
    <2>1. {u \in Threads : step[u] = "remember" /\ KindOf(current[u]) = k} =
             {u \in Threads : step'[u] = "remember" /\ KindOf(current[u]) = k}
                \cup (IF k = c THEN {t} ELSE {})
      BY <1>2
    <2> QED
      BY <1>1, <2>1 DEF Pending
  <1>6. \A k \in Kinds : Used(k)' = IF k = c THEN Used(k) \cup {number[t]} ELSE Used(k)
    <2> SUFFICES ASSUME NEW k \in Kinds
                 PROVE  Used(k)' = IF k = c THEN Used(k) \cup {number[t]} ELSE Used(k)
      OBVIOUS
    <2>1. new.kind = c /\ new.number = number[t]
      OBVIOUS
    <2> HIDE DEF new
    <2> QED
      BY <1>3, <2>1 DEF Used
  <1>7. \A k \in Kinds \ raced' : Used(k)' \cup Pending(k)' = 1 .. counts'[k]
    <2> SUFFICES ASSUME NEW k \in Kinds \ raced'
                 PROVE  Used(k)' \cup Pending(k)' = 1 .. counts'[k]
      OBVIOUS
    <2>1. Used(k) \cup Pending(k) = 1 .. counts'[k]
      BY <1>1, <1>4 DEF NumberedInv, TokensAreNumbered, Used, Pending
    <2>2. Used(k)' \cup Pending(k)' = Used(k) \cup Pending(k)
      BY <1>5, <1>6
    <2> QED
      BY <2>1, <2>2
  <1>8. RememberedIsGiven'
    <2> SUFFICES ASSUME NEW k \in Kinds, NEW s \in Secrets, tokens'[<<k, s>>] # 0
                 PROVE  [secret |-> s, kind |-> k, number |-> tokens'[<<k, s>>]] \in given'
      BY DEF RememberedIsGiven
    <2>1. tokens'[<<k, s>>] = IF k = c /\ s = r THEN number[t] ELSE tokens[<<k, s>>]
      BY <1>3
    <2> QED
      BY <1>3, <2>1 DEF NumberedInv, RememberedIsGiven
  <1> QED
    BY <1>7, <1>8 DEF NumberedInv, TokensAreNumbered, Used, Pending

(* The tokens of a kind are numbered without a gap while its counter loses *)
(* no update.                                                              *)
THEOREM NumbersHaveNoGap == Spec => []TokensAreNumbered
  <1>1. MaskerInv /\ NumberedInv /\ [Next]_vars => NumberedInv'
    <2> SUFFICES ASSUME MaskerInv, NumberedInv, [Next]_vars PROVE NumberedInv'
      OBVIOUS
    <2>1. CASE UNCHANGED vars
      BY <2>1 DEF vars, history, NumberedInv, RememberedIsGiven, TokensAreNumbered
    <2> QED
      BY <2>1, ReadingKeepsNumbered, StoreKeepsNumbered, RememberKeepsNumbered DEF Next
  <1>2. NumberedInv => TokensAreNumbered
    BY DEF NumberedInv
  <1> QED
    BY <1>1, <1>2, NumberedInit, MaskerCorrect, PTL DEF Spec
=============================================================================

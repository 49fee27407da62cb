------------------------ MODULE BehaviorTrackerProofs ------------------------
(***************************************************************************)
(* Theorems about BehaviorTracker, for any sessions, threads, window and   *)
(* limits: types, and that the counts of a session heal.                   *)
(*                                                                         *)
(* Why they heal.  A session's list and the history of all its calls end   *)
(* in the same records, in the order of their times; whatever stands       *)
(* before is older than the last overlap or than the window (Tidy).  One   *)
(* call alone keeps this so: what its comprehension drops was older than   *)
(* the window, and so was all that stood before it.  Two calls at once may *)
(* break it, but only among records up to the time of their last step,     *)
(* which is the session's last overlap (Stale).  A call that reads the     *)
(* clock later than that is alone from there on.                           *)
(***************************************************************************)
EXTENDS BehaviorTracker, FiniteSetTheorems, TLAPS

Active(s) == {t \in Threads : call[t] # NoCall /\ call[t].session = s}

(* t has read the clock, and later than the last overlap in its session.   *)
Past(t)  == step[t] \notin {"idle", "clock"}
Clean(t) == Past(t) /\ blurred[call[t].session] < at[t]

(* A record is older than the overlap at b or than the window before ref.  *)
Old(r, b, ref) == r.time <= b \/ r.time < ref - Window

(* From d on and from c on the list L of length m and R are the same ...   *)
Agree(L, m, R, b, ref, d, c) ==
    /\ m - d = Len(R) - c
    /\ \A i \in 1 .. m - d : L[d + i] = R[c + i]
    /\ \A i \in 1 .. d : Old(L[i], b, ref)
    /\ \A i \in 1 .. c : Old(R[i], b, ref)
    /\ \A i, j \in d + 1 .. m : i <= j => L[i].time <= L[j].time

(* ... and nothing in them is from after ref.                              *)
Tidy(L, m, R, b, ref) ==
    /\ \A i \in 1 .. m : L[i].time <= ref
    /\ \A i \in 1 .. Len(R) : R[i].time <= ref
    /\ \E d \in 0 .. m : \E c \in 0 .. Len(R) : Agree(L, m, R, b, ref, d, c)

(* Everything in the session is from before the last overlap.              *)
UpTo(L, b) == \A i \in 1 .. Len(L) : L[i].time <= b

Stale(s) ==
    /\ UpTo(events[s], blurred[s]) /\ UpTo(recorded[s], blurred[s])
    /\ \A t \in Active(s) :
          Past(t) => at[t] <= blurred[s] /\ UpTo(kept[t], blurred[s])

(* What the list will be if the comprehension keeps all it has not seen.   *)
Length(t)  == Len(kept[t]) + Len(List(t)) + 1 - pos[t]
Outlook(t) ==
    [i \in 1 .. Length(t) |->
        IF i <= Len(kept[t]) THEN kept[t][i] ELSE List(t)[i - Len(kept[t]) + pos[t] - 1]]

TidyFor(t, L, m) ==
    Tidy(L, m, recorded[call[t].session], blurred[call[t].session], at[t])

Of(t, tool, n) == {i \in 1 .. n : List(t)[i].tool = tool}

InWindowAll(L, time) == \A i \in 1 .. Len(L) : L[i].time >= time - Window

(* A clean call, by the step it is at.                                     *)
Working(t) ==
    /\ InWindowAll(kept[t], at[t])
    /\ step[t] = "filter" =>
          pos[t] <= Len(List(t)) + 1 /\ TidyFor(t, Outlook(t), Length(t))
    /\ step[t] = "write" => TidyFor(t, kept[t], Len(kept[t]))
    /\ step[t] \in {"append", "count_reads", "count_runs", "scored"} =>
          InWindowAll(List(t), at[t]) /\ TidyFor(t, List(t), Len(List(t)))
    /\ step[t] \in {"count_reads", "count_runs"} => pos[t] <= Len(List(t)) + 1
    /\ step[t] = "count_reads" =>
          counts[t] = [reads |-> Cardinality(Of(t, "read_file", pos[t] - 1)), runs |-> 0]
    /\ step[t] = "count_runs" =>
          counts[t] = [reads |-> Cardinality(Of(t, "read_file", Len(List(t)))),
                       runs  |-> Cardinality(Of(t, "run_command", pos[t] - 1))]
    /\ step[t] = "scored" =>
          counts[t] = [reads |-> Cardinality(Of(t, "read_file", Len(List(t)))),
                       runs  |-> Cardinality(Of(t, "run_command", Len(List(t))))]

Overlapped(s) ==
    \/ \E t, u \in Active(s) : t # u
    \/ \E t \in Active(s) : Past(t) /\ at[t] <= blurred[s]

SessionInv(s) ==
    /\ Overlapped(s) => Stale(s)
    /\ \A t \in Active(s) : Clean(t) => Working(t)
    /\ (\A t \in Active(s) : ~Past(t)) =>
          Tidy(events[s], Len(events[s]), recorded[s], blurred[s], now)

(* Nothing is from the future, and locals are empty while not in use.      *)
TimesInv ==
    /\ \A s \in Sessions :
          UpTo(events[s], now) /\ UpTo(recorded[s], now) /\ blurred[s] <= now
    /\ \A t \in Threads : at[t] <= now /\ UpTo(kept[t], now)

LocalsInv ==
    \A t \in Threads :
        /\ step[t] \notin {"filter", "write"} => kept[t] = <<>>
        /\ step[t] \notin {"count_reads", "count_runs", "scored"} => counts[t] = NoCounts

TrackerInv == TypeOK /\ TimesInv /\ LocalsInv /\ \A s \in Sessions : SessionInv(s)

-----------------------------------------------------------------------------
(* Lists that end in the same records *)

LEMMA RecordTimes ==
    ASSUME NEW r \in Records
    PROVE  r.time \in Int /\ r.time \in 0 .. MaxTime /\ r.tool \in Tools /\ r.again \in BOOLEAN
  BY TrackerAssumption DEF Records

LEMMA ConstantTypes ==
    /\ Window \in Nat /\ MaxTime \in Nat /\ ReadLimit \in Nat /\ RunLimit \in Nat
    /\ MaxCalls \in Nat /\ Main \notin ApiThreads
  BY TrackerAssumption

(* What is old stays so as time goes on.                                   *)
LEMMA TidyLater ==
    ASSUME NEW m \in Nat, NEW L, NEW R \in Seq(Records), \A i \in 1 .. m : L[i] \in Records,
           NEW b \in Int, NEW ref \in Int, NEW later \in Int, ref <= later,
           Tidy(L, m, R, b, ref)
    PROVE  Tidy(L, m, R, b, later)
<1>1. PICK d \in 0 .. m, c \in 0 .. Len(R) : Agree(L, m, R, b, ref, d, c)
  BY DEF Tidy
<1>2. \A r \in Records : Old(r, b, ref) => Old(r, b, later)
  BY RecordTimes, ConstantTypes DEF Old
<1>3. \A i \in 1 .. Len(R) : R[i] \in Records
  OBVIOUS
<1>4. Agree(L, m, R, b, later, d, c)
  BY <1>1, <1>2, <1>3 DEF Agree
<1>5. \A r \in Records : r.time <= ref => r.time <= later
  BY RecordTimes
<1> QED
  BY <1>3, <1>4, <1>5 DEF Tidy

(* Lists from before the overlap need not agree.                           *)
LEMMA TidyStale ==
    ASSUME NEW L \in Seq(Records), NEW R \in Seq(Records), NEW b \in Int, NEW ref \in Int,
           UpTo(L, b), UpTo(R, b), UpTo(L, ref), UpTo(R, ref)
    PROVE  Tidy(L, Len(L), R, b, ref)
<1>1. Agree(L, Len(L), R, b, ref, Len(L), Len(R))
  BY DEF Agree, UpTo, Old
<1> QED
  BY <1>1 DEF Tidy, UpTo

LEMMA TidySame ==
    ASSUME NEW m \in Nat, NEW L, NEW K, \A i \in 1 .. m : K[i] = L[i],
           NEW R \in Seq(Records), NEW b \in Int, NEW ref \in Int, Tidy(L, m, R, b, ref)
    PROVE  Tidy(K, m, R, b, ref)
<1>1. PICK d \in 0 .. m, c \in 0 .. Len(R) : Agree(L, m, R, b, ref, d, c)
  BY DEF Tidy
<1>2. \A i \in 1 .. m - d : d + i \in 1 .. m
  OBVIOUS
<1>3. \A i \in 1 .. m - d : K[d + i] = R[c + i]
  BY <1>1, <1>2 DEF Agree
<1>4. Agree(K, m, R, b, ref, d, c)
  BY <1>1, <1>3 DEF Agree
<1> QED
  BY <1>4 DEF Tidy

(* A record that is too old is left out: all that stood before it, in the  *)
(* common end as well, was too old by then.                                *)
LEMMA TidyDrop ==
    ASSUME NEW m \in Nat, NEW L, NEW R \in Seq(Records), \A i \in 1 .. m : L[i] \in Records,
           NEW b \in Int, NEW ref \in Int, Tidy(L, m, R, b, ref),
           NEW k \in 1 .. m, L[k].time < ref - Window,
           NEW K, \A i \in 1 .. k - 1 : K[i] = L[i], \A i \in k .. m - 1 : K[i] = L[i + 1]
    PROVE  Tidy(K, m - 1, R, b, ref)
<1>1. PICK d \in 0 .. m, c \in 0 .. Len(R) : Agree(L, m, R, b, ref, d, c)
  BY DEF Tidy
<1>2. /\ \A i \in 1 .. m - 1 : K[i].time <= ref
      /\ \A i \in 1 .. Len(R) : R[i].time <= ref
  <2>1. \A i \in 1 .. m - 1 : K[i] = L[i] \/ K[i] = L[i + 1]
    OBVIOUS
  <2> QED
    BY <2>1 DEF Tidy
<1>3. CASE k <= d
  <2>1. d - 1 \in 0 .. m - 1 /\ (m - 1) - (d - 1) = Len(R) - c
    BY <1>1, <1>3 DEF Agree
  <2>2. \A i \in 1 .. (m - 1) - (d - 1) : K[(d - 1) + i] = R[c + i]
    <3> SUFFICES ASSUME NEW i \in 1 .. (m - 1) - (d - 1)
                 PROVE  K[(d - 1) + i] = R[c + i]
      OBVIOUS
    <3>1. K[(d - 1) + i] = L[d + i]
      <4>1. (d - 1) + i \in k .. m - 1 /\ ((d - 1) + i) + 1 = d + i
        BY <1>3
      <4> QED
        BY <4>1
    <3> QED
      BY <1>1, <3>1 DEF Agree
  <2>3. \A i \in 1 .. d - 1 : Old(K[i], b, ref)
    <3> SUFFICES ASSUME NEW i \in 1 .. d - 1
                 PROVE  Old(K[i], b, ref)
      OBVIOUS
    <3>1. \E j \in 1 .. d : K[i] = L[j]
      <4>1. CASE i < k
        BY <4>1
      <4>2. CASE i >= k
        BY <4>2, i + 1 \in 1 .. d
      <4> QED
        BY <4>1, <4>2
    <3> QED
      BY <1>1, <3>1 DEF Agree
  <2>4. \A i, j \in (d - 1) + 1 .. m - 1 : i <= j => K[i].time <= K[j].time
    <3> SUFFICES ASSUME NEW i \in d .. m - 1, NEW j \in d .. m - 1, i <= j
                 PROVE  K[i].time <= K[j].time
      BY <2>1
    <3>0. i \in k .. m - 1 /\ j \in k .. m - 1
      BY <1>1, <1>3
    <3>1. K[i] = L[i + 1] /\ K[j] = L[j + 1]
      BY <2>1, <3>0
    <3>2. i + 1 \in d + 1 .. m /\ j + 1 \in d + 1 .. m /\ i + 1 <= j + 1
      OBVIOUS
    <3> QED
      BY <1>1, <3>1, <3>2 DEF Agree
  <2>5. Agree(K, m - 1, R, b, ref, d - 1, c)
    BY <1>1, <2>1, <2>2, <2>3, <2>4 DEF Agree
  <2> QED
    BY <1>2, <2>1, <2>5 DEF Tidy
<1>4. CASE k > d
  <2> DEFINE e == c + (k - d)
  <2>1. k - 1 \in 0 .. m - 1 /\ e \in 0 .. Len(R) /\ (m - 1) - (k - 1) = Len(R) - e
    <3>1. m - d = Len(R) - c
      BY <1>1 DEF Agree
    <3>2. Len(R) \in Nat
      OBVIOUS
    <3> QED
      BY <1>4, <3>1, <3>2
  <2>2. \A i \in 1 .. (m - 1) - (k - 1) : K[(k - 1) + i] = R[e + i]
    <3> SUFFICES ASSUME NEW i \in 1 .. (m - 1) - (k - 1)
                 PROVE  K[(k - 1) + i] = R[e + i]
      OBVIOUS
    <3>1. K[(k - 1) + i] = L[k + i]
      <4>1. (k - 1) + i \in k .. m - 1 /\ ((k - 1) + i) + 1 = k + i
        OBVIOUS
      <4> QED
        BY <4>1
    <3>2. (k - d) + i \in 1 .. m - d /\ d + ((k - d) + i) = k + i /\ c + ((k - d) + i) = e + i
      BY <1>4
    <3>3. L[d + ((k - d) + i)] = R[c + ((k - d) + i)]
      BY <1>1, <3>2 DEF Agree
    <3> QED
      BY <3>1, <3>2, <3>3
  <2>3. \A i \in d + 1 .. k : L[i].time < ref - Window
    <3> SUFFICES ASSUME NEW i \in d + 1 .. k
                 PROVE  L[i].time < ref - Window
      OBVIOUS
    <3>1. L[i].time <= L[k].time
      BY <1>1, <1>4 DEF Agree
    <3>2. L[i].time \in Int /\ L[k].time \in Int
      BY RecordTimes
    <3> QED
      BY <3>1, <3>2, ConstantTypes
  <2>4. \A i \in 1 .. k : Old(L[i], b, ref)
    BY <1>1, <2>3 DEF Agree, Old
  <2>5. \A i \in 1 .. k - 1 : Old(K[i], b, ref)
    BY <2>4
  <2>6. \A i \in 1 .. e : Old(R[i], b, ref)
    <3> SUFFICES ASSUME NEW i \in 1 .. e, i > c
                 PROVE  Old(R[i], b, ref)
      BY <1>1 DEF Agree
    <3>1. i - c \in 1 .. m - d /\ c + (i - c) = i /\ d + (i - c) \in 1 .. k
      BY <1>4
    <3>2. L[d + (i - c)] = R[c + (i - c)]
      BY <1>1, <3>1 DEF Agree
    <3> QED
      BY <2>4, <3>1, <3>2
  <2>7. \A i, j \in (k - 1) + 1 .. m - 1 : i <= j => K[i].time <= K[j].time
    <3> SUFFICES ASSUME NEW i \in k .. m - 1, NEW j \in k .. m - 1, i <= j
                 PROVE  K[i].time <= K[j].time
      OBVIOUS
    <3>1. K[i] = L[i + 1] /\ K[j] = L[j + 1]
      OBVIOUS
    <3>2. i + 1 \in d + 1 .. m /\ j + 1 \in d + 1 .. m /\ i + 1 <= j + 1
      BY <1>4
    <3> QED
      BY <1>1, <3>1, <3>2 DEF Agree
  <2>8. Agree(K, m - 1, R, b, ref, k - 1, e)
    BY <2>1, <2>2, <2>5, <2>6, <2>7 DEF Agree
  <2> HIDE DEF e
  <2> QED
    BY <1>2, <2>1, <2>8 DEF Tidy
<1> QED
  BY <1>3, <1>4

(* A record with the time of the call goes to the end of both.             *)
LEMMA TidyAppend ==
    ASSUME NEW L \in Seq(Records), NEW R \in Seq(Records), NEW e \in Records,
           NEW b \in Int, Tidy(L, Len(L), R, b, e.time)
    PROVE  Tidy(Append(L, e), Len(Append(L, e)), Append(R, e), b, e.time)
<1> DEFINE K == Append(L, e)  m == Len(L)  S == Append(R, e)  n == Len(R)
<1>1. /\ Len(K) = m + 1 /\ K[m + 1] = e /\ \A i \in 1 .. m : K[i] = L[i]
      /\ Len(S) = n + 1 /\ S[n + 1] = e /\ \A i \in 1 .. n : S[i] = R[i]
      /\ m \in Nat /\ n \in Nat
  OBVIOUS
<1>2. PICK d \in 0 .. m, c \in 0 .. n : Agree(L, m, R, b, e.time, d, c)
  BY DEF Tidy
<1>3. /\ \A i \in 1 .. m : L[i].time <= e.time /\ L[i].time \in Int
      /\ \A i \in 1 .. n : R[i].time <= e.time
      /\ e.time \in Int
  <2>1. \A i \in 1 .. m : L[i] \in Records
    OBVIOUS
  <2> QED
    BY <2>1, RecordTimes DEF Tidy
<1>4. m - d = n - c
  BY <1>2 DEF Agree
<1> HIDE DEF K, m, S, n
<1>5. \A i \in 1 .. (m + 1) - d : K[d + i] = S[c + i]
  <2> SUFFICES ASSUME NEW i \in 1 .. (m + 1) - d
               PROVE  K[d + i] = S[c + i]
    OBVIOUS
  <2>1. CASE i = (m + 1) - d
    <3>1. d + i = m + 1 /\ c + i = n + 1
      BY <1>1, <1>4, <2>1
    <3> QED
      BY <1>1, <3>1
  <2>2. CASE i # (m + 1) - d
    <3>1. m \in Nat /\ n \in Nat /\ m - d = n - c /\ i # (m + 1) - d
      BY <1>1, <1>4, <2>2
    <3>2. i \in 1 .. m - d
      BY <3>1
    <3>3. d + i \in 1 .. m
      BY <3>1, <3>2
    <3>4. c + i \in 1 .. n
      BY <3>1, <3>2
    <3> QED
      BY <1>1, <1>2, <3>2, <3>3, <3>4 DEF Agree
  <2> QED
    BY <2>1, <2>2
<1>6. \A i, j \in d + 1 .. m + 1 : i <= j => K[i].time <= K[j].time
  <2> SUFFICES ASSUME NEW i \in d + 1 .. m + 1, NEW j \in d + 1 .. m + 1, i <= j
               PROVE  K[i].time <= K[j].time
    OBVIOUS
  <2>1. CASE j = m + 1
    <3>1. i = m + 1 \/ i \in 1 .. m
      BY <1>1
    <3> QED
      BY <1>1, <1>3, <2>1, <3>1
  <2>2. CASE j # m + 1
    <3>1. i \in d + 1 .. m /\ j \in d + 1 .. m /\ i \in 1 .. m /\ j \in 1 .. m
      BY <1>1, <2>2
    <3> QED
      BY <1>1, <1>2, <3>1 DEF Agree
  <2> QED
    BY <2>1, <2>2
<1>7. Agree(K, m + 1, S, b, e.time, d, c)
  <2>1. (m + 1) - d = Len(S) - c
    BY <1>1, <1>4
  <2>2. \A i \in 1 .. d : Old(K[i], b, e.time)
    <3>1. \A i \in 1 .. d : i \in 1 .. m
      BY <1>1
    <3> QED
      BY <1>1, <1>2, <3>1 DEF Agree
  <2>3. \A i \in 1 .. c : Old(S[i], b, e.time)
    <3>1. \A i \in 1 .. c : i \in 1 .. n
      BY <1>1
    <3> QED
      BY <1>1, <1>2, <3>1 DEF Agree
  <2> QED
    BY <1>5, <1>6, <2>1, <2>2, <2>3 DEF Agree
<1>8. /\ \A i \in 1 .. m + 1 : K[i].time <= e.time
      /\ \A i \in 1 .. Len(S) : S[i].time <= e.time
  <2>1. \A i \in 1 .. m + 1 : i = m + 1 \/ i \in 1 .. m
    BY <1>1
  <2>2. \A i \in 1 .. n + 1 : i = n + 1 \/ i \in 1 .. n
    BY <1>1
  <2> QED
    BY <1>1, <1>3, <2>1, <2>2
<1>9. d \in 0 .. m + 1 /\ c \in 0 .. Len(S)
  BY <1>1
<1>10. Tidy(K, m + 1, S, b, e.time)
  BY <1>7, <1>8, <1>9 DEF Tidy
<1> QED
  BY <1>1, <1>10 DEF K, S

OfTool(L, tool) == {i \in 1 .. Len(L) : L[i].tool = tool}

InReachOf(R, tool, ref) == {i \in DOMAIN R : R[i].tool = tool /\ ref - R[i].time <= Window}

(* What a tidy list in the window holds is what the history holds of it.   *)
LEMMA TidyCounts ==
    ASSUME NEW L \in Seq(Records), NEW R \in Seq(Records), NEW b \in Int, NEW ref \in Int,
           Tidy(L, Len(L), R, b, ref), b < ref - Window,
           InWindowAll(L, ref), NEW tool
    PROVE  Cardinality(OfTool(L, tool)) = Cardinality(InReachOf(R, tool, ref))
<1> DEFINE S == {i \in 1 .. Len(L) : L[i].tool = tool}
           T == {i \in DOMAIN R : R[i].tool = tool /\ ref - R[i].time <= Window}
<1>1. PICK d \in 0 .. Len(L), c \in 0 .. Len(R) : Agree(L, Len(L), R, b, ref, d, c)
  BY DEF Tidy
<1>2. /\ \A i \in 1 .. Len(L) : L[i] \in Records /\ L[i].time \in Int
      /\ \A i \in 1 .. Len(R) : R[i] \in Records /\ R[i].time \in Int
      /\ DOMAIN R = 1 .. Len(R) /\ Len(L) \in Nat /\ Len(R) \in Nat
  <2>1. /\ \A i \in 1 .. Len(L) : L[i] \in Records
        /\ \A i \in 1 .. Len(R) : R[i] \in Records
    OBVIOUS
  <2> QED
    BY <2>1, RecordTimes
<1>3. d = 0
  <2>1. ASSUME d # 0
        PROVE  FALSE
    <3>1. 1 \in 1 .. d /\ 1 \in 1 .. Len(L)
      BY <2>1
    <3>2. Old(L[1], b, ref) /\ L[1].time >= ref - Window /\ L[1].time \in Int
      BY <1>1, <1>2, <3>1 DEF Agree, InWindowAll
    <3> QED
      BY <3>2, ConstantTypes DEF Old
  <2> QED
    BY <2>1
<1>4. Len(L) = Len(R) - c /\ \A i \in 1 .. Len(L) : L[i] = R[c + i]
  BY <1>1, <1>2, <1>3 DEF Agree
<1>5. \A i \in 1 .. c : R[i].time < ref - Window
  <2> SUFFICES ASSUME NEW i \in 1 .. c
               PROVE  R[i].time < ref - Window
    OBVIOUS
  <2>1. Old(R[i], b, ref) /\ R[i].time \in Int
    BY <1>1, <1>2 DEF Agree
  <2> QED
    BY <2>1, ConstantTypes DEF Old
<1>6. ASSUME NEW i \in S
      PROVE  c + i \in T
  <2>1. i \in 1 .. Len(L) /\ c + i \in 1 .. Len(R) /\ L[i] = R[c + i]
    BY <1>2, <1>4, <1>6
  <2>2. L[i].time >= ref - Window
    BY <2>1 DEF InWindowAll
  <2> QED
    BY <1>2, <1>6, <2>1, <2>2, ConstantTypes
<1>7. ASSUME NEW j \in T
      PROVE  j - c \in S /\ c + (j - c) = j
  <2>1. j \in 1 .. Len(R) /\ j > c
    <3>1. j \in 1 .. Len(R) /\ R[j].time \in Int /\ ref - R[j].time <= Window
      BY <1>2, <1>7
    <3> QED
      BY <1>5, <3>1, ConstantTypes
  <2>2. j - c \in 1 .. Len(L) /\ c + (j - c) = j
    BY <1>2, <1>4, <2>1
  <2>3. L[j - c] = R[j]
    BY <1>4, <2>2
  <2> QED
    BY <1>7, <2>2, <2>3
<1> DEFINE f == [i \in S |-> c + i]
<1>8. f \in [S -> T]
  BY <1>6
<1>9. \A i, j \in S : f[i] = f[j] => i = j
  BY <1>2
<1>10. \A j \in T : \E i \in S : f[i] = j
  BY <1>7
<1> HIDE DEF f
<1>11. f \in Bijection(S, T)
  BY <1>8, <1>9, <1>10 DEF Bijection, Injection, Surjection, IsInjective
<1>12. IsFiniteSet(S)
  <2>1. IsFiniteSet(1 .. Len(L))
    BY <1>2, FS_Interval
  <2> QED
    BY <2>1, FS_Subset
<1> HIDE DEF S, T
<1>13. Cardinality(T) = Cardinality(S)
  BY <1>11, <1>12, FS_Bijection DEF ExistsBijection
<1> QED
  BY <1>13 DEF S, T, OfTool, InReachOf

-----------------------------------------------------------------------------
(* Types, times and locals *)

(* A thread is at work just when it is not idle.                           *)
LEMMA CallTypes ==
    ASSUME TypeOK, NEW t \in Threads, step[t] # "idle"
    PROVE  /\ call[t] \in Calls /\ call[t] # NoCall
           /\ call[t].session \in Sessions /\ call[t].tool \in Tools /\ call[t].again \in BOOLEAN
  BY DEF TypeOK, Calls

LEMMA CallsAreCalls ==
    ASSUME NEW c \in Calls
    PROVE  c # NoCall /\ c.session \in Sessions
<1>1. c.tool \in Tools /\ c.session \in Sessions
  BY DEF Calls
<1>2. c.tool # "none"
  BY <1>1, TrackerAssumption
<1> QED
  BY <1>1, <1>2 DEF NoCall

LEMMA InitInv == Init => TrackerInv
<1> SUFFICES ASSUME Init
             PROVE  TrackerInv
  OBVIOUS
<1> USE DEF Init
<1>1. TypeOK
  BY ConstantTypes DEF TypeOK, Steps, NoCounts
<1>2. TimesInv
  BY ConstantTypes DEF TimesInv, UpTo, Never
<1>3. LocalsInv
  BY DEF LocalsInv
<1>4. ASSUME NEW s \in Sessions
      PROVE  SessionInv(s)
  <2>1. Active(s) = {}
    BY DEF Active
  <2>2. events[s] = <<>> /\ recorded[s] = <<>> /\ <<>> \in Seq(Records)
        /\ now \in Int /\ blurred[s] \in Int
    BY ConstantTypes DEF Never
  <2>3. UpTo(<<>>, blurred[s]) /\ UpTo(<<>>, now)
    BY DEF UpTo
  <2>4. Tidy(events[s], Len(events[s]), recorded[s], blurred[s], now)
    BY <2>2, <2>3, TidyStale
  <2> QED
    BY <2>1, <2>4 DEF SessionInv, Overlapped
<1> QED
  BY <1>1, <1>2, <1>3, <1>4 DEF TrackerInv

(* What a thread that begins a call changes.                               *)
LEMMA BeginTypes ==
    ASSUME TypeOK, NEW t \in Threads, NEW c \in Calls, Begin(t, c)
    PROVE  /\ now' = now /\ events' = events /\ recorded' = recorded
           /\ kept' = kept /\ counts' = counts /\ at' = at
           /\ step' \in [Threads -> Steps] /\ call' \in [Threads -> Calls \cup {NoCall}]
           /\ pos' \in [Threads -> Nat \ {0}]
           /\ blurred' \in [Sessions -> {Never} \cup 0 .. MaxTime]
           /\ \A u \in Threads : call'[u] = NoCall <=> step'[u] = "idle"
<1>1. c # NoCall /\ c.session \in Sessions
  BY CallsAreCalls
<1>2. /\ now' = now /\ events' = events /\ recorded' = recorded
      /\ kept' = kept /\ counts' = counts /\ at' = at
  BY DEF Begin
<1>3. step' \in [Threads -> Steps] /\ pos' \in [Threads -> Nat \ {0}]
  BY DEF Begin, Goto, TypeOK, Steps
<1>4. call' \in [Threads -> Calls \cup {NoCall}]
  BY DEF Begin, TypeOK
<1>5. \A u \in Threads : call'[u] = NoCall <=> step'[u] = "idle"
  <2>1. /\ call'[t] = c /\ step'[t] = "clock"
        /\ \A u \in Threads \ {t} : call'[u] = call[u] /\ step'[u] = step[u]
    BY DEF Begin, Goto, TypeOK
  <2> QED
    BY <1>1, <2>1 DEF TypeOK
<1>6. blurred' \in [Sessions -> {Never} \cup 0 .. MaxTime]
  <2>1. blurred' = blurred \/ blurred' = [blurred EXCEPT ![c.session] = now]
    BY DEF Begin, Blur
  <2> QED
    BY <1>1, <2>1 DEF TypeOK
<1> QED
  BY <1>2, <1>3, <1>4, <1>5, <1>6

LEMMA ListTypes ==
    ASSUME TypeOK, NEW t \in Threads, step[t] # "idle"
    PROVE  /\ List(t) \in Seq(Records) /\ Len(List(t)) \in Nat /\ Record(t) \in Records
           /\ \A i \in 1 .. Len(List(t)) : List(t)[i] \in Records
           /\ kept[t] \in Seq(Records) /\ Len(kept[t]) \in Nat
           /\ recorded[call[t].session] \in Seq(Records) /\ pos[t] \in Nat \ {0}
           /\ at[t] \in Int /\ blurred[call[t].session] \in Int
<1>1. call[t].session \in Sessions /\ call[t].tool \in Tools /\ call[t].again \in BOOLEAN
  BY CallTypes
<1>2. List(t) \in Seq(Records) /\ Record(t) \in Records
  BY <1>1 DEF List, Record, Records, TypeOK
<1> QED
  BY <1>1, <1>2, ConstantTypes DEF TypeOK, Never

(* A step of record_and_count leaves the calls alone.                      *)
LEMMA RecordTypes ==
    ASSUME TypeOK, NEW t \in Threads, RecordAndCount(t)
    PROVE  TypeOK'
<1>1. step[t] # "idle"
  BY DEF RecordAndCount, ReadClock, Filter, WriteBack, AppendRecord, Count, AtElement, PastEnd
<1>2. call[t].session \in Sessions
  BY <1>1, CallTypes
<1>3. ASSUME Alone(t)
      PROVE  /\ now' \in 0 .. MaxTime /\ calls' \in 0 .. MaxCalls
             /\ call' = call /\ call' \in [Threads -> Calls \cup {NoCall}]
             /\ awaiting' \in [Sessions \X Approvable -> Nat]
             /\ blurred' \in [Sessions -> {Never} \cup 0 .. MaxTime]
  BY <1>2, <1>3 DEF Alone, Blur, TypeOK
<1>4. ASSUME NEW s \in Steps \ {"idle"}, Goto(t, s)
      PROVE  /\ step' \in [Threads -> Steps] /\ pos' \in [Threads -> Nat \ {0}]
             /\ \A u \in Threads : call[u] = NoCall <=> step'[u] = "idle"
  BY <1>1, <1>4 DEF Goto, TypeOK
<1>5. ASSUME Advance(t)
      PROVE  /\ step' \in [Threads -> Steps] /\ pos' \in [Threads -> Nat \ {0}]
             /\ \A u \in Threads : call[u] = NoCall <=> step'[u] = "idle"
  BY <1>5 DEF Advance, TypeOK
<1>6. CASE ReadClock(t)
  BY <1>3, <1>4, <1>6 DEF ReadClock, TypeOK, Steps, Loops
<1>7. CASE Filter(t)
  <2>1. /\ step' \in [Threads -> Steps] /\ pos' \in [Threads -> Nat \ {0}]
        /\ \A u \in Threads : call[u] = NoCall <=> step'[u] = "idle"
    BY <1>4, <1>5, <1>7 DEF Filter, Steps
  <2>2. kept' \in [Threads -> Seq(Records)]
    <3>1. CASE AtElement(t, "filter")
      <4>1. List(t)[pos[t]] \in Records
        BY <1>1, <3>1, ListTypes DEF AtElement
      <4>2. kept' = kept \/ kept' = [kept EXCEPT ![t] = Append(@, List(t)[pos[t]])]
        BY <1>7 DEF Filter
      <4>3. kept \in [Threads -> Seq(Records)] /\ kept[t] \in Seq(Records)
        BY DEF TypeOK
      <4>4. Append(kept[t], List(t)[pos[t]]) \in Seq(Records)
        BY <4>1, <4>3
      <4> QED
        BY <4>2, <4>3, <4>4
    <3> QED
      BY <1>7, <3>1 DEF Filter, TypeOK
  <2> QED
    BY <1>3, <1>7, <2>1, <2>2 DEF Filter, TypeOK
<1>8. CASE WriteBack(t)
  <2>1. kept' \in [Threads -> Seq(Records)] /\ events' \in [Sessions -> Seq(Records)]
    BY <1>2, <1>8 DEF WriteBack, TypeOK
  <2> QED
    BY <1>3, <1>4, <1>8, <2>1 DEF WriteBack, TypeOK, Steps
<1>9. CASE AppendRecord(t)
  <2>1. Record(t) \in Records
    BY <1>1, ListTypes
  <2>2. recorded' \in [Sessions -> Seq(Records)] /\ events' \in [Sessions -> Seq(Records)]
    BY <1>2, <1>9, <2>1 DEF AppendRecord, TypeOK
  <2> QED
    BY <1>3, <1>4, <1>9, <2>2 DEF AppendRecord, TypeOK, Steps, Loops
<1>10. CASE Count(t)
  <2>1. /\ step' \in [Threads -> Steps] /\ pos' \in [Threads -> Nat \ {0}]
        /\ \A u \in Threads : call[u] = NoCall <=> step'[u] = "idle"
    BY <1>4, <1>5, <1>10 DEF Count, Steps, Loops
  <2>2. counts' \in [Threads -> [reads : Nat, runs : Nat]]
    <3>1. \/ counts' = counts
          \/ counts' = [counts EXCEPT ![t].reads = @ + 1]
          \/ counts' = [counts EXCEPT ![t].runs = @ + 1]
      BY <1>10 DEF Count
    <3>2. /\ counts \in [Threads -> [reads : Nat, runs : Nat]]
          /\ counts[t].reads + 1 \in Nat /\ counts[t].runs + 1 \in Nat
      BY DEF TypeOK
    <3> QED
      BY <3>1, <3>2
  <2> QED
    BY <1>3, <1>10, <2>1, <2>2 DEF Count, TypeOK
<1> QED
  BY <1>6, <1>7, <1>8, <1>9, <1>10 DEF RecordAndCount

LEMMA AgainIsACall ==
    ASSUME NEW s \in Sessions, NEW tool \in Approvable
    PROVE  Again(s, tool) \in Calls
  BY DEF Again, Calls, Approvable

LEMMA NextTypes == TypeOK /\ [Next]_vars => TypeOK'
<1> SUFFICES ASSUME TypeOK, [Next]_vars
             PROVE  TypeOK'
  OBVIOUS
<1>2. CASE AgentCalls
  <2>1. PICK c \in Calls : ~c.again /\ Begin(Main, c)
    BY <1>2 DEF AgentCalls
  <2>2. calls' \in 0 .. MaxCalls /\ awaiting' = awaiting
    BY <1>2, ConstantTypes DEF AgentCalls, TypeOK
  <2> QED
    BY <2>1, <2>2, BeginTypes DEF TypeOK, Threads
<1>3. ASSUME NEW t \in ApiThreads, ApprovalCalls(t)
      PROVE  TypeOK'
  <2>1. PICK s \in Sessions, tool \in Approvable :
          /\ awaiting[<<s, tool>>] > 0
          /\ awaiting' = [awaiting EXCEPT ![<<s, tool>>] = @ - 1]
          /\ Begin(t, Again(s, tool))
    BY <1>3 DEF ApprovalCalls
  <2>2. Again(s, tool) \in Calls
    BY AgainIsACall
  <2>3. awaiting' \in [Sessions \X Approvable -> Nat]
    BY <2>1 DEF TypeOK
  <2>4. calls' = calls
    BY <1>3 DEF ApprovalCalls
  <2> QED
    BY <2>1, <2>2, <2>3, <2>4, BeginTypes DEF TypeOK, Threads
<1>4. ASSUME NEW t \in Threads, RecordAndCount(t)
      PROVE  TypeOK'
  <2>1. awaiting' = awaiting
    BY <1>4 DEF RecordAndCount, ReadClock, Filter, WriteBack, AppendRecord, Count, Alone
  <2> QED
    BY <1>4, RecordTypes
<1>5. ASSUME NEW t \in Threads, Settle(t)
      PROVE  TypeOK'
  <2>1. call[t].session \in Sessions /\ call[t].tool \in Tools
    BY <1>5, CallTypes DEF Settle
  <2>2. awaiting' \in [Sessions \X Approvable -> Nat]
    <3>1. awaiting' = awaiting
          \/ (/\ call[t].tool \in Approvable
              /\ awaiting' = [awaiting EXCEPT ![<<call[t].session, call[t].tool>>] = @ + 1])
      BY <1>5 DEF Settle
    <3>2. awaiting \in [Sessions \X Approvable -> Nat]
      BY DEF TypeOK
    <3> QED
      BY <2>1, <3>1, <3>2
  <2>3. blurred' \in [Sessions -> {Never} \cup 0 .. MaxTime]
    BY <1>5, <2>1 DEF Settle, Blur, TypeOK
  <2>4. /\ step' \in [Threads -> Steps] /\ pos' \in [Threads -> Nat \ {0}]
        /\ call' \in [Threads -> Calls \cup {NoCall}]
        /\ \A u \in Threads : call'[u] = NoCall <=> step'[u] = "idle"
    BY <1>5 DEF Settle, Goto, TypeOK, Steps
  <2>5. at' \in [Threads -> 0 .. MaxTime] /\ counts' \in [Threads -> [reads : Nat, runs : Nat]]
    BY <1>5, ConstantTypes DEF Settle, TypeOK, NoCounts
  <2> QED
    BY <1>5, <2>2, <2>3, <2>4, <2>5 DEF TypeOK, Settle
<1>6. CASE Tick
  BY <1>6, ConstantTypes DEF TypeOK, Tick, locals
<1>7. CASE UNCHANGED vars
  BY <1>7 DEF TypeOK, vars, locals
<1> QED
  BY <1>2, <1>3, <1>4, <1>5, <1>6, <1>7 DEF Next

(* Types hold in every state, whatever the threads do to each other.       *)
THEOREM TypesHold == Spec => []TypeOK
<1>1. Init => TypeOK
  BY InitInv DEF TrackerInv
<1> QED
  BY <1>1, NextTypes, PTL DEF Spec

LEMMA UpToAppend ==
    ASSUME NEW L \in Seq(Records), NEW e \in Records, NEW b, UpTo(L, b), e.time <= b
    PROVE  UpTo(Append(L, e), b)
<1>1. ASSUME NEW i \in 1 .. Len(Append(L, e))
      PROVE  Append(L, e)[i] = e \/ (i \in 1 .. Len(L) /\ Append(L, e)[i] = L[i])
  OBVIOUS
<1> QED
  BY <1>1 DEF UpTo

LEMMA UpToLater ==
    ASSUME NEW L \in Seq(Records), NEW b \in Int, NEW later \in Int, b <= later, UpTo(L, b)
    PROVE  UpTo(L, later)
<1>1. \A i \in 1 .. Len(L) : L[i] \in Records
  OBVIOUS
<1> QED
  BY <1>1, RecordTimes DEF UpTo

(* What a step of record_and_count does with the list it works on.         *)
LEMMA RecordSteps ==
    ASSUME TypeOK, NEW t \in Threads, RecordAndCount(t)
    PROVE  /\ step[t] \notin {"idle", "scored"} /\ step'[t] \notin {"idle", "clock"}
           /\ Blur(t, call[t].session)
           /\ now' = now /\ call' = call /\ awaiting' = awaiting /\ calls' = calls
           /\ \A u \in Threads \ {t} :
                step'[u] = step[u] /\ at'[u] = at[u] /\ pos'[u] = pos[u]
                /\ kept'[u] = kept[u] /\ counts'[u] = counts[u]
           /\ \A s \in Sessions \ {call[t].session} :
                events'[s] = events[s] /\ recorded'[s] = recorded[s]
<1> USE DEF TypeOK, Goto, Advance, Alone, AtElement, PastEnd
<1>1. CASE ReadClock(t)
  BY <1>1 DEF ReadClock
<1>2. CASE Filter(t)
  BY <1>2 DEF Filter
<1>3. CASE WriteBack(t)
  BY <1>3 DEF WriteBack
<1>4. CASE AppendRecord(t)
  BY <1>4 DEF AppendRecord
<1>5. CASE Count(t)
  BY <1>5 DEF Count
<1> QED
  BY <1>1, <1>2, <1>3, <1>4, <1>5 DEF RecordAndCount

(* An overlap is noted at its time, or was noted before.                   *)
LEMMA BlurTimes ==
    ASSUME TypeOK, NEW t, NEW s \in Sessions, Blur(t, s)
    PROVE  \A u \in Sessions : blurred'[u] = blurred[u] \/ (u = s /\ blurred'[u] = now)
  BY DEF Blur, TypeOK

LEMMA RecordInTime ==
    ASSUME TypeOK, TimesInv, LocalsInv, NEW t \in Threads, RecordAndCount(t)
    PROVE  TimesInv' /\ LocalsInv'
<1> DEFINE s == call[t].session
<1>1. step[t] # "idle"
  BY RecordSteps
<1>2. s \in Sessions
  BY <1>1, CallTypes
<1>3. now' = now /\ now \in Int
  BY RecordSteps, ConstantTypes DEF TypeOK
<1>4. \A u \in Sessions : blurred'[u] <= now
  BY <1>2, RecordSteps, BlurTimes, <1>3 DEF TimesInv
<1>5. ASSUME UpTo(events'[s], now), UpTo(recorded'[s], now), at'[t] <= now, UpTo(kept'[t], now)
      PROVE  TimesInv'
  BY <1>3, <1>4, <1>5, RecordSteps DEF TimesInv
<1>6. ASSUME step'[t] \notin {"filter", "write"} => kept'[t] = <<>>,
             step'[t] \notin {"count_reads", "count_runs", "scored"} => counts'[t] = NoCounts
      PROVE  LocalsInv'
  BY <1>6, RecordSteps DEF LocalsInv
<1>7. /\ UpTo(events[s], now) /\ UpTo(recorded[s], now) /\ at[t] <= now /\ UpTo(kept[t], now)
      /\ step[t] \notin {"filter", "write"} => kept[t] = <<>>
      /\ step[t] \notin {"count_reads", "count_runs", "scored"} => counts[t] = NoCounts
      /\ List(t) = events[s]
  BY <1>2 DEF TimesInv, LocalsInv, List
<1>8. events[s] \in Seq(Records) /\ recorded[s] \in Seq(Records) /\ Record(t) \in Records
      /\ kept[t] \in Seq(Records) /\ Record(t).time = at[t]
  BY <1>1, ListTypes DEF List, Record
<1> HIDE DEF s
<1>9. CASE ReadClock(t)
  <2>1. at'[t] = now /\ events' = events /\ recorded' = recorded /\ kept' = kept
        /\ counts' = counts /\ step[t] = "clock" /\ step'[t] = "filter"
    BY <1>9 DEF ReadClock, Goto, TypeOK
  <2> QED
    BY <1>3, <1>5, <1>6, <1>7, <2>1
<1>10. CASE Filter(t)
  <2>1. at' = at /\ events' = events /\ recorded' = recorded /\ counts' = counts
        /\ step[t] = "filter" /\ step'[t] \in {"filter", "write"}
    BY <1>10 DEF Filter, Goto, Advance, AtElement, PastEnd, TypeOK
  <2>2. UpTo(kept'[t], now)
    <3>1. CASE AtElement(t, "filter")
      <4>1. pos[t] \in 1 .. Len(List(t)) /\ List(t)[pos[t]] \in Records
        BY <1>1, <3>1, ListTypes DEF AtElement
      <4>2. List(t)[pos[t]].time <= now
        BY <1>7, <4>1 DEF UpTo
      <4>3. kept'[t] = kept[t] \/ kept'[t] = Append(kept[t], List(t)[pos[t]])
        BY <1>10 DEF Filter, TypeOK
      <4> QED
        BY <1>7, <1>8, <4>1, <4>2, <4>3, UpToAppend
    <3>2. CASE ~AtElement(t, "filter")
      <4>1. kept' = kept
        BY <1>10, <3>2 DEF Filter
      <4> QED
        BY <1>7, <4>1
    <3> QED
      BY <3>1, <3>2
  <2> QED
    BY <1>5, <1>6, <1>7, <2>1, <2>2
<1>11. CASE WriteBack(t)
  <2>1. at' = at /\ events'[s] = kept[t] /\ recorded' = recorded /\ kept'[t] = <<>>
        /\ counts' = counts /\ step[t] = "write" /\ step'[t] = "append"
    BY <1>2, <1>11 DEF WriteBack, Goto, TypeOK, s
  <2>2. UpTo(<<>>, now)
    BY DEF UpTo
  <2> QED
    BY <1>5, <1>6, <1>7, <2>1, <2>2
<1>12. CASE AppendRecord(t)
  <2>1. at' = at /\ events'[s] = Append(events[s], Record(t)) /\ kept' = kept
        /\ recorded'[s] = Append(recorded[s], Record(t))
        /\ counts' = counts /\ step[t] = "append" /\ step'[t] = "count_reads"
    BY <1>2, <1>12 DEF AppendRecord, Goto, TypeOK, s
  <2>2. UpTo(events'[s], now) /\ UpTo(recorded'[s], now)
    BY <1>7, <1>8, <2>1, UpToAppend
  <2> QED
    BY <1>5, <1>6, <1>7, <2>1, <2>2
<1>13. CASE Count(t)
  <2>1. at' = at /\ events' = events /\ recorded' = recorded /\ kept' = kept
        /\ step[t] \in {"count_reads", "count_runs"}
        /\ step'[t] \in {"count_reads", "count_runs", "scored"}
    BY <1>13 DEF Count, Goto, Advance, AtElement, PastEnd, TypeOK
  <2> QED
    BY <1>5, <1>6, <1>7, <2>1
<1> QED
  BY <1>9, <1>10, <1>11, <1>12, <1>13 DEF RecordAndCount

LEMMA BeginInTime ==
    ASSUME TypeOK, TimesInv, LocalsInv, NEW t \in Threads, NEW c \in Calls, Begin(t, c)
    PROVE  TimesInv' /\ LocalsInv'
<1>1. /\ now' = now /\ events' = events /\ recorded' = recorded
      /\ kept' = kept /\ counts' = counts /\ at' = at
      /\ step[t] = "idle" /\ step' = [step EXCEPT ![t] = "clock"]
      /\ \A u \in Sessions : blurred'[u] = blurred[u] \/ blurred'[u] = now
  BY BeginTypes, BlurTimes, CallsAreCalls DEF Begin, Goto
<1>2. now <= now /\ now \in Int
  BY ConstantTypes DEF TypeOK
<1>3. TimesInv'
  BY <1>1, <1>2 DEF TimesInv
<1>4. LocalsInv'
  BY <1>1 DEF LocalsInv, TypeOK
<1> QED
  BY <1>3, <1>4

LEMMA NextInTime == TypeOK /\ TimesInv /\ LocalsInv /\ [Next]_vars => TimesInv' /\ LocalsInv'
<1> SUFFICES ASSUME TypeOK, TimesInv, LocalsInv, [Next]_vars
             PROVE  TimesInv' /\ LocalsInv'
  OBVIOUS
<1>1. TypeOK /\ now \in Int
  BY ConstantTypes DEF TypeOK
<1>2. CASE AgentCalls
  BY <1>1, <1>2, BeginInTime DEF AgentCalls, Threads
<1>3. ASSUME NEW t \in ApiThreads, ApprovalCalls(t)
      PROVE  TimesInv' /\ LocalsInv'
  <2>1. PICK s \in Sessions, tool \in Approvable : Begin(t, Again(s, tool))
    BY <1>3 DEF ApprovalCalls
  <2>2. Again(s, tool) \in Calls
    BY AgainIsACall
  <2> QED
    BY <1>1, <2>1, <2>2, BeginInTime DEF Threads
<1>4. ASSUME NEW t \in Threads, RecordAndCount(t)
      PROVE  TimesInv' /\ LocalsInv'
  BY <1>1, <1>4, RecordInTime
<1>5. ASSUME NEW t \in Threads, Settle(t)
      PROVE  TimesInv' /\ LocalsInv'
  <2>1. /\ now' = now /\ events' = events /\ recorded' = recorded /\ kept' = kept
        /\ step' = [step EXCEPT ![t] = "idle"] /\ step[t] = "scored"
        /\ at' = [at EXCEPT ![t] = 0] /\ counts' = [counts EXCEPT ![t] = NoCounts]
    BY <1>5 DEF Settle, Goto
  <2>2. call[t].session \in Sessions /\ Blur(t, call[t].session)
    BY <1>1, <1>5, <2>1, CallTypes DEF Settle
  <2>3. \A u \in Sessions : blurred'[u] = blurred[u] \/ blurred'[u] = now
    BY <1>1, <2>2, BlurTimes
  <2>4. 0 <= now
    BY <1>1 DEF TypeOK
  <2>5. TimesInv'
    <3>1. \A u \in Threads : at'[u] <= now
      BY <1>1, <2>1, <2>4 DEF TimesInv, TypeOK
    <3>2. \A s \in Sessions : blurred'[s] <= now
      BY <1>1, <2>3 DEF TimesInv
    <3> QED
      BY <2>1, <3>1, <3>2 DEF TimesInv
  <2>6. LocalsInv'
    BY <1>1, <2>1 DEF LocalsInv, TypeOK
  <2> QED
    BY <2>5, <2>6
<1>6. CASE Tick
  <2>1. /\ now' = now + 1 /\ events' = events /\ recorded' = recorded /\ kept' = kept
        /\ at' = at /\ blurred' = blurred /\ step' = step /\ counts' = counts
    BY <1>6 DEF Tick, locals
  <2>2. /\ \A s \in Sessions : events[s] \in Seq(Records) /\ recorded[s] \in Seq(Records)
                               /\ blurred[s] \in Int
        /\ \A t \in Threads : kept[t] \in Seq(Records) /\ at[t] \in Int
    BY <1>1, ConstantTypes DEF TypeOK, Never
  <2>3. now + 1 \in Int /\ now <= now + 1
    BY <1>1
  <2>4. \A L \in Seq(Records) : UpTo(L, now) => UpTo(L, now + 1)
    BY <1>1, <2>3, UpToLater
  <2>5. \A n \in Int : n <= now => n <= now + 1
    BY <1>1
  <2>6. TimesInv'
    BY <2>1, <2>2, <2>4, <2>5 DEF TimesInv
  <2> QED
    BY <2>1, <2>6 DEF LocalsInv
<1>7. CASE UNCHANGED vars
  BY <1>7 DEF TimesInv, LocalsInv, UpTo, vars, locals
<1> QED
  BY <1>2, <1>3, <1>4, <1>5, <1>6, <1>7 DEF Next

-----------------------------------------------------------------------------
(* What is enough for a session *)

NowIsStale == \A s \in Sessions : blurred[s] = now => Stale(s)

StaleIsEnough == \A s \in Sessions : Stale(s) => SessionInv(s)

AloneIsEnough ==
    \A s \in Sessions, t \in Threads :
        /\ Active(s) = {t}
        /\ Past(t) => Stale(s) \/ (Clean(t) /\ Working(t))
        /\ ~Past(t) => Tidy(events[s], Len(events[s]), recorded[s], blurred[s], now)
        => SessionInv(s)

LEMMA EnoughForSessions ==
    TypeOK /\ TimesInv => NowIsStale /\ StaleIsEnough /\ AloneIsEnough
<1> SUFFICES ASSUME TypeOK, TimesInv
             PROVE  NowIsStale /\ StaleIsEnough /\ AloneIsEnough
  OBVIOUS
<1>1. /\ now \in Int /\ \A t \in Threads : at[t] \in Int
      /\ \A s \in Sessions : blurred[s] \in Int /\ events[s] \in Seq(Records)
                             /\ recorded[s] \in Seq(Records)
  BY ConstantTypes DEF TypeOK, Never
<1>2. NowIsStale
  BY DEF NowIsStale, Stale, TimesInv, Active
<1>3. \A s \in Sessions, t \in Threads : t \in Active(s) => call[t].session = s
  BY DEF Active
<1>4. ASSUME NEW s \in Sessions, Stale(s)
      PROVE  SessionInv(s)
  <2>1. \A t \in Active(s) : ~Clean(t)
    BY <1>1, <1>3, <1>4 DEF Stale, Clean, Active
  <2>2. Tidy(events[s], Len(events[s]), recorded[s], blurred[s], now)
    BY <1>1, <1>4, TidyStale DEF Stale, TimesInv
  <2> QED
    BY <1>4, <2>1, <2>2 DEF SessionInv
<1>5. ASSUME NEW s \in Sessions, NEW t \in Threads, Active(s) = {t},
             Past(t) => Stale(s) \/ (Clean(t) /\ Working(t)),
             ~Past(t) => Tidy(events[s], Len(events[s]), recorded[s], blurred[s], now)
      PROVE  SessionInv(s)
  <2>1. CASE Stale(s)
    BY <1>4, <2>1
  <2>2. CASE ~Stale(s)
    <3>1. call[t].session = s
      BY <1>5 DEF Active
    <3>2. ~Overlapped(s)
      BY <1>1, <1>5, <2>2, <3>1 DEF Overlapped, Clean
    <3>3. Clean(t) => Working(t)
      BY <1>5, <2>2 DEF Clean
    <3> QED
      BY <1>5, <3>2, <3>3 DEF SessionInv
  <2> QED
    BY <2>1, <2>2
<1> QED
  BY <1>2, <1>4, <1>5 DEF StaleIsEnough, AloneIsEnough

LEMMA EnoughAfterwards ==
    TypeOK' /\ TimesInv' => NowIsStale' /\ StaleIsEnough' /\ AloneIsEnough'
  BY EnoughForSessions, PTL

(* A step somewhere else changes nothing for the session s.                *)
LEMMA Untouched ==
    ASSUME TypeOK, NEW s \in Sessions, SessionInv(s),
           events'[s] = events[s], recorded'[s] = recorded[s],
           blurred'[s] = blurred[s], Active(s)' = Active(s),
           Tidy(events[s], Len(events[s]), recorded[s], blurred[s], now)
             => Tidy(events[s], Len(events[s]), recorded[s], blurred[s], now'),
           \A u \in Active(s) :
              /\ call'[u] = call[u] /\ step'[u] = step[u] /\ at'[u] = at[u]
              /\ pos'[u] = pos[u] /\ kept'[u] = kept[u] /\ counts'[u] = counts[u]
    PROVE  SessionInv(s)'
<1>1. \A u \in Active(s) : call[u].session = s /\ call'[u].session = s
  BY DEF Active
<1>2. ASSUME NEW u \in Active(s)
      PROVE  /\ Past(u)' = Past(u) /\ Clean(u)' = Clean(u)
             /\ (at[u] <= blurred[s])' = (at[u] <= blurred[s])
             /\ UpTo(kept[u], blurred[s])' = UpTo(kept[u], blurred[s])
  BY <1>1, <1>2 DEF Past, Clean, UpTo
<1>3. Stale(s)' = Stale(s) /\ Overlapped(s)' = Overlapped(s)
  BY <1>2 DEF Stale, Overlapped, UpTo
<1>4. ASSUME NEW u \in Active(s)
      PROVE  Working(u)' = Working(u)
  <2>1. List(u)' = List(u) /\ kept'[u] = kept[u] /\ pos'[u] = pos[u]
    BY <1>1, <1>4 DEF List
  <2>2. Length(u)' = Length(u) /\ Outlook(u)' = Outlook(u)
    BY <2>1 DEF Length, Outlook
  <2>3. recorded'[call'[u].session] = recorded[call[u].session]
        /\ blurred'[call'[u].session] = blurred[call[u].session]
    BY <1>1, <1>4
  <2> QED
    BY <1>4, <2>1, <2>2, <2>3 DEF Working, TidyFor, Of
<1> QED
  BY <1>2, <1>3, <1>4 DEF SessionInv

-----------------------------------------------------------------------------
(* A call that has its session to itself *)

(* Without a clean call, everything stays stale.                           *)
LEMMA StaleStays ==
    ASSUME TypeOK, NEW t \in Threads, RecordAndCount(t), step[t] # "clock",
           NEW s \in Sessions, call[t].session = s,
           Active(s) = {t}, Stale(s), blurred' = blurred
    PROVE  Stale(s)'
<1>1. step[t] # "idle" /\ call' = call /\ Active(s)' = {t}
  BY RecordSteps DEF Active
<1>2. /\ events[s] \in Seq(Records) /\ recorded[s] \in Seq(Records) /\ Record(t) \in Records
      /\ kept[t] \in Seq(Records) /\ Record(t).time = at[t] /\ List(t) = events[s]
  BY <1>1, ListTypes DEF List, Record
<1>3. Past(t)
  BY <1>1 DEF Past
<1>4. /\ UpTo(events[s], blurred[s]) /\ UpTo(recorded[s], blurred[s])
      /\ at[t] <= blurred[s] /\ UpTo(kept[t], blurred[s])
  BY <1>3 DEF Stale
<1>5. ASSUME UpTo(events'[s], blurred[s]), UpTo(recorded'[s], blurred[s]),
             at'[t] = at[t], UpTo(kept'[t], blurred[s])
      PROVE  Stale(s)'
  BY <1>1, <1>4, <1>5 DEF Stale
<1>6. CASE ReadClock(t)
  BY <1>6 DEF ReadClock
<1>7. CASE Filter(t)
  <2>1. UpTo(kept'[t], blurred[s])
    <3>1. CASE AtElement(t, "filter")
      <4>1. pos[t] \in 1 .. Len(List(t)) /\ List(t)[pos[t]] \in Records
        BY <1>1, <3>1, ListTypes DEF AtElement
      <4>2. List(t)[pos[t]].time <= blurred[s]
        BY <1>2, <1>4, <4>1 DEF UpTo
      <4>3. kept'[t] = kept[t] \/ kept'[t] = Append(kept[t], List(t)[pos[t]])
        BY <1>7 DEF Filter, TypeOK
      <4> QED
        BY <1>2, <1>4, <4>1, <4>2, <4>3, UpToAppend
    <3>2. CASE ~AtElement(t, "filter")
      BY <1>4, <1>7, <3>2 DEF Filter
    <3> QED
      BY <3>1, <3>2
  <2> QED
    BY <1>4, <1>5, <1>7, <2>1 DEF Filter
<1>8. CASE WriteBack(t)
  <2>1. events'[s] = kept[t] /\ kept'[t] = <<>> /\ recorded' = recorded /\ at' = at
    BY <1>8 DEF WriteBack, TypeOK
  <2>2. UpTo(<<>>, blurred[s])
    BY DEF UpTo
  <2> QED
    BY <1>4, <1>5, <2>1, <2>2
<1>9. CASE AppendRecord(t)
  <2>1. /\ events'[s] = Append(events[s], Record(t))
        /\ recorded'[s] = Append(recorded[s], Record(t)) /\ kept' = kept /\ at' = at
    BY <1>9 DEF AppendRecord, TypeOK
  <2>2. UpTo(events'[s], blurred[s]) /\ UpTo(recorded'[s], blurred[s])
    BY <1>2, <1>4, <2>1, UpToAppend
  <2> QED
    BY <1>4, <1>5, <2>1, <2>2
<1>10. CASE Count(t)
  BY <1>4, <1>5, <1>10 DEF Count
<1> QED
  BY <1>6, <1>7, <1>8, <1>9, <1>10 DEF RecordAndCount

LEMMA OutlookTypes ==
    ASSUME TypeOK, NEW t \in Threads, step[t] = "filter", pos[t] <= Len(List(t)) + 1
    PROVE  Length(t) \in Nat /\ \A i \in 1 .. Length(t) : Outlook(t)[i] \in Records
<1>1. /\ Len(List(t)) \in Nat /\ Len(kept[t]) \in Nat /\ pos[t] \in Nat \ {0}
      /\ \A i \in 1 .. Len(List(t)) : List(t)[i] \in Records
      /\ \A i \in 1 .. Len(kept[t]) : kept[t][i] \in Records
  BY ListTypes
<1>2. Length(t) \in Nat
  BY <1>1 DEF Length
<1>3. ASSUME NEW i \in 1 .. Length(t)
      PROVE  Outlook(t)[i] \in Records
  <2>1. CASE i <= Len(kept[t])
    BY <1>1, <2>1 DEF Outlook
  <2>2. CASE ~(i <= Len(kept[t]))
    <3>1. i - Len(kept[t]) + pos[t] - 1 \in 1 .. Len(List(t))
      <4>1. Length(t) = Len(kept[t]) + Len(List(t)) + 1 - pos[t]
        BY DEF Length
      <4>2. i \in Nat /\ i <= Len(kept[t]) + Len(List(t)) + 1 - pos[t] /\ i > Len(kept[t])
        BY <1>1, <1>2, <2>2, <4>1
      <4>3. PICK k \in Nat, n \in Nat, p \in Nat \ {0} :
              k = Len(kept[t]) /\ n = Len(List(t)) /\ p = pos[t]
        BY <1>1
      <4>4. i \in Nat /\ i <= k + n + 1 - p /\ i > k
        BY <4>2, <4>3
      <4>5. i - k + p - 1 \in 1 .. n
        BY <4>4
      <4> QED
        BY <4>3, <4>5
    <3>2. Outlook(t)[i] = List(t)[i - Len(kept[t]) + pos[t] - 1]
      BY <2>2 DEF Outlook
    <3> QED
      BY <1>1, <3>1, <3>2
  <2> QED
    BY <2>1, <2>2
<1> QED
  BY <1>2, <1>3

LEMMA CleanAtFilter ==
    ASSUME TypeOK, NEW t \in Threads, Filter(t), Working(t), blurred' = blurred
    PROVE  Working(t)'
<1>1. step[t] = "filter" /\ call' = call /\ events' = events /\ recorded' = recorded /\ at' = at
  BY DEF Filter, AtElement, PastEnd, Alone
<1>2. /\ Len(List(t)) \in Nat /\ Len(kept[t]) \in Nat /\ pos[t] \in Nat \ {0}
      /\ kept[t] \in Seq(Records) /\ List(t)' = List(t) /\ at[t] \in Int
      /\ recorded[call[t].session] \in Seq(Records) /\ blurred[call[t].session] \in Int
      /\ \A i \in 1 .. Len(List(t)) : List(t)[i] \in Records
  BY <1>1, ListTypes DEF List
<1>3. /\ InWindowAll(kept[t], at[t]) /\ pos[t] <= Len(List(t)) + 1
      /\ TidyFor(t, Outlook(t), Length(t))
  BY <1>1 DEF Working
<1>4. Length(t) \in Nat /\ \A i \in 1 .. Length(t) : Outlook(t)[i] \in Records
  BY <1>1, <1>3, OutlookTypes
<1>5. CASE AtElement(t, "filter")
  <2> DEFINE e == List(t)[pos[t]]
  <2>1. pos[t] \in 1 .. Len(List(t)) /\ e \in Records /\ e.time \in Int
    BY <1>2, <1>5, RecordTimes DEF AtElement
  <2>2. step'[t] = "filter" /\ pos'[t] = pos[t] + 1 /\ pos'[t] <= Len(List(t)) + 1
    BY <1>1, <1>2, <1>5, <2>1 DEF Filter, PastEnd, AtElement, Advance, TypeOK
  <2>3. CASE InWindow(e.time, at[t])
    <3>1. kept'[t] = Append(kept[t], e)
      BY <1>5, <2>3 DEF Filter, PastEnd, AtElement, TypeOK
    <3>2. Length(t)' = Length(t) /\ Len(kept'[t]) = Len(kept[t]) + 1
      <4>1. Len(kept'[t]) = Len(kept[t]) + 1
        BY <1>2, <2>1, <3>1
      <4>2. (Len(kept[t]) + 1) + Len(List(t)) + 1 - (pos[t] + 1) = Len(kept[t]) + Len(List(t)) + 1 - pos[t]
        BY <1>2
      <4> QED
        BY <1>2, <2>2, <4>1, <4>2 DEF Length
    <3>3. ASSUME NEW i \in 1 .. Length(t)
          PROVE  Outlook(t)'[i] = Outlook(t)[i]
      <4>1. Outlook(t)'[i] = IF i <= Len(kept[t]) + 1 THEN Append(kept[t], e)[i]
                             ELSE List(t)[i - (Len(kept[t]) + 1) + (pos[t] + 1) - 1]
        BY <1>2, <2>2, <3>1, <3>2, <3>3 DEF Outlook
      <4>2. CASE i <= Len(kept[t])
        BY <1>2, <4>1, <4>2 DEF Outlook
      <4>3. CASE i = Len(kept[t]) + 1
        <5>1. Outlook(t)'[i] = e
          BY <1>2, <4>1, <4>3
        <5>2. Outlook(t)[i] = List(t)[i - Len(kept[t]) + pos[t] - 1]
              /\ i - Len(kept[t]) + pos[t] - 1 = pos[t]
          BY <1>2, <4>3 DEF Outlook
        <5> QED
          BY <5>1, <5>2
      <4>4. CASE i > Len(kept[t]) + 1
        <5>1. Outlook(t)'[i] = List(t)[i - (Len(kept[t]) + 1) + (pos[t] + 1) - 1]
          BY <1>2, <1>4, <4>1, <4>4
        <5>2. Outlook(t)[i] = List(t)[i - Len(kept[t]) + pos[t] - 1]
          BY <1>2, <1>4, <4>4 DEF Outlook
        <5>3. i - (Len(kept[t]) + 1) + (pos[t] + 1) - 1 = i - Len(kept[t]) + pos[t] - 1
          BY <1>2, <1>4
        <5> QED
          BY <5>1, <5>2, <5>3
      <4>5. i \in Int /\ Len(kept[t]) \in Int
        BY <1>2, <1>4, <3>3
      <4>6. i <= Len(kept[t]) \/ i = Len(kept[t]) + 1 \/ i > Len(kept[t]) + 1
        BY <4>5
      <4> QED
        BY <4>2, <4>3, <4>4, <4>6
    <3>4. Tidy(Outlook(t)', Length(t), recorded[call[t].session], blurred[call[t].session], at[t])
      <4>1. Tidy(Outlook(t), Length(t), recorded[call[t].session], blurred[call[t].session], at[t])
        BY <1>3 DEF TidyFor
      <4>2. Length(t) \in Nat /\ recorded[call[t].session] \in Seq(Records)
            /\ blurred[call[t].session] \in Int /\ at[t] \in Int
        BY <1>2, <1>4
      <4>3. \A i \in 1 .. Length(t) : Outlook(t)'[i] = Outlook(t)[i]
        BY <3>3
      <4>4. PICK K, L : K = Outlook(t)' /\ L = Outlook(t)
        OBVIOUS
      <4>5. PICK R \in Seq(Records), b \in Int, ref \in Int, m \in Nat :
              R = recorded[call[t].session] /\ b = blurred[call[t].session] /\ ref = at[t]
              /\ m = Length(t)
        BY <4>2
      <4>6. Tidy(L, m, R, b, ref) /\ \A i \in 1 .. m : K[i] = L[i]
        BY <4>1, <4>3, <4>4, <4>5
      <4>7. Tidy(K, m, R, b, ref)
        BY <4>6, TidySame
      <4> QED
        BY <4>4, <4>5, <4>7
    <3>5. InWindowAll(kept'[t], at[t])
      <4>1. \A i \in 1 .. Len(kept'[t]) : kept'[t][i] = e \/ (i \in 1 .. Len(kept[t]) /\ kept'[t][i] = kept[t][i])
        BY <1>2, <3>1
      <4> QED
        BY <1>3, <2>3, <4>1 DEF InWindowAll, InWindow
    <3>6. (TidyFor(t, Outlook(t), Length(t)))'
      BY <1>1, <3>2, <3>4 DEF TidyFor
    <3> QED
      BY <1>1, <1>2, <2>2, <3>5, <3>6 DEF Working
  <2>4. CASE ~InWindow(e.time, at[t])
    <3>1. kept'[t] = kept[t]
      BY <1>5, <2>4 DEF Filter, PastEnd, AtElement
    <3>2. Length(t)' = Length(t) - 1 /\ Len(kept[t]) + 1 \in 1 .. Length(t)
      <4>1. Length(t) = Len(kept[t]) + Len(List(t)) + 1 - pos[t]
        BY DEF Length
      <4>2. Length(t)' = Len(kept[t]) + Len(List(t)) + 1 - (pos[t] + 1)
        BY <1>2, <2>2, <3>1 DEF Length
      <4>3. PICK k \in Nat, n \in Nat, p \in Nat \ {0} :
              k = Len(kept[t]) /\ n = Len(List(t)) /\ p = pos[t]
        BY <1>2
      <4>4. p <= n
        BY <2>1, <4>3
      <4>5. Length(t) = k + n + 1 - p /\ Length(t)' = k + n + 1 - (p + 1)
        BY <4>1, <4>2, <4>3
      <4>6. Length(t)' = Length(t) - 1 /\ k + 1 \in 1 .. Length(t)
        BY <4>4, <4>5
      <4> QED
        BY <4>3, <4>6
    <3>3. Outlook(t)[Len(kept[t]) + 1] = e
      <4>1. Len(kept[t]) + 1 - Len(kept[t]) + pos[t] - 1 = pos[t] /\ ~(Len(kept[t]) + 1 <= Len(kept[t]))
        BY <1>2
      <4>2. Outlook(t)[Len(kept[t]) + 1] = List(t)[Len(kept[t]) + 1 - Len(kept[t]) + pos[t] - 1]
        BY <3>2, <4>1 DEF Outlook
      <4> QED
        BY <4>1, <4>2
    <3>4. e.time < at[t] - Window
      BY <1>2, <2>1, <2>4, ConstantTypes DEF InWindow
    <3>5. ASSUME NEW i \in 1 .. Length(t) - 1
          PROVE  Outlook(t)'[i] = IF i <= Len(kept[t]) THEN kept[t][i]
                                  ELSE List(t)[i - Len(kept[t]) + (pos[t] + 1) - 1]
      BY <1>2, <2>2, <3>1, <3>2, <3>5 DEF Outlook
    <3>6. ASSUME NEW i \in 1 .. (Len(kept[t]) + 1) - 1
          PROVE  Outlook(t)'[i] = Outlook(t)[i]
      BY <1>2, <1>4, <3>2, <3>5, <3>6 DEF Outlook
    <3>7. ASSUME NEW i \in Len(kept[t]) + 1 .. Length(t) - 1
          PROVE  Outlook(t)'[i] = Outlook(t)[i + 1]
      <4>1. i \in 1 .. Length(t) - 1 /\ ~(i <= Len(kept[t])) /\ i + 1 \in 1 .. Length(t)
            /\ ~(i + 1 <= Len(kept[t]))
            /\ i - Len(kept[t]) + (pos[t] + 1) - 1 = (i + 1) - Len(kept[t]) + pos[t] - 1
        <5>1. i \in Nat /\ i >= Len(kept[t]) + 1 /\ i <= Length(t) - 1
          BY <1>2, <1>4
        <5>2. i \in 1 .. Length(t) - 1 /\ i + 1 \in 1 .. Length(t)
          BY <1>2, <1>4, <5>1
        <5>3. ~(i <= Len(kept[t])) /\ ~(i + 1 <= Len(kept[t]))
          BY <1>2, <5>1
        <5>4. i - Len(kept[t]) + (pos[t] + 1) - 1 = (i + 1) - Len(kept[t]) + pos[t] - 1
          <6>1. PICK k \in Int, p \in Int : k = Len(kept[t]) /\ p = pos[t]
            BY <1>2
          <6>2. i - k + (p + 1) - 1 = (i + 1) - k + p - 1
            BY <5>1
          <6> QED
            BY <6>1, <6>2
        <5> QED
          BY <5>2, <5>3, <5>4
      <4>2. Outlook(t)[i + 1] = List(t)[(i + 1) - Len(kept[t]) + pos[t] - 1]
        BY <4>1 DEF Outlook
      <4> QED
        BY <3>5, <4>1, <4>2
    <3>8. Tidy(Outlook(t)', Length(t) - 1, recorded[call[t].session], blurred[call[t].session], at[t])
      BY <1>2, <1>3, <1>4, <3>2, <3>3, <3>4, <3>6, <3>7, TidyDrop DEF TidyFor
    <3>9. (TidyFor(t, Outlook(t), Length(t)))'
      BY <1>1, <3>2, <3>8 DEF TidyFor
    <3> QED
      BY <1>1, <1>2, <1>3, <2>2, <3>1, <3>9 DEF Working
  <2> QED
    BY <2>3, <2>4
<1>6. CASE PastEnd(t, "filter")
  <2>1. step'[t] = "write" /\ kept' = kept
    BY <1>2, <1>6 DEF Filter, AtElement, PastEnd, Goto, TypeOK
  <2>2. Length(t) = Len(kept[t])
    BY <1>2, <1>3, <1>6 DEF PastEnd, Length
  <2>3. \A i \in 1 .. Len(kept[t]) : kept[t][i] = Outlook(t)[i]
    BY <2>2 DEF Outlook
  <2>4. TidyFor(t, kept[t], Len(kept[t]))
    <3>1. Tidy(Outlook(t), Len(kept[t]), recorded[call[t].session], blurred[call[t].session], at[t])
      BY <1>3, <2>2 DEF TidyFor
    <3>2. Tidy(kept[t], Len(kept[t]), recorded[call[t].session], blurred[call[t].session], at[t])
      <4>1. Len(kept[t]) \in Nat /\ recorded[call[t].session] \in Seq(Records)
            /\ blurred[call[t].session] \in Int /\ at[t] \in Int
        BY <1>2
      <4>2. PICK K, L : K = kept[t] /\ L = Outlook(t)
        OBVIOUS
      <4>3. PICK R \in Seq(Records), b \in Int, ref \in Int, m \in Nat :
              R = recorded[call[t].session] /\ b = blurred[call[t].session] /\ ref = at[t]
              /\ m = Len(kept[t])
        BY <4>1
      <4>4. Tidy(L, m, R, b, ref) /\ \A i \in 1 .. m : K[i] = L[i]
        BY <2>3, <3>1, <4>2, <4>3
      <4>5. Tidy(K, m, R, b, ref)
        BY <4>4, TidySame
      <4> QED
        BY <4>2, <4>3, <4>5
    <3> QED
      BY <3>2 DEF TidyFor
  <2>5. (TidyFor(t, kept[t], Len(kept[t])))'
    BY <1>1, <2>1, <2>4 DEF TidyFor
  <2> QED
    BY <1>1, <1>3, <2>1, <2>5 DEF Working
<1> QED
  BY <1>5, <1>6 DEF Filter

LEMMA CleanAtClock ==
    ASSUME TypeOK, TimesInv, TimesInv', LocalsInv, NEW t \in Threads, ReadClock(t),
           NEW s \in Sessions, call[t].session = s, blurred' = blurred, blurred[s] # now,
           Tidy(events[s], Len(events[s]), recorded[s], blurred[s], now)
    PROVE  Clean(t)' /\ Working(t)'
<1>1. /\ step[t] = "clock" /\ step'[t] = "filter" /\ pos'[t] = 1 /\ at'[t] = now
      /\ call' = call /\ events' = events /\ recorded' = recorded /\ kept'[t] = <<>> /\ now' = now
  BY DEF ReadClock, Goto, Alone, TypeOK, LocalsInv
<1>2. /\ events[s] \in Seq(Records) /\ recorded[s] \in Seq(Records)
      /\ blurred[s] \in Int /\ now \in Int /\ blurred[s] <= now /\ Len(events[s]) \in Nat
  BY ConstantTypes DEF TypeOK, Never, TimesInv
<1>3. Clean(t)'
  BY <1>1, <1>2 DEF Clean, Past
<1>4. List(t)' = events[s] /\ Len(kept'[t]) = 0
  BY <1>1 DEF List
<1>5. Length(t)' = Len(events[s])
  BY <1>1, <1>2, <1>4 DEF Length
<1>6. \A i \in 1 .. Len(events[s]) : Outlook(t)'[i] = events[s][i]
  <2> SUFFICES ASSUME NEW i \in 1 .. Len(events[s])
               PROVE  Outlook(t)'[i] = events[s][i]
    OBVIOUS
  <2>1. ~(i <= 0) /\ i - 0 + 1 - 1 = i
    BY <1>2
  <2>2. Outlook(t)'[i] = events[s][i - 0 + 1 - 1]
    BY <1>1, <1>4, <1>5, <2>1 DEF Outlook
  <2> QED
    BY <2>1, <2>2
<1>7. (TidyFor(t, Outlook(t), Length(t)))'
  <2>1. PICK K, L : K = Outlook(t)' /\ L = events[s]
    OBVIOUS
  <2>2. PICK R \in Seq(Records), b \in Int, ref \in Int, m \in Nat :
          R = recorded[s] /\ b = blurred[s] /\ ref = now /\ m = Len(events[s])
    BY <1>2
  <2>3. Tidy(L, m, R, b, ref) /\ \A i \in 1 .. m : K[i] = L[i]
    BY <1>6, <2>1, <2>2
  <2>4. Tidy(K, m, R, b, ref)
    BY <2>3, TidySame
  <2> QED
    BY <1>1, <1>5, <2>1, <2>2, <2>4 DEF TidyFor
<1>8. InWindowAll(kept[t], at[t])'
  BY <1>4 DEF InWindowAll
<1>9. Working(t)'
  BY <1>1, <1>2, <1>4, <1>7, <1>8 DEF Working
<1> QED
  BY <1>3, <1>9

LEMMA CleanAtWrite ==
    ASSUME TypeOK, NEW t \in Threads, WriteBack(t), Working(t), blurred' = blurred
    PROVE  Working(t)'
<1>1. /\ step[t] = "write" /\ step'[t] = "append" /\ call' = call /\ at' = at
      /\ recorded' = recorded /\ kept'[t] = <<>>
  BY DEF WriteBack, Goto, Alone, TypeOK
<1>2. call[t].session \in Sessions
  BY <1>1, CallTypes
<1>3. List(t)' = kept[t]
  BY <1>1, <1>2 DEF List, WriteBack, TypeOK
<1>4. InWindowAll(kept[t], at[t]) /\ TidyFor(t, kept[t], Len(kept[t]))
  BY <1>1 DEF Working
<1>5. (TidyFor(t, List(t), Len(List(t))))'
  BY <1>1, <1>3, <1>4 DEF TidyFor
<1>6. InWindowAll(kept'[t], at'[t])
  BY <1>1 DEF InWindowAll
<1> QED
  BY <1>1, <1>3, <1>4, <1>5, <1>6 DEF Working

LEMMA CleanAtAppend ==
    ASSUME TypeOK, LocalsInv, NEW t \in Threads, AppendRecord(t), Working(t), blurred' = blurred
    PROVE  Working(t)'
<1>1. /\ step[t] = "append" /\ step'[t] = "count_reads" /\ pos'[t] = 1
      /\ call' = call /\ at' = at /\ kept' = kept /\ counts' = counts
      /\ kept[t] = <<>> /\ counts[t] = NoCounts
  BY DEF AppendRecord, Goto, Alone, TypeOK, LocalsInv
<1>2. call[t].session \in Sessions
  BY <1>1, CallTypes
<1>3. /\ List(t) \in Seq(Records) /\ Record(t) \in Records /\ Record(t).time = at[t]
      /\ recorded[call[t].session] \in Seq(Records) /\ at[t] \in Int
      /\ blurred[call[t].session] \in Int /\ Len(List(t)) \in Nat
  BY <1>1, ListTypes DEF Record
<1>4. /\ List(t)' = Append(List(t), Record(t))
      /\ recorded'[call[t].session] = Append(recorded[call[t].session], Record(t))
  BY <1>1, <1>2 DEF List, AppendRecord, TypeOK
<1>5. InWindowAll(List(t), at[t]) /\ TidyFor(t, List(t), Len(List(t)))
  BY <1>1 DEF Working
<1>6. (TidyFor(t, List(t), Len(List(t))))'
  <2>1. PICK L \in Seq(Records), R \in Seq(Records), e \in Records, b \in Int :
          /\ L = List(t) /\ R = recorded[call[t].session] /\ e = Record(t)
          /\ b = blurred[call[t].session]
    BY <1>3
  <2>2. Tidy(L, Len(L), R, b, e.time)
    BY <1>3, <1>5, <2>1 DEF TidyFor
  <2>3. Tidy(Append(L, e), Len(Append(L, e)), Append(R, e), b, e.time)
    BY <2>2, TidyAppend
  <2> QED
    BY <1>1, <1>3, <1>4, <2>1, <2>3 DEF TidyFor
<1>7. InWindowAll(List(t), at[t])'
  <2>1. \A i \in 1 .. Len(List(t)') :
          List(t)'[i] = Record(t) \/ (i \in 1 .. Len(List(t)) /\ List(t)'[i] = List(t)[i])
    BY <1>3, <1>4
  <2>2. Record(t).time >= at[t] - Window
    BY <1>3, ConstantTypes
  <2> QED
    BY <1>1, <1>5, <2>1, <2>2 DEF InWindowAll
<1>8. Of(t, "read_file", pos[t] - 1)' = {} /\ pos'[t] <= Len(List(t)') + 1
  BY <1>1, <1>3, <1>4 DEF Of
<1>9. counts'[t] = [reads |-> Cardinality(Of(t, "read_file", pos[t] - 1)'), runs |-> 0]
  BY <1>1, <1>8, FS_EmptySet DEF NoCounts
<1>10. InWindowAll(kept'[t], at'[t])
  BY <1>1 DEF InWindowAll
<1> QED
  BY <1>1, <1>6, <1>7, <1>8, <1>9, <1>10 DEF Working

(* A loop has counted one more element.                                    *)
LEMMA OfNext ==
    ASSUME NEW t \in Threads, NEW p \in Nat \ {0}, NEW tool
    PROVE  /\ Cardinality(Of(t, tool, p - 1)) \in Nat
           /\ List(t)[p].tool = tool =>
                Cardinality(Of(t, tool, p)) = Cardinality(Of(t, tool, p - 1)) + 1
           /\ List(t)[p].tool # tool =>
                Cardinality(Of(t, tool, p)) = Cardinality(Of(t, tool, p - 1))
<1> DEFINE S == Of(t, tool, p - 1)
<1>1. IsFiniteSet(S)
  <2>1. IsFiniteSet(1 .. p - 1)
    BY FS_Interval
  <2> QED
    BY <2>1, FS_Subset DEF Of
<1>2. p \notin S
  BY DEF Of
<1>3. \A i : i \in 1 .. p <=> i \in 1 .. p - 1 \/ i = p
  OBVIOUS
<1>4. List(t)[p].tool = tool => Of(t, tool, p) = S \cup {p}
  BY <1>3 DEF Of
<1>5. List(t)[p].tool # tool => Of(t, tool, p) = S
  BY <1>3 DEF Of
<1> HIDE DEF S
<1>6. Cardinality(S) \in Nat /\ Cardinality(S \cup {p}) = Cardinality(S) + 1
  BY <1>1, <1>2, FS_AddElement, FS_CardinalityType
<1> QED
  BY <1>4, <1>5, <1>6 DEF S

LEMMA CleanAtCount ==
    ASSUME TypeOK, NEW t \in Threads, Count(t), Working(t), blurred' = blurred
    PROVE  Working(t)'
<1>1. /\ step[t] \in {"count_reads", "count_runs"} /\ call' = call /\ at' = at
      /\ events' = events /\ recorded' = recorded /\ kept' = kept
  BY DEF Count, AtElement, PastEnd, Alone
<1>2. /\ List(t)' = List(t) /\ Len(List(t)) \in Nat /\ pos[t] \in Nat \ {0}
      /\ counts \in [Threads -> [reads : Nat, runs : Nat]]
  BY <1>1, ListTypes DEF List, TypeOK
<1>3. /\ InWindowAll(kept[t], at[t]) /\ InWindowAll(List(t), at[t])
      /\ TidyFor(t, List(t), Len(List(t))) /\ pos[t] <= Len(List(t)) + 1
  BY <1>1 DEF Working
<1>4. /\ (InWindowAll(kept[t], at[t]))' /\ (InWindowAll(List(t), at[t]))'
      /\ (TidyFor(t, List(t), Len(List(t))))'
  BY <1>1, <1>2, <1>3 DEF TidyFor
<1>5. \A tool, n : Of(t, tool, n)' = Of(t, tool, n)
  BY <1>2 DEF Of
<1>6. Of(t, "run_command", 0) = {}
  BY DEF Of
<1>7. CASE AtElement(t, "count_reads")
  <2>1. step'[t] = "count_reads" /\ pos'[t] = pos[t] + 1 /\ pos[t] <= Len(List(t))
    BY <1>2, <1>7 DEF Count, PastEnd, AtElement, Advance, TypeOK
  <2>2. counts[t] = [reads |-> Cardinality(Of(t, "read_file", pos[t] - 1)), runs |-> 0]
    BY <1>7 DEF Working, AtElement
  <2>3. counts' = IF List(t)[pos[t]].tool = "read_file"
                  THEN [counts EXCEPT ![t].reads = @ + 1] ELSE counts
    BY <1>2, <1>7 DEF Count, PastEnd, AtElement
  <2>4. /\ counts'[t] \in [reads : Nat, runs : Nat] /\ counts'[t].runs = 0
        /\ counts'[t].reads = Cardinality(Of(t, "read_file", pos[t]))
    <3>1. counts[t].reads = Cardinality(Of(t, "read_file", pos[t] - 1)) /\ counts[t].runs = 0
      BY <2>2
    <3>2. CASE List(t)[pos[t]].tool = "read_file"
      <4>1. counts'[t].reads = counts[t].reads + 1 /\ counts'[t].runs = counts[t].runs
            /\ counts'[t] \in [reads : Nat, runs : Nat]
        BY <1>2, <2>3, <3>2
      <4>2. Cardinality(Of(t, "read_file", pos[t])) = Cardinality(Of(t, "read_file", pos[t] - 1)) + 1
        BY <1>2, <3>2, OfNext
      <4> QED
        BY <3>1, <4>1, <4>2
    <3>3. CASE List(t)[pos[t]].tool # "read_file"
      BY <1>2, <2>3, <3>1, <3>3, OfNext
    <3> QED
      BY <3>2, <3>3
  <2>5. counts'[t] = [reads |-> Cardinality(Of(t, "read_file", pos[t])), runs |-> 0]
    BY <2>4
  <2>6. pos'[t] - 1 = pos[t] /\ pos'[t] <= Len(List(t)) + 1
    BY <1>2, <2>1
  <2> QED
    BY <1>2, <1>4, <1>5, <2>1, <2>5, <2>6 DEF Working
<1>8. CASE AtElement(t, "count_runs")
  <2>1. step'[t] = "count_runs" /\ pos'[t] = pos[t] + 1 /\ pos[t] <= Len(List(t))
    BY <1>2, <1>8 DEF Count, PastEnd, AtElement, Advance, TypeOK
  <2>2. counts[t] = [reads |-> Cardinality(Of(t, "read_file", Len(List(t)))),
                     runs  |-> Cardinality(Of(t, "run_command", pos[t] - 1))]
    BY <1>8 DEF Working, AtElement
  <2>3. counts' = IF List(t)[pos[t]].tool = "run_command"
                  THEN [counts EXCEPT ![t].runs = @ + 1] ELSE counts
    BY <1>2, <1>8 DEF Count, PastEnd, AtElement
  <2>4. /\ counts'[t] \in [reads : Nat, runs : Nat]
        /\ counts'[t].reads = Cardinality(Of(t, "read_file", Len(List(t))))
        /\ counts'[t].runs = Cardinality(Of(t, "run_command", pos[t]))
    <3>1. counts[t].reads = Cardinality(Of(t, "read_file", Len(List(t))))
          /\ counts[t].runs = Cardinality(Of(t, "run_command", pos[t] - 1))
      BY <2>2
    <3>2. CASE List(t)[pos[t]].tool = "run_command"
      <4>1. counts'[t].runs = counts[t].runs + 1 /\ counts'[t].reads = counts[t].reads
            /\ counts'[t] \in [reads : Nat, runs : Nat]
        BY <1>2, <2>3, <3>2
      <4>2. Cardinality(Of(t, "run_command", pos[t])) = Cardinality(Of(t, "run_command", pos[t] - 1)) + 1
        BY <1>2, <3>2, OfNext
      <4> QED
        BY <3>1, <4>1, <4>2
    <3>3. CASE List(t)[pos[t]].tool # "run_command"
      BY <1>2, <2>3, <3>1, <3>3, OfNext
    <3> QED
      BY <3>2, <3>3
  <2>5. counts'[t] = [reads |-> Cardinality(Of(t, "read_file", Len(List(t)))),
                      runs  |-> Cardinality(Of(t, "run_command", pos[t]))]
    BY <2>4
  <2>6. pos'[t] - 1 = pos[t] /\ pos'[t] <= Len(List(t)) + 1
    BY <1>2, <2>1
  <2> QED
    BY <1>2, <1>4, <1>5, <2>1, <2>5, <2>6 DEF Working
<1>9. CASE PastEnd(t, "count_reads")
  <2>1. step'[t] = "count_runs" /\ pos'[t] = 1 /\ counts' = counts /\ pos[t] > Len(List(t))
    BY <1>2, <1>9 DEF Count, PastEnd, AtElement, Goto, TypeOK
  <2>2. pos[t] - 1 = Len(List(t)) /\ pos'[t] - 1 = 0 /\ pos'[t] <= Len(List(t)) + 1
    BY <1>2, <1>3, <2>1
  <2>3. counts'[t] = [reads |-> Cardinality(Of(t, "read_file", Len(List(t)))),
                      runs  |-> Cardinality(Of(t, "run_command", pos'[t] - 1))]
    BY <1>6, <1>9, <2>1, <2>2, FS_EmptySet DEF Working, PastEnd
  <2> QED
    BY <1>2, <1>4, <1>5, <2>1, <2>2, <2>3 DEF Working
<1>10. CASE PastEnd(t, "count_runs")
  <2>1. step'[t] = "scored" /\ counts' = counts /\ pos[t] > Len(List(t))
    BY <1>2, <1>10 DEF Count, PastEnd, AtElement, Goto, TypeOK
  <2>2. pos[t] - 1 = Len(List(t))
    BY <1>2, <1>3, <2>1
  <2>3. counts'[t] = [reads |-> Cardinality(Of(t, "read_file", Len(List(t)))),
                      runs  |-> Cardinality(Of(t, "run_command", Len(List(t))))]
    BY <1>10, <2>1, <2>2 DEF Working, PastEnd
  <2> QED
    BY <1>2, <1>4, <1>5, <2>1, <2>3 DEF Working
<1> QED
  BY <1>7, <1>8, <1>9, <1>10 DEF Count

-----------------------------------------------------------------------------
(* Every step keeps the sessions as they should be *)

LEMMA RecordSessions ==
    ASSUME TrackerInv, TypeOK', TimesInv', NEW t \in Threads, RecordAndCount(t),
           NEW s \in Sessions
    PROVE  SessionInv(s)'
<1>1. TypeOK /\ TimesInv /\ LocalsInv /\ SessionInv(s)
  BY DEF TrackerInv
<1>2. NowIsStale' /\ StaleIsEnough' /\ AloneIsEnough'
  BY EnoughAfterwards
<1>3. /\ step[t] \notin {"idle", "scored"} /\ step'[t] \notin {"idle", "clock"}
      /\ Blur(t, call[t].session) /\ call' = call /\ now' = now /\ call[t] # NoCall
      /\ call[t].session \in Sessions
  BY <1>1, RecordSteps, CallTypes
<1>4. Active(s)' = Active(s) /\ Active(s) \subseteq Threads
  BY <1>3 DEF Active
<1>5. CASE call[t].session # s
  <2>1. t \notin Active(s)
    BY <1>5 DEF Active
  <2>2. events'[s] = events[s] /\ recorded'[s] = recorded[s] /\ blurred'[s] = blurred[s]
    BY <1>1, <1>3, <1>5, RecordSteps, BlurTimes
  <2>3. \A u \in Active(s) :
            /\ call'[u] = call[u] /\ step'[u] = step[u] /\ at'[u] = at[u]
            /\ pos'[u] = pos[u] /\ kept'[u] = kept[u] /\ counts'[u] = counts[u]
    BY <1>1, <1>3, <1>4, <2>1, RecordSteps
  <2> QED
    BY <1>1, <1>3, <1>4, <2>2, <2>3, Untouched
<1>6. CASE call[t].session = s /\ \E u \in Threads \ {t} : call[u] # NoCall /\ call[u].session = s
  <2>1. blurred'[s] = now'
    BY <1>1, <1>3, <1>6 DEF Blur, TypeOK
  <2> QED
    BY <1>2, <2>1 DEF NowIsStale, StaleIsEnough
<1>7. CASE call[t].session = s /\ ~ \E u \in Threads \ {t} : call[u] # NoCall /\ call[u].session = s
  <2>1. blurred' = blurred /\ Active(s) = {t} /\ Active(s)' = {t}
    BY <1>3, <1>4, <1>7 DEF Blur, Active
  <2>2. at[t] \in Int /\ blurred[s] \in Int
    BY <1>1, ConstantTypes DEF TypeOK, Never
  <2>3. Past(t)'
    BY <1>3 DEF Past
  <2>4. CASE step[t] = "clock"
    <3>1. ReadClock(t)
      BY <2>4 DEF RecordAndCount, Filter, WriteBack, AppendRecord, Count, AtElement, PastEnd
    <3>2. Tidy(events[s], Len(events[s]), recorded[s], blurred[s], now)
      BY <1>1, <2>1, <2>4 DEF SessionInv, Past
    <3>3. CASE blurred[s] = now
      BY <1>2, <1>3, <2>1, <3>3 DEF NowIsStale, StaleIsEnough
    <3>4. CASE blurred[s] # now
      <4>1. Clean(t)' /\ Working(t)'
        BY <1>1, <1>7, <2>1, <3>1, <3>2, <3>4, CleanAtClock
      <4> QED
        BY <1>2, <2>1, <2>3, <4>1 DEF AloneIsEnough
    <3> QED
      BY <3>3, <3>4
  <2>5. CASE step[t] # "clock" /\ at[t] <= blurred[s]
    <3>1. Stale(s)
      BY <1>1, <1>3, <2>1, <2>5 DEF SessionInv, Overlapped, Past
    <3>2. Stale(s)'
      BY <1>1, <1>7, <2>1, <2>5, <3>1, StaleStays
    <3> QED
      BY <1>2, <3>2 DEF StaleIsEnough
  <2>6. CASE step[t] # "clock" /\ ~(at[t] <= blurred[s])
    <3>1. Clean(t)
      BY <1>3, <1>7, <2>2, <2>6 DEF Clean, Past
    <3>2. Working(t)
      BY <1>1, <2>1, <3>1 DEF SessionInv
    <3>3. ~ReadClock(t)
      BY <2>6 DEF ReadClock
    <3>4. Working(t)' /\ at' = at
      <4>1. CASE Filter(t)
        BY <1>1, <2>1, <3>2, <4>1, CleanAtFilter DEF Filter
      <4>2. CASE WriteBack(t)
        BY <1>1, <2>1, <3>2, <4>2, CleanAtWrite DEF WriteBack
      <4>3. CASE AppendRecord(t)
        BY <1>1, <2>1, <3>2, <4>3, CleanAtAppend DEF AppendRecord
      <4>4. CASE Count(t)
        BY <1>1, <2>1, <3>2, <4>4, CleanAtCount DEF Count
      <4> QED
        BY <3>3, <4>1, <4>2, <4>3, <4>4 DEF RecordAndCount
    <3>5. Clean(t)'
      BY <1>3, <2>1, <2>3, <3>1, <3>4 DEF Clean
    <3> QED
      BY <1>2, <2>1, <2>3, <3>4, <3>5 DEF AloneIsEnough
  <2> QED
    BY <2>4, <2>5, <2>6
<1> QED
  BY <1>5, <1>6, <1>7

LEMMA BeginSessions ==
    ASSUME TrackerInv, TypeOK', TimesInv', NEW t \in Threads, NEW c \in Calls, Begin(t, c),
           NEW s \in Sessions
    PROVE  SessionInv(s)'
<1>1. TypeOK /\ TimesInv /\ SessionInv(s)
  BY DEF TrackerInv
<1>2. NowIsStale' /\ StaleIsEnough' /\ AloneIsEnough'
  BY EnoughAfterwards
<1>3. /\ step[t] = "idle" /\ step'[t] = "clock" /\ call[t] = NoCall /\ call'[t] = c /\ c # NoCall
      /\ c.session \in Sessions
      /\ Blur(t, c.session) /\ UNCHANGED <<now, events, at, kept, counts, recorded>>
      /\ \A u \in Threads \ {t} : call'[u] = call[u] /\ step'[u] = step[u] /\ pos'[u] = pos[u]
  BY <1>1, CallsAreCalls DEF Begin, Goto, TypeOK
<1>4. CASE c.session # s
  <2>1. t \notin Active(s) /\ Active(s)' = Active(s) /\ Active(s) \subseteq Threads
    BY <1>3, <1>4 DEF Active
  <2>2. blurred'[s] = blurred[s]
    BY <1>1, <1>3, <1>4, BlurTimes
  <2> QED
    BY <1>1, <1>3, <2>1, <2>2, Untouched
<1>5. CASE c.session = s /\ \E u \in Threads \ {t} : call[u] # NoCall /\ call[u].session = s
  <2>1. blurred'[s] = now'
    BY <1>1, <1>3, <1>5 DEF Blur, TypeOK
  <2> QED
    BY <1>2, <2>1 DEF NowIsStale, StaleIsEnough
<1>6. CASE c.session = s /\ ~ \E u \in Threads \ {t} : call[u] # NoCall /\ call[u].session = s
  <2>1. blurred' = blurred /\ Active(s) = {} /\ Active(s)' = {t}
    BY <1>3, <1>6 DEF Blur, Active
  <2>2. Tidy(events[s], Len(events[s]), recorded[s], blurred[s], now)
    BY <1>1, <2>1 DEF SessionInv
  <2>3. ~Past(t)'
    BY <1>3 DEF Past
  <2> QED
    BY <1>2, <1>3, <2>1, <2>2, <2>3 DEF AloneIsEnough
<1> QED
  BY <1>4, <1>5, <1>6

LEMMA SettleSessions ==
    ASSUME TrackerInv, TypeOK', TimesInv', NEW t \in Threads, Settle(t), NEW s \in Sessions
    PROVE  SessionInv(s)'
<1>1. TypeOK /\ TimesInv /\ SessionInv(s)
  BY DEF TrackerInv
<1>2. NowIsStale' /\ StaleIsEnough'
  BY EnoughAfterwards
<1>3. /\ step[t] = "scored" /\ call[t] # NoCall /\ call'[t] = NoCall
      /\ call[t].session \in Sessions /\ Blur(t, call[t].session)
      /\ UNCHANGED <<now, events, kept, recorded>>
      /\ \A u \in Threads \ {t} : call'[u] = call[u] /\ step'[u] = step[u] /\ pos'[u] = pos[u]
                                  /\ at'[u] = at[u] /\ counts'[u] = counts[u]
  BY <1>1, CallTypes DEF Settle, Goto, TypeOK
<1>4. CASE call[t].session # s
  <2>1. t \notin Active(s) /\ Active(s)' = Active(s) /\ Active(s) \subseteq Threads
    BY <1>3, <1>4 DEF Active
  <2>2. blurred'[s] = blurred[s]
    BY <1>1, <1>3, <1>4, BlurTimes
  <2> QED
    BY <1>1, <1>3, <2>1, <2>2, Untouched
<1>5. CASE call[t].session = s /\ \E u \in Threads \ {t} : call[u] # NoCall /\ call[u].session = s
  <2>1. blurred'[s] = now'
    BY <1>1, <1>3, <1>5 DEF Blur, TypeOK
  <2> QED
    BY <1>2, <2>1 DEF NowIsStale, StaleIsEnough
<1>6. CASE call[t].session = s /\ ~ \E u \in Threads \ {t} : call[u] # NoCall /\ call[u].session = s
  <2>1. blurred' = blurred /\ Active(s) = {t} /\ Active(s)' = {}
    BY <1>3, <1>6 DEF Blur, Active
  <2>2. /\ at[t] \in Int /\ blurred[s] \in Int /\ now \in Int /\ at[t] <= now
        /\ events[s] \in Seq(Records) /\ recorded[s] \in Seq(Records)
    <3>1. at[t] <= now
      BY <1>1 DEF TimesInv
    <3>2. at[t] \in Int /\ now \in Int
      BY <1>1, ConstantTypes DEF TypeOK
    <3>3. blurred[s] \in Int
      BY <1>1, ConstantTypes DEF TypeOK, Never
    <3>4. events[s] \in Seq(Records) /\ recorded[s] \in Seq(Records)
      BY <1>1 DEF TypeOK
    <3> QED
      BY <3>1, <3>2, <3>3, <3>4
  <2>3. CASE at[t] <= blurred[s]
    <3>1. Stale(s)
      BY <1>1, <1>3, <2>1, <2>3 DEF SessionInv, Overlapped, Past
    <3>2. Stale(s)'
      BY <1>3, <2>1, <3>1 DEF Stale
    <3> QED
      BY <1>2, <3>2 DEF StaleIsEnough
  <2>4. CASE ~(at[t] <= blurred[s])
    <3>1. Clean(t)
      BY <1>3, <1>6, <2>2, <2>4 DEF Clean, Past
    <3>2. Working(t)
      BY <1>1, <2>1, <3>1 DEF SessionInv
    <3>3. Tidy(events[s], Len(events[s]), recorded[s], blurred[s], at[t])
      BY <1>3, <1>6, <3>2 DEF Working, TidyFor, List
    <3>4. Tidy(events[s], Len(events[s]), recorded[s], blurred[s], now)
      <4>1. PICK L \in Seq(Records), R \in Seq(Records) : L = events[s] /\ R = recorded[s]
        BY <2>2
      <4>2. Tidy(L, Len(L), R, blurred[s], at[t]) /\ Len(L) \in Nat
            /\ \A i \in 1 .. Len(L) : L[i] \in Records
        BY <3>3, <4>1
      <4>3. Tidy(L, Len(L), R, blurred[s], now)
        BY <2>2, <4>2, TidyLater
      <4> QED
        BY <4>1, <4>3
    <3> QED
      BY <1>3, <2>1, <3>4 DEF SessionInv, Overlapped
  <2> QED
    BY <2>3, <2>4
<1> QED
  BY <1>4, <1>5, <1>6

LEMMA NextSessions == TrackerInv /\ TypeOK' /\ TimesInv' /\ [Next]_vars => \A s \in Sessions : SessionInv(s)'
<1> SUFFICES ASSUME TrackerInv, TypeOK', TimesInv', [Next]_vars, NEW s \in Sessions
             PROVE  SessionInv(s)'
  OBVIOUS
<1>1. TypeOK /\ SessionInv(s)
  BY DEF TrackerInv
<1>2. CASE AgentCalls
  BY <1>2, BeginSessions DEF AgentCalls, Threads
<1>3. ASSUME NEW t \in ApiThreads, ApprovalCalls(t)
      PROVE  SessionInv(s)'
  <2>1. PICK u \in Sessions, tool \in Approvable : Begin(t, Again(u, tool))
    BY <1>3 DEF ApprovalCalls
  <2>2. Again(u, tool) \in Calls
    BY AgainIsACall
  <2> QED
    BY <2>1, <2>2, BeginSessions DEF Threads
<1>4. ASSUME NEW t \in Threads, RecordAndCount(t)
      PROVE  SessionInv(s)'
  BY <1>4, RecordSessions
<1>5. ASSUME NEW t \in Threads, Settle(t)
      PROVE  SessionInv(s)'
  BY <1>5, SettleSessions
<1>6. CASE Tick
  <2>1. now' = now + 1 /\ UNCHANGED <<events, step, call, at, pos, kept, counts, recorded, blurred>>
    BY <1>6 DEF Tick, locals
  <2>2. Active(s)' = Active(s)
    BY <2>1 DEF Active
  <2>3. Tidy(events[s], Len(events[s]), recorded[s], blurred[s], now)
          => Tidy(events[s], Len(events[s]), recorded[s], blurred[s], now')
    <3> SUFFICES ASSUME Tidy(events[s], Len(events[s]), recorded[s], blurred[s], now)
                 PROVE  Tidy(events[s], Len(events[s]), recorded[s], blurred[s], now')
      OBVIOUS
    <3>1. now \in Int /\ now' \in Int /\ now <= now' /\ blurred[s] \in Int
          /\ events[s] \in Seq(Records) /\ recorded[s] \in Seq(Records)
      BY <1>1, <2>1, ConstantTypes DEF TypeOK, Never
    <3>2. PICK L \in Seq(Records), R \in Seq(Records), later \in Int :
            L = events[s] /\ R = recorded[s] /\ later = now'
      BY <3>1
    <3>3. Tidy(L, Len(L), R, blurred[s], now) /\ Len(L) \in Nat
          /\ \A i \in 1 .. Len(L) : L[i] \in Records
      BY <3>2
    <3>4. Tidy(L, Len(L), R, blurred[s], later)
      BY <3>1, <3>2, <3>3, TidyLater
    <3> QED
      BY <3>2, <3>4
  <2> QED
    BY <1>1, <2>1, <2>2, <2>3, Untouched
<1>7. CASE UNCHANGED vars
  <2>1. UNCHANGED <<now, events, step, call, at, pos, kept, counts, recorded, blurred>>
    BY <1>7 DEF vars, locals
  <2>2. Active(s)' = Active(s)
    BY <2>1 DEF Active
  <2> QED
    BY <1>1, <2>1, <2>2, Untouched
<1> QED
  BY <1>2, <1>3, <1>4, <1>5, <1>6, <1>7 DEF Next

LEMMA TrackerAlways == Spec => []TrackerInv
<1>1. TrackerInv /\ [Next]_vars => TrackerInv'
  BY NextTypes, NextInTime, NextSessions DEF TrackerInv
<1> QED
  BY InitInv, <1>1, PTL DEF Spec

-----------------------------------------------------------------------------
(* Calls of two threads may lose or double each other's records; but a     *)
(* call that is scored more than a window after the last overlap counts    *)
(* exactly the calls of the last Window seconds.                           *)
THEOREM CountsHeal == Spec => []CountsAreExact
<1>1. TrackerInv => CountsAreExact
  <2> SUFFICES ASSUME TrackerInv, NEW t \in Threads, step[t] = "scored", Clear(t)
               PROVE  counts[t] = [reads |-> Cardinality(InReach(t, "read_file")),
                                   runs  |-> Cardinality(InReach(t, "run_command"))]
    BY DEF CountsAreExact
  <2> DEFINE s == call[t].session
  <2>1. TypeOK /\ SessionInv(s) /\ s \in Sessions /\ call[t] # NoCall
    BY CallTypes DEF TrackerInv
  <2>2. /\ events[s] \in Seq(Records) /\ recorded[s] \in Seq(Records) /\ List(t) = events[s]
        /\ at[t] \in Int /\ blurred[s] \in Int /\ blurred[s] < at[t] - Window
    BY <2>1, ListTypes DEF List, Clear
  <2>3. Clean(t) /\ t \in Active(s)
    BY <2>1, <2>2, ConstantTypes DEF Clean, Past, Active
  <2>4. Working(t)
    BY <2>1, <2>3 DEF SessionInv
  <2>5. /\ InWindowAll(events[s], at[t])
        /\ Tidy(events[s], Len(events[s]), recorded[s], blurred[s], at[t])
        /\ counts[t] = [reads |-> Cardinality(Of(t, "read_file", Len(List(t)))),
                        runs  |-> Cardinality(Of(t, "run_command", Len(List(t))))]
    BY <2>2, <2>4 DEF Working, TidyFor
  <2>6. ASSUME NEW tool
        PROVE  Cardinality(Of(t, tool, Len(List(t)))) = Cardinality(InReach(t, tool))
    <3>1. PICK L \in Seq(Records), R \in Seq(Records), b \in Int, ref \in Int :
            L = events[s] /\ R = recorded[s] /\ b = blurred[s] /\ ref = at[t]
      BY <2>2
    <3>2. Tidy(L, Len(L), R, b, ref) /\ b < ref - Window /\ InWindowAll(L, ref)
      BY <2>2, <2>5, <3>1
    <3>3. Cardinality(OfTool(L, tool)) = Cardinality(InReachOf(R, tool, ref))
      BY <3>2, TidyCounts
    <3>4. Of(t, tool, Len(List(t))) = OfTool(L, tool)
      BY <2>2, <3>1 DEF Of, OfTool
    <3>5. InReach(t, tool) = InReachOf(R, tool, ref)
      BY <3>1 DEF InReach, InReachOf
    <3> QED
      BY <3>3, <3>4, <3>5
  <2> QED
    BY <2>5, <2>6
<1> QED
  BY <1>1, TrackerAlways, PTL
=============================================================================

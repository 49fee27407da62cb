--------------------------- MODULE AuditLogProofs ---------------------------
(***************************************************************************)
(* What the audit log keeps, proved for any number of writers, events and  *)
(* short writes: what became of each append (LogInv), how much of the log  *)
(* short writes can cost (LossIsBounded), that a loss is counted           *)
(* (LossIsCounted) and that what could be read once stays readable         *)
(* (ReadableStays).                                                        *)
(*                                                                         *)
(* LogInv is not inductive: it does not say that two writers never hold    *)
(* pieces of one event, nor where in the file the pieces of an event are.  *)
(***************************************************************************)
EXTENDS AuditLog, FiniteSetTheorems, WellFoundedInduction, TLAPS

(* A writer between its two writes has written the head of its event, and  *)
(* nobody else is busy with that event or done with it.                    *)
WritersInv ==
    \A w \in Writers : writing[w] # NoPiece =>
        /\ writing[w].part = "head"
        /\ writing[w].event \notin returned \cup raised
        /\ \A v \in Writers : writing[v] # NoPiece /\ writing[v].event = writing[w].event => v = w

(* Two pieces of one event are its head and, later, its tail.              *)
OrderInv ==
    \A i, j \in DOMAIN file :
        i < j /\ file[i].event = file[j].event
            => file[i].part = "head" /\ file[j].part = "tail"

Heads == {i \in DOMAIN file : file[i].part = "head"}

(* Every short write has left one head.                                    *)
HeadsInv == Cardinality(Heads) = shorts

LogIInv == LogInv /\ WritersInv /\ OrderInv /\ HeadsInv

-----------------------------------------------------------------------------
(* The pieces of an event after one more piece was written                 *)

LEMMA Appended ==
    ASSUME TypeOK, NEW p \in Pieces, file' = Append(file, p)
    PROVE  /\ file' \in Seq(Pieces)
           /\ DOMAIN file' = DOMAIN file \cup {Len(file) + 1}
           /\ \A i \in DOMAIN file : file'[i] = file[i] /\ i \in Nat /\ i < Len(file) + 1
           /\ file'[Len(file) + 1] = p
  BY DEF TypeOK

LEMMA PartsOfOthers ==
    ASSUME TypeOK, NEW p \in Pieces, file' = Append(file, p), NEW e, e # p.event
    PROVE  PartsOf(e)' = PartsOf(e)
<1>1. \A i \in DOMAIN file' : file'[i].event = e <=> i \in DOMAIN file /\ file[i].event = e
  BY Appended
<1>2. \A i \in DOMAIN file : file'[i].part = file[i].part
  BY Appended
<1> QED
  BY <1>1, <1>2, Appended DEF PartsOf

LEMMA PartsOfAppended ==
    ASSUME TypeOK, NEW p \in Pieces, file' = Append(file, p)
    PROVE  PartsOf(p.event)' = PartsOf(p.event) \cup {p.part}
<1>1. PartsOf(p.event)' \subseteq PartsOf(p.event) \cup {p.part}
  BY Appended DEF PartsOf
<1>2. PartsOf(p.event) \subseteq PartsOf(p.event)'
  BY Appended DEF PartsOf
<1>3. p.part \in PartsOf(p.event)'
  BY Appended DEF PartsOf
<1> QED
  BY <1>1, <1>2, <1>3

(* The smallest of a set of naturals                                       *)
Below == {ss \in Nat \X Nat : ss[1] < ss[2]}

LEMMA Smallest ==
    ASSUME NEW T \in SUBSET Nat, T # {}
    PROVE  \E x \in T : \A y \in T : x <= y
<1>1. IsWellFoundedOn(Below, Nat)
  BY NatLessThanWellFounded DEF OpToRel, Below
<1>2. \E x \in T : \A y \in T : ~(<<y, x>> \in Below)
  BY <1>1, WFMin
<1>3. ASSUME NEW x \in Nat, NEW y \in Nat, y < x
      PROVE  <<y, x>> \in Below
  <2>1. <<y, x>> \in Nat \X Nat /\ <<y, x>>[1] < <<y, x>>[2]
    BY <1>3
  <2> QED
    BY <2>1 DEF Below
<1>4. PICK x \in T : \A y \in T : ~(<<y, x>> \in Below)
  BY <1>2
<1>5. \A y \in T : ~(y < x)
  BY <1>3, <1>4
<1> QED
  BY <1>5

-----------------------------------------------------------------------------
(* How one more piece changes the parts of the invariant                   *)

LEMMA OrderKept ==
    ASSUME TypeOK, OrderInv, NEW p \in Pieces, file' = Append(file, p),
           \A i \in DOMAIN file : file[i].event = p.event
               => file[i].part = "head" /\ p.part = "tail"
    PROVE  OrderInv'
<1> SUFFICES ASSUME NEW i \in DOMAIN file', NEW j \in DOMAIN file', i < j,
                    file'[i].event = file'[j].event
             PROVE  file'[i].part = "head" /\ file'[j].part = "tail"
  BY DEF OrderInv
<1>1. i \in DOMAIN file /\ file'[i] = file[i]
  BY Appended DEF TypeOK
<1>2. CASE j \in DOMAIN file
  BY <1>1, <1>2, Appended DEF OrderInv
<1>3. CASE j = Len(file) + 1
  BY <1>1, <1>3, Appended
<1> QED
  BY <1>2, <1>3, Appended

LEMMA HeadsFinite ==
    ASSUME TypeOK
    PROVE  IsFiniteSet(Heads)
<1>1. Heads \in SUBSET (1 .. Len(file))
  BY DEF Heads, TypeOK
<1>2. IsFiniteSet(1 .. Len(file))
  BY FS_Interval DEF TypeOK
<1> QED
  BY <1>1, <1>2, FS_Subset

LEMMA HeadAppended ==
    ASSUME TypeOK, HeadsInv, NEW p \in Pieces, file' = Append(file, p),
           p.part = "head", shorts' = shorts + 1
    PROVE  HeadsInv'
<1>1. Heads' = Heads \cup {Len(file) + 1}
  BY Appended DEF Heads
<1>2. Len(file) + 1 \notin Heads
  BY DEF Heads, TypeOK
<1>3. Cardinality(Heads \cup {Len(file) + 1}) = Cardinality(Heads) + 1
  BY <1>2, HeadsFinite, FS_AddElement
<1> QED
  BY <1>1, <1>3 DEF HeadsInv

LEMMA OtherAppended ==
    ASSUME TypeOK, HeadsInv, NEW p \in Pieces, file' = Append(file, p),
           p.part # "head", shorts' = shorts
    PROVE  HeadsInv'
<1>1. Heads' = Heads
  BY Appended DEF Heads
<1> QED
  BY <1>1 DEF HeadsInv

-----------------------------------------------------------------------------
(* Each action keeps the invariant *)

LEMMA InitLog == Init => LogIInv
<1> SUFFICES ASSUME Init PROVE LogIInv
  OBVIOUS
<1>1. DOMAIN file = {}
  BY DEF Init
<1>2. TypeOK
  BY CutsAssumption DEF Init, TypeOK
<1>3. \A e : PartsOf(e) = {}
  BY <1>1 DEF PartsOf
<1>4. LogInv /\ WritersInv
  BY <1>2, <1>3 DEF Init, LogInv, WritersInv
<1>5. OrderInv
  BY <1>1 DEF OrderInv
<1>6. HeadsInv
  BY <1>1, FS_EmptySet DEF Heads, HeadsInv, Init
<1> QED
  BY <1>4, <1>5, <1>6 DEF LogIInv

LEMMA Unbegun ==
    ASSUME LogIInv, NEW e \in Events, ~Begun(e)
    PROVE  /\ PartsOf(e) = {}
           /\ \A i \in DOMAIN file : file[i].event # e
           /\ e \notin returned \cup raised
           /\ \A w \in Writers : writing[w] # NoPiece => writing[w].event # e
  BY DEF LogIInv, LogInv, PartsOf, Begun

LEMMA Held ==
    ASSUME LogIInv, NEW w \in Writers, writing[w] # NoPiece
    PROVE  /\ writing[w] \in Pieces /\ writing[w].part = "head"
           /\ writing[w].event \in Events
           /\ PartsOf(writing[w].event) = {"head"}
           /\ writing[w].event \notin returned \cup raised
           /\ [writing[w] EXCEPT !.part = "tail"] \in Pieces
<1>1. writing[w] \in Pieces /\ writing[w].part = "head"
  BY DEF LogIInv, LogInv, TypeOK, WritersInv
<1>2. [writing[w] EXCEPT !.part = "tail"] \in Pieces
  BY <1>1 DEF Pieces
<1>3. writing[w].event \in Events
  BY <1>1 DEF Pieces
<1> QED
  BY <1>1, <1>2, <1>3 DEF LogIInv, LogInv, WritersInv

LEMMA AppendLineStep ==
    ASSUME LogIInv, NEW w \in Writers, NEW e \in Events, AppendLine(w, e)
    PROVE  LogIInv'
<1> DEFINE p == [event |-> e, part |-> "all", cut |-> "none"]
<1>1. /\ TypeOK /\ p \in Pieces /\ file' = Append(file, p) /\ p.part = "all" /\ p.event = e
      /\ returned' = returned \cup {e} /\ raised' = raised
      /\ writing' = writing /\ shorts' = shorts /\ ~Begun(e)
  BY DEF AppendLine, Ready, LogIInv, LogInv, Pieces
<1>2. TypeOK'
  BY <1>1, Appended DEF TypeOK
<1>3. PartsOf(e)' = {"all"}
  BY <1>1, PartsOfAppended, Unbegun
<1>4. \A d \in Events \ {e} : PartsOf(d)' = PartsOf(d) /\ Begun(d)' = Begun(d)
  BY <1>1, PartsOfOthers DEF Begun
<1>5. Begun(e)'
  BY <1>1 DEF Begun
<1>6. LogInv'
  <2>1. (returned \cap raised)' = {}
    BY <1>1, Unbegun DEF LogIInv, LogInv
  <2>2. ASSUME NEW d \in Events
        PROVE  /\ d \in returned' => PartsOf(d)' \in {{"all"}, {"head", "tail"}}
               /\ d \in raised' => PartsOf(d)' \in {{}, {"head"}}
               /\ ~Begun(d)' => PartsOf(d)' = {}
    BY <1>1, <1>3, <1>4, <1>5, Unbegun DEF LogIInv, LogInv
  <2>3. ASSUME NEW v \in Writers, writing'[v] # NoPiece
        PROVE  PartsOf(writing[v].event)' = {"head"}
    BY <2>3, <1>1, <1>4, Unbegun, Held DEF LogIInv, LogInv
  <2> QED
    BY <1>1, <1>2, <2>1, <2>2, <2>3 DEF LogInv
<1>7. WritersInv'
  BY <1>1, Unbegun DEF LogIInv, WritersInv
<1>8. OrderInv'
  BY <1>1, Unbegun, OrderKept DEF LogIInv
<1>9. HeadsInv'
  BY <1>1, OtherAppended DEF LogIInv
<1> QED
  BY <1>6, <1>7, <1>8, <1>9 DEF LogIInv

LEMMA ShortWriteStep ==
    ASSUME LogIInv, NEW w \in Writers, NEW e \in Events, ShortWrite(w, e)
    PROVE  LogIInv'
<1>1. PICK cut \in Cuts :
        /\ file' = Append(file, [event |-> e, part |-> "head", cut |-> cut])
        /\ writing' = [writing EXCEPT ![w] = [event |-> e, part |-> "head", cut |-> cut]]
  BY DEF ShortWrite
<1> DEFINE p == [event |-> e, part |-> "head", cut |-> cut]
<1>2. /\ TypeOK /\ p \in Pieces /\ p.part = "head" /\ p.event = e /\ p # NoPiece
      /\ returned' = returned /\ raised' = raised
      /\ shorts < MaxShort /\ shorts' = shorts + 1 /\ ~Begun(e)
  <2>1. p \in Pieces /\ p.part = "head" /\ p.event = e
    BY DEF Pieces
  <2>2. p # NoPiece
    BY <2>1 DEF NoPiece
  <2> QED
    BY <2>1, <2>2 DEF ShortWrite, Ready, LogIInv, LogInv
<1> HIDE DEF p
<1>3. file' = Append(file, p) /\ writing' = [writing EXCEPT ![w] = p]
  BY <1>1 DEF p
<1>4. /\ writing'[w] = p
      /\ \A v \in Writers \ {w} : writing'[v] = writing[v]
  BY <1>2, <1>3 DEF TypeOK
<1>5. TypeOK'
  BY <1>2, <1>3, Appended, CutsAssumption DEF TypeOK
<1>6. PartsOf(e)' = {"head"}
  BY <1>2, <1>3, PartsOfAppended, Unbegun
<1>7. \A d \in Events \ {e} : PartsOf(d)' = PartsOf(d)
  BY <1>2, <1>3, PartsOfOthers
<1>8. \A d \in Events \ {e} : Begun(d) => Begun(d)'
  <2> SUFFICES ASSUME NEW d \in Events \ {e}, NEW v \in Writers,
                      writing[v] # NoPiece, writing[v].event = d
               PROVE  writing'[v] # NoPiece /\ writing'[v].event = d
    BY <1>2 DEF Begun
  <2>1. writing[w] = NoPiece
    BY DEF ShortWrite, Ready
  <2> QED
    BY <2>1, <1>4
<1>9. Begun(e)'
  BY <1>2, <1>4 DEF Begun
<1>10. LogInv'
  <2>1. ASSUME NEW d \in Events
        PROVE  /\ d \in returned' => PartsOf(d)' \in {{"all"}, {"head", "tail"}}
               /\ d \in raised' => PartsOf(d)' \in {{}, {"head"}}
               /\ ~Begun(d)' => PartsOf(d)' = {}
    BY <1>2, <1>6, <1>7, <1>8, <1>9, Unbegun DEF LogIInv, LogInv
  <2>2. ASSUME NEW v \in Writers, writing'[v] # NoPiece
        PROVE  PartsOf(writing[v].event)' = {"head"}
    <3>1. CASE v = w
      BY <3>1, <1>2, <1>4, <1>6
    <3>2. CASE v # w
      BY <3>2, <2>2, <1>2, <1>4, <1>7, Unbegun, Held
    <3> QED
      BY <3>1, <3>2
  <2>3. (returned \cap raised)' = {}
    BY <1>2 DEF LogIInv, LogInv
  <2> QED
    BY <1>5, <2>1, <2>2, <2>3 DEF LogInv
<1>11. WritersInv'
  <2>1. e \notin (returned \cup raised)'
    BY <1>2, Unbegun
  <2>2. \A v \in Writers \ {w} : writing[v] # NoPiece => writing[v].event # e
    BY <1>2, Unbegun
  <2> QED
    BY <1>2, <1>4, <2>1, <2>2 DEF LogIInv, WritersInv
<1>12. OrderInv'
  BY <1>2, <1>3, Unbegun, OrderKept DEF LogIInv
<1>13. HeadsInv'
  BY <1>2, <1>3, HeadAppended DEF LogIInv
<1> QED
  BY <1>10, <1>11, <1>12, <1>13 DEF LogIInv

LEMMA WriteRestStep ==
    ASSUME LogIInv, NEW w \in Writers, WriteRest(w)
    PROVE  LogIInv'
<1>1. PICK e \in Events : e = writing[w].event
  BY Held DEF WriteRest
<1> DEFINE p == [writing[w] EXCEPT !.part = "tail"]
<1>2. /\ TypeOK /\ writing[w] \in Pieces /\ writing[w] # NoPiece /\ file' = Append(file, p)
      /\ returned' = returned \cup {e} /\ raised' = raised /\ shorts' = shorts
      /\ writing' = [writing EXCEPT ![w] = NoPiece]
  BY <1>1, Held DEF WriteRest, LogIInv, LogInv
<1>3. p \in Pieces /\ p.part = "tail" /\ p.event = e
  BY <1>1, <1>2, Held DEF Pieces
<1>4. PartsOf(e) = {"head"} /\ e \notin returned \cup raised
  BY <1>1, <1>2, Held
<1> HIDE DEF p
<1>5. /\ writing'[w] = NoPiece
      /\ \A v \in Writers \ {w} : writing'[v] = writing[v]
  BY <1>2 DEF TypeOK
<1>6. \A v \in Writers \ {w} : writing[v] # NoPiece => writing[v].event # e
  BY <1>1, <1>2 DEF LogIInv, WritersInv
<1>7. TypeOK'
  BY <1>2, <1>3, Appended DEF TypeOK
<1>8. PartsOf(e)' = {"head", "tail"}
  BY <1>2, <1>3, <1>4, PartsOfAppended
<1>9. \A d \in Events \ {e} : PartsOf(d)' = PartsOf(d)
  BY <1>2, <1>3, PartsOfOthers
<1>10. \A d \in Events : Begun(d) => Begun(d)'
  <2>1. Begun(e)'
    BY <1>2 DEF Begun
  <2>2. ASSUME NEW v \in Writers, writing[v] # NoPiece, writing[v].event # e
        PROVE  writing'[v] = writing[v]
    BY <1>1, <1>5, <2>2
  <2> QED
    BY <1>2, <2>1, <2>2 DEF Begun
<1>11. LogInv'
  <2>1. ASSUME NEW d \in Events
        PROVE  /\ d \in returned' => PartsOf(d)' \in {{"all"}, {"head", "tail"}}
               /\ d \in raised' => PartsOf(d)' \in {{}, {"head"}}
               /\ ~Begun(d)' => PartsOf(d)' = {}
    BY <1>2, <1>4, <1>8, <1>9, <1>10 DEF LogIInv, LogInv, Begun
  <2>2. ASSUME NEW v \in Writers, writing'[v] # NoPiece
        PROVE  PartsOf(writing[v].event)' = {"head"}
    BY <2>2, <1>5, <1>6, <1>9, Held
  <2>3. (returned \cap raised)' = {}
    BY <1>2, <1>4 DEF LogIInv, LogInv
  <2> QED
    BY <1>7, <2>1, <2>2, <2>3 DEF LogInv
<1>12. WritersInv'
  BY <1>2, <1>5, <1>6 DEF LogIInv, WritersInv
<1>13. OrderInv'
  <2>1. \A i \in DOMAIN file : file[i].event = e => file[i].part = "head"
    BY <1>4 DEF PartsOf
  <2> QED
    BY <1>2, <1>3, <2>1, OrderKept DEF LogIInv
<1>14. HeadsInv'
  BY <1>2, <1>3, OtherAppended DEF LogIInv
<1> QED
  BY <1>11, <1>12, <1>13, <1>14 DEF LogIInv

(* Nothing is written: an append that raises before its first write, one   *)
(* whose rest fails, and a restart, which fails them all.                  *)
LEMMA UnwrittenStep ==
    ASSUME LogIInv, NEW F \in SUBSET Events,
           file' = file, returned' = returned, shorts' = shorts,
           raised' = raised \cup F,
           writing' \in [Writers -> Pieces \cup {NoPiece}],
           \A w \in Writers : writing'[w] = NoPiece \/ writing'[w] = writing[w],
           \A w \in Writers : writing'[w] # writing[w] => writing[w].event \in F,
           \A e \in F : PartsOf(e) \in {{}, {"head"}} /\ e \notin returned,
           \A w \in Writers : writing'[w] # NoPiece => writing[w].event \notin F
    PROVE  LogIInv'
<1>1. TypeOK'
  BY DEF LogIInv, LogInv, TypeOK
<1>2. \A e : PartsOf(e)' = PartsOf(e)
  BY DEF PartsOf
<1>3. \A e \in Events : Begun(e) => Begun(e)'
  BY DEF Begun
<1>4. LogInv'
  BY <1>1, <1>2, <1>3 DEF LogIInv, LogInv
<1>5. WritersInv'
  BY DEF LogIInv, WritersInv
<1>6. OrderInv'
  BY DEF LogIInv, OrderInv
<1>7. HeadsInv'
  BY DEF LogIInv, HeadsInv, Heads
<1> QED
  BY <1>4, <1>5, <1>6, <1>7 DEF LogIInv

LEMMA AppendRaisesStep ==
    ASSUME LogIInv, NEW w \in Writers, NEW e \in Events, AppendRaises(w, e)
    PROVE  LogIInv'
<1>1. /\ ~Begun(e) /\ raised' = raised \cup {e}
      /\ file' = file /\ writing' = writing /\ returned' = returned /\ shorts' = shorts
  BY DEF AppendRaises, Ready
<1>2. PartsOf(e) = {} /\ e \notin returned
      /\ \A v \in Writers : writing[v] # NoPiece => writing[v].event # e
  BY <1>1, Unbegun
<1>3. writing \in [Writers -> Pieces \cup {NoPiece}]
  BY DEF LogIInv, LogInv, TypeOK
<1> DEFINE F == {e}
<1>4. /\ F \in SUBSET Events
      /\ raised' = raised \cup F
      /\ \A d \in F : PartsOf(d) \in {{}, {"head"}} /\ d \notin returned
      /\ \A v \in Writers : writing'[v] # NoPiece => writing[v].event \notin F
  BY <1>1, <1>2
<1> HIDE DEF F
<1> QED
  BY <1>1, <1>3, <1>4, UnwrittenStep

LEMMA RestFailsStep ==
    ASSUME LogIInv, NEW w \in Writers, RestFails(w)
    PROVE  LogIInv'
<1> DEFINE F == {writing[w].event}
<1>1. /\ writing[w] # NoPiece /\ raised' = raised \cup F
      /\ file' = file /\ returned' = returned /\ shorts' = shorts
      /\ writing' = [writing EXCEPT ![w] = NoPiece]
  BY DEF RestFails
<1>2. /\ writing' \in [Writers -> Pieces \cup {NoPiece}]
      /\ writing'[w] = NoPiece /\ \A v \in Writers \ {w} : writing'[v] = writing[v]
  BY <1>1 DEF LogIInv, LogInv, TypeOK
<1>3. F \in SUBSET Events
      /\ \A e \in F : PartsOf(e) \in {{}, {"head"}} /\ e \notin returned
  BY <1>1, Held
<1>4. \A v \in Writers : writing'[v] # NoPiece => writing[v].event \notin F
  BY <1>1, <1>2 DEF LogIInv, WritersInv
<1>5. \A v \in Writers : writing'[v] # writing[v] => writing[v].event \in F
  BY <1>2
<1> HIDE DEF F
<1> QED
  BY <1>1, <1>2, <1>3, <1>4, <1>5, UnwrittenStep

LEMMA RestartStep ==
    ASSUME LogIInv, Restart
    PROVE  LogIInv'
<1> DEFINE F == {writing[w].event : w \in {v \in Writers : writing[v] # NoPiece}}
<1>1. /\ raised' = raised \cup F /\ writing' = [w \in Writers |-> NoPiece]
      /\ file' = file /\ returned' = returned /\ shorts' = shorts
  BY DEF Restart
<1>2. F \in SUBSET Events
      /\ \A e \in F : PartsOf(e) \in {{}, {"head"}} /\ e \notin returned
  BY Held
<1>3. \A v \in Writers : writing'[v] # writing[v] => writing[v].event \in F
  BY <1>1
<1>4. /\ writing' \in [Writers -> Pieces \cup {NoPiece}]
      /\ \A v \in Writers : writing'[v] = NoPiece
  BY <1>1
<1> HIDE DEF F
<1> QED
  BY <1>1, <1>2, <1>3, <1>4, UnwrittenStep

LEMMA LogStep == LogIInv /\ [Next]_vars => LogIInv'
<1> SUFFICES ASSUME LogIInv, [Next]_vars
             PROVE  LogIInv'
  OBVIOUS
<1>1. ASSUME NEW w \in Writers, NEW e \in Events, AppendLine(w, e)
      PROVE  LogIInv'
  BY <1>1, AppendLineStep
<1>2. ASSUME NEW w \in Writers, NEW e \in Events, AppendRaises(w, e)
      PROVE  LogIInv'
  BY <1>2, AppendRaisesStep
<1>3. ASSUME NEW w \in Writers, NEW e \in Events, ShortWrite(w, e)
      PROVE  LogIInv'
  BY <1>3, ShortWriteStep
<1>4. ASSUME NEW w \in Writers, WriteRest(w)
      PROVE  LogIInv'
  BY <1>4, WriteRestStep
<1>5. ASSUME NEW w \in Writers, RestFails(w)
      PROVE  LogIInv'
  BY <1>5, RestFailsStep
<1>6. CASE Restart
  BY <1>6, RestartStep
<1>7. CASE UNCHANGED vars
  <2>1. TypeOK' /\ \A e : PartsOf(e)' = PartsOf(e) /\ Begun(e)' = Begun(e)
    BY <1>7 DEF vars, LogIInv, LogInv, TypeOK, PartsOf, Begun
  <2>2. LogInv' /\ WritersInv'
    BY <1>7, <2>1 DEF vars, LogIInv, LogInv, WritersInv
  <2>3. OrderInv' /\ HeadsInv'
    BY <1>7 DEF vars, LogIInv, OrderInv, HeadsInv, Heads
  <2> QED
    BY <2>2, <2>3 DEF LogIInv
<1> QED
  BY <1>1, <1>2, <1>3, <1>4, <1>5, <1>6, <1>7 DEF Next

(* The log holds the whole line of an append that returned, at most a      *)
(* first piece of one that raised, and nothing of one that was not begun,  *)
(* however many threads write at once and whatever fails.                  *)
THEOREM LogIsExact == Spec => []LogInv
<1>1. LogIInv => LogInv
  BY DEF LogIInv
<1> QED
  BY InitLog, LogStep, <1>1, PTL DEF Spec

-----------------------------------------------------------------------------
(* Reading: what a line of the file gives                                  *)

LEMMA LineFromPlaces ==
    ASSUME TypeOK, NEW i \in DOMAIN file
    PROVE  /\ i \in LineFrom(file, i)
           /\ LineFrom(file, i) \subseteq DOMAIN file
           /\ EndsLine(file[i]) => LineFrom(file, i) = {i}
<1>1. i \in LineFrom(file, i) /\ LineFrom(file, i) \subseteq DOMAIN file
  BY DEF LineFrom, TypeOK
<1>2. ASSUME EndsLine(file[i]), NEW k \in LineFrom(file, i)
      PROVE  k = i
  <2>1. k \in i .. Len(file) /\ \A j \in i .. k - 1 : ~EndsLine(file[j])
    BY DEF LineFrom
  <2>2. i \notin i .. k - 1
    BY <1>2, <2>1
  <2> QED
    BY <2>1, <2>2 DEF TypeOK
<1> QED
  BY <1>1, <1>2

LEMMA PieceKinds ==
    ASSUME NEW p \in Pieces
    PROVE  /\ p.event \in Events
           /\ p.part \in {"all", "head", "tail"}
           /\ EndsLine(p) <=> p.part # "head"
           /\ p.part # "tail" => HasText(p)
  BY DEF Pieces, EndsLine, HasText

LEMMA PieceAt ==
    ASSUME TypeOK, NEW i \in DOMAIN file
    PROVE  file[i] \in Pieces
  BY DEF TypeOK

(* A whole line that nobody else's text precedes is read.                  *)
LEMMA WholeLineIsListed ==
    ASSUME TypeOK, NEW i \in DOMAIN file, StartsLine(file, i), file[i].part = "all"
    PROVE  file[i].event \in Listed(file)
<1>1. file[i] \in Pieces /\ EndsLine(file[i]) /\ HasText(file[i]) /\ IsWhole(file[i])
  BY PieceAt DEF EndsLine, HasText, IsWhole
<1>2. TextFrom(file, i) = {i}
  BY <1>1, LineFromPlaces DEF TextFrom
<1>3. file[i].event \in EventsOf(file, i)
  BY <1>1, <1>2, PieceKinds DEF EventsOf
<1> QED
  BY <1>3 DEF Listed, LineStarts

LEMMA ImageSize ==
    ASSUME NEW f, IsFiniteSet(DOMAIN f)
    PROVE  /\ IsFiniteSet({f[x] : x \in DOMAIN f})
           /\ Cardinality({f[x] : x \in DOMAIN f}) <= Cardinality(DOMAIN f)
<1> DEFINE T == {f[x] : x \in DOMAIN f}
           g == [x \in DOMAIN f |-> f[x]]
<1>1. g \in Surjection(DOMAIN f, T)
  BY DEF Surjection
<1> HIDE DEF T, g
<1>2. IsFiniteSet(T) /\ Cardinality(T) <= Cardinality(DOMAIN f)
  BY <1>1, FS_Surjection
<1> QED
  BY <1>2 DEF T

(* What cannot be read was cut in two, or followed such a cut.             *)
LEMMA LostIsNearACut ==
    ASSUME LogIInv, NEW e \in returned \ Listed(file)
    PROVE  \E i \in Heads : e = file[i].event \/ e = file[i + 1].event
<1>1. TypeOK /\ e \in Events /\ PartsOf(e) \in {{"all"}, {"head", "tail"}}
  BY DEF LogIInv, LogInv, TypeOK
<1>2. CASE PartsOf(e) = {"head", "tail"}
  <2>1. "head" \in PartsOf(e)
    BY <1>2
  <2> QED
    BY <2>1 DEF PartsOf, Heads
<1>3. CASE PartsOf(e) = {"all"}
  <2>1. "all" \in PartsOf(e)
    BY <1>3
  <2>2. PICK i \in DOMAIN file : file[i].event = e /\ file[i].part = "all"
    BY <2>1 DEF PartsOf
  <2>3. ~StartsLine(file, i)
    BY <1>1, <2>2, WholeLineIsListed
  <2>4. i - 1 \in DOMAIN file /\ (i - 1) + 1 = i
    BY <1>1, <2>3 DEF StartsLine, TypeOK
  <2>5. file[i - 1].part = "head"
    BY <1>1, <2>3, <2>4, PieceAt, PieceKinds DEF StartsLine
  <2>6. i - 1 \in Heads
    BY <2>4, <2>5 DEF Heads
  <2> QED
    BY <2>2, <2>4, <2>6
<1> QED
  BY <1>1, <1>2, <1>3

LEMMA LossBound ==
    ASSUME LogIInv
    PROVE  Cardinality(returned \ Listed(file)) <= 2 * shorts
<1> DEFINE f == [i \in Heads |-> file[i].event]
           g == [i \in Heads |-> file[i + 1].event]
           A == {f[i] : i \in DOMAIN f}
           B == {g[i] : i \in DOMAIN g}
           Lost == returned \ Listed(file)
<1>1. /\ TypeOK /\ shorts \in Nat /\ IsFiniteSet(Heads) /\ Cardinality(Heads) = shorts
  BY HeadsFinite DEF LogIInv, LogInv, TypeOK, HeadsInv
<1>2. DOMAIN f = Heads /\ DOMAIN g = Heads
  OBVIOUS
<1>3. Lost \in SUBSET (A \cup B)
  BY LostIsNearACut, <1>2
<1> HIDE DEF f, g
<1>4. IsFiniteSet(A) /\ Cardinality(A) <= shorts
  BY <1>1, <1>2, ImageSize
<1>5. IsFiniteSet(B) /\ Cardinality(B) <= shorts
  BY <1>1, <1>2, ImageSize
<1> HIDE DEF A, B
<1>6. /\ Cardinality(A) \in Nat /\ Cardinality(B) \in Nat
      /\ IsFiniteSet(A \cap B) /\ Cardinality(A \cap B) \in Nat
  <2>1. A \cap B \in SUBSET A
    OBVIOUS
  <2>2. IsFiniteSet(A \cap B)
    BY <1>4, <2>1, FS_Subset
  <2> QED
    BY <1>4, <1>5, <2>2, FS_CardinalityType
<1>7. /\ IsFiniteSet(A \cup B)
      /\ Cardinality(A \cup B) = Cardinality(A) + Cardinality(B) - Cardinality(A \cap B)
  BY <1>4, <1>5, FS_Union
<1> HIDE DEF Lost
<1>8. IsFiniteSet(Lost) /\ Cardinality(Lost) <= Cardinality(A \cup B)
  BY <1>3, <1>7, FS_Subset
<1>9. Cardinality(Lost) \in Nat
  BY <1>8, FS_CardinalityType
<1>10. Cardinality(Lost) <= 2 * shorts
  BY <1>1, <1>4, <1>5, <1>6, <1>7, <1>8, <1>9
<1> QED
  BY <1>10 DEF Lost

(* However much the log holds, a short write costs it at most two events:  *)
(* the one cut in two and the one whose line follows the cut.              *)
THEOREM LossIsAlwaysBounded == Spec => []LossIsBounded
<1>1. LogIInv => LossIsBounded
  BY LossBound DEF LossIsBounded
<1> QED
  BY InitLog, LogStep, <1>1, PTL DEF Spec

(* Every piece is on a line: the one of the last start up to it.           *)
LEMMA LineOf ==
    ASSUME TypeOK, NEW k \in DOMAIN file
    PROVE  \E i \in LineStarts(file) : k \in LineFrom(file, i)
<1> DEFINE T == {n \in Nat : \E i \in LineStarts(file) : i <= k /\ n = k - i}
<1>1. DOMAIN file = 1 .. Len(file) /\ Len(file) \in Nat
  BY DEF TypeOK
<1>2. 1 \in LineStarts(file) /\ 1 <= k /\ k - 1 \in Nat
  BY <1>1 DEF LineStarts, StartsLine
<1>3. T \in SUBSET Nat /\ k - 1 \in T
  BY <1>2
<1>4. PICK n \in T : \A m \in T : n <= m
  BY <1>3, Smallest
<1>5. PICK i \in LineStarts(file) : i <= k /\ n = k - i
  BY <1>4
<1>6. i \in 1 .. Len(file)
  BY <1>1, <1>5 DEF LineStarts
<1>7. ASSUME NEW j \in i .. k - 1, EndsLine(file[j])
      PROVE  FALSE
  <2>1. j + 1 \in DOMAIN file /\ j + 1 <= k /\ j \in Int /\ i <= j
    BY <1>1, <1>6
  <2>2. j + 1 \in LineStarts(file)
    BY <1>7, <2>1 DEF LineStarts, StartsLine
  <2>3. k - (j + 1) \in T
    BY <1>1, <2>1, <2>2
  <2>4. n <= k - (j + 1)
    BY <1>4, <2>3
  <2> QED
    BY <1>1, <1>5, <1>6, <2>1, <2>4
<1>8. k \in i .. Len(file)
  BY <1>1, <1>5, <1>6
<1>9. k \in LineFrom(file, i)
  BY <1>7, <1>8 DEF LineFrom
<1> QED
  BY <1>9

(* A line that is read holds the text of one event only.                   *)
LEMMA OneEventPerLine ==
    ASSUME NEW i, NEW e \in EventsOf(file, i), NEW k \in TextFrom(file, i)
    PROVE  file[k].event = e
  BY DEF EventsOf

LEMMA ReturnedHasText ==
    ASSUME LogIInv, NEW e \in returned
    PROVE  \E k \in DOMAIN file : file[k].event = e /\ HasText(file[k])
<1>1. TypeOK /\ PartsOf(e) \in {{"all"}, {"head", "tail"}}
  BY DEF LogIInv, LogInv, TypeOK
<1>2. "all" \in PartsOf(e) \/ "head" \in PartsOf(e)
  BY <1>1
<1>3. PICK k \in DOMAIN file : file[k].event = e /\ file[k].part \in {"all", "head"}
  BY <1>2 DEF PartsOf
<1> QED
  BY <1>1, <1>3, PieceAt, PieceKinds

LEMMA LostIsSkipped ==
    ASSUME LogIInv, NEW e \in returned \ Listed(file)
    PROVE  Skipped(file) # {}
<1>1. PICK k \in DOMAIN file : file[k].event = e /\ HasText(file[k])
  BY ReturnedHasText
<1>2. PICK i \in LineStarts(file) : k \in LineFrom(file, i)
  BY LineOf DEF LogIInv, LogInv
<1>3. k \in TextFrom(file, i)
  BY <1>1, <1>2 DEF TextFrom
<1>4. EventsOf(file, i) = {}
  <2> SUFFICES ASSUME NEW d \in EventsOf(file, i)
               PROVE  FALSE
    OBVIOUS
  <2>1. d = e
    BY <1>1, <1>3, OneEventPerLine
  <2> QED
    BY <1>2, <2>1 DEF Listed
<1> QED
  BY <1>2, <1>3, <1>4 DEF Skipped

(* No event disappears without a trace: when one that was appended cannot  *)
(* be read, load_events counts a skipped line.                             *)
THEOREM LossIsAlwaysCounted == Spec => []LossIsCounted
<1>1. LogIInv => LossIsCounted
  BY LostIsSkipped DEF LossIsCounted
<1> QED
  BY InitLog, LogStep, <1>1, PTL DEF Spec

-----------------------------------------------------------------------------
(* What was readable stays readable                                        *)

(* Of an event that was returned and is read off the line of its head,     *)
(* all pieces up to there are on a line that has its newline.              *)
LEMMA ReadLineIsClosed ==
    ASSUME LogIInv, NEW i \in LineStarts(file), NEW e \in EventsOf(file, i), e \in returned
    PROVE  \E j \in i .. Len(file) : EndsLine(file[j])
<1>1. /\ TypeOK /\ Len(file) \in Nat /\ DOMAIN file = 1 .. Len(file) /\ i \in DOMAIN file
      /\ PartsOf(e) \in {{"all"}, {"head", "tail"}}
  BY DEF LogIInv, LogInv, TypeOK, LineStarts
<1>2. SUFFICES ASSUME \A j \in i .. Len(file) : ~EndsLine(file[j])
               PROVE  FALSE
  OBVIOUS
<1>3. \A j \in i .. Len(file) : file[j].part = "head"
  BY <1>1, <1>2, PieceAt, PieceKinds
<1>4. TextFrom(file, i) \subseteq i .. Len(file)
  BY DEF TextFrom, LineFrom
<1>5. CASE \E k \in DOMAIN file : TextFrom(file, i) = {k} /\ IsWhole(file[k]) /\ file[k].event = e
  <2>1. PICK k \in DOMAIN file : TextFrom(file, i) = {k} /\ file[k].event = e
    BY <1>5
  <2>2. k \in i .. Len(file) /\ file[k].part = "head"
    BY <1>3, <1>4, <2>1
  <2>3. "head" \in PartsOf(e)
    BY <2>1, <2>2 DEF PartsOf
  <2>4. "tail" \in PartsOf(e)
    BY <1>1, <2>3
  <2>5. PICK j \in DOMAIN file : file[j].event = e /\ file[j].part = "tail"
    BY <2>4 DEF PartsOf
  <2>6. ~(j < k) /\ j # k
    BY <2>1, <2>2, <2>5 DEF LogIInv, OrderInv
  <2>7. j \in i .. Len(file)
    BY <1>1, <2>2, <2>6
  <2> QED
    BY <1>3, <2>5, <2>7
<1>6. CASE \E j, k \in DOMAIN file :
            j < k /\ TextFrom(file, i) = {j, k} /\ file[j].event = e /\ file[k].event = e
  <2>1. PICK j \in DOMAIN file, k \in DOMAIN file :
            j < k /\ TextFrom(file, i) = {j, k} /\ file[j].event = e /\ file[k].event = e
    BY <1>6
  <2>2. file[k].part = "tail"
    BY <2>1 DEF LogIInv, OrderInv
  <2>3. k \in i .. Len(file)
    BY <1>4, <2>1
  <2> QED
    BY <1>3, <2>2, <2>3
<1> QED
  BY <1>5, <1>6 DEF EventsOf

LEMMA ClosedLineStays ==
    ASSUME TypeOK, NEW p \in Pieces, file' = Append(file, p),
           NEW i \in LineStarts(file), NEW j \in i .. Len(file), EndsLine(file[j])
    PROVE  /\ i \in LineStarts(file')
           /\ EventsOf(file, i) \subseteq EventsOf(file', i)
<1>1. /\ Len(file) \in Nat /\ DOMAIN file = 1 .. Len(file) /\ i \in DOMAIN file
      /\ Len(file') = Len(file) + 1 /\ \A k \in DOMAIN file : file'[k] = file[k]
      /\ DOMAIN file \subseteq DOMAIN file'
  BY Appended DEF TypeOK, LineStarts
<1>2. i \in LineStarts(file')
  BY <1>1 DEF LineStarts, StartsLine
<1>3. ASSUME NEW k \in LineFrom(file, i)
      PROVE  k \in LineFrom(file', i)
  <2>1. k \in i .. Len(file) /\ \A m \in i .. k - 1 : ~EndsLine(file[m])
    BY DEF LineFrom
  <2>2. k \in i .. Len(file') /\ \A m \in i .. k - 1 : ~EndsLine(file'[m])
    BY <1>1, <2>1
  <2> QED
    BY <2>2 DEF LineFrom
<1>4. ASSUME NEW k \in LineFrom(file', i)
      PROVE  k \in LineFrom(file, i)
  <2>1. k \in i .. Len(file') /\ \A m \in i .. k - 1 : ~EndsLine(file'[m])
    BY DEF LineFrom
  <2>2. EndsLine(file'[j])
    BY <1>1
  <2>3. k <= j
    BY <1>1, <2>1, <2>2
  <2>4. k \in i .. Len(file) /\ \A m \in i .. k - 1 : ~EndsLine(file[m])
    BY <1>1, <2>1, <2>3
  <2> QED
    BY <2>4 DEF LineFrom
<1>5. LineFrom(file', i) = LineFrom(file, i) /\ LineFrom(file, i) \subseteq DOMAIN file
  BY <1>1, <1>3, <1>4, LineFromPlaces
<1>6. TextFrom(file', i) = TextFrom(file, i)
  BY <1>1, <1>5 DEF TextFrom
<1>7. EventsOf(file, i) \subseteq EventsOf(file', i)
  BY <1>1, <1>6 DEF EventsOf
<1> QED
  BY <1>2, <1>7

LEMMA ReadableKept ==
    ASSUME LogIInv, NEW p \in Pieces, file' = Append(file, p)
    PROVE  returned \cap Listed(file) \subseteq Listed(file')
<1> SUFFICES ASSUME NEW e \in returned, e \in Listed(file)
             PROVE  e \in Listed(file')
  OBVIOUS
<1>1. PICK i \in LineStarts(file) : e \in EventsOf(file, i)
  BY DEF Listed
<1>2. PICK j \in i .. Len(file) : EndsLine(file[j])
  BY <1>1, ReadLineIsClosed
<1>3. i \in LineStarts(file') /\ e \in EventsOf(file', i)
  BY <1>1, <1>2, ClosedLineStays DEF LogIInv, LogInv
<1> QED
  BY <1>3 DEF Listed

LEMMA WrittenOrNot ==
    ASSUME LogIInv, [Next]_vars
    PROVE  file' = file \/ \E p \in Pieces : file' = Append(file, p)
<1>1. ASSUME NEW w \in Writers, NEW e \in Events, AppendLine(w, e)
      PROVE  \E p \in Pieces : file' = Append(file, p)
  <2>1. [event |-> e, part |-> "all", cut |-> "none"] \in Pieces
    BY DEF Pieces
  <2> QED
    BY <1>1, <2>1 DEF AppendLine
<1>2. ASSUME NEW w \in Writers, NEW e \in Events, ShortWrite(w, e)
      PROVE  \E p \in Pieces : file' = Append(file, p)
  <2>1. \A cut \in Cuts : [event |-> e, part |-> "head", cut |-> cut] \in Pieces
    BY DEF Pieces
  <2> QED
    BY <1>2, <2>1 DEF ShortWrite
<1>3. ASSUME NEW w \in Writers, WriteRest(w)
      PROVE  \E p \in Pieces : file' = Append(file, p)
  BY <1>3, Held DEF WriteRest
<1> QED
  BY <1>1, <1>2, <1>3 DEF Next, vars, AppendRaises, RestFails, Restart

(* An event that was appended and can be read is not lost to anything      *)
(* that happens later: no later write reaches a line with a newline.       *)
THEOREM ReadableForever == Spec => ReadableStays
<1>1. ASSUME LogIInv, [Next]_vars
      PROVE  [Decodable(file) /\ Decodable(file')
                => returned \cap Listed(file) \subseteq Listed(file')]_vars
  <2>1. CASE file' = file
    BY <2>1
  <2>2. CASE \E p \in Pieces : file' = Append(file, p)
    BY <1>1, <2>2, ReadableKept
  <2> QED
    BY <1>1, <2>1, <2>2, WrittenOrNot
<1> QED
  BY InitLog, LogStep, <1>1, PTL DEF Spec, ReadableStays
=============================================================================

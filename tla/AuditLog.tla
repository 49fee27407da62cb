------------------------------ MODULE AuditLog ------------------------------
(***************************************************************************)
(* The persistent audit log: JsonlAuditStore (audit/jsonl_store.py) writes *)
(* one event per line, and its list_events and the dashboard's load_events *)
(* read the file again.  Any thread of the gateway may append: each opens  *)
(* the file for itself, encodes its line as UTF-8 and hands it to the      *)
(* operating system in one write.                                          *)
(*                                                                         *)
(* The operating system is not under src/.  It is modelled as what Python  *)
(* is written against: a write in append mode goes to the end of the file  *)
(* as one piece, but it may be short (the disk is full), and then Python   *)
(* writes the rest, another thread's line perhaps in between, or the write *)
(* of the rest fails as well and append raises.  The process may die       *)
(* between two writes.                                                     *)
(*                                                                         *)
(* A line is abstracted to the pieces it was written in, and a piece to    *)
(* where the cut fell: in the text of the event, inside the bytes of one   *)
(* character, or just before the newline.                                  *)
(***************************************************************************)
EXTENDS Naturals, FiniteSets, Sequences

CONSTANTS
    Writers,     \* threads that append
    Events,      \* the events they append, each with an id of its own
    Cuts,        \* where a short write may end: a subset of CutPlaces
    MaxShort     \* bound: short writes

CutPlaces == {"text", "char", "newline"}

ASSUME CutsAssumption == Cuts \subseteq CutPlaces /\ MaxShort \in Nat

VARIABLES
    file,        \* the pieces of the file, in order
    writing,     \* per writer: the first piece of a line it has not completed
    returned,    \* events whose append has returned
    raised,      \* events whose append has raised, or died with the process
    shorts       \* short writes so far

vars == <<file, writing, returned, raised, shorts>>

Pieces == [event : Events, part : {"all"}, cut : {"none"}]
            \cup [event : Events, part : {"head", "tail"}, cut : Cuts]

NoPiece == [part |-> "none"]

TypeOK ==
    /\ file \in Seq(Pieces)
    /\ writing \in [Writers -> Pieces \cup {NoPiece}]
    /\ returned \subseteq Events /\ raised \subseteq Events
    /\ shorts \in 0 .. MaxShort

-----------------------------------------------------------------------------
(* Reading.  Pieces fall into lines after each piece that ends with the    *)
(* newline; the last line may lack it.                                     *)

EndsLine(p) == p.part \in {"all", "tail"}

StartsLine(f, i) == i = 1 \/ EndsLine(f[i - 1])

(* The line that starts at i, as the places of its pieces in the file.     *)
LineFrom(f, i) == {k \in i .. Len(f) : \A j \in i .. k - 1 : ~EndsLine(f[j])}

(* The rest of a line cut just before its newline is the newline alone.    *)
HasText(p) == ~(p.part = "tail" /\ p.cut = "newline")

TextFrom(f, i) == {k \in LineFrom(f, i) : HasText(f[k])}

IsWhole(p) == p.part = "all" \/ (p.part = "head" /\ p.cut = "newline")

(* The events whose JSON is all there is on a line: none or one.           *)
EventsOf(f, i) ==
    {e \in Events :
        \/ \E k \in DOMAIN f : TextFrom(f, i) = {k} /\ IsWhole(f[k]) /\ f[k].event = e
        \/ \E j, k \in DOMAIN f :
            j < k /\ TextFrom(f, i) = {j, k} /\ f[j].event = e /\ f[k].event = e}

LineStarts(f) == {i \in DOMAIN f : StartsLine(f, i)}

(* The events that list_events and load_events find, unlimited.            *)
Listed(f) == UNION {EventsOf(f, i) : i \in LineStarts(f)}

\* A line that holds more than one event is not counted.
SkippedAloneOnly(f) ==
    {i \in LineStarts(f) :
        /\ TextFrom(f, i) # {} /\ EventsOf(f, i) = {}
        /\ Cardinality(LineFrom(f, i)) = 1}

(* load_events counts the lines that are neither blank nor an event.       *)
Skipped(f) == {i \in LineStarts(f) : TextFrom(f, i) # {} /\ EventsOf(f, i) = {}}

(* The file is decoded as it is read; half a character raises, whatever    *)
(* line it is in (UnicodeDecodeError).                                     *)
Decodable(f) ==
    \A i \in DOMAIN f :
        f[i].cut = "char" =>
            \/ f[i].part = "head" /\ i < Len(f) /\ f[i + 1] = [f[i] EXCEPT !.part = "tail"]
            \/ f[i].part = "tail" /\ i > 1 /\ f[i - 1] = [f[i] EXCEPT !.part = "head"]

-----------------------------------------------------------------------------
(* Appending *)

Init ==
    /\ file = <<>>
    /\ writing = [w \in Writers |-> NoPiece]
    /\ returned = {} /\ raised = {}
    /\ shorts = 0

Begun(e) == e \in returned \cup raised \/ \E w \in Writers :
                writing[w] # NoPiece /\ writing[w].event = e

Ready(w, e) == writing[w] = NoPiece /\ ~Begun(e)

\* The newline goes missing.
AppendWithoutNewline(w, e) ==
    /\ Ready(w, e)
    /\ file' = Append(file, [event |-> e, part |-> "head", cut |-> "newline"])
    /\ returned' = returned \cup {e}
    /\ UNCHANGED <<writing, raised, shorts>>

(* append(event): the line in one piece *)
AppendLine(w, e) ==
    /\ Ready(w, e)
    /\ file' = Append(file, [event |-> e, part |-> "all", cut |-> "none"])
    /\ returned' = returned \cup {e}
    /\ UNCHANGED <<writing, raised, shorts>>

\* The error is swallowed.
AppendRaisesUnnoticed(w, e) ==
    /\ Ready(w, e)
    /\ returned' = returned \cup {e}
    /\ UNCHANGED <<file, writing, raised, shorts>>

(* Nothing is written: the file cannot be opened, or there is no space.    *)
AppendRaises(w, e) ==
    /\ Ready(w, e)
    /\ raised' = raised \cup {e}
    /\ UNCHANGED <<file, writing, returned, shorts>>

ShortWrite(w, e) ==
    /\ Ready(w, e)
    /\ shorts < MaxShort
    /\ shorts' = shorts + 1
    /\ \E cut \in Cuts :
        LET head == [event |-> e, part |-> "head", cut |-> cut] IN
        /\ file' = Append(file, head)
        /\ writing' = [writing EXCEPT ![w] = head]
    /\ UNCHANGED <<returned, raised>>

WriteRest(w) ==
    /\ writing[w] # NoPiece
    /\ file' = Append(file, [writing[w] EXCEPT !.part = "tail"])
    /\ returned' = returned \cup {writing[w].event}
    /\ writing' = [writing EXCEPT ![w] = NoPiece]
    /\ UNCHANGED <<raised, shorts>>

RestFails(w) ==
    /\ writing[w] # NoPiece
    /\ raised' = raised \cup {writing[w].event}
    /\ writing' = [writing EXCEPT ![w] = NoPiece]
    /\ UNCHANGED <<file, returned, shorts>>

(* The process dies and is started again; the file stays as it is.         *)
Restart ==
    /\ \E w \in Writers : writing[w] # NoPiece
    /\ raised' = raised \cup {writing[w].event : w \in {v \in Writers : writing[v] # NoPiece}}
    /\ writing' = [w \in Writers |-> NoPiece]
    /\ UNCHANGED <<file, returned, shorts>>

Next ==
    \/ \E w \in Writers :
        \/ \E e \in Events : AppendLine(w, e) \/ AppendRaises(w, e) \/ ShortWrite(w, e)
        \/ WriteRest(w)
        \/ RestFails(w)
    \/ Restart

Spec == Init /\ [][Next]_vars

-----------------------------------------------------------------------------
(* Properties *)

PartsOf(e) == {file[i].part : i \in {j \in DOMAIN file : file[j].event = e}}

(* The file holds exactly what became of each append: the whole line of    *)
(* one that returned, at most a first piece of one that raised, and that   *)
(* piece while a writer is between its two writes.                         *)
LogInv ==
    /\ TypeOK
    /\ returned \cap raised = {}
    /\ \A e \in Events :
        /\ e \in returned => PartsOf(e) \in {{"all"}, {"head", "tail"}}
        /\ e \in raised   => PartsOf(e) \in {{}, {"head"}}
        /\ ~Begun(e)      => PartsOf(e) = {}
    /\ \A w \in Writers :
        writing[w] # NoPiece => PartsOf(writing[w].event) = {"head"}

(* While the log can be decoded: an append that returned is in it, but for *)
(* two events per short write, the one cut in two and one that came in     *)
(* between or right after.  A failed append can cost a neighbour's event,  *)
(* never more.                                                             *)
LossIsBounded ==
    Decodable(file) => Cardinality(returned \ Listed(file)) <= 2 * shorts

(* No event is lost silently: when one that was appended cannot be read,   *)
(* the dashboard counts a skipped line (load_events).                      *)
LossIsCounted ==
    Decodable(file) => returned \subseteq Listed(file) \/ Skipped(file) # {}

(* An event whose append returned and that can be read stays readable,     *)
(* whatever is appended later and whatever of it fails: a line that has    *)
(* its newline is never joined to another.                                 *)
ReadableStays ==
    [][Decodable(file) /\ Decodable(file')
        => returned \cap Listed(file) \subseteq Listed(file')]_vars

(* STEP_10: individual lines that fail to parse are skipped and counted,   *)
(* and the reader never raises -- here, while nobody is between two writes.*)
ReadingNeverRaises == (\A w \in Writers : writing[w] = NoPiece) => Decodable(file)
=============================================================================

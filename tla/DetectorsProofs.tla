--------------------------- MODULE DetectorsProofs ---------------------------
(***************************************************************************)
(* Theorems about Detectors, for any vocabularies and any length: what is  *)
(* blocked stays blocked when the command goes on or the path is moved,    *)
(* and another spelling of it is blocked if and only if it is itself.      *)
(***************************************************************************)
EXTENDS Detectors, FiniteSetTheorems, WellFoundedInduction, TLAPS

LEMMA TypesInit == Init => TypeOK
  BY DEF Init, TypeOK, AnyWord

LEMMA TypesNext == TypeOK /\ [Next]_vars => TypeOK'
  <1> SUFFICES ASSUME TypeOK, [Next]_vars PROVE TypeOK'
    OBVIOUS
  <1> USE DEF TypeOK
  <1>1. ASSUME NEW w \in words, Write(w) PROVE TypeOK'
    BY <1>1 DEF Write, Plain, Tokens
  <1>2. ASSUME NEW w \in words, Move(w) PROVE TypeOK'
    <2>1. <<Plain(w)>> \in Seq(Tokens)
      BY DEF Plain, Tokens
    <2> QED
      BY <1>2, <2>1 DEF Move
  <1>3. ASSUME NEW i \in DOMAIN text, NEW t \in Tokens, Put(i, t) PROVE TypeOK'
    BY <1>3 DEF Put
  <1>4. ASSUME Rewrite PROVE TypeOK'
    <2> PICK i \in DOMAIN text :
            \/ Capitalize(i) \/ Qualify(i) \/ \E w \in words : Respell(i, w)
            \/ SwapFlags(i) \/ SplitFlag(i)
      BY <1>4 DEF Rewrite
    <2>1. text[i] \in Tokens /\ i \in 1 .. Len(text)
      OBVIOUS
    <2>2. CASE Capitalize(i)
      <3>1. [text[i] EXCEPT !.caps = TRUE] \in Tokens
        BY <2>1 DEF Tokens
      <3> QED
        BY <1>3, <2>2, <3>1 DEF Capitalize
    <2>3. CASE Qualify(i)
      <3>1. [text[i] EXCEPT !.dir = TRUE] \in Tokens
        BY <2>1 DEF Tokens
      <3> QED
        BY <1>3, <2>3, <3>1 DEF Qualify
    <2>4. ASSUME NEW w \in words, Respell(i, w) PROVE TypeOK'
      <3>1. [text[i] EXCEPT !.word = w] \in Tokens
        BY <2>1 DEF Tokens
      <3> QED
        BY <1>3, <2>4, <3>1 DEF Respell
    <2>5. CASE SwapFlags(i)
      <3>1. i + 1 \in 1 .. Len(text) /\ text[i + 1] \in Tokens
        BY <2>1, <2>5 DEF SwapFlags
      <3> QED
        BY <2>1, <2>5, <3>1 DEF SwapFlags
    <2>6. CASE SplitFlag(i)
      <3>1. <<Plain("-r"), Plain("-f")>> \in Seq(Tokens)
        BY DEF Plain, Tokens, AnyWord
      <3>2. SubSeq(text, 1, i - 1) \in Seq(Tokens)
        BY <2>1
      <3>3. SubSeq(text, i + 1, Len(text)) \in Seq(Tokens)
        BY <2>1
      <3> QED
        BY <2>6, <3>1, <3>2, <3>3 DEF SplitFlag
    <2> QED
      BY <2>2, <2>3, <2>4, <2>5, <2>6
  <1>5. CASE UNCHANGED vars
    BY <1>5 DEF vars
  <1> QED
    BY <1>1, <1>2, <1>4, <1>5 DEF Next

(* Arguments are token sequences over their vocabularies.                  *)
THEOREM TypesHold == Spec => []TypeOK
  BY TypesInit, TypesNext, PTL DEF Spec

-----------------------------------------------------------------------------
(* One more token at the end of a line changes nothing before it.          *)
LEMMA AppendAt ==
    ASSUME NEW S, NEW line \in Seq(S), NEW t \in S
    PROVE  /\ Len(Append(line, t)) = Len(line) + 1
           /\ \A i \in 1 .. Len(line) : Append(line, t)[i] = line[i]
           /\ Append(line, t)[Len(line) + 1] = t
           /\ DOMAIN line = 1 .. Len(line)
           /\ DOMAIN Append(line, t) = 1 .. Len(line) + 1
           /\ Len(line) \in Nat
  OBVIOUS

(* Later words only add to what follows a name.                            *)
LEMMA FollowingGrows ==
    ASSUME NEW S, NEW line \in Seq(S), NEW t \in S, NEW i \in DOMAIN line
    PROVE  Following(line, i) \subseteq Following(Append(line, t), i)
  BY AppendAt DEF Following

LEMMA TokenRisksStay ==
    ASSUME NEW S, NEW line \in Seq(S), NEW t \in S, NEW i \in DOMAIN line
    PROVE  /\ PowerShellTokenRisk(line, i) => PowerShellTokenRisk(Append(line, t), i)
           /\ PosixTokenRisk(line, i) => PosixTokenRisk(Append(line, t), i)
  <1>1. Append(line, t)[i] = line[i]
    BY AppendAt
  <1>2. Following(line, i) \subseteq Following(Append(line, t), i)
    BY FollowingGrows
  <1>3. PowerShellTokenRisk(line, i) => PowerShellTokenRisk(Append(line, t), i)
    BY <1>1, <1>2 DEF PowerShellTokenRisk
  <1>4. PosixTokenRisk(line, i) => PosixTokenRisk(Append(line, t), i)
    BY <1>1, <1>2 DEF PosixTokenRisk, HasRecursiveForceFlags
  <1> QED
    BY <1>3, <1>4

LEMMA PartSize ==
    ASSUME NEW S, NEW line \in Seq(S), NEW i \in Nat
    PROVE  Cardinality(Part(line, i)) \in Nat
  <1>1. IsFiniteSet(i .. Len(line))
    BY FS_Interval
  <1>2. Part(line, i) \subseteq i .. Len(line)
    BY DEF Part
  <1> QED
    BY <1>1, <1>2, FS_Subset, FS_CardinalityType

(* A pipeline that was found is found again.                               *)
LEMMA PipesStay ==
    ASSUME NEW S, NEW line \in Seq(S), NEW t \in S, t # Unclosed,
           NEW downloads, NEW shells, "|" \notin downloads, "|" \notin shells,
           HasDownloadPipeToShell(line, downloads, shells)
    PROVE  HasDownloadPipeToShell(Append(line, t), downloads, shells)
  <1> DEFINE longer == Append(line, t)
  <1> PICK i \in 1 .. Len(line), j \in 1 .. Len(line) :
          /\ StartsPart(line, i) /\ StartsPart(line, j)
          /\ j = i + Cardinality(Part(line, i)) + 1
          /\ \E d \in downloads : FirstToken(line, i) = Plain(d)
          /\ \E s \in shells : FirstToken(line, j) = Plain(s)
    BY DEF HasDownloadPipeToShell
  <1> HIDE DEF longer
  <1>1. /\ Len(longer) = Len(line) + 1 /\ Len(line) \in Nat
        /\ \A k \in 1 .. Len(line) : longer[k] = line[k]
        /\ longer[Len(line) + 1] = t
    BY AppendAt DEF longer
  <1>2. i < j /\ line[j - 1] = Pipe /\ longer[j - 1] = Pipe
    <2>1. i \in Nat /\ Cardinality(Part(line, i)) \in Nat
      BY <1>1, PartSize
    <2>2. i < j /\ j # 1 /\ j - 1 \in 1 .. Len(line)
      BY <1>1, <2>1
    <2> QED
      BY <1>1, <2>2 DEF StartsPart
  <1>3. /\ FirstToken(line, i) # Pipe /\ FirstToken(line, j) # Pipe
    BY DEF Plain, Pipe
  <1>4. Part(longer, i) = Part(line, i)
    <2>1. ASSUME NEW k \in Part(longer, i) PROVE k \in Part(line, i)
      <3>1. k \in i .. Len(line) + 1 /\ \A m \in i .. k : longer[m] # Pipe
        BY <1>1, <2>1 DEF Part
      <3>2. k < j - 1
        BY <1>2, <3>1
      <3> QED
        BY <1>1, <3>1, <3>2 DEF Part
    <2>2. ASSUME NEW k \in Part(line, i) PROVE k \in Part(longer, i)
      BY <1>1, <2>2 DEF Part
    <2> QED
      BY <2>1, <2>2
  <1>5. FirstToken(longer, i) = FirstToken(line, i)
    <2>1. \A k \in Part(line, i) : longer[k] = line[k]
      BY <1>1 DEF Part
    <2> QED
      BY <1>1, <1>4, <2>1 DEF FirstToken
  <1>6. Part(line, j) # {} /\ \A k \in Part(line, j) : line[k] # Unclosed
    BY <1>3 DEF FirstToken
  <1>7. Part(longer, j) # {} /\ \A k \in Part(longer, j) : longer[k] # Unclosed
    <2>1. ASSUME NEW k \in Part(line, j) PROVE k \in Part(longer, j)
      <3>1. k \in j .. Len(line) /\ \A m \in j .. k : line[m] # Pipe
        BY <2>1 DEF Part
      <3>2. \A m \in j .. k : longer[m] = line[m]
        BY <1>1, <3>1
      <3> QED
        BY <1>1, <3>1, <3>2 DEF Part
    <2>2. ASSUME NEW k \in Part(longer, j) PROVE longer[k] # Unclosed
      <3>1. k \in j .. Len(line) + 1 /\ \A m \in j .. k : longer[m] # Pipe
        BY <1>1, <2>2 DEF Part
      <3>2. CASE k = Len(line) + 1
        BY <1>1, <3>2
      <3>3. CASE k <= Len(line)
        <4>1. \A m \in j .. k : longer[m] = line[m]
          BY <1>1, <3>1, <3>3
        <4>2. k \in Part(line, j)
          BY <1>1, <3>1, <3>3, <4>1 DEF Part
        <4> QED
          BY <1>1, <1>6, <3>1, <3>3, <4>2
      <3> QED
        BY <1>1, <3>1, <3>2, <3>3
    <2> QED
      BY <1>6, <2>1, <2>2
  <1>8. FirstToken(longer, j) = FirstToken(line, j)
    BY <1>1, <1>6, <1>7 DEF FirstToken
  <1>9. StartsPart(longer, i) /\ StartsPart(longer, j)
    BY <1>1 DEF StartsPart
  <1> QED
    BY <1>1, <1>4, <1>5, <1>8, <1>9 DEF HasDownloadPipeToShell, longer

LEMMA AppendKeepsRisk ==
    ASSUME NEW S, NEW line \in Seq(S), NEW t \in S, DetectCommandRisk(line)
    PROVE  DetectCommandRisk(Append(line, t))
  <1> DEFINE longer == Append(line, t)
  <1>1. /\ \A i \in DOMAIN line : i \in DOMAIN longer /\ longer[i] = line[i]
        /\ Len(line) + 1 \in DOMAIN longer /\ longer[Len(line) + 1] = t
        /\ \A i \in DOMAIN longer : i \in DOMAIN line \/ longer[i] = t
    BY AppendAt
  <1>2. CASE ~Splittable(longer)
    BY <1>2 DEF DetectCommandRisk, DetectPosixRisk
  <1>3. CASE Splittable(longer)
    <2>1. t # Unclosed /\ Splittable(line)
      BY <1>1, <1>3 DEF Splittable
    <2>2. CASE DetectPowerShellRisk(line)
      <3>1. CASE HasDownloadPipeToShell(line, {"invoke-webrequest", "iwr"}, {"invoke-expression", "iex"})
        BY <2>1, <3>1, PipesStay DEF DetectCommandRisk, DetectPowerShellRisk
      <3>2. ASSUME NEW i \in DOMAIN line, PowerShellTokenRisk(line, i)
            PROVE  DetectCommandRisk(longer)
        BY <1>1, <1>3, <3>2, TokenRisksStay DEF DetectCommandRisk, DetectPowerShellRisk
      <3> QED
        BY <2>2, <3>1, <3>2 DEF DetectPowerShellRisk
    <2>3. CASE DetectPosixRisk(line)
      <3>1. CASE HasDownloadPipeToShell(line, {"curl", "wget"}, {"bash", "sh"})
        BY <2>1, <3>1, PipesStay DEF DetectCommandRisk, DetectPosixRisk
      <3>2. ASSUME NEW i \in DOMAIN line, PosixTokenRisk(line, i)
            PROVE  DetectCommandRisk(longer)
        BY <1>1, <3>2, TokenRisksStay DEF DetectCommandRisk, DetectPosixRisk
      <3> QED
        BY <2>1, <2>3, <3>1, <3>2 DEF DetectPosixRisk
    <2> QED
      BY <2>2, <2>3 DEF DetectCommandRisk
  <1> QED
    BY <1>2, <1>3

(* A blocked command stays blocked however it goes on.                     *)
THEOREM LongerStaysBlocked == Spec => LongerIsNoSafer
  <1>1. ASSUME TypeOK, NEW w \in words, Write(w), HardBlocked PROVE HardBlocked'
    <2>1. text \in Seq(Tokens) /\ Plain(w) \in Tokens /\ kind = "command" /\ kind' = kind
          /\ text' = Append(text, Plain(w))
      BY <1>1 DEF TypeOK, Write, Plain, Tokens
    <2>2. DetectCommandRisk(text)
      BY <1>1, <2>1 DEF HardBlocked
    <2>3. DetectCommandRisk(Append(text, Plain(w)))
      BY <2>1, <2>2, AppendKeepsRisk
    <2>4. DetectCommandRisk(text)'
      BY <2>1, <2>3
    <2> QED
      BY <2>1, <2>4 DEF HardBlocked
  <1>2. TypeOK /\ [Next]_vars =>
            [(\E w \in words : Write(w)) => (HardBlocked => HardBlocked')]_vars
    BY <1>1
  <1> QED
    BY TypesHold, <1>2, PTL DEF Spec, LongerIsNoSafer

-----------------------------------------------------------------------------
LEMMA MoveAt ==
    ASSUME NEW S, NEW parts \in Seq(S), NEW t \in S
    PROVE  /\ Len(<<t>> \o parts) = Len(parts) + 1
           /\ \A i \in 1 .. Len(parts) : (<<t>> \o parts)[i + 1] = parts[i]
           /\ DOMAIN parts = 1 .. Len(parts) /\ Len(parts) \in Nat
           /\ DOMAIN (<<t>> \o parts) = 1 .. Len(parts) + 1
  OBVIOUS

LEMMA MoveKeepsSensitive ==
    ASSUME NEW S, NEW parts \in Seq(S), NEW t \in S, parts # <<>>, IsSensitivePath(parts)
    PROVE  IsSensitivePath(<<t>> \o parts)
  <1> DEFINE moved == <<t>> \o parts
  <1>1. /\ Len(moved) = Len(parts) + 1 /\ Len(parts) \in Nat
        /\ \A i \in 1 .. Len(parts) : moved[i + 1] = parts[i]
        /\ DOMAIN parts = 1 .. Len(parts) /\ DOMAIN moved = 1 .. Len(parts) + 1
    BY MoveAt
  <1> HIDE DEF moved
  <1>2. FileName(moved) = FileName(parts)
    <2>1. Len(parts) \in 1 .. Len(parts)
      BY <1>1
    <2>2. moved # <<>>
      BY DEF moved
    <2> QED
      BY <1>1, <2>1, <2>2 DEF FileName
  <1>3. ASSUME NEW i \in DOMAIN parts, parts[i].word \in SensitiveFileNames
        PROVE  IsSensitivePath(moved)
    <2>1. i + 1 \in DOMAIN moved /\ moved[i + 1].word \in SensitiveFileNames
      BY <1>1, <1>3
    <2> QED
      BY <2>1 DEF IsSensitivePath
  <1>4. ASSUME NEW s \in SensitiveComponentPaths, ContainsComponentPath(parts, s)
        PROVE  IsSensitivePath(moved)
    <2>1. s = <<".aws", "credentials">> /\ Len(s) = 2 /\ DOMAIN s = {1, 2}
      BY DEF SensitiveComponentPaths
    <2>2. PICK start \in 0 .. Len(parts) - 2 : \A k \in {1, 2} : parts[start + k].word = s[k]
      BY <1>4, <2>1 DEF ContainsComponentPath
    <2>3. start + 1 \in 0 .. Len(moved) - 2
      BY <1>1, <2>2
    <2>4. \A k \in {1, 2} : moved[start + 1 + k].word = s[k]
      <3>1. ASSUME NEW k \in {1, 2} PROVE moved[start + 1 + k].word = s[k]
        <4>1. start + k \in 1 .. Len(parts) /\ start + 1 + k = (start + k) + 1
          BY <1>1, <2>2
        <4>2. moved[start + 1 + k] = parts[start + k]
          BY <1>1, <4>1
        <4> QED
          BY <2>2, <4>2
      <3> QED
        BY <3>1
    <2>5. ContainsComponentPath(moved, s)
      BY <2>1, <2>3, <2>4 DEF ContainsComponentPath
    <2> QED
      BY <2>5 DEF IsSensitivePath
  <1> QED
    BY <1>2, <1>3, <1>4 DEF IsSensitivePath, moved

(* A sensitive path stays sensitive wherever it is put.                    *)
THEOREM MovedStaysBlocked == Spec => MovingDoesNotHide
  <1>1. ASSUME TypeOK, text # <<>>, NEW w \in words, Move(w), HardBlocked
        PROVE  HardBlocked'
    <2>1. text \in Seq(Tokens) /\ Plain(w) \in Tokens /\ kind = "path" /\ kind' = kind
          /\ text' = <<Plain(w)>> \o text
      BY <1>1 DEF TypeOK, Move, Plain, Tokens
    <2>2. IsSensitivePath(text)
      BY <1>1, <2>1 DEF HardBlocked
    <2>3. IsSensitivePath(<<Plain(w)>> \o text)
      BY <1>1, <2>1, <2>2, MoveKeepsSensitive
    <2>4. IsSensitivePath(text)'
      BY <2>1, <2>3
    <2> QED
      BY <2>1, <2>4 DEF HardBlocked
  <1>2. TypeOK /\ [Next]_vars =>
            [text # <<>> /\ (\E w \in words : Move(w)) => (HardBlocked => HardBlocked')]_vars
    BY <1>1
  <1> QED
    BY TypesHold, <1>2, PTL DEF Spec, MovingDoesNotHide

-----------------------------------------------------------------------------
(* Rewritten lines.  A line is a risk for a quotation that never ends,    *)
(* for a pipeline, or for one of its tokens.                              *)

PipeWords == {"invoke-webrequest", "iwr", "invoke-expression", "iex",
              "curl", "wget", "bash", "sh"}

(* For pipelines and quotations t is what u is.                            *)
Alike(t, u) ==
    /\ t = Pipe <=> u = Pipe
    /\ t = Unclosed <=> u = Unclosed
    /\ \A w \in PipeWords : Lowered(t) = Plain(w) <=> Lowered(u) = Plain(w)

(* The same for place k of two lines; only the first token of a part is a  *)
(* pipeline's.                                                             *)
AlikeAt(L, M, k) ==
    /\ L[k] = Pipe <=> M[k] = Pipe
    /\ L[k] = Unclosed <=> M[k] = Unclosed
    /\ StartsPart(L, k) =>
          \A w \in PipeWords : Lowered(L[k]) = Plain(w) <=> Lowered(M[k]) = Plain(w)

TokenRisk(line, k) == PowerShellTokenRisk(line, k) \/ PosixTokenRisk(line, k)

HasPipeline(line) ==
    \/ HasDownloadPipeToShell(line, {"invoke-webrequest", "iwr"}, {"invoke-expression", "iex"})
    \/ HasDownloadPipeToShell(line, {"curl", "wget"}, {"bash", "sh"})

LEMMA RiskForm ==
    ASSUME NEW line
    PROVE  DetectCommandRisk(line) <=>
              \/ ~Splittable(line) \/ HasPipeline(line)
              \/ \E k \in DOMAIN line : TokenRisk(line, k)
  BY DEF DetectCommandRisk, DetectPowerShellRisk, DetectPosixRisk, HasPipeline, TokenRisk

LEMMA AlikePipes ==
    ASSUME NEW L \in Seq(Tokens), NEW M \in Seq(Tokens), Len(L) = Len(M),
           \A k \in 1 .. Len(L) : AlikeAt(L, M, k),
           NEW downloads \in SUBSET PipeWords, NEW shells \in SUBSET PipeWords,
           HasDownloadPipeToShell(L, downloads, shells)
    PROVE  HasDownloadPipeToShell(M, downloads, shells)
  <1> PICK i \in 1 .. Len(L), j \in 1 .. Len(L) :
          /\ StartsPart(L, i) /\ StartsPart(L, j)
          /\ j = i + Cardinality(Part(L, i)) + 1
          /\ \E d \in downloads : FirstToken(L, i) = Plain(d)
          /\ \E s \in shells : FirstToken(L, j) = Plain(s)
    BY DEF HasDownloadPipeToShell
  <1>1. \A k \in 1 .. Len(L) : L[k] = Pipe <=> M[k] = Pipe
    BY DEF AlikeAt
  <1>2. \A k \in 1 .. Len(L) : L[k] = Unclosed <=> M[k] = Unclosed
    BY DEF AlikeAt
  <1>3. ASSUME NEW k \in 1 .. Len(L) PROVE Part(L, k) = Part(M, k)
    BY <1>1, <1>3 DEF Part
  <1>4. ASSUME NEW k \in 1 .. Len(L), NEW w \in PipeWords, FirstToken(L, k) = Plain(w),
               StartsPart(L, k)
        PROVE  FirstToken(M, k) = Plain(w)
    <2>1. Plain(w) # Pipe
      BY DEF PipeWords, Plain, Pipe
    <2>2. Part(L, k) # {} /\ (\A m \in Part(L, k) : L[m] # Unclosed) /\ Lowered(L[k]) = Plain(w)
      BY <1>4, <2>1 DEF FirstToken
    <2>3. \A m \in Part(L, k) : m \in 1 .. Len(L)
      BY DEF Part
    <2>4. Part(M, k) # {} /\ \A m \in Part(M, k) : M[m] # Unclosed
      BY <1>2, <1>3, <2>2, <2>3
    <2>5. Lowered(M[k]) = Plain(w)
      BY <1>4, <2>2 DEF AlikeAt
    <2> QED
      BY <2>4, <2>5 DEF FirstToken
  <1>5. StartsPart(M, i) /\ StartsPart(M, j)
    <2>1. \A k \in 1 .. Len(L) : k = 1 \/ k - 1 \in 1 .. Len(L)
      OBVIOUS
    <2> QED
      BY <1>1, <2>1 DEF StartsPart
  <1>6. j = i + Cardinality(Part(M, i)) + 1
    BY <1>3
  <1>7. (\E d \in downloads : FirstToken(M, i) = Plain(d)) /\ \E s \in shells : FirstToken(M, j) = Plain(s)
    BY <1>4
  <1> QED
    BY <1>5, <1>6, <1>7 DEF HasDownloadPipeToShell

LEMMA AlikeSame ==
    ASSUME NEW L \in Seq(Tokens), NEW M \in Seq(Tokens), Len(L) = Len(M),
           \A k \in 1 .. Len(L) : AlikeAt(L, M, k)
    PROVE  /\ Splittable(L) <=> Splittable(M)
           /\ HasPipeline(L) <=> HasPipeline(M)
  <1>1. ASSUME NEW k \in 1 .. Len(M) PROVE AlikeAt(M, L, k)
    <2>1. k = 1 \/ k - 1 \in 1 .. Len(L)
      OBVIOUS
    <2>2. StartsPart(L, k) <=> StartsPart(M, k)
      BY <2>1 DEF StartsPart, AlikeAt
    <2> QED
      BY <2>2 DEF AlikeAt
  <1>2. /\ {"invoke-webrequest", "iwr"} \in SUBSET PipeWords
        /\ {"invoke-expression", "iex"} \in SUBSET PipeWords
        /\ {"curl", "wget"} \in SUBSET PipeWords /\ {"bash", "sh"} \in SUBSET PipeWords
    BY DEF PipeWords
  <1>3. HasPipeline(L) => HasPipeline(M)
    BY <1>2, AlikePipes DEF HasPipeline
  <1>4. HasPipeline(M) => HasPipeline(L)
    BY <1>1, <1>2, AlikePipes DEF HasPipeline
  <1>5. Splittable(L) <=> Splittable(M)
    BY DEF AlikeAt, Splittable
  <1> QED
    BY <1>3, <1>4, <1>5

LEMMA SameRiskAt ==
    ASSUME NEW L \in Seq(Tokens), NEW M \in Seq(Tokens), Len(L) = Len(M),
           \A k \in 1 .. Len(L) : AlikeAt(L, M, k),
           \A k \in 1 .. Len(L) : TokenRisk(L, k) <=> TokenRisk(M, k)
    PROVE  DetectCommandRisk(L) <=> DetectCommandRisk(M)
  <1>1. DOMAIN L = 1 .. Len(L) /\ DOMAIN M = 1 .. Len(L)
    OBVIOUS
  <1> QED
    BY <1>1, AlikeSame, RiskForm

LEMMA SameRisk ==
    ASSUME NEW L \in Seq(Tokens), NEW M \in Seq(Tokens), Len(L) = Len(M),
           \A k \in 1 .. Len(L) : Alike(L[k], M[k]),
           \A k \in 1 .. Len(L) : TokenRisk(L, k) <=> TokenRisk(M, k)
    PROVE  DetectCommandRisk(L) <=> DetectCommandRisk(M)
  <1>1. \A k \in 1 .. Len(L) : AlikeAt(L, M, k)
    BY DEF Alike, AlikeAt
  <1> QED
    BY <1>1, SameRiskAt

-----------------------------------------------------------------------------
(* Tokens of a line                                                        *)

Flags   == SingleDash \cup {"--recursive", "--force"}
Telling == Flags \cup {"bypass", "777", "if="}
Names   == TokenNames \cup PipeNames

(* What PowerShell calls a removal by "rm" is one for POSIX as well.       *)
LEMMA RmIsPosix ==
    ASSUME NEW line \in Seq(Tokens), NEW k \in 1 .. Len(line), line[k].word = "rm",
           PowerShellTokenRisk(line, k)
    PROVE  PosixTokenRisk(line, k)
  <1>1. \A w : Lowered(line[k]) = Plain(w) => line[k].word = w
    BY DEF Lowered, Plain, Tokens
  <1>2. /\ Following(line, k) \cap PowerShellRecurseFlags # {}
        /\ Following(line, k) \cap PowerShellForceFlags # {}
    BY <1>1 DEF PowerShellTokenRisk
  <1>3. /\ PowerShellRecurseFlags \subseteq WithLetterR
        /\ PowerShellForceFlags \subseteq WithLetterF
    BY DEF PowerShellRecurseFlags, PowerShellForceFlags, WithLetterR, WithLetterF, SingleDash
  <1>4. HasRecursiveForceFlags(Following(line, k))
    BY <1>2, <1>3 DEF HasRecursiveForceFlags
  <1> QED
    BY <1>4 DEF PosixTokenRisk, Basename

(* A flag is nothing the detectors look for by name.                       *)
LEMMA FlagsAreNoRisk ==
    ASSUME NEW line \in Seq(Tokens), NEW k \in 1 .. Len(line), line[k].word \in Flags
    PROVE  ~TokenRisk(line, k)
  <1>1. \A w : Lowered(line[k]) = Plain(w) => line[k].word = w
    BY DEF Lowered, Plain, Tokens
  <1>2. ~PowerShellTokenRisk(line, k)
    BY <1>1 DEF PowerShellTokenRisk, RemoveItemAliases, Flags, SingleDash
  <1>3. ~PosixTokenRisk(line, k)
    BY DEF PosixTokenRisk, Basename, Flags, SingleDash
  <1> QED
    BY <1>2, <1>3 DEF TokenRisk

LEMMA FlagsAreAlike ==
    ASSUME NEW t \in Tokens, NEW u \in Tokens, t.word \in Flags, u.word \in Flags
    PROVE  Alike(t, u)
  <1>1. \A v \in Tokens : \A w : Lowered(v) = Plain(w) => v.word = w
    BY DEF Lowered, Plain, Tokens
  <1>2. t # Pipe /\ u # Pipe /\ t # Unclosed /\ u # Unclosed
    BY DEF Pipe, Unclosed, Plain, Flags, SingleDash
  <1>3. \A w \in PipeWords : t.word # w /\ u.word # w
    BY DEF PipeWords, Flags, SingleDash
  <1> QED
    BY <1>1, <1>2, <1>3 DEF Alike

(* The risk of a token depends on its name and on what tells after it.     *)
LEMMA SameTokenRisks ==
    ASSUME NEW L, NEW M, NEW k, NEW m, Lowered(L[k]) = Lowered(M[m]), L[k].word = M[m].word,
           \A w \in Telling : w \in Following(L, k) <=> w \in Following(M, m)
    PROVE  /\ PowerShellTokenRisk(L, k) <=> PowerShellTokenRisk(M, m)
           /\ PosixTokenRisk(L, k) <=> PosixTokenRisk(M, m)
  <1>1. ASSUME NEW S \in SUBSET Telling
        PROVE  Following(L, k) \cap S = Following(M, m) \cap S
    OBVIOUS
  <1>2. /\ PowerShellRecurseFlags \in SUBSET Telling /\ PowerShellForceFlags \in SUBSET Telling
        /\ WithLetterR \cup {"--recursive"} \in SUBSET Telling
        /\ WithLetterF \cup {"--force"} \in SUBSET Telling
        /\ "bypass" \in Telling /\ "777" \in Telling /\ "if=" \in Telling
    BY DEF PowerShellRecurseFlags, PowerShellForceFlags, WithLetterR, WithLetterF, Telling,
           Flags, SingleDash
  <1>3. PowerShellTokenRisk(L, k) <=> PowerShellTokenRisk(M, m)
    BY <1>1, <1>2 DEF PowerShellTokenRisk
  <1>4. HasRecursiveForceFlags(Following(L, k)) <=> HasRecursiveForceFlags(Following(M, m))
    BY <1>1, <1>2 DEF HasRecursiveForceFlags
  <1>5. PosixTokenRisk(L, k) <=> PosixTokenRisk(M, m)
    BY <1>2, <1>4 DEF PosixTokenRisk, Basename
  <1> QED
    BY <1>3, <1>5

-----------------------------------------------------------------------------
(* One token is written differently *)

LEMMA PutAt ==
    ASSUME TypeOK, NEW i \in 1 .. Len(text), NEW t \in Tokens, Put(i, t)
    PROVE  /\ text' \in Seq(Tokens) /\ Len(text') = Len(text) /\ Len(text) \in Nat
           /\ text'[i] = t /\ \A k \in 1 .. Len(text) : k # i => text'[k] = text[k]
           /\ \A k \in 1 .. Len(text) : text[k] \in Tokens
           /\ kind' = kind
  BY DEF TypeOK, Put

LEMMA FollowingOf ==
    ASSUME NEW line, NEW k, NEW w
    PROVE  w \in Following(line, k) <=>
              \E n \in k + 1 .. Len(line) : ~line[n].dir /\ line[n].word = w
  BY DEF Following

LEMMA CapitalizeSame ==
    ASSUME TypeOK, NEW i \in DOMAIN text, Capitalize(i), kind = "command"
    PROVE  DetectCommandRisk(text) <=> DetectCommandRisk(text')
  <1> DEFINE t == [text[i] EXCEPT !.caps = TRUE]
  <1>1. i \in 1 .. Len(text) /\ text[i] \in Tokens
    BY DEF TypeOK
  <1>2. /\ t \in Tokens /\ t.word = text[i].word /\ t.dir = text[i].dir
        /\ Lowered(t) = Lowered(text[i])
    BY <1>1 DEF Tokens, Lowered
  <1>3. text[i].word \notin {"|", "unclosed"} /\ Put(i, t)
    BY DEF Capitalize
  <1> HIDE DEF t
  <1>4. Alike(text[i], t)
    <2>1. text[i] # Pipe /\ text[i] # Unclosed /\ t # Pipe /\ t # Unclosed
      BY <1>2, <1>3 DEF Pipe, Unclosed, Plain
    <2> QED
      BY <1>2, <2>1 DEF Alike
  <1>5. /\ text' \in Seq(Tokens) /\ Len(text') = Len(text) /\ text \in Seq(Tokens)
        /\ text'[i] = t /\ \A k \in 1 .. Len(text) : k # i => text'[k] = text[k]
    BY <1>1, <1>2, <1>3, PutAt DEF TypeOK
  <1>6. \A k \in 1 .. Len(text) :
            /\ text'[k].word = text[k].word /\ text'[k].dir = text[k].dir
            /\ Lowered(text'[k]) = Lowered(text[k])
    BY <1>2, <1>5
  <1>7. \A k \in 1 .. Len(text) : Alike(text[k], text'[k])
    BY <1>4, <1>5 DEF Alike
  <1>8. ASSUME NEW k \in 1 .. Len(text)
        PROVE  TokenRisk(text, k) <=> TokenRisk(text', k)
    <2>1. \A n \in k + 1 .. Len(text) : n \in 1 .. Len(text)
      OBVIOUS
    <2>2. \A w : w \in Following(text, k) <=> w \in Following(text', k)
      BY <1>5, <1>6, <2>1, FollowingOf
    <2> QED
      BY <1>6, <2>2, SameTokenRisks DEF TokenRisk
  <1> QED
    BY <1>5, <1>7, <1>8, SameRisk

LEMMA QualifySame ==
    ASSUME TypeOK, NEW i \in DOMAIN text, Qualify(i), ~QualifyFirstOfPart(i)
    PROVE  DetectCommandRisk(text) <=> DetectCommandRisk(text')
  <1> DEFINE t == [text[i] EXCEPT !.dir = TRUE]
  <1>1. i \in 1 .. Len(text) /\ text[i] \in Tokens
    BY DEF TypeOK
  <1>2. t \in Tokens /\ t.word = text[i].word /\ t.dir /\ Lowered(t).dir
    BY <1>1 DEF Tokens, Lowered
  <1>3. text[i].word \in Names /\ Put(i, t)
    BY DEF Qualify, Names
  <1> HIDE DEF t
  <1>4. \A v \in Tokens : \A w : Lowered(v) = Plain(w) => v.word = w /\ ~v.dir
    BY DEF Lowered, Plain, Tokens
  <1>5. text[i] # Pipe /\ text[i] # Unclosed /\ t # Pipe /\ t # Unclosed
    BY <1>2, <1>3 DEF Pipe, Unclosed, Plain, Names, TokenNames, PipeNames
  <1>6. /\ text' \in Seq(Tokens) /\ Len(text') = Len(text) /\ text \in Seq(Tokens)
        /\ text'[i] = t /\ \A k \in 1 .. Len(text) : k # i => text'[k] = text[k]
    BY <1>1, <1>2, <1>3, PutAt DEF TypeOK
  <1>7. ASSUME NEW k \in 1 .. Len(text) PROVE AlikeAt(text, text', k)
    <2>1. CASE k # i
      BY <1>6, <2>1 DEF AlikeAt
    <2>2. CASE k = i
      <3>1. StartsPart(text, i) => \A w \in PipeWords : text[i].word # w
        BY <1>3 DEF QualifyFirstOfPart, PipeWords, Names, TokenNames
      <3> QED
        BY <1>1, <1>2, <1>4, <1>5, <1>6, <2>2, <3>1 DEF AlikeAt
    <2> QED
      BY <2>1, <2>2
  <1>8. ASSUME NEW k \in 1 .. Len(text), NEW w \in Telling
        PROVE  w \in Following(text, k) <=> w \in Following(text', k)
    <2>1. w \notin Names
      BY DEF Telling, Flags, SingleDash, Names, TokenNames, PipeNames
    <2>2. \A n \in k + 1 .. Len(text) : n \in 1 .. Len(text)
      OBVIOUS
    <2>3. \A n \in k + 1 .. Len(text) :
              ~text[n].dir /\ text[n].word = w <=> ~text'[n].dir /\ text'[n].word = w
      BY <1>2, <1>3, <1>6, <2>1, <2>2
    <2> QED
      BY <1>6, <2>3, FollowingOf
  <1>9. ASSUME NEW k \in 1 .. Len(text), k # i
        PROVE  TokenRisk(text, k) <=> TokenRisk(text', k)
    BY <1>6, <1>8, <1>9, SameTokenRisks DEF TokenRisk
  <1>10. TokenRisk(text, i) <=> TokenRisk(text', i)
    <2>1. PosixTokenRisk(text, i) <=> PosixTokenRisk(text', i)
      <3>1. Following(text, i) = Following(text', i)
        <4>1. \A n \in i + 1 .. Len(text) : n \in 1 .. Len(text) /\ n # i
          BY <1>1
        <4> QED
          BY <1>6, <4>1 DEF Following
      <3> QED
        BY <1>2, <1>6, <3>1 DEF PosixTokenRisk, Basename
    <2>2. ~PowerShellTokenRisk(text', i)
      BY <1>2, <1>4, <1>6 DEF PowerShellTokenRisk
    <2>3. PowerShellTokenRisk(text, i) => text[i].word = "rm"
      BY <1>1, <1>3, <1>4 DEF PowerShellTokenRisk, RemoveItemAliases, Names, TokenNames, PipeNames
    <2> QED
      BY <1>1, <1>6, <2>1, <2>2, <2>3, RmIsPosix DEF TokenRisk
  <1> QED
    BY <1>6, <1>7, <1>9, <1>10, SameRiskAt

(* Only removals look at flags.                                            *)
LEMMA SwapSame ==
    ASSUME TypeOK, NEW i \in DOMAIN text, SwapFlags(i)
    PROVE  DetectCommandRisk(text) <=> DetectCommandRisk(text')
  <1>1. /\ i \in 1 .. Len(text) /\ i + 1 \in 1 .. Len(text) /\ text \in Seq(Tokens)
        /\ text[i] \in Tokens /\ text[i + 1] \in Tokens /\ Len(text) \in Nat
        /\ text[i].word \in Flags /\ text[i + 1].word \in Flags
    BY DEF TypeOK, SwapFlags, Dash, Flags
  <1>2. /\ text' \in Seq(Tokens) /\ Len(text') = Len(text)
        /\ text'[i] = text[i + 1] /\ text'[i + 1] = text[i]
        /\ \A k \in 1 .. Len(text) : k # i /\ k # i + 1 => text'[k] = text[k]
    BY <1>1 DEF SwapFlags
  <1>3. \A k \in 1 .. Len(text) : Alike(text[k], text'[k])
    BY <1>1, <1>2, FlagsAreAlike DEF Alike
  <1>4. ASSUME NEW k \in 1 .. Len(text)
        PROVE  TokenRisk(text, k) <=> TokenRisk(text', k)
    <2>1. CASE k = i \/ k = i + 1
      BY <1>1, <1>2, <2>1, FlagsAreNoRisk
    <2>2. CASE k # i /\ k # i + 1
      <3>1. ASSUME NEW w, w \in Following(text, k)
            PROVE  w \in Following(text', k)
        <4>1. PICK n \in k + 1 .. Len(text) : ~text[n].dir /\ text[n].word = w
          BY <3>1, FollowingOf
        <4>2. PICK m \in k + 1 .. Len(text) : text'[m] = text[n]
          BY <1>1, <1>2, <2>2
        <4> QED
          BY <1>2, <4>1, <4>2, FollowingOf
      <3>2. ASSUME NEW w, w \in Following(text', k)
            PROVE  w \in Following(text, k)
        <4>1. PICK n \in k + 1 .. Len(text) : ~text'[n].dir /\ text'[n].word = w
          BY <1>2, <3>2, FollowingOf
        <4>2. PICK m \in k + 1 .. Len(text) : text[m] = text'[n]
          BY <1>1, <1>2, <2>2
        <4> QED
          BY <4>1, <4>2, FollowingOf
      <3> QED
        BY <1>2, <2>2, <3>1, <3>2, SameTokenRisks DEF TokenRisk
    <2> QED
      BY <2>1, <2>2
  <1> QED
    BY <1>1, <1>2, <1>3, <1>4, SameRisk

(* Two spellings of a flag tell the commands that remove files the same.   *)
LEMMA RespellSame ==
    ASSUME TypeOK, NEW i \in DOMAIN text, NEW w \in AnyWord, Respell(i, w)
    PROVE  DetectCommandRisk(text) <=> DetectCommandRisk(text')
  <1> DEFINE t == [text[i] EXCEPT !.word = w]
             v == text[i].word
  <1>1. i \in 1 .. Len(text) /\ text[i] \in Tokens /\ Len(text) \in Nat
    BY DEF TypeOK
  <1>2. t \in Tokens /\ t.word = w /\ ~t.dir /\ ~text[i].dir
    BY <1>1 DEF Tokens, Respell, Dash
  <1>3. Put(i, t) /\ v \in Flags
    BY DEF Respell, Dash, Flags
  <1>4. PICK s \in Spellings : v \in s /\ w \in s
    BY DEF Respell
  <1>5. w \in Flags
    BY <1>4 DEF Spellings, PowerShellRecurseFlags, PowerShellForceFlags, Flags, SingleDash
  <1> HIDE DEF t
  <1>6. /\ text' \in Seq(Tokens) /\ Len(text') = Len(text) /\ text \in Seq(Tokens)
        /\ text'[i] = t /\ \A k \in 1 .. Len(text) : k # i => text'[k] = text[k]
    BY <1>1, <1>2, <1>3, PutAt DEF TypeOK
  <1>7. Alike(text[i], t)
    BY <1>1, <1>2, <1>3, <1>5, FlagsAreAlike
  <1>8. \A k \in 1 .. Len(text) : Alike(text[k], text'[k])
    BY <1>6, <1>7 DEF Alike
  <1>9. ASSUME NEW k \in 1 .. Len(text), k < i
        PROVE  \E rest : /\ Following(text, k) = rest \cup {v}
                         /\ Following(text', k) = rest \cup {w}
    <2> DEFINE rest == {text[n].word : n \in {m \in k + 1 .. Len(text) : m # i /\ ~text[m].dir}}
    <2>1. i \in k + 1 .. Len(text) /\ \A n \in k + 1 .. Len(text) : n \in 1 .. Len(text)
      BY <1>1, <1>9
    <2>2. Following(text, k) = rest \cup {v}
      BY <1>2, <2>1 DEF Following
    <2>3. Following(text', k) = rest \cup {w}
      <3>1. \A n \in k + 1 .. Len(text) :
              n # i => text'[n] = text[n]
        BY <1>6, <2>1
      <3>2. \A x : x \in Following(text', k) <=> x \in rest \/ x = w
        BY <1>2, <1>6, <2>1, <3>1, FollowingOf
      <3> QED
        BY <3>2
    <2> QED
      BY <2>2, <2>3
  <1>10. ASSUME NEW k \in 1 .. Len(text), k > i
         PROVE  TokenRisk(text, k) <=> TokenRisk(text', k)
    <2>1. \A n \in k .. Len(text) : text'[n] = text[n]
      BY <1>1, <1>6, <1>10
    <2>2. text'[k] = text[k] /\ \A x : x \in Following(text, k) <=> x \in Following(text', k)
      BY <1>6, <2>1, FollowingOf
    <2> QED
      BY <2>2, SameTokenRisks DEF TokenRisk
  <1>11. ASSUME NEW k \in 1 .. Len(text), k < i
         PROVE  TokenRisk(text, k) <=> TokenRisk(text', k)
    <2> DEFINE L == Following(text, k)  M == Following(text', k)
    <2>1. PICK rest : L = rest \cup {v} /\ M = rest \cup {w}
      BY <1>9, <1>11
    <2>2. text'[k] = text[k] /\ text[k] \in Tokens
      BY <1>6, <1>11
    <2>3. \A x : x \notin Flags => (x \in L <=> x \in M)
      BY <1>3, <1>5, <2>1
    <2>4. "bypass" \notin Flags /\ "777" \notin Flags /\ "if=" \notin Flags
      BY DEF Flags, SingleDash
    <2>5. \A a \in RemoveItemAliases : Lowered(text[k]) = Plain(a) => a \in Removers
      <3>1. \A a : Lowered(text[k]) = Plain(a) => text[k].word = a
        BY <2>2 DEF Lowered, Plain, Tokens
      <3>2. k \in DOMAIN text
        BY <1>6
      <3> QED
        BY <3>1, <3>2 DEF Removers
    <2>6. text[k].word = "rm" => "rm" \in Removers
      <3>1. k \in DOMAIN text
        BY <1>6
      <3> QED
        BY <3>1 DEF Removers, RemoveItemAliases
    <2> HIDE DEF L, M
    <2>7. CASE Removers \subseteq {"rm"}
      <3>1. s \in {{"-r", "--recursive"}, {"-f", "--force"}, {"-rf", "-fr"}}
        BY <1>4, <2>7 DEF Spellings
      <3>2. /\ v \in WithLetterR \cup {"--recursive"} <=> w \in WithLetterR \cup {"--recursive"}
            /\ v \in WithLetterF \cup {"--force"} <=> w \in WithLetterF \cup {"--force"}
        BY <1>4, <3>1 DEF WithLetterR, WithLetterF, SingleDash
      <3>3. HasRecursiveForceFlags(L) <=> HasRecursiveForceFlags(M)
        BY <2>1, <3>2 DEF HasRecursiveForceFlags
      <3>4. PosixTokenRisk(text, k) <=> PosixTokenRisk(text', k)
        BY <2>2, <2>3, <2>4, <3>3 DEF PosixTokenRisk, Basename, L, M
      <3>5. CASE text[k].word = "rm"
        BY <1>6, <2>2, <3>4, <3>5, RmIsPosix DEF TokenRisk
      <3>6. CASE text[k].word # "rm"
        <4>1. \A a \in RemoveItemAliases : Lowered(text[k]) # Plain(a)
          <5>1. \A a : Lowered(text[k]) = Plain(a) => text[k].word = a
            BY <2>2 DEF Lowered, Plain, Tokens
          <5> QED
            BY <2>5, <2>7, <3>6, <5>1
        <4>2. PowerShellTokenRisk(text, k) <=> PowerShellTokenRisk(text', k)
          BY <2>2, <2>3, <2>4, <4>1 DEF PowerShellTokenRisk, L, M
        <4> QED
          BY <3>4, <4>2 DEF TokenRisk
      <3> QED
        BY <3>5, <3>6
    <2>8. CASE ~(Removers \subseteq {"rm"})
      <3>1. s \in {PowerShellRecurseFlags, PowerShellForceFlags} /\ "rm" \notin Removers
        BY <1>4, <2>8 DEF Spellings
      <3>2. /\ v \in PowerShellRecurseFlags <=> w \in PowerShellRecurseFlags
            /\ v \in PowerShellForceFlags <=> w \in PowerShellForceFlags
        BY <1>4, <3>1 DEF PowerShellRecurseFlags, PowerShellForceFlags
      <3>3. /\ L \cap PowerShellRecurseFlags # {} <=> M \cap PowerShellRecurseFlags # {}
            /\ L \cap PowerShellForceFlags # {} <=> M \cap PowerShellForceFlags # {}
        BY <2>1, <3>2
      <3>4. PowerShellTokenRisk(text, k) <=> PowerShellTokenRisk(text', k)
        BY <2>2, <2>3, <2>4, <3>3 DEF PowerShellTokenRisk, L, M
      <3>5. text[k].word # "rm"
        BY <2>6, <3>1
      <3>6. PosixTokenRisk(text, k) <=> PosixTokenRisk(text', k)
        BY <2>2, <2>3, <2>4, <3>5 DEF PosixTokenRisk, Basename, L, M
      <3> QED
        BY <3>4, <3>6 DEF TokenRisk
    <2> QED
      BY <2>7, <2>8
  <1>12. TokenRisk(text, i) <=> TokenRisk(text', i)
    BY <1>1, <1>2, <1>3, <1>5, <1>6, FlagsAreNoRisk
  <1>13. \A k \in 1 .. Len(text) : k = i \/ k < i \/ k > i
    BY <1>1
  <1> QED
    BY <1>6, <1>8, <1>10, <1>11, <1>12, <1>13, SameRisk

-----------------------------------------------------------------------------
(* One flag becomes two: all that follows moves up by one.                 *)

(* Only names the POSIX rules look for are written with a directory.       *)
DirsAreNames == \A i \in DOMAIN text : text[i].dir => text[i].word \in Names

(* The part after the one that starts at i starts at j.                    *)
Neighbours(line, i, j) == i < j /\ line[j - 1] = Pipe /\ \A m \in i .. j - 2 : line[m] # Pipe

LEMMA PartUpTo ==
    ASSUME NEW line \in Seq(Tokens), NEW i \in 1 .. Len(line), NEW p \in i .. Len(line),
           line[p] = Pipe, \A m \in i .. p - 1 : line[m] # Pipe
    PROVE  Cardinality(Part(line, i)) = p - i
  <1>1. Part(line, i) = i .. p - 1
    <2>1. ASSUME NEW k \in Part(line, i) PROVE k \in i .. p - 1
      <3>1. k \in i .. Len(line) /\ \A m \in i .. k : line[m] # Pipe
        BY <2>1 DEF Part
      <3>2. ~(p <= k)
        BY <3>1
      <3> QED
        BY <3>1, <3>2
    <2>2. ASSUME NEW k \in i .. p - 1 PROVE k \in Part(line, i)
      <3>1. k \in i .. Len(line) /\ \A m \in i .. k : m \in i .. p - 1
        BY <2>2
      <3> QED
        BY <3>1 DEF Part
    <2> QED
      BY <2>1, <2>2
  <1>2. i \in Int /\ p - 1 \in Int
    OBVIOUS
  <1>3. Cardinality(i .. p - 1) = IF i > p - 1 THEN 0 ELSE (p - 1) - i + 1
    BY <1>2, FS_Interval
  <1> QED
    BY <1>1, <1>3

LEMMA NextPart ==
    ASSUME NEW line \in Seq(Tokens), NEW i \in 1 .. Len(line), NEW j \in 1 .. Len(line)
    PROVE  (StartsPart(line, j) /\ j = i + Cardinality(Part(line, i)) + 1) <=> Neighbours(line, i, j)
  <1>1. ASSUME StartsPart(line, j), j = i + Cardinality(Part(line, i)) + 1
        PROVE  Neighbours(line, i, j)
    <2> DEFINE P == {p \in Nat : p \in i .. Len(line) /\ line[p] = Pipe}
    <2>1. Cardinality(Part(line, i)) \in Nat
      BY PartSize
    <2>2. i < j /\ j # 1
      BY <1>1, <2>1
    <2>3. j - 1 \in P
      BY <1>1, <2>2 DEF StartsPart
    <2>4. PICK p \in P : \A q \in P : ~(q < p)
      <3>1. P \subseteq Nat /\ P # {}
        BY <2>3
      <3> HIDE DEF P
      <3>2. \E p \in P : \A q \in P : <<q, p>> \notin OpToRel(<, Nat)
        BY <3>1, NatLessThanWellFounded, WFMin
      <3> QED
        BY <3>1, <3>2 DEF OpToRel
    <2>5. \A m \in i .. p - 1 : line[m] # Pipe
      BY <2>4
    <2>6. Cardinality(Part(line, i)) = p - i
      BY <2>4, <2>5, PartUpTo
    <2>7. j - 1 = p
      BY <1>1, <2>6
    <2> QED
      BY <2>2, <2>4, <2>5, <2>7 DEF Neighbours
  <1>2. ASSUME Neighbours(line, i, j)
        PROVE  StartsPart(line, j) /\ j = i + Cardinality(Part(line, i)) + 1
    <2>1. j - 1 \in i .. Len(line) /\ line[j - 1] = Pipe
      BY <1>2 DEF Neighbours
    <2>2. \A m \in i .. (j - 1) - 1 : line[m] # Pipe
      BY <1>2 DEF Neighbours
    <2>3. Cardinality(Part(line, i)) = (j - 1) - i
      BY <2>1, <2>2, PartUpTo
    <2> QED
      BY <2>1, <2>3 DEF StartsPart
  <1> QED
    BY <1>1, <1>2

(* Pipelines of a line in which every quotation ends.                      *)
LEMMA SplittablePipes ==
    ASSUME NEW line \in Seq(Tokens), Splittable(line),
           NEW downloads \in SUBSET PipeWords, NEW shells \in SUBSET PipeWords
    PROVE  HasDownloadPipeToShell(line, downloads, shells) <=>
              \E i, j \in 1 .. Len(line) :
                  /\ StartsPart(line, i) /\ Neighbours(line, i, j)
                  /\ \E d \in downloads : Lowered(line[i]) = Plain(d)
                  /\ \E s \in shells : Lowered(line[j]) = Plain(s)
  <1>1. ASSUME NEW i \in 1 .. Len(line), NEW w \in PipeWords
        PROVE  FirstToken(line, i) = Plain(w) <=> Lowered(line[i]) = Plain(w)
    <2>1. Plain(w) # Pipe /\ (Lowered(line[i]) = Plain(w) => line[i] # Pipe)
      <3>1. w # "|"
        BY DEF PipeWords
      <3>2. Plain(w) # Pipe
        BY <3>1 DEF Plain, Pipe
      <3>3. Lowered(line[i]) = Plain(w) => line[i].word = w
        BY DEF Lowered, Plain, Tokens
      <3>4. line[i].word = w => line[i] # Pipe
        BY <3>1 DEF Plain, Pipe
      <3> QED
        BY <3>2, <3>3, <3>4
    <2>2. \A k \in Part(line, i) : line[k] # Unclosed
      BY DEF Part, Splittable
    <2>3. Lowered(line[i]) = Plain(w) => i \in Part(line, i)
      BY <2>1 DEF Part
    <2> QED
      BY <2>1, <2>2, <2>3 DEF FirstToken
  <1>2. ASSUME NEW i \in 1 .. Len(line)
        PROVE  /\ (\E d \in downloads : FirstToken(line, i) = Plain(d))
                     <=> \E d \in downloads : Lowered(line[i]) = Plain(d)
               /\ (\E s \in shells : FirstToken(line, i) = Plain(s))
                     <=> \E s \in shells : Lowered(line[i]) = Plain(s)
    BY <1>1
  <1> QED
    BY <1>2, NextPart DEF HasDownloadPipeToShell

(* M is L with two flags where L has one, at d.                            *)
Doubled(L, M, d) ==
    /\ Len(M) = Len(L) + 1
    /\ \A k \in 1 .. Len(L) : (k < d => M[k] = L[k]) /\ (k > d => M[k + 1] = L[k])
    /\ L[d].word \in Flags /\ M[d].word \in Flags /\ M[d + 1].word \in Flags

LEMMA FlagIs ==
    ASSUME NEW t \in Tokens, t.word \in Flags
    PROVE  /\ t # Pipe /\ t # Unclosed
           /\ \A w \in PipeWords : Lowered(t) # Plain(w)
  <1>1. \A w : Lowered(t) = Plain(w) => t.word = w
    BY DEF Lowered, Plain, Tokens
  <1>2. "|" \notin Flags /\ "unclosed" \notin Flags /\ \A w \in PipeWords : w \notin Flags
    BY DEF PipeWords, Flags, SingleDash
  <1>3. t # Pipe /\ t # Unclosed
    BY <1>2 DEF Pipe, Unclosed, Plain
  <1> QED
    BY <1>1, <1>2, <1>3

LEMMA DoubledAt ==
    ASSUME NEW L \in Seq(Tokens), NEW M \in Seq(Tokens), NEW d \in 1 .. Len(L), Doubled(L, M, d)
    PROVE  /\ Len(L) \in Nat /\ Len(M) = Len(L) + 1
           /\ \A k \in 1 .. Len(L) : (k < d => M[k] = L[k]) /\ (k > d => M[k + 1] = L[k])
           /\ L[d] # Pipe /\ M[d] # Pipe /\ M[d + 1] # Pipe
           /\ L[d] # Unclosed /\ M[d] # Unclosed /\ M[d + 1] # Unclosed
           /\ \A w \in PipeWords : /\ Lowered(L[d]) # Plain(w) /\ Lowered(M[d]) # Plain(w)
                                   /\ Lowered(M[d + 1]) # Plain(w)
  <1>1. Len(L) \in Nat /\ Len(M) = Len(L) + 1
    BY DEF Doubled
  <1>2. L[d] \in Tokens /\ M[d] \in Tokens /\ M[d + 1] \in Tokens
    BY <1>1
  <1> QED
    BY <1>1, <1>2, FlagIs DEF Doubled

LEMMA DoubledSplits ==
    ASSUME NEW L \in Seq(Tokens), NEW M \in Seq(Tokens), NEW d \in 1 .. Len(L), Doubled(L, M, d)
    PROVE  Splittable(L) <=> Splittable(M)
  <1>1. ASSUME Splittable(L), NEW k \in 1 .. Len(M) PROVE M[k] # Unclosed
    <2>1. CASE k < d
      BY <1>1, <2>1, DoubledAt DEF Splittable
    <2>2. CASE k = d \/ k = d + 1
      BY <2>2, DoubledAt
    <2>3. CASE k > d + 1
      <3>1. k - 1 \in 1 .. Len(L) /\ k - 1 > d /\ (k - 1) + 1 = k
        BY <1>1, <2>3, DoubledAt
      <3>2. M[(k - 1) + 1] = L[k - 1]
        BY <3>1, DoubledAt
      <3> QED
        BY <1>1, <3>1, <3>2 DEF Splittable
    <2> QED
      BY <2>1, <2>2, <2>3
  <1>2. ASSUME Splittable(M), NEW k \in 1 .. Len(L) PROVE L[k] # Unclosed
    <2>1. CASE k < d
      BY <1>2, <2>1, DoubledAt DEF Splittable
    <2>2. CASE k = d
      BY <2>2, DoubledAt
    <2>3. CASE k > d
      <3>1. k + 1 \in 1 .. Len(M)
        BY <1>2, DoubledAt
      <3> QED
        BY <1>2, <2>3, <3>1, DoubledAt DEF Splittable
    <2> QED
      BY <2>1, <2>2, <2>3
  <1> QED
    BY <1>1, <1>2 DEF Splittable

(* Where a token of L stands in M, and one of M in L.                      *)
Up(d, k)   == IF k < d THEN k ELSE k + 1
Down(d, k) == IF k < d THEN k ELSE k - 1

LEMMA UpParts ==
    ASSUME NEW L \in Seq(Tokens), NEW M \in Seq(Tokens), NEW d \in 1 .. Len(L), Doubled(L, M, d),
           NEW i \in 1 .. Len(L), NEW j \in 1 .. Len(L), i # d, j # d,
           StartsPart(L, i), Neighbours(L, i, j)
    PROVE  /\ Up(d, i) \in 1 .. Len(M) /\ Up(d, j) \in 1 .. Len(M)
           /\ M[Up(d, i)] = L[i] /\ M[Up(d, j)] = L[j]
           /\ StartsPart(M, Up(d, i)) /\ Neighbours(M, Up(d, i), Up(d, j))
  <1>facts. /\ Len(L) \in Nat /\ Len(M) = Len(L) + 1
         /\ \A n \in 1 .. Len(L) : (n < d => M[n] = L[n]) /\ (n > d => M[n + 1] = L[n])
         /\ L[d] # Pipe /\ M[d] # Pipe /\ M[d + 1] # Pipe
    BY DoubledAt
  <1> USE <1>facts
  <1>1. /\ Up(d, i) \in 1 .. Len(M) /\ Up(d, j) \in 1 .. Len(M)
        /\ M[Up(d, i)] = L[i] /\ M[Up(d, j)] = L[j] /\ Up(d, i) < Up(d, j)
    <2>1. ASSUME NEW k \in 1 .. Len(L), k # d
          PROVE  Up(d, k) \in 1 .. Len(M) /\ M[Up(d, k)] = L[k]
      BY <2>1 DEF Up
    <2>2. i < j
      BY DEF Neighbours
    <2>3. Up(d, i) < Up(d, j)
      BY <2>2 DEF Up
    <2> QED
      BY <2>1, <2>3
  <1>2. ASSUME NEW k \in 1 .. Len(L), k # d, k # 1, L[k - 1] = Pipe
        PROVE  M[Up(d, k) - 1] = Pipe
    <2>1. k - 1 \in 1 .. Len(L) /\ k - 1 # d
      BY <1>2
    <2>2. CASE k < d
      BY <1>2, <2>1, <2>2 DEF Up
    <2>3. CASE k > d
      <3>1. Up(d, k) - 1 = (k - 1) + 1 /\ k - 1 > d
        BY <1>2, <2>1, <2>3 DEF Up
      <3>2. M[(k - 1) + 1] = L[k - 1]
        BY <2>1, <3>1
      <3> QED
        BY <1>2, <3>1, <3>2
    <2> QED
      BY <1>2, <2>2, <2>3
  <1>3. StartsPart(M, Up(d, i))
    <2>1. CASE i = 1
      BY <2>1 DEF StartsPart, Up
    <2>2. CASE i # 1
      BY <1>2, <2>2 DEF StartsPart
    <2> QED
      BY <2>1, <2>2
  <1>4. M[Up(d, j) - 1] = Pipe
    BY <1>2 DEF Neighbours
  <1>5. ASSUME NEW m \in Up(d, i) .. Up(d, j) - 2 PROVE M[m] # Pipe
    <2>1. \A n \in i .. j - 2 : L[n] # Pipe /\ n \in 1 .. Len(L)
      BY DEF Neighbours
    <2>2. CASE m < d
      <3>1. m \in i .. j - 2
        BY <1>5, <2>2 DEF Up
      <3> QED
        BY <2>1, <2>2, <3>1
    <2>3. CASE m = d \/ m = d + 1
      BY <2>3
    <2>4. CASE m > d + 1
      <3>1. m - 1 \in i .. j - 2 /\ m - 1 > d /\ (m - 1) + 1 = m
        BY <1>5, <2>4 DEF Up
      <3>2. m - 1 \in 1 .. Len(L) /\ L[m - 1] # Pipe
        BY <2>1, <3>1
      <3>3. M[(m - 1) + 1] = L[m - 1]
        BY <3>1, <3>2
      <3> QED
        BY <3>1, <3>2, <3>3
    <2> QED
      BY <1>1, <2>2, <2>3, <2>4
  <1> QED
    BY <1>1, <1>3, <1>4, <1>5 DEF Neighbours

LEMMA DownParts ==
    ASSUME NEW L \in Seq(Tokens), NEW M \in Seq(Tokens), NEW d \in 1 .. Len(L), Doubled(L, M, d),
           NEW i \in (1 .. Len(M)) \ {d, d + 1}, NEW j \in (1 .. Len(M)) \ {d, d + 1},
           StartsPart(M, i), Neighbours(M, i, j)
    PROVE  /\ Down(d, i) \in 1 .. Len(L) /\ Down(d, j) \in 1 .. Len(L)
           /\ L[Down(d, i)] = M[i] /\ L[Down(d, j)] = M[j]
           /\ StartsPart(L, Down(d, i)) /\ Neighbours(L, Down(d, i), Down(d, j))
  <1>facts. /\ Len(L) \in Nat /\ Len(M) = Len(L) + 1
         /\ \A n \in 1 .. Len(L) : (n < d => M[n] = L[n]) /\ (n > d => M[n + 1] = L[n])
         /\ L[d] # Pipe /\ M[d] # Pipe /\ M[d + 1] # Pipe
    BY DoubledAt
  <1> USE <1>facts
  <1>0. ASSUME NEW k \in 1 .. Len(M), k > d + 1
        PROVE  k - 1 \in 1 .. Len(L) /\ k - 1 > d /\ L[k - 1] = M[k]
    <2>1. k - 1 \in 1 .. Len(L) /\ k - 1 > d /\ (k - 1) + 1 = k
      BY <1>0
    <2> QED
      BY <2>1
  <1>1. ASSUME NEW k \in (1 .. Len(M)) \ {d, d + 1}
        PROVE  Down(d, k) \in 1 .. Len(L) /\ L[Down(d, k)] = M[k]
    BY <1>0, <1>1 DEF Down
  <1>2. ASSUME NEW k \in (1 .. Len(M)) \ {d, d + 1}, k # 1, M[k - 1] = Pipe
        PROVE  L[Down(d, k) - 1] = Pipe
    <2>1. k - 1 \in 1 .. Len(M) /\ k - 1 # d /\ k - 1 # d + 1
      BY <1>2
    <2>2. CASE k < d
      BY <1>2, <2>1, <2>2 DEF Down
    <2>3. CASE k > d + 1
      <3>1. Down(d, k) - 1 = (k - 1) - 1 /\ k - 1 > d + 1
        BY <1>2, <2>1, <2>3 DEF Down
      <3> QED
        BY <1>0, <1>2, <2>1, <3>1
    <2> QED
      BY <1>2, <2>2, <2>3
  <1>3. StartsPart(L, Down(d, i))
    <2>1. CASE i = 1
      BY <2>1 DEF StartsPart, Down
    <2>2. CASE i # 1
      BY <1>2, <2>2 DEF StartsPart
    <2> QED
      BY <2>1, <2>2
  <1>4. i < j /\ M[j - 1] = Pipe /\ \A m \in i .. j - 2 : M[m] # Pipe /\ m \in 1 .. Len(M)
    BY DEF Neighbours
  <1>5. L[Down(d, j) - 1] = Pipe
    <2>1. j # 1
      BY <1>4
    <2> QED
      BY <1>2, <1>4, <2>1
  <1>6. Down(d, i) < Down(d, j)
    BY <1>4 DEF Down
  <1>7. ASSUME NEW m \in Down(d, i) .. Down(d, j) - 2 PROVE L[m] # Pipe
    <2>0. m \in 1 .. Len(L)
      BY <1>1, <1>7
    <2>2. CASE m < d
      <3>1. m \in i .. j - 2
        BY <1>7, <2>2 DEF Down
      <3>2. M[m] = L[m]
        BY <2>0, <2>2
      <3> QED
        BY <1>4, <3>1, <3>2
    <2>3. CASE m = d
      BY <2>3
    <2>4. CASE m > d
      <3>1. m + 1 \in i .. j - 2
        BY <1>7, <2>4 DEF Down
      <3>2. M[m + 1] = L[m]
        BY <2>0, <2>4
      <3> QED
        BY <1>4, <3>1, <3>2
    <2> QED
      BY <2>0, <2>2, <2>3, <2>4
  <1> QED
    BY <1>1, <1>3, <1>5, <1>6, <1>7 DEF Neighbours

LEMMA DoubledPipes ==
    ASSUME NEW L \in Seq(Tokens), NEW M \in Seq(Tokens), NEW d \in 1 .. Len(L), Doubled(L, M, d),
           Splittable(L), NEW downloads \in SUBSET PipeWords, NEW shells \in SUBSET PipeWords
    PROVE  HasDownloadPipeToShell(L, downloads, shells)
              <=> HasDownloadPipeToShell(M, downloads, shells)
  <1>1. Splittable(M)
    BY DoubledSplits
  <1>2. ASSUME HasDownloadPipeToShell(L, downloads, shells)
        PROVE  HasDownloadPipeToShell(M, downloads, shells)
    <2>1. PICK i \in 1 .. Len(L), j \in 1 .. Len(L) :
            /\ StartsPart(L, i) /\ Neighbours(L, i, j)
            /\ \E w \in downloads : Lowered(L[i]) = Plain(w)
            /\ \E w \in shells : Lowered(L[j]) = Plain(w)
      BY <1>2, SplittablePipes
    <2>2. i # d /\ j # d
      BY <2>1, DoubledAt
    <2>3. /\ Up(d, i) \in 1 .. Len(M) /\ Up(d, j) \in 1 .. Len(M)
          /\ M[Up(d, i)] = L[i] /\ M[Up(d, j)] = L[j]
          /\ StartsPart(M, Up(d, i)) /\ Neighbours(M, Up(d, i), Up(d, j))
      BY <2>1, <2>2, UpParts
    <2>4. \E m, n \in 1 .. Len(M) :
            /\ StartsPart(M, m) /\ Neighbours(M, m, n)
            /\ \E w \in downloads : Lowered(M[m]) = Plain(w)
            /\ \E w \in shells : Lowered(M[n]) = Plain(w)
      BY <2>1, <2>3
    <2> QED
      BY <1>1, <2>4, SplittablePipes
  <1>3. ASSUME HasDownloadPipeToShell(M, downloads, shells)
        PROVE  HasDownloadPipeToShell(L, downloads, shells)
    <2>1. PICK i \in 1 .. Len(M), j \in 1 .. Len(M) :
            /\ StartsPart(M, i) /\ Neighbours(M, i, j)
            /\ \E w \in downloads : Lowered(M[i]) = Plain(w)
            /\ \E w \in shells : Lowered(M[j]) = Plain(w)
      BY <1>1, <1>3, SplittablePipes
    <2>2. i \notin {d, d + 1} /\ j \notin {d, d + 1}
      BY <2>1, DoubledAt
    <2>3. /\ Down(d, i) \in 1 .. Len(L) /\ Down(d, j) \in 1 .. Len(L)
          /\ L[Down(d, i)] = M[i] /\ L[Down(d, j)] = M[j]
          /\ StartsPart(L, Down(d, i)) /\ Neighbours(L, Down(d, i), Down(d, j))
      BY <2>1, <2>2, DownParts
    <2>4. \E m, n \in 1 .. Len(L) :
            /\ StartsPart(L, m) /\ Neighbours(L, m, n)
            /\ \E w \in downloads : Lowered(L[m]) = Plain(w)
            /\ \E w \in shells : Lowered(L[n]) = Plain(w)
      BY <2>1, <2>3
    <2> QED
      BY <2>4, SplittablePipes
  <1> QED
    BY <1>2, <1>3

(* The words after k but for the one at d.                                 *)
Others(line, k, d) == {line[n].word : n \in {m \in k + 1 .. Len(line) : m # d /\ ~line[m].dir}}

(* What follows a token is the same but for the flags at d.                *)
LEMMA DoubledFollowing ==
    ASSUME NEW L \in Seq(Tokens), NEW M \in Seq(Tokens), NEW d \in 1 .. Len(L), Doubled(L, M, d),
           NEW k \in 1 .. Len(L), k < d, ~L[d].dir, ~M[d].dir, ~M[d + 1].dir
    PROVE  /\ Following(L, k) = Others(L, k, d) \cup {L[d].word}
           /\ Following(M, k) = Others(L, k, d) \cup {M[d].word, M[d + 1].word}
  <1>facts. /\ Len(L) \in Nat /\ Len(M) = Len(L) + 1
         /\ \A n \in 1 .. Len(L) : (n < d => M[n] = L[n]) /\ (n > d => M[n + 1] = L[n])
         /\ L[d] # Pipe /\ M[d] # Pipe /\ M[d + 1] # Pipe
    BY DoubledAt
  <1> USE <1>facts
  <1> DEFINE rest == Others(L, k, d)
  <1>1. d \in k + 1 .. Len(L) /\ \A n \in k + 1 .. Len(L) : n \in 1 .. Len(L)
    OBVIOUS
  <1>2. Following(L, k) = rest \cup {L[d].word}
    <2>1. \A x : x \in Following(L, k) <=>
                \E n \in k + 1 .. Len(L) : ~L[n].dir /\ L[n].word = x
      BY DEF Following
    <2>2. \A x : x \in rest <=>
                \E n \in k + 1 .. Len(L) : n # d /\ ~L[n].dir /\ L[n].word = x
      BY DEF Others
    <2> HIDE DEF rest
    <2> QED
      BY <1>1, <2>1, <2>2
  <1>3. ASSUME NEW x, x \in Following(M, k)
        PROVE  x \in rest \cup {M[d].word, M[d + 1].word}
    <2>1. PICK n \in k + 1 .. Len(M) : ~M[n].dir /\ M[n].word = x
      BY <1>3, FollowingOf
    <2>2. CASE n < d
      <3>1. n \in k + 1 .. Len(L) /\ n \in 1 .. Len(L) /\ M[n] = L[n] /\ n # d
        BY <2>1, <2>2
      <3> QED
        BY <2>1, <3>1 DEF Others
    <2>3. CASE n > d + 1
      <3>1. n - 1 \in k + 1 .. Len(L) /\ n - 1 > d /\ (n - 1) + 1 = n
        BY <2>1, <2>3
      <3>2. M[(n - 1) + 1] = L[n - 1]
        BY <1>1, <3>1
      <3>3. ~L[n - 1].dir /\ L[n - 1].word = x /\ n - 1 # d
        BY <2>1, <3>1, <3>2
      <3> QED
        BY <3>1, <3>3 DEF Others
    <2> QED
      BY <2>1, <2>2, <2>3
  <1>4. ASSUME NEW x, x \in rest PROVE x \in Following(M, k)
    <2>1. PICK n \in k + 1 .. Len(L) : n # d /\ ~L[n].dir /\ L[n].word = x
      BY <1>4 DEF Others
    <2>2. CASE n < d
      <3>1. n \in k + 1 .. Len(M) /\ M[n] = L[n]
        BY <1>1, <2>2
      <3> QED
        BY <2>1, <3>1, FollowingOf
    <2>3. CASE n > d
      <3>1. n + 1 \in k + 1 .. Len(M) /\ M[n + 1] = L[n]
        BY <1>1, <2>3
      <3> QED
        BY <2>1, <3>1, FollowingOf
    <2> QED
      BY <2>1, <2>2, <2>3
  <1>5. M[d].word \in Following(M, k) /\ M[d + 1].word \in Following(M, k)
    <2>1. d \in k + 1 .. Len(M) /\ d + 1 \in k + 1 .. Len(M)
      BY <1>1
    <2> QED
      BY <2>1, FollowingOf
  <1> HIDE DEF rest
  <1>6. Following(M, k) = rest \cup {M[d].word, M[d + 1].word}
    BY <1>3, <1>4, <1>5
  <1> QED
    BY <1>2, <1>6 DEF rest

LEMMA DoubledAfter ==
    ASSUME NEW L \in Seq(Tokens), NEW M \in Seq(Tokens), NEW d \in 1 .. Len(L), Doubled(L, M, d),
           NEW k \in 1 .. Len(L), k > d
    PROVE  TokenRisk(L, k) <=> TokenRisk(M, k + 1)
  <1>facts. /\ Len(L) \in Nat /\ Len(M) = Len(L) + 1
         /\ \A n \in 1 .. Len(L) : (n < d => M[n] = L[n]) /\ (n > d => M[n + 1] = L[n])
         /\ L[d] # Pipe /\ M[d] # Pipe /\ M[d + 1] # Pipe
    BY DoubledAt
  <1> USE <1>facts
  <1>1. M[k + 1] = L[k]
    OBVIOUS
  <1>2. ASSUME NEW x, x \in Following(L, k) PROVE x \in Following(M, k + 1)
    <2>1. PICK n \in k + 1 .. Len(L) : ~L[n].dir /\ L[n].word = x
      BY <1>2, FollowingOf
    <2>2. n + 1 \in (k + 1) + 1 .. Len(M) /\ M[n + 1] = L[n]
      BY <2>1
    <2> QED
      BY <2>1, <2>2, FollowingOf
  <1>3. ASSUME NEW x, x \in Following(M, k + 1) PROVE x \in Following(L, k)
    <2>1. PICK n \in (k + 1) + 1 .. Len(M) : ~M[n].dir /\ M[n].word = x
      BY <1>3 DEF Following
    <2>2. n - 1 \in k + 1 .. Len(L) /\ n - 1 > d /\ n - 1 \in 1 .. Len(L) /\ (n - 1) + 1 = n
      BY <2>1
    <2>3. M[(n - 1) + 1] = L[n - 1]
      BY <2>2
    <2>4. ~L[n - 1].dir /\ L[n - 1].word = x
      BY <2>1, <2>2, <2>3
    <2> QED
      BY <2>2, <2>4, FollowingOf
  <1> QED
    BY <1>1, <1>2, <1>3, SameTokenRisks DEF TokenRisk

LEMMA DoubledBefore ==
    ASSUME NEW L \in Seq(Tokens), NEW M \in Seq(Tokens), NEW d \in 1 .. Len(L), Doubled(L, M, d),
           NEW k \in 1 .. Len(L), k < d, ~L[d].dir, L[d].word \in {"-rf", "-fr"},
           M[d] = Plain("-r"), M[d + 1] = Plain("-f"),
           \A a \in RemoveItemAliases : L[k].word = a => a = "rm"
    PROVE  TokenRisk(L, k) <=> TokenRisk(M, k)
  <1>1. M[k] = L[k] /\ L[k] \in Tokens
    BY DEF Doubled
  <1>2. PICK rest : /\ Following(L, k) = rest \cup {L[d].word}
                    /\ Following(M, k) = rest \cup {"-r", "-f"}
    <2>1. ~M[d].dir /\ ~M[d + 1].dir /\ M[d].word = "-r" /\ M[d + 1].word = "-f"
      BY DEF Plain
    <2>2. {M[d].word, M[d + 1].word} = {"-r", "-f"}
      BY <2>1
    <2>3. /\ Following(L, k) = Others(L, k, d) \cup {L[d].word}
          /\ Following(M, k) = Others(L, k, d) \cup {M[d].word, M[d + 1].word}
      BY <2>1, DoubledFollowing
    <2> QED
      BY <2>2, <2>3
  <1>3. CASE L[k].word = "rm"
    <2>0. L[d].word \in WithLetterR /\ L[d].word \in WithLetterF
          /\ "-r" \in WithLetterR /\ "-f" \in WithLetterF
      BY DEF WithLetterR, WithLetterF, SingleDash
    <2>1. HasRecursiveForceFlags(Following(L, k)) /\ HasRecursiveForceFlags(Following(M, k))
      BY <1>2, <2>0 DEF HasRecursiveForceFlags
    <2> QED
      BY <1>1, <1>3, <2>1 DEF TokenRisk, PosixTokenRisk, Basename
  <1>4. CASE L[k].word # "rm"
    <2>1. \A a \in RemoveItemAliases : Lowered(L[k]) # Plain(a)
      <3>1. \A a : Lowered(L[k]) = Plain(a) => L[k].word = a
        BY <1>1 DEF Lowered, Plain, Tokens
      <3> QED
        BY <1>4, <3>1
    <2>2. \A x \in {"bypass", "777", "if="} : x \in Following(L, k) <=> x \in Following(M, k)
      BY <1>2
    <2>3. PowerShellTokenRisk(L, k) <=> PowerShellTokenRisk(M, k)
      BY <1>1, <2>1, <2>2 DEF PowerShellTokenRisk
    <2>4. PosixTokenRisk(L, k) <=> PosixTokenRisk(M, k)
      BY <1>1, <1>4, <2>2 DEF PosixTokenRisk, Basename
    <2> QED
      BY <2>3, <2>4 DEF TokenRisk
  <1> QED
    BY <1>3, <1>4

(* One flag or two: the line is a risk either way.                         *)
LEMMA DoubledSame ==
    ASSUME NEW L \in Seq(Tokens), NEW M \in Seq(Tokens), NEW d \in 1 .. Len(L), Doubled(L, M, d),
           ~L[d].dir, L[d].word \in {"-rf", "-fr"}, M[d] = Plain("-r"), M[d + 1] = Plain("-f"),
           \A k \in 1 .. Len(L) : \A a \in RemoveItemAliases : L[k].word = a => a = "rm"
    PROVE  DetectCommandRisk(L) <=> DetectCommandRisk(M)
  <1>1. /\ {"invoke-webrequest", "iwr"} \in SUBSET PipeWords
        /\ {"invoke-expression", "iex"} \in SUBSET PipeWords
        /\ {"curl", "wget"} \in SUBSET PipeWords /\ {"bash", "sh"} \in SUBSET PipeWords
    BY DEF PipeWords
  <1>2. Splittable(L) <=> Splittable(M)
    BY DoubledSplits
  <1>3. Splittable(L) => (HasPipeline(L) <=> HasPipeline(M))
    BY <1>1, DoubledPipes DEF HasPipeline
  <1>4. DOMAIN L = 1 .. Len(L) /\ DOMAIN M = 1 .. Len(M) /\ Len(L) \in Nat /\ Len(M) = Len(L) + 1
    BY DoubledAt
  <1>5. ASSUME NEW k \in 1 .. Len(L), TokenRisk(L, k)
        PROVE  \E m \in 1 .. Len(M) : TokenRisk(M, m)
    <2>1. k # d
      BY <1>5, FlagsAreNoRisk DEF Doubled
    <2>2. CASE k < d
      BY <1>4, <1>5, <2>2, DoubledBefore
    <2>3. CASE k > d
      <3>1. TokenRisk(M, k + 1) /\ k + 1 \in 1 .. Len(M)
        BY <1>4, <1>5, <2>3, DoubledAfter
      <3> QED
        BY <3>1
    <2> QED
      BY <2>1, <2>2, <2>3
  <1>6. ASSUME NEW m \in 1 .. Len(M), TokenRisk(M, m)
        PROVE  \E k \in 1 .. Len(L) : TokenRisk(L, k)
    <2>1. m # d /\ m # d + 1
      BY <1>6, FlagsAreNoRisk DEF Doubled
    <2>2. CASE m < d
      <3>1. m \in 1 .. Len(L)
        BY <1>4, <2>2
      <3> QED
        BY <1>6, <2>2, <3>1, DoubledBefore
    <2>3. CASE m > d + 1
      <3>1. PICK k \in 1 .. Len(L) : k > d /\ k + 1 = m
        <4>1. m - 1 \in 1 .. Len(L) /\ m - 1 > d /\ (m - 1) + 1 = m
          BY <1>4, <2>3
        <4> QED
          BY <4>1
      <3> QED
        BY <1>6, <3>1, DoubledAfter
    <2> QED
      BY <2>1, <2>2, <2>3
  <1> QED
    BY <1>2, <1>3, <1>4, <1>5, <1>6, RiskForm

LEMMA InsertedAt ==
    ASSUME NEW S, NEW A \in Seq(S), NEW B \in Seq(S), NEW a \in S, NEW b \in S
    PROVE  LET M == A \o <<a, b>> \o B
           IN  /\ M \in Seq(S) /\ Len(M) = Len(A) + 2 + Len(B)
               /\ \A k \in 1 .. Len(A) : M[k] = A[k]
               /\ M[Len(A) + 1] = a /\ M[Len(A) + 2] = b
               /\ \A k \in 1 .. Len(B) : M[Len(A) + 2 + k] = B[k]
  <1>0. <<a, b>> \in Seq(S) /\ Len(<<a, b>>) = 2 /\ <<a, b>>[1] = a /\ <<a, b>>[2] = b
    OBVIOUS
  <1>1. PICK P \in Seq(S) : P = <<a, b>> /\ Len(P) = 2 /\ P[1] = a /\ P[2] = b
    BY <1>0
  <1>2. PICK N \in Seq(S) : /\ N = A \o P /\ Len(N) = Len(A) + 2
                            /\ \A k \in 1 .. Len(A) : N[k] = A[k]
                            /\ N[Len(A) + 1] = a /\ N[Len(A) + 2] = b
    <2>1. A \o P \in Seq(S) /\ Len(A \o P) = Len(A) + 2
      BY <1>1
    <2>2. \A k \in 1 .. Len(A) : (A \o P)[k] = A[k]
      OBVIOUS
    <2>3. (A \o P)[Len(A) + 1] = a /\ (A \o P)[Len(A) + 2] = b
      BY <1>1
    <2> QED
      BY <2>1, <2>2, <2>3
  <1>3. /\ N \o B \in Seq(S) /\ Len(N \o B) = Len(N) + Len(B)
        /\ \A k \in 1 .. Len(N) : (N \o B)[k] = N[k]
        /\ \A k \in 1 .. Len(B) : (N \o B)[Len(N) + k] = B[k]
    OBVIOUS
  <1>4. A \o <<a, b>> \o B = N \o B
    BY <1>1, <1>2
  <1>5. Len(A) \in Nat /\ Len(B) \in Nat
    OBVIOUS
  <1> QED
    BY <1>2, <1>3, <1>4, <1>5

LEMMA SplitAt ==
    ASSUME TypeOK, NEW d \in 1 .. Len(text), SplitFlag(d)
    PROVE  /\ text' \in Seq(Tokens) /\ Len(text') = Len(text) + 1 /\ Len(text) \in Nat
           /\ \A k \in 1 .. Len(text) : (k < d => text'[k] = text[k])
                                      /\ (k > d => text'[k + 1] = text[k])
           /\ text'[d] = Plain("-r") /\ text'[d + 1] = Plain("-f")
  <1>0. PICK L \in Seq(Tokens) : L = text
    BY DEF TypeOK
  <1>1. PICK M : L = text /\ M = text'
    BY <1>0
  <1>2. d \in 1 .. Len(L) /\ Len(L) \in Nat
    BY <1>1
  <1>3. M = SubSeq(L, 1, d - 1) \o <<Plain("-r"), Plain("-f")>> \o SubSeq(L, d + 1, Len(L))
    BY <1>1 DEF SplitFlag
  <1>4. Plain("-r") \in Tokens /\ Plain("-f") \in Tokens
    BY DEF Plain, Tokens, AnyWord
  <1>5. PICK a \in Tokens, b \in Tokens : a = Plain("-r") /\ b = Plain("-f")
    BY <1>4
  <1>6. PICK A \in Seq(Tokens), B \in Seq(Tokens) :
            /\ A = SubSeq(L, 1, d - 1) /\ Len(A) = d - 1 /\ \A k \in 1 .. d - 1 : A[k] = L[k]
            /\ B = SubSeq(L, d + 1, Len(L)) /\ Len(B) = Len(L) - d
            /\ \A k \in 1 .. Len(L) - d : B[k] = L[d + k]
    <2>1. /\ SubSeq(L, 1, d - 1) \in Seq(Tokens) /\ Len(SubSeq(L, 1, d - 1)) = d - 1
          /\ \A k \in 1 .. d - 1 : SubSeq(L, 1, d - 1)[k] = L[k]
      BY <1>2
    <2>2. /\ SubSeq(L, d + 1, Len(L)) \in Seq(Tokens) /\ Len(SubSeq(L, d + 1, Len(L))) = Len(L) - d
          /\ \A k \in 1 .. Len(L) - d : SubSeq(L, d + 1, Len(L))[k] = L[d + k]
      BY <1>2
    <2> QED
      BY <2>1, <2>2
  <1>7. /\ M \in Seq(Tokens) /\ Len(M) = Len(L) + 1
        /\ \A k \in 1 .. d - 1 : M[k] = A[k]
        /\ M[d] = a /\ M[d + 1] = b
        /\ \A k \in 1 .. Len(L) - d : M[d + 1 + k] = B[k]
    <2>1. M = A \o <<a, b>> \o B
      BY <1>3, <1>5, <1>6
    <2>2. /\ M \in Seq(Tokens) /\ Len(M) = Len(A) + 2 + Len(B)
          /\ \A k \in 1 .. Len(A) : M[k] = A[k]
          /\ M[Len(A) + 1] = a /\ M[Len(A) + 2] = b
          /\ \A k \in 1 .. Len(B) : M[Len(A) + 2 + k] = B[k]
      BY <2>1, InsertedAt
    <2>3. Len(A) = d - 1 /\ Len(B) = Len(L) - d
      BY <1>6
    <2>4. Len(A) + 1 = d /\ Len(A) + 2 = d + 1 /\ Len(A) + 2 + Len(B) = Len(L) + 1
      BY <1>2, <2>3
    <2>5. M \in Seq(Tokens) /\ Len(M) = Len(L) + 1 /\ M[d] = a /\ M[d + 1] = b
      BY <2>2, <2>4
    <2>6. \A k \in 1 .. d - 1 : M[k] = A[k]
      BY <2>2, <2>3
    <2>7. \A k \in 1 .. Len(L) - d : M[d + 1 + k] = B[k]
      BY <2>2, <2>3, <2>4
    <2> QED
      BY <2>5, <2>6, <2>7
  <1>8. ASSUME NEW k \in 1 .. Len(L), k < d PROVE M[k] = L[k]
    <2>1. k \in 1 .. d - 1
      BY <1>2, <1>8
    <2>2. A[k] = L[k]
      BY <1>6, <2>1
    <2>3. M[k] = A[k]
      BY <1>7, <2>1
    <2> QED
      BY <2>2, <2>3
  <1>9. ASSUME NEW k \in 1 .. Len(L), k > d PROVE M[k + 1] = L[k]
    <2>1. k - d \in 1 .. Len(L) - d /\ d + 1 + (k - d) = k + 1 /\ d + (k - d) = k
      BY <1>2, <1>9
    <2>2. B[k - d] = L[d + (k - d)]
      BY <1>6, <2>1
    <2>3. M[d + 1 + (k - d)] = B[k - d]
      BY <1>7, <2>1
    <2> QED
      BY <2>1, <2>2, <2>3
  <1> QED
    BY <1>1, <1>2, <1>5, <1>7, <1>8, <1>9

LEMMA SplitSame ==
    ASSUME TypeOK, DirsAreNames, NEW d \in DOMAIN text, SplitFlag(d)
    PROVE  DetectCommandRisk(text) <=> DetectCommandRisk(text')
  <1>1. PICK L \in Seq(Tokens), M \in Seq(Tokens) : L = text /\ M = text'
    <2>1. text' \in Seq(Tokens)
      BY SplitAt DEF TypeOK
    <2> QED
      BY <2>1 DEF TypeOK
  <1>2. d \in 1 .. Len(L) /\ L[d].word \in {"-rf", "-fr"}
    BY <1>1 DEF SplitFlag
  <1>3. ~L[d].dir
    BY <1>1, <1>2 DEF DirsAreNames, Names, TokenNames, PipeNames
  <1>4. \A k \in 1 .. Len(L) : \A a \in RemoveItemAliases : L[k].word = a => a = "rm"
    BY <1>1 DEF SplitFlag, Removers
  <1>5. /\ Len(M) = Len(L) + 1 /\ M[d] = Plain("-r") /\ M[d + 1] = Plain("-f")
        /\ \A k \in 1 .. Len(L) : (k < d => M[k] = L[k]) /\ (k > d => M[k + 1] = L[k])
    BY <1>1, <1>2, SplitAt
  <1>6. Doubled(L, M, d)
    <2>1. L[d].word \in Flags /\ Plain("-r").word \in Flags /\ Plain("-f").word \in Flags
      BY <1>2 DEF Flags, SingleDash, Plain
    <2> QED
      BY <1>5, <2>1 DEF Doubled
  <1>7. DetectCommandRisk(L) <=> DetectCommandRisk(M)
    BY <1>2, <1>3, <1>4, <1>5, <1>6, DoubledSame
  <1> QED
    BY <1>1, <1>7

-----------------------------------------------------------------------------
(* The intent decides                                                      *)

LEMMA DirsInit == Init => DirsAreNames
  BY DEF Init, DirsAreNames

LEMMA DirsNext == TypeOK /\ DirsAreNames /\ [Next]_vars => DirsAreNames'
  <1> SUFFICES ASSUME TypeOK, DirsAreNames, [Next]_vars PROVE DirsAreNames'
    OBVIOUS
  <1>1. text \in Seq(Tokens) /\ DOMAIN text = 1 .. Len(text) /\ Len(text) \in Nat
    BY DEF TypeOK
  <1>2. \A k \in 1 .. Len(text) : text[k].dir => text[k].word \in Names
    BY <1>1 DEF DirsAreNames
  <1>3. \A w : ~Plain(w).dir
    BY DEF Plain
  <1>4. ASSUME NEW w \in words, Write(w) PROVE DirsAreNames'
    <2>1. text' = Append(text, Plain(w))
      BY <1>4 DEF Write
    <2>2. /\ DOMAIN text' = 1 .. Len(text) + 1 /\ text'[Len(text) + 1] = Plain(w)
          /\ \A k \in 1 .. Len(text) : text'[k] = text[k]
      BY <1>1, <2>1
    <2>3. ASSUME NEW k \in DOMAIN text', text'[k].dir PROVE text'[k].word \in Names
      <3>1. CASE k = Len(text) + 1
        BY <1>3, <2>2, <2>3, <3>1
      <3>2. CASE k \in 1 .. Len(text)
        BY <1>2, <2>2, <2>3, <3>2
      <3> QED
        BY <1>1, <2>2, <3>1, <3>2
    <2> QED
      BY <2>3 DEF DirsAreNames
  <1>5. ASSUME NEW w \in words, Move(w) PROVE DirsAreNames'
    <2>1. text' = <<Plain(w)>> \o text
      BY <1>5 DEF Move
    <2>2. /\ DOMAIN text' = 1 .. Len(text) + 1 /\ text'[1] = Plain(w)
          /\ \A k \in 1 .. Len(text) : text'[k + 1] = text[k]
      BY <1>1, <2>1
    <2>3. ASSUME NEW k \in DOMAIN text', text'[k].dir PROVE text'[k].word \in Names
      <3>1. CASE k = 1
        BY <1>3, <2>2, <2>3, <3>1
      <3>2. CASE k # 1
        <4>1. PICK m \in 1 .. Len(text) : m + 1 = k
          <5>1. k - 1 \in 1 .. Len(text) /\ (k - 1) + 1 = k
            BY <1>1, <2>2, <2>3, <3>2
          <5> QED
            BY <5>1
        <4> QED
          BY <1>2, <2>2, <2>3, <4>1
      <3> QED
        BY <3>1, <3>2
    <2> QED
      BY <2>3 DEF DirsAreNames
  <1>6. ASSUME NEW i \in 1 .. Len(text), NEW t, Put(i, t), t.dir => t.word \in Names
        PROVE  DirsAreNames'
    <2>1. /\ DOMAIN text' = 1 .. Len(text) /\ text'[i] = t
          /\ \A k \in 1 .. Len(text) : k # i => text'[k] = text[k]
      BY <1>1, <1>6 DEF Put
    <2> QED
      BY <1>2, <1>6, <2>1 DEF DirsAreNames
  <1>7. ASSUME Rewrite PROVE DirsAreNames'
    <2>0. PICK i \in DOMAIN text :
            \/ Capitalize(i) \/ Qualify(i) \/ \E w \in words : Respell(i, w)
            \/ SwapFlags(i) \/ SplitFlag(i)
      BY <1>7 DEF Rewrite
    <2>1. i \in 1 .. Len(text) /\ text[i] \in Tokens
          /\ (text[i].dir => text[i].word \in Names)
      BY <1>1, <1>2, <2>0
    <2>2. CASE Capitalize(i)
      <3>1. PICK t : t = [text[i] EXCEPT !.caps = TRUE]
        OBVIOUS
      <3>2. t.dir = text[i].dir /\ t.word = text[i].word
        BY <2>1, <3>1 DEF Tokens
      <3>3. Put(i, t)
        BY <2>2, <3>1 DEF Capitalize
      <3> QED
        BY <1>6, <2>1, <3>2, <3>3
    <2>3. CASE Qualify(i)
      <3>1. PICK t : t = [text[i] EXCEPT !.dir = TRUE]
        OBVIOUS
      <3>2. t.word = text[i].word
        BY <2>1, <3>1 DEF Tokens
      <3>3. Put(i, t) /\ text[i].word \in Names
        BY <2>3, <3>1 DEF Qualify, Names
      <3> QED
        BY <1>6, <2>1, <3>2, <3>3
    <2>4. ASSUME NEW w \in words, Respell(i, w) PROVE DirsAreNames'
      <3>1. PICK t : t = [text[i] EXCEPT !.word = w]
        OBVIOUS
      <3>2. ~t.dir
        BY <2>1, <2>4, <3>1 DEF Tokens, Respell, Dash
      <3>3. Put(i, t)
        BY <2>4, <3>1 DEF Respell
      <3> QED
        BY <1>6, <2>1, <3>2, <3>3
    <2>5. CASE SwapFlags(i)
      <3>1. i + 1 \in 1 .. Len(text)
        BY <1>1, <2>1, <2>5 DEF SwapFlags
      <3>2. /\ DOMAIN text' = 1 .. Len(text) /\ text'[i] = text[i + 1] /\ text'[i + 1] = text[i]
            /\ \A k \in 1 .. Len(text) : k # i /\ k # i + 1 => text'[k] = text[k]
        BY <1>1, <2>1, <2>5, <3>1 DEF SwapFlags
      <3>3. \A k \in 1 .. Len(text) : \E m \in 1 .. Len(text) : text'[k] = text[m]
        BY <2>1, <3>1, <3>2
      <3>4. \A k \in 1 .. Len(text) : text'[k].dir => text'[k].word \in Names
        BY <1>2, <3>3
      <3> QED
        BY <3>2, <3>4 DEF DirsAreNames
    <2>6. CASE SplitFlag(i)
      <3>0. /\ text' \in Seq(Tokens) /\ Len(text') = Len(text) + 1
            /\ \A k \in 1 .. Len(text) : (k < i => text'[k] = text[k])
                                       /\ (k > i => text'[k + 1] = text[k])
            /\ text'[i] = Plain("-r") /\ text'[i + 1] = Plain("-f")
        BY <2>1, <2>6, SplitAt
      <3>1. PICK L, M : /\ L = text /\ M = text' /\ Len(M) = Len(L) + 1 /\ M \in Seq(Tokens)
                        /\ \A k \in 1 .. Len(L) : (k < i => M[k] = L[k]) /\ (k > i => M[k + 1] = L[k])
                        /\ M[i] = Plain("-r") /\ M[i + 1] = Plain("-f")
        BY <3>0
      <3>2. ASSUME NEW k \in 1 .. Len(M), M[k].dir PROVE M[k].word \in Names
        <4>1. k # i /\ k # i + 1
          BY <1>3, <3>1, <3>2
        <4>2. \E m \in 1 .. Len(L) : M[k] = L[m]
          <5>1. CASE k < i
            BY <1>1, <2>1, <3>1, <5>1
          <5>2. CASE k > i + 1
            <6>1. k - 1 \in 1 .. Len(L) /\ k - 1 > i /\ (k - 1) + 1 = k
              BY <1>1, <2>1, <3>1, <5>2
            <6>2. M[(k - 1) + 1] = L[k - 1]
              BY <3>1, <6>1
            <6> QED
              BY <6>1, <6>2
          <5> QED
            BY <1>1, <2>1, <3>1, <4>1, <5>1, <5>2
        <4> QED
          BY <1>2, <3>1, <3>2, <4>2
      <3> QED
        BY <3>1, <3>2 DEF DirsAreNames
    <2> QED
      BY <2>0, <2>2, <2>3, <2>4, <2>5, <2>6
  <1>8. CASE UNCHANGED vars
    BY <1>8 DEF vars, DirsAreNames
  <1> QED
    BY <1>4, <1>5, <1>7, <1>8 DEF Next

(* Capitals do not make a path another one.                                *)
LEMMA CapitalizedPath ==
    ASSUME TypeOK, NEW i \in DOMAIN text, Capitalize(i)
    PROVE  IsSensitivePath(text) <=> IsSensitivePath(text')
  <1>0. PICK L \in Seq(Tokens) : L = text
    BY DEF TypeOK
  <1>1. PICK M : L = text /\ M = text'
    BY <1>0
  <1>2. /\ DOMAIN M = DOMAIN L /\ Len(M) = Len(L)
        /\ \A k \in DOMAIN L : M[k].word = L[k].word
    <2>1. i \in DOMAIN L /\ M = [L EXCEPT ![i] = [L[i] EXCEPT !.caps = TRUE]]
      BY <1>1 DEF Capitalize, Put
    <2>2. [L[i] EXCEPT !.caps = TRUE].word = L[i].word
      BY <2>1 DEF Tokens
    <2> QED
      BY <2>1, <2>2
  <1>3. Len(L) \in Nat /\ DOMAIN L = 1 .. Len(L) /\ (L # <<>> <=> Len(L) # 0)
        /\ (M # <<>> <=> Len(M) # 0)
    <2>1. M \in Seq(Tokens)
      BY <1>1, TypesNext DEF Next, Rewrite, TypeOK
    <2> QED
      BY <2>1
  <1>4. ASSUME NEW s \in SensitiveComponentPaths
        PROVE  ContainsComponentPath(L, s) <=> ContainsComponentPath(M, s)
    <2>1. Len(s) = 2 /\ DOMAIN s = {1, 2}
      BY DEF SensitiveComponentPaths
    <2>2. ASSUME NEW start \in 0 .. Len(L) - Len(s), NEW k \in DOMAIN s
          PROVE  M[start + k].word = L[start + k].word
      <3>1. start + k \in DOMAIN L
        BY <1>3, <2>1, <2>2
      <3> QED
        BY <1>2, <3>1
    <2> QED
      BY <1>2, <2>2 DEF ContainsComponentPath
  <1>5. /\ FileName(M) = FileName(L)
        /\ (\E k \in DOMAIN M : M[k].word \in SensitiveFileNames)
              <=> \E k \in DOMAIN L : L[k].word \in SensitiveFileNames
    BY <1>2, <1>3 DEF FileName
  <1> QED
    BY <1>1, <1>4, <1>5 DEF IsSensitivePath

LEMMA RewriteSame ==
    ASSUME TypeOK, DirsAreNames, Rewrite, ~\E i \in DOMAIN text : QualifyFirstOfPart(i)
    PROVE  HardBlocked' <=> HardBlocked
  <1>1. PICK i \in DOMAIN text :
          \/ Capitalize(i) \/ Qualify(i) \/ \E w \in words : Respell(i, w)
          \/ SwapFlags(i) \/ SplitFlag(i)
    BY DEF Rewrite
  <1>2. kind' = kind /\ kind \in {"command", "path"}
    BY <1>1 DEF TypeOK, Capitalize, Qualify, Respell, SwapFlags, SplitFlag, Put
  <1>3. CASE kind = "command"
    <2>1. DetectCommandRisk(text) <=> DetectCommandRisk(text')
      <3>1. \A w \in words : w \in AnyWord
        BY DEF TypeOK
      <3>2. CASE Capitalize(i)
        BY <1>1, <1>3, <3>2, CapitalizeSame
      <3>3. CASE Qualify(i)
        BY <1>1, <3>3, QualifySame
      <3>4. ASSUME NEW w \in words, Respell(i, w)
            PROVE  DetectCommandRisk(text) <=> DetectCommandRisk(text')
        BY <1>1, <3>1, <3>4, RespellSame
      <3>5. CASE SwapFlags(i)
        BY <1>1, <3>5, SwapSame
      <3>6. CASE SplitFlag(i)
        BY <1>1, <3>6, SplitSame
      <3> QED
        BY <1>1, <3>2, <3>3, <3>4, <3>5, <3>6
    <2>2. HardBlocked = DetectCommandRisk(text) /\ HardBlocked' = DetectCommandRisk(text')
      BY <1>2, <1>3 DEF HardBlocked
    <2> QED
      BY <2>1, <2>2
  <1>4. CASE kind = "path"
    <2>1. Capitalize(i)
      BY <1>1, <1>4 DEF Qualify, Respell, SwapFlags, SplitFlag
    <2>2. IsSensitivePath(text) <=> IsSensitivePath(text')
      BY <1>1, <2>1, CapitalizedPath
    <2>3. HardBlocked = IsSensitivePath(text) /\ HardBlocked' = IsSensitivePath(text')
      BY <1>2, <1>4 DEF HardBlocked
    <2> QED
      BY <2>2, <2>3
  <1> QED
    BY <1>2, <1>3, <1>4

(* However a command or a path is written, it is blocked or it is not; but *)
(* for a directory before the first name of a pipeline's part.             *)
THEOREM IntentDecides == Spec => SameIntent
  <1>1. TypeOK /\ DirsAreNames /\ [Next]_vars =>
            [Rewrite /\ ~(\E i \in DOMAIN text : QualifyFirstOfPart(i))
                => (HardBlocked' <=> HardBlocked)]_vars
    BY RewriteSame
  <1> QED
    BY TypesHold, DirsInit, DirsNext, <1>1, PTL DEF Spec, SameIntent
=============================================================================

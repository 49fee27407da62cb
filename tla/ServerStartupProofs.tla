------------------------- MODULE ServerStartupProofs -------------------------
(***************************************************************************)
(* Theorems about ServerStartup, for any processes, ports and timeout, and *)
(* whatever the API threads and the other programs do.                     *)
(***************************************************************************)
EXTENDS ServerStartup, TLAPS

(* Abbreviations of the module that every step is stated with.             *)
USE DEF flags, HasPort, Owned, Free, Bind, Unbind, Goto, Refuse, ThreadGoto,
        Vanish, Alive, Held, Running, Waiting

-----------------------------------------------------------------------------
(* Every action keeps StartupInv. *)

(* The main thread: it owns a port only in its probe.                      *)
LEMMA MainStepKeeps ==
    ASSUME StartupInv, NEW s \in Servers, MainStep(s)
    PROVE  StartupInv'
  <1> USE StartupAssumption DEF StartupInv, MainStep,
          Resolve, Probe, Release, Spawn, Top, LookAtStarted, LookAtErrors,
          LookAtThread, Exit
  <1>1. TypeOK'
    BY DEF TypeOK, MainSteps, ApiSteps, Reasons
  <1>2. OwnersAreThreads'
    BY DEF TypeOK, OwnersAreThreads, ThreadsOwn, ThreadsInPlace
  <1>3. ThreadsOwn'
    BY DEF TypeOK, OwnersAreThreads, ThreadsOwn, ThreadsInPlace
  <1>4. ThreadsInPlace'
    BY DEF TypeOK, ThreadsInPlace, FlagsAreTrue
  <1>5. FlagsAreTrue'
    BY DEF TypeOK, ThreadsInPlace, ThreadsOwn, FlagsAreTrue
  <1>6. OthersAreTrouble'
    BY DEF TypeOK, OthersAreTrouble, ThreadsOwn
  <1> QED
    BY <1>1, <1>2, <1>3, <1>4, <1>5, <1>6

(* The API thread: it sets the flags, and owns a port while it is bound.   *)
LEMMA ThreadStepKeeps ==
    ASSUME StartupInv, NEW s \in Servers, ThreadStep(s)
    PROVE  StartupInv'
  <1> USE StartupAssumption DEF StartupInv, ThreadStep,
          ApiBinds, ApiCannotBind, ApiStarts, ApiFails, ThreadEnds
  <1>1. TypeOK'
    <2> USE DEF TypeOK, MainSteps, ApiSteps, Reasons
    <2>1. CASE ApiFails(s)
      BY <2>1
    <2>2. CASE ApiBinds(s)
      BY <2>2
    <2>3. CASE ApiCannotBind(s) \/ ApiStarts(s) \/ ThreadEnds(s)
      BY <2>3
    <2> QED
      BY <2>1, <2>2, <2>3
  <1>2. OwnersAreThreads'
    BY DEF TypeOK, OwnersAreThreads, ThreadsOwn, ThreadsInPlace
  <1>3. ThreadsOwn'
    BY DEF TypeOK, OwnersAreThreads, ThreadsOwn, ThreadsInPlace
  <1>4. ThreadsInPlace'
    BY DEF TypeOK, ThreadsInPlace, FlagsAreTrue
  <1>5. FlagsAreTrue'
    BY DEF TypeOK, ThreadsInPlace, ThreadsOwn, FlagsAreTrue
  <1>6. OthersAreTrouble'
    BY DEF TypeOK, OthersAreTrouble, ThreadsOwn
  <1> QED
    BY <1>1, <1>2, <1>3, <1>4, <1>5, <1>6

(* A process that ends frees its port; one that starts has no thread yet.  *)
LEMMA LifeKeeps ==
    ASSUME StartupInv, NEW s \in Servers, Stop(s) \/ Restart(s)
    PROVE  StartupInv'
  <1> USE StartupAssumption DEF StartupInv, Stop, Restart
  <1>1. TypeOK'
    <2> USE DEF TypeOK, MainSteps, ApiSteps, Reasons
    <2>1. CASE Stop(s)
      BY <2>1
    <2>2. CASE Restart(s)
      BY <2>2
    <2> QED
      BY <2>1, <2>2
  <1>2. OwnersAreThreads'
    BY DEF TypeOK, OwnersAreThreads, ThreadsOwn, ThreadsInPlace
  <1>3. ThreadsOwn'
    BY DEF TypeOK, OwnersAreThreads, ThreadsOwn, ThreadsInPlace
  <1>4. ThreadsInPlace'
    BY DEF TypeOK, ThreadsInPlace, FlagsAreTrue
  <1>5. FlagsAreTrue'
    BY DEF TypeOK, ThreadsInPlace, ThreadsOwn, FlagsAreTrue
  <1>6. OthersAreTrouble'
    BY DEF TypeOK, OthersAreTrouble, ThreadsOwn
  <1> QED
    BY <1>1, <1>2, <1>3, <1>4, <1>5, <1>6

(* Other programs and the clock touch no process.                          *)
LEMMA WorldKeeps ==
    ASSUME StartupInv, (\E p \in Ports : OtherProgram(p)) \/ Tick
    PROVE  StartupInv'
  <1> USE StartupAssumption DEF StartupInv, OtherProgram, Tick
  <1>1. TypeOK'
    BY DEF TypeOK, MainSteps, ApiSteps, Reasons
  <1>2. OwnersAreThreads'
    BY DEF TypeOK, OwnersAreThreads, ThreadsOwn, ThreadsInPlace
  <1>3. ThreadsOwn'
    BY DEF TypeOK, OwnersAreThreads, ThreadsOwn, ThreadsInPlace
  <1>4. ThreadsInPlace'
    BY DEF TypeOK, ThreadsInPlace, FlagsAreTrue
  <1>5. FlagsAreTrue'
    BY DEF TypeOK, ThreadsInPlace, ThreadsOwn, FlagsAreTrue
  <1>6. OthersAreTrouble'
    BY DEF TypeOK, OthersAreTrouble, ThreadsOwn
  <1> QED
    BY <1>1, <1>2, <1>3, <1>4, <1>5, <1>6

LEMMA InitEstablishes ==
    ASSUME Init
    PROVE  StartupInv
  <1>1. TypeOK
    BY StartupAssumption DEF Init, TypeOK, MainSteps, ApiSteps, Reasons
  <1>2. OwnersAreThreads /\ ThreadsOwn /\ ThreadsInPlace
    BY StartupAssumption DEF Init, OwnersAreThreads, ThreadsOwn, ThreadsInPlace
  <1>3. FlagsAreTrue /\ OthersAreTrouble
    BY StartupAssumption DEF Init, FlagsAreTrue, OthersAreTrouble
  <1> QED
    BY <1>1, <1>2, <1>3 DEF StartupInv

LEMMA NextKeeps ==
    ASSUME StartupInv, [Next]_vars
    PROVE  StartupInv'
  <1>1. CASE UNCHANGED vars
    BY <1>1 DEF vars, StartupInv, TypeOK, OwnersAreThreads, ThreadsOwn,
                ThreadsInPlace, FlagsAreTrue, OthersAreTrouble
  <1>2. CASE Next
    BY <1>2, MainStepKeeps, ThreadStepKeeps, LifeKeeps, WorldKeeps DEF Next
  <1> QED
    BY <1>1, <1>2

(* A port is bound by exactly the thread, or probe, that says so, and the  *)
(* flags _wait_for_approval_api_start looks at tell the truth.             *)
THEOREM StartupInvHolds == Spec => []StartupInv
  <1>1. Init => StartupInv
    BY InitEstablishes
  <1>2. StartupInv /\ [Next]_vars => StartupInv'
    BY NextKeeps
  <1> QED
    BY <1>1, <1>2, PTL DEF Spec

-----------------------------------------------------------------------------
(* A configured approval API is listening whenever MCP is served beside it,*)
(* unless its thread has failed since.                                     *)
THEOREM NeverServesUnstarted == Spec => []ServesOnlyStarted
  <1>1. StartupInv => ServesOnlyStarted
    BY DEF StartupInv, FlagsAreTrue, ThreadsOwn, ServesOnlyStarted
  <1> QED
    BY <1>1, StartupInvHolds, PTL

-----------------------------------------------------------------------------
(* Processes in conflict *)

(* Somebody has the port of s, or may still get it, or trouble is to blame.*)
Settled(s) ==
    \/ config[s] \in trouble
    \/ \E u \in Servers : config[u] = config[s] /\ (u \in trouble \/ Contends(u))

(* A port that is not free is in the hands of another program, or of a     *)
(* process that contends for it or has met trouble.                        *)
LEMMA TakenPort ==
    ASSUME StartupInv, NEW s \in Servers, HasPort(s), ~Free(s)
    PROVE  \/ config[s] \in trouble
           \/ \E v \in Servers :
                /\ config[v] = config[s]
                /\ main[v] = "hold" \/ thread[v] \in Held
                /\ v \in trouble \/ Contends(v)
  <1>1. CASE owner[config[s]] = Other
    BY <1>1 DEF StartupInv, OthersAreTrouble
  <1>2. CASE owner[config[s]] # Other
    <2>1. PICK v \in Servers : owner[config[s]] = v
      BY <1>2 DEF StartupInv, TypeOK
    <2>2. config[v] = config[s] /\ (main[v] = "hold" \/ thread[v] \in Held)
      BY <2>1 DEF StartupInv, OwnersAreThreads
    <2>3. v \in trouble \/ Contends(v)
      BY <2>2 DEF StartupInv, TypeOK, MainSteps, ThreadsInPlace, Contends
    <2> QED
      BY <2>2, <2>3
  <1> QED
    BY <1>1, <1>2

(* Whoever contends goes on doing so, meets trouble, or finds the port     *)
(* taken when it binds.                                                    *)
LEMMA ContenderStays ==
    ASSUME StartupInv, NEW u \in Servers, Contends(u), Next
    PROVE  \/ Contends(u)' \/ u \in trouble'
           \/ HasPort(u) /\ ~Free(u) /\ ApiCannotBind(u)
  <1> USE DEF StartupInv, TypeOK, ThreadsOwn, ThreadsInPlace, FlagsAreTrue, Contends
  <1>1. ASSUME NEW s \in Servers, MainStep(s)
        PROVE  Contends(u)' \/ u \in trouble'
    BY <1>1 DEF MainStep, Resolve, Probe, Release, Spawn, Top, LookAtStarted,
                LookAtErrors, LookAtThread, Exit
  <1>2. ASSUME NEW s \in Servers, ThreadStep(s)
        PROVE  \/ Contends(u)' \/ u \in trouble'
               \/ HasPort(u) /\ ~Free(u) /\ ApiCannotBind(u)
    <2>1. CASE ApiCannotBind(s) /\ s = u
      <3>1. HasPort(u) /\ ~Free(u)
        BY <2>1 DEF ApiCannotBind
      <3> QED
        BY <2>1, <3>1
    <2>6. CASE ApiCannotBind(s) /\ s # u
      <3>1. main' = main /\ thread'[u] = thread[u] /\ owner' = owner /\ config' = config
        BY <2>6 DEF ApiCannotBind, ThreadGoto
      <3> QED
        BY <3>1
    <2>2. CASE ApiBinds(s)
      BY <2>2 DEF ApiBinds
    <2>3. CASE ApiStarts(s)
      BY <2>3 DEF ApiStarts
    <2>4. CASE ApiFails(s)
      BY <2>4 DEF ApiFails
    <2>5. CASE ThreadEnds(s)
      BY <2>5 DEF ThreadEnds
    <2> QED
      BY <1>2, <2>1, <2>2, <2>3, <2>4, <2>5, <2>6 DEF ThreadStep
  <1>3. ASSUME NEW s \in Servers, Stop(s) \/ Restart(s)
        PROVE  Contends(u)' \/ u \in trouble'
    BY <1>3 DEF Stop, Restart
  <1>4. ASSUME (\E p \in Ports : OtherProgram(p)) \/ Tick
        PROVE  Contends(u)'
    BY <1>4 DEF OtherProgram, Tick
  <1> QED
    BY <1>1, <1>2, <1>3, <1>4 DEF Next

LEMMA TroubleStays ==
    ASSUME Next
    PROVE  trouble \subseteq trouble' /\ config' = config
  BY DEF Next, MainStep, Resolve, Probe, Release, Spawn, Top, LookAtStarted,
         LookAtErrors, LookAtThread, Exit, ThreadStep, ApiBinds, ApiCannotBind,
         ApiStarts, ApiFails, ThreadEnds, Stop, Restart, OtherProgram, Tick

(* An API that cannot bind leaves the port to the one that has it.         *)
LEMMA CannotBindIsSettled ==
    ASSUME StartupInv, NEW u \in Servers, HasPort(u), ~Free(u), ApiCannotBind(u)
    PROVE  Settled(u)'
  <1>1. CASE config[u] \in trouble
    BY <1>1 DEF Settled, ApiCannotBind
  <1>2. ASSUME NEW v \in Servers, config[v] = config[u],
               main[v] = "hold" \/ thread[v] \in Held, v \in trouble \/ Contends(v)
        PROVE  Settled(u)'
    <2>1. v # u
      BY <1>2 DEF ApiCannotBind, StartupInv, ThreadsInPlace
    <2>2. Contends(v)' \/ v \in trouble'
      BY <1>2, <2>1 DEF ApiCannotBind, Contends, StartupInv, TypeOK
    <2> QED
      BY <1>2, <2>2 DEF Settled, ApiCannotBind
  <1> QED
    BY <1>1, <1>2, TakenPort

LEMMA SettledStays ==
    ASSUME StartupInv, NEW s \in Servers, Settled(s), Next
    PROVE  Settled(s)'
  <1>1. trouble \subseteq trouble' /\ config' = config
    BY TroubleStays
  <1>2. CASE config[s] \in trouble
    BY <1>1, <1>2 DEF Settled
  <1>3. ASSUME NEW u \in Servers, config[u] = config[s], u \in trouble
        PROVE  Settled(s)'
    BY <1>1, <1>3 DEF Settled
  <1>4. ASSUME NEW u \in Servers, config[u] = config[s], Contends(u)
        PROVE  Settled(s)'
    <2>1. CASE Contends(u)' \/ u \in trouble'
      BY <1>1, <1>4, <2>1 DEF Settled
    <2>2. CASE HasPort(u) /\ ~Free(u) /\ ApiCannotBind(u)
      BY <1>1, <1>4, <2>2, CannotBindIsSettled DEF Settled
    <2> QED
      BY <1>4, <2>1, <2>2, ContenderStays
  <1> QED
    BY <1>2, <1>3, <1>4 DEF Settled

(* The steps that make a process give up for want of the port.             *)
LEMMA GivingUp ==
    ASSUME StartupInv, NEW s \in Servers, Next,
           (why[s] = "port" \/ errors[s])', ~(why[s] = "port" \/ errors[s])
    PROVE  \/ Probe(s) /\ HasPort(s) /\ ~Free(s)
           \/ ApiCannotBind(s) /\ HasPort(s) /\ ~Free(s)
           \/ s \in trouble'
  <1> USE DEF StartupInv, TypeOK, ThreadsOwn
  <1>1. ASSUME NEW u \in Servers, MainStep(u), ~Probe(u)
        PROVE  FALSE
    BY <1>1 DEF MainStep, Resolve, Release, Spawn, Top, LookAtStarted,
                LookAtErrors, LookAtThread, Exit
  <1>2. ASSUME NEW u \in Servers, Probe(u)
        PROVE  Probe(s) /\ HasPort(s) /\ ~Free(s)
    BY <1>2 DEF Probe
  <1>3. ASSUME NEW u \in Servers, ThreadStep(u)
        PROVE  (ApiCannotBind(s) /\ HasPort(s) /\ ~Free(s)) \/ s \in trouble'
    <2>1. CASE ApiCannotBind(u)
      BY <2>1 DEF ApiCannotBind
    <2>2. CASE ApiFails(u)
      BY <2>2 DEF ApiFails
    <2>3. CASE ApiBinds(u) \/ ApiStarts(u) \/ ThreadEnds(u)
      BY <2>3 DEF ApiBinds, ApiStarts, ThreadEnds
    <2> QED
      BY <1>3, <2>1, <2>2, <2>3 DEF ThreadStep
  <1>4. ASSUME NEW u \in Servers, Stop(u) \/ Restart(u)
        PROVE  FALSE
    BY <1>4 DEF Stop, Restart
  <1>5. ASSUME (\E p \in Ports : OtherProgram(p)) \/ Tick
        PROVE  FALSE
    BY <1>5 DEF OtherProgram, Tick
  <1> QED
    BY <1>1, <1>2, <1>3, <1>4, <1>5 DEF Next

LEMMA ConflictStep ==
    ASSUME StartupInv, ConflictLeavesOne, [Next]_vars
    PROVE  ConflictLeavesOne'
  <1> SUFFICES ASSUME NEW s \in Servers, (why[s] = "port" \/ errors[s])'
               PROVE  Settled(s)'
    BY DEF ConflictLeavesOne, Settled
  <1>1. CASE UNCHANGED vars
    BY <1>1 DEF vars, ConflictLeavesOne, Settled, Contends
  <1>2. CASE Next /\ (why[s] = "port" \/ errors[s])
    BY <1>2, SettledStays DEF ConflictLeavesOne, Settled
  <1>3. CASE Next /\ ~(why[s] = "port" \/ errors[s])
    <2>1. CASE Probe(s) /\ HasPort(s) /\ ~Free(s)
      BY <1>3, <2>1, TakenPort, SettledStays DEF Settled
    <2>2. CASE ApiCannotBind(s) /\ HasPort(s) /\ ~Free(s)
      BY <2>2, CannotBindIsSettled
    <2>3. CASE s \in trouble'
      BY <1>3, <2>3, TroubleStays DEF Settled
    <2> QED
      BY <1>3, <2>1, <2>2, <2>3, GivingUp
  <1> QED
    BY <1>1, <1>2, <1>3

(* Processes that race for a port never turn each other away to the last,  *)
(* however many there are.                                                 *)
THEOREM ConflictAlwaysLeavesOne == Spec => []ConflictLeavesOne
  <1>1. Init => ConflictLeavesOne
    BY DEF Init, ConflictLeavesOne
  <1>2. StartupInv /\ ConflictLeavesOne /\ [Next]_vars => ConflictLeavesOne'
    BY ConflictStep
  <1> QED
    BY <1>1, <1>2, StartupInvHolds, PTL DEF Spec
==============================================================================

---------------------------- MODULE ServerStartup ----------------------------
(***************************************************************************)
(* Starting SentryGate processes (main and start_approval_api_server in    *)
(* mcp/server.py).  A process with an approval API port probes the port    *)
(* with a socket of its own, closes it, starts uvicorn on a daemon thread  *)
(* and waits, looking at that thread every 10 ms until a deadline; only    *)
(* then does it serve MCP.  A process without a port serves MCP at once.   *)
(* Several processes, and other programs, may want one port.               *)
(*                                                                         *)
(* Sockets and uvicorn are outside the repository: a bind succeeds if and  *)
(* only if nobody is bound to the port, the server sets started after it   *)
(* has bound, exits by SystemExit if it cannot bind, and may raise, return *)
(* early or hang.                                                          *)
(***************************************************************************)
EXTENDS Naturals

CONSTANTS
    Servers,       \* processes
    Ports,         \* ports they may be given
    Nobody,        \* owner of a free port
    Other,         \* owner of a port some other program uses
    Timeout        \* APPROVAL_API_STARTUP_TIMEOUT_SECONDS, in ticks

ASSUME StartupAssumption ==
    /\ Nobody \notin Servers /\ Other \notin Servers /\ Nobody # Other
    /\ "off" \notin Ports /\ "bad" \notin Ports
    /\ Ports \cap Servers = {}
    /\ Timeout \in Nat

VARIABLES
    owner,         \* who is bound to each port
    config,        \* per process: the port, "off", or "bad" configuration
    main,          \* per process: where its main thread is
    thread,        \* per process: where its API thread is
    started,       \* per process: uvicorn's Server.started
    errors,        \* per process: whether startup_errors has an element
    left,          \* per process: time left until the deadline of its wait
    why,           \* per process: why main returned 1, if it did
    trouble        \* history: processes, and ports, that something else than a
                   \* conflict between processes has befallen

flags == <<started, errors>>
vars  == <<owner, config, main, thread, flags, left, why, trouble>>

Waiting   == {"top", "look", "errors", "alive"}
MainSteps == {"resolve", "probe", "hold", "spawn", "serve", "refused", "exited"} \cup Waiting
ApiSteps  == {"none", "starting", "bound", "listening", "failing", "dead"}
Reasons   == {"none", "config", "port", "error", "stopped", "timeout"}

TypeOK ==
    /\ owner \in [Ports -> Servers \cup {Nobody, Other}]
    /\ config \in [Servers -> Ports \cup {"off", "bad"}]
    /\ main \in [Servers -> MainSteps]
    /\ thread \in [Servers -> ApiSteps]
    /\ started \in [Servers -> BOOLEAN]
    /\ errors \in [Servers -> BOOLEAN]
    /\ left \in [Servers -> 0 .. Timeout]
    /\ why \in [Servers -> Reasons]
    /\ trouble \subseteq Servers \cup Ports

Init ==
    /\ owner = [p \in Ports |-> Nobody]
    /\ config \in [Servers -> Ports \cup {"off", "bad"}]
    /\ main = [s \in Servers |-> "resolve"]
    /\ thread = [s \in Servers |-> "none"]
    /\ started = [s \in Servers |-> FALSE]
    /\ errors = [s \in Servers |-> FALSE]
    /\ left = [s \in Servers |-> 0]
    /\ why = [s \in Servers |-> "none"]
    /\ trouble = {}

-----------------------------------------------------------------------------
(* The main thread: main, start_approval_api_server                        *)

Goto(s, step) == main' = [main EXCEPT ![s] = step]

(* Print the error; main returns 1.                                        *)
Refuse(s, reason) ==
    /\ Goto(s, "refused")
    /\ why' = [why EXCEPT ![s] = reason]

HasPort(s)  == config[s] \in Ports
Owned(s)    == owner[config[s]] = s
Free(s)     == owner[config[s]] = Nobody
Bind(s)     == owner' = [owner EXCEPT ![config[s]] = s]
Unbind(s)   == owner' = [owner EXCEPT ![config[s]] = Nobody]

(* resolve_workspace_root, resolve_audit_log_path,                         *)
(* resolve_approval_api_port                                               *)
Resolve(s) ==
    /\ main[s] = "resolve"
    /\ \/ config[s] = "bad" /\ Refuse(s, "config")
       \/ config[s] = "off" /\ Goto(s, "serve") /\ UNCHANGED why
       \/ HasPort(s) /\ Goto(s, "probe") /\ UNCHANGED why
    /\ UNCHANGED <<owner, config, thread, flags, left, trouble>>

(* ensure_approval_api_port_available binds a socket ...                   *)
Probe(s) ==
    /\ main[s] = "probe"
    /\ \/ Free(s) /\ Bind(s) /\ Goto(s, "hold") /\ UNCHANGED why
       \/ ~Free(s) /\ Refuse(s, "port") /\ UNCHANGED owner
    /\ UNCHANGED <<config, thread, flags, left, trouble>>

\* The probe's socket stays open.
KeepHolding(s) ==
    /\ main[s] = "hold"
    /\ Goto(s, "spawn")
    /\ UNCHANGED <<owner, config, thread, flags, left, why, trouble>>

(* ... and closes it: from here on the port is anybody's again.            *)
Release(s) ==
    /\ main[s] = "hold"
    /\ Unbind(s)
    /\ Goto(s, "spawn")
    /\ UNCHANGED <<config, thread, flags, left, why, trouble>>

(* The thread is started and the deadline set.                             *)
Spawn(s) ==
    /\ main[s] = "spawn"
    /\ thread' = [thread EXCEPT ![s] = "starting"]
    /\ left' = [left EXCEPT ![s] = Timeout]
    /\ Goto(s, "top")
    /\ UNCHANGED <<owner, config, flags, why, trouble>>

\* The loop has no deadline.
TopForever(s) ==
    /\ main[s] = "top"
    /\ Goto(s, "look")
    /\ UNCHANGED <<owner, config, thread, flags, left, why, trouble>>

\* When the time is up the wait ends, and that is all.
TopGivesUp(s) ==
    /\ main[s] = "top"
    /\ Goto(s, IF left[s] > 0 THEN "look" ELSE "serve")
    /\ UNCHANGED <<owner, config, thread, flags, left, why, trouble>>

(* _wait_for_approval_api_start, one look after the other                  *)
Top(s) ==
    /\ main[s] = "top"
    /\ \/ left[s] > 0 /\ Goto(s, "look") /\ UNCHANGED <<why, trouble>>
       \/ left[s] = 0 /\ Refuse(s, "timeout") /\ trouble' = trouble \cup {s}
    /\ UNCHANGED <<owner, config, thread, flags, left>>

LookAtStarted(s) ==
    /\ main[s] = "look"
    /\ Goto(s, IF started[s] THEN "serve" ELSE "errors")
    /\ UNCHANGED <<owner, config, thread, flags, left, why, trouble>>

LookAtErrors(s) ==
    /\ main[s] = "errors"
    /\ \/ errors[s] /\ Refuse(s, "error")
       \/ ~errors[s] /\ Goto(s, "alive") /\ UNCHANGED why
    /\ UNCHANGED <<owner, config, thread, flags, left, trouble>>

(* A thread still alive is given another 10 ms.                            *)
LookAtThread(s) ==
    /\ main[s] = "alive"
    /\ \/ thread[s] = "dead" /\ Refuse(s, "stopped")
       \/ thread[s] # "dead" /\ Goto(s, "top") /\ UNCHANGED why
    /\ UNCHANGED <<owner, config, thread, flags, left, trouble>>

(* The process ends; the daemon thread and its socket go with it.          *)
Vanish(s) ==
    /\ Goto(s, "exited")
    /\ thread' = [thread EXCEPT ![s] = IF @ = "none" THEN @ ELSE "dead"]
    /\ IF HasPort(s) /\ Owned(s) THEN Unbind(s) ELSE UNCHANGED owner
    /\ UNCHANGED <<config, flags, left, why>>

Exit(s) == main[s] = "refused" /\ Vanish(s) /\ UNCHANGED trouble

(* mcp.run returns, or the process is killed wherever it is.               *)
Stop(s) == main[s] # "exited" /\ Vanish(s) /\ trouble' = trouble \cup {s}

(* Somebody starts the process again.                                      *)
Restart(s) ==
    /\ main[s] = "exited"
    /\ Goto(s, "resolve")
    /\ thread' = [thread EXCEPT ![s] = "none"]
    /\ started' = [started EXCEPT ![s] = FALSE]
    /\ errors' = [errors EXCEPT ![s] = FALSE]
    /\ left' = [left EXCEPT ![s] = 0]
    /\ why' = [why EXCEPT ![s] = "none"]
    /\ UNCHANGED <<owner, config, trouble>>

-----------------------------------------------------------------------------
(* The API thread: _run_approval_api_server                                *)

ThreadGoto(s, step) == thread' = [thread EXCEPT ![s] = step]

Alive(s) == main[s] # "exited"

\* The server counts as started before it is bound.
StartedFirst(s) ==
    /\ Alive(s) /\ thread[s] = "starting" /\ Free(s)
    /\ started' = [started EXCEPT ![s] = TRUE]
    /\ ThreadGoto(s, "bound")
    /\ UNCHANGED <<owner, config, main, errors, left, why, trouble>>

ApiBinds(s) ==
    /\ Alive(s) /\ thread[s] = "starting" /\ Free(s)
    /\ Bind(s)
    /\ ThreadGoto(s, "bound")
    /\ UNCHANGED <<config, main, flags, left, why, trouble>>

(* sys.exit(1), which the thread's function catches                        *)
ApiCannotBind(s) ==
    /\ Alive(s) /\ thread[s] = "starting" /\ ~Free(s)
    /\ errors' = [errors EXCEPT ![s] = TRUE]
    /\ ThreadGoto(s, "failing")
    /\ UNCHANGED <<owner, config, main, started, left, why, trouble>>

ApiStarts(s) ==
    /\ Alive(s) /\ thread[s] = "bound"
    /\ started' = [started EXCEPT ![s] = TRUE]
    /\ ThreadGoto(s, "listening")
    /\ UNCHANGED <<owner, config, main, errors, left, why, trouble>>

(* An exception, at any time; or run returns, before it started or after.  *)
ApiFails(s) ==
    /\ Alive(s) /\ thread[s] \in {"starting", "bound", "listening"}
    /\ \/ errors' = [errors EXCEPT ![s] = TRUE] /\ ThreadGoto(s, "failing")
       \/ UNCHANGED errors /\ ThreadGoto(s, "dead")
    /\ IF Owned(s) THEN Unbind(s) ELSE UNCHANGED owner
    /\ trouble' = trouble \cup {s}
    /\ UNCHANGED <<config, main, started, left, why>>

ThreadEnds(s) ==
    /\ Alive(s) /\ thread[s] = "failing"
    /\ ThreadGoto(s, "dead")
    /\ UNCHANGED <<owner, config, main, flags, left, why, trouble>>

-----------------------------------------------------------------------------
(* Another program takes a port, and leaves it.                            *)
OtherProgram(p) ==
    /\ \/ owner[p] = Nobody /\ owner' = [owner EXCEPT ![p] = Other]
       \/ owner[p] = Other /\ owner' = [owner EXCEPT ![p] = Nobody]
    /\ trouble' = trouble \cup {p}
    /\ UNCHANGED <<config, main, thread, flags, left, why>>

Tick ==
    /\ \E s \in Servers : left[s] > 0
    /\ left' = [s \in Servers |-> IF left[s] > 0 THEN left[s] - 1 ELSE 0]
    /\ UNCHANGED <<owner, config, main, thread, flags, why, trouble>>

MainStep(s) ==
    \/ Resolve(s) \/ Probe(s) \/ Release(s) \/ Spawn(s)
    \/ Top(s) \/ LookAtStarted(s) \/ LookAtErrors(s) \/ LookAtThread(s)
    \/ Exit(s)

ThreadStep(s) ==
    ApiBinds(s) \/ ApiCannotBind(s) \/ ApiStarts(s) \/ ApiFails(s) \/ ThreadEnds(s)

Next ==
    \/ \E s \in Servers : MainStep(s) \/ ThreadStep(s) \/ Stop(s) \/ Restart(s)
    \/ \E p \in Ports : OtherProgram(p)
    \/ Tick

Spec == Init /\ [][Next]_vars

(* The main thread runs and the clock goes on; nothing is assumed of the   *)
(* API thread, which may hang.                                             *)
FairSpec == Spec /\ WF_vars(Tick) /\ \A s \in Servers : WF_vars(MainStep(s))

-----------------------------------------------------------------------------
(* Properties *)

(* What ties the owners of the ports to the threads of the processes.      *)
Held    == {"bound", "listening"}
Running == {"starting"} \cup Held

OwnersAreThreads ==
    \A p \in Ports, s \in Servers :
        owner[p] = s => config[s] = p /\ (main[s] = "hold" \/ thread[s] \in Held)

ThreadsOwn ==
    \A s \in Servers :
        /\ main[s] = "hold" \/ thread[s] \in Held => HasPort(s) /\ Owned(s)
        /\ main[s] \in {"probe", "spawn"} \cup Waiting \/ thread[s] # "none" => HasPort(s)

ThreadsInPlace ==
    \A s \in Servers :
        /\ main[s] \in {"resolve", "probe", "hold", "spawn"} =>
              thread[s] = "none" /\ ~started[s]
        /\ main[s] \in Waiting => thread[s] # "none"
        /\ main[s] = "exited" => thread[s] \in {"none", "dead"}
        /\ main[s] = "refused" /\ thread[s] \in Running => s \in trouble

FlagsAreTrue ==
    \A s \in Servers :
        /\ started[s] /\ main[s] # "exited" => thread[s] = "listening" \/ s \in trouble
        /\ errors[s] => thread[s] \in {"failing", "dead"}
        /\ main[s] = "serve" /\ HasPort(s) => started[s]
        /\ why[s] = "port" => HasPort(s)

OthersAreTrouble == \A p \in Ports : owner[p] = Other => p \in trouble

(* A port is bound by exactly the thread, or probe, that says so; what the *)
(* flags tell the main thread of its API thread is so, or was until the    *)
(* thread failed.                                                          *)
StartupInv ==
    /\ TypeOK
    /\ OwnersAreThreads
    /\ ThreadsOwn
    /\ ThreadsInPlace
    /\ FlagsAreTrue
    /\ OthersAreTrouble

(* MCP is served beside a configured approval API only after that API had  *)
(* bound its port and said so: never because the wait timed out, the       *)
(* thread ended, or another process took the port after the probe.         *)
ServesOnlyStarted ==
    \A s \in Servers :
        main[s] = "serve" /\ HasPort(s) =>
            started[s] /\ (Owned(s) \/ s \in trouble)

(* Processes that may still get the port of s.                             *)
Contends(s) ==
    \/ main[s] \in {"hold", "spawn"}
    \/ main[s] \in Waiting \cup {"serve"} /\ thread[s] \in Running

(* Processes that race for a port do not turn each other away to the last: *)
(* a probe's short-lived socket can make another process's probe or bind   *)
(* fail, but whenever a process gave up for want of the port, another one  *)
(* has it or is still on the way to it, unless something else went wrong.  *)
ConflictLeavesOne ==
    \A s \in Servers :
        why[s] = "port" \/ errors[s] =>
            \/ config[s] \in trouble
            \/ \E u \in Servers :
                config[u] = config[s] /\ (u \in trouble \/ Contends(u))

(* However the API thread behaves, hangs included, starting up ends: with  *)
(* MCP served or with the process gone.                                    *)
StartupEnds ==
    \A s \in Servers :
        main[s] = "resolve" ~> main[s] \in {"serve", "exited"}
=============================================================================

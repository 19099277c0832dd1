--------------------------- MODULE EngineLifecycle ---------------------------
(***************************************************************************)
(* The attempts of one cross-engine target: CrossEngineController._run_     *)
(* attempt drives an EngineLifecycleClient, which talks JSONL over pipes to *)
(* a lifecycle adapter process (adapters/cross_engine/runtime.py), which    *)
(* starts, probes and stops the engine under test in a session of its own.  *)
(*                                                                         *)
(* Four actors interleave: the controller thread with its client, the       *)
(* adapter process, the target processes, and time.  A client deadline can  *)
(* expire whenever a request is outstanding: the client waits 5 s while a   *)
(* start may take the adapter 30 s and a stop 15 s.  All attempts use the   *)
(* host and port of the target's frozen argv, so a target that outlives its *)
(* attempt still holds the port.  Attempt k's target is a process group:    *)
(* its leader, which the adapter spawned and waits for, and workers that    *)
(* share the leader's socket.  A stranger may listen on the port as well.   *)
(***************************************************************************)
EXTENDS Naturals, FiniteSets

CONSTANT MaxAttempts   \* attempts the campaign makes of this target

ASSUME AttemptAssumption == MaxAttempts \in Nat \ {0}

Attempts == 1..MaxAttempts

States == {"SPAWNED", "NEGOTIATED", "PREPARED", "STARTED", "READY", "STOPPED",
           "TERMINATED"}
Kinds == {"hello", "prepare_session", "start_target", "describe_endpoint", "stop_target",
          "shutdown"}

\* TRANSITIONS, shared by client and adapter (reset_state loops in READY and
\* is never requested by _run_attempt).
Transitions ==
    { <<"SPAWNED", "hello", "NEGOTIATED">>,
      <<"NEGOTIATED", "prepare_session", "PREPARED">>,
      <<"PREPARED", "start_target", "STARTED">>,
      <<"STARTED", "describe_endpoint", "READY">>,
      <<"READY", "stop_target", "STOPPED">>,
      <<"STARTED", "stop_target", "STOPPED">>,
      <<"STOPPED", "shutdown", "TERMINATED">> }

VARIABLES
    n,          \* ordinal of the attempt under way
    pc,         \* the request _run_attempt makes next, or its other steps
    started,    \* start_target returned: `started is not None'
    raised,     \* an exception is on its way out of the try block
    cleanupFailed, \* attempts whose cleanup appended a lifecycle diagnostic
    outcome,    \* per attempt: what run() learned of it
    retained,   \* attempts whose cleanup diagnostics reached their CellResult
    measured,   \* per attempt: who answered the scenario, with its attempt
    cstate,     \* client: LifecycleStateMachine.state
    failed,     \* client: _failed
    waiting,    \* client: kind of the outstanding request, or "none"
    astate,     \* adapter: LifecycleRuntime.state
    aphase,     \* adapter: idle | probing | stopping | dead
    request,    \* the line in the adapter's stdin, or "none"
    reply,      \* what the client's stdout reader has queued
    proc,       \* per attempt: the leader of its target's process group
    workers,    \* attempts whose group has another live process on the socket
    stranger    \* a process of nobody's listens on the port

ctlVars     == <<n, started, raised, cleanupFailed, outcome, retained, measured>>
clientVars  == <<cstate, failed, waiting>>
adapterVars == <<astate, aphase, request>>
hostVars    == <<proc, workers, stranger>>
vars == <<pc, ctlVars, clientVars, adapterVars, reply, hostVars>>

Alive(k) == proc[k] \in {"starting", "listening"}

\* Who accepts a connection to the port: a leader, the workers of a group, or
\* a stranger.  Neither the probe nor the scenario can tell them apart.
Nobody == <<"nobody", 0>>
Listening ==
    {<<"leader", k>> : k \in {j \in Attempts : proc[j] = "listening"}}
    \cup {<<"worker", k>> : k \in workers}
    \cup {<<"stranger", 0>> : b \in {stranger} \cap {TRUE}}

Init ==
    /\ n = 1 /\ pc = "hello" /\ started = FALSE /\ raised = FALSE
    /\ cleanupFailed = {} /\ retained = {}
    /\ outcome = [k \in Attempts |-> "none"] /\ measured = [k \in Attempts |-> Nobody]
    /\ cstate = "SPAWNED" /\ failed = FALSE /\ waiting = "none"
    /\ astate = "SPAWNED" /\ aphase = "idle" /\ request = "none" /\ reply = "none"
    /\ proc = [k \in Attempts |-> "none"] /\ workers = {} /\ stranger \in BOOLEAN

-----------------------------------------------------------------------------
(* The controller and its client. *)

Cleaning == pc \in {"stop_target", "shutdown"}

\* An exception in the try block enters the finally clause, which stops the
\* target only if start_target has returned; one in the cleanup is caught and
\* becomes a diagnostic.
Raise ==
    /\ IF Cleaning
         THEN /\ cleanupFailed' = cleanupFailed \cup {n}
              /\ pc' = "close"
              /\ UNCHANGED raised
         ELSE /\ raised' = TRUE
              /\ pc' = IF started THEN "stop_target" ELSE "close"
              /\ UNCHANGED cleanupFailed
    /\ UNCHANGED <<n, started, outcome, retained, measured>>

\* EngineLifecycleClient.request up to the write: the state machine admits the
\* request and the adapter still reads its stdin.
SendRequest ==
    /\ pc \in Kinds /\ waiting = "none" /\ ~failed
    /\ \E t \in Transitions : t[1] = cstate /\ t[2] = pc
    /\ aphase # "dead"
    /\ waiting' = pc /\ request' = pc
    /\ UNCHANGED <<pc, ctlVars, cstate, failed, astate, aphase, reply, hostVars>>

\* request raises before waiting: the client is failed closed, the machine
\* refuses the request, or the adapter has closed its stdin (which fails it).
RequestRaises ==
    /\ pc \in Kinds /\ waiting = "none"
    /\ \/ failed \/ aphase = "dead"
       \/ ~\E t \in Transitions : t[1] = cstate /\ t[2] = pc
    /\ failed' = (failed \/ (aphase = "dead"
                             /\ \E t \in Transitions : t[1] = cstate /\ t[2] = pc))
    /\ Raise
    /\ UNCHANGED <<cstate, waiting, adapterVars, reply, hostVars>>

\* The step of _run_attempt after each successful request.
After(kind) ==
    CASE kind = "hello" -> "prepare_session"
      [] kind = "prepare_session" -> "start_target"
      [] kind = "start_target" -> "describe_endpoint"
      [] kind = "describe_endpoint" -> "measure"
      [] kind = "stop_target" -> "shutdown"
      [] kind = "shutdown" -> "close"

\* accept_response: the expected response, and the adapter is still sound.
AcceptResponse ==
    /\ waiting \in Kinds /\ reply = "ok"
    /\ \E t \in Transitions : t[1] = cstate /\ t[2] = waiting /\ cstate' = t[3]
    /\ started' = (started \/ waiting = "start_target")
    /\ pc' = After(waiting)
    /\ waiting' = "none" /\ reply' = "none"
    /\ UNCHANGED <<n, raised, cleanupFailed, outcome, retained, measured, failed,
                   adapterVars, hostVars>>

\* The response is accepted, then stderr overflow, a nonzero adapter exit or a
\* shutdown that does not exit fails the client: the machine has advanced but
\* the caller sees an exception.
RejectAfterAccept ==
    /\ waiting \in Kinds /\ reply = "ok"
    /\ \E t \in Transitions : t[1] = cstate /\ t[2] = waiting /\ cstate' = t[3]
    /\ failed' = TRUE
    /\ Raise
    /\ waiting' = "none" /\ reply' = "none"
    /\ UNCHANGED <<adapterVars, hostVars>>

\* A registered error response raises LifecycleRemoteError and leaves the
\* client usable; a malformed response or EOF fails it closed.
ResponseRaises ==
    /\ waiting \in Kinds /\ reply \in {"error", "malformed", "eof"}
    /\ failed' = (reply # "error")
    /\ Raise
    /\ waiting' = "none" /\ reply' = "none"
    /\ UNCHANGED <<cstate, adapterVars, hostVars>>

\* Mutation: the client waits for a start as long as it takes.
RequestTimesOutUnlessStarting ==
    /\ waiting \in Kinds \ {"start_target"} /\ reply = "none"
    /\ failed' = TRUE
    /\ Raise
    /\ waiting' = "none"
    /\ UNCHANGED <<cstate, adapterVars, reply, hostVars>>

\* queue.Empty: the deadline of the request passes first.
RequestTimesOut ==
    /\ waiting \in Kinds /\ reply = "none"
    /\ failed' = TRUE
    /\ Raise
    /\ waiting' = "none"
    /\ UNCHANGED <<cstate, adapterVars, reply, hostVars>>

\* Collector and scenario: requests go to the endpoint's host and port and are
\* answered by whoever listens there, or by nobody.
Measure ==
    /\ pc = "measure"
    /\ \E p \in IF Listening = {} THEN {Nobody} ELSE Listening :
         measured' = [measured EXCEPT ![n] = p]
    /\ pc' = "stop_target"
    /\ UNCHANGED <<n, started, raised, cleanupFailed, outcome, retained, clientVars,
                   adapterVars, reply, hostVars>>

MeasureRaises ==
    /\ pc = "measure"
    /\ Raise
    /\ UNCHANGED <<clientVars, adapterVars, reply, hostVars>>

\* client.close() terminates the adapter process, not the target's session.
\* run() records the attempt; a raising attempt loses its local diagnostics.
CloseClient ==
    /\ pc = "close"
    /\ aphase' = "dead" /\ request' = "none" /\ reply' = "none"
    /\ outcome' = [outcome EXCEPT ![n] = IF raised THEN "failed" ELSE "completed"]
    /\ retained' = IF raised THEN retained ELSE retained \cup (cleanupFailed \cap {n})
    /\ pc' = "recorded"
    /\ UNCHANGED <<n, started, raised, cleanupFailed, measured, clientVars, astate, hostVars>>

\* The next attempt of the target: a fresh client, adapter and state root.
NextAttempt ==
    /\ pc = "recorded" /\ n < MaxAttempts
    /\ n' = n + 1 /\ pc' = "hello" /\ started' = FALSE /\ raised' = FALSE
    /\ cstate' = "SPAWNED" /\ failed' = FALSE /\ waiting' = "none"
    /\ astate' = "SPAWNED" /\ aphase' = "idle" /\ request' = "none" /\ reply' = "none"
    /\ UNCHANGED <<cleanupFailed, outcome, retained, measured, hostVars>>

Finished ==
    /\ pc = "recorded" /\ n = MaxAttempts
    /\ UNCHANGED vars

ControllerStep ==
    \/ SendRequest \/ RequestRaises \/ AcceptResponse \/ RejectAfterAccept
    \/ ResponseRaises \/ RequestTimesOut \/ Measure \/ MeasureRaises \/ CloseClient
    \/ NextAttempt

-----------------------------------------------------------------------------
(* The adapter process. *)

\* dispatch succeeds: the state advances and one response is written.
Respond ==
    /\ \E t \in Transitions : t[1] = astate /\ t[2] = request /\ astate' = t[3]
    /\ reply' = "ok" /\ request' = "none" /\ aphase' = "idle"
    /\ UNCHANGED <<pc, ctlVars, clientVars>>

\* Mutation: dispatch advances the state before it does the work.
RespondErrorAdvanced ==
    /\ \E t \in Transitions : t[1] = astate /\ t[2] = request /\ astate' = t[3]
    /\ reply' = "error" /\ request' = "none" /\ aphase' = "idle"
    /\ UNCHANGED <<pc, ctlVars, clientVars>>

\* dispatch raises: the state stays and a registered error is written.
RespondError ==
    /\ reply' = "error" /\ request' = "none" /\ aphase' = "idle"
    /\ UNCHANGED <<pc, ctlVars, clientVars, astate>>

\* hello answers at once; prepare_session may dislike the state root.
AdapterNegotiates ==
    /\ aphase = "idle"
    /\ \/ request \in {"hello", "prepare_session"} /\ Respond
       \/ request = "prepare_session" /\ RespondError
    /\ UNCHANGED hostVars

\* describe_endpoint: the leader runs, or it is dead or its config is open.
AdapterDescribes ==
    /\ aphase = "idle" /\ request = "describe_endpoint"
    /\ \/ Alive(n) /\ Respond
       \/ RespondError
    /\ UNCHANGED hostVars

\* shutdown counts the target's diagnostics, which may not be readable.
AdapterShutsDown ==
    /\ aphase = "idle" /\ request = "shutdown"
    /\ Respond \/ RespondError
    /\ UNCHANGED hostVars

\* The state advanced but the response does not validate: the error branch
\* then answers with a kind the client does not expect.
AdapterAnswersInvalid ==
    /\ aphase = "idle" /\ request = "describe_endpoint" /\ Alive(n)
    /\ astate' = "READY"
    /\ reply' = "malformed" /\ request' = "none"
    /\ UNCHANGED <<pc, ctlVars, clientVars, aphase, hostVars>>

\* start_target: the config is refused or Popen fails, or the target runs.
AdapterSpawnFails ==
    /\ aphase = "idle" /\ request = "start_target" /\ RespondError
    /\ UNCHANGED hostVars

AdapterSpawns ==
    /\ aphase = "idle" /\ request = "start_target"
    /\ proc' = [proc EXCEPT ![n] = "starting"]
    /\ aphase' = "probing"
    /\ UNCHANGED <<pc, ctlVars, clientVars, astate, request, reply, workers, stranger>>

\* The readiness probe connects to the port, to whoever listens there, while
\* the leader it spawned is running.
AdapterProbeConnects ==
    /\ aphase = "probing" /\ Alive(n) /\ Listening # {}
    /\ Respond
    /\ UNCHANGED hostVars

\* The target exited, the deadline expired, or the process record is refused;
\* a running target is left running.
AdapterProbeFails ==
    /\ aphase = "probing" /\ RespondError
    /\ UNCHANGED hostVars

\* Mutation: the target gets SIGTERM and is not waited for.
AdapterStopsWithoutWaiting ==
    /\ aphase = "idle" /\ request = "stop_target"
    /\ Respond
    /\ UNCHANGED hostVars

\* stop: an exited leader is reported and its group left alone; the group of a
\* live one gets SIGTERM.
AdapterStops ==
    /\ aphase = "idle" /\ request = "stop_target"
    /\ \/ ~Alive(n) /\ Respond
       \/ /\ Alive(n)
          /\ aphase' = "stopping"
          /\ UNCHANGED <<pc, ctlVars, clientVars, astate, request, reply>>
    /\ UNCHANGED hostVars

\* The leader obeys SIGTERM, or SIGKILL ends it and every worker after ten
\* seconds.  Only the leader is waited for: a worker may outlive SIGTERM, and
\* the response names no survivors whatever is left.
AdapterReaps ==
    /\ aphase = "stopping"
    /\ proc' = [proc EXCEPT ![n] = "exited"]
    /\ workers' \in {workers, workers \ {n}}
    /\ Respond
    /\ UNCHANGED stranger

\* killpg finds no group, or SIGKILL is not reaped within five seconds.
AdapterStopFails ==
    /\ aphase = "stopping" /\ RespondError
    /\ UNCHANGED hostVars

\* The adapter process ends; its stdout reaches EOF behind any reply.
AdapterDies ==
    /\ aphase # "dead" /\ pc \in Kinds \cup {"measure"}
    /\ aphase' = "dead" /\ request' = "none"
    /\ reply' = IF reply = "none" /\ waiting # "none" THEN "eof" ELSE reply
    /\ UNCHANGED <<pc, ctlVars, clientVars, astate, hostVars>>

AdapterStep ==
    \/ AdapterNegotiates \/ AdapterDescribes \/ AdapterShutsDown \/ AdapterAnswersInvalid \/ AdapterSpawnFails \/ AdapterSpawns
    \/ AdapterProbeConnects \/ AdapterProbeFails \/ AdapterStops \/ AdapterReaps
    \/ AdapterStopFails \/ AdapterDies

-----------------------------------------------------------------------------
(* The target processes and the rest of the host. *)

\* A starting leader binds its port, or exits because another process has it.
TargetBinds(k) ==
    /\ proc[k] = "starting"
    /\ proc' = [proc EXCEPT ![k] = IF Listening = {} THEN "listening" ELSE "exited"]
    /\ UNCHANGED <<pc, ctlVars, clientVars, adapterVars, reply, workers, stranger>>

TargetExits(k) ==
    /\ Alive(k)
    /\ proc' = [proc EXCEPT ![k] = "exited"]
    /\ UNCHANGED <<pc, ctlVars, clientVars, adapterVars, reply, workers, stranger>>

\* A leader forks a worker onto its socket; a worker exits when it likes.
WorkerComesOrGoes(k) ==
    /\ \/ proc[k] = "listening" /\ k \notin workers /\ workers' = workers \cup {k}
       \/ k \in workers /\ workers' = workers \ {k}
    /\ UNCHANGED <<pc, ctlVars, clientVars, adapterVars, reply, proc, stranger>>

StrangerComesOrGoes ==
    /\ stranger \/ Listening = {}
    /\ stranger' = ~stranger
    /\ UNCHANGED <<pc, ctlVars, clientVars, adapterVars, reply, proc, workers>>

-----------------------------------------------------------------------------
Next ==
    \/ ControllerStep \/ AdapterStep
    \/ \E k \in Attempts : TargetBinds(k) \/ TargetExits(k) \/ WorkerComesOrGoes(k)
    \/ StrangerComesOrGoes
    \/ Finished

\* Only the Benchmark's own thread is fair: adapters and targets may hang.
Spec == Init /\ [][Next]_vars /\ WF_vars(ControllerStep)

-----------------------------------------------------------------------------
(* Properties. *)

\* Types of the lifecycle state.
TypeOK ==
    /\ n \in Attempts
    /\ pc \in Kinds \cup {"measure", "close", "recorded"}
    /\ started \in BOOLEAN /\ raised \in BOOLEAN
    /\ cleanupFailed \subseteq Attempts /\ retained \subseteq Attempts
    /\ outcome \in [Attempts -> {"none", "completed", "failed"}]
    /\ measured \in [Attempts -> {"nobody", "leader", "worker", "stranger"}
                                 \X (Attempts \cup {0})]
    /\ cstate \in States /\ failed \in BOOLEAN /\ waiting \in Kinds \cup {"none"}
    /\ astate \in States /\ aphase \in {"idle", "probing", "stopping", "dead"}
    /\ request \in Kinds \cup {"none"}
    /\ reply \in {"none", "ok", "error", "malformed", "eof"}
    /\ proc \in [Attempts -> {"none", "starting", "listening", "exited"}]
    /\ workers \subseteq Attempts /\ stranger \in BOOLEAN

\* The controller never makes a request that its client's state machine
\* refuses: on every failure path the cleanup it chooses is legal.
RequestsAreLegal ==
    pc \in Kinds /\ waiting = "none" /\ ~failed =>
        \E t \in Transitions : t[1] = cstate /\ t[2] = pc

\* Client and adapter, which advance separately, agree whenever a usable
\* client has no request outstanding, whatever errors were exchanged before.
ClientTracksAdapter ==
    pc # "recorded" /\ waiting = "none" /\ ~failed /\ aphase # "dead" =>
        cstate = astate /\ aphase = "idle" /\ reply = "none"

\* A completed attempt whose record shows no cleanup diagnostic has no target
\* left: the group leader it started has exited before the next attempt begins
\* (the finally clause of _run_attempt and the diagnostics run() records).
\* Its workers may be left: stop() never looks at them.
CleanAttemptLeavesNoTarget ==
    \A k \in Attempts :
        outcome[k] = "completed" /\ k \notin retained => proc[k] = "exited"

\* The target process that a start_target answer named as the group leader is
\* never what another attempt measures, unless its own attempt is recorded as
\* failed or with a cleanup diagnostic (stop_target waits for it, and a start
\* that raised is not stopped).  Nothing of the kind holds of the workers of
\* its group or of a stranger: the probe takes any listener for the target.
ForeignLeadersAreLeftovers ==
    \A k \in Attempts :
        measured[k][1] = "leader" /\ measured[k][2] # k =>
            /\ measured[k][2] < k
            /\ outcome[measured[k][2]] = "failed" \/ measured[k][2] \in retained

\* Every attempt is recorded although adapter and target may hang for ever:
\* each wait of the controller has a deadline.
AttemptsEnd == <>(pc = "recorded" /\ n = MaxAttempts)
=============================================================================

------------------------------ MODULE Lifecycle ------------------------------
(***************************************************************************)
(* The life of a syncer: main() starts one run of SyncerImpl, the HTTP     *)
(* handlers of cmd/api.rs stop, pause, resume and restart it while it      *)
(* runs.  All of them share the SyncState byte, the cancellation token,    *)
(* the phase machine and the CheckpointManager that the first forwarder    *)
(* takes.  What Input and forwarder do with data is module SyncPipeline's. *)
(***************************************************************************)
EXTENDS Naturals

CONSTANTS
  Main,        \* the task main() spawns
  Handlers,    \* the HTTP requests that can be under way at the same time
  MaxRequests  \* bound: requests served

ASSUME MainAssumption == Main \notin Handlers
ASSUME RequestsAssumption == MaxRequests \in Nat

Runners == {Main} \union Handlers     \* whoever may call Syncer::run
Requests == {"stop", "pause", "resume", "restart"}

VARIABLES
  state,      \* SyncerImpl::state
  cancelled,  \* the token, which nobody ever resets
  phase,      \* SyncFiniteStateMachine
  cm,         \* the CheckpointManager is still in its Option
  saver,      \* the forwarders that have taken it
  at,         \* per runner: where it is
  request,    \* per handler: what it was asked for
  answer,     \* per handler: 200 or 500
  input,      \* per runner: the Input task of its leader
  forwarder,  \* per runner: the forwarding task of its leader
  served,     \* requests so far
  exit        \* the exit code of the process

vars == <<state, cancelled, phase, cm, saver, at, request, answer, input, forwarder, served,
          exit>>
web   == <<request, answer, served>>
tasks == <<input, forwarder, cm, saver>>

CanRun == state \in {"ReadyRun", "Pause"}
Alive == exit = "no"

Init ==
  /\ state = "ReadyRun" /\ cancelled = FALSE /\ phase = "Started"
  /\ cm \in BOOLEAN /\ saver = {}
  /\ at = [r \in Runners |-> IF r = Main THEN "bind" ELSE "idle"]
  /\ request = [h \in Handlers |-> "none"] /\ answer = [h \in Handlers |-> "none"]
  /\ input = [r \in Runners |-> "none"] /\ forwarder = [r \in Runners |-> "none"]
  /\ served = 0 /\ exit = "no"

Goes(r, from, to) == Alive /\ at[r] = from /\ at' = [at EXCEPT ![r] = to]

-----------------------------------------------------------------------------
(* main()                                                                  *)

\* The port is bound and run() is spawned, or main returns the error.
Bind ==
  /\ \/ Goes(Main, "bind", "check") /\ UNCHANGED exit
     \/ Goes(Main, "bind", "done") /\ exit' = "1"
  /\ UNCHANGED <<state, cancelled, phase, tasks, web>>

\* run() has returned, Ok or not: main logs it and returns Ok.
MainReturns ==
  /\ Alive /\ at[Main] = "done"
  /\ exit' = "0"
  /\ UNCHANGED <<state, cancelled, phase, tasks, web, at>>

CtrlC ==
  /\ Alive /\ at[Main] # "bind"
  /\ cancelled' = TRUE /\ state' = "Stop" /\ exit' = "0"
  /\ UNCHANGED <<phase, tasks, web, at>>

-----------------------------------------------------------------------------
(* The handlers.                                                           *)

Receive(h, q) ==
  /\ at[Main] # "bind" /\ served < MaxRequests
  /\ Goes(h, "idle", IF q \in {"stop", "restart"} THEN "cancel" ELSE "store")
  /\ request' = [request EXCEPT ![h] = q] /\ answer' = [answer EXCEPT ![h] = "none"]
  /\ served' = served + 1
  /\ UNCHANGED <<state, cancelled, phase, tasks, exit>>

\* stop(): first the token ...
Cancel(h) ==
  /\ Goes(h, "cancel", "store")
  /\ cancelled' = TRUE
  /\ UNCHANGED <<state, phase, tasks, web, exit>>

\* ... then the state, which is all that pause() and resume() change.  A restart goes on
\* to run().
Store(h) ==
  /\ Goes(h, "store", IF request[h] = "restart" THEN "check" ELSE "answer")
  /\ state' = IF request[h] \in {"stop", "restart"} THEN "Stop"
              ELSE IF request[h] = "pause" THEN "Pause" ELSE "ReadyRun"
  /\ answer' = [answer EXCEPT ![h] = "ok"]
  /\ UNCHANGED <<cancelled, phase, tasks, request, served, exit>>

Answer(h) ==
  /\ Goes(h, "answer", "idle")
  /\ request' = [request EXCEPT ![h] = "none"]
  /\ UNCHANGED <<state, cancelled, phase, tasks, answer, served, exit>>

\* The client closes the connection: the handler's future is dropped inside run(); the
\* tasks it has spawned go on.
ClientGone(h) ==
  /\ at[h] \in {"enter", "leader", "begin", "wait", "take", "select", "end"}
  /\ Goes(h, at[h], "idle")
  /\ request' = [request EXCEPT ![h] = "none"]
  /\ UNCHANGED <<state, cancelled, phase, tasks, answer, served, exit>>

-----------------------------------------------------------------------------
(* run() and run_leader().                                                 *)

Back(r) == IF r = Main THEN "done" ELSE "answer"

RunCheck(r) ==
  /\ Goes(r, "check", IF CanRun THEN "enter" ELSE Back(r))
  /\ answer' = IF r # Main /\ ~CanRun THEN [answer EXCEPT ![r] = "error"] ELSE answer
  /\ UNCHANGED <<state, cancelled, phase, tasks, request, served, exit>>

RunEnter(r) ==
  /\ Goes(r, "enter", "leader")
  /\ state' = "Run"
  /\ UNCHANGED <<cancelled, phase, tasks, web, exit>>

\* start_full_sync and the Input task, which gives up at its first poll when the token
\* is cancelled already.
LeaderStart(r) ==
  /\ Goes(r, "leader", "begin")
  /\ phase' = "FullInit"
  /\ input' = [input EXCEPT ![r] = IF cancelled THEN "failed" ELSE "connecting"]
  /\ UNCHANGED <<state, cancelled, cm, saver, forwarder, web, exit>>

\* Mutant of LeaderBegin: the phase of another branch.
LeaderBeginIncr(r) ==
  /\ Goes(r, "begin", "wait")
  /\ phase' = "IncrSyncing"
  /\ UNCHANGED <<state, cancelled, tasks, web, exit>>

LeaderBegin(r) ==
  /\ Goes(r, "begin", "wait")
  /\ phase' = "FullSyncing"
  /\ UNCHANGED <<state, cancelled, tasks, web, exit>>

\* Mutant of PsyncWait: no timeout.
PsyncWaitForever(r) ==
  /\ Goes(r, "wait", "take") /\ input[r] = "streaming"
  /\ UNCHANGED <<state, cancelled, phase, tasks, web, exit>>

\* psync_ready, or 30 seconds; the token is not looked at.
PsyncWait(r) ==
  /\ Goes(r, "wait", "take")
  /\ UNCHANGED <<state, cancelled, phase, tasks, web, exit>>

\* Mutant of Spawn: the CheckpointManager is cloned, not taken.
SpawnClones(r) ==
  /\ Goes(r, "take", "select")
  /\ saver' = IF cm THEN saver \union {r} ELSE saver
  /\ forwarder' = [forwarder EXCEPT ![r] = "running"]
  /\ UNCHANGED <<state, cancelled, phase, cm, input, web, exit>>

\* The forwarder takes the CheckpointManager.
Spawn(r) ==
  /\ Goes(r, "take", "select")
  /\ saver' = IF cm THEN saver \union {r} ELSE saver
  /\ cm' = FALSE
  /\ forwarder' = [forwarder EXCEPT ![r] = "running"]
  /\ UNCHANGED <<state, cancelled, phase, input, web, exit>>

\* The leader's select: the token is cancelled, or Input has ended, with an error since
\* receive_aof_stream loops until one; if both, either.  The forwarder is aborted.
SelectEnds(r) ==
  /\ Goes(r, "select", "end")
  /\ forwarder' = [forwarder EXCEPT ![r] = "ended"]
  /\ \/ cancelled /\ UNCHANGED answer
     \/ input[r] = "failed" /\ answer' = [h \in Handlers |-> IF h = r THEN "error" ELSE answer[h]]
  /\ UNCHANGED <<state, cancelled, phase, input, cm, saver, request, served, exit>>

RunEnd(r) ==
  /\ Goes(r, "end", Back(r))
  /\ state' = "ReadyRun"
  /\ UNCHANGED <<cancelled, phase, tasks, web, exit>>

-----------------------------------------------------------------------------
(* The tasks.                                                              *)

\* PSYNC is answered, and after FULLRESYNC the snapshot received.
InputStreams(r) ==
  /\ Alive /\ input[r] = "connecting"
  /\ input' = [input EXCEPT ![r] = "streaming"]
  /\ UNCHANGED <<state, cancelled, phase, cm, saver, forwarder, at, web, exit>>

InputFails(r) ==
  /\ Alive /\ input[r] \in {"connecting", "streaming"}
  /\ input' = [input EXCEPT ![r] = "failed"]
  /\ UNCHANGED <<state, cancelled, phase, cm, saver, forwarder, at, web, exit>>

InputCancelled(r) == cancelled /\ InputFails(r)

ForwarderCancelled(r) ==
  /\ Alive /\ cancelled /\ forwarder[r] = "running"
  /\ forwarder' = [forwarder EXCEPT ![r] = "ended"]
  /\ UNCHANGED <<state, cancelled, phase, cm, saver, input, at, web, exit>>

RunStep(r) == \/ RunCheck(r) \/ RunEnter(r) \/ LeaderStart(r) \/ LeaderBegin(r)
              \/ PsyncWait(r) \/ Spawn(r) \/ SelectEnds(r) \/ RunEnd(r)
HandlerStep(h) == Cancel(h) \/ Store(h) \/ Answer(h)

Next ==
  \/ Bind \/ MainReturns \/ CtrlC
  \/ \E h \in Handlers : \/ \E q \in Requests : Receive(h, q)
                         \/ HandlerStep(h) \/ ClientGone(h)
  \/ \E r \in Runners : \/ RunStep(r) \/ InputStreams(r) \/ InputFails(r)
                        \/ ForwarderCancelled(r)

\* Tasks are scheduled, timers fire and a cancelled token wakes who waits for it; a source
\* need not answer, clients need not call.
Fairness ==
  /\ WF_vars(Bind) /\ WF_vars(MainReturns)
  /\ \A h \in Handlers : WF_vars(HandlerStep(h))
  /\ \A r \in Runners : WF_vars(RunStep(r)) /\ WF_vars(InputCancelled(r))
                        /\ WF_vars(ForwarderCancelled(r))

Spec == Init /\ [][Next]_vars /\ Fairness

-----------------------------------------------------------------------------
(* Properties.                                                             *)

Places == {"bind", "idle", "cancel", "store", "answer", "check", "enter", "leader", "begin",
           "wait", "take", "select", "end", "done"}

\* Every variable has its type.
TypeOK ==
  /\ state \in {"ReadyRun", "Run", "Pause", "Stop"}
  /\ cancelled \in BOOLEAN /\ cm \in BOOLEAN
  /\ phase \in {"Started", "FullInit", "FullSyncing"}
  /\ saver \subseteq Runners
  /\ at \in [Runners -> Places]
  /\ request \in [Handlers -> Requests \union {"none"}]
  /\ answer \in [Handlers -> {"none", "ok", "error"}]
  /\ input \in [Runners -> {"none", "connecting", "streaming", "failed"}]
  /\ forwarder \in [Runners -> {"none", "running", "ended"}]
  /\ served \in Nat /\ exit \in {"no", "0", "1"}

\* However requests and runs interleave, two leaders at the same time included, at most
\* one forwarder ever saves checkpoints.
OneSaver == \A r, s \in saver : r = s

\* Whoever cancels the token, and whatever the others then store in the state byte, the
\* process ends: run() cannot go on, and main() selects on it.  usage.md expects otherwise
\* of a stop: see StopKeepsServing.
StopEndsProcess == cancelled ~> exit # "no"

(* What the documents say and this code does not do.                       *)

Leading(r) == at[r] \in {"leader", "begin", "wait", "take", "select", "end"}

\* run() refuses when the syncer is running already: there is one leader.
OneLeader == \A r, s \in Runners : Leading(r) /\ Leading(s) => r = s

\* /syncer/pause pauses the synchronisation.
PausedIsQuiet ==
  state = "Pause" ~> \/ state # "Pause" \/ ~Alive
                     \/ \A r \in Runners : forwarder[r] # "running"

\* The status ReadyRun means ready to run, not running.
ReadyIsNotRunning == state = "ReadyRun" => \A r \in Runners : forwarder[r] # "running"

\* /syncer/stop stops the synchronisation, not the service: usage.md (559-567, 777-805) has
\* /syncer/status answer Stop after it and /syncer/restart resume from the checkpoint.  Only
\* Ctrl+C ends the process of a stopped syncer.
StopKeepsServing == [][Alive /\ cancelled /\ ~Alive' => CtrlC]_vars

\* /syncer/restart restarts the synchronisation: run() does not refuse.
RestartRuns == \A h \in Handlers : request[h] = "restart" => answer[h] # "error"

\* Once the stream is being received the phase machine is in the incremental phases.
StreamIsIncremental ==
  input[Main] = "streaming" ~> \/ phase \in {"IncrSyncing", "IncrSynced"}
                               \/ input[Main] # "streaming" \/ ~Alive

\* A service that failed says so by its exit code: systemd restarts it on failure.
FailureIsToldSystemd ==
  input[Main] = "failed" /\ ~cancelled => exit # "0"
=============================================================================

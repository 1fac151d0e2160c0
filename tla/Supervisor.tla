---------------------------- MODULE Supervisor ----------------------------
(***************************************************************************)
(* The stream supervisor and the pipelines it launches                     *)
(* (apps/server/src/supervisor.rs, main.rs, state.rs, and the outer loop   *)
(* run_supervised_pipeline of jobs/pipeline.rs).                           *)
(*                                                                         *)
(* Start, Stop and the update of the prefilter defaults hold command_lock  *)
(* from beginning to end, so one command is in progress at a time; its     *)
(* awaits are the boundaries of its steps.  Each launched pipeline has a   *)
(* monitor that copies the pipeline's watch channel to the status.  The    *)
(* HTTP server drops the future of a command whose client disconnected:    *)
(* the command ends at the await it had reached.                           *)
(***************************************************************************)
EXTENDS Naturals

CONSTANTS
    MaxLaunches,       \* bound on pipelines launched
    MaxRevision,       \* bound on the revision of the prefilter defaults
    StopDisconnects    \* whether the client of a Stop may disconnect

ASSUME SupervisorAssumption ==
    MaxLaunches \in Nat /\ MaxRevision \in Nat \ {0} /\ StopDisconnects \in BOOLEAN

Pipelines == 1..MaxLaunches
NoPipeline == 0
Statuses == {"STOPPED", "STARTING", "RUNNING", "DEGRADED", "STOPPING", "ERROR"}

VARIABLES
    requested,   \* stream_control.requested_running
    revision,    \* prefilter_defaults.revision
    status,      \* the status cell of the supervisor
    announced,   \* the last StreamStatusChanged
    running,     \* the pipeline in the `running' cell
    shutdown,    \* the shutdown token
    command,     \* the command that holds command_lock
    pipes,       \* pipelines
    monitors     \* their monitors

durable == <<requested, revision>>
shared == <<status, announced>>
vars == <<durable, shared, running, shutdown, command, pipes, monitors>>

Seen == "nothing new"

\* Where run_supervised_pipeline is, and what its watch channel has that the
\* monitor has not seen.  In the last three it has ended.
Ended == {"stopped", "failed", "aborted"}
Pipe ==
    [pc : {"absent", "top", "preparing", "running", "draining", "finishing", "waiting"} \cup Ended,
     cancelled : BOOLEAN, first : BOOLEAN, revision : Nat,
     watch : Statuses \cup {Seen}]

\* A monitor in `publish' has written the status and not yet published it.
Monitor == [pc : {"absent", "watch", "publish", "last publish", "done"},
            wrote : Statuses, shutdownSeen : BOOLEAN]

Command ==
    [name : {"none", "start", "stop", "update"},
     pc : {"idle", "requested", "launching", "launch publish", "waiting", "taken",
           "stop publish", "await", "aborted", "last write", "last publish", "checked"},
     pipe : {NoPipeline} \cup Pipelines, revision : Nat]

TypeOK ==
    /\ requested \in BOOLEAN /\ revision \in Nat
    /\ status \in Statuses /\ announced \in Statuses
    /\ running \in {NoPipeline} \cup Pipelines
    /\ shutdown \in BOOLEAN
    /\ command \in Command
    /\ pipes \in [Pipelines -> Pipe]
    /\ monitors \in [Pipelines -> Monitor]

NoCommand == [name |-> "none", pc |-> "idle", pipe |-> NoPipeline, revision |-> 0]
AbsentMonitor == [pc |-> "absent", wrote |-> "STOPPED", shutdownSeen |-> FALSE]
AbsentPipe == [pc |-> "absent", cancelled |-> FALSE, first |-> TRUE, revision |-> 0,
               watch |-> Seen]

Init ==
    /\ requested = FALSE /\ revision = 1
    /\ status = "STOPPED" /\ announced = "STOPPED"
    /\ running = NoPipeline
    /\ shutdown = FALSE
    /\ command = NoCommand
    /\ pipes = [p \in Pipelines |-> AbsentPipe]
    /\ monitors = [p \in Pipelines |-> AbsentMonitor]

-----------------------------------------------------------------------------

\* The monitor ends and drops its handles; a pipeline that still runs goes on.
GonePipe == [AbsentPipe EXCEPT !.pc = "stopped"]
GoneMonitor == [AbsentMonitor EXCEPT !.pc = "done"]
DropHandles(p) ==
    /\ pipes' = [pipes EXCEPT ![p] = IF @.pc \in Ended THEN GonePipe ELSE @]
    /\ monitors' = [monitors EXCEPT ![p] = GoneMonitor]

Live(p) == pipes[p].pc \notin Ended \cup {"absent"}

\* The next pipeline to launch.
Launch(p) == pipes[p].pc = "absent" /\ \A q \in Pipelines : q < p => pipes[q].pc # "absent"

\* set_status writes the cell, drops the lock and publishes what it wrote.
WriteStatus(next) == status' = next
Publish(next) == announced' = next

Begin(name, pc) ==
    /\ command.name = "none"
    /\ command' = [NoCommand EXCEPT !.name = name, !.pc = pc]

At(name, pc) == command.name = name /\ command.pc = pc
Goto(pc) == command' = [command EXCEPT !.pc = pc]

-----------------------------------------------------------------------------

Start ==
    /\ ~shutdown
    /\ Begin("start", "requested")
    /\ requested' = TRUE
    /\ UNCHANGED <<revision, shared, running, shutdown, pipes, monitors>>

\* Mutant: launch_pipeline does not look at the pipeline in the cell.
AlreadyRunningUnchecked == FALSE

AlreadyRunning == running # NoPipeline /\ monitors[running].pc # "done"

\* launch_pipeline up to its database read: an existing pipeline is kept, and a
\* finished one is taken out of the cell.
LaunchPipeline ==
    /\ At("start", "requested")
    /\ IF AlreadyRunning
       THEN Goto("waiting") /\ UNCHANGED running
       ELSE Goto("launching") /\ running' = NoPipeline
    /\ UNCHANGED <<durable, shared, shutdown, pipes, monitors>>

\* load_prefilter_defaults, and set_status(Starting).
LoadDefaults ==
    /\ At("start", "launching")
    /\ \E p \in Pipelines : Launch(p)
    /\ command' = [command EXCEPT !.revision = revision,
                     !.pc = "launch publish"]
    /\ WriteStatus("STARTING")
    /\ UNCHANGED <<durable, announced, running, shutdown, pipes, monitors>>

\* The defaults cannot be read: Start returns the error.
LoadDefaultsFails ==
    /\ At("start", "launching")
    /\ command' = NoCommand
    /\ UNCHANGED <<durable, shared, running, shutdown, pipes, monitors>>

\* spawn_pipeline, spawn_monitor and the cell.
SpawnPipeline(p) ==
    /\ At("start", "launch publish")
    /\ Launch(p)
    /\ Publish("STARTING")
    /\ pipes' = [pipes EXCEPT ![p] = [AbsentPipe EXCEPT !.pc = "top", !.revision = command.revision]]
    /\ monitors' = [monitors EXCEPT ![p].pc = "watch"]
    /\ running' = p
    /\ Goto("waiting")
    /\ UNCHANGED <<durable, status, shutdown>>

\* wait_for_start_result: a result, or the deadline.
StartReturns ==
    /\ At("start", "waiting")
    /\ command' = NoCommand
    /\ UNCHANGED <<durable, shared, running, shutdown, pipes, monitors>>

-----------------------------------------------------------------------------

Stop ==
    /\ Begin("stop", "requested")
    /\ requested' = FALSE
    /\ UNCHANGED <<revision, shared, running, shutdown, pipes, monitors>>

TakeRunning ==
    /\ At("stop", "requested")
    /\ command' = [command EXCEPT !.pipe = running,
                     !.pc = IF running = NoPipeline THEN "last write" ELSE "taken"]
    /\ running' = NoPipeline
    /\ UNCHANGED <<durable, shared, shutdown, pipes, monitors>>

StopWrites ==
    /\ At("stop", "taken")
    /\ WriteStatus("STOPPING")
    /\ Goto(IF status = "STOPPING" THEN "await" ELSE "stop publish")
    /\ pipes' = IF status = "STOPPING" THEN [pipes EXCEPT ![command.pipe].cancelled = TRUE] ELSE pipes
    /\ UNCHANGED <<durable, announced, running, shutdown, monitors>>

StopPublishes ==
    /\ At("stop", "stop publish")
    /\ Publish("STOPPING")
    /\ pipes' = [pipes EXCEPT ![command.pipe].cancelled = TRUE]
    /\ Goto("await")
    /\ UNCHANGED <<durable, status, running, shutdown, monitors>>

\* await_monitor: the monitor ends, or the pipeline is aborted after the
\* timeout, or the monitor is as well.
MonitorEnded ==
    /\ command.name = "stop" /\ command.pc \in {"await", "aborted"}
    /\ monitors[command.pipe].pc = "done"
    /\ Goto("last write")
    /\ UNCHANGED <<durable, shared, running, shutdown, pipes, monitors>>

\* Mutant: the pipeline of a monitor that does not end is left alone.
LeavePipeline(p) == UNCHANGED pipes

\* Aborting a task drops it, unless it ended before.
AbortPipeline(p) ==
    pipes' = [pipes EXCEPT ![p].pc = IF Live(p) THEN "aborted" ELSE @]

AbortAfterTimeout ==
    /\ At("stop", "await")
    /\ AbortPipeline(command.pipe)
    /\ Goto("aborted")
    /\ UNCHANGED <<durable, shared, running, shutdown, monitors>>

\* A task is aborted at an await: never between a write and its publication.
AbortMonitor ==
    /\ At("stop", "aborted")
    /\ monitors[command.pipe].pc = "watch"
    /\ DropHandles(command.pipe)
    /\ Goto("last write")
    /\ UNCHANGED <<durable, shared, running, shutdown>>

StopWritesStopped ==
    /\ At("stop", "last write")
    /\ WriteStatus("STOPPED")
    /\ IF status = "STOPPED" THEN command' = NoCommand ELSE Goto("last publish")
    /\ UNCHANGED <<durable, announced, running, shutdown, pipes, monitors>>

StopReturns ==
    /\ At("stop", "last publish")
    /\ Publish("STOPPED")
    /\ command' = NoCommand
    /\ UNCHANGED <<durable, status, running, shutdown, pipes, monitors>>

-----------------------------------------------------------------------------

\* Mutant: the settings can be edited at any time.
AlwaysEditable == TRUE

PrefilterSettingsAreEditable ==
    status = "STOPPED" /\ ~requested /\ ~AlreadyRunning

UpdatePrefilterDefaults ==
    /\ ~shutdown
    /\ PrefilterSettingsAreEditable
    /\ Begin("update", "checked")
    /\ UNCHANGED <<durable, shared, running, shutdown, pipes, monitors>>

\* The row is replaced under its revision, or the revision is not the expected.
ReplaceDefaults ==
    /\ At("update", "checked")
    /\ \/ revision < MaxRevision /\ revision' = revision + 1
       \/ UNCHANGED revision
    /\ command' = NoCommand
    /\ UNCHANGED <<requested, shared, running, shutdown, pipes, monitors>>

\* The client disconnects.  There is no await between a write of the status
\* and its publication.
Disconnect ==
    /\ \/ command.name \in {"start", "update"}
       \/ command.name = "stop" /\ StopDisconnects
    /\ command.pc \notin {"launch publish", "stop publish", "last publish"}
    /\ command' = NoCommand
    /\ UNCHANGED <<durable, shared, running, shutdown, pipes, monitors>>

-----------------------------------------------------------------------------

\* The mutex of the cell is held while launch_pipeline runs.
CellIsLocked == command.name = "start" /\ command.pc \in {"launching", "launch publish"}

\* StreamSupervisor::shutdown, which does not wait for the cell.
Shutdown ==
    /\ ~shutdown
    /\ shutdown' = TRUE
    /\ pipes' = IF running # NoPipeline /\ ~CellIsLocked
                THEN [pipes EXCEPT ![running].cancelled = TRUE] ELSE pipes
    /\ UNCHANGED <<durable, shared, running, command, monitors>>

\* restore, and launch_pipeline if the stream is to be resumed.
ComeUp(resumed) ==
    /\ resumed => requested /\ \E p \in Pipelines : Launch(p)
    /\ shutdown' = FALSE
    /\ command' = NoCommand
    /\ status' = IF resumed THEN "STARTING" ELSE IF requested THEN "DEGRADED" ELSE "STOPPED"
    /\ announced' = status'
    /\ pipes' = [p \in Pipelines |->
                   CASE resumed /\ Launch(p) -> [AbsentPipe EXCEPT !.pc = "top", !.revision = revision]
                     [] pipes[p].pc # "absent" -> GonePipe
                     [] OTHER -> AbsentPipe]
    /\ monitors' = [p \in Pipelines |->
                      CASE resumed /\ Launch(p) -> [AbsentMonitor EXCEPT !.pc = "watch"]
                        [] pipes[p].pc # "absent" -> GoneMonitor
                        [] OTHER -> AbsentMonitor]
    /\ running' = IF resumed THEN CHOOSE p \in Pipelines : Launch(p) ELSE NoPipeline
    /\ UNCHANGED durable

\* The process ends, after a shutdown or in a crash, and starts again.  When the
\* requested stream cannot be resumed, the error is logged and the process comes up
\* without a pipeline.
RestartProcess == \E resumed \in BOOLEAN : ComeUp(resumed)

-----------------------------------------------------------------------------

\* One step of run_supervised_pipeline, which may send a status.
Send(p, from, to, next) ==
    /\ pipes[p].pc \in from
    /\ pipes' = [pipes EXCEPT ![p].pc = to, ![p].watch = next]
    /\ UNCHANGED <<durable, shared, running, shutdown, command, monitors>>

MoveTo(p, from, to) ==
    /\ pipes[p].pc \in from
    /\ pipes' = [pipes EXCEPT ![p].pc = to]
    /\ UNCHANGED <<durable, shared, running, shutdown, command, monitors>>

BeginAttempt(p) ==
    /\ ~pipes[p].cancelled
    /\ Send(p, {"top"}, "preparing", IF pipes[p].first THEN "STARTING" ELSE "DEGRADED")

\* Network verified and bound, history pruned, storage checked, markets loaded.
Prepared(p) == ~pipes[p].cancelled /\ MoveTo(p, {"preparing"}, "running")

\* A source connects or disconnects, or the health of discovery reads changes.
UpdateStreamStatus(p) ==
    \E next \in {"STARTING", "RUNNING", "DEGRADED"} :
        Send(p, {"running"}, "running", next)

\* run_pipeline sees the cancellation, or one of its tasks end.
Drain(p) == pipes[p].cancelled /\ Send(p, {"running"}, "draining", "STOPPING")
TaskExits(p) == Send(p, {"running"}, "finishing", "DEGRADED")

\* Cancellation is looked at after every attempt and before the next.
StopPipeline(p) ==
    \/ MoveTo(p, {"draining"}, "stopped")
    \/ pipes[p].cancelled /\ MoveTo(p, {"top", "preparing", "finishing", "waiting"}, "stopped")

RetryAttempt(p) ==
    /\ ~pipes[p].cancelled
    /\ pipes[p].pc \in {"preparing", "finishing"}
    /\ pipes' = [pipes EXCEPT ![p].pc = "waiting", ![p].watch = "DEGRADED",
                              ![p].first = FALSE]
    /\ UNCHANGED <<durable, shared, running, shutdown, command, monitors>>

RestartDelayPasses(p) == MoveTo(p, {"waiting"}, "top")

\* pipeline_error_is_retryable is false: no storage left, or another network.
FailPipeline(p) ==
    ~pipes[p].cancelled /\ Send(p, {"preparing", "finishing"}, "failed", "ERROR")

-----------------------------------------------------------------------------

\* Mutant: the monitor does not pass the shutdown on.
IgnoreShutdown(p) == FALSE

SeeShutdown(p) ==
    /\ monitors[p].pc = "watch"
    /\ shutdown /\ ~monitors[p].shutdownSeen
    /\ monitors' = [monitors EXCEPT ![p].shutdownSeen = TRUE]
    /\ pipes' = [pipes EXCEPT ![p].cancelled = TRUE]
    /\ UNCHANGED <<durable, shared, running, shutdown, command>>

\* The status of the watch channel is copied.
CopyStatus(p) ==
    /\ monitors[p].pc = "watch" /\ pipes[p].watch # Seen
    /\ pipes' = [pipes EXCEPT ![p].watch = Seen]
    /\ WriteStatus(pipes[p].watch)
    /\ monitors' = IF status = pipes[p].watch THEN monitors
                   ELSE [monitors EXCEPT ![p].pc = "publish", ![p].wrote = pipes[p].watch]
    /\ UNCHANGED <<durable, announced, running, shutdown, command>>

\* The status that the end of the pipeline calls for.
FinalStatus(p) ==
    IF pipes[p].pc = "stopped" /\ pipes[p].cancelled THEN "STOPPED" ELSE "ERROR"

\* Mutant: the end of the pipeline is not published.
EndMonitorSilently(p) ==
    /\ monitors[p].pc = "watch" /\ pipes[p].pc \in Ended
    /\ WriteStatus(FinalStatus(p))
    /\ DropHandles(p)
    /\ UNCHANGED <<durable, announced, running, shutdown, command>>

EndMonitor(p) ==
    /\ monitors[p].pc = "watch" /\ pipes[p].pc \in Ended
    /\ WriteStatus(FinalStatus(p))
    /\ IF status = FinalStatus(p)
       THEN DropHandles(p)
       ELSE /\ monitors' = [monitors EXCEPT ![p].pc = "last publish", ![p].wrote = FinalStatus(p)]
            /\ UNCHANGED pipes
    /\ UNCHANGED <<durable, announced, running, shutdown, command>>

MonitorPublishes(p) ==
    /\ monitors[p].pc \in {"publish", "last publish"}
    /\ Publish(monitors[p].wrote)
    /\ IF monitors[p].pc = "last publish"
       THEN DropHandles(p)
       ELSE /\ monitors' = [monitors EXCEPT ![p].pc = "watch", ![p].wrote = "STOPPED"]
            /\ UNCHANGED pipes
    /\ UNCHANGED <<durable, status, running, shutdown, command>>

-----------------------------------------------------------------------------

CommandStep ==
    \/ LaunchPipeline \/ LoadDefaults \/ StartReturns
    \/ \E p \in Pipelines : SpawnPipeline(p)
    \/ TakeRunning \/ StopWrites \/ StopPublishes
    \/ MonitorEnded \/ AbortAfterTimeout \/ AbortMonitor
    \/ StopWritesStopped \/ StopReturns
    \/ ReplaceDefaults

Client == Start \/ Stop \/ UpdatePrefilterDefaults \/ Disconnect \/ LoadDefaultsFails

PipelineStep(p) ==
    \/ BeginAttempt(p) \/ Prepared(p) \/ UpdateStreamStatus(p)
    \/ Drain(p) \/ TaskExits(p) \/ StopPipeline(p)
    \/ RetryAttempt(p) \/ RestartDelayPasses(p) \/ FailPipeline(p)

MonitorStep(p) == SeeShutdown(p) \/ CopyStatus(p) \/ EndMonitor(p) \/ MonitorPublishes(p)

Next ==
    \/ Client
    \/ CommandStep
    \/ Shutdown
    \/ RestartProcess
    \/ \E p \in Pipelines : PipelineStep(p) \/ MonitorStep(p)

Spec == Init /\ [][Next]_vars

\* The runtime polls commands and monitors; nothing is assumed of pipelines.
\* A monitor that can see the shutdown again and again does (select is fair).
Fairness ==
    /\ WF_vars(CommandStep)
    /\ \A p \in Pipelines : WF_vars(MonitorStep(p)) /\ SF_vars(SeeShutdown(p))

FairSpec == Spec /\ Fairness

-----------------------------------------------------------------------------

\* The pipelines that Stop and the next Start know of.
Tracked == {running, command.pipe} \ {NoPipeline}

\* "Start launches one tracked pipeline": a pipeline that runs is the one in the
\* cell, or the one that the Stop in progress took out of it.
OneTrackedPipeline == \A p \in Pipelines : Live(p) => p \in Tracked

\* "Start launches one tracked pipeline": no two pipelines run at a time.
AtMostOnePipeline == \A p, q \in Pipelines : Live(p) /\ Live(q) => p = q

\* Prefilter defaults are edited only while nothing runs: a pipeline runs under
\* the stored revision from its start to its end.
PipelineUsesStoredDefaults == \A p \in Pipelines : Live(p) => pipes[p].revision = revision

\* Nobody is between writing the status and publishing it.
Quiet ==
    /\ command.name = "none"
    /\ \A p \in Pipelines : monitors[p].pc \in {"absent", "watch", "done"}

\* Commands and monitors write the status one after the other but publish after
\* releasing the lock; once all have published, the last event that browsers got
\* is the status.  (Event streams end with the shutdown.)
LastEventIsStatus == Quiet /\ ~shutdown => announced = status

\* A Stop that returns leaves nothing running and the status STOPPED, though the
\* pipeline did not react to its cancellation in time.
StopLeavesNothing ==
    [][(command.name = "stop" /\ command'.name = "none")
       => status' = "STOPPED" /\ \A p \in Pipelines : ~Live(p)']_vars

\* A shutdown cancels every pipeline, also one that a Start launches after
\* shutdown() found the cell locked or empty.
ShutdownReachesPipelines ==
    shutdown ~> (~shutdown \/ \A p \in Pipelines : Live(p) => pipes[p].cancelled)
=============================================================================

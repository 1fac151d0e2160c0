---------------------------- MODULE ServerProofs ----------------------------
(***************************************************************************)
(* The supervisor: one pipeline, the stored defaults, the status and its   *)
(* last event, and what stop leaves behind, for any number of launches.    *)
(* The live events: that coalescing loses no change, for any number of     *)
(* changes and any length of the event buffer.                             *)
(***************************************************************************)
EXTENDS Supervisor, LiveEvents, TLAPS

\* Monitors that have been spawned and have not ended.
Active(p) == monitors[p].pc \notin {"absent", "done"}

\* A pipeline that has not ended has a monitor that waits for it, and a monitor
\* that reports the end has seen it.
Monitored ==
    \A p \in Pipelines : /\ Live(p) => monitors[p].pc \in {"watch", "publish"}
                         /\ pipes[p].watch # "STOPPED"

\* Stop and the next Start know of every monitor, not only of every pipeline.
OneTrackedMonitor == \A p \in Pipelines : Active(p) => p \in Tracked

\* Where the commands are, and what their pipeline and the cell are then.
StartInv ==
    command.name = "start" =>
        /\ command.pc \in {"requested", "launching", "launch publish", "waiting"}
        /\ command.pc \in {"launching", "launch publish"} => running = NoPipeline
        /\ command.pc = "launch publish" => command.revision = revision /\ status = "STARTING"

StopInv ==
    command.name = "stop" =>
        /\ ~requested
        /\ command.pc \in {"requested", "taken", "stop publish", "await", "aborted",
                           "last write", "last publish"}
        /\ command.pc = "requested" => command.pipe = NoPipeline
        /\ command.pc # "requested" => running = NoPipeline
        /\ command.pc \in {"taken", "stop publish", "await", "aborted"} => command.pipe # NoPipeline
        /\ command.pc = "aborted" => ~Live(command.pipe)
        /\ command.pc \in {"last write", "last publish"} => \A p \in Pipelines : ~Active(p)
        /\ command.pc = "last publish" => status = "STOPPED"

CommandInv ==
    /\ command.name # "stop" => command.pipe = NoPipeline
    /\ command.name = "update" => command.pc = "checked" /\ \A p \in Pipelines : ~Active(p)
    /\ StartInv
    /\ StopInv

\* Without a shutdown only a Stop cancels, and not before it published STOPPING.
CancelledByStop ==
    ~shutdown => \A p \in Pipelines :
        Active(p) /\ pipes[p].cancelled =>
            command.name = "stop" /\ command.pipe = p /\ command.pc \in {"await", "aborted"}

Publishing(p) == monitors[p].pc \in {"publish", "last publish"}

\* What was written last is published, or about to be by the monitor that wrote it.
Told(p) == Publishing(p) /\ monitors[p].wrote = status
Announced == announced = status \/ \E p \in Pipelines : Told(p)

StatusSettled ==
    \/ command.name \in {"none", "update"}
    \/ command.name = "start" /\ command.pc # "launch publish"
    \/ command.name = "stop" /\ command.pc \in {"requested", "taken"}
    \/ /\ command.name = "stop" /\ command.pc \in {"await", "aborted", "last write"}
       /\ status = "STOPPED"

StatusInv ==
    ~shutdown =>
        /\ command.name = "stop" /\ command.pc = "stop publish" => status # "STOPPED"
        /\ StatusSettled => /\ Announced
                            /\ \A p \in Pipelines : Publishing(p) => Told(p)

SupervisorInv ==
    /\ TypeOK /\ Monitored /\ OneTrackedMonitor /\ CommandInv /\ CancelledByStop /\ StatusInv
    /\ PipelineUsesStoredDefaults
-----------------------------------------------------------------------------

\* AppState::new: nothing runs and the status is Stopped.
LEMMA InitSupervisorInv == Init => SupervisorInv
<1> SUFFICES ASSUME Init PROVE SupervisorInv
  OBVIOUS
<1>1. TypeOK
  BY SupervisorAssumption DEF Init, TypeOK, NoCommand, Command, AbsentPipe, Pipe, AbsentMonitor, Monitor,
     Statuses, Seen, Ended, Pipelines, NoPipeline
<1>2. \A p \in Pipelines : /\ pipes[p].pc = "absent" /\ pipes[p].watch # "STOPPED"
                           /\ monitors[p].pc = "absent"
  BY DEF Init, AbsentPipe, AbsentMonitor, Seen
<1>3. command.name = "none" /\ command.pipe = NoPipeline
  BY DEF Init, NoCommand
<1>4. announced = status
  BY DEF Init
<1> QED
  BY <1>1, <1>2, <1>3, <1>4 DEF SupervisorInv, Monitored, OneTrackedMonitor, CommandInv, StartInv, StopInv,
     CancelledByStop, StatusInv, Announced, Told, Publishing, Active, Live, PipelineUsesStoredDefaults

\* What a step of a pipeline may change: its own record, and of that neither
\* the cancellation nor the revision.
PipelineMoves(p, r) ==
    /\ Live(p)
    /\ r \in Pipe
    /\ r.cancelled = pipes[p].cancelled /\ r.revision = pipes[p].revision
    /\ r.watch # "STOPPED"
    /\ pipes' = [pipes EXCEPT ![p] = r]
    /\ UNCHANGED <<durable, shared, running, shutdown, command, monitors>>

\* A state that a pipeline sends on its watch channel is a step of the pipeline.
LEMMA SendMoves ==
  ASSUME TypeOK, Monitored, NEW p \in Pipelines, NEW from, NEW to, NEW next, Send(p, from, to, next),
         from \cap (Ended \cup {"absent"}) = {},
         to \in {"top", "preparing", "running", "draining", "finishing", "waiting"} \cup Ended,
         next \in Statuses, next # "STOPPED"
  PROVE  \E r : PipelineMoves(p, r)
<1> DEFINE r == [pipes[p] EXCEPT !.pc = to, !.watch = next]
<1>1. pipes[p] \in Pipe
  BY DEF TypeOK
<1>2. r \in Pipe /\ r.cancelled = pipes[p].cancelled /\ r.revision = pipes[p].revision /\ r.watch = next
  BY Zenon, <1>1 DEF Pipe
<1>3. pipes' = [pipes EXCEPT ![p] = r]
  BY Zenon, <1>1 DEF TypeOK, Send
<1>4. Live(p)
  BY DEF Send, Live
<1> QED
  BY Zenon, <1>2, <1>3, <1>4 DEF Send, PipelineMoves

\* So is a step that it takes without telling.
LEMMA MoveMoves ==
  ASSUME TypeOK, Monitored, NEW p \in Pipelines, NEW from, NEW to, MoveTo(p, from, to),
         from \cap (Ended \cup {"absent"}) = {},
         to \in {"top", "preparing", "running", "draining", "finishing", "waiting"} \cup Ended
  PROVE  \E r : PipelineMoves(p, r)
<1> DEFINE r == [pipes[p] EXCEPT !.pc = to]
<1>1. pipes[p] \in Pipe /\ pipes[p].watch # "STOPPED"
  BY DEF TypeOK, Monitored
<1>2. r \in Pipe /\ r.cancelled = pipes[p].cancelled /\ r.revision = pipes[p].revision
        /\ r.watch = pipes[p].watch
  BY Zenon, <1>1 DEF Pipe
<1>3. pipes' = [pipes EXCEPT ![p] = r]
  BY Zenon, <1>1 DEF TypeOK, MoveTo
<1>4. Live(p)
  BY DEF MoveTo, Live
<1> QED
  BY Zenon, <1>1, <1>2, <1>3, <1>4 DEF MoveTo, PipelineMoves

\* Every step of a pipeline, its end and its failures included, is one of a monitored
\* pipeline that has not ended.
LEMMA StepMoves ==
  ASSUME TypeOK, Monitored, NEW p \in Pipelines, PipelineStep(p)
  PROVE  \E r : PipelineMoves(p, r)
<1>1. CASE BeginAttempt(p)
  BY <1>1, SendMoves DEF BeginAttempt, Ended, Statuses
<1>2. CASE Prepared(p)
  BY <1>2, MoveMoves DEF Prepared, Ended
<1>3. CASE UpdateStreamStatus(p)
  <2>1. PICK next \in {"STARTING", "RUNNING", "DEGRADED"} : Send(p, {"running"}, "running", next)
    BY <1>3 DEF UpdateStreamStatus
  <2> QED
    BY <2>1, SendMoves DEF Ended, Statuses
<1>4. CASE Drain(p)
  BY <1>4, SendMoves DEF Drain, Ended, Statuses
<1>5. CASE TaskExits(p)
  BY <1>5, SendMoves DEF TaskExits, Ended, Statuses
<1>6. CASE StopPipeline(p)
  BY <1>6, MoveMoves DEF StopPipeline, Ended
<1>7. CASE RetryAttempt(p)
  <2> DEFINE r == [pipes[p] EXCEPT !.pc = "waiting", !.watch = "DEGRADED", !.first = FALSE]
  <2>1. pipes[p] \in Pipe
    BY DEF TypeOK
  <2>2. r \in Pipe /\ r.cancelled = pipes[p].cancelled /\ r.revision = pipes[p].revision
          /\ r.watch # "STOPPED"
    BY Zenon, <2>1 DEF Pipe, Statuses
  <2>3. pipes' = [pipes EXCEPT ![p] = r]
    BY Zenon, <1>7, <2>1 DEF TypeOK, RetryAttempt
  <2>4. Live(p)
    BY <1>7 DEF RetryAttempt, Live, Ended
  <2> QED
    BY Zenon, <1>7, <2>2, <2>3, <2>4 DEF RetryAttempt, PipelineMoves
<1>8. CASE RestartDelayPasses(p)
  BY <1>8, MoveMoves DEF RestartDelayPasses, Ended
<1>9. CASE FailPipeline(p)
  BY <1>9, SendMoves DEF FailPipeline, Ended, Statuses
<1> QED
  BY <1>1, <1>2, <1>3, <1>4, <1>5, <1>6, <1>7, <1>8, <1>9 DEF PipelineStep

\* The pipeline itself keeps the invariant: the status is not its to write.
LEMMA MovesKeepInv ==
  ASSUME SupervisorInv, NEW p \in Pipelines, NEW r, PipelineMoves(p, r)
  PROVE  SupervisorInv'
<1> USE DEF SupervisorInv
<1>1. TypeOK'
  BY DEF TypeOK, PipelineMoves, durable, shared
<1>2. \A q \in Pipelines : /\ Live(q)' => Live(q)
                           /\ pipes'[q].cancelled = pipes[q].cancelled
                           /\ pipes'[q].revision = pipes[q].revision
                           /\ pipes'[q].watch # "STOPPED"
  BY DEF TypeOK, PipelineMoves, Live, Monitored
<1>3. UNCHANGED <<requested, revision, status, announced, running, shutdown, command, monitors>>
  BY DEF PipelineMoves, durable, shared
<1>4. Monitored'
  BY <1>2, <1>3 DEF Monitored
<1>5. OneTrackedMonitor'
  BY <1>3 DEF OneTrackedMonitor, Active, Tracked
<1>6. CommandInv'
  BY <1>2, <1>3 DEF CommandInv, StartInv, StopInv, Active, TypeOK, Command
<1>7. CancelledByStop'
  BY <1>2, <1>3 DEF CancelledByStop, Active
<1>8. StatusInv'
  BY <1>3 DEF StatusInv, StatusSettled, Announced, Told, Publishing
<1>9. PipelineUsesStoredDefaults'
  BY <1>2, <1>3 DEF PipelineUsesStoredDefaults
<1> QED
  BY <1>1, <1>4, <1>5, <1>6, <1>7, <1>8, <1>9

\* The steps of a command that touch neither a pipeline nor a monitor.
LEMMA CommandTypes ==
  ASSUME TypeOK,
         \/ Start \/ LaunchPipeline \/ LoadDefaults \/ LoadDefaultsFails \/ StartReturns
         \/ Stop \/ TakeRunning \/ MonitorEnded \/ StopWritesStopped \/ StopReturns
         \/ UpdatePrefilterDefaults \/ ReplaceDefaults \/ Disconnect
  PROVE  TypeOK' /\ UNCHANGED <<shutdown, pipes, monitors>>
<1> USE DEF TypeOK, Command, NoCommand, Goto, At, Begin, WriteStatus, Publish, durable, shared
<1>1. CASE Start
  BY <1>1 DEF Start
<1>2. CASE LaunchPipeline
  BY <1>2 DEF LaunchPipeline
<1>3. CASE LoadDefaults
  BY <1>3 DEF LoadDefaults, Statuses
<1>4. CASE LoadDefaultsFails
  BY <1>4 DEF LoadDefaultsFails
<1>5. CASE StartReturns
  BY <1>5 DEF StartReturns
<1>6. CASE Stop
  BY <1>6 DEF Stop
<1>7. CASE TakeRunning
  BY <1>7 DEF TakeRunning
<1>8. CASE MonitorEnded
  BY <1>8 DEF MonitorEnded
<1>9. CASE StopWritesStopped
  <2>1. command' = NoCommand \/ Goto("last publish")
    BY <1>9 DEF StopWritesStopped
  <2>2. CASE command' = NoCommand
    BY <1>9, <2>2 DEF StopWritesStopped, Statuses
  <2>3. CASE Goto("last publish")
    BY <1>9, <2>3 DEF StopWritesStopped, Statuses
  <2> QED
    BY <2>1, <2>2, <2>3
<1>10. CASE StopReturns
  BY <1>10 DEF StopReturns, Statuses
<1>11. CASE UpdatePrefilterDefaults
  BY <1>11 DEF UpdatePrefilterDefaults
<1>12. CASE ReplaceDefaults
  <2>1. revision' \in Nat
    <3>1. revision' = revision + 1 \/ revision' = revision
      BY ONLY <1>12, Zenon DEF ReplaceDefaults
    <3>2. revision \in Nat
      BY ONLY TypeOK DEF TypeOK
    <3>3. revision + 1 \in Nat
      BY ONLY <3>2
    <3> QED
      BY ONLY Zenon, <3>1, <3>2, <3>3
  <2>2. command' = NoCommand
    BY Zenon, <1>12 DEF ReplaceDefaults
  <2>3. command' \in Command
    BY <2>2
  <2> QED
    BY Zenon, <1>12, <2>1, <2>3 DEF ReplaceDefaults
<1>13. CASE Disconnect
  BY <1>13 DEF Disconnect
<1> QED
  BY <1>1, <1>2, <1>3, <1>4, <1>5, <1>6, <1>7, <1>8, <1>9, <1>10, <1>11, <1>12, <1>13

\* A monitor that has not ended is the one of the cell or of the Stop.
LEMMA NoMonitorLeft ==
  ASSUME SupervisorInv, command.name # "stop", ~AlreadyRunning
  PROVE  \A p \in Pipelines : ~Active(p) /\ ~Live(p)
  BY DEF SupervisorInv, OneTrackedMonitor, Monitored, CommandInv, Tracked, Active, AlreadyRunning

\* The rest of the invariant over a step that leaves pipelines and monitors alone.
LEMMA CommandKeepsInv ==
  ASSUME SupervisorInv, TypeOK', UNCHANGED <<shutdown, pipes, monitors>>,
         CommandInv', OneTrackedMonitor',
         CancelledByStop', StatusInv', PipelineUsesStoredDefaults'
  PROVE  SupervisorInv'
  BY DEF SupervisorInv, Monitored, Live

\* start, from the request to the answer, keeps the invariant.
LEMMA StartKeepsInv ==
  ASSUME SupervisorInv, Start \/ LaunchPipeline \/ LoadDefaults \/ LoadDefaultsFails \/ StartReturns
  PROVE  SupervisorInv'
<1>0. TypeOK /\ TypeOK' /\ UNCHANGED <<shutdown, pipes, monitors>>
  BY CommandTypes DEF SupervisorInv
<1>t. command \in Command
  BY <1>0 DEF TypeOK
<1>c. OneTrackedMonitor /\ CommandInv /\ CancelledByStop /\ StatusInv /\ PipelineUsesStoredDefaults
  BY DEF SupervisorInv
<1>1. CASE Start
  <2>1. /\ command.name = "none" /\ command'.name = "start" /\ command'.pc = "requested"
        /\ command'.pipe = NoPipeline
        /\ UNCHANGED <<revision, status, announced, running, shutdown, pipes, monitors>>
    BY <1>1 DEF Start, Begin, NoCommand, shared
  <2>2. OneTrackedMonitor'
    BY <2>1, <1>c DEF OneTrackedMonitor, Active, Tracked, CommandInv
  <2>3. CommandInv'
    BY <2>1, <1>c DEF CommandInv, StartInv, StopInv, Active, Live
  <2>4. CancelledByStop'
    BY <2>1, <1>c DEF CancelledByStop, Active
  <2>5. StatusInv'
    BY <2>1, <1>c DEF StatusInv, StatusSettled, Announced, Told, Publishing
  <2>6. PipelineUsesStoredDefaults'
    BY <2>1, <1>c DEF PipelineUsesStoredDefaults, Live
  <2> QED
    BY <1>0, <2>2, <2>3, <2>4, <2>5, <2>6, CommandKeepsInv
<1>2. CASE LaunchPipeline
  <2>1. /\ command.name = "start" /\ command.pc = "requested" /\ command'.name = "start"
        /\ command'.pipe = command.pipe
        /\ UNCHANGED <<revision, status, announced, shutdown, pipes, monitors>>
    BY <1>2, <1>t DEF LaunchPipeline, Command, At, Goto, durable, shared
  <2>2. CASE AlreadyRunning
    <3>1. command'.pc = "waiting" /\ running' = running
      BY <1>2, <1>t, <2>2 DEF LaunchPipeline, Command, At, Goto
    <3>2. OneTrackedMonitor'
      BY <2>1, <3>1, <1>c DEF OneTrackedMonitor, Active, Tracked
    <3>3. CommandInv'
      BY <2>1, <3>1, <1>c DEF CommandInv, StartInv, StopInv, Active, Live
    <3>4. CancelledByStop'
      BY <2>1, <3>1, <1>c DEF CancelledByStop, Active
    <3>5. StatusInv'
      BY <2>1, <3>1, <1>c DEF StatusInv, StatusSettled, Announced, Told, Publishing
    <3>6. PipelineUsesStoredDefaults'
      BY <2>1, <3>1, <1>c DEF PipelineUsesStoredDefaults, Live
    <3> QED
      BY <1>0, <3>2, <3>3, <3>4, <3>5, <3>6, CommandKeepsInv
  <2>3. CASE ~AlreadyRunning
    <3>1. command'.pc = "launching" /\ running' = NoPipeline
      BY <1>2, <1>t, <2>3 DEF LaunchPipeline, Command, At, Goto
    <3>2. \A p \in Pipelines : ~Active(p) /\ ~Live(p)
      BY <2>1, <2>3, NoMonitorLeft
    <3>3. OneTrackedMonitor'
      BY <2>1, <3>1, <3>2, <1>c DEF OneTrackedMonitor, Active, Tracked
    <3>4. CommandInv'
      BY <2>1, <3>1, <3>2, <1>c DEF CommandInv, StartInv, StopInv, Active, Live
    <3>5. CancelledByStop'
      BY <2>1, <3>1, <3>2, <1>c DEF CancelledByStop, Active
    <3>6. StatusInv'
      BY <2>1, <3>1, <3>2, <1>c DEF StatusInv, StatusSettled, Announced, Told, Publishing
    <3>7. PipelineUsesStoredDefaults'
      BY <2>1, <3>1, <3>2, <1>c DEF PipelineUsesStoredDefaults, Live
    <3> QED
      BY <1>0, <3>3, <3>4, <3>5, <3>6, <3>7, CommandKeepsInv
  <2> QED
    BY <2>2, <2>3
<1>3. CASE LoadDefaults
  <2>1. /\ command.name = "start" /\ command.pc = "launching" /\ command'.name = "start"
        /\ command'.pipe = command.pipe /\ command'.pc = "launch publish"
        /\ command'.revision = revision /\ status' = "STARTING"
        /\ UNCHANGED <<revision, announced, running, shutdown, pipes, monitors>>
    BY <1>3, <1>t DEF LoadDefaults, Command, WriteStatus, At, durable
  <2>2. OneTrackedMonitor'
    BY <2>1, <1>c DEF OneTrackedMonitor, Active, Tracked
  <2>3. CommandInv'
    BY <2>1, <1>c DEF CommandInv, StartInv, StopInv, Active, Live
  <2>4. CancelledByStop'
    BY <2>1, <1>c DEF CancelledByStop, Active
  <2>5. StatusInv'
    BY <2>1, <1>c DEF StatusInv, StatusSettled, Announced, Told, Publishing
  <2>6. PipelineUsesStoredDefaults'
    BY <2>1, <1>c DEF PipelineUsesStoredDefaults, Live
  <2> QED
    BY <1>0, <2>2, <2>3, <2>4, <2>5, <2>6, CommandKeepsInv
<1>4. ASSUME LoadDefaultsFails \/ StartReturns
      PROVE  SupervisorInv'
  <2>1. /\ command.name = "start" /\ command.pc # "launch publish" /\ command'.name = "none"
        /\ command'.pipe = NoPipeline
        /\ UNCHANGED <<revision, status, announced, running, shutdown, pipes, monitors>>
    <3>1. CASE LoadDefaultsFails
      BY <3>1 DEF LoadDefaultsFails, NoCommand, At, durable, shared
    <3>2. CASE StartReturns
      BY <3>2 DEF StartReturns, NoCommand, At, durable, shared
    <3> QED
      BY <1>4, <3>1, <3>2
  <2>2. OneTrackedMonitor'
    BY <2>1, <1>c DEF OneTrackedMonitor, Active, Tracked, CommandInv
  <2>3. CommandInv'
    BY <2>1, <1>c DEF CommandInv, StartInv, StopInv, Active, Live
  <2>4. CancelledByStop'
    BY <2>1, <1>c DEF CancelledByStop, Active
  <2>5. StatusInv'
    BY <2>1, <1>c DEF StatusInv, StatusSettled, Announced, Told, Publishing
  <2>6. PipelineUsesStoredDefaults'
    BY <2>1, <1>c DEF PipelineUsesStoredDefaults, Live
  <2> QED
    BY <1>0, <2>2, <2>3, <2>4, <2>5, <2>6, CommandKeepsInv
<1> QED
  BY <1>1, <1>2, <1>3, <1>4

\* stop, with all that it awaits, keeps the invariant.
LEMMA StopKeepsInv ==
  ASSUME SupervisorInv, Stop \/ TakeRunning \/ MonitorEnded \/ StopWritesStopped \/ StopReturns
  PROVE  SupervisorInv'
<1>0. TypeOK /\ TypeOK' /\ UNCHANGED <<shutdown, pipes, monitors>>
  BY CommandTypes DEF SupervisorInv
<1>t. command \in Command
  BY <1>0 DEF TypeOK
<1>c. OneTrackedMonitor /\ CommandInv /\ CancelledByStop /\ StatusInv /\ PipelineUsesStoredDefaults
  BY DEF SupervisorInv
<1>1. CASE Stop
  <2>1. /\ command.name = "none" /\ command'.name = "stop" /\ command'.pc = "requested"
        /\ command'.pipe = NoPipeline /\ ~requested'
        /\ UNCHANGED <<revision, status, announced, running, shutdown, pipes, monitors>>
    BY <1>1 DEF Stop, Begin, NoCommand, shared
  <2>2. OneTrackedMonitor'
    BY <2>1, <1>c DEF OneTrackedMonitor, Active, Tracked, CommandInv
  <2>3. CommandInv'
    BY <2>1, <1>c DEF CommandInv, StartInv, StopInv, Active, Live
  <2>4. CancelledByStop'
    BY <2>1, <1>c DEF CancelledByStop, Active
  <2>5. StatusInv'
    BY <2>1, <1>c DEF StatusInv, StatusSettled, Announced, Told, Publishing
  <2>6. PipelineUsesStoredDefaults'
    BY <2>1, <1>c DEF PipelineUsesStoredDefaults, Live
  <2> QED
    BY <1>0, <2>2, <2>3, <2>4, <2>5, <2>6, CommandKeepsInv
<1>2. CASE TakeRunning
  <2>1. /\ command.name = "stop" /\ command.pc = "requested" /\ command'.name = "stop"
        /\ command'.pipe = running /\ running' = NoPipeline
        /\ UNCHANGED <<requested, revision, status, announced, shutdown, pipes, monitors>>
    BY <1>2, <1>t DEF TakeRunning, Command, At, durable, shared
  <2>2. CASE running = NoPipeline
    <3>1. command'.pc = "last write"
      BY <1>2, <1>t, <2>2 DEF TakeRunning, Command
    <3>2. \A p \in Pipelines : ~Active(p)
      BY <2>1, <2>2, <1>c DEF OneTrackedMonitor, CommandInv, StopInv, Tracked
    <3>3. OneTrackedMonitor'
      BY <2>1, <2>2, <3>1, <3>2, <1>c DEF OneTrackedMonitor, Active, Tracked
    <3>4. CommandInv'
      BY <2>1, <2>2, <3>1, <3>2, <1>c DEF CommandInv, StartInv, StopInv, Active, Live
    <3>5. CancelledByStop'
      BY <2>1, <2>2, <3>1, <3>2, <1>c DEF CancelledByStop, Active
    <3>6. StatusInv'
      BY <2>1, <2>2, <3>1, <3>2, <1>c DEF StatusInv, StatusSettled, Announced, Told, Publishing
    <3>7. PipelineUsesStoredDefaults'
      BY <2>1, <2>2, <3>1, <3>2, <1>c DEF PipelineUsesStoredDefaults, Live
    <3> QED
      BY <1>0, <3>3, <3>4, <3>5, <3>6, <3>7, CommandKeepsInv
  <2>3. CASE running # NoPipeline
    <3>1. command'.pc = "taken"
      BY <1>2, <1>t, <2>3 DEF TakeRunning, Command
    <3>2. OneTrackedMonitor'
      BY <2>1, <2>3, <3>1, <1>c DEF OneTrackedMonitor, Active, Tracked, CommandInv, StopInv
    <3>3. CommandInv'
      BY <2>1, <2>3, <3>1, <1>c DEF CommandInv, StartInv, StopInv, Active, Live
    <3>4. CancelledByStop'
      BY <2>1, <2>3, <3>1, <1>c DEF CancelledByStop, Active
    <3>5. StatusInv'
      BY <2>1, <2>3, <3>1, <1>c DEF StatusInv, StatusSettled, Announced, Told, Publishing
    <3>6. PipelineUsesStoredDefaults'
      BY <2>1, <2>3, <3>1, <1>c DEF PipelineUsesStoredDefaults, Live
    <3> QED
      BY <1>0, <3>2, <3>3, <3>4, <3>5, <3>6, CommandKeepsInv
  <2> QED
    BY <2>2, <2>3
<1>3. CASE MonitorEnded
  <2>1. /\ command.name = "stop" /\ command.pc \in {"await", "aborted"}
        /\ command'.name = "stop" /\ command'.pc = "last write" /\ command'.pipe = command.pipe
        /\ monitors[command.pipe].pc = "done"
        /\ UNCHANGED <<requested, revision, status, announced, running, shutdown, pipes, monitors>>
    BY <1>3, <1>t DEF MonitorEnded, Goto, Command, durable, shared
  <2>2. \A p \in Pipelines : ~Active(p)
    BY <2>1, <1>c DEF OneTrackedMonitor, CommandInv, StopInv, Tracked, Active
  <2>3. OneTrackedMonitor'
    BY <2>1, <2>2, <1>c DEF OneTrackedMonitor, Active, Tracked
  <2>4. CommandInv'
    BY <2>1, <2>2, <1>c DEF CommandInv, StartInv, StopInv, Active, Live
  <2>5. CancelledByStop'
    BY <2>1, <2>2, <1>c DEF CancelledByStop, Active
  <2>6. StatusInv'
    BY <2>1, <2>2, <1>c DEF StatusInv, StatusSettled, Announced, Told, Publishing
  <2>7. PipelineUsesStoredDefaults'
    BY <2>1, <2>2, <1>c DEF PipelineUsesStoredDefaults, Live
  <2> QED
    BY <1>0, <2>3, <2>4, <2>5, <2>6, <2>7, CommandKeepsInv
<1>4. CASE StopWritesStopped
  <2>1. /\ command.name = "stop" /\ command.pc = "last write" /\ status' = "STOPPED"
        /\ UNCHANGED <<requested, revision, announced, running, shutdown, pipes, monitors>>
    BY <1>4 DEF StopWritesStopped, At, WriteStatus, durable, shared
  <2>2. CASE status = "STOPPED"
    <3>1. command'.name = "none" /\ command'.pipe = NoPipeline
      <4>1. command' = NoCommand
        BY Zenon, <1>4, <2>2 DEF StopWritesStopped
      <4> QED
        BY <4>1 DEF NoCommand
    <3>2. OneTrackedMonitor'
      BY <2>1, <2>2, <3>1, <1>c DEF OneTrackedMonitor, Active, Tracked, CommandInv, StopInv
    <3>3. CommandInv'
      BY <2>1, <2>2, <3>1, <1>c DEF CommandInv, StartInv, StopInv, Active, Live
    <3>4. CancelledByStop'
      BY <2>1, <2>2, <3>1, <1>c DEF CancelledByStop, Active
    <3>5. StatusInv'
      BY <2>1, <2>2, <3>1, <1>c DEF StatusInv, StatusSettled, Announced, Told, Publishing
    <3>6. PipelineUsesStoredDefaults'
      BY <2>1, <2>2, <3>1, <1>c DEF PipelineUsesStoredDefaults, Live
    <3> QED
      BY <1>0, <3>2, <3>3, <3>4, <3>5, <3>6, CommandKeepsInv
  <2>3. CASE status # "STOPPED"
    <3>1. command'.name = "stop" /\ command'.pc = "last publish" /\ command'.pipe = command.pipe
      <4>1. Goto("last publish")
        BY Zenon, <1>4, <2>3 DEF StopWritesStopped
      <4> QED
        BY <2>1, <4>1, <1>t DEF Goto, Command
    <3>2. OneTrackedMonitor'
      BY <2>1, <2>3, <3>1, <1>c DEF OneTrackedMonitor, Active, Tracked, CommandInv
    <3>3. CommandInv'
      BY <2>1, <2>3, <3>1, <1>c DEF CommandInv, StartInv, StopInv, Active, Live
    <3>4. CancelledByStop'
      BY <2>1, <2>3, <3>1, <1>c DEF CancelledByStop, Active
    <3>5. StatusInv'
      BY <2>1, <2>3, <3>1, <1>c DEF StatusInv, StatusSettled, Announced, Told, Publishing
    <3>6. PipelineUsesStoredDefaults'
      BY <2>1, <2>3, <3>1, <1>c DEF PipelineUsesStoredDefaults, Live
    <3> QED
      BY <1>0, <3>2, <3>3, <3>4, <3>5, <3>6, CommandKeepsInv
  <2> QED
    BY <2>2, <2>3
<1>5. CASE StopReturns
  <2>1. /\ command.name = "stop" /\ command.pc = "last publish" /\ announced' = "STOPPED"
        /\ command'.name = "none" /\ command'.pipe = NoPipeline
        /\ UNCHANGED <<requested, revision, status, running, shutdown, pipes, monitors>>
    BY <1>5 DEF StopReturns, At, Publish, NoCommand, durable
  <2>2. OneTrackedMonitor'
    BY <2>1, <1>c DEF OneTrackedMonitor, Active, Tracked, CommandInv, StopInv
  <2>3. CommandInv'
    BY <2>1, <1>c DEF CommandInv, StartInv, StopInv, Active, Live
  <2>4. CancelledByStop'
    BY <2>1, <1>c DEF CancelledByStop, Active, CommandInv, StopInv
  <2>5. StatusInv'
    BY <2>1, <1>c DEF StatusInv, StatusSettled, Announced, Told, Publishing, CommandInv, StopInv, Active
  <2>6. PipelineUsesStoredDefaults'
    BY <2>1, <1>c DEF PipelineUsesStoredDefaults, Live
  <2> QED
    BY <1>0, <2>2, <2>3, <2>4, <2>5, <2>6, CommandKeepsInv
<1> QED
  BY <1>1, <1>2, <1>3, <1>4, <1>5

\* A change of the stored defaults keeps the invariant, as long as no request is dropped.
LEMMA UpdateKeepsInv ==
  ASSUME SupervisorInv, ~StopDisconnects, UpdatePrefilterDefaults \/ ReplaceDefaults \/ Disconnect
  PROVE  SupervisorInv'
<1>0. TypeOK /\ TypeOK' /\ UNCHANGED <<shutdown, pipes, monitors>>
  BY CommandTypes DEF SupervisorInv
<1>t. command \in Command
  BY <1>0 DEF TypeOK
<1>c. OneTrackedMonitor /\ CommandInv /\ CancelledByStop /\ StatusInv /\ PipelineUsesStoredDefaults
  BY DEF SupervisorInv
<1>1. CASE UpdatePrefilterDefaults
  <2>1. /\ command.name = "none" /\ command'.name = "update" /\ command'.pc = "checked"
        /\ command'.pipe = NoPipeline /\ ~AlreadyRunning
        /\ UNCHANGED <<revision, status, announced, running, shutdown, pipes, monitors>>
    BY <1>1 DEF UpdatePrefilterDefaults, PrefilterSettingsAreEditable, Begin, NoCommand, durable, shared
  <2>2. \A p \in Pipelines : ~Active(p)
    BY <2>1, NoMonitorLeft
  <2>3. OneTrackedMonitor'
    BY <2>1, <2>2, <1>c DEF OneTrackedMonitor, Active, Tracked
  <2>4. CommandInv'
    BY <2>1, <2>2, <1>c DEF CommandInv, StartInv, StopInv, Active, Live
  <2>5. CancelledByStop'
    BY <2>1, <2>2, <1>c DEF CancelledByStop, Active
  <2>6. StatusInv'
    BY <2>1, <2>2, <1>c DEF StatusInv, StatusSettled, Announced, Told, Publishing
  <2>7. PipelineUsesStoredDefaults'
    BY <2>1, <2>2, <1>c DEF PipelineUsesStoredDefaults, Live
  <2> QED
    BY <1>0, <2>3, <2>4, <2>5, <2>6, <2>7, CommandKeepsInv
<1>2. CASE ReplaceDefaults
  <2>1. /\ command.name = "update" /\ command'.name = "none" /\ command'.pipe = NoPipeline
        /\ UNCHANGED <<requested, status, announced, running, shutdown, pipes, monitors>>
    BY Zenon, <1>2 DEF ReplaceDefaults, At, NoCommand, shared
  <2>2. \A p \in Pipelines : ~Active(p) /\ ~Live(p)
    BY <2>1, <1>c DEF CommandInv, Active, SupervisorInv, Monitored
  <2>3. OneTrackedMonitor'
    BY <2>1, <2>2, <1>c DEF OneTrackedMonitor, Active, Tracked
  <2>4. CommandInv'
    BY <2>1, <2>2, <1>c DEF CommandInv, StartInv, StopInv, Active, Live
  <2>5. CancelledByStop'
    BY <2>1, <2>2, <1>c DEF CancelledByStop, Active
  <2>6. StatusInv'
    BY <2>1, <2>2, <1>c DEF StatusInv, StatusSettled, Announced, Told, Publishing
  <2>7. PipelineUsesStoredDefaults'
    BY <2>1, <2>2, <1>c DEF PipelineUsesStoredDefaults, Live
  <2> QED
    BY <1>0, <2>3, <2>4, <2>5, <2>6, <2>7, CommandKeepsInv
<1>3. CASE Disconnect
  <2>1. /\ command.name \in {"start", "update"} /\ command.pc # "launch publish"
        /\ command'.name = "none" /\ command'.pipe = NoPipeline
        /\ UNCHANGED <<requested, revision, status, announced, running, shutdown, pipes, monitors>>
    BY <1>3 DEF Disconnect, NoCommand, durable, shared
  <2>2. OneTrackedMonitor'
    BY <2>1, <1>c DEF OneTrackedMonitor, Active, Tracked, CommandInv
  <2>3. CommandInv'
    BY <2>1, <1>c DEF CommandInv, StartInv, StopInv, Active, Live
  <2>4. CancelledByStop'
    BY <2>1, <1>c DEF CancelledByStop, Active
  <2>5. StatusInv'
    BY <2>1, <1>c DEF StatusInv, StatusSettled, Announced, Told, Publishing
  <2>6. PipelineUsesStoredDefaults'
    BY <2>1, <1>c DEF PipelineUsesStoredDefaults, Live
  <2> QED
    BY <1>0, <2>2, <2>3, <2>4, <2>5, <2>6, CommandKeepsInv
<1> QED
  BY <1>1, <1>2, <1>3

\* The spawn of pipeline and monitor under the lock keeps the invariant.
LEMMA SpawnKeepsInv ==
  ASSUME SupervisorInv, NEW p \in Pipelines, SpawnPipeline(p)
  PROVE  SupervisorInv'
<1>c. /\ TypeOK /\ Monitored /\ OneTrackedMonitor /\ CommandInv /\ CancelledByStop /\ StatusInv
      /\ PipelineUsesStoredDefaults
  BY DEF SupervisorInv
<1>t. /\ command \in Command /\ pipes \in [Pipelines -> Pipe] /\ monitors \in [Pipelines -> Monitor]
      /\ p # NoPipeline
  BY <1>c DEF TypeOK, Pipelines, NoPipeline
<1>1. /\ command.name = "start" /\ command.pc = "launch publish" /\ announced' = "STARTING"
      /\ command'.name = "start" /\ command'.pc = "waiting" /\ command'.pipe = command.pipe
      /\ running' = p /\ command'.revision = command.revision
      /\ UNCHANGED <<requested, revision, status, shutdown>>
  BY <1>t DEF SpawnPipeline, At, Goto, Publish, Command, durable
<1>2. \A q \in Pipelines : ~Active(q) /\ ~Live(q)
  BY <1>1, <1>c DEF OneTrackedMonitor, Monitored, CommandInv, StartInv, Tracked, Active
<1>3. \A q \in Pipelines : q # p => pipes'[q] = pipes[q] /\ monitors'[q] = monitors[q]
  BY <1>t DEF SpawnPipeline
<1>4. /\ pipes'[p].pc = "top" /\ pipes'[p].cancelled = FALSE /\ pipes'[p].watch = Seen
      /\ pipes'[p].revision = command.revision
      /\ monitors'[p].pc = "watch"
  BY <1>t DEF SpawnPipeline, AbsentPipe, Monitor
<1>0. TypeOK'
  <2>1. pipes' \in [Pipelines -> Pipe]
    BY <1>t DEF SpawnPipeline, AbsentPipe, Pipe, Seen, Command
  <2>2. monitors' \in [Pipelines -> Monitor]
    BY <1>t DEF SpawnPipeline, Monitor
  <2>3. command' \in Command
    BY <1>t DEF SpawnPipeline, Goto, Command
  <2> QED
    BY <1>1, <1>c, <2>1, <2>2, <2>3 DEF TypeOK, Statuses
<1>5. Monitored'
  BY <1>1, <1>2, <1>3, <1>4, <1>c DEF Monitored, Live, Seen
<1>6. OneTrackedMonitor'
  BY <1>1, <1>2, <1>3, <1>4, <1>t, <1>c DEF OneTrackedMonitor, Active, Tracked
<1>7. CommandInv'
  BY <1>1, <1>2, <1>3, <1>4, <1>c DEF CommandInv, StartInv, StopInv, Active, Live, SupervisorInv
<1>8. CancelledByStop'
  BY <1>1, <1>2, <1>3, <1>4, <1>c DEF CancelledByStop, Active
<1>9. StatusInv'
  BY <1>1, <1>2, <1>3, <1>4, <1>c DEF StatusInv, StatusSettled, Announced, Told, Publishing, Active, CommandInv, StartInv
<1>10. PipelineUsesStoredDefaults'
  BY <1>1, <1>2, <1>3, <1>4, <1>c DEF PipelineUsesStoredDefaults, Live, CommandInv, StartInv
<1> QED
  BY <1>0, <1>5, <1>6, <1>7, <1>8, <1>9, <1>10 DEF SupervisorInv

\* Stop cancels the pipeline it took.
LEMMA CancelKeepsInv ==
  ASSUME SupervisorInv, StopWrites \/ StopPublishes
  PROVE  SupervisorInv'
<1>c. /\ TypeOK /\ Monitored /\ OneTrackedMonitor /\ CommandInv /\ CancelledByStop /\ StatusInv
      /\ PipelineUsesStoredDefaults
  BY DEF SupervisorInv
<1>t. command \in Command /\ pipes \in [Pipelines -> Pipe]
  BY <1>c DEF TypeOK
<1>1. /\ command.name = "stop" /\ command.pc \in {"taken", "stop publish"}
      /\ command'.name = "stop" /\ command'.pipe = command.pipe /\ command' \in Command
      /\ UNCHANGED <<requested, revision, running, shutdown, monitors>>
  <2>1. CASE StopWrites
    BY <2>1, <1>t DEF StopWrites, At, Goto, Command, durable
  <2>2. CASE StopPublishes
    BY <2>2, <1>t DEF StopPublishes, At, Goto, Command, durable
  <2> QED
    BY <2>1, <2>2
<1>2. command.pipe \in Pipelines
  BY <1>1, <1>t, <1>c DEF CommandInv, StopInv, Command
<1>3. /\ \A q \in Pipelines : /\ pipes'[q].pc = pipes[q].pc
                              /\ pipes'[q].revision = pipes[q].revision
                              /\ pipes'[q].watch = pipes[q].watch
                              /\ q # command.pipe => pipes'[q].cancelled = pipes[q].cancelled
      /\ pipes' \in [Pipelines -> Pipe]
  <2>1. CASE pipes' = pipes
    BY <2>1, <1>t
  <2>2. CASE pipes' = [pipes EXCEPT ![command.pipe].cancelled = TRUE]
    <3> DEFINE r == [pipes[command.pipe] EXCEPT !.cancelled = TRUE]
    <3>1. pipes[command.pipe] \in Pipe
      BY <1>t, <1>2
    <3>2. /\ r \in Pipe /\ r.pc = pipes[command.pipe].pc /\ r.revision = pipes[command.pipe].revision
          /\ r.watch = pipes[command.pipe].watch
      BY Zenon, <3>1 DEF Pipe
    <3>3. pipes' = [pipes EXCEPT ![command.pipe] = r]
      BY Zenon, <2>2, <1>t
    <3> HIDE DEF r
    <3> QED
      BY <1>t, <1>2, <3>2, <3>3
  <2>3. StopWrites => (pipes' = pipes \/ pipes' = [pipes EXCEPT ![command.pipe].cancelled = TRUE])
    BY Zenon DEF StopWrites
  <2>4. StopPublishes => pipes' = [pipes EXCEPT ![command.pipe].cancelled = TRUE]
    BY Zenon DEF StopPublishes
  <2> QED
    BY Zenon, <2>1, <2>2, <2>3, <2>4
<1>4. CASE StopWrites /\ status = "STOPPING"
  <2>1. command.pc = "taken" /\ command'.pc = "await" /\ status' = "STOPPING" /\ announced' = announced
    BY <1>4, <1>t DEF StopWrites, At, Goto, Command, WriteStatus
  <2>2. TypeOK'
    BY <1>1, <1>3, <1>c, <2>1 DEF TypeOK, Statuses
  <2>3. Monitored'
    BY <1>1, <1>2, <1>3, <2>1, <1>c DEF Monitored, Live
  <2>4. OneTrackedMonitor'
    BY <1>1, <1>2, <1>3, <2>1, <1>c DEF OneTrackedMonitor, Active, Tracked
  <2>5. CommandInv'
    BY <1>1, <1>2, <1>3, <2>1, <1>c DEF CommandInv, StartInv, StopInv, Active, Live
  <2>6. CancelledByStop'
    BY <1>1, <1>2, <1>3, <2>1, <1>c DEF CancelledByStop, Active
  <2>7. StatusInv'
    BY <1>1, <1>2, <1>3, <2>1, <1>c DEF StatusInv, StatusSettled, Announced, Told, Publishing
  <2>8. PipelineUsesStoredDefaults'
    BY <1>1, <1>2, <1>3, <2>1, <1>c DEF PipelineUsesStoredDefaults, Live
  <2> QED
    BY <2>2, <2>3, <2>4, <2>5, <2>6, <2>7, <2>8 DEF SupervisorInv
<1>5. CASE StopWrites /\ status # "STOPPING"
  <2>1. /\ command.pc = "taken" /\ command'.pc = "stop publish" /\ status' = "STOPPING"
        /\ announced' = announced /\ pipes' = pipes
    BY <1>5, <1>t DEF StopWrites, At, Goto, Command, WriteStatus
  <2>2. TypeOK'
    BY <1>1, <1>3, <1>c, <2>1 DEF TypeOK, Statuses
  <2>3. Monitored'
    BY <1>1, <1>2, <1>3, <2>1, <1>c DEF Monitored, Live
  <2>4. OneTrackedMonitor'
    BY <1>1, <1>2, <1>3, <2>1, <1>c DEF OneTrackedMonitor, Active, Tracked
  <2>5. CommandInv'
    BY <1>1, <1>2, <1>3, <2>1, <1>c DEF CommandInv, StartInv, StopInv, Active, Live
  <2>6. CancelledByStop'
    BY <1>1, <1>2, <1>3, <2>1, <1>c DEF CancelledByStop, Active
  <2>7. StatusInv'
    BY <1>1, <1>2, <1>3, <2>1, <1>c DEF StatusInv, StatusSettled, Announced, Told, Publishing
  <2>8. PipelineUsesStoredDefaults'
    BY <1>1, <1>2, <1>3, <2>1, <1>c DEF PipelineUsesStoredDefaults, Live
  <2> QED
    BY <2>2, <2>3, <2>4, <2>5, <2>6, <2>7, <2>8 DEF SupervisorInv
<1>6. CASE StopPublishes
  <2>1. command.pc = "stop publish" /\ command'.pc = "await" /\ announced' = "STOPPING" /\ status' = status
    BY <1>6, <1>t DEF StopPublishes, At, Goto, Command, Publish
  <2>2. TypeOK'
    BY <1>1, <1>3, <1>c, <2>1 DEF TypeOK, Statuses
  <2>3. Monitored'
    BY <1>1, <1>2, <1>3, <2>1, <1>c DEF Monitored, Live
  <2>4. OneTrackedMonitor'
    BY <1>1, <1>2, <1>3, <2>1, <1>c DEF OneTrackedMonitor, Active, Tracked
  <2>5. CommandInv'
    BY <1>1, <1>2, <1>3, <2>1, <1>c DEF CommandInv, StartInv, StopInv, Active, Live
  <2>6. CancelledByStop'
    BY <1>1, <1>2, <1>3, <2>1, <1>c DEF CancelledByStop, Active
  <2>7. StatusInv'
    BY <1>1, <1>2, <1>3, <2>1, <1>c DEF StatusInv, StatusSettled, Announced, Told, Publishing
  <2>8. PipelineUsesStoredDefaults'
    BY <1>1, <1>2, <1>3, <2>1, <1>c DEF PipelineUsesStoredDefaults, Live
  <2> QED
    BY <2>2, <2>3, <2>4, <2>5, <2>6, <2>7, <2>8 DEF SupervisorInv
<1> QED
  BY <1>4, <1>5, <1>6

\* What is left of a pipeline whose monitor ended.
LEMMA Dropped ==
  ASSUME TypeOK, Monitored, NEW p \in Pipelines, DropHandles(p), ~Live(p)
  PROVE  /\ pipes' \in [Pipelines -> Pipe] /\ monitors' \in [Pipelines -> Monitor]
         /\ \A q \in Pipelines : q # p => pipes'[q] = pipes[q] /\ monitors'[q] = monitors[q]
         /\ ~Live(p)' /\ pipes'[p].watch # "STOPPED" /\ monitors'[p].pc = "done"
<1> DEFINE r == IF pipes[p].pc \in Ended THEN GonePipe ELSE pipes[p]
<1>1. GonePipe \in Pipe /\ GonePipe.pc = "stopped" /\ GonePipe.watch = Seen
  BY DEF GonePipe, AbsentPipe, Pipe, Ended, Seen
<1>2. GoneMonitor \in Monitor /\ GoneMonitor.pc = "done"
  BY DEF GoneMonitor, AbsentMonitor, Monitor, Statuses
<1>3. r \in Pipe /\ r.pc \in Ended \cup {"absent"} /\ r.watch # "STOPPED"
  BY <1>1 DEF TypeOK, Monitored, Live, Ended, Seen
<1>4. pipes' = [pipes EXCEPT ![p] = r] /\ monitors' = [monitors EXCEPT ![p] = GoneMonitor]
  BY Zenon DEF DropHandles, TypeOK
<1> HIDE DEF r
<1> QED
  BY <1>2, <1>3, <1>4 DEF TypeOK, Live

\* Two monitors that have not ended are the same.
LEMMA OneActive ==
  ASSUME SupervisorInv, NEW p \in Pipelines, Active(p)
  PROVE  /\ \A q \in Pipelines : Active(q) => q = p
         /\ command.name # "update"
         /\ command.name = "start" => command.pc \notin {"launching", "launch publish"}
         /\ command.name = "stop" => command.pc \notin {"last write", "last publish"}
  BY DEF SupervisorInv, OneTrackedMonitor, Tracked, CommandInv, StartInv, StopInv

\* So does the abort of a pipeline, or of its monitor, that outlasts stop.
LEMMA AbortKeepsInv ==
  ASSUME SupervisorInv, AbortAfterTimeout \/ AbortMonitor
  PROVE  SupervisorInv'
<1>c. /\ TypeOK /\ Monitored /\ OneTrackedMonitor /\ CommandInv /\ CancelledByStop /\ StatusInv
      /\ PipelineUsesStoredDefaults
  BY DEF SupervisorInv
<1>t. command \in Command /\ pipes \in [Pipelines -> Pipe] /\ monitors \in [Pipelines -> Monitor]
  BY <1>c DEF TypeOK
<1>1. /\ command.name = "stop" /\ command.pc \in {"await", "aborted"}
      /\ command'.name = "stop" /\ command'.pipe = command.pipe /\ command' \in Command
      /\ UNCHANGED <<requested, revision, status, announced, running, shutdown>>
  <2>1. CASE AbortAfterTimeout
    BY <2>1, <1>t DEF AbortAfterTimeout, At, Goto, Command, durable, shared
  <2>2. CASE AbortMonitor
    BY <2>2, <1>t DEF AbortMonitor, At, Goto, Command, durable, shared
  <2> QED
    BY <2>1, <2>2
<1>2. command.pipe \in Pipelines
  BY <1>1, <1>t, <1>c DEF CommandInv, StopInv, Command
<1>3. CASE AbortAfterTimeout
  <2> DEFINE r == [pipes[command.pipe] EXCEPT !.pc = IF Live(command.pipe) THEN "aborted" ELSE @]
  <2>1. pipes[command.pipe] \in Pipe
    BY <1>t, <1>2
  <2>2. /\ r \in Pipe /\ r.cancelled = pipes[command.pipe].cancelled
        /\ r.revision = pipes[command.pipe].revision /\ r.watch = pipes[command.pipe].watch
        /\ r.pc \in Ended \cup {"absent"}
    BY Zenon, <2>1 DEF Pipe, Ended, Live
  <2>3. pipes' = [pipes EXCEPT ![command.pipe] = r]
    BY Zenon, <1>3, <1>t DEF AbortAfterTimeout, AbortPipeline
  <2>4. monitors' = monitors /\ command'.pc = "aborted"
    BY <1>3, <1>t DEF AbortAfterTimeout, Goto, Command
  <2> HIDE DEF r
  <2>5. /\ pipes' \in [Pipelines -> Pipe] /\ ~Live(command.pipe)'
        /\ \A q \in Pipelines : /\ Live(q)' => Live(q)
                                /\ pipes'[q].revision = pipes[q].revision
                                /\ pipes'[q].watch = pipes[q].watch
                                /\ pipes'[q].cancelled = pipes[q].cancelled
    BY <1>t, <1>1, <1>2, <2>2, <2>3 DEF Live
  <2>6. TypeOK'
    BY <1>1, <2>4, <2>5, <1>c DEF TypeOK
  <2>7. Monitored'
    BY <1>1, <1>2, <2>4, <2>5, <1>c DEF Monitored
  <2>8. OneTrackedMonitor'
    BY <1>1, <1>2, <2>4, <2>5, <1>c DEF OneTrackedMonitor, Active, Tracked
  <2>9. CommandInv'
    BY <1>1, <1>2, <2>4, <2>5, <1>c DEF CommandInv, StartInv, StopInv, Active
  <2>10. CancelledByStop'
    BY <1>1, <1>2, <2>4, <2>5, <1>c DEF CancelledByStop, Active
  <2>11. StatusInv'
    BY <1>1, <1>2, <2>4, <2>5, <1>c DEF StatusInv, StatusSettled, Announced, Told, Publishing
  <2>12. PipelineUsesStoredDefaults'
    BY <1>1, <1>2, <2>4, <2>5, <1>c DEF PipelineUsesStoredDefaults
  <2> QED
    BY <2>6, <2>7, <2>8, <2>9, <2>10, <2>11, <2>12 DEF SupervisorInv
<1>4. CASE AbortMonitor
  <2>1. /\ monitors[command.pipe].pc = "watch" /\ command'.pc = "last write" /\ DropHandles(command.pipe)
        /\ ~Live(command.pipe)
    BY <1>4, <1>1, <1>t, <1>c DEF AbortMonitor, At, Goto, Command, CommandInv, StopInv
  <2>2. /\ pipes' \in [Pipelines -> Pipe] /\ monitors' \in [Pipelines -> Monitor]
        /\ \A q \in Pipelines : q # command.pipe => pipes'[q] = pipes[q] /\ monitors'[q] = monitors[q]
        /\ ~Live(command.pipe)' /\ pipes'[command.pipe].watch # "STOPPED"
        /\ monitors'[command.pipe].pc = "done"
    BY <1>1, <1>2, <2>1, <1>c, Dropped
  <2>3. \A q \in Pipelines : ~Active(q)'
    BY <1>1, <1>2, <2>1, <2>2, OneActive DEF Active
  <2>4. TypeOK'
    BY <1>1, <2>2, <1>c DEF TypeOK
  <2>5. Monitored'
    BY <1>1, <1>2, <2>1, <2>2, <2>3, <1>c DEF Monitored, Live
  <2>6. OneTrackedMonitor'
    BY <1>1, <1>2, <2>1, <2>2, <2>3, <1>c DEF OneTrackedMonitor, Active, Tracked
  <2>7. CommandInv'
    BY <1>1, <1>2, <2>1, <2>2, <2>3, <1>c DEF CommandInv, StartInv, StopInv, Active, Live
  <2>8. CancelledByStop'
    BY <1>1, <1>2, <2>1, <2>2, <2>3, <1>c DEF CancelledByStop, Active
  <2>9. StatusInv'
    BY <1>1, <1>2, <2>1, <2>2, <2>3, <1>c DEF StatusInv, StatusSettled, Announced, Told, Publishing, Active
  <2>10. PipelineUsesStoredDefaults'
    BY <1>1, <1>2, <2>1, <2>2, <2>3, <1>c DEF PipelineUsesStoredDefaults, Live
  <2> QED
    BY <2>4, <2>5, <2>6, <2>7, <2>8, <2>9, <2>10 DEF SupervisorInv
<1> QED
  BY <1>3, <1>4

\* A shutdown, as main announces it and as a monitor sees it.
LEMMA ShutdownKeepsInv ==
  ASSUME SupervisorInv, Shutdown \/ \E p \in Pipelines : SeeShutdown(p)
  PROVE  SupervisorInv'
<1>c. /\ TypeOK /\ Monitored /\ OneTrackedMonitor /\ CommandInv /\ CancelledByStop /\ StatusInv
      /\ PipelineUsesStoredDefaults
  BY DEF SupervisorInv
<1>t. command \in Command /\ pipes \in [Pipelines -> Pipe] /\ monitors \in [Pipelines -> Monitor]
  BY <1>c DEF TypeOK
<1>p. command.name = "stop" /\ command.pc = "aborted" => command.pipe \in Pipelines
  BY <1>t, <1>c DEF CommandInv, StopInv, Command
<1>1. /\ shutdown' = TRUE
      /\ UNCHANGED <<requested, revision, status, announced, running, command>>
      /\ pipes' = pipes \/ \E p \in Pipelines : pipes' = [pipes EXCEPT ![p].cancelled = TRUE]
      /\ monitors' = monitors \/ \E p \in Pipelines : monitors' = [monitors EXCEPT ![p].shutdownSeen = TRUE]
  <2>1. CASE Shutdown
    <3>1. running = NoPipeline \/ running \in Pipelines
      BY <1>c DEF TypeOK
    <3> QED
      BY Zenon, <2>1, <3>1 DEF Shutdown, durable, shared
  <2>2. CASE \E p \in Pipelines : SeeShutdown(p)
    <3>1. PICK p \in Pipelines : SeeShutdown(p)
      BY <2>2
    <3>2. shutdown = TRUE
      BY <3>1, <1>c DEF SeeShutdown, TypeOK
    <3> QED
      BY Zenon, <3>1, <3>2 DEF SeeShutdown, durable, shared
  <2> QED
    BY Zenon, <2>1, <2>2
<1>2. /\ pipes' \in [Pipelines -> Pipe]
      /\ \A q \in Pipelines : /\ pipes'[q].pc = pipes[q].pc
                              /\ pipes'[q].revision = pipes[q].revision
                              /\ pipes'[q].watch = pipes[q].watch
  <2>1. CASE pipes' = pipes
    BY <2>1, <1>t
  <2>2. ASSUME NEW p \in Pipelines, pipes' = [pipes EXCEPT ![p].cancelled = TRUE]
        PROVE  <1>2!1 /\ <1>2!2
    <3> DEFINE r == [pipes[p] EXCEPT !.cancelled = TRUE]
    <3>1. pipes[p] \in Pipe
      BY <1>t
    <3>2. r \in Pipe /\ r.pc = pipes[p].pc /\ r.revision = pipes[p].revision /\ r.watch = pipes[p].watch
      BY Zenon, <3>1 DEF Pipe
    <3>3. pipes' = [pipes EXCEPT ![p] = r]
      BY Zenon, <2>2, <1>t
    <3> HIDE DEF r
    <3> QED
      BY <1>t, <3>2, <3>3
  <2> QED
    BY Zenon, <1>1, <2>1, <2>2
<1>3. /\ monitors' \in [Pipelines -> Monitor]
      /\ \A q \in Pipelines : monitors'[q].pc = monitors[q].pc /\ monitors'[q].wrote = monitors[q].wrote
  <2>1. CASE monitors' = monitors
    BY <2>1, <1>t
  <2>2. ASSUME NEW p \in Pipelines, monitors' = [monitors EXCEPT ![p].shutdownSeen = TRUE]
        PROVE  <1>3!1 /\ <1>3!2
    BY <2>2, <1>t DEF Monitor
  <2> QED
    BY Zenon, <1>1, <2>1, <2>2
<1>4. TypeOK'
  BY <1>1, <1>2, <1>3, <1>c DEF TypeOK
<1>5. Monitored'
  BY <1>1, <1>2, <1>3, <1>c DEF Monitored, Live
<1>6. OneTrackedMonitor'
  BY <1>1, <1>2, <1>3, <1>c DEF OneTrackedMonitor, Active, Tracked
<1>7. CommandInv'
  BY <1>1, <1>2, <1>3, <1>p, <1>c DEF CommandInv, StartInv, StopInv, Active, Live
<1>8. CancelledByStop'
  BY <1>1, <1>2, <1>3, <1>c DEF CancelledByStop, Active
<1>9. StatusInv'
  BY <1>1, <1>2, <1>3, <1>c DEF StatusInv, StatusSettled, Announced, Told, Publishing
<1>10. PipelineUsesStoredDefaults'
  BY <1>1, <1>2, <1>3, <1>c DEF PipelineUsesStoredDefaults, Live
<1> QED
  BY <1>4, <1>5, <1>6, <1>7, <1>8, <1>9, <1>10 DEF SupervisorInv

\* A monitor copies the status of its pipeline.
LEMMA CopyKeepsInv ==
  ASSUME SupervisorInv, NEW p \in Pipelines, CopyStatus(p)
  PROVE  SupervisorInv'
<1>c. /\ TypeOK /\ Monitored /\ OneTrackedMonitor /\ CommandInv /\ CancelledByStop /\ StatusInv
      /\ PipelineUsesStoredDefaults
  BY DEF SupervisorInv
<1>t. command \in Command /\ pipes \in [Pipelines -> Pipe] /\ monitors \in [Pipelines -> Monitor]
  BY <1>c DEF TypeOK
<1>p. command.name = "stop" /\ command.pc = "aborted" => command.pipe \in Pipelines
  BY <1>t, <1>c DEF CommandInv, StopInv, Command
<1>1. /\ monitors[p].pc = "watch" /\ status' = pipes[p].watch /\ status' # "STOPPED"
      /\ UNCHANGED <<requested, revision, announced, running, shutdown, command>>
  BY <1>c DEF CopyStatus, WriteStatus, Monitored, durable
<1>2. /\ \A q \in Pipelines : Active(q) => q = p
      /\ command.name # "update"
      /\ command.name = "start" => command.pc \notin {"launching", "launch publish"}
      /\ command.name = "stop" => command.pc \notin {"last write", "last publish"}
  BY <1>1, OneActive DEF Active
<1>3. /\ pipes' \in [Pipelines -> Pipe]
      /\ \A q \in Pipelines : /\ pipes'[q].pc = pipes[q].pc
                              /\ pipes'[q].revision = pipes[q].revision
                              /\ pipes'[q].cancelled = pipes[q].cancelled
                              /\ pipes'[q].watch # "STOPPED"
  <2> DEFINE r == [pipes[p] EXCEPT !.watch = Seen]
  <2>1. pipes[p] \in Pipe
    BY <1>t
  <2>2. /\ r \in Pipe /\ r.pc = pipes[p].pc /\ r.revision = pipes[p].revision
        /\ r.cancelled = pipes[p].cancelled /\ r.watch # "STOPPED"
    BY Zenon, <2>1 DEF Pipe, Seen
  <2>3. pipes' = [pipes EXCEPT ![p] = r]
    BY Zenon, <1>t DEF CopyStatus
  <2> HIDE DEF r
  <2> QED
    BY <1>t, <1>c, <2>2, <2>3 DEF Monitored
<1>4. status' \in Statuses
  <2>1. pipes[p] \in Pipe /\ pipes[p].watch # Seen
    BY <1>t DEF CopyStatus
  <2> QED
    BY <1>1, <2>1 DEF Pipe
<1>5. CASE status = pipes[p].watch
  <2>1. monitors' = monitors /\ status' = status
    BY <1>5, <1>1 DEF CopyStatus
  <2>2. TypeOK'
    BY <1>1, <1>3, <2>1, <1>c DEF TypeOK
  <2>3. Monitored'
    BY <1>1, <1>2, <1>3, <2>1, <1>c DEF Monitored, Live
  <2>4. OneTrackedMonitor'
    BY <1>1, <1>2, <1>3, <2>1, <1>c DEF OneTrackedMonitor, Active, Tracked
  <2>5. CommandInv'
    BY <1>1, <1>2, <1>3, <2>1, <1>p, <1>c DEF CommandInv, StartInv, StopInv, Active, Live
  <2>6. CancelledByStop'
    BY <1>1, <1>2, <1>3, <2>1, <1>c DEF CancelledByStop, Active
  <2>7. StatusInv'
    BY <1>1, <1>2, <1>3, <2>1, <1>c DEF StatusInv, StatusSettled, Announced, Told, Publishing
  <2>8. PipelineUsesStoredDefaults'
    BY <1>1, <1>2, <1>3, <2>1, <1>c DEF PipelineUsesStoredDefaults, Live
  <2> QED
    BY <2>2, <2>3, <2>4, <2>5, <2>6, <2>7, <2>8 DEF SupervisorInv
<1>6. CASE status # pipes[p].watch
  <2>1. monitors' = [monitors EXCEPT ![p].pc = "publish", ![p].wrote = pipes[p].watch]
    BY <1>6 DEF CopyStatus
  <2>2. /\ monitors' \in [Pipelines -> Monitor]
        /\ \A q \in Pipelines : q # p => monitors'[q] = monitors[q]
        /\ monitors'[p].pc = "publish" /\ monitors'[p].wrote = status'
    <3> DEFINE m == [monitors[p] EXCEPT !.pc = "publish", !.wrote = pipes[p].watch]
    <3>1. monitors[p] \in Monitor
      BY <1>t
    <3>2. m \in Monitor /\ m.pc = "publish" /\ m.wrote = status'
      BY Zenon, <3>1, <1>1, <1>4 DEF Monitor
    <3>3. monitors' = [monitors EXCEPT ![p] = m]
      BY Zenon, <2>1, <1>t
    <3> HIDE DEF m
    <3> QED
      BY <1>t, <3>2, <3>3
  <2>3. TypeOK'
    BY <1>1, <1>3, <1>4, <2>2, <1>c DEF TypeOK
  <2>4. Monitored'
    BY <1>1, <1>2, <1>3, <2>2, <1>c DEF Monitored, Live
  <2>5. OneTrackedMonitor'
    BY <1>1, <1>2, <1>3, <2>2, <1>c DEF OneTrackedMonitor, Active, Tracked
  <2>6. CommandInv'
    BY <1>1, <1>2, <1>3, <2>2, <1>p, <1>c DEF CommandInv, StartInv, StopInv, Active, Live
  <2>7. CancelledByStop'
    BY <1>1, <1>2, <1>3, <2>2, <1>c DEF CancelledByStop, Active
  <2>8. StatusInv'
    BY <1>1, <1>2, <1>3, <2>2, <1>c DEF StatusInv, StatusSettled, Announced, Told, Publishing, Active
  <2>9. PipelineUsesStoredDefaults'
    BY <1>1, <1>2, <1>3, <2>2, <1>c DEF PipelineUsesStoredDefaults, Live
  <2> QED
    BY <2>3, <2>4, <2>5, <2>6, <2>7, <2>8, <2>9 DEF SupervisorInv
<1> QED
  BY <1>5, <1>6

\* A monitor reports the end of its pipeline.
LEMMA EndKeepsInv ==
  ASSUME SupervisorInv, NEW p \in Pipelines, EndMonitor(p)
  PROVE  SupervisorInv'
<1>c. /\ TypeOK /\ Monitored /\ OneTrackedMonitor /\ CommandInv /\ CancelledByStop /\ StatusInv
      /\ PipelineUsesStoredDefaults
  BY DEF SupervisorInv
<1>t. command \in Command /\ pipes \in [Pipelines -> Pipe] /\ monitors \in [Pipelines -> Monitor]
  BY <1>c DEF TypeOK
<1>p. command.name = "stop" /\ command.pc = "aborted" => command.pipe \in Pipelines
  BY <1>t, <1>c DEF CommandInv, StopInv, Command
<1>1. /\ monitors[p].pc = "watch" /\ pipes[p].pc \in Ended /\ ~Live(p)
      /\ status' = FinalStatus(p) /\ FinalStatus(p) \in Statuses
      /\ FinalStatus(p) = "STOPPED" => pipes[p].cancelled
      /\ UNCHANGED <<requested, revision, announced, running, shutdown, command>>
  BY DEF EndMonitor, WriteStatus, FinalStatus, Statuses, Live, durable
<1>2. /\ \A q \in Pipelines : Active(q) => q = p
      /\ command.name # "update"
      /\ command.name = "start" => command.pc \notin {"launching", "launch publish"}
      /\ command.name = "stop" => command.pc \notin {"last write", "last publish"}
  BY <1>1, OneActive DEF Active
<1>3. ~shutdown /\ command.name = "stop" /\ command.pc = "stop publish" => status' # "STOPPED"
  BY <1>1, <1>c DEF CancelledByStop, Active
<1>4. CASE status = FinalStatus(p)
  <2>1. DropHandles(p) /\ status' = status
    BY <1>4, <1>1 DEF EndMonitor
  <2>2. /\ pipes' \in [Pipelines -> Pipe] /\ monitors' \in [Pipelines -> Monitor]
        /\ \A q \in Pipelines : q # p => pipes'[q] = pipes[q] /\ monitors'[q] = monitors[q]
        /\ ~Live(p)' /\ pipes'[p].watch # "STOPPED" /\ monitors'[p].pc = "done"
    BY <1>1, <2>1, <1>c, Dropped
  <2>3. TypeOK'
    BY <1>1, <2>1, <2>2, <1>c DEF TypeOK
  <2>4. Monitored'
    BY <1>1, <1>2, <2>1, <2>2, <1>c DEF Monitored, Live
  <2>5. OneTrackedMonitor'
    BY <1>1, <1>2, <2>1, <2>2, <1>c DEF OneTrackedMonitor, Active, Tracked
  <2>6. CommandInv'
    BY <1>1, <1>2, <2>1, <2>2, <1>p, <1>c DEF CommandInv, StartInv, StopInv, Active, Live
  <2>7. CancelledByStop'
    BY <1>1, <1>2, <2>1, <2>2, <1>c DEF CancelledByStop, Active
  <2>8. StatusInv'
    BY <1>1, <1>2, <2>1, <2>2, <1>c DEF StatusInv, StatusSettled, Announced, Told, Publishing, Active
  <2>9. PipelineUsesStoredDefaults'
    BY <1>1, <1>2, <2>1, <2>2, <1>c DEF PipelineUsesStoredDefaults, Live
  <2> QED
    BY <2>3, <2>4, <2>5, <2>6, <2>7, <2>8, <2>9 DEF SupervisorInv
<1>5. CASE status # FinalStatus(p)
  <2>1. pipes' = pipes /\ monitors' = [monitors EXCEPT ![p].pc = "last publish", ![p].wrote = FinalStatus(p)]
    BY Zenon, <1>5 DEF EndMonitor
  <2>2. /\ monitors' \in [Pipelines -> Monitor]
        /\ \A q \in Pipelines : q # p => monitors'[q] = monitors[q]
        /\ monitors'[p].pc = "last publish" /\ monitors'[p].wrote = FinalStatus(p)
    <3> DEFINE m == [monitors[p] EXCEPT !.pc = "last publish", !.wrote = FinalStatus(p)]
    <3>1. monitors[p] \in Monitor
      BY <1>t
    <3>2. m \in Monitor /\ m.pc = "last publish" /\ m.wrote = FinalStatus(p)
      BY Zenon, <3>1, <1>1 DEF Monitor, Statuses
    <3>3. monitors' = [monitors EXCEPT ![p] = m]
      BY Zenon, <2>1, <1>t
    <3> HIDE DEF m
    <3> QED
      BY <1>t, <3>2, <3>3
  <2>3. TypeOK'
    BY <1>1, <2>1, <2>2, <1>c DEF TypeOK
  <2>4. Monitored'
    BY <1>1, <1>2, <1>3, <2>1, <2>2, <1>c DEF Monitored, Live
  <2>5. OneTrackedMonitor'
    BY <1>1, <1>2, <1>3, <2>1, <2>2, <1>c DEF OneTrackedMonitor, Active, Tracked
  <2>6. CommandInv'
    BY <1>1, <1>2, <1>3, <2>1, <2>2, <1>p, <1>c DEF CommandInv, StartInv, StopInv, Active, Live
  <2>7. CancelledByStop'
    BY <1>1, <1>2, <1>3, <2>1, <2>2, <1>c DEF CancelledByStop, Active
  <2>8. StatusInv'
    BY <1>1, <1>2, <1>3, <2>1, <2>2, <1>c DEF StatusInv, StatusSettled, Announced, Told, Publishing, Active
  <2>9. PipelineUsesStoredDefaults'
    BY <1>1, <1>2, <1>3, <2>1, <2>2, <1>c DEF PipelineUsesStoredDefaults, Live
  <2> QED
    BY <2>3, <2>4, <2>5, <2>6, <2>7, <2>8, <2>9 DEF SupervisorInv
<1> QED
  BY <1>4, <1>5

\* A monitor that publishes what it has seen keeps the invariant: it is the tracked one, or
\* it is too late and writes nothing.
LEMMA PublishKeepsInv ==
  ASSUME SupervisorInv, NEW p \in Pipelines, MonitorPublishes(p)
  PROVE  SupervisorInv'
<1>c. /\ TypeOK /\ Monitored /\ OneTrackedMonitor /\ CommandInv /\ CancelledByStop /\ StatusInv
      /\ PipelineUsesStoredDefaults
  BY DEF SupervisorInv
<1>t. command \in Command /\ pipes \in [Pipelines -> Pipe] /\ monitors \in [Pipelines -> Monitor]
  BY <1>c DEF TypeOK
<1>p. command.name = "stop" /\ command.pc = "aborted" => command.pipe \in Pipelines
  BY <1>t, <1>c DEF CommandInv, StopInv, Command
<1>1. /\ monitors[p].pc \in {"publish", "last publish"} /\ announced' = monitors[p].wrote
      /\ UNCHANGED <<requested, revision, status, running, shutdown, command>>
  BY DEF MonitorPublishes, Publish, durable
<1>2. /\ \A q \in Pipelines : Active(q) => q = p
      /\ command.name # "update"
      /\ command.name = "start" => command.pc \notin {"launching", "launch publish"}
      /\ command.name = "stop" => command.pc \notin {"last write", "last publish"}
  BY <1>1, OneActive DEF Active
<1>3. announced' \in Statuses
  <2>1. monitors[p] \in Monitor
    BY <1>t
  <2> QED
    BY <1>1, <2>1 DEF Monitor
<1>4. CASE monitors[p].pc = "last publish"
  <2>1. DropHandles(p) /\ ~Live(p)
    BY <1>4, <1>c DEF MonitorPublishes, Monitored
  <2>2. /\ pipes' \in [Pipelines -> Pipe] /\ monitors' \in [Pipelines -> Monitor]
        /\ \A q \in Pipelines : q # p => pipes'[q] = pipes[q] /\ monitors'[q] = monitors[q]
        /\ ~Live(p)' /\ pipes'[p].watch # "STOPPED" /\ monitors'[p].pc = "done"
    BY <1>1, <2>1, <1>c, Dropped
  <2>3. TypeOK'
    BY <1>1, <1>3, <2>1, <2>2, <1>c DEF TypeOK
  <2>4. Monitored'
    BY <1>1, <1>2, <2>1, <2>2, <1>c DEF Monitored, Live
  <2>5. OneTrackedMonitor'
    BY <1>1, <1>2, <2>1, <2>2, <1>c DEF OneTrackedMonitor, Active, Tracked
  <2>6. CommandInv'
    BY <1>1, <1>2, <2>1, <2>2, <1>p, <1>c DEF CommandInv, StartInv, StopInv, Active, Live
  <2>7. CancelledByStop'
    BY <1>1, <1>2, <2>1, <2>2, <1>c DEF CancelledByStop, Active
  <2>8. StatusInv'
    BY <1>1, <1>2, <2>1, <2>2, <1>c DEF StatusInv, StatusSettled, Announced, Told, Publishing, Active
  <2>9. PipelineUsesStoredDefaults'
    BY <1>1, <1>2, <2>1, <2>2, <1>c DEF PipelineUsesStoredDefaults, Live
  <2> QED
    BY <2>3, <2>4, <2>5, <2>6, <2>7, <2>8, <2>9 DEF SupervisorInv
<1>5. CASE monitors[p].pc = "publish"
  <2>1. pipes' = pipes /\ monitors' = [monitors EXCEPT ![p].pc = "watch", ![p].wrote = "STOPPED"]
    BY Zenon, <1>5 DEF MonitorPublishes
  <2>2. /\ monitors' \in [Pipelines -> Monitor]
        /\ \A q \in Pipelines : q # p => monitors'[q] = monitors[q]
        /\ monitors'[p].pc = "watch" /\ monitors'[p].wrote = "STOPPED"
    <3> DEFINE m == [monitors[p] EXCEPT !.pc = "watch", !.wrote = "STOPPED"]
    <3>1. monitors[p] \in Monitor
      BY <1>t
    <3>2. m \in Monitor /\ m.pc = "watch" /\ m.wrote = "STOPPED"
      BY Zenon, <3>1, <1>1 DEF Monitor, Statuses
    <3>3. monitors' = [monitors EXCEPT ![p] = m]
      BY Zenon, <2>1, <1>t
    <3> HIDE DEF m
    <3> QED
      BY <1>t, <3>2, <3>3
  <2>3. TypeOK'
    BY <1>1, <1>3, <2>1, <2>2, <1>c DEF TypeOK
  <2>4. Monitored'
    BY <1>1, <1>2, <2>1, <2>2, <1>c DEF Monitored, Live
  <2>5. OneTrackedMonitor'
    BY <1>1, <1>2, <2>1, <2>2, <1>c DEF OneTrackedMonitor, Active, Tracked
  <2>6. CommandInv'
    BY <1>1, <1>2, <2>1, <2>2, <1>p, <1>c DEF CommandInv, StartInv, StopInv, Active, Live
  <2>7. CancelledByStop'
    BY <1>1, <1>2, <2>1, <2>2, <1>c DEF CancelledByStop, Active
  <2>8. StatusInv'
    BY <1>1, <1>2, <2>1, <2>2, <1>c DEF StatusInv, StatusSettled, Announced, Told, Publishing, Active
  <2>9. PipelineUsesStoredDefaults'
    BY <1>1, <1>2, <2>1, <2>2, <1>c DEF PipelineUsesStoredDefaults, Live
  <2> QED
    BY <2>3, <2>4, <2>5, <2>6, <2>7, <2>8, <2>9 DEF SupervisorInv
<1> QED
  BY <1>1, <1>4, <1>5

\* The process ends and starts again.
LEMMA RestartKeepsInv ==
  ASSUME SupervisorInv, RestartProcess
  PROVE  SupervisorInv'
<1>c. /\ TypeOK /\ Monitored /\ OneTrackedMonitor /\ CommandInv /\ CancelledByStop /\ StatusInv
      /\ PipelineUsesStoredDefaults
  BY DEF SupervisorInv
<1>t. command \in Command /\ pipes \in [Pipelines -> Pipe] /\ monitors \in [Pipelines -> Monitor]
  BY <1>c DEF TypeOK
<1>r. PICK resumed \in BOOLEAN : ComeUp(resumed)
  BY DEF RestartProcess
<1>1. /\ shutdown' = FALSE /\ command' = NoCommand /\ announced' = status'
      /\ status' \in Statuses /\ UNCHANGED <<requested, revision>>
  BY <1>r DEF ComeUp, Statuses, durable
<1>2. command' \in Command /\ command'.name = "none" /\ command'.pipe = NoPipeline
  BY <1>1 DEF NoCommand, Command
<1>3. PICK l \in Pipelines \cup {NoPipeline} : /\ running' = l
                                              /\ \A p \in Pipelines : resumed /\ Launch(p) <=> p = l
  <2>1. CASE resumed
    <3>1. PICK l \in Pipelines : Launch(l)
      BY <1>r, <2>1 DEF ComeUp
    <3>2. \A p \in Pipelines : Launch(p) => p = l
      BY <3>1 DEF Launch, Pipelines
    <3>3. running' = l
      BY <2>1, <3>1, <3>2, <1>r DEF ComeUp
    <3> QED
      BY <2>1, <3>1, <3>2, <3>3
  <2>2. CASE ~resumed
    BY <1>r, <2>2 DEF ComeUp, NoPipeline, Pipelines
  <2> QED
    BY <2>1, <2>2
<1> DEFINE first == [AbsentPipe EXCEPT !.pc = "top", !.revision = revision]
           watcher == [AbsentMonitor EXCEPT !.pc = "watch"]
<1>4. ASSUME NEW p \in Pipelines
      PROVE  /\ p = l => pipes'[p] = first /\ monitors'[p] = watcher
             /\ p # l => /\ pipes'[p] = GonePipe \/ pipes'[p] = AbsentPipe
                         /\ monitors'[p] = GoneMonitor \/ monitors'[p] = AbsentMonitor
  <2> HIDE DEF first, watcher
  <2>1. /\ pipes'[p] = CASE resumed /\ Launch(p) -> first
                         [] pipes[p].pc # "absent" -> GonePipe
                         [] OTHER -> AbsentPipe
        /\ monitors'[p] = CASE resumed /\ Launch(p) -> watcher
                            [] pipes[p].pc # "absent" -> GoneMonitor
                            [] OTHER -> AbsentMonitor
    BY Zenon, <1>r DEF ComeUp, first, watcher
  <2>2. CASE p = l
    <3>1. resumed /\ Launch(p) /\ pipes[p].pc = "absent"
      BY <1>3, <2>2 DEF Launch
    <3> QED
      BY <2>1, <2>2, <3>1
  <2>3. CASE p # l
    <3>1. ~(resumed /\ Launch(p))
      BY <1>3, <2>3
    <3> QED
      BY <2>1, <2>3, <3>1
  <2> QED
    BY <2>2, <2>3
<1>g. /\ first \in Pipe /\ first.watch = Seen /\ first.cancelled = FALSE /\ first.pc = "top"
      /\ first.revision = revision
      /\ GonePipe \in Pipe /\ GonePipe.watch = Seen /\ GonePipe.cancelled = FALSE /\ GonePipe.pc = "stopped"
      /\ AbsentPipe \in Pipe /\ AbsentPipe.watch = Seen /\ AbsentPipe.cancelled = FALSE
      /\ AbsentPipe.pc = "absent"
  <2>1. revision \in Nat
    BY <1>c DEF TypeOK
  <2> QED
    BY <2>1 DEF AbsentPipe, GonePipe, Pipe, Seen, Ended
<1>m. /\ watcher \in Monitor /\ watcher.pc = "watch"
      /\ GoneMonitor \in Monitor /\ GoneMonitor.pc = "done"
      /\ AbsentMonitor \in Monitor /\ AbsentMonitor.pc = "absent"
  BY DEF AbsentMonitor, GoneMonitor, Monitor, Statuses
<1> HIDE DEF first, watcher
<1>5. \A p \in Pipelines :
         /\ pipes'[p] \in Pipe /\ pipes'[p].watch = Seen /\ pipes'[p].cancelled = FALSE
         /\ monitors'[p] \in Monitor
         /\ p = l => /\ pipes'[p].pc = "top" /\ pipes'[p].revision = revision
                     /\ monitors'[p].pc = "watch"
         /\ p # l => pipes'[p].pc \in {"stopped", "absent"} /\ monitors'[p].pc \in {"done", "absent"}
  BY <1>4, <1>g, <1>m
<1>6. TypeOK'
  <2>1. pipes' \in [Pipelines -> Pipe] /\ monitors' \in [Pipelines -> Monitor]
    BY <1>r, <1>5 DEF ComeUp
  <2> QED
    BY Zenon, <1>1, <1>2, <1>3, <2>1, <1>c DEF TypeOK
<1>7. Monitored'
  BY <1>1, <1>2, <1>3, <1>5, <1>c DEF Monitored, Live, Seen, Ended
<1>8. OneTrackedMonitor'
  BY <1>1, <1>2, <1>3, <1>5, <1>c DEF OneTrackedMonitor, Active, Tracked, Pipelines, NoPipeline
<1>9. CommandInv'
  BY <1>1, <1>2, <1>3, <1>5, <1>c DEF CommandInv, StartInv, StopInv, Active, Live
<1>10. CancelledByStop'
  BY <1>1, <1>2, <1>3, <1>5, <1>c DEF CancelledByStop, Active
<1>11. StatusInv'
  BY <1>1, <1>2, <1>3, <1>5, <1>c DEF StatusInv, StatusSettled, Announced, Told, Publishing
<1>12. PipelineUsesStoredDefaults'
  BY <1>1, <1>2, <1>3, <1>5, <1>c DEF PipelineUsesStoredDefaults, Live, Ended
<1> QED
  BY <1>6, <1>7, <1>8, <1>9, <1>10, <1>11, <1>12 DEF SupervisorInv

\* Every step keeps the invariant.
LEMMA NextKeepsInv ==
  ASSUME SupervisorInv, ~StopDisconnects, [Next]_vars
  PROVE  SupervisorInv'
<1>1. CASE Start \/ LaunchPipeline \/ LoadDefaults \/ LoadDefaultsFails \/ StartReturns
  BY <1>1, StartKeepsInv
<1>2. CASE Stop \/ TakeRunning \/ MonitorEnded \/ StopWritesStopped \/ StopReturns
  BY <1>2, StopKeepsInv
<1>3. CASE UpdatePrefilterDefaults \/ ReplaceDefaults \/ Disconnect
  BY <1>3, UpdateKeepsInv
<1>4. CASE \E p \in Pipelines : SpawnPipeline(p)
  BY <1>4, SpawnKeepsInv
<1>5. CASE StopWrites \/ StopPublishes
  BY <1>5, CancelKeepsInv
<1>6. CASE AbortAfterTimeout \/ AbortMonitor
  BY <1>6, AbortKeepsInv
<1>7. CASE Shutdown \/ \E p \in Pipelines : SeeShutdown(p)
  BY <1>7, ShutdownKeepsInv
<1>8. CASE RestartProcess
  BY <1>8, RestartKeepsInv
<1>9. CASE \E p \in Pipelines : PipelineStep(p)
  BY <1>9, StepMoves, MovesKeepInv DEF SupervisorInv
<1>10. CASE \E p \in Pipelines : CopyStatus(p) \/ EndMonitor(p) \/ MonitorPublishes(p)
  BY <1>10, CopyKeepsInv, EndKeepsInv, PublishKeepsInv
<1>11. CASE UNCHANGED vars
  BY <1>11 DEF vars, durable, shared, SupervisorInv, TypeOK, Monitored, OneTrackedMonitor, CommandInv,
     StartInv, StopInv, CancelledByStop, StatusInv, StatusSettled, Announced, Told, Publishing, Active, Live,
     Tracked, PipelineUsesStoredDefaults
<1> QED
  BY Zenon, <1>1, <1>2, <1>3, <1>4, <1>5, <1>6, <1>7, <1>8, <1>9, <1>10, <1>11
     DEF Next, Client, CommandStep, MonitorStep

\* The supervisor keeps its invariant, whatever the number of launches, as long
\* as the client of a Stop waits for its answer.
THEOREM SupervisorInvariant ==
  ASSUME ~StopDisconnects
  PROVE  Spec => []SupervisorInv
<1>1. Init => SupervisorInv
  BY InitSupervisorInv
<1>2. SupervisorInv /\ [Next]_vars => SupervisorInv'
  BY NextKeepsInv
<1> QED
  BY <1>1, <1>2, PTL DEF Spec

\* launch_pipeline and stop between them never lose sight of a pipeline
\* that runs: it is in the cell or in the hands of the Stop in progress.
THEOREM OneTrackedPipelineAlways ==
  ASSUME ~StopDisconnects
  PROVE  Spec => []OneTrackedPipeline
<1>1. SupervisorInv => OneTrackedPipeline
  BY DEF SupervisorInv, Monitored, OneTrackedMonitor, Active, OneTrackedPipeline
<1> QED
  BY <1>1, SupervisorInvariant, PTL

\* update_prefilter_defaults replaces the row only while no pipeline runs, and
\* launch_pipeline hands a pipeline the row as it is stored.
THEOREM StoredDefaultsAlways ==
  ASSUME ~StopDisconnects
  PROVE  Spec => []PipelineUsesStoredDefaults
<1>1. SupervisorInv => PipelineUsesStoredDefaults
  BY DEF SupervisorInv
<1> QED
  BY <1>1, SupervisorInvariant, PTL

\* set_status publishes after releasing the lock of the cell: still, when the
\* command and the monitors are between two statuses, the last event is the status.
THEOREM LastEventIsStatusAlways ==
  ASSUME ~StopDisconnects
  PROVE  Spec => []LastEventIsStatus
<1>1. SupervisorInv => LastEventIsStatus
  BY DEF SupervisorInv, StatusInv, StatusSettled, Announced, Told, Publishing, LastEventIsStatus, Quiet
<1> QED
  BY <1>1, SupervisorInvariant, PTL

\* A step that ends a Stop is its last write, its last publication or the end of
\* the process.
LEMMA StopEnds ==
  ASSUME SupervisorInv, ~StopDisconnects, Next, command.name = "stop", command'.name = "none"
  PROVE  StopWritesStopped \/ StopReturns \/ RestartProcess
<1>t. command \in Command
  BY DEF SupervisorInv, TypeOK
<1>1. ~Client
  BY Zenon DEF Client, Start, Stop, UpdatePrefilterDefaults, Disconnect, LoadDefaultsFails, Begin, At
<1>2. ~Shutdown /\ \A p \in Pipelines : ~PipelineStep(p)
  <2>1. ~Shutdown
    BY DEF Shutdown
  <2>2. \A p \in Pipelines : PipelineStep(p) => command' = command
    BY StepMoves DEF PipelineMoves, SupervisorInv
  <2> QED
    BY <2>1, <2>2
<1>3. \A p \in Pipelines : ~MonitorStep(p)
  BY DEF MonitorStep, SeeShutdown, CopyStatus, EndMonitor, MonitorPublishes
<1>4. ~(LaunchPipeline \/ LoadDefaults \/ StartReturns \/ ReplaceDefaults)
  BY Zenon DEF LaunchPipeline, LoadDefaults, StartReturns, ReplaceDefaults, At
<1>5. \A p \in Pipelines : ~SpawnPipeline(p)
  BY Zenon DEF SpawnPipeline, At
<1>6. ~TakeRunning
  BY <1>t DEF TakeRunning, Command
<1>7. ~StopWrites
  BY <1>t DEF StopWrites, Goto, Command
<1>8. ~StopPublishes
  BY <1>t DEF StopPublishes, Goto, Command
<1>9. ~MonitorEnded
  BY <1>t DEF MonitorEnded, Goto, Command
<1>10. ~AbortAfterTimeout
  BY <1>t DEF AbortAfterTimeout, Goto, Command
<1>11. ~AbortMonitor
  BY <1>t DEF AbortMonitor, Goto, Command
<1> QED
  BY Zenon, <1>1, <1>2, <1>3, <1>4, <1>5, <1>6, <1>7, <1>8, <1>9, <1>10, <1>11 DEF Next, CommandStep

\* When stop returns, no pipeline runs and the status is STOPPED, whether the
\* monitor ended in time, the pipeline was aborted or the monitor was.
THEOREM StopLeavesNothingAlways ==
  ASSUME ~StopDisconnects
  PROVE  Spec => StopLeavesNothing
<1> DEFINE Step == (command.name = "stop" /\ command'.name = "none")
                     => status' = "STOPPED" /\ \A p \in Pipelines : ~Live(p)'
<1>1. ASSUME SupervisorInv, [Next]_vars PROVE [Step]_vars
  <2> SUFFICES ASSUME Next, command.name = "stop", command'.name = "none"
               PROVE  status' = "STOPPED" /\ \A p \in Pipelines : ~Live(p)'
    BY <1>1
  <2>1. StopWritesStopped \/ StopReturns \/ RestartProcess
    BY <1>1, StopEnds
  <2>2. CASE StopWritesStopped
    <3>1. status' = "STOPPED" /\ pipes' = pipes /\ command.pc = "last write"
      BY <2>2 DEF StopWritesStopped, At, WriteStatus
    <3> QED
      BY <1>1, <3>1 DEF SupervisorInv, CommandInv, StopInv, Monitored, Active, Live
  <2>3. CASE StopReturns
    <3>1. status' = status /\ pipes' = pipes /\ command.pc = "last publish"
      BY <2>3 DEF StopReturns, At
    <3> QED
      BY <1>1, <3>1 DEF SupervisorInv, CommandInv, StopInv, Monitored, Active, Live
  <2>4. CASE RestartProcess
    <3>1. ~requested
      BY <1>1 DEF SupervisorInv, CommandInv, StopInv
    <3>2. status' = "STOPPED" /\ running' = NoPipeline /\ command' = NoCommand
      BY <2>4, <3>1 DEF RestartProcess, ComeUp
    <3>3. SupervisorInv'
      BY <1>1, <2>4, RestartKeepsInv
    <3>4. OneTrackedMonitor' /\ Monitored' /\ command'.pipe = NoPipeline
      BY <3>2, <3>3 DEF SupervisorInv, NoCommand
    <3> QED
      BY <3>2, <3>4 DEF OneTrackedMonitor, Monitored, Active, Tracked
  <2> QED
    BY <2>1, <2>2, <2>3, <2>4
<1>2. SupervisorInv /\ [Next]_vars => [Step]_vars
  BY <1>1
<1> QED
  BY <1>2, SupervisorInvariant, PTL DEF Spec, StopLeavesNothing

-----------------------------------------------------------------------------

\* An event that will make the page read again is on its way, or will be sent when
\* it connects.
Underway ==
    \/ bus.sleeping > 0 \/ bus.halfway > 0
    \/ ~stream.open \/ stream.initial \/ stream.lagged \/ stream.events > 0

\* A run of the reader has a read ahead.
WillRead(r) == r.read = "sent" \/ (r.read # "none" /\ r.queued)

\* The page will read again, holds an answer that is new enough, or has shown or
\* missed what was announced.
Reading ==
    \/ WillRead(reader)
    \/ turn.busy /\ turn.queued
    \/ reader.read = "answered" /\ (reader.failed \/ reader.answer >= published)
    \/ reader.read = "none" /\ (reader.missed >= published \/ page.shown >= published)

\* The flag says that a task sleeps, and it announces what was committed.  The
\* last announced change is shown or missed, or something leads to it.
LiveInv ==
    /\ LiveTypeOK
    /\ published <= sequence
    /\ bus.pending => bus.sleeping > 0
    /\ Underway \/ Reading

PageTypes == reader \in Reader /\ turn \in Turn /\ page \in Page

\* The page starts with its first read under way and the stream still closed.
LEMMA LiveInvInit == LiveInit => LiveInv
<1> SUFFICES ASSUME LiveInit PROVE LiveInv
  OBVIOUS
<1>1. sequence \in Nat /\ published \in Nat /\ published <= sequence
  BY DEF LiveInit
<1>2. bus \in Bus /\ ~bus.pending
  BY DEF LiveInit, Bus
<1>3. stream \in Stream /\ ~stream.open
  BY LiveAssumption DEF LiveInit, Stream, ClosedStream
<1>4. reader \in Reader
  BY DEF LiveInit, Reader
<1>5. turn \in Turn /\ page \in Page
  BY DEF LiveInit, Turn, NewTurn, Page
<1> QED  BY <1>1, <1>2, <1>3, <1>4, <1>5 DEF LiveInv, LiveTypeOK, Underway

\* A refresh leads to a read, whatever is under way.
LEMMA RefreshReads ==
    ASSUME NEW r \in Reader
    PROVE  Refresh(r) \in Reader /\ WillRead(Refresh(r))
BY Zenon DEF Refresh, Reader, WillRead

\* A new turn of refreshAll leads to a read.
LEMMA TurnStarts ==
    ASSUME NEW r \in Reader, NEW p \in Page, StartTurn(r, p)
    PROVE  PageTypes' /\ WillRead(reader')
<1>1. turn' \in Turn
  BY DEF StartTurn, NewTurn, Turn
<1>2. reader' \in Reader /\ WillRead(reader')
  BY RefreshReads DEF StartTurn
<1>3. page' \in Page
  BY Zenon DEF StartTurn, Page
<1> QED  BY <1>1, <1>2, <1>3 DEF PageTypes

\* So does a call of refreshAll, perhaps after the turn in progress.
LEMMA RefreshAllReads ==
    ASSUME PageTypes, RefreshAll
    PROVE  PageTypes' /\ (WillRead(reader') \/ (turn'.busy /\ turn'.queued))
<1>1. CASE turn.busy
  <2>1. turn' = [turn EXCEPT !.queued = TRUE] /\ reader' = reader /\ page' = page
    BY <1>1 DEF RefreshAll
  <2> QED  BY Zenon, <1>1, <2>1 DEF PageTypes, Turn
<1>2. CASE ~turn.busy
  BY <1>2, TurnStarts DEF RefreshAll, PageTypes
<1> QED  BY <1>1, <1>2

\* The end of a turn leaves the reader and the snapshot alone, or leads to a read
\* if refreshAll was called meanwhile.
LEMMA TurnEnds ==
    ASSUME NEW result, NEW r \in Reader, NEW p \in Page, EndTurn(result, r, p)
    PROVE  /\ PageTypes'
           /\ \/ WillRead(reader')
              \/ ~turn.queued /\ reader' = r /\ page'.shown = p.shown
<1>1. PICK connected \in {p.connected} \cup BOOLEAN :
        LET told == [p EXCEPT !.error = (result = "rejected"), !.connected = connected,
                              !.ticket = IF @ = "all" THEN "none" ELSE @]
        IN  IF turn.queued THEN StartTurn(r, told)
            ELSE turn' = NoTurn /\ reader' = r /\ page' = told
  BY Zenon DEF EndTurn
<1> DEFINE wrong == result = "rejected"
           ticket == IF p.ticket = "all" THEN "none" ELSE p.ticket
           told == [p EXCEPT !.error = wrong, !.connected = connected, !.ticket = ticket]
<1>2. IF turn.queued THEN StartTurn(r, told)
      ELSE turn' = NoTurn /\ reader' = r /\ page' = told
  BY <1>1
<1>3. wrong \in BOOLEAN
  OBVIOUS
<1>4. ticket \in {"none", "all", "stream"} /\ connected \in BOOLEAN
  BY DEF Page
<1> HIDE DEF wrong, ticket
<1>5. told \in Page /\ told.shown = p.shown
  BY Zenon, <1>3, <1>4 DEF Page
<1> HIDE DEF told
<1>6. CASE turn.queued
  BY <1>2, <1>5, <1>6, TurnStarts
<1>7. CASE ~turn.queued
  <2>1. NoTurn \in Turn
    BY DEF NoTurn, Turn
  <2>2. turn' = NoTurn /\ reader' = r /\ page' = told
    BY Zenon, <1>2, <1>7
  <2> QED  BY Zenon, <1>5, <1>7, <2>1, <2>2 DEF PageTypes
<1> QED  BY <1>6, <1>7

\* Sending an event leaves one to receive, or makes the receiver resynchronise.
LEMMA SendArrives ==
    ASSUME stream \in Stream, SendEvent
    PROVE  /\ stream' \in Stream
           /\ ~stream'.open \/ stream'.lagged \/ stream'.events > 0
<1>1. CASE ~stream.open
  BY <1>1 DEF SendEvent
<1>2. CASE stream.open /\ stream.events = Buffer
  <2>1. stream' = [stream EXCEPT !.lagged = TRUE]
    BY <1>2 DEF SendEvent
  <2> QED  BY Zenon, <2>1 DEF Stream
<1>3. CASE stream.open /\ stream.events # Buffer
  <2>1. stream' = [stream EXCEPT !.events = @ + 1]
    BY <1>3 DEF SendEvent
  <2>2. stream.events + 1 \in 0..Buffer /\ stream.events + 1 > 0
    BY <1>3, LiveAssumption DEF Stream
  <2> QED  BY <2>1, <2>2 DEF Stream
<1> QED  BY <1>1, <1>2, <1>3

\* What is shown after an answer is at least what was shown, and at least an answer
\* that did not fail.
LEMMA ShownGrows ==
    ASSUME reader \in Reader, page \in Page
    PROVE  /\ Shown \in Nat \cup {-1}
           /\ ~reader.failed => Shown >= reader.answer
           /\ Shown >= page.shown
BY DEF Shown, Reader, Page

\* The end of a run: what it read is shown or missed, or a turn leads to a new read.
LEMMA RunEnds ==
    ASSUME PageTypes, published \in Nat, EndRun
    PROVE  PageTypes' /\ (Reading => Reading')
<1> DEFINE outcome == IF reader.failed THEN "rejected" ELSE "fulfilled"
           missed == IF reader.failed THEN published ELSE -1
           error == IF reader.awaited THEN reader.failed ELSE page.error
           r == [read |-> "none", answer |-> 0, failed |-> FALSE, queued |-> FALSE,
                 awaited |-> FALSE, missed |-> missed]
           p == [page EXCEPT !.shown = Shown, !.error = error]
<1>1. /\ reader.read = "answered" /\ ~reader.queued
      /\ \/ EndTurn(outcome, r, p)
         \/ /\ turn' = [turn EXCEPT !.discovery = outcome]
            /\ reader' = r /\ page' = p
         \/ reader' = r /\ page' = p /\ turn' = turn
      /\ published' = published
  BY DEF EndRun, serverSide
<1>2. missed \in Nat \cup {-1} /\ (reader.failed => missed >= published)
  OBVIOUS
<1>3. error \in BOOLEAN
  BY DEF PageTypes, Reader, Page
<1>4. outcome \in {"fulfilled", "rejected"}
  OBVIOUS
<1>5. Shown \in Nat \cup {-1} /\ (~reader.failed => Shown >= reader.answer)
  BY ShownGrows DEF PageTypes
<1> HIDE DEF outcome, missed, error
<1>6. r \in Reader /\ r.read = "none" /\ r.missed = missed
  BY <1>2 DEF Reader
<1>7. p \in Page /\ p.shown = Shown
  BY Zenon, <1>3, <1>5 DEF PageTypes, Page
<1>8. Reading => (turn.busy /\ turn.queued) \/ missed >= published \/ Shown >= published
  BY <1>1, <1>2, <1>5 DEF Reading, WillRead, PageTypes, Reader
<1> HIDE DEF r, p
<1>9. CASE EndTurn(outcome, r, p)
  <2>1. PageTypes' /\ (WillRead(reader') \/ (~turn.queued /\ reader' = r /\ page'.shown = p.shown))
    BY <1>6, <1>7, <1>9, TurnEnds
  <2> QED  BY <1>1, <1>6, <1>7, <1>8, <2>1 DEF Reading
<1>10. ASSUME turn' \in Turn, turn'.busy = turn.busy, turn'.queued = turn.queued,
              reader' = r, page' = p
       PROVE  PageTypes' /\ (Reading => Reading')
  BY <1>1, <1>6, <1>7, <1>8, <1>10 DEF Reading, PageTypes
<1>11. CASE turn' = [turn EXCEPT !.discovery = outcome] /\ reader' = r /\ page' = p
  <2>1. turn' \in Turn /\ turn'.busy = turn.busy /\ turn'.queued = turn.queued
    BY Zenon, <1>4, <1>11 DEF PageTypes, Turn
  <2> QED  BY <1>10, <1>11, <2>1
<1>12. CASE reader' = r /\ page' = p /\ turn' = turn
  BY <1>10, <1>12 DEF PageTypes
<1> QED  BY <1>1, <1>9, <1>11, <1>12

\* Every step of the bus, the SSE response and the page keeps the invariant.
LEMMA LiveInvStep == ASSUME LiveInv, [LiveNext]_liveVars PROVE LiveInv'
<1> USE DEF LiveInv, LiveTypeOK
<1>0. PageTypes
  BY DEF PageTypes
<1>1. CASE CommitChange
  BY <1>1 DEF CommitChange, browserSide, Underway, Reading, WillRead
<1>2. CASE PublishDiscoveryProjectionChanged
  <2>1. CASE bus.pending
    BY <1>2, <2>1 DEF PublishDiscoveryProjectionChanged, browserSide, Underway
  <2>2. CASE ~bus.pending
    <3>1. bus' = [pending |-> TRUE, sleeping |-> bus.sleeping + 1, halfway |-> bus.halfway]
      BY Zenon, <1>2, <2>2 DEF PublishDiscoveryProjectionChanged, Bus
    <3>2. bus' \in Bus /\ bus'.sleeping > 0
      BY <3>1 DEF Bus
    <3> QED  BY <1>2, <3>2 DEF PublishDiscoveryProjectionChanged, browserSide, Underway
  <2> QED  BY <2>1, <2>2
<1>3. CASE Invalidate
  <2>1. CASE /\ bus.sleeping > 0
             /\ bus' = [pending |-> FALSE, sleeping |-> bus.sleeping - 1,
                        halfway |-> bus.halfway + 1]
             /\ UNCHANGED stream
    <3>1. bus' \in Bus /\ ~bus'.pending /\ bus'.halfway > 0
      BY <2>1 DEF Bus
    <3> QED  BY <1>3, <2>1, <3>1 DEF Invalidate, browserSide, Underway
  <2>2. CASE /\ bus.halfway > 0
             /\ bus' = [bus EXCEPT !.halfway = @ - 1]
             /\ SendEvent
    <3>1. bus' \in Bus /\ bus'.pending = bus.pending /\ bus'.sleeping = bus.sleeping
      BY <2>2 DEF Bus
    <3> QED  BY <1>3, <2>2, <3>1, SendArrives DEF Invalidate, browserSide, Underway
  <2> QED  BY <1>3, <2>1, <2>2 DEF Invalidate
<1>4. ASSUME PageTypes', stream' \in Stream, UNCHANGED serverSide,
             Underway' \/ Reading'
      PROVE  LiveInv'
  BY <1>4 DEF PageTypes, serverSide
<1>5. CASE Connect \/ LoseConnection \/ ReceiveResync
  <2>1. RefreshAll /\ UNCHANGED serverSide
    BY <1>5 DEF Connect, LoseConnection, ReceiveResync
  <2>2. stream' \in Stream
    <3>1. 0 \in 0..Buffer
      BY LiveAssumption
    <3>2. ClosedStream \in Stream
      BY <3>1 DEF ClosedStream, Stream
    <3>3. [ClosedStream EXCEPT !.open = TRUE, !.initial = TRUE] \in Stream
      BY Zenon, <3>2 DEF Stream
    <3>4. [stream EXCEPT !.initial = FALSE] \in Stream /\ [stream EXCEPT !.lagged = FALSE] \in Stream
      BY Zenon DEF Stream
    <3> QED  BY Zenon, <1>5, <3>2, <3>3, <3>4 DEF Connect, LoseConnection, ReceiveResync
  <2>3. PageTypes' /\ Reading'
    BY <1>0, <2>1, RefreshAllReads DEF Reading
  <2> QED  BY <1>4, <2>1, <2>2, <2>3
<1>6. CASE ReceiveChange
  <2>1. stream' \in Stream
    <3>0. stream.events \in 0..Buffer /\ stream.events > 0
      BY <1>6 DEF ReceiveChange, Stream
    <3>1. stream.events - 1 \in 0..Buffer
      BY <3>0, LiveAssumption
    <3> QED  BY <1>6, <3>1 DEF ReceiveChange, Stream
  <2>2. Refresh(reader) \in Reader /\ WillRead(Refresh(reader))
    BY RefreshReads
  <2>3. reader' = [Refresh(reader) EXCEPT !.awaited = TRUE]
    BY <1>6 DEF ReceiveChange
  <2>4. reader' \in Reader /\ WillRead(reader')
    BY Zenon, <2>2, <2>3 DEF Reader, WillRead
  <2> QED  BY <1>4, <1>6, <2>1, <2>4 DEF ReceiveChange, Reading, PageTypes
<1>7. CASE RefreshStream \/ EndRefreshStream
  <2>1. page' \in Page /\ page'.shown = page.shown
    BY Zenon, <1>7 DEF RefreshStream, EndRefreshStream, Page
  <2>2. UNCHANGED <<serverSide, stream, reader, turn>>
    BY Zenon, <1>7 DEF RefreshStream, EndRefreshStream
  <2>3. (Underway \/ Reading) => (Underway' \/ Reading')
    BY <2>1, <2>2 DEF serverSide, Underway, Reading, WillRead
  <2> QED  BY <1>4, <2>1, <2>2, <2>3 DEF PageTypes
<1>8. CASE LoadDiscoverySnapshot
  <2>1. /\ reader' \in Reader /\ reader'.read = "answered" /\ reader'.answer = sequence
    BY Zenon, <1>8 DEF LoadDiscoverySnapshot, Reader
  <2> QED  BY <1>4, <1>8, <2>1 DEF LoadDiscoverySnapshot, serverSide, Reading, PageTypes
<1>9. CASE ReadFails
  <2>1. 0 \in Nat
    OBVIOUS
  <2>2. reader' \in Reader /\ reader'.read = "answered" /\ reader'.failed
    BY Zenon, <1>9, <2>1 DEF ReadFails, Reader
  <2> QED  BY <1>4, <1>9, <2>2 DEF ReadFails, serverSide, Reading, PageTypes
<1>10. CASE ReadAgain
  <2>1. 0 \in Nat
    OBVIOUS
  <2>2. reader' \in Reader /\ reader'.read = "sent"
    BY Zenon, <1>10, <2>1 DEF ReadAgain, Reader
  <2>3. page' \in Page
    BY Zenon, <1>10, ShownGrows DEF ReadAgain, Page
  <2> QED  BY <1>4, <1>10, <2>2, <2>3 DEF ReadAgain, Reading, WillRead, PageTypes
<1>11. CASE EndRun
  <2>1. PageTypes' /\ (Reading => Reading')
    BY <1>0, <1>11, RunEnds
  <2>2. UNCHANGED <<serverSide, stream>>
    BY <1>11 DEF EndRun
  <2> QED  BY <1>4, <2>1, <2>2 DEF serverSide, Underway
<1>12. CASE OthersSettle
  <2>1. UNCHANGED <<serverSide, stream>>
    BY <1>12 DEF OthersSettle
  <2>2. CASE turn' = [turn EXCEPT !.others = "done"] /\ UNCHANGED <<reader, page>>
    <3>1. turn' \in Turn /\ turn'.busy = turn.busy /\ turn'.queued = turn.queued
      BY Zenon, <2>2 DEF Turn
    <3>2. (Underway \/ Reading) => (Underway' \/ Reading')
      BY <2>1, <2>2, <3>1 DEF serverSide, Underway, Reading, WillRead
    <3> QED  BY <1>4, <2>1, <2>2, <3>1, <3>2 DEF PageTypes
  <2>3. CASE EndTurn(turn.discovery, reader, page)
    <3>1. /\ PageTypes'
          /\ \/ WillRead(reader')
             \/ ~turn.queued /\ reader' = reader /\ page'.shown = page.shown
      BY <2>3, TurnEnds
    <3>2. (Underway \/ Reading) => (Underway' \/ Reading')
      BY <2>1, <3>1 DEF serverSide, Underway, Reading, WillRead
    <3> QED  BY <1>4, <2>1, <3>1, <3>2
  <2> QED  BY <1>12, <2>2, <2>3 DEF OthersSettle
<1>13. CASE UNCHANGED liveVars
  BY <1>13 DEF liveVars, Underway, Reading, WillRead
<1> QED  BY <1>1, <1>2, <1>3, <1>5, <1>6, <1>7, <1>8, <1>9, <1>10, <1>11, <1>12, <1>13
         DEF LiveNext

\* Whatever the bursts of changes, the lost connections, the lags and the failed
\* reads: with publish_discovery_projection_changed, events.rs and the refresh of
\* discoveryRefresh.ts, a page on which nothing is under way shows the last announced
\* change, unless a run that ended after the announcement was rejected.
THEOREM NothingLost == LiveSpec => []NoChangeIsLost
<1>1. LiveInv => NoChangeIsLost
  BY DEF LiveInv, LiveTypeOK, Underway, Reading, WillRead, NoChangeIsLost, Settled, Bus, Stream
<1> QED  BY <1>1, LiveInvInit, LiveInvStep, PTL DEF LiveSpec
=============================================================================

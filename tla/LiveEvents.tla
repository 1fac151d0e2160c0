---------------------------- MODULE LiveEvents ----------------------------
(***************************************************************************)
(* How a change of the discovery projection reaches a browser: the         *)
(* coalescing event bus (apps/server/src/state.rs), the SSE response       *)
(* (http/routes/events.rs) and the page of the web app: the single-flight  *)
(* reader of lib/soldisco-api/discoveryRefresh.ts and the refreshes of     *)
(* components/dashboard/useDiscoveryBackend.ts.  An event carries no data: *)
(* it makes the page read the snapshot again, whose sequence tells how new *)
(* it is.  The page is one connection attempt, from its mount on.          *)
(***************************************************************************)
EXTENDS Integers

CONSTANTS
    MaxSequence,   \* bound on discovery_projection_state.sequence
    Buffer         \* LIVE_EVENT_BUFFER

ASSUME LiveAssumption == MaxSequence \in Nat /\ Buffer \in Nat \ {0}

VARIABLES
    sequence,   \* discovery_projection_state.sequence
    published,  \* the sequence at the last publish_discovery_projection_changed
    bus,        \* discovery_invalidation_pending and the spawned tasks
    stream,     \* the SSE response of the browser
    reader,     \* the refresh coordinator
    turn,       \* refreshAll
    page        \* what the page shows

serverSide == <<sequence, published, bus>>
browserSide == <<reader, turn, page>>
liveVars == <<sequence, published, bus, stream, reader, turn, page>>

\* Tasks sleep, or have cleared the flag and are about to publish.
Bus == [pending : BOOLEAN, sleeping : Nat, halfway : Nat]

\* Events sent and not received, whether the receiver lagged, and whether the
\* RESYNC_REQUIRED of the beginning is still to come.
Stream == [open : BOOLEAN, events : 0..Buffer, lagged : BOOLEAN, initial : BOOLEAN]

\* A read is on its way to the server or its answer on the way back; `awaited'
\* tells whether a refreshDiscovery waits for the run.  History: what had been
\* announced when the last run ended, if it was rejected (-1: it was not).
Reader ==
    [read : {"none", "sent", "answered"}, answer : Nat, failed : BOOLEAN, queued : BOOLEAN,
     awaited : BOOLEAN, missed : Nat \cup {-1}]

\* A turn of refreshAll waits for a run of the reader and for its two other reads.
Turn ==
    [busy : BOOLEAN, queued : BOOLEAN, others : {"pending", "done"},
     discovery : {"pending", "fulfilled", "rejected"}]

\* The snapshot (-1: none), errors.discovery, whether the connection is CONNECTED,
\* and which refresh has the last "connection" ticket ("none": it has ended).
Page ==
    [shown : Nat \cup {-1}, error : BOOLEAN, connected : BOOLEAN,
     ticket : {"none", "all", "stream"}]

LiveTypeOK ==
    /\ sequence \in Nat /\ published \in Nat
    /\ bus \in Bus
    /\ stream \in Stream
    /\ reader \in Reader /\ turn \in Turn /\ page \in Page

ClosedStream == [open |-> FALSE, events |-> 0, lagged |-> FALSE, initial |-> FALSE]
NewTurn == [busy |-> TRUE, queued |-> FALSE, others |-> "pending", discovery |-> "pending"]
NoTurn == [busy |-> FALSE, queued |-> FALSE, others |-> "done", discovery |-> "fulfilled"]

\* The page has just been mounted and has called refreshAll.
LiveInit ==
    /\ sequence = 0 /\ published = 0
    /\ bus = [pending |-> FALSE, sleeping |-> 0, halfway |-> 0]
    /\ stream = ClosedStream
    /\ reader = [read |-> "sent", answer |-> 0, failed |-> FALSE, queued |-> FALSE,
                 awaited |-> FALSE, missed |-> -1]
    /\ turn = NewTurn
    /\ page = [shown |-> -1, error |-> FALSE, connected |-> FALSE, ticket |-> "all"]

-----------------------------------------------------------------------------

\* A transaction commits; who made it announces it afterwards.
CommitChange ==
    /\ sequence < MaxSequence
    /\ sequence' = sequence + 1
    /\ UNCHANGED <<published, bus, stream, browserSide>>

\* publish_discovery_projection_changed: only the first of a burst spawns.
PublishDiscoveryProjectionChanged ==
    /\ published < sequence
    /\ published' = sequence
    /\ bus' = IF bus.pending THEN bus
              ELSE [bus EXCEPT !.pending = TRUE, !.sleeping = @ + 1]
    /\ UNCHANGED <<sequence, stream, browserSide>>

SendEvent ==
    stream' = IF ~stream.open THEN stream
              ELSE IF stream.events = Buffer THEN [stream EXCEPT !.lagged = TRUE]
              ELSE [stream EXCEPT !.events = @ + 1]

\* Mutant: the event is sent first and the flag cleared afterwards.
InvalidateThenClear ==
    /\ \/ /\ bus.sleeping > 0
          /\ bus' = [bus EXCEPT !.sleeping = @ - 1, !.halfway = @ + 1]
          /\ SendEvent
       \/ /\ bus.halfway > 0
          /\ bus' = [bus EXCEPT !.halfway = @ - 1, !.pending = FALSE]
          /\ UNCHANGED stream
    /\ UNCHANGED <<sequence, published, browserSide>>

\* The spawned task: after the delay it clears the flag, and then sends the
\* event; a change announced in between gets a task of its own.
Invalidate ==
    /\ \/ /\ bus.sleeping > 0
          /\ bus' = [pending |-> FALSE, sleeping |-> bus.sleeping - 1,
                     halfway |-> bus.halfway + 1]
          /\ UNCHANGED stream
       \/ /\ bus.halfway > 0
          /\ bus' = [bus EXCEPT !.halfway = @ - 1]
          /\ SendEvent
    /\ UNCHANGED <<sequence, published, browserSide>>

-----------------------------------------------------------------------------
(* What makes the page refresh.                                            *)


\* refresh: one read at a time; a request meanwhile makes it read again.
Refresh(r) == IF r.read # "none" THEN [r EXCEPT !.queued = TRUE] ELSE [r EXCEPT !.read = "sent"]

\* A turn of refreshAll draws a new ticket and reads everything.
StartTurn(r, p) ==
    /\ turn' = NewTurn
    /\ reader' = Refresh(r)
    /\ page' = [p EXCEPT !.ticket = "all"]

RefreshAll ==
    IF turn.busy
    THEN turn' = [turn EXCEPT !.queued = TRUE] /\ UNCHANGED <<reader, page>>
    ELSE StartTurn(reader, page)

\* A new connection is reported as OPEN, a lost one and every failed attempt at a
\* new one as RETRYING.
Connect ==
    /\ ~stream.open
    /\ stream' = [ClosedStream EXCEPT !.open = TRUE, !.initial = TRUE]
    /\ RefreshAll
    /\ UNCHANGED serverSide

LoseConnection ==
    /\ stream' = ClosedStream
    /\ RefreshAll
    /\ UNCHANGED serverSide

\* The receiver delivers RESYNC_REQUIRED first and after a lag.
ReceiveResync ==
    /\ stream.initial \/ stream.lagged
    /\ stream' = IF stream.initial THEN [stream EXCEPT !.initial = FALSE]
                 ELSE [stream EXCEPT !.lagged = FALSE]
    /\ RefreshAll
    /\ UNCHANGED serverSide

\* DISCOVERY_PROJECTION_CHANGED: refreshDiscovery.
ReceiveChange ==
    /\ ~stream.initial /\ ~stream.lagged /\ stream.events > 0
    /\ stream' = [stream EXCEPT !.events = @ - 1]
    /\ reader' = [Refresh(reader) EXCEPT !.awaited = TRUE]
    /\ UNCHANGED <<serverSide, turn, page>>

\* STREAM_STATUS_CHANGED, or the end of a command of the user.
RefreshStream ==
    /\ page' = [page EXCEPT !.ticket = "stream"]
    /\ UNCHANGED <<serverSide, stream, reader, turn>>

-----------------------------------------------------------------------------
(* What the answers do.                                                    *)

\* load_discovery_snapshot_bounded reads one consistent sequence.
LoadDiscoverySnapshot ==
    /\ reader.read = "sent"
    /\ reader' = [reader EXCEPT !.read = "answered", !.answer = sequence]
    /\ UNCHANGED <<serverSide, stream, turn, page>>

\* An error, or the timeout of the request.
ReadFails ==
    /\ reader.read # "none" /\ ~reader.failed
    /\ reader' = [reader EXCEPT !.read = "answered", !.answer = 0, !.failed = TRUE]
    /\ UNCHANGED <<serverSide, stream, turn, page>>

\* The end of a turn of refreshAll.  The error becomes that of the turn's own read
\* of discovery, whatever was read since; the connection is set if no later
\* refresh has drawn a ticket.  A refreshAll asked for meanwhile starts a new turn.
EndTurn(result, r, p) ==
    \E connected \in IF p.ticket # "all" THEN {p.connected}
                     ELSE IF result = "fulfilled" THEN {TRUE} ELSE BOOLEAN :
        LET told == [p EXCEPT !.error = (result = "rejected"), !.connected = connected,
                              !.ticket = IF @ = "all" THEN "none" ELSE @]
        IN  IF turn.queued THEN StartTurn(r, told)
            ELSE turn' = NoTurn /\ reader' = r /\ page' = told

\* A snapshot is shown unless it is older than the one shown.
Shown == IF ~reader.failed /\ reader.answer >= page.shown THEN reader.answer ELSE page.shown

\* One turn of the loop of run() ends and the next one begins.
ReadAgain ==
    /\ reader.read = "answered" /\ reader.queued
    /\ reader' = [reader EXCEPT !.read = "sent", !.answer = 0, !.failed = FALSE, !.queued = FALSE]
    /\ page' = [page EXCEPT !.shown = Shown]
    /\ UNCHANGED <<serverSide, stream, turn>>

\* run() ends with the outcome of its last read, and with it the refreshDiscovery
\* and the turn of refreshAll that wait for it.
EndRun ==
    /\ reader.read = "answered" /\ ~reader.queued
    /\ LET outcome == IF reader.failed THEN "rejected" ELSE "fulfilled"
           r == [read |-> "none", answer |-> 0, failed |-> FALSE, queued |-> FALSE,
                 awaited |-> FALSE, missed |-> IF reader.failed THEN published ELSE -1]
           p == [page EXCEPT !.shown = Shown,
                             !.error = IF reader.awaited THEN reader.failed ELSE @]
       IN  \/ /\ turn.discovery = "pending" /\ turn.others = "done"
              /\ EndTurn(outcome, r, p)
           \/ /\ turn.discovery = "pending" /\ turn.others = "pending"
              /\ turn' = [turn EXCEPT !.discovery = outcome]
              /\ reader' = r /\ page' = p
           \/ /\ turn.discovery # "pending"
              /\ reader' = r /\ page' = p /\ UNCHANGED turn
    /\ UNCHANGED <<serverSide, stream>>

\* The other two reads of refreshAll are answered or have failed.
OthersSettle ==
    /\ turn.others = "pending"
    /\ \/ /\ turn.discovery = "pending"
          /\ turn' = [turn EXCEPT !.others = "done"]
          /\ UNCHANGED <<reader, page>>
       \/ /\ turn.discovery # "pending"
          /\ EndTurn(turn.discovery, reader, page)
    /\ UNCHANGED <<serverSide, stream>>

\* The end of the last refreshStream; one that lost the ticket changes nothing here.
EndRefreshStream ==
    /\ page.ticket = "stream"
    /\ \E connected \in BOOLEAN :
          page' = [page EXCEPT !.ticket = "none", !.connected = connected]
    /\ UNCHANGED <<serverSide, stream, reader, turn>>

-----------------------------------------------------------------------------

LiveNext ==
    \/ CommitChange \/ PublishDiscoveryProjectionChanged \/ Invalidate
    \/ Connect \/ LoseConnection \/ ReceiveResync \/ ReceiveChange \/ RefreshStream
    \/ LoadDiscoverySnapshot \/ ReadFails \/ ReadAgain \/ EndRun
    \/ OthersSettle \/ EndRefreshStream

LiveSpec == LiveInit /\ [][LiveNext]_liveVars

-----------------------------------------------------------------------------

Settled ==
    /\ bus.sleeping = 0 /\ bus.halfway = 0
    /\ stream.open /\ ~stream.initial /\ ~stream.lagged /\ stream.events = 0
    /\ reader.read = "none" /\ ~turn.busy

\* Coalescing loses nothing: once no event or read is under way, a connected page
\* has a snapshot at least as new as the last announced change, unless the last run
\* of the refresh coordinator ended after that change was announced and was rejected.
NoChangeIsLost == Settled => page.shown >= published \/ reader.missed >= published


DiscoveryStale == page.shown # -1 /\ (~page.connected \/ page.error)

\* A page that has settled on an old snapshot says that it is stale, as the notices
\* of TokenTable.tsx and emptyStreamState.ts promise.  The end of a turn of refreshAll
\* clears the error that a later failed refreshDiscovery left.
OldSnapshotIsMarked ==
    Settled /\ page.shown # -1 /\ page.shown < published => DiscoveryStale
=============================================================================

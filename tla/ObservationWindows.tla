------------------------ MODULE ObservationWindows ------------------------
(***************************************************************************)
(* The in-memory registry of observation windows of one pipeline attempt   *)
(* (ObservationWindowRegistry, crates/discovery-engine/src/lib.rs) and the *)
(* tasks that use it at the same time:                                     *)
(*                                                                         *)
(*   - one collector task per source program, which stamps each            *)
(*     notification with a receipt time and later, in receipt order, runs  *)
(*     it up to the first await (jobs/collector.rs, jobs/intake.rs);       *)
(*   - the batch processor, which confirms provisional windows and settles *)
(*     the admitted batches (jobs/pipeline.rs);                            *)
(*   - the pipeline's select loop, which cancels windows on a disconnect   *)
(*     or a stop;                                                          *)
(*   - the qualification finalizer (jobs/qualification.rs).                *)
(*                                                                         *)
(* A step is one critical section of the registry mutex or one lock-free   *)
(* operation on a token.  The one critical section that is not atomic here *)
(* is a cancellation: it reads was_confirmed() and cancels a pending token *)
(* in two atomic operations between which the lock-free confirm() may run, *)
(* so `unlinked' holds the tokens between the two and also stands for the  *)
(* mutex being held.                                                       *)
(***************************************************************************)
EXTENDS Naturals, Sequences, FiniteSets, WindowToken

CONSTANTS
    Sources,          \* the subscribed programs: Pump and PumpSwap
    Targets,          \* mints and pools that a window can observe
    SourceOf,         \* target_source_program, as a function on Targets
    Duration,         \* observation_window_duration
    MaximumActive,    \* maximum_active of the registry
    Capacity,         \* notification_processing_capacity, per source
    MaxLag,           \* bound: clock read to registry call, in time units
    MaxTime,          \* bound on the wall clock
    MaxGeneration,    \* bound on the number of windows ever provisioned
    MaxAdmitted,      \* bound on the admissions of one window
    MaxGaps           \* bound on the coverage gaps ever recorded

ASSUME TargetsAssumption == Targets # {}
ASSUME SourceOfAssumption == SourceOf \in [Targets -> Sources]
ASSUME BoundsAssumption ==
    /\ Duration \in Nat \ {0} /\ MaximumActive \in Nat \ {0}
    /\ Capacity \in Nat \ {0} /\ MaxLag \in Nat /\ MaxLag < Duration
    /\ MaxTime \in Nat /\ MaxGeneration \in Nat /\ MaxAdmitted \in Nat
    /\ MaxGaps \in Nat

Generations == 1..MaxGeneration
NoGen == 0            \* an absent map entry
Times == 1..MaxTime
NoTime == 0           \* an absent watermark or gap

VARIABLES
    now,        \* the wall clock
    tok,        \* the token of each generation
    next,       \* next_generation
    windows,    \* the active map: target -> generation
    retained,   \* the closed generations kept for finalization
    gap,        \* time of latest_source_coverage_gap, per source
    progress,   \* latest_source_progress per source
    unlinked,   \* read as unconfirmed by a cancellation still in progress
    inbox,      \* receipt times of notifications not yet run, per source
    disc,       \* where the discovery batch that opened a window is
    queued,     \* activity batches of a window that are not yet processed
    failing,    \* failed batches of a window that are not yet settled
    fin,        \* the finalizer's local state
    gaps,       \* history: every <<source, time>> a gap was recorded for
    doubted     \* history: generations whose evidence was broken

registry == <<tok, next, windows, retained, gap, progress, unlinked>>
clients == <<inbox, disc, queued, failing, fin>>
vars == <<now, registry, clients, gaps, doubted>>

Token ==
    [target : Targets, opened : Nat, closes : Nat, state : TokenStates,
     durable : BOOLEAN, admitted : Nat, settled : Nat,
     incomplete : BOOLEAN, claimed : BOOLEAN, finalized : BOOLEAN]

\* Where the discovery batch of a window is: being read over HTTP or waiting
\* for the processor; committed by open_discovery_window; confirmed; done.
DiscoveryStages == {"none", "waiting", "opened", "confirmed", "closed"}

\* Stages in which the discovery batch is an unsettled admission.
Outstanding == {"waiting", "opened", "confirmed"}

\* The locals of finalize_ready_tokens, and the windows that have an entry in
\* its FinalizationRetrySchedule.
Finalizer ==
    [stage : {"idle", "ticked", "claiming", "attempting"}, now : Nat,
     todo : SUBSET Generations, gen : Generations \cup {NoGen}, frozen : BOOLEAN,
     deferred : SUBSET Generations]

TypeOK ==
    /\ now \in Nat
    /\ tok \in [Generations -> Token]
    /\ next \in 1..(MaxGeneration + 1)
    /\ windows \in [Targets -> Generations \cup {NoGen}]
    /\ retained \subseteq Generations
    /\ gap \in [Sources -> Nat]
    /\ progress \in [Sources -> Nat]
    /\ unlinked \subseteq Generations
    /\ inbox \in [Sources -> Seq(Nat)]
    /\ disc \in [Generations -> DiscoveryStages]
    /\ queued \in [Generations -> Nat]
    /\ failing \in [Generations -> Nat]
    /\ fin \in Finalizer
    /\ gaps \subseteq Sources \X Nat
    /\ doubted \subseteq Generations

UnbornToken(x) ==
    [target |-> x, opened |-> 0, closes |-> 0, state |-> "unborn",
     durable |-> FALSE, admitted |-> 0, settled |-> 0,
     incomplete |-> FALSE, claimed |-> FALSE, finalized |-> FALSE]

IdleFinalizer == [stage |-> "idle", now |-> NoTime, todo |-> {}, gen |-> NoGen,
                  frozen |-> FALSE, deferred |-> {}]

Init ==
    /\ now = 1
    /\ tok = [g \in Generations |-> UnbornToken(CHOOSE x \in Targets : TRUE)]
    /\ next = 1
    /\ windows = [x \in Targets |-> NoGen]
    /\ retained = {}
    /\ gap = [s \in Sources |-> NoTime]
    /\ progress = [s \in Sources |-> NoTime]
    /\ unlinked = {}
    /\ inbox = [s \in Sources |-> << >>]
    /\ disc = [g \in Generations |-> "none"]
    /\ queued = [g \in Generations |-> 0]
    /\ failing = [g \in Generations |-> 0]
    /\ fin = IdleFinalizer
    /\ gaps = {}
    /\ doubted = {}

-----------------------------------------------------------------------------
(* The wall clock, and the collector tasks.                                *)

\* No task is descheduled for more than MaxLag between reading the clock and
\* the registry calls made with what it read.
Tick ==
    /\ now < MaxTime
    /\ \A s \in Sources : inbox[s] # << >> => now < Head(inbox[s]) + MaxLag
    /\ fin.stage = "ticked" => now < fin.now + MaxLag
    /\ now' = now + 1
    /\ UNCHANGED <<registry, clients, gaps, doubted>>

\* The stream yields a notification into available capacity and stamps it.
Receive(s) ==
    /\ Len(inbox[s]) < Capacity
    /\ inbox' = [inbox EXCEPT ![s] = Append(@, now)]
    /\ UNCHANGED <<now, registry, disc, queued, failing, fin, gaps, doubted>>

Receipt(s) == Head(inbox[s])

\* The head of the inbox takes the registry lock.  The first thing it does is
\* to advance the watermark of its source; the calls it makes after that are
\* the steps below, in any number, and each of them shows the watermark
\* advanced.  (Nothing can tell a watermark advanced to t from one advanced in
\* the same step as a call with receipt time t: those calls only concern
\* windows that are open at t.)
Running(s) == inbox[s] # << >> /\ unlinked = {}

\* Mutant: one watermark for all sources.
RecordProgressOfAll(s) ==
    progress' = [q \in Sources |-> IF progress[q] < Receipt(s) THEN Receipt(s) ELSE progress[q]]

RecordSourceProgress(s) ==
    progress' = [progress EXCEPT ![s] = IF @ < Receipt(s) THEN Receipt(s) ELSE @]

\* Windows in use: the active map and the list of closed windows.
Active == {windows[x] : x \in {y \in Targets : windows[y] # NoGen}}
Tracked == Active \cup retained

\* Unfinalized windows of source p whose interval contains t.
Covering(G, p, t) ==
    {g \in G : /\ tok[g].state # "unborn" /\ ~tok[g].finalized
               /\ SourceOf[tok[g].target] = p /\ InInterval(tok[g], t)}

\* Mutant: the gap recorded last is remembered instead of the latest one.
RecordLastCoverageGap(s, p) ==
    /\ Running(s)
    /\ Cardinality(gaps) < MaxGaps
    /\ RecordSourceProgress(s)
    /\ gap' = [gap EXCEPT ![p] = Receipt(s)]
    /\ tok' = [g \in Generations |->
                 IF g \in Covering(Tracked, p, Receipt(s))
                 THEN MarkIncomplete(tok[g]) ELSE tok[g]]
    /\ gaps' = gaps \cup {<<p, Receipt(s)>>}
    /\ doubted' = doubted \cup Covering(Generations, p, Receipt(s))
    /\ UNCHANGED <<now, next, windows, retained, unlinked, clients>>

\* A log that cannot be decoded or paired is a gap of program p, which need
\* not be the program whose subscription delivered it.
RecordSourceCoverageGap(s, p) ==
    /\ Running(s)
    /\ Cardinality(gaps) < MaxGaps
    /\ RecordSourceProgress(s)
    /\ gap' = [gap EXCEPT ![p] = IF @ < Receipt(s) THEN Receipt(s) ELSE @]
    /\ tok' = [g \in Generations |->
                 IF g \in Covering(Tracked, p, Receipt(s))
                 THEN MarkIncomplete(tok[g]) ELSE tok[g]]
    /\ gaps' = gaps \cup {<<p, Receipt(s)>>}
    /\ doubted' = doubted \cup Covering(Generations, p, Receipt(s))
    /\ UNCHANGED <<now, next, windows, retained, unlinked, clients>>

\* Mutant: an event is admitted by its interval alone, whether or not the
\* window is still in the active map.
AdmitOpenToken(s, x) ==
    /\ Running(s)
    /\ RecordSourceProgress(s)
    /\ \E g \in Generations :
        /\ tok[g].target = x /\ IsOpenAt(tok[g], Receipt(s))
        /\ ~tok[g].finalized /\ tok[g].admitted < MaxAdmitted
        /\ tok' = [tok EXCEPT ![g] = MarkAdmitted(@)]
        /\ queued' = [queued EXCEPT ![g] = @ + 1]
    /\ UNCHANGED <<now, next, windows, retained, gap, unlinked,
                   inbox, disc, failing, fin, gaps, doubted>>

\* An activity event is matched and admitted in one critical section.
AdmitMatchingToken(s, x) ==
    LET g == windows[x] IN
    /\ Running(s)
    /\ RecordSourceProgress(s)
    /\ g # NoGen
    /\ IsOpenAt(tok[g], Receipt(s))
    /\ ~tok[g].finalized
    /\ tok[g].admitted < MaxAdmitted
    /\ tok' = [tok EXCEPT ![g] = MarkAdmitted(@)]
    /\ queued' = [queued EXCEPT ![g] = @ + 1]
    /\ UNCHANGED <<now, next, windows, retained, gap, unlinked,
                   inbox, disc, failing, fin, gaps, doubted>>

\* rotate_closed_windows: the targets whose window is not open at time t, the
\* active map without them, and the retained list with the confirmed ones.
Closed(t) == {x \in Targets : windows[x] # NoGen /\ ~IsOpenAt(tok[windows[x]], t)}
Rotated(t) == [x \in Targets |-> IF x \in Closed(t) THEN NoGen ELSE windows[x]]
RetainIfDurable(G) == retained \cup {g \in G : WasConfirmed(tok[g]) /\ ~tok[g].finalized}
RotatedRetained(t) == RetainIfDurable({windows[x] : x \in Closed(t)})

NewToken(x, t) ==
    [target |-> x, opened |-> t, closes |-> t + Duration, state |-> "pending",
     durable |-> FALSE, admitted |-> 1, settled |-> 0,
     incomplete |-> t <= gap[SourceOf[x]] /\ gap[SourceOf[x]] < t + Duration,
     claimed |-> FALSE, finalized |-> FALSE]

\* At capacity the window that closes soonest is evicted, otherwise none is.
\* Ties, which the code breaks by target order, are broken arbitrarily.
Evictions(w) ==
    LET used == {x \in Targets : w[x] # NoGen} IN
    IF Cardinality(used) < MaximumActive THEN {{}}
    ELSE {{x} : x \in {y \in used : \A z \in used : tok[w[y]].closes <= tok[w[z]].closes}}

\* The next generation is opened on x at time t; w is the rotated active map.
\* The discovery itself is the first admission of the window:
\* ProvisionalWindowGuard::new counts it outside the lock, which nothing can see
\* because the token is still pending.
OpenProvisional(x, t, w, evicted) ==
    LET victims == {w[y] : y \in evicted} IN
    /\ next <= MaxGeneration
    /\ tok' = [g \in Generations |->
                 IF g = next THEN NewToken(x, t)
                 ELSE IF g \in victims THEN CancelWithReason(tok[g]) ELSE tok[g]]
    /\ windows' = [y \in Targets |->
                     IF y = x THEN next ELSE IF y \in evicted THEN NoGen ELSE w[y]]
    /\ retained' = RotatedRetained(t) \cup RetainIfDurable(victims)
    /\ next' = next + 1
    /\ disc' = [disc EXCEPT ![next] = "waiting"]
    /\ doubted' = doubted \cup victims
         \cup {g \in {next} : \E u \in t..(t + Duration - 1) : <<SourceOf[x], u>> \in gaps}

\* A fresh discovery log finds its target's window still open, or opens a
\* provisional one at its receipt time.
ProvisionTarget(s, x) ==
    LET t == Receipt(s)
        w == Rotated(t)
    IN
    /\ Running(s)
    /\ RecordSourceProgress(s)
    /\ \/ /\ w[x] # NoGen
          /\ windows' = w
          /\ retained' = RotatedRetained(t)
          /\ UNCHANGED <<tok, next, disc, doubted>>
       \/ /\ w[x] = NoGen
          /\ \E evicted \in Evictions(w) : OpenProvisional(x, t, w, evicted)
    /\ UNCHANGED <<now, gap, unlinked, inbox, queued, failing, fin, gaps>>

\* The notification is dropped, or its batches and reads go on by themselves.
FinishNotification(s) ==
    /\ Running(s)
    /\ RecordSourceProgress(s)
    /\ inbox' = [inbox EXCEPT ![s] = Tail(@)]
    /\ UNCHANGED <<now, tok, next, windows, retained, gap, unlinked,
                   disc, queued, failing, fin, gaps, doubted>>

-----------------------------------------------------------------------------
(* The discovery read and its batch.  The processor runs one batch at a    *)
(* time, and other tasks run while it awaits a database call.              *)

ProcessorIdle == \A g \in Generations : disc[g] \notin {"opened", "confirmed"}

\* Changes one token and moves its discovery batch; the rest of the registry
\* stays as it is.
DiscoveryStep(g, from, to, tk) ==
    /\ disc[g] = from
    /\ disc' = [disc EXCEPT ![g] = to]
    /\ tok' = [tok EXCEPT ![g] = tk]
    /\ UNCHANGED <<now, next, windows, retained, gap, progress, unlinked,
                   inbox, queued, fin, gaps>>

\* A failed batch marks its token first and settles it in a second step.
FailDiscovery(g, from) ==
    /\ DiscoveryStep(g, from, "closed", MarkIncomplete(tok[g]))
    /\ failing' = [failing EXCEPT ![g] = @ + 1]
    /\ doubted' = doubted \cup {g}

\* Mutant: the guard cancels its token and forgets to settle the admission.
CancelUnsettled(g) ==
    /\ DiscoveryStep(g, "waiting", "closed", CancelIfPending(tok[g]))
    /\ UNCHANGED <<failing, doubted>>

\* The read is skipped (no permit in time, a failed or mismatched read, the
\* window no longer open, the collector future dropped), or the batch selects
\* no event, is quarantined, or replays a window that is already durable: the
\* provisional token is cancelled for good.  (A batch that selects nothing also
\* leaves a reason on it, which no one reads on a token that never confirms.)
CancelDiscovery(g) ==
    /\ DiscoveryStep(g, "waiting", "closed", MarkSettled(CancelIfPending(tok[g])))
    /\ UNCHANGED <<failing, doubted>>

\* The transaction of open_discovery_window commits.  The batch is selected by
\* its receipt time, so the window may already have closed.
OpenDurableWindow(g) ==
    /\ ProcessorIdle
    /\ IsOpenAt(tok[g], tok[g].opened)
    /\ DiscoveryStep(g, "waiting", "opened", tok[g])
    /\ UNCHANGED <<failing, doubted>>

\* The token is confirmed and gets its durable id, unless it was cancelled
\* during the transaction, which ends the pipeline attempt.  (Nothing looks for
\* the id between the two operations: the batch is still unsettled.)
ConfirmWindow(g) ==
    \/ /\ tok[g].state = "pending"
       /\ DiscoveryStep(g, "opened", "confirmed", [Confirm(tok[g]) EXCEPT !.durable = TRUE])
       /\ UNCHANGED <<failing, doubted>>
    \/ /\ tok[g].state # "pending"
       /\ FailDiscovery(g, "opened")

\* The batch is dropped unprocessed, or fails after it was confirmed.
DropDiscovery(g) == \E from \in {"waiting", "confirmed"} : FailDiscovery(g, from)

FinishDiscovery(g) ==
    /\ DiscoveryStep(g, "confirmed", "closed", MarkSettled(tok[g]))
    /\ UNCHANGED <<failing, doubted>>

-----------------------------------------------------------------------------
(* Activity batches: waiting in the collector, the channel or the holding  *)
(* queue of pending activity, then processed and settled.                  *)

ActivityStep(g, tk) ==
    /\ queued[g] > 0
    /\ queued' = [queued EXCEPT ![g] = @ - 1]
    /\ tok' = [tok EXCEPT ![g] = tk]
    /\ UNCHANGED <<now, next, windows, retained, gap, progress, unlinked,
                   inbox, disc, fin, gaps>>

\* An event is persisted only for a confirmed token.  Nothing but the
\* settlement is visible outside the processor.
PersistActivity(g) ==
    /\ ProcessorIdle
    /\ tok[g].state = "confirmed"
    /\ ActivityStep(g, MarkSettled(tok[g]))
    /\ UNCHANGED <<failing, doubted>>

\* A batch fails in two atomic steps: the reason first, the settlement later.
FailActivity(g, tk) ==
    /\ ActivityStep(g, tk)
    /\ failing' = [failing EXCEPT ![g] = @ + 1]
    /\ doubted' = doubted \cup {g}

\* Nothing is selected because the token is cancelled, or still pending at the
\* end of the holding time; or an event of the batch is quarantined.
IncompleteActivity(g) ==
    /\ ProcessorIdle
    /\ FailActivity(g, MarkIncomplete(tok[g]))

\* The guard or the batch is dropped before it is processed.
DropActivity(g) == FailActivity(g, MarkIncomplete(tok[g]))

\* The holding queue of pending activity is full; a batch with one pending
\* token cancels every token it carries.
OverflowActivity(g) ==
    /\ ProcessorIdle
    /\ FailActivity(g, MarkIncomplete(CancelWithReason(tok[g])))

SettleFailed(g) ==
    /\ failing[g] > 0
    /\ failing' = [failing EXCEPT ![g] = @ - 1]
    /\ tok' = [tok EXCEPT ![g] = MarkSettled(@)]
    /\ UNCHANGED <<now, next, windows, retained, gap, progress, unlinked,
                   inbox, disc, queued, fin, gaps, doubted>>

-----------------------------------------------------------------------------
(* Cancellation by the pipeline's select loop: one source disconnected, or *)
(* the stream stops.                                                       *)

\* Mutant: a disconnect cancels the active windows of every source.
EveryTarget(S) == Targets

MatchingTargets(S) == {x \in Targets : SourceOf[x] \in S}

\* Closed windows that a cancellation still reaches.
Unclaimed(G) == {g \in G : /\ ~tok[g].finalized /\ ~tok[g].claimed
                           /\ tok[g].state = "confirmed"}

CancelConfirmedMatching(S) ==
    LET hit == {x \in MatchingTargets(S) : windows[x] # NoGen}
        active == {windows[x] : x \in hit}
        confirmed == {g \in active : WasConfirmed(tok[g])}
        closed == {g \in Unclaimed(retained) : SourceOf[tok[g].target] \in S}
    IN
    /\ unlinked = {}
    /\ tok' = [g \in Generations |->
                 IF g \in confirmed \cup closed THEN CancelWithReason(tok[g]) ELSE tok[g]]
    /\ windows' = [x \in Targets |-> IF x \in hit THEN NoGen ELSE windows[x]]
    /\ retained' = RetainIfDurable(confirmed)
    /\ unlinked' = active \ confirmed
    /\ doubted' = doubted \cup {g \in Unclaimed(Generations) : SourceOf[tok[g].target] \in S}
    /\ UNCHANGED <<now, next, gap, progress, clients, gaps>>

CancelSourceConfirmed(s) == CancelConfirmedMatching({s})
CancelAllConfirmed == CancelConfirmedMatching(Sources)

\* The second half of the cancellation of a token that was read as pending.
CancelUnlinked(g) ==
    /\ g \in unlinked
    /\ unlinked' = unlinked \ {g}
    /\ tok' = [tok EXCEPT ![g] = CancelIfPending(@)]
    /\ UNCHANGED <<now, next, windows, retained, gap, progress, clients, gaps, doubted>>

-----------------------------------------------------------------------------
(* The qualification finalizer.                                            *)

\* finalize_ready_tokens reads the clock before it takes the lock.
FinalizerTick ==
    /\ fin.stage = "idle"
    /\ fin' = [fin EXCEPT !.stage = "ticked", !.now = now]
    /\ UNCHANGED <<now, registry, inbox, disc, queued, failing, gaps, doubted>>

Eligible(g) ==
    /\ WasConfirmed(tok[g]) /\ tok[g].durable
    /\ Settled(tok[g]) /\ ~tok[g].finalized

FinalizationCandidates ==
    /\ fin.stage = "ticked"
    /\ unlinked = {}
    /\ windows' = Rotated(fin.now)
    /\ retained' = RotatedRetained(fin.now)
    /\ fin' = [fin EXCEPT !.stage = "claiming", !.now = NoTime,
                 !.todo = {g \in RotatedRetained(fin.now) : Eligible(g) /\ ~tok[g].claimed}]
    /\ UNCHANGED <<now, tok, next, gap, progress, unlinked, inbox, disc,
                   queued, failing, gaps, doubted>>

\* Mutant: the watermark may stop one short of the half-open boundary.
ClaimableEarly(g) ==
    /\ g \in retained /\ Eligible(g) /\ ~tok[g].claimed
    /\ ~tok[g].incomplete => progress[SourceOf[tok[g].target]] + 1 >= tok[g].closes

\* A complete claim also needs the source to have got past the close.
Claimable(g) ==
    /\ g \in retained /\ Eligible(g) /\ ~tok[g].claimed
    /\ ~tok[g].incomplete => progress[SourceOf[tok[g].target]] >= tok[g].closes

\* A candidate that is not claimable any more, or that was deferred and is not
\* due yet, is skipped until the next tick.
ClaimFinalization(g) ==
    /\ fin.stage = "claiming"
    /\ unlinked = {}
    /\ g \in fin.todo
    /\ \/ /\ Claimable(g)
          /\ tok' = [tok EXCEPT ![g].claimed = TRUE]
          /\ fin' = [fin EXCEPT !.stage = "attempting", !.todo = @ \ {g},
                       !.gen = g, !.frozen = tok[g].incomplete]
       \/ /\ ~Claimable(g) \/ g \in fin.deferred
          /\ fin' = [fin EXCEPT !.todo = @ \ {g}]
          /\ UNCHANGED tok
    /\ UNCHANGED <<now, next, windows, retained, gap, progress, unlinked, inbox,
                   disc, queued, failing, gaps, doubted>>

EndAttempt(tk, later) ==
    /\ fin.stage = "attempting"
    /\ tok' = [tok EXCEPT ![fin.gen] = tk]
    /\ fin' = [fin EXCEPT !.stage = "claiming", !.gen = NoGen, !.frozen = FALSE,
                 !.deferred = later]
    /\ UNCHANGED <<now, next, windows, retained, gap, progress, unlinked, inbox,
                   disc, queued, failing, gaps, doubted>>

\* The attempt committed: mark_committed finalizes, then dropping the claim
\* releases it.
CommitFinalization ==
    EndAttempt([tok[fin.gen] EXCEPT !.finalized = TRUE, !.claimed = FALSE],
               fin.deferred \ {fin.gen})

\* Mutant: a deferred attempt keeps its claim.
DeferKeepingClaim == EndAttempt(tok[fin.gen], fin.deferred \cup {fin.gen})

\* Durable evidence has not settled: dropping the claim releases it for a retry.
DeferFinalization ==
    EndAttempt([tok[fin.gen] EXCEPT !.claimed = FALSE], fin.deferred \cup {fin.gen})

CleanupFinalized ==
    /\ fin.stage = "claiming"
    /\ fin.todo = {}
    /\ unlinked = {}
    /\ retained' = {g \in retained : ~tok[g].finalized}
    /\ fin' = [IdleFinalizer EXCEPT !.deferred = fin.deferred]
    /\ UNCHANGED <<now, tok, next, windows, gap, progress, unlinked, inbox,
                   disc, queued, failing, gaps, doubted>>

-----------------------------------------------------------------------------

CollectorNext(s) ==
    \/ Receive(s) \/ FinishNotification(s)
    \/ \E p \in Sources : RecordSourceCoverageGap(s, p)
    \/ \E x \in Targets : AdmitMatchingToken(s, x) \/ ProvisionTarget(s, x)

DiscoveryNext(g) ==
    \/ CancelDiscovery(g) \/ OpenDurableWindow(g) \/ ConfirmWindow(g)
    \/ DropDiscovery(g) \/ FinishDiscovery(g)

ActivityNext(g) ==
    \/ PersistActivity(g) \/ IncompleteActivity(g) \/ DropActivity(g)
    \/ OverflowActivity(g) \/ SettleFailed(g)

FinalizerNext ==
    \/ FinalizerTick \/ FinalizationCandidates \/ CommitFinalization
    \/ DeferFinalization \/ CleanupFinalized
    \/ \E g \in Generations : ClaimFinalization(g)

Next ==
    \/ Tick
    \/ \E s \in Sources : CollectorNext(s) \/ CancelSourceConfirmed(s)
    \/ CancelAllConfirmed
    \/ \E g \in Generations : DiscoveryNext(g) \/ ActivityNext(g) \/ CancelUnlinked(g)
    \/ FinalizerNext

Spec == Init /\ [][Next]_vars

\* The processor gets to every batch and the finalizer keeps polling; a deferred
\* window is due again after a fixed delay, and is not deferred for ever, because
\* the structural projection work it waits for has a bounded number of attempts.
\* A cancellation holds the mutex only for a moment.  Nothing is assumed of the
\* sources or of the clock.
Fairness ==
    /\ \A g \in Generations :
        /\ WF_vars(DiscoveryNext(g)) /\ WF_vars(ActivityNext(g)) /\ WF_vars(CancelUnlinked(g))
    /\ WF_vars(FinalizerTick) /\ WF_vars(FinalizationCandidates)
    /\ WF_vars(\E g \in Generations : ClaimFinalization(g))
    /\ \A g \in Generations : SF_vars(ClaimFinalization(g) /\ fin'.stage = "attempting")
    /\ WF_vars(CommitFinalization \/ DeferFinalization) /\ SF_vars(CommitFinalization)
    /\ WF_vars(CleanupFinalized)

FairSpec == Spec /\ Fairness

-----------------------------------------------------------------------------

\* Every broken piece of evidence (a recorded coverage gap inside the window's
\* interval, a failed or dropped batch, an eviction, a disconnect or stop
\* before the finalization claim) has left an incomplete reason on a window the
\* registry still tracks.
DoubtIsRecorded == \A g \in doubted \cap Tracked : tok[g].incomplete

\* A claim that freezes "no known gap" is taken only when no evidence of the
\* window is in doubt, all of its batches are settled, and every notification
\* its source received before the close has been classified.
CompleteClaimIsSound ==
    [][\A g \in Generations :
         (~tok[g].claimed /\ tok'[g].claimed /\ ~fin'.frozen) =>
            LET src == SourceOf[tok[g].target] IN
            /\ g \notin doubted
            /\ queued[g] = 0 /\ failing[g] = 0 /\ disc[g] = "closed"
            /\ \A i \in 1..Len(inbox[src]) : inbox[src][i] >= tok[g].closes]_vars

\* A window loses the ability to claim complete evidence only for a cause of its
\* own: a gap or disconnect of its own source, a stop, its eviction, or one of
\* its own batches.
IncompletenessHasCause == \A g \in Generations : tok[g].incomplete => g \in doubted

\* Every admission is settled exactly once: a window's counters differ by
\* exactly the batches that are still outstanding.
AdmissionAccounting ==
    \A g \in Generations :
        tok[g].admitted = tok[g].settled + queued[g] + failing[g]
                          + (IF disc[g] \in Outstanding THEN 1 ELSE 0)

\* Once a window has left the active map for finalization, no later event can
\* increment its admitted count.
NoAdmissionAfterClose ==
    [][\A g \in retained : tok'[g].admitted = tok[g].admitted]_vars

\* A durable window that the registry tracks and whose source has got past the
\* close is eventually finalized, whatever happened to its batches.
EveryTrackedWindowFinalizes ==
    \A g \in Generations :
        (g \in Tracked /\ tok[g].durable /\ progress[SourceOf[tok[g].target]] >= tok[g].closes)
            ~> tok[g].finalized

\* A confirmed window with a durable id stays in the active map or the retained
\* list until its finalization commits; a cancellation that is about to handle it
\* holds the mutex.
ConfirmedIsTracked ==
    \A g \in Generations :
        (WasConfirmed(tok[g]) /\ tok[g].durable /\ ~tok[g].finalized) => g \in Tracked \cup unlinked
=============================================================================

---------------------------- MODULE DurableWork ----------------------------
(***************************************************************************)
(* The durable queue of discovery work and the projection it feeds:        *)
(* observation_work, discovery_tokens, discovery_activity and the counters *)
(* of discovery_projection_state (crates/persistence/src/work.rs,          *)
(* observations.rs, discovery.rs), and the workers that drain the queue    *)
(* (apps/server/src/jobs/discovery.rs).                                    *)
(*                                                                         *)
(* Each pipeline attempt runs one worker under an identity of its own.     *)
(* The queue is written for several: a worker that stopped or crashed      *)
(* leaves claimed rows behind, and its leases keep the next one away until *)
(* they expire.                                                            *)
(*                                                                         *)
(* A database transaction is a step that begins it and fixes its NOW(), a  *)
(* step that obtains the lock of the work row, and a step that commits or  *)
(* fails.  What else a transaction writes it changes relative to the       *)
(* stored value under row locks, so it happens in the commit step.  Time   *)
(* has no numbers here: `timer' says how the row's available_at or         *)
(* lease_expires_at compares with the database clock, which only moves on. *)
(***************************************************************************)
EXTENDS Naturals, FiniteSets

CONSTANTS
    Facts,           \* chain_observations.id, which is also the work's order
    Mints, Markets,
    Fact,            \* what each observation says
    Workers,         \* worker identities, one per pipeline attempt
    ClaimBatch,      \* claim_batch
    MaxAttempts,     \* maximum_attempts
    AttemptCeiling   \* 2147483647: no further claim of such a row

Kinds == {"create", "trade", "other"}

ASSUME FactsAssumption ==
    /\ Facts \subseteq Nat \ {0} /\ IsFiniteSet(Facts)
    /\ IsFiniteSet(Mints) /\ IsFiniteSet(Markets)
    /\ Fact \in [Facts -> [mint : Mints, market : Markets, slot : Nat, kind : Kinds]]
ASSUME WorkAssumption ==
    /\ ClaimBatch \in Nat \ {0} /\ MaxAttempts \in Nat \ {0}
    /\ AttemptCeiling \in Nat /\ MaxAttempts < AttemptCeiling

NoWorker == "no worker"
NoFact == 0
NoToken == [stage |-> "ABSENT", market |-> "no market", slot |-> 0, named |-> FALSE]

ASSUME NamesAssumption == NoWorker \notin Workers

VARIABLES
    work,      \* observation_work, with status ABSENT before the insert
    tokens,    \* discovery_tokens
    trades,    \* discovery_activity.trades, per market
    counters,  \* discovery_projection_state
    workers    \* the locals of run_discovery_worker

database == <<work, tokens, trades, counters>>
vars == <<database, workers>>

\* A PENDING row waits until its available_at and is then due; the lease of a
\* PROCESSING row is live and then expired.
Row ==
    [status : {"ABSENT", "PENDING", "PROCESSING", "COMPLETE", "FAILED"},
     attempts : Nat, owner : Workers \cup {NoWorker},
     timer : {"none", "waiting", "due", "live", "expired"}]

Stages == {"OBSERVED", "QUALIFIED", "APPROVED"}
Qualified == {"QUALIFIED", "APPROVED"}
TokenRow == [stage : Stages, market : Markets, slot : Nat, named : BOOLEAN]

Counters ==
    [observed : Nat, queued_facts : Nat, approved : Nat, qualified : Nat,
     processing_failures : Nat]

\* claimed are the rows of the batch still ahead, item the one in hand, and
\* inTime what the lease looked like when the transaction began.
Worker ==
    [pc : {"down", "claiming", "next", "renewed", "begun", "locked",
           "failing", "retrying", "releasing", "ended"},
     claimed : SUBSET Facts, item : Facts \cup {NoFact}, inTime : BOOLEAN]

TypeOK ==
    /\ work \in [Facts -> Row]
    /\ tokens \in [Mints -> TokenRow \cup {NoToken}]
    /\ trades \in [Markets -> Nat]
    /\ counters \in Counters
    /\ workers \in [Workers -> Worker]

AbsentRow == [status |-> "ABSENT", attempts |-> 0, owner |-> NoWorker, timer |-> "none"]

Init ==
    /\ work = [o \in Facts |-> AbsentRow]
    /\ tokens = [m \in Mints |-> NoToken]
    /\ trades = [k \in Markets |-> 0]
    /\ counters = [observed |-> 0, queued_facts |-> 0, approved |-> 0,
                   qualified |-> 0, processing_failures |-> 0]
    /\ workers = [w \in Workers |->
                    [pc |-> "down", claimed |-> {}, item |-> NoFact, inTime |-> FALSE]]

-----------------------------------------------------------------------------

\* GREATEST(value - n, 0)
Less(value, n) == IF value < n THEN 0 ELSE value - n

\* A new observation, its work, the counter and the event are one commit.
InsertObservation(o) ==
    /\ work[o].status = "ABSENT"
    /\ \A p \in Facts : p < o => work[p].status # "ABSENT"
    /\ work' = [work EXCEPT ![o].status = "PENDING", ![o].timer = "due"]
    /\ counters' = [counters EXCEPT !.queued_facts = @ + 1]
    /\ UNCHANGED <<tokens, trades, workers>>

\* The database clock passes available_at.
BecomeDue(o) ==
    /\ work[o].timer = "waiting"
    /\ work' = [work EXCEPT ![o].timer = "due"]
    /\ UNCHANGED <<tokens, trades, counters, workers>>

\* The database clock passes lease_expires_at.
LeaseExpires(o) ==
    /\ work[o].timer = "live"
    /\ work' = [work EXCEPT ![o].timer = "expired"]
    /\ UNCHANGED <<tokens, trades, counters, workers>>

-----------------------------------------------------------------------------

\* The workers whose transaction holds the lock of row o.
Holders(o) == {w \in Workers : workers[w].pc \in {"locked", "releasing"}
                               /\ workers[w].item = o}

Start(w) ==
    /\ workers[w].pc = "down"
    /\ workers' = [workers EXCEPT ![w].pc = "claiming"]
    /\ UNCHANGED database

\* Mutant: an expired lease is never taken over.
ClaimableLive(o) ==
    /\ work[o].attempts < AttemptCeiling
    /\ work[o].status = "PENDING" /\ work[o].timer = "due"

Claimable(o) ==
    /\ work[o].attempts < AttemptCeiling
    /\ \/ work[o].status = "PENDING" /\ work[o].timer = "due"
       \/ work[o].status = "PROCESSING" /\ work[o].timer = "expired"

\* FOR UPDATE SKIP LOCKED ... LIMIT: as many unlocked rows as the batch takes.
\* Which ones depends on available_at, of which only `due' is kept.
Claim(w) ==
    /\ workers[w].pc = "claiming"
    /\ LET free == {o \in Facts : Claimable(o) /\ Holders(o) = {}}
       IN \E batch \in SUBSET free :
            /\ batch # {}
            /\ Cardinality(batch) <= ClaimBatch
            /\ batch = free \/ Cardinality(batch) = ClaimBatch
            /\ work' = [o \in Facts |->
                          IF o \in batch
                          THEN [status |-> "PROCESSING", attempts |-> work[o].attempts + 1,
                                owner |-> w, timer |-> "live"]
                          ELSE work[o]]
            /\ workers' = [workers EXCEPT ![w].pc = "next", ![w].claimed = batch]
    /\ UNCHANGED <<tokens, trades, counters>>

\* The loop goes on with the next row of the batch, or claims again.
Continue(w) ==
    workers' = [workers EXCEPT
        ![w].pc = IF workers[w].claimed = {} THEN "claiming" ELSE "next",
        ![w].item = NoFact, ![w].inTime = FALSE]

Owns(w, o) == work[o].status = "PROCESSING" /\ work[o].owner = w

\* renew_observation_work_lease, for the rows of the batch in order of id.
RenewLease(w) ==
    /\ workers[w].pc = "next"
    /\ \E o \in workers[w].claimed :
         /\ \A p \in workers[w].claimed : o <= p
         /\ Holders(o) = {}
         /\ LET rest == workers[w].claimed \ {o}
            IN IF Owns(w, o) /\ work[o].timer = "live"
               THEN workers' = [workers EXCEPT ![w].pc = "renewed", ![w].item = o,
                                               ![w].claimed = rest]
               ELSE workers' = [workers EXCEPT ![w].claimed = rest,
                                  ![w].pc = IF rest = {} THEN "claiming" ELSE "next"]
    /\ UNCHANGED database

\* BEGIN: NOW() is fixed for the rest of the transaction.
BeginTransaction(w, from, to) ==
    /\ workers[w].pc = from
    /\ LET o == workers[w].item
       IN workers' = [workers EXCEPT ![w].pc = to,
                        ![w].inTime = Owns(w, o) /\ work[o].timer = "live"]
    /\ UNCHANGED database

\* Mutant: the owner is not read again under the lock.
LockOwnedWorkUnchecked(w, o) == workers[w].inTime

\* lock_owned_work: the row is read again once the lock is held, but its lease
\* is compared with the NOW() of the transaction.
LockOwnedWork(w, o) == Owns(w, o) /\ workers[w].inTime

Lock(w, from, to) ==
    /\ workers[w].pc = from
    /\ LET o == workers[w].item
       IN /\ Holders(o) = {}
          /\ IF LockOwnedWork(w, o)
             THEN workers' = [workers EXCEPT ![w].pc = to]
             ELSE Continue(w)
    /\ UNCHANGED database

BeginCommit(w) == BeginTransaction(w, "renewed", "begun")
LockCommit(w) == Lock(w, "begun", "locked")

-----------------------------------------------------------------------------

\* The candidate that discovery_token builds from an observation.
Candidate(f) ==
    [stage |-> "OBSERVED", market |-> f.market, slot |-> f.slot, named |-> f.kind = "create"]

\* Mutant: the decision follows the token.
MergeKeepingStage(stored, observed) ==
    [observed EXCEPT !.named = @ \/ stored.named, !.stage = stored.stage]

\* A decision is about one market: it survives only facts of that market.
MergeObservation(stored, observed) ==
    [observed EXCEPT
        !.named = @ \/ stored.named,
        !.stage = IF stored.stage \in Qualified /\ stored.market = observed.market
                  THEN stored.stage ELSE @]

\* A create that comes after newer facts may still name the token.
EnrichMetadataFromStaleCreation(stored, f) ==
    [stored EXCEPT !.named = @ \/ f.kind = "create"]

\* Mutant: the newer fact does not win.
ProjectedAlwaysMerging(stored, f) ==
    IF stored = NoToken THEN Candidate(f) ELSE MergeObservation(stored, Candidate(f))

Projected(stored, f) ==
    CASE stored = NoToken -> Candidate(f)
      [] stored # NoToken /\ stored.slot > f.slot -> EnrichMetadataFromStaleCreation(stored, f)
      [] OTHER -> MergeObservation(stored, Candidate(f))

\* The counters after row `stored' became row `t'.
CountStage(c, stored, t) ==
    LET lost(S) == IF stored.stage \in S /\ t.stage \notin S THEN 1 ELSE 0
        won(S) == IF stored.stage \notin S /\ t.stage \in S THEN 1 ELSE 0
    IN [c EXCEPT !.approved = Less(@ + won({"APPROVED"}), lost({"APPROVED"})),
                 !.qualified = Less(@ + won(Qualified), lost(Qualified)),
                 !.observed = @ + won(Stages)]

\* Mutant: the fact stays counted as queued.
CountCompletedWithoutQueue(c, stored, t) == CountStage(c, stored, t)

CountCompleted(c, stored, t) ==
    [CountStage(c, stored, t) EXCEPT !.queued_facts = Less(@, 1)]

Finish(row, status) == [row EXCEPT !.status = status, !.owner = NoWorker, !.timer = "none"]

\* What commit_discovery_observation writes: token, activity, counters, work.
ProjectObservation(o) ==
    LET f == Fact[o]
        projected == Projected(tokens[f.mint], f)
    IN /\ tokens' = [tokens EXCEPT ![f.mint] = projected]
       /\ trades' = IF f.kind = "trade" THEN [trades EXCEPT ![f.market] = @ + 1] ELSE trades
       /\ counters' = CountCompleted(counters, tokens[f.mint], projected)
       /\ work' = [work EXCEPT ![o] = Finish(@, "COMPLETE")]

CommitObservation(w) ==
    /\ workers[w].pc = "locked"
    /\ ProjectObservation(workers[w].item)
    /\ Continue(w)

\* The commit happened but its answer was lost: an error to the worker.
CommitUnacknowledged(w) ==
    /\ workers[w].pc = "locked"
    /\ ProjectObservation(workers[w].item)
    /\ workers' = [workers EXCEPT ![w].pc = "failing"]

\* Any error before the commit: a rejected candidate, a lost connection, a
\* token inserted by another worker in the meantime.  The rollback unlocks.
FailObservation(w) ==
    /\ workers[w].pc \in {"renewed", "begun", "locked"}
    /\ workers' = [workers EXCEPT ![w].pc = "failing"]
    /\ UNCHANGED database

-----------------------------------------------------------------------------

BeginRetry(w) == BeginTransaction(w, "failing", "retrying")
LockRetry(w) == Lock(w, "retrying", "releasing")

\* Mutant: one attempt too many.
ReleaseOneMore(o) ==
    IF work[o].attempts > MaxAttempts
    THEN /\ work' = [work EXCEPT ![o] = Finish(@, "FAILED")]
         /\ counters' = [counters EXCEPT !.queued_facts = Less(@, 1),
                                         !.processing_failures = @ + 1]
    ELSE /\ work' = [work EXCEPT ![o] = [Finish(@, "PENDING") EXCEPT !.timer = "waiting"]]
         /\ UNCHANGED counters

\* retry_or_fail_observation_work, with record_terminal_discovery_failure.
Release(o) ==
    IF work[o].attempts >= MaxAttempts
    THEN /\ work' = [work EXCEPT ![o] = Finish(@, "FAILED")]
         /\ counters' = [counters EXCEPT !.queued_facts = Less(@, 1),
                                         !.processing_failures = @ + 1]
    ELSE /\ work' = [work EXCEPT ![o] = [Finish(@, "PENDING") EXCEPT !.timer = "waiting"]]
         /\ UNCHANGED counters

CommitRetry(w) ==
    /\ workers[w].pc = "releasing"
    /\ Release(workers[w].item)
    /\ Continue(w)
    /\ UNCHANGED <<tokens, trades>>

\* Bound: Workers are all the attempts there will be, and the last one stays.
AnotherAttempt(w) == \E v \in Workers \ {w} : workers[v].pc # "ended"

Ended == [pc |-> "ended", claimed |-> {}, item |-> NoFact, inTime |-> FALSE]

\* The release was committed, but the worker saw an error and returned it.
RetryUnacknowledged(w) ==
    /\ workers[w].pc = "releasing"
    /\ AnotherAttempt(w)
    /\ Release(workers[w].item)
    /\ workers' = [workers EXCEPT ![w] = Ended]
    /\ UNCHANGED <<tokens, trades>>

\* Cancellation between rows, an error the worker returns, or a crash.  An
\* open transaction is rolled back; claimed rows keep their leases.
End(w) ==
    /\ workers[w].pc \notin {"down", "ended"}
    /\ AnotherAttempt(w)
    /\ workers' = [workers EXCEPT ![w] = Ended]
    /\ UNCHANGED database

-----------------------------------------------------------------------------

\* finalize_discovery_window, for a token that is current for the window.
ApplyQualification(m, pass) ==
    /\ tokens[m] # NoToken
    /\ LET stage == CASE pass /\ tokens[m].stage = "APPROVED" -> "APPROVED"
                      [] pass /\ tokens[m].stage # "APPROVED" -> "QUALIFIED"
                      [] OTHER -> "OBSERVED"
           t == [tokens[m] EXCEPT !.stage = stage]
       IN /\ tokens' = [tokens EXCEPT ![m] = t]
          /\ counters' = CountStage(counters, tokens[m], t)
    /\ UNCHANGED <<work, trades, workers>>

\* commit_discovery_approval with a token loaded before: its market must be
\* the stored one, and a newer stored slot is kept.
ApproveToken(m) ==
    /\ tokens[m] # NoToken
    /\ tokens[m].stage \in Qualified
    /\ LET t == [tokens[m] EXCEPT !.stage = "APPROVED"]
       IN /\ tokens' = [tokens EXCEPT ![m] = t]
          /\ counters' = CountStage(counters, tokens[m], t)
    /\ UNCHANGED <<work, trades, workers>>

Queued == {o \in Facts : work[o].status \in {"PENDING", "PROCESSING"}}
Staged(S) == {m \in Mints : tokens[m].stage \in S}

\* What rebuild_discovery_projection counts.
Recount ==
    [observed |-> Cardinality(Staged(Stages)),
     queued_facts |-> Cardinality(Queued),
     approved |-> Cardinality(Staged({"APPROVED"})),
     qualified |-> Cardinality(Staged(Qualified)),
     processing_failures |-> Cardinality({o \in Facts : work[o].status = "FAILED"})]

\* The server rebuilds the counters when it starts, before any worker runs.
RebuildDiscoveryProjection ==
    /\ \A w \in Workers : workers[w].pc \in {"down", "ended"}
    /\ counters' = Recount
    /\ UNCHANGED <<work, tokens, trades, workers>>

-----------------------------------------------------------------------------

WorkerStep(w) ==
    \/ Claim(w)
    \/ RenewLease(w)
    \/ BeginCommit(w)
    \/ LockCommit(w)
    \/ CommitObservation(w)
    \/ BeginRetry(w)
    \/ LockRetry(w)
    \/ CommitRetry(w)

Fault(w) ==
    \/ FailObservation(w)
    \/ CommitUnacknowledged(w)
    \/ RetryUnacknowledged(w)
    \/ End(w)

Decision ==
    \/ \E m \in Mints : ApplyQualification(m, TRUE) \/ ApplyQualification(m, FALSE)
    \/ \E m \in Mints : ApproveToken(m)

Next ==
    \/ \E o \in Facts : InsertObservation(o) \/ BecomeDue(o) \/ LeaseExpires(o)
    \/ \E w \in Workers : Start(w) \/ WorkerStep(w) \/ Fault(w)
    \/ Decision
    \/ RebuildDiscoveryProjection

Spec == Init /\ [][Next]_vars

\* A started pipeline attempt runs its worker, statements are answered, and
\* the database clock passes every timer.
Fairness ==
    /\ \A w \in Workers : WF_vars(Start(w)) /\ WF_vars(WorkerStep(w))
    /\ \A o \in Facts : WF_vars(BecomeDue(o)) /\ WF_vars(LeaseExpires(o))

FairSpec == Spec /\ Fairness

-----------------------------------------------------------------------------

\* The counters that every transaction changes by a difference always equal
\* what rebuild_discovery_projection would count from the tables, whatever
\* workers claimed, lost, retried or committed without an answer.
CountersAgree == counters = Recount

Completed(S) == {o \in S : work[o].status = "COMPLETE"}

\* Every trade is counted in its market's activity exactly once, when its work
\* completes: a reclaimed lease, a repeated attempt or an unanswered commit
\* never applies it a second time.
EachTradeCountedOnce ==
    \A k \in Markets : trades[k] =
        Cardinality(Completed({o \in Facts : Fact[o].kind = "trade" /\ Fact[o].market = k}))

\* In whatever order its facts are projected, a token shows the market and the
\* slot of one of the newest, and the name if any of them had one.
TokenIsNewestFact ==
    \A m \in Mints :
        LET done == Completed({o \in Facts : Fact[o].mint = m})
            newest == {o \in done : \A p \in done : Fact[p].slot <= Fact[o].slot}
        IN IF done = {} THEN tokens[m] = NoToken
           ELSE /\ tokens[m] # NoToken
                /\ \E o \in newest : /\ tokens[m].slot = Fact[o].slot
                                     /\ tokens[m].market = Fact[o].market
                /\ tokens[m].named = (\E o \in done : Fact[o].kind = "create")

\* A row that will be retried has attempts left, and one that failed for good
\* has used them all up.
RetryBudget ==
    \A o \in Facts : /\ work[o].status = "PENDING" => work[o].attempts < MaxAttempts
                     /\ work[o].status = "FAILED" => work[o].attempts >= MaxAttempts

\* Work that is COMPLETE or FAILED stays so: a worker that lost its lease, or
\* the answer to its commit, cannot put it back into the queue.
TerminalIsFinal ==
    [][\A o \in Facts : work[o].status \in {"COMPLETE", "FAILED"} => work'[o] = work[o]]_vars

\* A decision never follows a token to another market: the step that changes
\* the market of a token leaves it OBSERVED.
DecisionStaysWithMarket ==
    [][\A m \in Mints :
         (tokens[m] # NoToken /\ tokens'[m] # NoToken /\ tokens'[m].market # tokens[m].market)
         => tokens'[m].stage = "OBSERVED"]_vars

\* Every fact that is enqueued is projected or failed for good, though workers
\* end with rows claimed, unless its lease was lost until the attempts counter
\* is full.
EveryFactSettles ==
    \A o \in Facts :
        work[o].status = "PENDING"
        ~> (work[o].status \in {"COMPLETE", "FAILED"} \/ work[o].attempts = AttemptCeiling)
=============================================================================

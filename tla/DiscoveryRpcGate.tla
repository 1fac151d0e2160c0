------------------------- MODULE DiscoveryRpcGate -------------------------
(***************************************************************************)
(* Admission of discovery reads: DiscoveryRpcGate of                       *)
(* apps/server/src/jobs/discovery_rpc.rs, shared by both sources for as    *)
(* long as the stream runs, and the part of collect_live_notification      *)
(* (jobs/collector.rs) that goes through it.                               *)
(*                                                                         *)
(* A task is one notification being processed.  The same signature may be  *)
(* delivered any number of times, by either subscription and at any time.  *)
(* A step runs a task up to its next await, its next lock or its next      *)
(* reading of the clock; what happens to its observation windows is in     *)
(* ObservationWindows.                                                     *)
(*                                                                         *)
(* The wall clock and the monotonic clock are one clock here: the code     *)
(* compares ages on the first and retention on the second, and they agree  *)
(* unless the wall clock is stepped.                                       *)
(***************************************************************************)
EXTENDS Naturals, Sequences, FiniteSets

CONSTANTS
    Tasks,            \* notifications in processing at the same time
    Signatures,       \* transaction signatures
    MaxAge,           \* maximum_discovery_age
    Skew,             \* MAX_SOURCE_CLOCK_SKEW
    Margin,           \* DISCOVERY_SIGNATURE_RETENTION_MARGIN
    Interval,         \* request_interval
    RateLimitCooldown,\* rate_limit_cooldown
    Permits,          \* maximum_in_flight
    MaxLag,           \* bound: how late a runnable task or a timer runs
    MaxTime           \* bound on the clock

ASSUME GateAssumption ==
    /\ MaxAge \in Nat /\ Skew \in Nat /\ Margin \in Nat /\ Interval \in Nat
    /\ RateLimitCooldown \in Nat /\ Permits \in Nat \ {0}
    /\ MaxLag \in Nat /\ MaxTime \in Nat

ASSUME SignaturesAssumption == Signatures # {}

\* Eleven seconds against ten: the margin covers the source's clock skew and
\* the delay between the freshness check and the claim.
ASSUME MarginAssumption == Skew + MaxLag < Margin

Times == 1..MaxTime
NoTime == 0

VARIABLES
    now,          \* the clock
    eventTime,    \* the time inside each discovery transaction
    task,         \* the tasks: what they process and how far they are
    values,       \* RecentSignatures: expiry of each claim held
    expirations,  \* RecentSignatures: the claims in order of expiry
    nextAllowed,  \* PacingState
    cooldown,     \* PacingState: cooldown_until
    attempts,     \* history: HTTP reads started per signature
    slot,         \* history: when the latest request slot was taken
    limited       \* history: when the latest rate limit was recorded

signatures == <<values, expirations>>
pacing == <<nextAllowed, cooldown>>
history == <<attempts, slot, limited>>
vars == <<now, eventTime, task, signatures, pacing, history>>

Stages == {"idle", "received", "fresh", "permit", "pacing", "admitted", "reading"}

\* receipt is received_time_unix_ms, deadline the end of the wait for admission
\* and wake the time that acquire sleeps until.
Task == [stage : Stages, sig : Signatures, receipt : Nat, deadline : Nat, wake : Nat]
Claim == [at : Nat, sig : Signatures]

TypeOK ==
    /\ now \in Nat
    /\ eventTime \in [Signatures -> Nat]
    /\ task \in [Tasks -> Task]
    /\ values \in [Signatures -> Nat]
    /\ expirations \in Seq(Claim)
    /\ nextAllowed \in Nat
    /\ cooldown \in Nat
    /\ attempts \in [Signatures -> Nat]
    /\ slot \in Nat
    /\ limited \in Nat

IdleTask == [stage |-> "idle", sig |-> CHOOSE s \in Signatures : TRUE,
             receipt |-> NoTime, deadline |-> NoTime, wake |-> NoTime]

Init ==
    /\ now = 1
    /\ eventTime \in [Signatures -> Times]
    /\ task = [t \in Tasks |-> IdleTask]
    /\ values = [s \in Signatures |-> NoTime]
    /\ expirations = << >>
    /\ nextAllowed = NoTime
    /\ cooldown = NoTime
    /\ attempts = [s \in Signatures |-> 0]
    /\ slot = NoTime
    /\ limited = NoTime

-----------------------------------------------------------------------------

\* Code without an await in it, and timers, run within MaxLag.
OnTime(k) ==
    /\ k.stage \in {"received", "fresh"} => now < k.receipt + MaxLag
    /\ k.stage \in {"permit", "pacing", "admitted"} => now < k.deadline + MaxLag

Tick ==
    /\ now < MaxTime
    /\ \A t \in Tasks : OnTime(task[t])
    /\ now' = now + 1
    /\ UNCHANGED <<eventTime, task, signatures, pacing, history>>

\* Task t gets from one stage to what k describes.
Move(t, from, k) ==
    /\ task[t].stage = from
    /\ task' = [task EXCEPT ![t] = k]
    /\ UNCHANGED <<now, eventTime>>

\* Either subscription yields the transaction's notification.
Deliver(t, s) ==
    /\ Move(t, "idle", [stage |-> "received", sig |-> s, receipt |-> now,
                        deadline |-> NoTime, wake |-> NoTime])
    /\ UNCHANGED <<signatures, pacing, history>>

DiscoveryEventIsFresh(s) == now <= eventTime[s] + MaxAge /\ eventTime[s] <= now + Skew

\* A stale discovery is dropped (or handled as activity, without a read).
ClassifyNotification(t) ==
    /\ Move(t, "received", IF DiscoveryEventIsFresh(task[t].sig)
                           THEN [task[t] EXCEPT !.stage = "fresh"] ELSE IdleTask)
    /\ UNCHANGED <<signatures, pacing, history>>

\* Mutant: claims are kept for the age limit alone.
RetentionOfAge == MaxAge

Retention == MaxAge + Margin

\* The positions that claim_at pops: the expired front of the queue.
Popped == {i \in 1..Len(expirations) : \A j \in 1..i : expirations[j].at <= now}
Kept == SubSeq(expirations, Cardinality(Popped) + 1, Len(expirations))

\* Mutant: an expired claim leaves the queue but not the map.
PoppedOnly == values

\* A popped entry frees its signature if it is the entry of the claim held.
Released ==
    [s \in Signatures |->
        IF \E i \in Popped : expirations[i].sig = s /\ expirations[i].at = values[s]
        THEN NoTime ELSE values[s]]

\* Mutant: the source's own deadline is left out.
ReceiptDeadline(k) == k.receipt + MaxAge

DiscoveryAdmissionDeadline(k) ==
    (IF eventTime[k.sig] < k.receipt THEN eventTime[k.sig] ELSE k.receipt) + MaxAge

\* A signature that is already claimed goes no further, and neither does a claim
\* made too late to wait at all.
ClaimSignature(t) ==
    LET k == task[t]
        end == DiscoveryAdmissionDeadline(k)
    IN
    /\ \/ /\ Released[k.sig] # NoTime
          /\ Move(t, "fresh", IdleTask)
          /\ values' = Released
          /\ expirations' = Kept
       \/ /\ Released[k.sig] = NoTime
          /\ Move(t, "fresh", IF now < end THEN [k EXCEPT !.stage = "permit", !.deadline = end]
                              ELSE IdleTask)
          /\ values' = [Released EXCEPT ![k.sig] = now + Retention]
          /\ expirations' = Append(Kept, [at |-> now + Retention, sig |-> k.sig])
    /\ UNCHANGED <<pacing, history>>

Holders == {t \in Tasks : task[t].stage \in {"pacing", "admitted", "reading"}}

AcquirePermit(t) ==
    /\ Cardinality(Holders) < Permits
    /\ Move(t, "permit", [task[t] EXCEPT !.stage = "pacing"])
    /\ UNCHANGED <<signatures, pacing, history>>

ReadyAt == IF nextAllowed < cooldown THEN cooldown ELSE nextAllowed

SleepUntilReady(t) ==
    /\ Move(t, "pacing", [task[t] EXCEPT !.wake = ReadyAt])
    /\ UNCHANGED <<pacing, slot>>

TakeSlot(t) ==
    /\ Move(t, "pacing", [task[t] EXCEPT !.stage = "admitted"])
    /\ nextAllowed' = now + Interval
    /\ cooldown' = IF cooldown <= now THEN NoTime ELSE cooldown
    /\ slot' = now

\* Mutant: the slot is taken after the first sleep, whatever happened meanwhile.
ReserveAfterSleep(t) ==
    /\ now >= task[t].wake
    /\ \/ ReadyAt > now /\ task[t].wake = NoTime /\ SleepUntilReady(t)
       \/ (ReadyAt <= now \/ task[t].wake # NoTime) /\ TakeSlot(t)
    /\ UNCHANGED <<signatures, attempts, limited>>

\* One round of acquire's loop, when the sleep of the round before is over.
ReserveIfReady(t) ==
    /\ now >= task[t].wake
    /\ \/ ReadyAt > now /\ SleepUntilReady(t)
       \/ ReadyAt <= now /\ TakeSlot(t)
    /\ UNCHANGED <<signatures, attempts, limited>>

\* The one HTTP read of the transaction.
StartRead(t) ==
    /\ Move(t, "admitted", [task[t] EXCEPT !.stage = "reading"])
    /\ attempts' = [attempts EXCEPT ![task[t].sig] = @ + 1]
    /\ UNCHANGED <<signatures, pacing, slot, limited>>

\* The provider answered with a rate limit, and the task is done.
RecordRateLimit(t) ==
    /\ Move(t, "reading", IdleTask)
    /\ cooldown' = IF cooldown < now + RateLimitCooldown THEN now + RateLimitCooldown ELSE cooldown
    /\ limited' = now
    /\ UNCHANGED <<signatures, nextAllowed, attempts, slot>>

\* The task ends: its wait or its read timed out, its read succeeded or failed,
\* its target has no newly opened window, or its source was cancelled.  A permit
\* it holds goes with it.
Finish(t) ==
    /\ \E from \in Stages \ {"idle"} : Move(t, from, IdleTask)
    /\ UNCHANGED <<signatures, pacing, history>>

TaskNext(t) ==
    \/ \E s \in Signatures : Deliver(t, s)
    \/ ClassifyNotification(t) \/ ClaimSignature(t) \/ AcquirePermit(t)
    \/ ReserveIfReady(t) \/ StartRead(t) \/ RecordRateLimit(t) \/ Finish(t)

Next == Tick \/ \E t \in Tasks : TaskNext(t)

Spec == Init /\ [][Next]_vars

-----------------------------------------------------------------------------

\* However often and whenever its notification is delivered, a transaction is
\* read over HTTP at most once: a claim is forgotten only when the discovery
\* can no longer pass the freshness check.
AtMostOneAttempt == \A s \in Signatures : attempts[s] <= 1

\* A discovery that ages out while it waits for a permit or a slot is not read:
\* a read starts at most MaxLag past the age limit.
AttemptIsFresh ==
    [][\A s \in Signatures :
         attempts'[s] # attempts[s] => now <= eventTime[s] + MaxAge + MaxLag]_vars

\* Request slots are at least an interval apart, and none is taken during the
\* cooldown that follows a recorded rate limit, even by a task that was already
\* asleep when the limit was recorded.
RequestsArePaced ==
    [][\A t \in Tasks : (task[t].stage = "pacing" /\ task'[t].stage = "admitted") =>
         /\ slot # NoTime => now >= slot + Interval
         /\ limited # NoTime => now >= limited + RateLimitCooldown]_vars

\* The map of claims and the queue of their expirations agree, and the queue is
\* in order, so that popping its expired front releases every expired claim.
ClaimsMatchQueue ==
    /\ \A s \in Signatures : values[s] # NoTime =>
          \E i \in 1..Len(expirations) : expirations[i] = [at |-> values[s], sig |-> s]
    /\ \A i \in 1..Len(expirations) : values[expirations[i].sig] = expirations[i].at
    /\ \A i, j \in 1..Len(expirations) : i < j =>
          expirations[i].at <= expirations[j].at /\ expirations[i].sig # expirations[j].sig
=============================================================================

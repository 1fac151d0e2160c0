------------------------ MODULE DurableWorkProofs ------------------------
(***************************************************************************)
(* Proofs about the durable queue and its projection, for any facts, any   *)
(* number of workers and any budget of attempts.                           *)
(***************************************************************************)
EXTENDS DurableWork, FiniteSetTheorems, TLAPS

\* A worker at one of these points has a row in hand; the lock is held at the
\* last two.
Locked == {"locked", "releasing"}
InHand == {"renewed", "begun", "failing", "retrying"} \cup Locked

\* Who holds the lock of a row owns it, so there is one holder at most.
HoldersOwn ==
    \A w \in Workers :
        /\ workers[w].pc \in InHand => workers[w].item \in Facts
        /\ workers[w].pc \in Locked => Owns(w, workers[w].item)

UnseenIsUntried == \A o \in Facts : work[o].status = "ABSENT" => work[o].attempts = 0

\* Only rows that wait for the clock have a timer.
SettledHasNoTimer ==
    \A o \in Facts : work[o].status \in {"COMPLETE", "FAILED"} => work[o].timer = "none"

\* The invariant the theorems rest on.
WorkInv ==
    /\ TypeOK
    /\ HoldersOwn
    /\ SettledHasNoTimer
    /\ UnseenIsUntried
    /\ RetryBudget

-----------------------------------------------------------------------------

\* The steps of one worker by what they do to the database.
Aside(w) ==
    /\ UNCHANGED database
    /\ Start(w) \/ RenewLease(w) \/ BeginCommit(w) \/ LockCommit(w) \/ BeginRetry(w)
       \/ LockRetry(w) \/ FailObservation(w) \/ End(w)
Project(w) == CommitObservation(w) \/ CommitUnacknowledged(w)
Retry(w) == CommitRetry(w) \/ RetryUnacknowledged(w)

\* Every step is of one of these kinds.
LEMMA StepKinds ==
  ASSUME Next
  PROVE  \/ \E o \in Facts : InsertObservation(o) \/ BecomeDue(o) \/ LeaseExpires(o)
         \/ \E w \in Workers : Aside(w) \/ Claim(w) \/ Project(w) \/ Retry(w)
         \/ Decision \/ RebuildDiscoveryProjection
<1>1. ASSUME NEW w \in Workers, Start(w) \/ WorkerStep(w) \/ Fault(w)
      PROVE  Aside(w) \/ Claim(w) \/ Project(w) \/ Retry(w)
  <2>1. CASE \/ Start(w) \/ RenewLease(w) \/ BeginCommit(w) \/ LockCommit(w) \/ BeginRetry(w)
             \/ LockRetry(w) \/ FailObservation(w) \/ End(w)
    <3>1. UNCHANGED database
      BY Zenon, <2>1 DEF Start, RenewLease, BeginCommit, LockCommit, BeginRetry, LockRetry,
                  FailObservation, End, BeginTransaction, Lock
    <3> QED  BY SMTT(20), <2>1, <3>1 DEF Aside
  <2> QED  BY <1>1, <2>1 DEF WorkerStep, Fault, Project, Retry
<1> QED  BY <1>1 DEF Next

\* A worker only takes a lock on a row that it owns, and drops it with any
\* step that writes the row.
LEMMA WorkerMoves ==
  ASSUME TypeOK, HoldersOwn, NEW w \in Workers, Aside(w) \/ Claim(w) \/ Project(w) \/ Retry(w)
  PROVE  /\ workers' \in [Workers -> Worker]
         /\ \A v \in Workers \ {w} : workers'[v] = workers[v]
         /\ workers'[w].pc \in InHand => workers'[w].item \in Facts
         /\ workers'[w].pc \in Locked => Aside(w) /\ Owns(w, workers'[w].item)
<1> DEFINE Goal(r) == /\ workers' = [workers EXCEPT ![w] = r]
                      /\ r \in Worker
                      /\ r.pc \in InHand => r.item \in Facts
                      /\ r.pc \in Locked => Aside(w) /\ Owns(w, r.item)
<1>0. workers \in [Workers -> Worker] /\ workers[w] \in Worker
  BY DEF TypeOK
<1> SUFFICES \E r : Goal(r)
  BY <1>0
<1>1. /\ workers[w].pc \in InHand => workers[w].item \in Facts
      /\ workers[w].claimed \in SUBSET Facts
  BY <1>0 DEF HoldersOwn, Worker
<1>2. CASE Start(w)
  <2> DEFINE r == [workers[w] EXCEPT !.pc = "claiming"]
  <2>1. workers' = [workers EXCEPT ![w] = r]
    BY <1>2 DEF Start
  <2>2. r \in Worker
    BY <1>0, <1>1, Zenon DEF Worker, NoFact, Locked
  <2>4. r.pc = "claiming"
    BY <1>0, <1>1 DEF Worker
  <2> HIDE DEF r
  <2> QED  BY Zenon, <2>1, <2>2, <2>4 DEF InHand, Locked
<1>3. CASE FailObservation(w) \/ CommitUnacknowledged(w)
  <2> DEFINE r == [workers[w] EXCEPT !.pc = "failing"]
  <2>1. workers' = [workers EXCEPT ![w] = r] /\ workers[w].pc \in InHand
    BY <1>3 DEF FailObservation, CommitUnacknowledged, InHand, Locked
  <2>2. r \in Worker
    BY <1>0, <1>1, Zenon DEF Worker, NoFact, Locked
  <2>4. r.pc = "failing" /\ r.item = workers[w].item
    BY <1>0, <1>1 DEF Worker
  <2> HIDE DEF r
  <2> QED  BY Zenon, <1>1, <2>1, <2>2, <2>4 DEF Locked
<1>4. CASE End(w) \/ RetryUnacknowledged(w)
  <2>1. workers' = [workers EXCEPT ![w] = Ended]
    BY <1>4 DEF End, RetryUnacknowledged
  <2>2. Ended \in Worker /\ Ended.pc = "ended"
    BY DEF Ended, Worker
  <2> QED  BY Zenon, <2>1, <2>2 DEF InHand, Locked
<1>5. ASSUME Continue(w)
      PROVE  \E r : Goal(r)
  <2> PICK p \in {"claiming", "next"} :
             p = IF workers[w].claimed = {} THEN "claiming" ELSE "next"
    OBVIOUS
  <2> DEFINE r == [workers[w] EXCEPT !.pc = p, !.item = NoFact, !.inTime = FALSE]
  <2>1. workers' = [workers EXCEPT ![w] = r]
    BY Zenon, <1>5 DEF Continue
  <2>2. r \in Worker
    BY <1>0, <1>1, Zenon DEF Worker, NoFact, Locked
  <2>4. r.pc = p
    BY <1>0, <1>1 DEF Worker
  <2> HIDE DEF r
  <2> QED  BY Zenon, <2>1, <2>2, <2>4 DEF InHand, Locked
<1>6. CASE Claim(w)
  <2> PICK batch \in SUBSET Facts :
             workers' = [workers EXCEPT ![w].pc = "next", ![w].claimed = batch]
    BY Zenon, <1>6 DEF Claim
  <2> DEFINE r == [workers[w] EXCEPT !.pc = "next", !.claimed = batch]
  <2>1. workers' = [workers EXCEPT ![w] = r]
    BY Zenon
  <2>2. r \in Worker
    BY <1>0, <1>1, Zenon DEF Worker, NoFact, Locked
  <2>4. r.pc = "next"
    BY <1>0, <1>1 DEF Worker
  <2> HIDE DEF r
  <2> QED  BY Zenon, <2>1, <2>2, <2>4 DEF InHand, Locked
<1>7. CASE RenewLease(w)
  <2> PICK o \in workers[w].claimed :
        LET rest == workers[w].claimed \ {o}
        IN IF Owns(w, o) /\ work[o].timer = "live"
           THEN workers' = [workers EXCEPT ![w].pc = "renewed", ![w].item = o, ![w].claimed = rest]
           ELSE workers' = [workers EXCEPT ![w].claimed = rest,
                              ![w].pc = IF rest = {} THEN "claiming" ELSE "next"]
    BY Zenon, <1>7 DEF RenewLease
  <2> DEFINE rest == workers[w].claimed \ {o}
             r == [workers[w] EXCEPT !.pc = "renewed", !.item = o, !.claimed = rest]
  <2>1. CASE workers' = [workers EXCEPT ![w] = r]
    <3>1. r \in Worker
      BY <1>0, <1>1, Zenon DEF Worker, NoFact, Locked
    <3>4. r.pc = "renewed" /\ r.item = o /\ o \in Facts
      BY <1>0, <1>1 DEF Worker
    <3> HIDE DEF r
    <3> QED  BY Zenon, <2>1, <3>1, <3>4 DEF InHand, Locked
  <2>2. ASSUME NEW p \in {"claiming", "next"},
               workers' = [workers EXCEPT ![w].claimed = rest, ![w].pc = p]
        PROVE  \E s : Goal(s)
    <3> DEFINE s == [workers[w] EXCEPT !.claimed = rest, !.pc = p]
    <3>1. workers' = [workers EXCEPT ![w] = s]
      BY Zenon, <2>2
    <3>2. s \in Worker
      BY <1>0, <1>1, Zenon DEF Worker, NoFact, Locked
    <3>4. s.pc = p
      BY <1>0, <1>1 DEF Worker
    <3> HIDE DEF s
    <3> QED  BY Zenon, <3>1, <3>2, <3>4 DEF InHand, Locked
  <2>3. \/ workers' = [workers EXCEPT ![w] = r]
        \/ \E p \in {"claiming", "next"} :
             workers' = [workers EXCEPT ![w].claimed = rest, ![w].pc = p]
    BY Zenon
  <2> QED  BY Zenon, <2>1, <2>2, <2>3
<1>8. ASSUME NEW from \in InHand, NEW to \in {"begun", "retrying"}, BeginTransaction(w, from, to)
      PROVE  \E r : Goal(r)
  <2> PICK b \in BOOLEAN : b = (Owns(w, workers[w].item) /\ work[workers[w].item].timer = "live")
    BY Zenon
  <2> DEFINE r == [workers[w] EXCEPT !.pc = to, !.inTime = b]
  <2>1. workers' = [workers EXCEPT ![w] = r] /\ workers[w].pc \in InHand
    BY Zenon, <1>8 DEF BeginTransaction
  <2>2. r \in Worker
    BY <1>0, <1>1, Zenon DEF Worker, NoFact, Locked
  <2>4. r.pc = to /\ r.item = workers[w].item
    BY <1>0, <1>1 DEF Worker
  <2> HIDE DEF r
  <2> QED  BY Zenon, <1>1, <2>1, <2>2, <2>4 DEF Locked
<1>9. ASSUME NEW from \in InHand, NEW to \in Locked, Lock(w, from, to), Aside(w)
      PROVE  \E r : Goal(r)
  <2> DEFINE r == [workers[w] EXCEPT !.pc = to]
  <2>1. CASE LockOwnedWork(w, workers[w].item)
    <3>1. workers' = [workers EXCEPT ![w] = r] /\ workers[w].pc \in InHand
          /\ Owns(w, workers[w].item)
      BY <1>9, <2>1 DEF Lock, LockOwnedWork
    <3>2. r \in Worker
      BY <1>0, <1>1, Zenon DEF Worker, NoFact, Locked
    <3>4. r.pc = to /\ r.item = workers[w].item
      BY <1>0, <1>1 DEF Worker
    <3> HIDE DEF r
    <3> QED  BY Zenon, <1>1, <1>9, <3>1, <3>2, <3>4
  <2> QED  BY <1>5, <1>9, <2>1 DEF Lock
<1> QED  BY <1>2, <1>3, <1>4, <1>5, <1>6, <1>7, <1>8, <1>9
         DEF Aside, Project, Retry, CommitObservation, CommitRetry, BeginCommit, BeginRetry,
             LockCommit, LockRetry, InHand, Locked

-----------------------------------------------------------------------------

\* What a step may do to the row of o: nothing, let its timer run out, insert
\* it, claim it while nobody holds it, or settle it or put it back under the
\* lock of its owner.
Kept(o) == work'[o] = work[o]
Timed(o) ==
    /\ work[o].timer \in {"waiting", "live"}
    /\ work'[o].status = work[o].status
    /\ work'[o].attempts = work[o].attempts
    /\ work'[o].owner = work[o].owner
Inserted(o) ==
    /\ work[o].status = "ABSENT" /\ work'[o].status = "PENDING"
    /\ work'[o].attempts = work[o].attempts
Claimed(o) == Claimable(o) /\ Holders(o) = {} /\ work'[o].status = "PROCESSING"
Completes(o) ==
    /\ \E w \in Workers : workers[w].pc = "locked" /\ workers[w].item = o /\ Project(w)
    /\ work'[o].status = "COMPLETE" /\ work'[o].timer = "none"
Fails(o) ==
    /\ \E w \in Workers : workers[w].pc = "releasing" /\ workers[w].item = o /\ Retry(w)
    /\ work'[o].status = "FAILED" /\ work'[o].timer = "none"
    /\ work'[o].attempts = work[o].attempts /\ work[o].attempts >= MaxAttempts
Requeues(o) ==
    /\ \E w \in Workers : workers[w].pc = "releasing" /\ workers[w].item = o /\ Retry(w)
    /\ work'[o].status = "PENDING"
    /\ work'[o].attempts = work[o].attempts /\ work[o].attempts < MaxAttempts

RowStep(o) ==
    /\ work'[o] \in Row
    /\ \/ Kept(o) \/ Timed(o) \/ Inserted(o) \/ Claimed(o)
       \/ Completes(o) \/ Fails(o) \/ Requeues(o)

\* What Finish leaves of a row.
LEMMA FinishReads ==
  ASSUME NEW r \in Row, NEW s \in {"PENDING", "COMPLETE", "FAILED"}
  PROVE  /\ Finish(r, s) \in Row /\ [Finish(r, s) EXCEPT !.timer = "waiting"] \in Row
         /\ Finish(r, s).status = s /\ Finish(r, s).attempts = r.attempts
         /\ Finish(r, s).timer = "none"
         /\ [Finish(r, s) EXCEPT !.timer = "waiting"].status = s
         /\ [Finish(r, s) EXCEPT !.timer = "waiting"].attempts = r.attempts
<1> DEFINE f == [r EXCEPT !.status = s, !.owner = NoWorker, !.timer = "none"]
<1>1. f \in Row
  BY Zenon DEF Row
<1>2. f.status = s /\ f.attempts = r.attempts /\ f.timer = "none"
  BY DEF Row
<1> HIDE DEF f
<1>3. [f EXCEPT !.timer = "waiting"] \in Row
  BY <1>1, Zenon DEF Row
<1>4. [f EXCEPT !.timer = "waiting"].status = f.status
      /\ [f EXCEPT !.timer = "waiting"].attempts = f.attempts
  BY <1>1 DEF Row
<1> QED  BY <1>1, <1>2, <1>3, <1>4 DEF Finish, f

\* Every step treats every row in one of these ways.
LEMMA RowSteps ==
  ASSUME TypeOK, HoldersOwn, Next
  PROVE  /\ \A o \in Facts : RowStep(o)
         /\ work' \in [Facts -> Row]
<1>0. work \in [Facts -> Row]
  BY DEF TypeOK
<1> SUFFICES (\A o \in Facts : RowStep(o)) /\ work' = [q \in Facts |-> work'[q]]
  BY DEF RowStep
<1>2. CASE UNCHANGED work
  BY <1>0, <1>2 DEF RowStep, Kept
<1>3. ASSUME NEW p \in Facts, InsertObservation(p)
      PROVE  (\A o \in Facts : RowStep(o)) /\ work' = [q \in Facts |-> work'[q]]
  <2> DEFINE r == [work[p] EXCEPT !.status = "PENDING", !.timer = "due"]
  <2>1. work' = [work EXCEPT ![p] = r] /\ work[p].status = "ABSENT"
    BY Zenon, <1>3 DEF InsertObservation
  <2>2. r \in Row
    BY <1>0, Zenon DEF Row
  <2>3. r.status = "PENDING" /\ r.attempts = work[p].attempts
    BY <1>0 DEF Row
  <2> HIDE DEF r
  <2> QED  BY Zenon, <1>0, <2>1, <2>2, <2>3 DEF RowStep, Kept, Inserted
<1>4. ASSUME NEW p \in Facts, BecomeDue(p) \/ LeaseExpires(p)
      PROVE  (\A o \in Facts : RowStep(o)) /\ work' = [q \in Facts |-> work'[q]]
  <2> PICK t \in {"due", "expired"} :
             work' = [work EXCEPT ![p].timer = t] /\ work[p].timer \in {"waiting", "live"}
    BY <1>4 DEF BecomeDue, LeaseExpires
  <2> DEFINE r == [work[p] EXCEPT !.timer = t]
  <2>1. work' = [work EXCEPT ![p] = r]
    OBVIOUS
  <2>2. r \in Row
    BY <1>0, Zenon DEF Row
  <2>3. r.status = work[p].status /\ r.attempts = work[p].attempts /\ r.owner = work[p].owner
    BY <1>0 DEF Row
  <2> HIDE DEF r
  <2> QED  BY Zenon, <1>0, <2>1, <2>2, <2>3 DEF RowStep, Kept, Timed
<1>5. ASSUME NEW w \in Workers, Claim(w)
      PROVE  (\A o \in Facts : RowStep(o)) /\ work' = [q \in Facts |-> work'[q]]
  <2> PICK batch \in SUBSET {p \in Facts : Claimable(p) /\ Holders(p) = {}} :
             work' = [p \in Facts |->
                        IF p \in batch
                        THEN [status |-> "PROCESSING", attempts |-> work[p].attempts + 1,
                              owner |-> w, timer |-> "live"]
                        ELSE work[p]]
    BY <1>5 DEF Claim
  <2> SUFFICES ASSUME NEW o \in Facts PROVE RowStep(o)
    OBVIOUS
  <2>1. CASE o \in batch
    <3>1. work'[o] = [status |-> "PROCESSING", attempts |-> work[o].attempts + 1,
                      owner |-> w, timer |-> "live"]
      BY <2>1
    <3>2. work[o].attempts + 1 \in Nat
      BY <1>0 DEF Row
    <3>3. work'[o] \in Row /\ work'[o].status = "PROCESSING"
      BY <3>1, <3>2 DEF Row
    <3> QED  BY <2>1, <3>3 DEF RowStep, Claimed
  <2>2. CASE o \notin batch
    BY <1>0, <2>2 DEF RowStep, Kept
  <2> QED  BY <2>1, <2>2
<1>6. ASSUME NEW w \in Workers, Project(w)
      PROVE  (\A o \in Facts : RowStep(o)) /\ work' = [q \in Facts |-> work'[q]]
  <2>1. workers[w].pc = "locked" /\ ProjectObservation(workers[w].item)
    BY <1>6 DEF Project, CommitObservation, CommitUnacknowledged
  <2> PICK p \in Facts : p = workers[w].item
    BY <2>1 DEF HoldersOwn, InHand, Locked
  <2> DEFINE r == Finish(work[p], "COMPLETE")
  <2>2. work' = [work EXCEPT ![p] = r]
    BY <2>1 DEF ProjectObservation
  <2>3. r \in Row /\ r.status = "COMPLETE" /\ r.timer = "none"
    BY Zenon, <1>0, FinishReads
  <2> HIDE DEF r
  <2> QED  BY Zenon, <1>0, <1>6, <2>1, <2>2, <2>3 DEF RowStep, Kept, Completes
<1>7. ASSUME NEW w \in Workers, Retry(w)
      PROVE  (\A o \in Facts : RowStep(o)) /\ work' = [q \in Facts |-> work'[q]]
  <2>1. workers[w].pc = "releasing" /\ Release(workers[w].item)
    BY <1>7 DEF Retry, CommitRetry, RetryUnacknowledged
  <2> PICK p \in Facts : p = workers[w].item
    BY <2>1 DEF HoldersOwn, InHand, Locked
  <2>2. work[p].attempts \in Nat
    BY <1>0 DEF Row
  <2>3. CASE work[p].attempts >= MaxAttempts
    <3> DEFINE r == Finish(work[p], "FAILED")
    <3>1. work' = [work EXCEPT ![p] = r]
      BY <2>1, <2>3 DEF Release
    <3>2. r \in Row /\ r.status = "FAILED" /\ r.timer = "none" /\ r.attempts = work[p].attempts
      BY Zenon, <1>0, FinishReads
    <3> HIDE DEF r
    <3> QED  BY Zenon, <1>0, <1>7, <2>1, <2>3, <3>1, <3>2 DEF RowStep, Kept, Fails
  <2>4. CASE ~(work[p].attempts >= MaxAttempts)
    <3> DEFINE r == [Finish(work[p], "PENDING") EXCEPT !.timer = "waiting"]
    <3>1. work' = [work EXCEPT ![p] = r]
      BY <2>1, <2>4 DEF Release
    <3>2. r \in Row /\ r.status = "PENDING" /\ r.attempts = work[p].attempts
      BY Zenon, <1>0, FinishReads
    <3>3. work[p].attempts < MaxAttempts
      BY <2>2, <2>4, WorkAssumption
    <3> HIDE DEF r
    <3> QED  BY Zenon, <1>0, <1>7, <2>1, <3>1, <3>2, <3>3 DEF RowStep, Kept, Requeues
  <2> QED  BY <2>3, <2>4
<1>8. CASE Decision \/ RebuildDiscoveryProjection
  BY Zenon, <1>2, <1>8 DEF Decision, ApplyQualification, ApproveToken, RebuildDiscoveryProjection
<1>9. ASSUME NEW w \in Workers, Aside(w)
      PROVE  UNCHANGED work
  BY <1>9 DEF Aside, database
<1> QED  BY <1>2, <1>3, <1>4, <1>5, <1>6, <1>7, <1>8, <1>9, StepKinds

\* The locks keep their meaning: nobody changes a row that somebody holds.
LEMMA HoldersStep ==
  ASSUME TypeOK, HoldersOwn, Next
  PROVE  HoldersOwn' /\ workers' \in [Workers -> Worker]
<1>1. ASSUME NEW u \in Workers, Project(u) \/ Retry(u), workers'[u].pc \in Locked
      PROVE  UNCHANGED work
  BY <1>1, WorkerMoves DEF Aside, database
<1>2. /\ workers' \in [Workers -> Worker]
      /\ \A v \in Workers : \/ workers'[v] = workers[v]
                            \/ /\ workers'[v].pc \in InHand => workers'[v].item \in Facts
                               /\ workers'[v].pc \in Locked =>
                                    UNCHANGED work /\ Owns(v, workers'[v].item)
  <2>1. CASE UNCHANGED workers
    BY <2>1 DEF TypeOK
  <2>2. ASSUME NEW w \in Workers, Aside(w) \/ Claim(w) \/ Project(w) \/ Retry(w)
        PROVE  /\ workers' \in [Workers -> Worker]
               /\ \A v \in Workers \ {w} : workers'[v] = workers[v]
               /\ workers'[w].pc \in InHand => workers'[w].item \in Facts
               /\ workers'[w].pc \in Locked => UNCHANGED work /\ Owns(w, workers'[w].item)
    BY <2>2, WorkerMoves DEF Aside, database
  <2>3. CASE Decision \/ RebuildDiscoveryProjection
             \/ \E o \in Facts : InsertObservation(o) \/ BecomeDue(o) \/ LeaseExpires(o)
    BY Zenon, <2>1, <2>3 DEF Decision, ApplyQualification, ApproveToken, RebuildDiscoveryProjection,
                      InsertObservation, BecomeDue, LeaseExpires
  <2> QED  BY <2>2, <2>3, StepKinds
<1>3. ASSUME NEW v \in Workers, workers'[v] = workers[v]
      PROVE  /\ workers'[v].pc \in InHand => workers'[v].item \in Facts
             /\ workers'[v].pc \in Locked => Owns(v, workers[v].item)'
  <2>1. workers'[v].pc \in InHand => workers'[v].item \in Facts
    BY <1>3 DEF HoldersOwn
  <2> SUFFICES ASSUME workers[v].pc \in Locked
               PROVE  Owns(v, workers[v].item)'
    BY <1>3, <2>1 DEF Owns
  <2> PICK o \in Facts : o = workers[v].item
    BY DEF HoldersOwn, InHand
  <2>2. Owns(v, o) /\ v \in Holders(o)
    BY DEF HoldersOwn, Holders, Locked
  <2>3. ASSUME NEW u \in Workers, workers[u].pc \in Locked, workers[u].item = o,
               Project(u) \/ Retry(u)
        PROVE  UNCHANGED work
    <3>1. u = v
      BY <2>2, <2>3 DEF HoldersOwn, Owns
    <3> QED  BY <1>1, <1>3, <2>3, <3>1
  <2>4. RowStep(o)
    BY RowSteps
  <2>5. work'[o].status = "PROCESSING" /\ work'[o].owner = v
    <3>1. CASE Kept(o) \/ Timed(o)
      BY <2>2, <3>1 DEF Kept, Timed, Owns
    <3>2. CASE Inserted(o) \/ Claimed(o)
      BY SMTT(20), <2>2, <3>2 DEF Inserted, Claimed, Owns
    <3>3. CASE Completes(o) \/ Fails(o) \/ Requeues(o)
      BY <2>2, <2>3, <3>3 DEF Completes, Fails, Requeues, Owns, Locked
    <3> QED  BY <2>4, <3>1, <3>2, <3>3 DEF RowStep
  <2> QED  BY <1>3, <2>5 DEF Owns
<1>4. ASSUME NEW v \in Workers
      PROVE  /\ workers'[v].pc \in InHand => workers'[v].item \in Facts
             /\ workers'[v].pc \in Locked => Owns(v, workers[v].item)'
  <2>1. CASE workers'[v] = workers[v]
    BY <1>3, <2>1
  <2>2. CASE /\ workers'[v].pc \in InHand => workers'[v].item \in Facts
             /\ workers'[v].pc \in Locked => UNCHANGED work /\ Owns(v, workers'[v].item)
    BY <2>2 DEF Owns
  <2> QED  BY <1>2, <2>1, <2>2
<1> QED  BY <1>2, <1>4 DEF HoldersOwn, Owns

\* The facts about settled and unseen rows, and the budget, survive every step.
LEMMA RowsStep ==
  ASSUME WorkInv, Next
  PROVE  SettledHasNoTimer' /\ UnseenIsUntried' /\ RetryBudget'
<1> SUFFICES ASSUME NEW o \in Facts
             PROVE  /\ work'[o].status \in {"COMPLETE", "FAILED"} => work'[o].timer = "none"
                    /\ work'[o].status = "ABSENT" => work'[o].attempts = 0
                    /\ work'[o].status = "PENDING" => work'[o].attempts < MaxAttempts
                    /\ work'[o].status = "FAILED" => work'[o].attempts >= MaxAttempts
  BY DEF SettledHasNoTimer, UnseenIsUntried, RetryBudget
<1>1. RowStep(o)
  BY RowSteps DEF WorkInv
<1>2. /\ work[o].status \in {"COMPLETE", "FAILED"} => work[o].timer = "none"
      /\ work[o].status = "ABSENT" => work[o].attempts = 0
      /\ work[o].status = "PENDING" => work[o].attempts < MaxAttempts
      /\ work[o].status = "FAILED" => work[o].attempts >= MaxAttempts
  BY DEF WorkInv, SettledHasNoTimer, UnseenIsUntried, RetryBudget
<1>3. 0 < MaxAttempts
  BY WorkAssumption
<1> QED  BY <1>1, <1>2, <1>3
         DEF RowStep, Kept, Timed, Inserted, Claimed, Completes, Fails, Requeues

-----------------------------------------------------------------------------

\* The candidates.
LEMMA ProjectedType ==
  ASSUME NEW stored \in TokenRow \cup {NoToken},
         NEW f \in [mint : Mints, market : Markets, slot : Nat, kind : Kinds]
  PROVE  Projected(stored, f) \in TokenRow
<1> DEFINE c == Candidate(f)
<1>1. c \in TokenRow
  BY DEF Candidate, TokenRow, Stages
<1>2. ASSUME NEW b \in BOOLEAN, stored \in TokenRow
      PROVE  [stored EXCEPT !.named = b] \in TokenRow
  BY <1>2, Zenon DEF TokenRow
<1>3. ASSUME NEW b \in BOOLEAN, NEW s \in Stages
      PROVE  [c EXCEPT !.named = b, !.stage = s] \in TokenRow
  BY <1>1, <1>3, Zenon DEF TokenRow
<1>4. stored # NoToken => stored \in TokenRow
  OBVIOUS
<1>5. stored \in TokenRow => stored.named \in BOOLEAN
  BY DEF TokenRow
<1>6. c.stage \in Stages
  BY <1>1 DEF TokenRow
<1> HIDE DEF c
<1>7. stored # NoToken => EnrichMetadataFromStaleCreation(stored, f) \in TokenRow
  BY Zenon, <1>2, <1>4 DEF EnrichMetadataFromStaleCreation
<1>8. stored # NoToken => MergeObservation(stored, c) \in TokenRow
  <2>1. (IF stored.stage \in Qualified /\ stored.market = c.market THEN stored.stage ELSE c.stage)
           \in Stages
    BY <1>6 DEF Qualified, Stages
  <2> QED  BY Zenon, <1>3, <2>1 DEF MergeObservation
<1> QED  BY <1>1, <1>7, <1>8 DEF Projected, c

\* How the counters follow a change of the candidate from row `stored' to row t.
Won(stored, t, S) == IF stored.stage \notin S /\ t.stage \in S THEN 1 ELSE 0
Lost(stored, t, S) == IF stored.stage \in S /\ t.stage \notin S THEN 1 ELSE 0

\* The counters after a change of stage, number by number.
LEMMA CountStageReads ==
  ASSUME NEW c \in Counters, NEW stored, NEW t
  PROVE  /\ CountStage(c, stored, t) \in Counters
         /\ CountStage(c, stored, t).queued_facts = c.queued_facts
         /\ CountStage(c, stored, t).processing_failures = c.processing_failures
         /\ CountStage(c, stored, t).observed = c.observed + Won(stored, t, Stages)
         /\ CountStage(c, stored, t).approved =
              Less(c.approved + Won(stored, t, {"APPROVED"}), Lost(stored, t, {"APPROVED"}))
         /\ CountStage(c, stored, t).qualified =
              Less(c.qualified + Won(stored, t, Qualified), Lost(stored, t, Qualified))
<1> DEFINE a == Less(c.approved + Won(stored, t, {"APPROVED"}), Lost(stored, t, {"APPROVED"}))
           q == Less(c.qualified + Won(stored, t, Qualified), Lost(stored, t, Qualified))
           n == c.observed + Won(stored, t, Stages)
           d == [c EXCEPT !.approved = a, !.qualified = q, !.observed = n]
<1>1. CountStage(c, stored, t) = d
  BY DEF CountStage, Won, Lost
<1>2. c.approved \in Nat /\ c.qualified \in Nat /\ c.observed \in Nat
  BY DEF Counters
<1>3. a \in Nat /\ q \in Nat /\ n \in Nat
  BY <1>2 DEF Less, Won, Lost
<1> HIDE DEF a, q, n
<1>4. d \in Counters
  BY <1>3, Zenon DEF Counters
<1>5. /\ d.approved = a /\ d.qualified = q /\ d.observed = n
      /\ d.queued_facts = c.queued_facts /\ d.processing_failures = c.processing_failures
  BY DEF Counters
<1> QED  BY <1>1, <1>4, <1>5 DEF a, q, n

\* Each of these changes a counter of the queue.
LEMMA QueueReads ==
  ASSUME NEW c \in Counters, NEW n \in Nat, NEW k \in Nat
  PROVE  /\ [c EXCEPT !.queued_facts = n] \in Counters
         /\ [c EXCEPT !.queued_facts = n].queued_facts = n
         /\ [c EXCEPT !.queued_facts = n].processing_failures = c.processing_failures
         /\ [c EXCEPT !.queued_facts = n].observed = c.observed
         /\ [c EXCEPT !.queued_facts = n].approved = c.approved
         /\ [c EXCEPT !.queued_facts = n].qualified = c.qualified
         /\ [c EXCEPT !.queued_facts = n, !.processing_failures = k] \in Counters
         /\ [c EXCEPT !.queued_facts = n, !.processing_failures = k].queued_facts = n
         /\ [c EXCEPT !.queued_facts = n, !.processing_failures = k].processing_failures = k
         /\ [c EXCEPT !.queued_facts = n, !.processing_failures = k].observed = c.observed
         /\ [c EXCEPT !.queued_facts = n, !.processing_failures = k].approved = c.approved
         /\ [c EXCEPT !.queued_facts = n, !.processing_failures = k].qualified = c.qualified
<1>1. /\ [c EXCEPT !.queued_facts = n] \in Counters
      /\ [c EXCEPT !.queued_facts = n, !.processing_failures = k] \in Counters
  BY ZenonT(30) DEF Counters
<1> QED  BY <1>1 DEF Counters

\* What the steps do to the candidates, the activity and the counters.
LEMMA ProjectWrites ==
  ASSUME TypeOK, HoldersOwn, NEW w \in Workers, Project(w)
  PROVE  LET o == workers[w].item
             m == Fact[o].mint
             t == Projected(tokens[m], Fact[o])
         IN /\ o \in Facts /\ work[o].status = "PROCESSING" /\ m \in Mints
            /\ Fact[o] \in [mint : Mints, market : Markets, slot : Nat, kind : Kinds]
            /\ t \in TokenRow
            /\ tokens' = [tokens EXCEPT ![m] = t]
            /\ trades' = IF Fact[o].kind = "trade" THEN [trades EXCEPT ![Fact[o].market] = @ + 1]
                         ELSE trades
            /\ counters' = CountCompleted(counters, tokens[m], t)
            /\ work' = [work EXCEPT ![o] = Finish(work[o], "COMPLETE")]
<1>1. workers[w].pc = "locked" /\ ProjectObservation(workers[w].item)
  BY DEF Project, CommitObservation, CommitUnacknowledged
<1>2. workers[w].item \in Facts /\ work[workers[w].item].status = "PROCESSING"
  BY <1>1 DEF HoldersOwn, InHand, Locked, Owns
<1>3. /\ Fact[workers[w].item] \in [mint : Mints, market : Markets, slot : Nat, kind : Kinds]
      /\ Fact[workers[w].item].mint \in Mints
  BY Zenon, <1>2, FactsAssumption
<1>4. Projected(tokens[Fact[workers[w].item].mint], Fact[workers[w].item]) \in TokenRow
  BY Zenon, <1>3, ProjectedType DEF TypeOK
<1> QED  BY Zenon, <1>1, <1>2, <1>3, <1>4 DEF ProjectObservation

\* What giving a row back writes.
LEMMA RetryWrites ==
  ASSUME TypeOK, HoldersOwn, NEW w \in Workers, Retry(w)
  PROVE  LET o == workers[w].item
         IN /\ o \in Facts /\ work[o].status = "PROCESSING" /\ UNCHANGED <<tokens, trades>>
            /\ \/ /\ work' = [work EXCEPT ![o] = Finish(work[o], "FAILED")]
                  /\ counters' = [counters EXCEPT
                                    !.queued_facts = Less(counters.queued_facts, 1),
                                    !.processing_failures = counters.processing_failures + 1]
               \/ /\ work' = [work EXCEPT ![o] = [Finish(work[o], "PENDING") EXCEPT
                                                   !.timer = "waiting"]]
                  /\ UNCHANGED counters
<1>1. workers[w].pc = "releasing" /\ Release(workers[w].item) /\ UNCHANGED <<tokens, trades>>
  BY DEF Retry, CommitRetry, RetryUnacknowledged
<1>2. workers[w].item \in Facts /\ work[workers[w].item].status = "PROCESSING"
  BY <1>1 DEF HoldersOwn, InHand, Locked, Owns
<1> QED  BY <1>1, <1>2 DEF Release

\* What a decision writes.
LEMMA DecisionWrites ==
  ASSUME TypeOK, Decision
  PROVE  /\ UNCHANGED <<work, trades, workers>>
         /\ \E m \in Mints : \E s \in Stages :
              LET t == [tokens[m] EXCEPT !.stage = s]
              IN /\ tokens[m] # NoToken /\ tokens[m] \in TokenRow /\ t \in TokenRow
                 /\ tokens' = [tokens EXCEPT ![m] = t]
                 /\ counters' = CountStage(counters, tokens[m], t)
<1>1. ASSUME NEW m \in Mints, NEW s \in Stages, tokens[m] # NoToken
      PROVE  tokens[m] \in TokenRow /\ [tokens[m] EXCEPT !.stage = s] \in TokenRow
  <2>1. tokens[m] \in TokenRow
    BY <1>1 DEF TypeOK
  <2> QED  BY <2>1, Zenon DEF TokenRow
<1>2. ASSUME NEW m \in Mints, NEW pass \in BOOLEAN, ApplyQualification(m, pass)
      PROVE  \E s \in Stages :
               LET t == [tokens[m] EXCEPT !.stage = s]
               IN /\ tokens[m] # NoToken
                  /\ tokens' = [tokens EXCEPT ![m] = t]
                  /\ counters' = CountStage(counters, tokens[m], t)
  BY Zenon, <1>2 DEF ApplyQualification, Stages
<1>3. ASSUME NEW m \in Mints, ApproveToken(m)
      PROVE  LET t == [tokens[m] EXCEPT !.stage = "APPROVED"]
             IN /\ tokens[m] # NoToken /\ "APPROVED" \in Stages
                /\ tokens' = [tokens EXCEPT ![m] = t]
                /\ counters' = CountStage(counters, tokens[m], t)
  BY <1>3 DEF ApproveToken, Stages
<1>4. UNCHANGED <<work, trades, workers>>
  BY Zenon DEF Decision, ApplyQualification, ApproveToken
<1> QED  BY Zenon, <1>1, <1>2, <1>3, <1>4 DEF Decision

-----------------------------------------------------------------------------

\* Numbers stay numbers.
LEMMA LessType ==
  ASSUME NEW a \in Nat, NEW b \in Nat
  PROVE  Less(a, b) \in Nat
  BY DEF Less

\* The counters after a projection, next to those of its change of stage.
LEMMA CompletedReads ==
  ASSUME NEW c \in Counters, NEW stored, NEW t
  PROVE  LET d == CountCompleted(c, stored, t)
             b == CountStage(c, stored, t)
         IN /\ d \in Counters
            /\ d.queued_facts = Less(c.queued_facts, 1)
            /\ d.processing_failures = c.processing_failures
            /\ d.observed = b.observed /\ d.approved = b.approved /\ d.qualified = b.qualified
<1> PICK b \in Counters : b = CountStage(c, stored, t)
  BY CountStageReads
<1>1. b.queued_facts = c.queued_facts /\ b.processing_failures = c.processing_failures
  BY CountStageReads
<1>2. Less(c.queued_facts, 1) \in Nat
  BY Zenon, LessType DEF Counters
<1> PICK n \in Nat : n = Less(c.queued_facts, 1)
  BY <1>2
<1> DEFINE d == [b EXCEPT !.queued_facts = n]
<1>3. CountCompleted(c, stored, t) = d
  BY <1>1 DEF CountCompleted
<1>4. /\ d \in Counters /\ d.queued_facts = n
      /\ d.processing_failures = b.processing_failures
      /\ d.observed = b.observed /\ d.approved = b.approved /\ d.qualified = b.qualified
  <2>1. d \in Counters
    BY Zenon DEF Counters
  <2>2. /\ d.queued_facts = n /\ d.processing_failures = b.processing_failures
        /\ d.observed = b.observed /\ d.approved = b.approved /\ d.qualified = b.qualified
    BY ONLY b \in Counters, n \in Nat DEF Counters
  <2> QED  BY <2>1, <2>2
<1> HIDE DEF d
<1> QED  BY <1>1, <1>3, <1>4

\* What a rebuild counts are numbers.
LEMMA RecountType == Recount \in Counters
<1>1. /\ IsFiniteSet(Queued) /\ IsFiniteSet({o \in Facts : work[o].status = "FAILED"})
      /\ \A S : IsFiniteSet(Staged(S))
  BY FactsAssumption, FS_Subset DEF Queued, Staged
<1>2. /\ Cardinality(Queued) \in Nat
      /\ Cardinality({o \in Facts : work[o].status = "FAILED"}) \in Nat
      /\ Cardinality(Staged(Stages)) \in Nat /\ Cardinality(Staged({"APPROVED"})) \in Nat
      /\ Cardinality(Staged(Qualified)) \in Nat
  BY <1>1, FS_CardinalityType
<1> QED  BY <1>2 DEF Recount, Counters

\* Every step keeps the types.
LEMMA TypeStep ==
  ASSUME TypeOK, HoldersOwn, Next
  PROVE  TypeOK'
<1>0. /\ tokens \in [Mints -> TokenRow \cup {NoToken}] /\ trades \in [Markets -> Nat]
      /\ counters \in Counters
  BY DEF TypeOK
<1>1. work' \in [Facts -> Row] /\ workers' \in [Workers -> Worker]
  BY RowSteps, HoldersStep
<1> SUFFICES /\ tokens' \in [Mints -> TokenRow \cup {NoToken}] /\ trades' \in [Markets -> Nat]
             /\ counters' \in Counters
  BY <1>1 DEF TypeOK
<1>2. CASE UNCHANGED <<tokens, trades, counters>>
  BY SMTT(20), <1>0, <1>2
<1>3. ASSUME NEW o \in Facts, InsertObservation(o)
      PROVE  UNCHANGED <<tokens, trades>> /\ counters' \in Counters
  <2>1. counters.queued_facts + 1 \in Nat
    BY <1>0 DEF Counters
  <2> QED  BY Zenon, <1>0, <1>3, <2>1, QueueReads DEF InsertObservation
<1>4. ASSUME NEW w \in Workers, Project(w)
      PROVE  /\ tokens' \in [Mints -> TokenRow \cup {NoToken}] /\ trades' \in [Markets -> Nat]
             /\ counters' \in Counters
  <2> DEFINE o == workers[w].item
             m == Fact[o].mint
             t == Projected(tokens[m], Fact[o])
  <2>1. /\ Fact[o] \in [mint : Mints, market : Markets, slot : Nat, kind : Kinds]
        /\ m \in Mints /\ t \in TokenRow /\ tokens' = [tokens EXCEPT ![m] = t]
        /\ trades' = IF Fact[o].kind = "trade" THEN [trades EXCEPT ![Fact[o].market] = @ + 1]
                     ELSE trades
        /\ counters' = CountCompleted(counters, tokens[m], t)
    BY SMTT(20), <1>4, ProjectWrites
  <2>2. counters' \in Counters
    BY Zenon, <1>0, <2>1, CompletedReads
  <2> HIDE DEF o, t, m
  <2>3. tokens' \in [Mints -> TokenRow \cup {NoToken}]
    BY <1>0, <2>1
  <2>4. trades' \in [Markets -> Nat]
    BY <1>0, <2>1
  <2> QED  BY SMTT(20), <2>2, <2>3, <2>4
<1>5. ASSUME NEW w \in Workers, Retry(w)
      PROVE  UNCHANGED <<tokens, trades>> /\ counters' \in Counters
  <2>1. counters.queued_facts \in Nat /\ counters.processing_failures \in Nat
    BY <1>0 DEF Counters
  <2>3. Less(counters.queued_facts, 1) \in Nat /\ counters.processing_failures + 1 \in Nat
    BY <2>1 DEF Less
  <2> PICK n \in Nat : n = Less(counters.queued_facts, 1)
    BY <2>3
  <2> PICK k \in Nat : k = counters.processing_failures + 1
    BY <2>3
  <2>2. /\ UNCHANGED <<tokens, trades>>
        /\ \/ counters' = [counters EXCEPT !.queued_facts = n, !.processing_failures = k]
           \/ UNCHANGED counters
    BY Zenon, <1>5, RetryWrites
  <2>4. [counters EXCEPT !.queued_facts = n, !.processing_failures = k] \in Counters
    BY Zenon, <1>0, QueueReads
  <2> QED  BY <1>0, <2>2, <2>4
<1>6. CASE Decision
  <2> PICK m \in Mints, s \in Stages :
             LET t == [tokens[m] EXCEPT !.stage = s]
             IN /\ t \in TokenRow
                /\ tokens' = [tokens EXCEPT ![m] = t]
                /\ counters' = CountStage(counters, tokens[m], t)
    BY <1>6, DecisionWrites
  <2> PICK t \in TokenRow : t = [tokens[m] EXCEPT !.stage = s]
    OBVIOUS
  <2>1. tokens' = [tokens EXCEPT ![m] = t] /\ counters' = CountStage(counters, tokens[m], t)
    OBVIOUS
  <2>2. UNCHANGED trades
    BY <1>6, DecisionWrites
  <2> QED  BY <1>0, <2>1, <2>2, CountStageReads
<1>7. CASE RebuildDiscoveryProjection
  BY <1>0, <1>7, RecountType DEF RebuildDiscoveryProjection
<1>8. ASSUME NEW o \in Facts, BecomeDue(o) \/ LeaseExpires(o)
      PROVE  UNCHANGED <<tokens, trades, counters>>
  BY <1>8 DEF BecomeDue, LeaseExpires
<1>9. ASSUME NEW w \in Workers, Aside(w) \/ Claim(w)
      PROVE  UNCHANGED <<tokens, trades, counters>>
  BY <1>9 DEF Aside, Claim, database
<1> QED  BY <1>0, <1>2, <1>3, <1>4, <1>5, <1>6, <1>7, <1>8, <1>9, StepKinds

\* Nothing is queued at first.
LEMMA WorkInvInit == Init => WorkInv
<1> SUFFICES ASSUME Init PROVE WorkInv
  OBVIOUS
<1>1. TypeOK
  <2>1. work \in [Facts -> Row]
    BY DEF Init, AbsentRow, Row
  <2>2. workers \in [Workers -> Worker]
    BY DEF Init, Worker
  <2>3. counters \in Counters /\ trades \in [Markets -> Nat]
        /\ tokens \in [Mints -> TokenRow \cup {NoToken}]
    BY DEF Init, Counters
  <2> QED  BY <2>1, <2>2, <2>3 DEF TypeOK
<1>2. HoldersOwn
  BY DEF Init, HoldersOwn, InHand, Locked
<1>3. SettledHasNoTimer /\ UnseenIsUntried /\ RetryBudget
  BY DEF Init, AbsentRow, SettledHasNoTimer, UnseenIsUntried, RetryBudget
<1> QED  BY <1>1, <1>2, <1>3 DEF WorkInv

\* The invariant is inductive.
LEMMA WorkInvStep == WorkInv /\ [Next]_vars => WorkInv'
<1>1. WorkInv /\ UNCHANGED vars => WorkInv'
  BY DEF WorkInv, TypeOK, HoldersOwn, Owns, SettledHasNoTimer, UnseenIsUntried, RetryBudget,
         vars, database
<1>2. WorkInv /\ Next => WorkInv'
  BY TypeStep, HoldersStep, RowsStep DEF WorkInv
<1> QED  BY <1>1, <1>2

\* The invariant holds in every state.
LEMMA WorkInvariant == Spec => []WorkInv
  BY WorkInvInit, WorkInvStep, PTL DEF Spec

\* A row waits for a retry only with attempts left and fails for good only when
\* they are used up: release reads the attempts under the lock of the owner.
THEOREM BudgetKept == Spec => []RetryBudget
  BY WorkInvariant, PTL DEF WorkInv

\* Settled work stays settled: only the holder of the lock settles or requeues a
\* row, and who holds it owns a row that is still PROCESSING.
THEOREM SettledForGood == Spec => TerminalIsFinal
<1> DEFINE Final == \A o \in Facts :
              work[o].status \in {"COMPLETE", "FAILED"} => work'[o] = work[o]
<1>1. ASSUME WorkInv, Next PROVE Final
  <2> SUFFICES ASSUME NEW o \in Facts, work[o].status \in {"COMPLETE", "FAILED"}
               PROVE  work'[o] = work[o]
    OBVIOUS
  <2>1. RowStep(o)
    BY <1>1, RowSteps DEF WorkInv
  <2>2. work[o].timer = "none"
    BY <1>1 DEF WorkInv, SettledHasNoTimer
  <2>3. ASSUME NEW w \in Workers, workers[w].pc \in Locked, workers[w].item = o
        PROVE  FALSE
    BY <1>1, <2>3 DEF WorkInv, HoldersOwn, Owns
  <2> QED  BY <2>1, <2>2, <2>3 DEF RowStep, Timed, Kept, Inserted, Claimed, Claimable, Completes,
                                   Fails, Requeues, Locked
<1>2. WorkInv /\ [Next]_vars => [Final]_vars
  BY <1>1
<1> QED  BY <1>2, WorkInvariant, PTL DEF Spec, TerminalIsFinal

-----------------------------------------------------------------------------

\* The row of a candidate after a fact: the newer fact wins, a name is kept, and
\* a decision is kept only within its market.
LEMMA ProjectedReads ==
  ASSUME NEW stored \in TokenRow \cup {NoToken},
         NEW f \in [mint : Mints, market : Markets, slot : Nat, kind : Kinds],
         NEW t, t = Projected(stored, f)
  PROVE  /\ stored = NoToken =>
              t.market = f.market /\ t.slot = f.slot /\ (t.named <=> f.kind = "create")
         /\ stored # NoToken /\ stored.slot > f.slot =>
              /\ t.market = stored.market /\ t.slot = stored.slot
              /\ t.named <=> stored.named \/ f.kind = "create"
         /\ stored # NoToken /\ ~(stored.slot > f.slot) =>
              /\ t.market = f.market /\ t.slot = f.slot
              /\ t.named <=> stored.named \/ f.kind = "create"
              /\ stored.market # f.market => t.stage = "OBSERVED"
<1> DEFINE c == Candidate(f)
<1>1. /\ c.market = f.market /\ c.slot = f.slot /\ c.named = (f.kind = "create")
      /\ c.stage = "OBSERVED"
  BY DEF Candidate
<1>2. c \in TokenRow
  BY DEF Candidate, TokenRow, Stages
<1>3. CASE stored = NoToken
  BY Zenon, <1>1, <1>3 DEF Projected
<1>4. CASE stored # NoToken /\ stored.slot > f.slot
  <2>1. stored \in TokenRow
    BY <1>4
  <2>2. t = [stored EXCEPT !.named = stored.named \/ f.kind = "create"]
    BY <1>4 DEF Projected, EnrichMetadataFromStaleCreation
  <2>3. /\ t.market = stored.market /\ t.slot = stored.slot
        /\ t.named = (stored.named \/ f.kind = "create")
    BY <2>1, <2>2, Zenon DEF TokenRow
  <2> QED  BY Zenon, <1>4, <2>3
<1>5. CASE stored # NoToken /\ ~(stored.slot > f.slot)
  <2> DEFINE s == IF stored.stage \in Qualified /\ stored.market = c.market
                  THEN stored.stage ELSE c.stage
  <2>1. t = [c EXCEPT !.named = c.named \/ stored.named, !.stage = s]
    BY <1>5 DEF Projected, MergeObservation
  <2> HIDE DEF s, c
  <2>2. /\ t.market = c.market /\ t.slot = c.slot
        /\ t.named = (c.named \/ stored.named) /\ t.stage = s
    BY <1>2, <2>1, Zenon DEF TokenRow
  <2>3. stored.market # c.market => s = c.stage
    BY DEF s
  <2> QED  BY Zenon, <1>1, <1>5, <2>2, <2>3
<1> QED  BY <1>3, <1>4, <1>5

\* A decision keeps everything of the candidate but its stage.
LEMMA DecisionKeeps ==
  ASSUME NEW t \in TokenRow, NEW s \in Stages
  PROVE  LET d == [t EXCEPT !.stage = s]
         IN d # NoToken /\ d.market = t.market /\ d.slot = t.slot /\ d.named = t.named
<1>1. [t EXCEPT !.stage = s].stage = s /\ NoToken.stage \notin Stages
  BY DEF TokenRow, NoToken, Stages
<1>2. /\ [t EXCEPT !.stage = s].market = t.market /\ [t EXCEPT !.stage = s].slot = t.slot
      /\ [t EXCEPT !.stage = s].named = t.named
  BY Zenon DEF TokenRow
<1> QED  BY Zenon, <1>1, <1>2

\* Only projecting a fact and deciding about a candidate write candidates.
LEMMA TokenSteps ==
  ASSUME WorkInv, Next
  PROVE  \/ UNCHANGED tokens
         \/ Decision
         \/ \E w \in Workers : Project(w)
<1>1. ASSUME NEW o \in Facts, InsertObservation(o) \/ BecomeDue(o) \/ LeaseExpires(o)
      PROVE  UNCHANGED tokens
  BY <1>1 DEF InsertObservation, BecomeDue, LeaseExpires
<1>2. ASSUME NEW w \in Workers, Aside(w) \/ Claim(w) \/ Retry(w)
      PROVE  UNCHANGED tokens
  BY Zenon, <1>2, RetryWrites DEF WorkInv, Aside, Claim, database
<1>3. CASE RebuildDiscoveryProjection
  BY <1>3 DEF RebuildDiscoveryProjection
<1> QED  BY <1>1, <1>2, <1>3, StepKinds

\* A decision about a candidate never outlives its market: the projection of a
\* fact of another market starts from OBSERVED.
THEOREM DecisionsAreLocal == Spec => DecisionStaysWithMarket
<1> DEFINE Local == \A m \in Mints :
              (tokens[m] # NoToken /\ tokens'[m] # NoToken /\ tokens'[m].market # tokens[m].market)
              => tokens'[m].stage = "OBSERVED"
<1>1. ASSUME WorkInv, Next PROVE Local
  <2>0. tokens \in [Mints -> TokenRow \cup {NoToken}]
    BY <1>1 DEF WorkInv, TypeOK
  <2>1. CASE UNCHANGED tokens
    BY <2>1
  <2>2. CASE Decision
    <3> PICK m \in Mints, s \in Stages :
               /\ tokens[m] \in TokenRow
               /\ tokens' = [tokens EXCEPT ![m] = [tokens[m] EXCEPT !.stage = s]]
      BY ZenonT(30), <1>1, <2>2, DecisionWrites DEF WorkInv
    <3>1. [tokens[m] EXCEPT !.stage = s].market = tokens[m].market
      BY DecisionKeeps
    <3> QED  BY <2>0, <3>1
  <2>3. ASSUME NEW w \in Workers, Project(w)
        PROVE  Local
    <3> PICK o \in Facts : o = workers[w].item
      BY <1>1, <2>3, ProjectWrites DEF WorkInv
    <3> DEFINE m == Fact[o].mint
               t == Projected(tokens[m], Fact[o])
    <3>1. /\ m \in Mints /\ tokens' = [tokens EXCEPT ![m] = t]
          /\ Fact[o] \in [mint : Mints, market : Markets, slot : Nat, kind : Kinds]
      BY SMTT(20), <1>1, <2>3, ProjectWrites DEF WorkInv
    <3>2. tokens[m] # NoToken /\ t.market # tokens[m].market => t.stage = "OBSERVED"
      <4> PICK stored \in TokenRow \cup {NoToken} : stored = tokens[m]
        BY <2>0, <3>1
      <4> PICK f \in [mint : Mints, market : Markets, slot : Nat, kind : Kinds] : f = Fact[o]
        BY <3>1
      <4> PICK u : u = Projected(stored, f)
        OBVIOUS
      <4>1. stored # NoToken /\ u.market # stored.market => u.stage = "OBSERVED"
        <5>1. /\ stored # NoToken /\ stored.slot > f.slot => u.market = stored.market
              /\ stored # NoToken /\ ~(stored.slot > f.slot) =>
                   u.market = f.market /\ (stored.market # f.market => u.stage = "OBSERVED")
          BY ONLY stored \in TokenRow \cup {NoToken}, u = Projected(stored, f), ProjectedReads,
                  f \in [mint : Mints, market : Markets, slot : Nat, kind : Kinds]
        <5> QED  BY ONLY <5>1
      <4> QED  BY Zenon, <4>1
    <3> HIDE DEF m, t
    <3> QED  BY <2>0, <3>1, <3>2
  <2> QED  BY <1>1, <2>1, <2>2, <2>3, TokenSteps
<1>2. WorkInv /\ [Next]_vars => [Local]_vars
  BY <1>1
<1> QED  BY <1>2, WorkInvariant, PTL DEF Spec, DecisionStaysWithMarket

-----------------------------------------------------------------------------

\* Facts become complete when they are projected, and only then.
LEMMA CompletedChange ==
  ASSUME WorkInv, Next
  PROVE  \/ /\ \A S \in SUBSET Facts : Completed(S)' = Completed(S)
            /\ ~\E w \in Workers : Project(w)
         \/ \E w \in Workers : \E o \in Facts :
              /\ Project(w) /\ o = workers[w].item
              /\ work[o].status = "PROCESSING"
              /\ \A S \in SUBSET Facts : Completed(S)' = IF o \in S THEN Completed(S) \cup {o}
                                                         ELSE Completed(S)
<1>1. ASSUME NEW w \in Workers, Project(w)
      PROVE  \E o \in Facts :
               /\ o = workers[w].item
               /\ work[o].status = "PROCESSING"
               /\ \A S \in SUBSET Facts : Completed(S)' = IF o \in S THEN Completed(S) \cup {o}
                                                          ELSE Completed(S)
  <2>0. work \in [Facts -> Row]
    BY SMTT(20) DEF WorkInv, TypeOK
  <2> PICK o \in Facts : o = workers[w].item
    BY SMTT(20), <1>1, ProjectWrites DEF WorkInv
  <2>1. work[o].status = "PROCESSING" /\ work' = [work EXCEPT ![o] = Finish(work[o], "COMPLETE")]
    BY <1>1, ProjectWrites DEF WorkInv
  <2>2. work'[o].status = "COMPLETE"
    BY Zenon, <2>0, <2>1, FinishReads
  <2>3. \A p \in Facts \ {o} : work'[p] = work[p]
    BY <2>0, <2>1
  <2>4. ASSUME NEW S \in SUBSET Facts
        PROVE  Completed(S)' = IF o \in S THEN Completed(S) \cup {o} ELSE Completed(S)
    <3>1. \A p \in S : work'[p].status = "COMPLETE" <=> p = o \/ work[p].status = "COMPLETE"
      BY <2>2, <2>3
    <3> QED  BY <3>1 DEF Completed
  <2> QED  BY <2>1, <2>4
<1>2. ASSUME ~\E w \in Workers : Project(w)
      PROVE  \A S \in SUBSET Facts : Completed(S)' = Completed(S)
  <2>1. ASSUME NEW o \in Facts
        PROVE  work'[o].status = "COMPLETE" <=> work[o].status = "COMPLETE"
    <3>1. RowStep(o)
      BY RowSteps DEF WorkInv
    <3>2. ASSUME NEW w \in Workers, workers[w].pc \in Locked, workers[w].item = o
          PROVE  work[o].status = "PROCESSING"
      BY <3>2 DEF WorkInv, HoldersOwn, Owns
    <3> QED  BY <1>2, <3>1, <3>2 DEF RowStep, Kept, Timed, Inserted, Claimed, Claimable, Completes,
                                     Fails, Requeues, Locked
  <2> QED  BY <2>1 DEF Completed
<1> QED  BY <1>1, <1>2

\* One element more, or one less.
LEMMA CountOne ==
  ASSUME NEW S, IsFiniteSet(S), NEW x
  PROVE  /\ Cardinality(S) \in Nat
         /\ x \notin S => Cardinality(S \cup {x}) = Cardinality(S) + 1
         /\ x \in S => Cardinality(S) >= 1 /\ Cardinality(S \ {x}) = Cardinality(S) - 1
<1>1. Cardinality(S) \in Nat
  BY FS_CardinalityType
<1>2. x \in S => Cardinality(S) # 0
  BY FS_EmptySet
<1>3. x \notin S => Cardinality(S \cup {x}) = Cardinality(S) + 1
  BY FS_AddElement
<1>4. x \in S => Cardinality(S \ {x}) = Cardinality(S) - 1
  BY FS_RemoveElement
<1> QED  BY <1>1, <1>2, <1>3, <1>4

TradesOf(k) == {o \in Facts : Fact[o].kind = "trade" /\ Fact[o].market = k}

\* A step counts a trade exactly if it completes its work.
LEMMA TradesStep ==
  ASSUME WorkInv, EachTradeCountedOnce, Next
  PROVE  EachTradeCountedOnce'
<1> SUFFICES ASSUME NEW k \in Markets
             PROVE  trades'[k] = Cardinality(Completed(TradesOf(k))')
  BY DEF EachTradeCountedOnce, TradesOf, Completed
<1>0. trades \in [Markets -> Nat] /\ TradesOf(k) \in SUBSET Facts
      /\ trades[k] = Cardinality(Completed(TradesOf(k)))
  BY DEF WorkInv, TypeOK, EachTradeCountedOnce, TradesOf
<1>1. CASE /\ \A S \in SUBSET Facts : Completed(S)' = Completed(S)
           /\ ~\E w \in Workers : Project(w)
  <2>1. UNCHANGED trades
    <3>1. ASSUME NEW o \in Facts, InsertObservation(o) \/ BecomeDue(o) \/ LeaseExpires(o)
          PROVE  UNCHANGED trades
      BY <3>1 DEF InsertObservation, BecomeDue, LeaseExpires
    <3>2. ASSUME NEW w \in Workers, Aside(w) \/ Claim(w) \/ Retry(w)
          PROVE  UNCHANGED trades
      BY ZenonT(30), <3>2, RetryWrites DEF WorkInv, Aside, Claim, database
    <3>3. CASE Decision \/ RebuildDiscoveryProjection
      BY <3>3, DecisionWrites DEF WorkInv, RebuildDiscoveryProjection
    <3> QED  BY <1>1, <3>1, <3>2, <3>3, StepKinds
  <2>2. Completed(TradesOf(k))' = Completed(TradesOf(k))
    BY <1>0, <1>1 DEF TradesOf, Completed
  <2> QED  BY <1>0, <2>1, <2>2
<1>2. ASSUME NEW w \in Workers, NEW o \in Facts, Project(w), o = workers[w].item,
             work[o].status = "PROCESSING",
             \A S \in SUBSET Facts : Completed(S)' = IF o \in S THEN Completed(S) \cup {o}
                                                     ELSE Completed(S)
      PROVE  trades'[k] = Cardinality(Completed(TradesOf(k))')
  <2>1. /\ trades' = IF Fact[o].kind = "trade" THEN [trades EXCEPT ![Fact[o].market] = @ + 1]
                     ELSE trades
        /\ Fact[o].market \in Markets
    BY <1>2, ProjectWrites DEF WorkInv
  <2>2. Completed(TradesOf(k))' = IF o \in TradesOf(k) THEN Completed(TradesOf(k)) \cup {o}
                                  ELSE Completed(TradesOf(k))
    BY <1>0, <1>2 DEF TradesOf, Completed
  <2>3. o \in TradesOf(k) <=> Fact[o].kind = "trade" /\ Fact[o].market = k
    BY DEF TradesOf
  <2>4. o \notin Completed(TradesOf(k)) /\ IsFiniteSet(Completed(TradesOf(k)))
    BY <1>2, FactsAssumption, FS_Subset DEF Completed, TradesOf
  <2>5. Cardinality(Completed(TradesOf(k)) \cup {o}) = Cardinality(Completed(TradesOf(k))) + 1
    BY <2>4, CountOne
  <2>6. CASE o \in TradesOf(k)
    BY <1>0, <2>1, <2>2, <2>3, <2>5, <2>6
  <2>7. CASE o \notin TradesOf(k)
    BY <1>0, <2>1, <2>2, <2>3, <2>7
  <2> QED  BY <2>6, <2>7
<1> QED  BY <1>1, <1>2, CompletedChange

\* No trade is counted twice or left out, however leases are lost, attempts
\* repeated and commits left unanswered: activity and row are one commit.
THEOREM TradesCounted == Spec => []EachTradeCountedOnce
<1>1. Init => EachTradeCountedOnce
  <2> SUFFICES ASSUME Init, NEW k \in Markets
               PROVE  trades[k] = Cardinality(Completed(TradesOf(k)))
    BY Zenon DEF EachTradeCountedOnce, TradesOf
  <2>1. Completed(TradesOf(k)) = {}
    BY DEF Init, AbsentRow, Completed, TradesOf
  <2> QED  BY <2>1, FS_EmptySet DEF Init
<1>2. EachTradeCountedOnce /\ UNCHANGED vars => EachTradeCountedOnce'
  BY DEF EachTradeCountedOnce, Completed, vars, database
<1> QED  BY <1>1, <1>2, TradesStep, WorkInvariant, PTL DEF Spec

-----------------------------------------------------------------------------

\* The candidate of mint m is what the facts in `done' make of it.
Shows(t, done) ==
    LET newest == {o \in done : \A p \in done : Fact[p].slot <= Fact[o].slot}
    IN /\ t # NoToken
       /\ \E o \in newest : t.slot = Fact[o].slot /\ t.market = Fact[o].market
       /\ t.named = (\E o \in done : Fact[o].kind = "create")

FactsOf(m) == {o \in Facts : Fact[o].mint = m}

\* One more projected fact: the candidate follows it unless it is older.
LEMMA ShowsNext ==
  ASSUME NEW done \in SUBSET Facts, NEW o \in Facts, NEW stored \in TokenRow \cup {NoToken},
         IF done = {} THEN stored = NoToken ELSE Shows(stored, done)
  PROVE  Shows(Projected(stored, Fact[o]), done \cup {o})
<1> PICK f \in [mint : Mints, market : Markets, slot : Nat, kind : Kinds] : f = Fact[o]
  BY FactsAssumption
<1> PICK t \in TokenRow : t = Projected(stored, f)
  BY ProjectedType
<1> DEFINE all == done \cup {o}
<1>0. \A p \in Facts : Fact[p].slot \in Nat
  BY FactsAssumption
<1>1. t # NoToken /\ t.named \in BOOLEAN
  <2>1. t.stage \in Stages
    BY DEF TokenRow
  <2>2. t.named \in BOOLEAN
    BY Zenon DEF TokenRow
  <2>3. NoToken.stage \notin Stages
    BY DEF NoToken, Stages
  <2>4. t # NoToken
    BY <2>1, <2>3
  <2> QED  BY <2>2, <2>4, Zenon
<1>2. t.named <=> \E p \in all : Fact[p].kind = "create"
  <2>1. CASE done = {}
    BY <2>1, ProjectedReads
  <2>2. CASE done # {}
    <3>1. stored # NoToken /\ (stored.named <=> \E p \in done : Fact[p].kind = "create")
      BY Zenon, <2>2 DEF Shows
    <3>2. t.named <=> stored.named \/ f.kind = "create"
      BY <3>1, ProjectedReads
    <3> QED  BY <3>1, <3>2
  <2> QED  BY <2>1, <2>2
<1>3. \E p \in all : /\ \A q \in all : Fact[q].slot <= Fact[p].slot
                     /\ t.slot = Fact[p].slot /\ t.market = Fact[p].market
  <2>1. CASE done = {}
    <3>1. t.slot = f.slot /\ t.market = f.market
      BY SMTT(20), <2>1, ProjectedReads
    <3> QED  BY <1>0, <2>1, <3>1
  <2>2. CASE done # {}
    <3>1. stored # NoToken /\ \E p \in done : /\ \A q \in done : Fact[q].slot <= Fact[p].slot
                                            /\ stored.slot = Fact[p].slot
                                            /\ stored.market = Fact[p].market
      BY Zenon, <2>2 DEF Shows
    <3> PICK p \in done : /\ \A q \in done : Fact[q].slot <= Fact[p].slot
                          /\ stored.slot = Fact[p].slot /\ stored.market = Fact[p].market
      BY <3>1
    <3>2. Fact[p].slot \in Nat /\ f.slot \in Nat /\ \A q \in all : Fact[q].slot \in Nat
      BY <1>0
    <3>3. CASE stored.slot > f.slot
      <4>1. t.slot = stored.slot /\ t.market = stored.market
        BY <3>1, <3>3, ProjectedReads
      <4>2. \A q \in all : Fact[q].slot <= Fact[p].slot
        BY <3>2, <3>3
      <4> QED  BY <4>1, <4>2
    <3>4. CASE ~(stored.slot > f.slot)
      <4>1. t.slot = f.slot /\ t.market = f.market
        BY <3>1, <3>4, ProjectedReads
      <4>2. \A q \in all : Fact[q].slot <= Fact[o].slot
        BY <3>2, <3>4
      <4> QED  BY SMTT(20), <4>1, <4>2
    <3> QED  BY <3>3, <3>4
  <2> QED  BY <2>1, <2>2
<1>4. t.named = (\E p \in all : Fact[p].kind = "create")
  BY Zenon, <1>1, <1>2
<1> QED  BY <1>1, <1>3, <1>4 DEF Shows

\* A step that completes a fact shows it, and no other changes what is shown.
LEMMA NewestStep ==
  ASSUME WorkInv, TokenIsNewestFact, Next
  PROVE  TokenIsNewestFact'
<1> DEFINE Right(t, done) == IF done = {} THEN t = NoToken ELSE Shows(t, done)
<1>0. tokens \in [Mints -> TokenRow \cup {NoToken}]
  BY DEF WorkInv, TypeOK
<1>1. \A m \in Mints : Right(tokens[m], Completed(FactsOf(m))) /\ FactsOf(m) \in SUBSET Facts
  BY Zenon DEF TokenIsNewestFact, FactsOf, Shows
<1> SUFFICES ASSUME NEW m \in Mints
             PROVE  Right(tokens'[m], Completed(FactsOf(m))')
  BY Zenon DEF TokenIsNewestFact, FactsOf, Shows, Completed
<1>2. CASE /\ \A S \in SUBSET Facts : Completed(S)' = Completed(S)
           /\ ~\E w \in Workers : Project(w)
  <2>1. Completed(FactsOf(m))' = Completed(FactsOf(m))
    BY <1>1, <1>2 DEF FactsOf, Completed
  <2>2. CASE UNCHANGED tokens
    BY <1>1, <2>1, <2>2
  <2>3. CASE Decision
    <3> PICK n \in Mints, s \in Stages :
               /\ tokens[n] \in TokenRow /\ tokens[n] # NoToken
               /\ tokens' = [tokens EXCEPT ![n] = [tokens[n] EXCEPT !.stage = s]]
      BY Zenon, <2>3, DecisionWrites DEF WorkInv
    <3>1. CASE m # n
      BY <1>0, <1>1, <2>1, <3>1
    <3>2. CASE m = n
      <4>1. tokens'[m] = [tokens[m] EXCEPT !.stage = s]
        BY <1>0, <3>2
      <4>2. /\ tokens'[m] # NoToken /\ tokens'[m].market = tokens[m].market
            /\ tokens'[m].slot = tokens[m].slot /\ tokens'[m].named = tokens[m].named
        BY <3>2, <4>1, DecisionKeeps
      <4>3. Completed(FactsOf(m)) # {} /\ Shows(tokens[m], Completed(FactsOf(m)))
        BY <1>1, <3>2
      <4>4. Shows(tokens'[m], Completed(FactsOf(m)))
        BY ZenonT(30), <4>2, <4>3 DEF Shows
      <4> QED  BY <2>1, <4>3, <4>4
    <3> QED  BY <3>1, <3>2
  <2> QED  BY <1>2, <2>2, <2>3, TokenSteps
<1>3. ASSUME NEW w \in Workers, NEW o \in Facts, Project(w), o = workers[w].item,
             \A S \in SUBSET Facts : Completed(S)' = IF o \in S THEN Completed(S) \cup {o}
                                                     ELSE Completed(S)
      PROVE  Right(tokens'[m], Completed(FactsOf(m))')
  <2>1. /\ tokens' = [tokens EXCEPT ![Fact[o].mint] = Projected(tokens[Fact[o].mint], Fact[o])]
        /\ Fact[o].mint \in Mints
    BY <1>3, ProjectWrites DEF WorkInv
  <2>2. Completed(FactsOf(m))' = IF o \in FactsOf(m) THEN Completed(FactsOf(m)) \cup {o}
                                 ELSE Completed(FactsOf(m))
    BY SMTT(20), <1>1, <1>3 DEF FactsOf, Completed
  <2>3. CASE Fact[o].mint = m
    <3>1. tokens'[m] = Projected(tokens[m], Fact[o])
      BY <1>0, <2>1, <2>3
    <3>2. Completed(FactsOf(m))' = Completed(FactsOf(m)) \cup {o}
      BY <2>2, <2>3 DEF FactsOf
    <3>3. Completed(FactsOf(m)) \in SUBSET Facts
      BY DEF Completed, FactsOf
    <3>4. Shows(Projected(tokens[m], Fact[o]), Completed(FactsOf(m)) \cup {o})
      BY Zenon, <1>0, <1>1, <3>3, ShowsNext
    <3> QED  BY <3>1, <3>2, <3>4
  <2>4. CASE Fact[o].mint # m
    <3>1. tokens'[m] = tokens[m]
      BY <1>0, <2>1, <2>4
    <3>2. Completed(FactsOf(m))' = Completed(FactsOf(m))
      BY <2>2, <2>4 DEF FactsOf
    <3> QED  BY <1>1, <3>1, <3>2
  <2> QED  BY <2>3, <2>4
<1> QED  BY <1>2, <1>3, CompletedChange

\* Whatever the order in which its facts are projected, a candidate shows the
\* market and slot of one of the newest and the name if any fact had one.
THEOREM NewestFactShown == Spec => []TokenIsNewestFact
<1>1. Init => TokenIsNewestFact
  <2> SUFFICES ASSUME Init, NEW m \in Mints
               PROVE  Completed(FactsOf(m)) = {} /\ tokens[m] = NoToken
    BY Zenon DEF TokenIsNewestFact, FactsOf
  <2> QED  BY DEF Init, AbsentRow, Completed, FactsOf
<1>2. ASSUME TokenIsNewestFact, UNCHANGED vars
      PROVE  TokenIsNewestFact'
  <2>1. work' = work /\ tokens' = tokens
    BY <1>2 DEF vars, database
  <2>2. \A m \in Mints : Completed(FactsOf(m))' = Completed(FactsOf(m))
    BY <2>1 DEF Completed, FactsOf
  <2>3. ASSUME NEW m \in Mints
        PROVE  IF Completed(FactsOf(m)) = {} THEN tokens[m] = NoToken
               ELSE Shows(tokens[m], Completed(FactsOf(m)))
    BY Zenon, <1>2 DEF TokenIsNewestFact, FactsOf, Shows
  <2>4. ASSUME NEW m \in Mints
        PROVE  IF Completed(FactsOf(m))' = {} THEN tokens'[m] = NoToken
               ELSE Shows(tokens'[m], Completed(FactsOf(m))')
    BY <2>1, <2>2, <2>3
  <2> QED  BY Zenon, <2>4 DEF TokenIsNewestFact, FactsOf, Shows, Completed
<1> QED  BY <1>1, <1>2, NewestStep, WorkInvariant, PTL DEF Spec

-----------------------------------------------------------------------------

FailedRows == {o \in Facts : work[o].status = "FAILED"}

QueueAgrees ==
    /\ counters.queued_facts = Cardinality(Queued)
    /\ counters.processing_failures = Cardinality(FailedRows)
StagesAgree ==
    /\ counters.observed = Cardinality(Staged(Stages))
    /\ counters.approved = Cardinality(Staged({"APPROVED"}))
    /\ counters.qualified = Cardinality(Staged(Qualified))

\* A record of counters is its five numbers.
LEMMA CountersSplit ==
  ASSUME NEW c \in Counters, NEW n, NEW q, NEW a, NEW k, NEW f
  PROVE  c = [observed |-> n, queued_facts |-> q, approved |-> a, qualified |-> k,
              processing_failures |-> f]
         <=> /\ c.observed = n /\ c.queued_facts = q /\ c.approved = a /\ c.qualified = k
             /\ c.processing_failures = f
  BY DEF Counters

\* The counters agree if those of the queue and those of the stages do.
LEMMA AgreeSplit ==
  /\ counters \in Counters => (CountersAgree <=> QueueAgrees /\ StagesAgree)
  /\ counters' \in Counters => (CountersAgree' <=> QueueAgrees' /\ StagesAgree')
<1>1. counters \in Counters => (CountersAgree <=> QueueAgrees /\ StagesAgree)
  BY CountersSplit DEF CountersAgree, Recount, QueueAgrees, StagesAgree, FailedRows
<1>2. counters' \in Counters => (CountersAgree' <=> QueueAgrees' /\ StagesAgree')
  BY CountersSplit DEF CountersAgree, Recount, QueueAgrees, StagesAgree, FailedRows
<1> QED  BY <1>1, <1>2

\* The sets that a rebuild counts are finite.
LEMMA SetsFinite ==
  /\ IsFiniteSet(Queued) /\ IsFiniteSet(FailedRows)
  /\ \A S : IsFiniteSet(Staged(S))
  BY FactsAssumption, FS_Subset DEF Queued, FailedRows, Staged

\* The counters after a projection.
LEMMA ProjectedCounters ==
  ASSUME NEW b \in Counters, NEW stored, NEW t,
         NEW c, c = CountStage(b, stored, t), NEW d, d = CountCompleted(b, stored, t)
  PROVE  /\ d.queued_facts = Less(b.queued_facts, 1)
         /\ d.processing_failures = b.processing_failures
         /\ d.observed = c.observed /\ d.approved = c.approved /\ d.qualified = c.qualified
<1> DEFINE D == CountCompleted(b, stored, t)
           C == CountStage(b, stored, t)
<1>1. /\ D.queued_facts = Less(b.queued_facts, 1)
      /\ D.processing_failures = b.processing_failures
      /\ D.observed = C.observed /\ D.approved = C.approved /\ D.qualified = C.qualified
  BY ONLY b \in Counters, CompletedReads
<1> HIDE DEF D, C
<1>2. d = D /\ c = C
  BY SMTT(20) DEF D, C
<1> QED  BY ONLY <1>1, <1>2

\* The candidates at the stages S after the row of mint m became t.
LEMMA StagedChange ==
  ASSUME tokens \in [Mints -> TokenRow \cup {NoToken}], NEW m \in Mints, NEW t, NEW S,
         tokens' = [tokens EXCEPT ![m] = t]
  PROVE  /\ Cardinality(Staged(S)) \in Nat
         /\ Cardinality(Staged(S)') =
              Less(Cardinality(Staged(S)) + Won(tokens[m], t, S), Lost(tokens[m], t, S))
         /\ t.stage \in S =>
              Cardinality(Staged(S)') = Cardinality(Staged(S)) + Won(tokens[m], t, S)
<1>1. /\ Cardinality(Staged(S)) \in Nat
      /\ m \notin Staged(S) => Cardinality(Staged(S) \cup {m}) = Cardinality(Staged(S)) + 1
      /\ m \in Staged(S) => /\ Cardinality(Staged(S)) >= 1
                            /\ Cardinality(Staged(S) \ {m}) = Cardinality(Staged(S)) - 1
  BY Zenon, SetsFinite, CountOne
<1>2. tokens'[m] = t /\ \A n \in Mints \ {m} : tokens'[n] = tokens[n]
  OBVIOUS
<1>3. m \in Staged(S) <=> tokens[m].stage \in S
  BY DEF Staged
<1>4. CASE t.stage \in S /\ tokens[m].stage \notin S
  <2>1. Staged(S)' = Staged(S) \cup {m}
    BY <1>2, <1>4 DEF Staged
  <2> QED  BY <1>1, <1>3, <1>4, <2>1 DEF Won, Lost, Less
<1>5. CASE t.stage \notin S /\ tokens[m].stage \in S
  <2>1. Staged(S)' = Staged(S) \ {m}
    BY <1>2, <1>5 DEF Staged
  <2> QED  BY <1>1, <1>3, <1>5, <2>1 DEF Won, Lost, Less
<1>6. CASE t.stage \in S <=> tokens[m].stage \in S
  <2>1. Staged(S)' = Staged(S)
    BY <1>2, <1>6 DEF Staged
  <2> QED  BY <1>1, <1>6, <2>1 DEF Won, Lost, Less
<1> QED  BY <1>4, <1>5, <1>6

\* A change of one candidate moves the counters of the stages with it.
LEMMA StageCounts ==
  ASSUME TypeOK, StagesAgree, NEW m \in Mints, NEW t \in TokenRow,
         tokens' = [tokens EXCEPT ![m] = t],
         NEW c \in Counters, c = CountStage(counters, tokens[m], t),
         counters'.observed = c.observed, counters'.approved = c.approved,
         counters'.qualified = c.qualified
  PROVE  StagesAgree'
<1>0. tokens \in [Mints -> TokenRow \cup {NoToken}] /\ counters \in Counters
  BY DEF TypeOK
<1>1. t.stage \in Stages
  BY DEF TokenRow
<1>2. counters'.observed = Cardinality(Staged(Stages)')
  <2>1. Cardinality(Staged(Stages)') = Cardinality(Staged(Stages)) + Won(tokens[m], t, Stages)
    BY Zenon, <1>0, <1>1, StagedChange DEF Staged
  <2>2. c.observed = counters.observed + Won(tokens[m], t, Stages)
    BY <1>0, CountStageReads
  <2> QED  BY SMTT(20), <2>1, <2>2 DEF StagesAgree
<1>3. counters'.approved = Cardinality(Staged({"APPROVED"})')
  <2>1. Cardinality(Staged({"APPROVED"})') = 
          Less(Cardinality(Staged({"APPROVED"})) + Won(tokens[m], t, {"APPROVED"}),
               Lost(tokens[m], t, {"APPROVED"}))
    BY Zenon, <1>0, StagedChange DEF Staged
  <2>2. c.approved = 
          Less(counters.approved + Won(tokens[m], t, {"APPROVED"}), Lost(tokens[m], t, {"APPROVED"}))
    BY <1>0, CountStageReads
  <2> QED  BY <2>1, <2>2 DEF StagesAgree
<1>4. counters'.qualified = Cardinality(Staged(Qualified)')
  <2>1. Cardinality(Staged(Qualified)') = 
          Less(Cardinality(Staged(Qualified)) + Won(tokens[m], t, Qualified),
               Lost(tokens[m], t, Qualified))
    BY Zenon, <1>0, StagedChange DEF Staged
  <2>2. c.qualified = 
          Less(counters.qualified + Won(tokens[m], t, Qualified), Lost(tokens[m], t, Qualified))
    BY <1>0, CountStageReads
  <2> QED  BY <2>1, <2>2 DEF StagesAgree
<1> QED  BY <1>2, <1>3, <1>4 DEF StagesAgree, Staged, Stages, Qualified

\* Rows whose status stays in its class leave both counts alone.
LEMMA QueueSame ==
  ASSUME \A o \in Facts : /\ work'[o].status \in {"PENDING", "PROCESSING"}
                              <=> work[o].status \in {"PENDING", "PROCESSING"}
                          /\ work'[o].status = "FAILED" <=> work[o].status = "FAILED"
  PROVE  Queued' = Queued /\ FailedRows' = FailedRows
  BY DEF Queued, FailedRows

\* Every transaction moves the counters as it moves the rows they count.
LEMMA CountersStep ==
  ASSUME WorkInv, CountersAgree, Next
  PROVE  CountersAgree'
<1>0. /\ work \in [Facts -> Row] /\ tokens \in [Mints -> TokenRow \cup {NoToken}]
      /\ counters \in Counters /\ TypeOK /\ HoldersOwn
  BY DEF WorkInv, TypeOK
<1>1. counters' \in Counters
  BY <1>0, TypeStep DEF TypeOK
<1>2. QueueAgrees /\ StagesAgree /\ (QueueAgrees' /\ StagesAgree' => CountersAgree')
  BY SMTT(20), <1>0, <1>1, AgreeSplit
<1>3. ASSUME UNCHANGED tokens, counters'.observed = counters.observed,
             counters'.approved = counters.approved, counters'.qualified = counters.qualified
      PROVE  StagesAgree'
  BY <1>2, <1>3 DEF StagesAgree, Staged
<1>4. ASSUME Queued' = Queued, FailedRows' = FailedRows,
             counters'.queued_facts = counters.queued_facts,
             counters'.processing_failures = counters.processing_failures
      PROVE  QueueAgrees'
  BY <1>2, <1>4 DEF QueueAgrees
<1>5. ASSUME NEW o \in Facts, InsertObservation(o)
      PROVE  QueueAgrees' /\ StagesAgree'
  <2>1. /\ counters' = [counters EXCEPT !.queued_facts = counters.queued_facts + 1]
        /\ counters.queued_facts + 1 \in Nat /\ UNCHANGED tokens
    BY SMTT(20), <1>0, <1>5 DEF InsertObservation, Counters
  <2>2. /\ counters'.queued_facts = counters.queued_facts + 1
        /\ counters'.processing_failures = counters.processing_failures
        /\ counters'.observed = counters.observed /\ counters'.approved = counters.approved
        /\ counters'.qualified = counters.qualified
    BY Zenon, <1>0, <2>1, QueueReads
  <2>3. /\ work[o].status = "ABSENT" /\ work'[o].status = "PENDING"
        /\ \A p \in Facts \ {o} : work'[p] = work[p]
    BY <1>0, <1>5 DEF InsertObservation, Row
  <2>4. Queued' = Queued \cup {o} /\ o \notin Queued /\ FailedRows' = FailedRows
    BY <2>3 DEF Queued, FailedRows
  <2>5. Cardinality(Queued \cup {o}) = Cardinality(Queued) + 1
    BY SMTT(20), <2>4, SetsFinite, CountOne
  <2> QED  BY <1>2, <1>3, <2>1, <2>2, <2>4, <2>5 DEF QueueAgrees
<1>6. ASSUME UNCHANGED <<tokens, counters>>,
             \A o \in Facts : /\ work'[o].status \in {"PENDING", "PROCESSING"}
                                  <=> work[o].status \in {"PENDING", "PROCESSING"}
                              /\ work'[o].status = "FAILED" <=> work[o].status = "FAILED"
      PROVE  QueueAgrees' /\ StagesAgree'
  BY SMTT(20), <1>3, <1>4, <1>6, QueueSame
<1>7. ASSUME NEW o \in Facts, BecomeDue(o) \/ LeaseExpires(o)
      PROVE  QueueAgrees' /\ StagesAgree'
  <2>1. UNCHANGED <<tokens, counters>>
    BY <1>7 DEF BecomeDue, LeaseExpires
  <2>2. \A p \in Facts : work'[p].status = work[p].status
    BY SMTT(20), <1>0, <1>7 DEF BecomeDue, LeaseExpires, Row
  <2> QED  BY <1>6, <2>1, <2>2
<1>8. ASSUME NEW w \in Workers, Aside(w)
      PROVE  QueueAgrees' /\ StagesAgree'
  BY SMTT(20), <1>6, <1>8 DEF Aside, database
<1>9. ASSUME NEW w \in Workers, Claim(w)
      PROVE  QueueAgrees' /\ StagesAgree'
  <2>1. UNCHANGED <<tokens, counters>>
    BY <1>9 DEF Claim
  <2>2. ASSUME NEW p \in Facts
        PROVE  \/ work'[p] = work[p]
               \/ Claimable(p) /\ work'[p].status = "PROCESSING"
    BY <1>9 DEF Claim
  <2>3. \A p \in Facts : /\ work'[p].status \in {"PENDING", "PROCESSING"}
                             <=> work[p].status \in {"PENDING", "PROCESSING"}
                         /\ work'[p].status = "FAILED" <=> work[p].status = "FAILED"
    BY SMTT(20), <2>2 DEF Claimable
  <2> QED  BY <1>6, <2>1, <2>3
<1>10. ASSUME NEW w \in Workers, Project(w)
       PROVE  QueueAgrees' /\ StagesAgree'
  <2>0. workers[w].item \in Facts /\ Fact[workers[w].item].mint \in Mints
    BY ZenonT(30), <1>0, <1>10, ProjectWrites
  <2> PICK o \in Facts : o = workers[w].item
    BY Zenon, <2>0
  <2> PICK m \in Mints : m = Fact[o].mint
    BY Zenon, <2>0
  <2> PICK t \in TokenRow : t = Projected(tokens[m], Fact[o])
    BY ZenonT(30), <1>0, <1>10, ProjectWrites
  <2>1. /\ work[o].status = "PROCESSING" /\ tokens' = [tokens EXCEPT ![m] = t]
        /\ counters' = CountCompleted(counters, tokens[m], t)
        /\ work' = [work EXCEPT ![o] = Finish(work[o], "COMPLETE")]
    BY ZenonT(30), <1>0, <1>10, ProjectWrites
  <2> PICK c \in Counters : c = CountStage(counters, tokens[m], t)
    BY ZenonT(30), <1>0, CountStageReads
  <2>2. /\ counters'.queued_facts = Less(counters.queued_facts, 1)
        /\ counters'.processing_failures = counters.processing_failures
        /\ counters'.observed = c.observed /\ counters'.approved = c.approved
        /\ counters'.qualified = c.qualified
    <3> PICK d : d = CountCompleted(counters, tokens[m], t)
      BY ZenonT(30)
    <3>1. /\ d.queued_facts = Less(counters.queued_facts, 1)
          /\ d.processing_failures = counters.processing_failures
          /\ d.observed = c.observed /\ d.approved = c.approved /\ d.qualified = c.qualified
      <4> PICK b \in Counters : b = counters
        BY ZenonT(30), <1>0
      <4> PICK stored : stored = tokens[m]
        BY ZenonT(30)
      <4>1. c = CountStage(b, stored, t) /\ d = CountCompleted(b, stored, t)
        BY Zenon
      <4>2. /\ d.queued_facts = Less(b.queued_facts, 1)
            /\ d.processing_failures = b.processing_failures
            /\ d.observed = c.observed /\ d.approved = c.approved /\ d.qualified = c.qualified
        BY ONLY SMTT(20), b \in Counters, <4>1, ProjectedCounters
      <4> QED  BY ZenonT(30), <4>2
    <3>2. counters' = d
      BY ZenonT(30), <2>1
    <3> QED  BY ZenonT(30), <3>1, <3>2
  <2>3. StagesAgree'
    BY ZenonT(30), <1>0, <1>2, <2>1, <2>2, StageCounts
  <2>4. work'[o].status = "COMPLETE" /\ \A p \in Facts \ {o} : work'[p] = work[p]
    BY ZenonT(30), <1>0, <2>1, FinishReads
  <2>5. Queued' = Queued \ {o} /\ o \in Queued /\ FailedRows' = FailedRows
    BY ZenonT(30), <2>1, <2>4 DEF Queued, FailedRows
  <2>6. /\ Cardinality(Queued) \in Nat /\ Cardinality(Queued) >= 1
        /\ Cardinality(Queued \ {o}) = Cardinality(Queued) - 1
    BY ZenonT(30), <2>5, SetsFinite, CountOne
  <2>7. QueueAgrees'
    <3> PICK n \in Nat : n = Cardinality(Queued)
      BY SMTT(20), <2>6
    <3>1. Less(n, 1) = n - 1
      BY SMTT(20), <2>6 DEF Less
    <3>2. counters.queued_facts = n
      BY <1>2 DEF QueueAgrees
    <3>3. Less(counters.queued_facts, 1) = Cardinality(Queued) - 1
      BY ONLY <3>1, <3>2, n = Cardinality(Queued)
    <3>4. counters'.queued_facts = Cardinality(Queued')
      BY ONLY SMTT(20), <2>2, <2>5, <2>6, <3>3
    <3>5. counters'.processing_failures = Cardinality(FailedRows')
      BY Zenon, <1>2, <2>2, <2>5 DEF QueueAgrees
    <3> QED  BY SMTT(20), <3>4, <3>5 DEF QueueAgrees
  <2> QED  BY SMTT(20), <2>3, <2>7
<1>11. ASSUME NEW w \in Workers, Retry(w)
       PROVE  QueueAgrees' /\ StagesAgree'
  <2> PICK o \in Facts : o = workers[w].item
    BY Zenon, <1>0, <1>11, RetryWrites
  <2>1. work[o].status = "PROCESSING" /\ UNCHANGED tokens
    BY Zenon, <1>0, <1>11, RetryWrites
  <2>2. CASE /\ work' = [work EXCEPT ![o] = Finish(work[o], "FAILED")]
             /\ counters' = [counters EXCEPT
                               !.queued_facts = Less(counters.queued_facts, 1),
                               !.processing_failures = counters.processing_failures + 1]
    <3>1. Less(counters.queued_facts, 1) \in Nat /\ counters.processing_failures + 1 \in Nat
      BY <1>0 DEF Counters, Less
    <3>2. /\ counters'.queued_facts = Less(counters.queued_facts, 1)
          /\ counters'.processing_failures = counters.processing_failures + 1
          /\ counters'.observed = counters.observed /\ counters'.approved = counters.approved
          /\ counters'.qualified = counters.qualified
      <4> PICK n \in Nat, k \in Nat : /\ n = Less(counters.queued_facts, 1)
                                      /\ k = counters.processing_failures + 1
        BY <3>1
      <4> PICK d : d = [counters EXCEPT !.queued_facts = n, !.processing_failures = k]
        OBVIOUS
      <4>1. /\ d.queued_facts = n /\ d.processing_failures = k
            /\ d.observed = counters.observed /\ d.approved = counters.approved
            /\ d.qualified = counters.qualified
        <5> PICK b \in Counters : b = counters
          BY <1>0
        <5>1. d = [b EXCEPT !.queued_facts = n, !.processing_failures = k]
          OBVIOUS
        <5>2. /\ d.queued_facts = n /\ d.processing_failures = k /\ d.observed = b.observed
              /\ d.approved = b.approved /\ d.qualified = b.qualified
          BY ONLY b \in Counters, n \in Nat, k \in Nat, <5>1 DEF Counters
        <5> QED  BY <5>2
      <4>2. counters' = d
        BY <2>2
      <4> QED  BY <4>1, <4>2
    <3>3. work'[o].status = "FAILED" /\ \A p \in Facts \ {o} : work'[p] = work[p]
      BY Zenon, <1>0, <2>2, FinishReads
    <3>4. /\ Queued' = Queued \ {o} /\ o \in Queued
          /\ FailedRows' = FailedRows \cup {o} /\ o \notin FailedRows
      BY <2>1, <3>3 DEF Queued, FailedRows
    <3>5. /\ Cardinality(Queued) \in Nat /\ Cardinality(Queued) >= 1
          /\ Cardinality(Queued \ {o}) = Cardinality(Queued) - 1
          /\ Cardinality(FailedRows \cup {o}) = Cardinality(FailedRows) + 1
      BY Zenon, <3>4, SetsFinite, CountOne
    <3>6. QueueAgrees'
      BY <1>2, <3>2, <3>4, <3>5 DEF QueueAgrees, Less
    <3> QED  BY <1>3, <2>1, <3>2, <3>6
  <2>3. CASE /\ work' = [work EXCEPT ![o] = [Finish(work[o], "PENDING") EXCEPT
                                              !.timer = "waiting"]]
             /\ UNCHANGED counters
    <3>1. work'[o].status = "PENDING" /\ \A p \in Facts \ {o} : work'[p] = work[p]
      BY Zenon, <1>0, <2>3, FinishReads
    <3> QED  BY <1>6, <2>1, <2>3, <3>1
  <2> QED  BY <1>0, <1>11, <2>2, <2>3, RetryWrites
<1>12. CASE Decision
  <2> PICK m \in Mints, s \in Stages :
             LET t == [tokens[m] EXCEPT !.stage = s]
             IN /\ tokens[m] # NoToken /\ tokens[m] \in TokenRow /\ t \in TokenRow
                /\ tokens' = [tokens EXCEPT ![m] = t]
                /\ counters' = CountStage(counters, tokens[m], t)
    BY Zenon, <1>0, <1>12, DecisionWrites
  <2> PICK t \in TokenRow : t = [tokens[m] EXCEPT !.stage = s]
    OBVIOUS
  <2> PICK c \in Counters : c = CountStage(counters, tokens[m], t)
    BY <1>0, CountStageReads
  <2>1. tokens' = [tokens EXCEPT ![m] = t] /\ counters' = c /\ UNCHANGED work
    BY <1>0, <1>12, DecisionWrites
  <2>2. StagesAgree'
    BY Zenon, <1>0, <1>2, <2>1, StageCounts
  <2>3. /\ counters'.queued_facts = counters.queued_facts
        /\ counters'.processing_failures = counters.processing_failures
    BY <1>0, <2>1, CountStageReads
  <2> QED  BY <1>2, <1>4, <2>1, <2>2, <2>3 DEF Queued, FailedRows
<1>13. CASE RebuildDiscoveryProjection
  <2>1. UNCHANGED <<work, tokens>> /\ counters' = Recount
    BY SMTT(20), <1>13 DEF RebuildDiscoveryProjection
  <2> QED  BY <2>1 DEF CountersAgree, Recount, Queued, Staged
<1> QED  BY <1>2, <1>5, <1>7, <1>8, <1>9, <1>10, <1>11, <1>12, <1>13, StepKinds

\* The running counters are what a rebuild would count, after any history of
\* claims, lost leases, retries, decisions and unanswered commits.
THEOREM CountersExact == Spec => []CountersAgree
<1>1. Init => CountersAgree
  <2> SUFFICES ASSUME Init
               PROVE  CountersAgree
    OBVIOUS
  <2>1. /\ Queued = {} /\ {o \in Facts : work[o].status = "FAILED"} = {}
    BY DEF Init, AbsentRow, Queued
  <2>2. Staged(Stages) = {} /\ Staged({"APPROVED"}) = {} /\ Staged(Qualified) = {}
    BY DEF Init, NoToken, Staged, Stages, Qualified
  <2> QED  BY Zenon, <2>1, <2>2, FS_EmptySet DEF Init, CountersAgree, Recount
<1>2. CountersAgree /\ UNCHANGED vars => CountersAgree'
  BY DEF CountersAgree, Recount, Queued, Staged, vars, database
<1> QED  BY <1>1, <1>2, CountersStep, WorkInvariant, PTL DEF Spec
=============================================================================

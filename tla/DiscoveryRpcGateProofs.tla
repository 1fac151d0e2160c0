---------------------- MODULE DiscoveryRpcGateProofs ----------------------
(* Proofs about DiscoveryRpcGate for any number of tasks and signatures,   *)
(* any age limit, skew and margin with Skew + MaxLag < Margin, and any     *)
(* pacing.                                                                 *)
EXTENDS DiscoveryRpcGate, FiniteSetTheorems, SequenceTheorems, TLAPS

USE DEF NoTime

\* The front of the queue that claim_at pops is a prefix.
LEMMA PoppedPrefix ==
    ASSUME TypeOK
    PROVE  /\ Cardinality(Popped) \in 0..Len(expirations)
           /\ Popped = 1..Cardinality(Popped)
<1> DEFINE len == Len(expirations)
           n == Cardinality(Popped)
<1>1. len \in Nat
  BY DEF TypeOK
<1>2. IsFiniteSet(1..len)
  BY <1>1, FS_Interval
<1>3. Popped \in SUBSET (1..len)
  BY DEF Popped
<1>4. IsFiniteSet(Popped) /\ n \in Nat
  BY Zenon, <1>2, <1>3, FS_Subset, FS_CardinalityType
<1>5. ASSUME NEW i \in Popped PROVE i \in 1..n
  <2>1. i \in 1..len /\ 1..i \in SUBSET Popped
    BY <1>1, <1>5 DEF Popped
  <2>2. Cardinality(1..i) = i
    BY <1>1, <2>1, FS_Interval
  <2>3. i <= n
    BY <1>4, <2>1, <2>2, FS_Subset
  <2> QED  BY <1>1, <1>4, <2>1, <2>3
<1>6. ASSUME NEW i \in 1..n, i \notin Popped PROVE FALSE
  <2>1. i \in Nat /\ i >= 1 /\ i <= n
    BY <1>4
  <2>2. ASSUME NEW j \in Popped PROVE j \in 1..(i - 1)
    <3>1. j \in 1..len /\ \A m \in 1..j : m \in Popped
      BY <1>1 DEF Popped
    <3> QED  BY <1>1, <1>6, <2>1, <3>1
  <2>3. IsFiniteSet(1..(i - 1)) /\ Cardinality(1..(i - 1)) = i - 1
    BY <2>1, FS_Interval
  <2>4. n <= i - 1
    BY <2>2, <2>3, FS_Subset
  <2> QED  BY <1>4, <2>1, <2>4
<1>7. Popped = 1..n
  BY Zenon, <1>5, <1>6
<1>8. n <= len
  <2>1. CASE n = 0
    BY <1>1, <2>1
  <2>2. CASE n # 0
    <3>1. n \in 1..len
      BY <1>3, <1>4, <1>7, <2>2
    <3> QED  BY <1>1, <3>1
  <2> QED  BY <2>1, <2>2
<1> HIDE DEF n, len
<1>9. n \in 0..len
  BY <1>1, <1>4, <1>8
<1> QED  BY <1>7, <1>9 DEF n, len

\* What is left of the queue, entry by entry.
LEMMA KeptEntries ==
    ASSUME TypeOK
    PROVE  LET n == Cardinality(Popped) IN
           /\ Kept \in Seq(Claim)
           /\ Len(Kept) = Len(expirations) - n
           /\ \A i \in 1..Len(Kept) : i + n \in 1..Len(expirations) /\ Kept[i] = expirations[i + n]
<1> DEFINE len == Len(expirations)
           n == Cardinality(Popped)
<1>1. len \in Nat /\ n \in Nat /\ n <= len
  BY PoppedPrefix DEF TypeOK
<1>2. \A i \in (n + 1)..len : expirations[i] \in Claim
  BY <1>1 DEF TypeOK
<1>3. /\ Kept \in Seq(Claim)
      /\ Len(Kept) = IF n + 1 <= len THEN len - (n + 1) + 1 ELSE 0
      /\ \A i \in 1..(len - (n + 1) + 1) : Kept[i] = expirations[(n + 1) + i - 1]
  BY <1>1, <1>2, SubSeqProperties DEF Kept
<1> HIDE DEF n, len
<1>4. Len(Kept) = len - n
  <2>1. CASE n = len
    BY <1>1, <1>3, <2>1
  <2>2. CASE n < len
    BY <1>1, <1>3, <2>2
  <2> QED  BY <1>1, <2>1, <2>2
<1>5. ASSUME NEW i \in 1..Len(Kept)
      PROVE  i + n \in 1..len /\ Kept[i] = expirations[i + n]
  <2>1. i \in 1..(len - (n + 1) + 1) /\ (n + 1) + i - 1 = i + n
    BY <1>1, <1>4
  <2>2. Kept[i] = expirations[(n + 1) + i - 1]
    BY <1>3, <2>1
  <2> QED  BY <1>1, <1>4, <2>1, <2>2
<1> QED  BY <1>3, <1>4, <1>5 DEF n, len

\* Popping only ever forgets a claim, and only an expired one.
LEMMA ReleasedValues ==
    ASSUME TypeOK
    PROVE  /\ Released \in [Signatures -> Nat]
           /\ \A s \in Signatures :
                Released[s] # values[s] => Released[s] = NoTime /\ values[s] <= now
<1>1. Released \in [Signatures -> Nat]
  BY DEF TypeOK, Released
<1>2. ASSUME NEW s \in Signatures, Released[s] # values[s]
      PROVE  Released[s] = NoTime /\ values[s] <= now
  <2>1. PICK i \in Popped : expirations[i].sig = s /\ expirations[i].at = values[s]
    BY <1>2 DEF Released
  <2>2. i \in 1..i /\ expirations[i].at <= now
    BY <2>1 DEF Popped, TypeOK
  <2> QED  BY <1>2, <2>1, <2>2 DEF Released
<1> QED  BY <1>1, <1>2

-----------------------------------------------------------------------------
(* Type correctness.                                                       *)

\* A new gate holds no claim and has no request behind it.
LEMMA TypeInit == Init => TypeOK
<1> SUFFICES ASSUME Init PROVE TypeOK
  OBVIOUS
<1>1. IdleTask \in Task
  BY SignaturesAssumption DEF IdleTask, Task, Stages
<1>2. Times \subseteq Nat
  BY GateAssumption DEF Times
<1>3. eventTime \in [Signatures -> Nat]
  BY Zenon, <1>2 DEF Init
<1>4. task \in [Tasks -> Task]
  BY <1>1 DEF Init
<1>5. expirations \in Seq(Claim)
  BY DEF Init
<1> QED  BY <1>3, <1>4, <1>5 DEF Init, TypeOK

\* Every step of a notification through the gate keeps the types.
LEMMA TypeStep == ASSUME TypeOK, [Next]_vars PROVE TypeOK'
<1> USE GateAssumption
<1>1. CASE Tick
  BY <1>1 DEF Tick, TypeOK, signatures, pacing, history
<1>2. IdleTask \in Task
  BY SignaturesAssumption DEF IdleTask, Task, Stages
<1>3. ASSUME NEW t \in Tasks PROVE task[t] \in Task
  BY DEF TypeOK
<1>4. ASSUME NEW t \in Tasks, NEW s \in Signatures, Deliver(t, s) PROVE TypeOK'
  <2>1. [stage |-> "received", sig |-> s, receipt |-> now, deadline |-> NoTime,
         wake |-> NoTime] \in Task
    BY DEF Task, Stages, TypeOK
  <2> QED  BY <1>4, <2>1 DEF Deliver, Move, TypeOK, signatures, pacing, history
<1>5. ASSUME NEW t \in Tasks, ClassifyNotification(t) PROVE TypeOK'
  <2>1. [task[t] EXCEPT !.stage = "fresh"] \in Task
    BY <1>3 DEF Task, Stages
  <2> QED  BY SMTT(20), <1>2, <1>5, <2>1 DEF ClassifyNotification, Move, TypeOK, signatures, pacing, history
<1>6. ASSUME NEW t \in Tasks, ClaimSignature(t) PROVE TypeOK'
  <2> DEFINE k == task[t]
             end == DiscoveryAdmissionDeadline(k)
             entry == [at |-> now + Retention, sig |-> k.sig]
  <2>1. k \in Task /\ k.sig \in Signatures /\ k.receipt \in Nat /\ eventTime[k.sig] \in Nat
    BY <1>3 DEF Task, TypeOK
  <2>2. end \in Nat /\ now + Retention \in Nat
    BY SMTT(20), <2>1 DEF DiscoveryAdmissionDeadline, Retention, TypeOK
  <2>3. [k EXCEPT !.stage = "permit", !.deadline = end] \in Task /\ entry \in Claim
    BY Zenon, <2>1, <2>2 DEF Task, Stages, Claim
  <2>4. Kept \in Seq(Claim) /\ Append(Kept, entry) \in Seq(Claim)
    BY <2>3, KeptEntries
  <2>5. Released \in [Signatures -> Nat] /\ [Released EXCEPT ![k.sig] = now + Retention] \in [Signatures -> Nat]
    BY Zenon, <2>2, ReleasedValues
  <2>6. values' \in [Signatures -> Nat] /\ expirations' \in Seq(Claim)
    BY Zenon, <1>6, <2>4, <2>5 DEF ClaimSignature
  <2>7. task' \in [Tasks -> Task]
    BY Zenon, <1>2, <1>6, <2>3 DEF ClaimSignature, Move, TypeOK
  <2>8. UNCHANGED <<now, eventTime, pacing, history>>
    BY <1>6 DEF ClaimSignature, Move
  <2> QED  BY <2>6, <2>7, <2>8 DEF TypeOK, pacing, history
<1>7. ASSUME NEW t \in Tasks, AcquirePermit(t) PROVE TypeOK'
  <2>1. [task[t] EXCEPT !.stage = "pacing"] \in Task
    BY <1>3 DEF Task, Stages
  <2> QED  BY SMTT(20), <1>7, <2>1 DEF AcquirePermit, Move, TypeOK, signatures, pacing, history
<1>8. ASSUME NEW t \in Tasks, ReserveIfReady(t) PROVE TypeOK'
  <2>1. /\ [task[t] EXCEPT !.stage = "admitted"] \in Task
        /\ [task[t] EXCEPT !.wake = ReadyAt] \in Task
    BY Zenon, <1>3 DEF Task, Stages, ReadyAt, TypeOK
  <2>2. CASE SleepUntilReady(t)
    BY SMTT(20), <1>8, <2>1, <2>2 DEF ReserveIfReady, SleepUntilReady, Move, TypeOK, signatures, pacing
  <2>3. CASE TakeSlot(t)
    BY SMTT(20), <1>8, <2>1, <2>3 DEF ReserveIfReady, TakeSlot, Move, TypeOK, signatures
  <2> QED  BY <1>8, <2>2, <2>3 DEF ReserveIfReady
<1>9. ASSUME NEW t \in Tasks, StartRead(t) PROVE TypeOK'
  <2>1. [task[t] EXCEPT !.stage = "reading"] \in Task
    BY <1>3 DEF Task, Stages
  <2>2. task' \in [Tasks -> Task]
    BY <1>9, <2>1 DEF StartRead, Move, TypeOK
  <2> DEFINE s == task[t].sig
  <2>3. s \in Signatures
    BY <1>3 DEF Task
  <2>4. attempts' = [attempts EXCEPT ![s] = @ + 1]
    BY <1>9 DEF StartRead
  <2> HIDE DEF s
  <2>5. attempts' \in [Signatures -> Nat]
    BY <2>3, <2>4 DEF TypeOK
  <2> QED  BY Zenon, <1>9, <2>2, <2>5 DEF StartRead, Move, TypeOK, signatures, pacing
<1>10. ASSUME NEW t \in Tasks, RecordRateLimit(t) PROVE TypeOK'
  BY <1>2, <1>10 DEF RecordRateLimit, Move, TypeOK, signatures
<1>11. ASSUME NEW t \in Tasks, Finish(t) PROVE TypeOK'
  BY <1>2, <1>11 DEF Finish, Move, TypeOK, signatures, pacing, history
<1>12. CASE UNCHANGED vars
  BY <1>12 DEF vars, TypeOK, signatures, pacing, history
<1> QED  BY <1>1, <1>4, <1>5, <1>6, <1>7, <1>8, <1>9, <1>10, <1>11, <1>12 DEF Next, TaskNext

-----------------------------------------------------------------------------
(* Time.  A task that has not claimed yet is at most MaxLag past its       *)
(* receipt; one that waits for admission is at most MaxLag past its        *)
(* deadline, which is not past the age limit.                              *)

Waiting(k) == k.stage \in {"permit", "pacing", "admitted"}

OnSchedule(k) ==
    /\ k.stage \in {"received", "fresh"} => k.receipt <= now /\ now <= k.receipt + MaxLag
    /\ k.stage = "fresh" => /\ k.receipt <= eventTime[k.sig] + MaxAge
                            /\ eventTime[k.sig] <= now + Skew
    /\ Waiting(k) => now <= k.deadline + MaxLag /\ k.deadline <= eventTime[k.sig] + MaxAge

TimeInv == now > NoTime /\ \A t \in Tasks : OnSchedule(task[t])

\* No task is under way when the gate is created.
LEMMA TimeInit == Init => TimeInv
BY DEF Init, TimeInv, OnSchedule, Waiting, IdleTask

\* A task that moves to a place on schedule leaves the others where they are.
LEMMA MoveOnSchedule ==
    ASSUME TypeOK, TimeInv, NEW t \in Tasks, NEW from, NEW k, Move(t, from, k), OnSchedule(k)
    PROVE  TimeInv'
<1>1. now' = now /\ eventTime' = eventTime /\ task'[t] = k
      /\ \A u \in Tasks \ {t} : task'[u] = task[u]
  BY DEF Move, TypeOK
<1>2. ASSUME NEW u \in Tasks PROVE OnSchedule(task[u])'
  <2>1. CASE u = t
    BY <1>1, <2>1 DEF OnSchedule, Waiting
  <2>2. CASE u # t
    BY <1>1, <2>2 DEF TimeInv, OnSchedule, Waiting
  <2> QED  BY <2>1, <2>2
<1> QED  BY <1>1, <1>2 DEF TimeInv

\* The clock does not overtake a task, and every task step stays on schedule.
LEMMA TimeStep == ASSUME TypeOK, TimeInv, [Next]_vars PROVE TimeInv'
<1> USE GateAssumption
<1>1. ASSUME Tick PROVE TimeInv'
  <2>1. ASSUME NEW t \in Tasks PROVE OnSchedule(task[t])'
    <3> DEFINE k == task[t]
    <3>1. /\ k \in Task /\ k.receipt \in Nat /\ k.deadline \in Nat
          /\ eventTime[k.sig] \in Nat /\ now \in Nat
      BY DEF TypeOK, Task
    <3>2. OnSchedule(k) /\ OnTime(k) /\ now' = now + 1 /\ eventTime' = eventTime /\ task' = task
      BY <1>1 DEF TimeInv, Tick
    <3> QED  BY <3>1, <3>2 DEF OnSchedule, OnTime, Waiting
  <2> QED  BY <1>1, <2>1 DEF TimeInv, Tick, TypeOK
<1>2. OnSchedule(IdleTask)
  BY DEF OnSchedule, Waiting, IdleTask
<1>3. ASSUME NEW t \in Tasks
      PROVE  /\ task[t] \in Task /\ task[t].receipt \in Nat /\ eventTime[task[t].sig] \in Nat
             /\ now \in Nat /\ OnSchedule(task[t])
  BY DEF TypeOK, Task, TimeInv
<1>4. ASSUME NEW t \in Tasks, NEW s \in Signatures, Deliver(t, s) PROVE TimeInv'
  <2> DEFINE k == [stage |-> "received", sig |-> s, receipt |-> now,
                   deadline |-> NoTime, wake |-> NoTime]
  <2>1. OnSchedule(k)
    BY <1>3 DEF OnSchedule, Waiting
  <2>2. Move(t, "idle", k)
    BY <1>4 DEF Deliver
  <2> QED  BY <2>1, <2>2, MoveOnSchedule
<1>5. ASSUME NEW t \in Tasks, ClassifyNotification(t) PROVE TimeInv'
  <2> DEFINE k == [task[t] EXCEPT !.stage = "fresh"]
  <2>1. task[t].stage = "received"
    BY <1>5 DEF ClassifyNotification, Move
  <2>2. k.stage = "fresh" /\ k.receipt = task[t].receipt /\ k.sig = task[t].sig
    BY <1>3 DEF Task
  <2>3. DiscoveryEventIsFresh(task[t].sig) => OnSchedule(k)
    BY <1>3, <2>1, <2>2 DEF OnSchedule, Waiting, DiscoveryEventIsFresh
  <2>4. Move(t, "received", IF DiscoveryEventIsFresh(task[t].sig) THEN k ELSE IdleTask)
    BY <1>5 DEF ClassifyNotification
  <2> HIDE DEF k
  <2> QED  BY <1>2, <2>3, <2>4, MoveOnSchedule
<1>6. ASSUME NEW t \in Tasks, ClaimSignature(t) PROVE TimeInv'
  <2> DEFINE end == DiscoveryAdmissionDeadline(task[t])
             k == [task[t] EXCEPT !.stage = "permit", !.deadline = end]
  <2>1. end \in Nat /\ end <= eventTime[task[t].sig] + MaxAge
    BY <1>3 DEF DiscoveryAdmissionDeadline
  <2> HIDE DEF end
  <2>2. k.stage = "permit" /\ k.deadline = end /\ k.sig = task[t].sig
    BY <1>3 DEF Task
  <2>3. now < end => OnSchedule(k)
    BY <1>3, <2>1, <2>2 DEF OnSchedule, Waiting
  <2>4. \/ Move(t, "fresh", IdleTask)
        \/ Move(t, "fresh", IF now < end THEN k ELSE IdleTask)
    BY <1>6 DEF ClaimSignature, end
  <2> HIDE DEF k
  <2> QED  BY <1>2, <2>3, <2>4, MoveOnSchedule
<1>7. ASSUME NEW t \in Tasks, AcquirePermit(t) PROVE TimeInv'
  <2> DEFINE k == [task[t] EXCEPT !.stage = "pacing"]
  <2>1. Move(t, "permit", k) /\ task[t].stage = "permit"
    BY <1>7 DEF AcquirePermit, Move
  <2>2. OnSchedule(k)
    BY <1>3, <2>1 DEF OnSchedule, Waiting, Task
  <2> QED  BY <2>1, <2>2, MoveOnSchedule
<1>8. ASSUME NEW t \in Tasks, ReserveIfReady(t) PROVE TimeInv'
  <2> DEFINE k == [task[t] EXCEPT !.stage = "admitted"]
             w == [task[t] EXCEPT !.wake = ReadyAt]
  <2>1. task[t].stage = "pacing" /\ (Move(t, "pacing", k) \/ Move(t, "pacing", w))
    BY <1>8 DEF ReserveIfReady, SleepUntilReady, TakeSlot, Move
  <2>2. OnSchedule(k) /\ OnSchedule(w)
    BY <1>3, <2>1 DEF OnSchedule, Waiting, Task
  <2> QED  BY <2>1, <2>2, MoveOnSchedule
<1>9. ASSUME NEW t \in Tasks, StartRead(t) PROVE TimeInv'
  <2> DEFINE k == [task[t] EXCEPT !.stage = "reading"]
  <2>1. Move(t, "admitted", k)
    BY <1>9 DEF StartRead
  <2>2. OnSchedule(k)
    BY <1>3 DEF OnSchedule, Waiting, Task
  <2> QED  BY <2>1, <2>2, MoveOnSchedule
<1>10. ASSUME NEW t \in Tasks, RecordRateLimit(t) \/ Finish(t) PROVE TimeInv'
  <2>1. PICK from : Move(t, from, IdleTask)
    BY <1>10 DEF RecordRateLimit, Finish
  <2> QED  BY <1>2, <2>1, MoveOnSchedule
<1>11. CASE UNCHANGED vars
  BY <1>11 DEF vars, TimeInv, OnSchedule, Waiting
<1> QED  BY <1>1, <1>4, <1>5, <1>6, <1>7, <1>8, <1>9, <1>10, <1>11 DEF Next, TaskNext

-----------------------------------------------------------------------------
(* One attempt.  A signature is spent once it is claimed for a read.  Its  *)
(* claim was made when its event was at most Skew in the future, so it is  *)
(* held until the horizon, and past the horizon no delivery is fresh.      *)

Spent(s) == attempts[s] > 0 \/ \E t \in Tasks : Waiting(task[t]) /\ task[t].sig = s

Horizon(s) == eventTime[s] + MaxAge + Margin

Covered == \A s \in Signatures :
    Spent(s) => Horizon(s) <= now + Skew \/ Horizon(s) <= values[s] + Skew

Exclusive ==
    /\ \A t \in Tasks : Waiting(task[t]) => attempts[task[t].sig] = 0
    /\ \A t, u \in Tasks :
          Waiting(task[t]) /\ Waiting(task[u]) /\ task[t].sig = task[u].sig => t = u

OnceInv == AtMostOneAttempt /\ Exclusive /\ Covered

\* Nothing is spent when the gate is created.
LEMMA OnceInit == Init => OnceInv
<1> SUFFICES ASSUME Init PROVE OnceInv
  OBVIOUS
<1>1. \A t \in Tasks : ~Waiting(task[t])
  BY DEF Init, Waiting, IdleTask
<1>2. \A s \in Signatures : attempts[s] = 0
  BY DEF Init
<1> QED  BY <1>1, <1>2 DEF OnceInv, AtMostOneAttempt, Exclusive, Covered, Spent

\* Steps that claim nothing, start no read and forget only expired claims.
LEMMA OnceFrame ==
    ASSUME TypeOK, TypeOK', OnceInv, attempts' = attempts, eventTime' = eventTime, now <= now',
           \A s \in Signatures : values'[s] = values[s] \/ values[s] <= now,
           \A u \in Tasks : Waiting(task'[u]) => Waiting(task[u]) /\ task'[u].sig = task[u].sig
    PROVE  OnceInv'
<1> USE GateAssumption
<1>1. AtMostOneAttempt'
  BY DEF OnceInv, AtMostOneAttempt
<1>2. Exclusive'
  <2>1. \A u \in Tasks : Waiting(task'[u]) => attempts'[task'[u].sig] = 0
    BY DEF OnceInv, Exclusive
  <2>2. \A u, v \in Tasks :
          Waiting(task'[u]) /\ Waiting(task'[v]) /\ task'[u].sig = task'[v].sig => u = v
    BY DEF OnceInv, Exclusive
  <2> QED  BY <2>1, <2>2 DEF Exclusive, Waiting
<1>3. ASSUME NEW s \in Signatures, Spent(s)'
      PROVE  Horizon(s)' <= now' + Skew \/ Horizon(s)' <= values'[s] + Skew
  <2>1. Spent(s)
    BY <1>3 DEF Spent, Waiting
  <2>2. Horizon(s) <= now + Skew \/ Horizon(s) <= values[s] + Skew
    BY <2>1 DEF OnceInv, Covered
  <2>3. now \in Nat /\ now' \in Nat /\ values[s] \in Nat /\ values'[s] \in Nat /\ eventTime[s] \in Nat
    BY DEF TypeOK
  <2>4. Horizon(s)' = Horizon(s) /\ Horizon(s) \in Nat
    BY <2>3 DEF Horizon
  <2>5. values'[s] = values[s] \/ values[s] <= now
    OBVIOUS
  <2> HIDE DEF Horizon
  <2> QED  BY <2>2, <2>3, <2>4, <2>5
<1> QED  BY <1>1, <1>2, <1>3 DEF OnceInv, Covered

\* A fresh delivery of a spent signature finds its claim still held.
LEMMA SpentIsClaimed ==
    ASSUME TypeOK, TimeInv, OnceInv, NEW t \in Tasks, task[t].stage = "fresh",
           Spent(task[t].sig)
    PROVE  Released[task[t].sig] # NoTime
<1> USE GateAssumption
<1> DEFINE k == task[t]
           s == k.sig
<1>1. k \in Task /\ s \in Signatures /\ k.receipt \in Nat /\ now \in Nat
      /\ values[s] \in Nat /\ eventTime[s] \in Nat
  BY DEF TypeOK, Task
<1>2. now <= k.receipt + MaxLag /\ k.receipt <= eventTime[s] + MaxAge
  BY DEF TimeInv, OnSchedule
<1>3. Horizon(s) <= now + Skew \/ Horizon(s) <= values[s] + Skew
  BY <1>1 DEF OnceInv, Covered
<1> HIDE DEF k, s
<1>4. now + Skew < Horizon(s)
  BY <1>1, <1>2, MarginAssumption DEF Horizon
<1>5. now < values[s]
  BY <1>1, <1>3, <1>4 DEF Horizon
<1>6. Released[s] = values[s]
  <2>1. Released[s] # values[s] => values[s] <= now
    BY <1>1, ReleasedValues
  <2> QED  BY <1>1, <1>5, <2>1
<1> QED  BY <1>1, <1>5, <1>6 DEF s, k

\* At most one delivery of a signature gets as far as a read.
LEMMA OnceStep == ASSUME TypeOK, TypeOK', TimeInv, OnceInv, [Next]_vars PROVE OnceInv'
<1> USE GateAssumption
<1>1. CASE Tick
  BY <1>1, OnceFrame DEF Tick, signatures, history, TypeOK
<1>2. \A u \in Tasks : task[u] \in Task /\ task[u].sig \in Signatures
  BY DEF TypeOK, Task
<1>3. ~Waiting(IdleTask)
  BY DEF Waiting, IdleTask
<1>4. ASSUME NEW t \in Tasks, NEW from, NEW k, Move(t, from, k), attempts' = attempts,
             \A s \in Signatures : values'[s] = values[s] \/ values[s] <= now,
             Waiting(k) => Waiting(task[t]) /\ k.sig = task[t].sig
      PROVE  OnceInv'
  <2>1. /\ eventTime' = eventTime /\ now' = now
        /\ \A u \in Tasks : Waiting(task'[u]) => Waiting(task[u]) /\ task'[u].sig = task[u].sig
    BY <1>4 DEF Move, TypeOK
  <2>2. now <= now'
    BY <2>1 DEF TypeOK
  <2> QED  BY <1>4, <2>1, <2>2, OnceFrame
<1>5. ASSUME NEW t \in Tasks, NEW s \in Signatures, Deliver(t, s) PROVE OnceInv'
  <2> DEFINE k == [stage |-> "received", sig |-> s, receipt |-> now,
                   deadline |-> NoTime, wake |-> NoTime]
  <2>1. Move(t, "idle", k) /\ attempts' = attempts /\ values' = values
    BY <1>5 DEF Deliver, signatures, history
  <2>2. ~Waiting(k)
    BY DEF Waiting
  <2> HIDE DEF k
  <2> QED  BY <1>4, <2>1, <2>2
<1>6. ASSUME NEW t \in Tasks, ClassifyNotification(t) PROVE OnceInv'
  <2> DEFINE k == [task[t] EXCEPT !.stage = "fresh"]
  <2>1. /\ Move(t, "received", IF DiscoveryEventIsFresh(task[t].sig) THEN k ELSE IdleTask)
        /\ attempts' = attempts /\ values' = values
    BY <1>6 DEF ClassifyNotification, signatures, history
  <2>2. ~Waiting(k)
    BY <1>2 DEF Waiting, Task
  <2> HIDE DEF k
  <2> QED  BY <1>3, <1>4, <2>1, <2>2
<1>7. ASSUME NEW t \in Tasks, ClaimSignature(t) PROVE OnceInv'
  <2> DEFINE s == task[t].sig
             end == DiscoveryAdmissionDeadline(task[t])
             k == [task[t] EXCEPT !.stage = "permit", !.deadline = end]
  <2>1. attempts' = attempts /\ eventTime' = eventTime /\ now' = now
    BY <1>7 DEF ClaimSignature, Move, history
  <2>2. \A r \in Signatures : Released[r] = values[r] \/ values[r] <= now
    BY ReleasedValues
  <2>3. CASE Released[s] # NoTime
    <3>1. Move(t, "fresh", IdleTask) /\ values' = Released
      BY <1>7, <2>3 DEF ClaimSignature
    <3> QED  BY <1>3, <1>4, <2>1, <2>2, <3>1
  <2>4. CASE Released[s] = NoTime
    <3>1. /\ Move(t, "fresh", IF now < end THEN k ELSE IdleTask)
          /\ values' = [Released EXCEPT ![s] = now + Retention]
      BY <1>7, <2>4 DEF ClaimSignature
    <3>2. task[t].stage = "fresh" /\ s \in Signatures
      BY <1>2, <3>1 DEF Move
    <3>3. ~Spent(s)
      BY <2>4, <3>2, SpentIsClaimed
    <3>4. k.sig = s
      BY <1>2 DEF Task
    <3>5. \A u \in Tasks \ {t} : task'[u] = task[u]
      BY <3>1 DEF Move, TypeOK
    <3>6. task'[t] = IF now < end THEN k ELSE IdleTask
      BY <3>1 DEF Move, TypeOK
    <3>7. Waiting(task'[t]) => task'[t].sig = s
      BY <1>3, <3>4, <3>6
    <3>8. /\ \A u \in Tasks \ {t} : Waiting(task[u]) => task[u].sig # s
          /\ attempts[s] = 0
      BY SMTT(20), <3>2, <3>3 DEF Spent, TypeOK
    <3> HIDE DEF k, end
    <3>9. AtMostOneAttempt'
      BY <2>1 DEF OnceInv, AtMostOneAttempt
    <3>10. Exclusive'
      <4>1. \A u \in Tasks : Waiting(task'[u]) => attempts'[task'[u].sig] = 0
        BY <2>1, <3>5, <3>7, <3>8 DEF OnceInv, Exclusive
      <4>2. \A u, v \in Tasks :
              Waiting(task'[u]) /\ Waiting(task'[v]) /\ task'[u].sig = task'[v].sig => u = v
        BY <3>5, <3>7, <3>8 DEF OnceInv, Exclusive
      <4> QED  BY <4>1, <4>2 DEF Exclusive, Waiting
    <3>11. ASSUME NEW r \in Signatures, Spent(r)'
           PROVE  Horizon(r)' <= now' + Skew \/ Horizon(r)' <= values'[r] + Skew
      <4>1. now \in Nat /\ values[r] \in Nat /\ eventTime[r] \in Nat /\ eventTime[s] \in Nat
        BY SMTT(20), <3>2 DEF TypeOK
      <4>2. CASE r = s
        <5>1. values'[s] = now + Retention
          BY <3>1, <3>2, ReleasedValues
        <5>2. eventTime[s] <= now + Skew
          BY <3>2 DEF TimeInv, OnSchedule
        <5> QED  BY <2>1, <4>1, <4>2, <5>1, <5>2 DEF Horizon, Retention
      <4>3. CASE r # s
        <5>1. values'[r] = values[r] \/ values[r] <= now
          BY <2>2, <3>1, <4>3, ReleasedValues
        <5>2. Spent(r)
          BY <1>3, <1>7, <2>1, <3>5, <3>7, <4>3, <3>11 DEF Spent, Waiting
        <5>3. Horizon(r) <= now + Skew \/ Horizon(r) <= values[r] + Skew
          BY <5>2 DEF OnceInv, Covered
        <5>4. Horizon(r) \in Nat /\ Horizon(r)' = Horizon(r)
          BY <2>1, <4>1 DEF Horizon
        <5> HIDE DEF Horizon
        <5> QED  BY <2>1, <4>1, <5>1, <5>3, <5>4
      <4> QED  BY <4>2, <4>3
    <3> QED  BY <3>9, <3>10, <3>11 DEF OnceInv, Covered
  <2> QED  BY <2>3, <2>4
<1>8. ASSUME NEW t \in Tasks, AcquirePermit(t) PROVE OnceInv'
  <2> DEFINE k == [task[t] EXCEPT !.stage = "pacing"]
  <2>1. Move(t, "permit", k) /\ attempts' = attempts /\ values' = values
    BY <1>8 DEF AcquirePermit, signatures, history
  <2>2. Waiting(task[t]) /\ k.sig = task[t].sig
    BY <1>2, <2>1 DEF Waiting, Move, Task
  <2> HIDE DEF k
  <2> QED  BY <1>4, <2>1, <2>2
<1>9. ASSUME NEW t \in Tasks, ReserveIfReady(t) PROVE OnceInv'
  <2> DEFINE k == [task[t] EXCEPT !.stage = "admitted"]
             w == [task[t] EXCEPT !.wake = ReadyAt]
  <2>1. /\ attempts' = attempts /\ values' = values /\ task[t].stage = "pacing"
        /\ Move(t, "pacing", k) \/ Move(t, "pacing", w)
    BY <1>9 DEF ReserveIfReady, SleepUntilReady, TakeSlot, Move, signatures
  <2>2. Waiting(task[t]) /\ k.sig = task[t].sig /\ w.sig = task[t].sig
    BY <1>2, <2>1 DEF Waiting, Task
  <2> HIDE DEF k, w
  <2> QED  BY <1>4, <2>1, <2>2
<1>10. ASSUME NEW t \in Tasks, StartRead(t) PROVE OnceInv'
  <2> DEFINE s == task[t].sig
             k == [task[t] EXCEPT !.stage = "reading"]
  <2>1. /\ Move(t, "admitted", k) /\ values' = values
        /\ attempts' = [attempts EXCEPT ![s] = @ + 1]
    BY <1>10 DEF StartRead, signatures
  <2>2. s \in Signatures /\ Waiting(task[t]) /\ ~Waiting(k)
    BY <1>2, <2>1 DEF Waiting, Move, Task
  <2>3. /\ eventTime' = eventTime /\ now' = now /\ ~Waiting(task'[t])
        /\ \A u \in Tasks \ {t} : task'[u] = task[u]
    BY <2>1, <2>2 DEF Move, TypeOK
  <2>4. attempts[s] = 0 /\ \A u \in Tasks \ {t} : Waiting(task[u]) => task[u].sig # s
    BY <2>2 DEF OnceInv, Exclusive
  <2>5. Spent(s)
    BY <2>2 DEF Spent
  <2> HIDE DEF s, k
  <2>6. attempts'[s] = 1 /\ \A r \in Signatures \ {s} : attempts'[r] = attempts[r]
    BY <2>1, <2>2, <2>4 DEF TypeOK
  <2>7. AtMostOneAttempt'
    BY <2>2, <2>6 DEF OnceInv, AtMostOneAttempt
  <2>8. Exclusive'
    <3>1. \A u \in Tasks : Waiting(task'[u]) => attempts'[task'[u].sig] = 0
      BY <1>2, <2>3, <2>4, <2>6 DEF OnceInv, Exclusive
    <3>2. \A u, v \in Tasks :
            Waiting(task'[u]) /\ Waiting(task'[v]) /\ task'[u].sig = task'[v].sig => u = v
      BY <2>3 DEF OnceInv, Exclusive
    <3> QED  BY <3>1, <3>2 DEF Exclusive, Waiting
  <2>9. \A r \in Signatures : Spent(r)' => Spent(r)
    <3>1. ASSUME NEW r \in Signatures, r # s, Spent(r)' PROVE Spent(r)
      BY <2>3, <2>6, <3>1 DEF Spent, Waiting
    <3> QED  BY <2>5, <3>1
  <2>10. Covered'
    BY <2>1, <2>3, <2>9 DEF OnceInv, Covered, Horizon
  <2> QED  BY <2>7, <2>8, <2>10 DEF OnceInv
<1>11. ASSUME NEW t \in Tasks, RecordRateLimit(t) \/ Finish(t) PROVE OnceInv'
  <2>1. PICK from : Move(t, from, IdleTask)
    BY <1>11 DEF RecordRateLimit, Finish
  <2>2. attempts' = attempts /\ values' = values
    BY <1>11 DEF RecordRateLimit, Finish, signatures, history
  <2> QED  BY <1>3, <1>4, <2>1, <2>2
<1>12. CASE UNCHANGED vars
  BY <1>12, OnceFrame DEF vars, signatures, history, TypeOK
<1> QED  BY SMTT(20), <1>1, <1>5, <1>6, <1>7, <1>8, <1>9, <1>10, <1>11, <1>12 DEF Next, TaskNext

-----------------------------------------------------------------------------
(* Pacing.  The two times that a slot waits for are at least the end of    *)
(* the interval and of the cooldown, unless the cooldown is over.          *)

PaceInv ==
    /\ slot # NoTime => slot + Interval <= nextAllowed
    /\ limited # NoTime => \/ limited + RateLimitCooldown <= cooldown
                           \/ limited + RateLimitCooldown <= now

\* Taking a slot and recording a rate limit keep the pacing state ahead.
LEMMA PaceStep == ASSUME TypeOK, PaceInv, [Next]_vars PROVE PaceInv'
<1> USE GateAssumption
<1>1. CASE Tick
  BY <1>1 DEF Tick, PaceInv, pacing, history, TypeOK
<1>2. ASSUME NEW t \in Tasks, ReserveIfReady(t) PROVE PaceInv'
  <2>1. CASE SleepUntilReady(t)
    BY <1>2, <2>1 DEF ReserveIfReady, SleepUntilReady, Move, PaceInv, pacing
  <2>2. CASE TakeSlot(t)
    BY SMTT(20), <1>2, <2>2 DEF ReserveIfReady, TakeSlot, Move, PaceInv, TypeOK
  <2> QED  BY <1>2, <2>1, <2>2 DEF ReserveIfReady
<1>3. ASSUME NEW t \in Tasks, RecordRateLimit(t) PROVE PaceInv'
  BY <1>3 DEF RecordRateLimit, Move, PaceInv, TypeOK
<1>4. CASE UNCHANGED <<now, pacing, slot, limited>>
  BY <1>4 DEF PaceInv, pacing
<1>5. ASSUME NEW t \in Tasks, TaskNext(t), ~ReserveIfReady(t), ~RecordRateLimit(t)
      PROVE  UNCHANGED <<now, pacing, slot, limited>>
  BY <1>5 DEF TaskNext, Deliver, ClassifyNotification, ClaimSignature, AcquirePermit, StartRead,
              Finish, Move, history
<1>6. CASE UNCHANGED vars
  BY <1>4, <1>6 DEF vars, history
<1> QED  BY <1>1, <1>2, <1>3, <1>4, <1>5, <1>6 DEF Next

-----------------------------------------------------------------------------
(* The queue of expirations.                                               *)

QueueInv ==
    /\ ClaimsMatchQueue
    /\ \A i \in 1..Len(expirations) : NoTime < expirations[i].at /\ expirations[i].at <= now + Retention

\* What claim_at keeps still matches: a claim is released exactly when its
\* entry is popped.
LEMMA KeptMatches ==
    ASSUME TypeOK, QueueInv
    PROVE  /\ \A s \in Signatures : Released[s] # NoTime =>
                \E i \in 1..Len(Kept) : Kept[i] = [at |-> Released[s], sig |-> s]
           /\ \A i \in 1..Len(Kept) : Released[Kept[i].sig] = Kept[i].at
           /\ \A i, j \in 1..Len(Kept) :
                i < j => Kept[i].at <= Kept[j].at /\ Kept[i].sig # Kept[j].sig
           /\ \A i \in 1..Len(Kept) : NoTime < Kept[i].at /\ Kept[i].at <= now + Retention
<1> DEFINE len == Len(expirations)
           n == Cardinality(Popped)
<1>1. len \in Nat /\ n \in Nat /\ n <= len /\ Popped = 1..n
  BY PoppedPrefix DEF TypeOK
<1>2. /\ Len(Kept) = len - n
      /\ \A i \in 1..Len(Kept) : i + n \in 1..len /\ Kept[i] = expirations[i + n]
  BY KeptEntries
<1>3. \A i \in 1..len : expirations[i] \in Claim
  BY <1>1 DEF TypeOK
<1> HIDE DEF n, len
<1>4. ASSUME NEW s \in Signatures, Released[s] # NoTime
      PROVE  \E i \in 1..Len(Kept) : Kept[i] = [at |-> Released[s], sig |-> s]
  <2>1. Released[s] = values[s]
    BY <1>4 DEF Released
  <2>2. PICK j \in 1..len : expirations[j] = [at |-> values[s], sig |-> s]
    BY <1>4, <2>1 DEF QueueInv, ClaimsMatchQueue, len
  <2>3. expirations[j].sig = s /\ expirations[j].at = values[s]
    BY <2>2
  <2>4. j \notin Popped
    BY <1>4, <2>3 DEF Released
  <2>5. j - n \in 1..Len(Kept) /\ (j - n) + n = j
    BY <1>1, <1>2, <2>4
  <2>6. Kept[j - n] = [at |-> Released[s], sig |-> s]
    BY <1>2, <2>1, <2>2, <2>5
  <2> QED  BY <2>5, <2>6
<1>5. ASSUME NEW i \in 1..Len(Kept) PROVE Released[Kept[i].sig] = Kept[i].at
  <2> DEFINE e == expirations[i + n]
  <2>1. Kept[i] = e /\ i + n \in 1..len /\ e \in Claim /\ e.sig \in Signatures
    BY <1>2, <1>3 DEF Claim
  <2>2. values[e.sig] = e.at
    BY <2>1 DEF QueueInv, ClaimsMatchQueue, len
  <2>3. ASSUME NEW j \in Popped PROVE expirations[j].sig # e.sig
    <3>1. j \in 1..len /\ j < i + n
      BY <1>1, <1>2, <2>1
    <3> QED  BY <2>1, <3>1 DEF QueueInv, ClaimsMatchQueue, len
  <2>4. Released[e.sig] = values[e.sig]
    BY <2>1, <2>3 DEF Released
  <2> HIDE DEF e
  <2> QED  BY <2>1, <2>2, <2>4
<1>6. ASSUME NEW i \in 1..Len(Kept), NEW j \in 1..Len(Kept), i < j
      PROVE  Kept[i].at <= Kept[j].at /\ Kept[i].sig # Kept[j].sig
  <2>1. /\ i + n \in 1..len /\ j + n \in 1..len
        /\ Kept[i] = expirations[i + n] /\ Kept[j] = expirations[j + n]
    BY <1>2
  <2>2. i + n < j + n
    BY <1>1, <1>2, <1>6
  <2>3. \A a, b \in 1..len : a < b =>
          expirations[a].at <= expirations[b].at /\ expirations[a].sig # expirations[b].sig
    BY DEF QueueInv, ClaimsMatchQueue, len
  <2> QED  BY <2>1, <2>2, <2>3
<1>7. ASSUME NEW i \in 1..Len(Kept)
      PROVE  NoTime < Kept[i].at /\ Kept[i].at <= now + Retention
  BY <1>2 DEF QueueInv, len
<1> QED  BY <1>4, <1>5, <1>6, <1>7

\* Only claim_at touches the map and the queue, and it keeps them in step.
LEMMA QueueStep == ASSUME TypeOK, TimeInv, QueueInv, [Next]_vars PROVE QueueInv'
<1> USE GateAssumption
<1>1. now \in Nat /\ now > 0 /\ Retention \in Nat /\ Retention > 0
  BY MarginAssumption DEF TypeOK, TimeInv, Retention
<1>2. ASSUME UNCHANGED signatures, now' \in Nat, now <= now' PROVE QueueInv'
  <2>1. ClaimsMatchQueue'
    BY <1>2 DEF QueueInv, ClaimsMatchQueue, signatures
  <2>2. ASSUME NEW i \in 1..Len(expirations)
        PROVE  NoTime < expirations[i].at /\ expirations[i].at <= now' + Retention
    <3>1. expirations[i] \in Claim
      BY DEF TypeOK
    <3>2. expirations[i].at \in Nat
      BY <3>1 DEF Claim
    <3> QED  BY <1>1, <1>2, <3>2 DEF QueueInv
  <2>3. Retention' = Retention
    BY DEF Retention
  <2> QED  BY <1>2, <2>1, <2>2, <2>3 DEF QueueInv, signatures
<1>3. ASSUME NEW t \in Tasks, ClaimSignature(t) PROVE QueueInv'
  <2> DEFINE s == task[t].sig
             at == now + Retention
             e == [at |-> at, sig |-> s]
             q == Append(Kept, e)
  <2>1. now' = now /\ s \in Signatures
    BY <1>3 DEF ClaimSignature, Move, TypeOK, Task
  <2>2. Kept \in Seq(Claim) /\ Released \in [Signatures -> Nat]
    BY KeptEntries, ReleasedValues
  <2>3. CASE values' = Released /\ expirations' = Kept
    <3>1. ClaimsMatchQueue'
      BY <2>3, KeptMatches DEF ClaimsMatchQueue
    <3> QED  BY SMTT(20), <2>1, <2>3, <3>1, KeptMatches DEF QueueInv, Retention
  <2>4. CASE /\ Released[s] = NoTime
             /\ values' = [Released EXCEPT ![s] = at]
             /\ expirations' = q
    <3> DEFINE m == Len(Kept)
    <3>1. m \in Nat /\ e \in Claim
      BY <1>1, <2>1, <2>2 DEF Claim
    <3>2. Len(q) = m + 1 /\ q[m + 1] = e /\ \A i \in 1..m : q[i] = Kept[i]
      BY <2>2, <3>1
    <3>3. e.at = at /\ e.sig = s
      OBVIOUS
    <3>4. \A i \in 1..m : Kept[i].at \in Nat /\ Kept[i].sig \in Signatures
      <4>1. \A i \in 1..m : Kept[i] \in Claim
        BY <2>2
      <4> QED  BY <4>1 DEF Claim
    <3>5. \A i \in 1..m : /\ Released[Kept[i].sig] = Kept[i].at
                          /\ NoTime < Kept[i].at /\ Kept[i].at <= at
      BY KeptMatches
    <3>6. \A i \in 1..m : Kept[i].sig # s
      BY <2>4, <3>4, <3>5
    <3>7. values'[s] = at /\ \A r \in Signatures \ {s} : values'[r] = Released[r]
      BY SMTT(20), <2>1, <2>2, <2>4
    <3>8. ASSUME NEW r \in Signatures, Released[r] # NoTime
          PROVE  \E i \in 1..m : Kept[i] = [at |-> Released[r], sig |-> r]
      BY <3>8, KeptMatches
    <3>9. \A i, j \in 1..m : i < j => Kept[i].at <= Kept[j].at /\ Kept[i].sig # Kept[j].sig
      BY KeptMatches
    <3>10. at \in Nat /\ at > 0
      BY <1>1
    <3> HIDE DEF m, q, s, at
    <3>11. ASSUME NEW r \in Signatures, values'[r] # NoTime
           PROVE  \E i \in 1..Len(q) : q[i] = [at |-> values'[r], sig |-> r]
      <4>1. CASE r = s
        BY SMTT(20), <3>1, <3>2, <3>7, <4>1
      <4>2. CASE r # s
        <5>1. PICK i \in 1..m : Kept[i] = [at |-> Released[r], sig |-> r]
          BY <3>7, <3>8, <3>11, <4>2
        <5>2. i \in 1..Len(q) /\ q[i] = Kept[i]
          BY <3>1, <3>2
        <5> QED  BY SMTT(20), <3>7, <4>2, <5>1, <5>2
      <4> QED  BY <4>1, <4>2
    <3> HIDE DEF e
    <3>12. ASSUME NEW i \in 1..Len(q)
           PROVE  values'[q[i].sig] = q[i].at /\ NoTime < q[i].at /\ q[i].at <= at
      <4>1. CASE i = m + 1
        BY <3>2, <3>3, <3>7, <3>10, <4>1
      <4>2. CASE i \in 1..m
        BY <3>2, <3>4, <3>5, <3>6, <3>7, <4>2
      <4> QED  BY <3>1, <3>2, <4>1, <4>2
    <3>13. ASSUME NEW i \in 1..Len(q), NEW j \in 1..Len(q), i < j
           PROVE  q[i].at <= q[j].at /\ q[i].sig # q[j].sig
      <4>1. i \in 1..m /\ q[i] = Kept[i]
        BY <3>1, <3>2, <3>13
      <4>2. CASE j = m + 1
        BY SMTT(20), <3>2, <3>3, <3>5, <3>6, <4>1, <4>2
      <4>3. CASE j \in 1..m
        BY SMTT(20), <3>2, <3>9, <3>13, <4>1, <4>3
      <4> QED  BY <3>1, <3>2, <4>2, <4>3
    <3>14. ClaimsMatchQueue'
      BY <2>4, <3>11, <3>12, <3>13 DEF ClaimsMatchQueue
    <3> QED  BY <2>1, <2>4, <3>12, <3>14 DEF QueueInv, Retention, at
  <2> QED  BY <1>3, <2>3, <2>4 DEF ClaimSignature
<1>4. ASSUME NEW t \in Tasks, TaskNext(t), ~ClaimSignature(t) PROVE UNCHANGED <<now, signatures>>
  BY <1>4 DEF TaskNext, Deliver, ClassifyNotification, AcquirePermit, ReserveIfReady,
              SleepUntilReady, TakeSlot, StartRead, RecordRateLimit, Finish, Move
<1>5. CASE Tick
  BY <1>1, <1>2, <1>5 DEF Tick
<1>6. CASE UNCHANGED <<now, signatures>>
  BY <1>1, <1>2, <1>6
<1>7. CASE UNCHANGED vars
  BY <1>6, <1>7 DEF vars
<1> QED  BY <1>3, <1>4, <1>5, <1>6, <1>7 DEF Next

-----------------------------------------------------------------------------

IInv == TypeOK /\ TimeInv /\ OnceInv /\ PaceInv /\ QueueInv

\* The gate's invariant holds for as long as the stream runs.
THEOREM Invariance == Spec => []IInv
<1>1. Init => IInv
  <2> SUFFICES ASSUME Init PROVE IInv
    OBVIOUS
  <2>1. PaceInv
    BY DEF Init, PaceInv
  <2>2. expirations = << >> /\ \A s \in Signatures : values[s] = NoTime
    BY DEF Init
  <2>3. QueueInv
    BY <2>2 DEF QueueInv, ClaimsMatchQueue
  <2> QED  BY <2>1, <2>3, TypeInit, TimeInit, OnceInit DEF IInv
<1>2. IInv /\ [Next]_vars => IInv'
  BY TypeStep, TimeStep, OnceStep, PaceStep, QueueStep DEF IInv
<1> QED  BY <1>1, <1>2, PTL DEF Spec

\* Every variable of the gate keeps its type.
THEOREM TypeCorrect == Spec => []TypeOK
<1>1. IInv => TypeOK
  BY DEF IInv
<1> QED  BY <1>1, Invariance, PTL

\* However often a transaction is delivered, and whatever the age limit, it is
\* read over HTTP at most once.
THEOREM OneAttempt == Spec => []AtMostOneAttempt
<1>1. IInv => AtMostOneAttempt
  BY DEF IInv, OnceInv
<1> QED  BY <1>1, Invariance, PTL

\* The map of claims and the queue of expirations never drift apart, so that
\* claim_at releases every expired claim.
THEOREM QueueMatches == Spec => []ClaimsMatchQueue
<1>1. IInv => ClaimsMatchQueue
  BY DEF IInv, QueueInv
<1> QED  BY <1>1, Invariance, PTL

\* A discovery that has aged out is not read.
THEOREM FreshAttempt == Spec => AttemptIsFresh
<1>1. ASSUME IInv, [Next]_vars
      PROVE  [\A s \in Signatures :
                attempts'[s] # attempts[s] => now <= eventTime[s] + MaxAge + MaxLag]_vars
  <2> USE GateAssumption
  <2>1. ASSUME NEW t \in Tasks, StartRead(t), NEW s \in Signatures, attempts'[s] # attempts[s]
        PROVE  now <= eventTime[s] + MaxAge + MaxLag
    <3>1. task[t].stage = "admitted" /\ s = task[t].sig
      BY <1>1, <2>1 DEF StartRead, Move, IInv, TypeOK
    <3>2. OnSchedule(task[t]) /\ Waiting(task[t])
      BY <1>1, <3>1 DEF IInv, TimeInv, Waiting
    <3>3. now \in Nat /\ task[t].deadline \in Nat /\ eventTime[s] \in Nat
      BY <1>1 DEF IInv, TypeOK, Task
    <3> QED  BY <3>1, <3>2, <3>3 DEF OnSchedule
  <2>2. ASSUME NEW t \in Tasks, TaskNext(t), ~StartRead(t) PROVE attempts' = attempts
    BY Zenon, <2>2 DEF TaskNext, Deliver, ClassifyNotification, ClaimSignature, AcquirePermit,
                ReserveIfReady, RecordRateLimit, Finish, history
  <2>3. Tick => attempts' = attempts
    BY DEF Tick, history
  <2> QED  BY <1>1, <2>1, <2>2, <2>3 DEF Next
<1> QED  BY <1>1, Invariance, PTL DEF Spec, AttemptIsFresh

\* Slots are an interval apart and none is taken during a cooldown, also by
\* tasks that were asleep when the rate limit was recorded.
THEOREM Paced == Spec => RequestsArePaced
<1>1. ASSUME IInv, [Next]_vars
      PROVE  [\A t \in Tasks : (task[t].stage = "pacing" /\ task'[t].stage = "admitted") =>
                /\ slot # NoTime => now >= slot + Interval
                /\ limited # NoTime => now >= limited + RateLimitCooldown]_vars
  <2> USE GateAssumption
  <2>1. ASSUME NEW t \in Tasks, task[t].stage = "pacing", task'[t].stage = "admitted", Next
        PROVE  ReadyAt <= now
    <3>1. task[t] \in Task /\ TypeOK
      BY <1>1 DEF IInv, TypeOK
    <3>2. ASSUME NEW u \in Tasks, NEW from, NEW k, Move(u, from, k)
          PROVE  from = "pacing" /\ k.stage = "admitted"
      <4>1. u = t
        BY SMTT(20), <2>1, <3>1, <3>2 DEF Move, TypeOK
      <4> QED  BY <2>1, <3>1, <3>2, <4>1 DEF Move, TypeOK
    <3>3. PICK u \in Tasks : TaskNext(u)
      BY <2>1 DEF Next, Tick
    <3>4. ASSUME NEW s \in Signatures, Deliver(u, s) PROVE FALSE
      <4> DEFINE k == [stage |-> "received", sig |-> s, receipt |-> now,
                       deadline |-> NoTime, wake |-> NoTime]
      <4>1. Move(u, "idle", k)
        BY <3>4 DEF Deliver
      <4> HIDE DEF k
      <4> QED  BY <3>2, <4>1
    <3>5. ~ClassifyNotification(u)
      BY <3>2 DEF ClassifyNotification
    <3>6. ~ClaimSignature(u)
      BY <3>2 DEF ClaimSignature
    <3>7. ~AcquirePermit(u)
      BY <3>2 DEF AcquirePermit
    <3>8. ~StartRead(u) /\ ~RecordRateLimit(u)
      BY <3>2 DEF StartRead, RecordRateLimit
    <3>9. ~Finish(u)
      <4>1. IdleTask.stage # "admitted"
        BY DEF IdleTask
      <4> QED  BY <3>2, <4>1 DEF Finish
    <3>10. ~SleepUntilReady(u)
      <4> DEFINE w == [task[u] EXCEPT !.wake = ReadyAt]
      <4>1. task[u] \in Task
        BY <3>1 DEF TypeOK
      <4>2. w.stage = task[u].stage
        BY <4>1 DEF Task
      <4>3. SleepUntilReady(u) => task[u].stage = "pacing" /\ Move(u, "pacing", w)
        BY DEF SleepUntilReady, Move
      <4> HIDE DEF w
      <4> QED  BY <3>2, <4>2, <4>3
    <3> QED  BY SMTT(20), <3>3, <3>4, <3>5, <3>6, <3>7, <3>8, <3>9, <3>10 DEF TaskNext, ReserveIfReady
  <2>2. ReadyAt <= now => /\ slot # NoTime => now >= slot + Interval
                          /\ limited # NoTime => now >= limited + RateLimitCooldown
    BY <1>1 DEF ReadyAt, IInv, PaceInv, TypeOK
  <2> QED  BY SMTT(20), <1>1, <2>1, <2>2
<1> QED  BY <1>1, Invariance, PTL DEF Spec, RequestsArePaced
=============================================================================

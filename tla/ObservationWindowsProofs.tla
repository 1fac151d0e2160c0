---------------------- MODULE ObservationWindowsProofs ----------------------
(***************************************************************************)
(* Proofs about ObservationWindows for all values of its constants: types, *)
(* receipt times and what a step keeps of a token; the structure of the    *)
(* registry and the accounting of admissions; recorded doubt, the inductive*)
(* invariant and the theorems; then that a window is made incomplete only  *)
(* for a cause of its own.                                                 *)
(***************************************************************************)
EXTENDS ObservationWindows, TLAPS

\* The times of an interval that starts at t and lasts d.
LEMMA IntervalTimes ==
    \A t \in Nat : \A d \in Nat :
        /\ \A u \in t..(t + d - 1) : u \in Nat /\ t <= u
        /\ \A u \in Nat : t <= u /\ u < t + d => u \in t..(t + d - 1)
OBVIOUS

\* What is not earlier than a later time.
LEMMA Later ==
    /\ \A a \in Nat : \A b \in Nat : \A c \in Nat : b >= a /\ b <= c => c >= a
    /\ \A a \in Nat : \A b \in Nat : a > 0 /\ a <= b => b > 0
OBVIOUS

\* The receipts of an inbox are times.
LEMMA ReceiptTimes == \A q \in Seq(Nat) : \A i \in 1..Len(q) : q[i] \in Nat
OBVIOUS

\* The next generation is a number, and one of the generations while they last.
LEMMA NextGeneration ==
    ASSUME TypeOK
    PROVE  /\ next \in Nat /\ next + 1 # next /\ ~(next < next)
           /\ next <= MaxGeneration => next \in Generations
BY DEF TypeOK, Generations

\* The receipt time of a notification that runs.
LEMMA RunningReceipt ==
    ASSUME TypeOK, NEW s \in Sources, Running(s)
    PROVE  /\ inbox[s] \in Seq(Nat) /\ 1 \in 1..Len(inbox[s])
           /\ Receipt(s) = inbox[s][1] /\ Receipt(s) \in Nat
BY DEF TypeOK, Running, Receipt

\* The operations of a token stay within its type.
LEMMA TokenTypes ==
    ASSUME NEW tk \in Token
    PROVE  /\ Confirm(tk) \in Token
           /\ CancelIfPending(tk) \in Token
           /\ MarkIncomplete(tk) \in Token
           /\ CancelWithReason(tk) \in Token
           /\ MarkAdmitted(tk) \in Token
           /\ MarkSettled(tk) \in Token
<1>1. Confirm(tk) \in Token
  BY DEF Token, TokenStates, Confirm
<1>2. CancelIfPending(tk) \in Token
  BY DEF Token, TokenStates, CancelIfPending
<1>3. MarkIncomplete(tk) \in Token
  BY Zenon DEF Token, MarkIncomplete
<1>4. CancelWithReason(tk) \in Token
  BY Zenon, <1>2 DEF Token, TokenStates, MarkIncomplete, CancelWithReason
<1>5. MarkAdmitted(tk) \in Token
  BY SMTT(30) DEF Token, MarkAdmitted
<1>6. MarkSettled(tk) \in Token
  BY SMTT(30) DEF Token, MarkSettled
<1> QED  BY <1>1, <1>2, <1>3, <1>4, <1>5, <1>6

\* A token that gets its durable id is still a token.
LEMMA DurableType == ASSUME NEW tk \in Token PROVE [tk EXCEPT !.durable = TRUE] \in Token
BY Zenon DEF Token

\* A new token is neither claimed nor finalized.
LEMMA NewTokenFacts ==
    ASSUME NEW x, NEW t PROVE ~NewToken(x, t).claimed /\ ~NewToken(x, t).finalized
BY DEF NewToken

\* The token built by provision_target is well typed.
LEMMA NewTokenType ==
    ASSUME BoundsAssumption, SourceOfAssumption, gap \in [Sources -> Nat],
           NEW x \in Targets, NEW t \in Nat
    PROVE  NewToken(x, t) \in Token
<1> DEFINE b == t <= gap[SourceOf[x]] /\ gap[SourceOf[x]] < t + Duration
<1>1. b \in BOOLEAN
  OBVIOUS
<1>2. NewToken(x, t) =
        [target |-> x, opened |-> t, closes |-> t + Duration, state |-> "pending",
         durable |-> FALSE, admitted |-> 1, settled |-> 0,
         incomplete |-> b, claimed |-> FALSE, finalized |-> FALSE]
  BY DEF NewToken
<1>3. t + Duration \in Nat
  BY SMTT(30) DEF BoundsAssumption
<1> HIDE DEF b
<1> QED  BY SMTT(30), <1>1, <1>2, <1>3 DEF Token, TokenStates
-----------------------------------------------------------------------------
(* Type correctness.  An attempt is always about a generation.             *)

TypeInv == TypeOK /\ (fin.stage = "attempting" => fin.gen \in Generations)

\* The empty registry of a new pipeline attempt is well typed.
LEMMA TypeInit == ASSUME TargetsAssumption, BoundsAssumption PROVE Init => TypeInv
<1> SUFFICES ASSUME Init PROVE TypeInv
  OBVIOUS
<1> DEFINE x0 == CHOOSE x \in Targets : TRUE
<1>1. x0 \in Targets
  BY DEF TargetsAssumption
<1>2. UnbornToken(x0) \in Token
  BY <1>1 DEF UnbornToken, Token, TokenStates
<1> HIDE DEF x0
<1>3. tok \in [Generations -> Token]
  BY <1>2 DEF Init, x0
<1> QED  BY SMTT(30), <1>3 DEF Init, TypeInv, TypeOK, IdleFinalizer, NoTime, NoGen,
                 Finalizer, DiscoveryStages, BoundsAssumption

\* A notification that runs has a receipt time, and advances a watermark.
LEMMA RunningTypes ==
    ASSUME TypeOK, NEW s \in Sources, Running(s), RecordSourceProgress(s)
    PROVE  Receipt(s) \in Nat /\ progress' \in [Sources -> Nat]
<1>1. Receipt(s) \in Nat
  BY SMTT(30) DEF TypeOK, Running, Receipt
<1> QED  BY <1>1 DEF TypeOK, RecordSourceProgress

\* Rotation keeps the shape of the map and of the retained list.
LEMMA RotationTypes ==
    ASSUME TypeOK, NEW t \in Nat
    PROVE  /\ Rotated(t) \in [Targets -> Generations \cup {NoGen}]
           /\ RotatedRetained(t) \subseteq Generations
<1>1. \A x \in Targets : windows[x] # NoGen => windows[x] \in Generations
  BY DEF TypeOK
<1>2. {windows[x] : x \in Closed(t)} \subseteq Generations
  BY <1>1 DEF Closed
<1> QED  BY <1>1, <1>2 DEF TypeOK, Rotated, RotatedRetained, RetainIfDurable

\* Every step of the collector, processor, cancellation and finalizer keeps
\* the types.
LEMMA TypeStep ==
    ASSUME BoundsAssumption, SourceOfAssumption, TypeInv, Next
    PROVE  TypeInv'
<1> USE BoundsAssumption, SourceOfAssumption DEF TypeInv
<1>0. TypeOK
  OBVIOUS
<1>1. CASE Tick
  BY SMTT(30), <1>1 DEF Tick, registry, clients, TypeOK
<1>2. ASSUME NEW s \in Sources, Receive(s) PROVE TypeInv'
  BY SMTT(30), <1>2 DEF Receive, registry, TypeOK
<1>3. ASSUME NEW s \in Sources, FinishNotification(s) PROVE TypeInv'
  <2>1. inbox' \in [Sources -> Seq(Nat)]
    BY SMTT(30), <1>3 DEF FinishNotification, Running, TypeOK
  <2> QED  BY Zenon, <1>3, <2>1, RunningTypes DEF FinishNotification, TypeOK
<1>4. ASSUME NEW s \in Sources, NEW p \in Sources, RecordSourceCoverageGap(s, p) PROVE TypeInv'
  <2>1. Receipt(s) \in Nat /\ progress' \in [Sources -> Nat]
    BY <1>4, RunningTypes DEF RecordSourceCoverageGap
  <2>2. tok' \in [Generations -> Token]
    BY <1>4, TokenTypes DEF RecordSourceCoverageGap, TypeOK
  <2>3. doubted' \subseteq Generations
    BY <1>4 DEF RecordSourceCoverageGap, Covering, TypeOK
  <2>4. gap' \in [Sources -> Nat] /\ gaps' \subseteq Sources \X Nat
    BY SMTT(30), <1>4, <2>1 DEF RecordSourceCoverageGap, TypeOK
  <2> QED  BY <1>4, <2>1, <2>2, <2>3, <2>4 DEF RecordSourceCoverageGap, clients, TypeOK
<1>5. ASSUME NEW s \in Sources, NEW x \in Targets, AdmitMatchingToken(s, x) PROVE TypeInv'
  <2>1. progress' \in [Sources -> Nat]
    BY <1>5, RunningTypes DEF AdmitMatchingToken
  <2>2. windows[x] \in Generations
    BY <1>5 DEF AdmitMatchingToken, TypeOK
  <2>3. tok' \in [Generations -> Token] /\ queued' \in [Generations -> Nat]
    BY SMTT(30), <1>5, <2>2, TokenTypes DEF AdmitMatchingToken, TypeOK
  <2> QED  BY Zenon, <1>5, <2>1, <2>3 DEF AdmitMatchingToken, TypeOK
<1>6. ASSUME NEW s \in Sources, NEW x \in Targets, ProvisionTarget(s, x) PROVE TypeInv'
  <2> DEFINE t == Receipt(s)
             w == Rotated(t)
  <2>1. t \in Nat /\ progress' \in [Sources -> Nat]
    BY <1>6, RunningTypes DEF ProvisionTarget
  <2>2. /\ w \in [Targets -> Generations \cup {NoGen}]
        /\ RotatedRetained(t) \subseteq Generations
    BY <2>1, RotationTypes
  <2> HIDE DEF t, w
  <2>3. CASE /\ windows' = w /\ retained' = RotatedRetained(t)
             /\ UNCHANGED <<tok, next, disc, doubted>>
    BY Zenon, <1>6, <2>1, <2>2, <2>3 DEF ProvisionTarget, TypeOK
  <2>4. ASSUME NEW evicted \in Evictions(w), OpenProvisional(x, t, w, evicted)
        PROVE  TypeInv'
    <3> DEFINE victims == {w[y] : y \in evicted}
    <3>1. victims \subseteq Generations
      BY SMTT(30), <2>2, <2>4 DEF Evictions
    <3>2. next \in Generations
      BY SMTT(30), <2>4 DEF OpenProvisional, TypeOK, Generations
    <3> HIDE DEF victims
    <3>3. tok' \in [Generations -> Token]
      BY <2>1, <2>4, TokenTypes, NewTokenType DEF OpenProvisional, TypeOK, victims
    <3>4. windows' \in [Targets -> Generations \cup {NoGen}]
      BY <2>2, <2>4, <3>2 DEF OpenProvisional
    <3>5. retained' \subseteq Generations /\ doubted' \subseteq Generations
      BY Zenon, <2>2, <2>4, <3>1, <3>2 DEF OpenProvisional, victims, RetainIfDurable, TypeOK
    <3>6. next' \in 1..(MaxGeneration + 1) /\ disc' \in [Generations -> DiscoveryStages]
      BY SMTT(20), <2>4, <3>2 DEF OpenProvisional, TypeOK, Generations, DiscoveryStages, BoundsAssumption
    <3> QED  BY Zenon, <1>6, <2>1, <3>3, <3>4, <3>5, <3>6 DEF ProvisionTarget, TypeOK
  <2> QED  BY <1>6, <2>3, <2>4 DEF ProvisionTarget, t, w
<1>7. ASSUME NEW g \in Generations, DiscoveryNext(g) PROVE TypeInv'
  <2> tok[g] \in Token
    BY DEF TypeOK
  <2>1. CASE CancelDiscovery(g)
    <3>1. MarkSettled(CancelIfPending(tok[g])) \in Token
      BY TokenTypes
    <3> QED  BY <2>1, <3>1 DEF CancelDiscovery, DiscoveryStep, TypeOK, DiscoveryStages
  <2>2. CASE OpenDurableWindow(g)
    BY <2>2 DEF OpenDurableWindow, DiscoveryStep, TypeOK, DiscoveryStages
  <2>3. ASSUME NEW from, FailDiscovery(g, from) PROVE TypeInv'
    <3>1. MarkIncomplete(tok[g]) \in Token
      BY TokenTypes
    <3> QED  BY SMTT(30), <2>3, <3>1 DEF FailDiscovery, DiscoveryStep, TypeOK, DiscoveryStages
  <2>4. CASE DiscoveryStep(g, "opened", "confirmed", [Confirm(tok[g]) EXCEPT !.durable = TRUE])
             /\ UNCHANGED <<failing, doubted>>
    <3>1. tok[g] \in Token
      BY DEF TypeOK
    <3>2. Confirm(tok[g]) \in Token
      BY <3>1, TokenTypes
    <3>3. [Confirm(tok[g]) EXCEPT !.durable = TRUE] \in Token
      BY <3>2, DurableType
    <3> QED  BY Zenon, <2>4, <3>3 DEF DiscoveryStep, TypeOK, DiscoveryStages
  <2>5. CASE FinishDiscovery(g)
    <3>1. MarkSettled(tok[g]) \in Token
      BY TokenTypes
    <3> QED  BY SMTT(20), <2>5, <3>1 DEF FinishDiscovery, DiscoveryStep, TypeOK, DiscoveryStages
  <2> QED  BY <1>7, <2>1, <2>2, <2>3, <2>4, <2>5 DEF DiscoveryNext, ConfirmWindow, DropDiscovery
<1>8. ASSUME NEW g \in Generations, ActivityNext(g) PROVE TypeInv'
  <2> tok[g] \in Token
    BY DEF TypeOK
  <2>1. CASE PersistActivity(g)
    <3>1. MarkSettled(tok[g]) \in Token
      BY TokenTypes
    <3> QED  BY SMTT(20), <2>1, <3>1 DEF PersistActivity, ActivityStep, TypeOK
  <2>2. ASSUME NEW tk \in Token, FailActivity(g, tk) PROVE TypeInv'
    BY SMTT(20), <2>2 DEF FailActivity, ActivityStep, TypeOK
  <2>3. CASE SettleFailed(g)
    <3>1. MarkSettled(tok[g]) \in Token
      BY TokenTypes
    <3>2. failing' \in [Generations -> Nat]
      BY SMTT(30), <2>3 DEF SettleFailed, TypeOK
    <3> QED  BY <2>3, <3>1, <3>2 DEF SettleFailed, TypeOK
  <2>4. MarkIncomplete(tok[g]) \in Token /\ MarkIncomplete(CancelWithReason(tok[g])) \in Token
    BY TokenTypes
  <2> QED  BY <1>8, <2>1, <2>2, <2>3, <2>4
           DEF ActivityNext, IncompleteActivity, DropActivity, OverflowActivity
<1>9. ASSUME NEW S, CancelConfirmedMatching(S) PROVE TypeInv'
  <2> DEFINE hit == {x \in MatchingTargets(S) : windows[x] # NoGen}
             active == {windows[x] : x \in hit}
             confirmed == {g \in active : WasConfirmed(tok[g])}
             closed == {g \in Unclaimed(retained) : SourceOf[tok[g].target] \in S}
  <2>1. active \subseteq Generations /\ confirmed \subseteq Generations
    BY SMTT(20) DEF TypeOK, MatchingTargets
  <2> HIDE DEF hit, active, confirmed, closed
  <2>2. /\ tok' = [g \in Generations |->
                     IF g \in confirmed \cup closed THEN CancelWithReason(tok[g]) ELSE tok[g]]
        /\ windows' = [x \in Targets |-> IF x \in hit THEN NoGen ELSE windows[x]]
        /\ retained' = RetainIfDurable(confirmed)
        /\ unlinked' = active \ confirmed
        /\ doubted' = doubted \cup {g \in Unclaimed(Generations) : SourceOf[tok[g].target] \in S}
        /\ UNCHANGED <<now, next, gap, progress, clients, gaps>>
    BY <1>9 DEF CancelConfirmedMatching, hit, active, confirmed, closed
  <2>3. tok' \in [Generations -> Token]
    BY <2>2, TokenTypes DEF TypeOK
  <2>4. /\ retained' \subseteq Generations /\ unlinked' \subseteq Generations
        /\ doubted' \subseteq Generations
    BY <2>1, <2>2 DEF TypeOK, RetainIfDurable, Unclaimed
  <2> QED  BY <2>2, <2>3, <2>4 DEF TypeOK, clients
<1>10. ASSUME NEW g \in Generations, CancelUnlinked(g) PROVE TypeInv'
  <2>1. CancelIfPending(tok[g]) \in Token
    BY TokenTypes DEF TypeOK
  <2> QED  BY <1>10, <2>1 DEF CancelUnlinked, clients, TypeOK
<1>11. CASE FinalizerTick
  BY Zenon, <1>11 DEF FinalizerTick, registry, TypeOK, Finalizer
<1>12. CASE FinalizationCandidates
  <2>1. /\ Rotated(fin.now) \in [Targets -> Generations \cup {NoGen}]
        /\ RotatedRetained(fin.now) \subseteq Generations
    BY SMTT(20), RotationTypes DEF TypeOK, Finalizer
  <2> QED  BY Zenon, <1>12, <2>1 DEF FinalizationCandidates, TypeOK, Finalizer, NoTime
<1>13. ASSUME NEW g \in Generations, ClaimFinalization(g) PROVE TypeInv'
  <2>0. tok[g] \in Token
    BY DEF TypeOK
  <2>1. [tok[g] EXCEPT !.claimed = TRUE] \in Token
    BY Zenon, <2>0 DEF Token
  <2>2. tok[g].incomplete \in BOOLEAN
    BY <2>0 DEF Token
  <2>3. tok' \in [Generations -> Token]
    BY Zenon, <1>13, <2>1 DEF ClaimFinalization, TypeOK
  <2>4. fin' \in Finalizer /\ (fin'.stage = "attempting" => fin'.gen \in Generations)
    <3> DEFINE rest == fin.todo \ {g}
               b == tok[g].incomplete
    <3>1. rest \in SUBSET Generations /\ b \in BOOLEAN
      BY <2>2 DEF TypeOK, Finalizer
    <3>2. \/ fin' = [fin EXCEPT !.stage = "attempting", !.todo = rest, !.gen = g, !.frozen = b]
          \/ fin' = [fin EXCEPT !.todo = rest]
      BY <1>13 DEF ClaimFinalization
    <3>3. fin \in Finalizer /\ fin.stage = "claiming"
      BY <1>13 DEF ClaimFinalization, TypeOK
    <3> HIDE DEF rest, b
    <3> QED  BY Zenon, Zenon, <3>1, <3>2, <3>3 DEF Finalizer
  <2> QED  BY Zenon, <1>13, <2>3, <2>4 DEF ClaimFinalization, TypeOK
<1>14. CASE CommitFinalization \/ DeferFinalization
  <2>1. fin.gen \in Generations /\ tok[fin.gen] \in Token
    BY <1>14 DEF CommitFinalization, DeferFinalization, EndAttempt, TypeOK
  <2>2. [tok[fin.gen] EXCEPT !.finalized = TRUE, !.claimed = FALSE] \in Token
    BY Zenon, <2>1 DEF Token
  <2>3. [tok[fin.gen] EXCEPT !.claimed = FALSE] \in Token
    BY Zenon, <2>1 DEF Token
  <2>4. fin' \in Finalizer /\ fin'.stage # "attempting"
    <3>1. PICK later \in SUBSET Generations :
            fin' = [fin EXCEPT !.stage = "claiming", !.gen = NoGen, !.frozen = FALSE,
                      !.deferred = later]
      <4>1. fin.deferred \in SUBSET Generations
        BY DEF TypeOK, Finalizer
      <4>2. /\ fin.deferred \ {fin.gen} \in SUBSET Generations
            /\ fin.deferred \cup {fin.gen} \in SUBSET Generations
        BY <2>1, <4>1
      <4> QED  BY Zenon, <1>14, <4>2 DEF CommitFinalization, DeferFinalization, EndAttempt
    <3>2. fin \in Finalizer
      BY DEF TypeOK
    <3> QED  BY Zenon, <3>1, <3>2 DEF Finalizer
  <2>5. tok' \in [Generations -> Token]
    BY Zenon, <1>14, <2>1, <2>2, <2>3 DEF CommitFinalization, DeferFinalization, EndAttempt, TypeOK
  <2> QED  BY Zenon, <1>14, <2>4, <2>5
           DEF CommitFinalization, DeferFinalization, EndAttempt, TypeOK
<1>15. CASE CleanupFinalized
  BY Zenon, <1>15 DEF CleanupFinalized, IdleFinalizer, NoTime, NoGen, TypeOK, Finalizer
<1> QED  BY Zenon, Next, <1>1, <1>2, <1>3, <1>4, <1>5, <1>6, <1>7, <1>8, <1>9, <1>10, <1>11, <1>12,
             <1>13, <1>14, <1>15
         DEF Next, CollectorNext, CancelSourceConfirmed, CancelAllConfirmed, FinalizerNext
-----------------------------------------------------------------------------
(* Receipt times.  Notifications wait in receipt order, none for longer    *)
(* than MaxLag, and none from before the watermark of its source.          *)

Ordered(s) ==
    \A i \in 1..Len(inbox[s]) :
        /\ progress[s] <= inbox[s][i] /\ inbox[s][i] <= now /\ now <= inbox[s][i] + MaxLag
        /\ \A j \in 1..i : inbox[s][j] <= inbox[s][i]

ClockInv == \A s \in Sources : progress[s] <= now /\ Ordered(s)

\* The one gap remembered per source is the latest of those recorded.
GapInv ==
    \A p \in Sources : gap[p] <= now /\ \A u \in Nat : <<p, u>> \in gaps => u <= gap[p]

\* A new pipeline attempt has no receipt, watermark or gap yet.
LEMMA ClockInit == ASSUME BoundsAssumption PROVE Init => ClockInv /\ GapInv
BY SMTT(30) DEF Init, ClockInv, Ordered, GapInv, NoTime

\* Only the clock and the collector touch the inboxes, watermarks and gaps.
LEMMA NotCollector ==
    ASSUME \/ \E g \in Generations : DiscoveryNext(g) \/ ActivityNext(g) \/ CancelUnlinked(g)
           \/ \E S : CancelConfirmedMatching(S)
           \/ FinalizerNext
    PROVE  UNCHANGED <<now, inbox, progress, gap, gaps, next>>
<1>1. ASSUME NEW g \in Generations, DiscoveryNext(g)
      PROVE  UNCHANGED <<now, inbox, progress, gap, gaps, next>>
  BY <1>1 DEF DiscoveryNext, CancelDiscovery, OpenDurableWindow, ConfirmWindow, DropDiscovery,
              FinishDiscovery, FailDiscovery, DiscoveryStep
<1>2. ASSUME NEW g \in Generations, ActivityNext(g)
      PROVE  UNCHANGED <<now, inbox, progress, gap, gaps, next>>
  BY <1>2 DEF ActivityNext, PersistActivity, IncompleteActivity, DropActivity, OverflowActivity,
              SettleFailed, FailActivity, ActivityStep
<1>3. ASSUME NEW g \in Generations, CancelUnlinked(g)
      PROVE  UNCHANGED <<now, inbox, progress, gap, gaps, next>>
  BY <1>3 DEF CancelUnlinked, clients
<1>4. ASSUME NEW S, CancelConfirmedMatching(S)
      PROVE  UNCHANGED <<now, inbox, progress, gap, gaps, next>>
  BY Zenon, <1>4 DEF CancelConfirmedMatching, clients
<1>5. ASSUME FinalizerNext
      PROVE  UNCHANGED <<now, inbox, progress, gap, gaps, next>>
  BY Zenon, <1>5 DEF FinalizerNext, FinalizerTick, FinalizationCandidates, ClaimFinalization,
              CommitFinalization, DeferFinalization, EndAttempt, CleanupFinalized, registry
<1> QED  BY <1>1, <1>2, <1>3, <1>4, <1>5

\* A notification that runs is its source's oldest, so its receipt time can be
\* the new watermark.
LEMMA ProgressStep ==
    ASSUME TypeOK, ClockInv, NEW s \in Sources, Running(s), RecordSourceProgress(s),
           UNCHANGED <<now, inbox>>
    PROVE  ClockInv'
<1>1. Receipt(s) \in Nat /\ Receipt(s) = inbox[s][1] /\ Len(inbox[s]) \in Nat \ {0}
  BY SMTT(30) DEF TypeOK, Running, Receipt
<1>2. /\ Receipt(s) <= now
      /\ \A i \in 1..Len(inbox[s]) : Receipt(s) <= inbox[s][i]
  BY SMTT(30), <1>1 DEF ClockInv, Ordered
<1>3. ASSUME NEW q \in Sources PROVE (progress[q] <= now /\ Ordered(q))'
  <2>1. progress'[q] = progress[q] \/ (q = s /\ progress'[q] = Receipt(s))
    BY DEF RecordSourceProgress, TypeOK
  <2> QED  BY SMTT(20), <1>1, <1>2, <2>1 DEF ClockInv, Ordered, TypeOK
<1> QED  BY <1>3 DEF ClockInv

\* Receipts wait in order, watermarks stay behind them, and the remembered gap
\* of a source is its latest.
LEMMA ClockStep ==
    ASSUME BoundsAssumption, TypeInv, ClockInv, GapInv, Next
    PROVE  ClockInv' /\ GapInv'
<1> USE BoundsAssumption DEF TypeInv
<1>0. TypeOK
  OBVIOUS
<1>1. CASE Tick
  <2>1. \A s \in Sources : \A i \in 1..Len(inbox[s]) : now + 1 <= inbox[s][i] + MaxLag
    <3> SUFFICES ASSUME NEW s \in Sources, NEW i \in 1..Len(inbox[s])
                 PROVE  now + 1 <= inbox[s][i] + MaxLag
      OBVIOUS
    <3>1. inbox[s] \in Seq(Nat) /\ now \in Nat
      BY DEF TypeOK
    <3>2. inbox[s] # << >> /\ Head(inbox[s]) = inbox[s][1] /\ 1 \in 1..i
      BY SMTT(30), <3>1
    <3>3. now < inbox[s][1] + MaxLag
      BY <1>1, <3>2 DEF Tick
    <3>4. inbox[s][1] <= inbox[s][i]
      BY <3>2 DEF ClockInv, Ordered
    <3>5. inbox[s][1] \in Nat /\ inbox[s][i] \in Nat
      BY SMTT(30), <3>1, <3>2
    <3>6. now \in Nat /\ MaxLag \in Nat
      BY <3>1 DEF BoundsAssumption
    <3> QED  BY SMTT(30), <3>3, <3>4, <3>5, <3>6
  <2>2. now \in Nat /\ now' = now + 1 /\ UNCHANGED <<inbox, progress, gap, gaps>>
    BY <1>1 DEF Tick, registry, clients, TypeOK
  <2>3. ClockInv'
    BY SMTT(30), <2>1, <2>2 DEF ClockInv, Ordered, TypeOK
  <2>4. GapInv'
    BY SMTT(30), <2>2 DEF GapInv, TypeOK
  <2> QED  BY <2>3, <2>4
<1>2. ASSUME NEW s \in Sources, Receive(s) PROVE ClockInv' /\ GapInv'
  <2>1. UNCHANGED <<now, progress, gap, gaps>>
    BY <1>2 DEF Receive, registry
  <2>2. ASSUME NEW q \in Sources PROVE (progress[q] <= now /\ Ordered(q))'
    <3>1. CASE q # s
      BY <1>2, <2>1, <3>1 DEF Receive, ClockInv, Ordered, TypeOK
    <3>2. CASE q = s
      <4>1. inbox'[s] = Append(inbox[s], now) /\ inbox[s] \in Seq(Nat) /\ now \in Nat
        BY <1>2 DEF Receive, TypeOK
      <4>2. /\ Len(inbox'[s]) = Len(inbox[s]) + 1 /\ inbox'[s][Len(inbox[s]) + 1] = now
            /\ \A i \in 1..Len(inbox[s]) : inbox'[s][i] = inbox[s][i]
        BY SMTT(30), <4>1
      <4>3. Len(inbox[s]) \in Nat
        BY SMTT(30), <4>1
      <4>4. /\ progress[s] <= now /\ progress[s] \in Nat /\ progress' = progress /\ now' = now
            /\ \A i \in 1..Len(inbox[s]) : inbox[s][i] \in Nat
        BY SMTT(20), <2>1, <4>1 DEF ClockInv, TypeOK
      <4>5. ASSUME NEW i \in 1..Len(inbox'[s])
            PROVE  /\ progress'[s] <= inbox'[s][i] /\ inbox'[s][i] <= now'
                   /\ now' <= inbox'[s][i] + MaxLag
                   /\ \A j \in 1..i : inbox'[s][j] <= inbox'[s][i]
        <5>1. CASE i \in 1..Len(inbox[s])
          <6>1. \A j \in 1..i : j \in 1..Len(inbox[s])
            BY SMTT(30), <4>3, <5>1
          <6>2. /\ progress[s] <= inbox[s][i] /\ inbox[s][i] <= now
                /\ now <= inbox[s][i] + MaxLag
                /\ \A j \in 1..i : inbox[s][j] <= inbox[s][i]
            BY <5>1 DEF ClockInv, Ordered
          <6> QED  BY <4>2, <4>4, <5>1, <6>1, <6>2
        <5>2. CASE i = Len(inbox[s]) + 1
          <6>1. \A j \in 1..i : j = i \/ j \in 1..Len(inbox[s])
            BY SMTT(30), <4>3, <5>2
          <6>2. \A j \in 1..Len(inbox[s]) : inbox[s][j] <= now
            BY DEF ClockInv, Ordered
          <6> QED  BY SMTT(30), <4>1, <4>2, <4>4, <5>2, <6>1, <6>2 DEF BoundsAssumption
        <5> QED  BY SMTT(30), <4>2, <4>3, <5>1, <5>2
      <4> QED  BY <3>2, <4>4, <4>5 DEF Ordered
    <3> QED  BY <3>1, <3>2
  <2> QED  BY <2>1, <2>2 DEF ClockInv, GapInv
<1>3. ASSUME NEW s \in Sources, FinishNotification(s) PROVE ClockInv' /\ GapInv'
  <2>1. Running(s) /\ RecordSourceProgress(s) /\ UNCHANGED <<now, gap, gaps>>
    BY <1>3 DEF FinishNotification
  <2>2. inbox' = [inbox EXCEPT ![s] = Tail(@)]
    BY <1>3 DEF FinishNotification
  <2>3. inbox[s] \in Seq(Nat) /\ inbox[s] # << >>
    BY <2>1 DEF Running, TypeOK
  <2>4. /\ Len(inbox[s]) \in Nat \ {0} /\ Len(Tail(inbox[s])) = Len(inbox[s]) - 1
        /\ \A i \in 1..(Len(inbox[s]) - 1) : Tail(inbox[s])[i] = inbox[s][i + 1]
        /\ \A i \in 1..Len(inbox[s]) : inbox[s][i] \in Nat
        /\ Receipt(s) = inbox[s][1]
    BY SMTT(30), <2>3 DEF Receipt
  <2>5. ASSUME NEW q \in Sources PROVE (progress[q] <= now /\ Ordered(q))'
    <3>1. CASE q # s
      BY <2>1, <2>2, <3>1 DEF RecordSourceProgress, ClockInv, Ordered, TypeOK
    <3>2. CASE q = s
      <4>1. progress'[s] = progress[s] \/ progress'[s] = inbox[s][1]
        BY <2>1, <2>4 DEF RecordSourceProgress, TypeOK
      <4>2. inbox'[s] = Tail(inbox[s]) /\ now' = now /\ now \in Nat /\ progress[s] \in Nat
        BY <2>1, <2>2 DEF TypeOK
      <4>3. \A i \in 1..(Len(inbox[s]) - 1) : i + 1 \in 1..Len(inbox[s]) /\ 1 \in 1..(i + 1)
        BY SMTT(30), <2>4
      <4>4. progress'[s] <= now'
        BY SMTT(20), <2>4, <4>1, <4>2 DEF ClockInv, Ordered
      <4>5. ASSUME NEW i \in 1..Len(inbox'[s])
            PROVE  /\ progress'[s] <= inbox'[s][i] /\ inbox'[s][i] <= now'
                   /\ now' <= inbox'[s][i] + MaxLag
                   /\ \A j \in 1..i : inbox'[s][j] <= inbox'[s][i]
        <5>1. i \in 1..(Len(inbox[s]) - 1) /\ inbox'[s][i] = inbox[s][i + 1]
          BY <2>4, <4>2
        <5>2. \A j \in 1..i : inbox'[s][j] = inbox[s][j + 1] /\ j + 1 \in 1..(i + 1)
          BY SMTT(20), <2>4, <4>2, <5>1
        <5>3. /\ progress[s] <= inbox[s][i + 1] /\ inbox[s][i + 1] <= now
              /\ now <= inbox[s][i + 1] + MaxLag
              /\ \A j \in 1..(i + 1) : inbox[s][j] <= inbox[s][i + 1]
          BY <4>3, <5>1 DEF ClockInv, Ordered
        <5>4. inbox[s][1] <= inbox[s][i + 1]
          BY Zenon, <4>3, <5>1, <5>3
        <5> QED  BY Zenon, <4>1, <4>2, <5>1, <5>2, <5>3, <5>4
      <4> QED  BY <3>2, <4>4, <4>5 DEF Ordered
    <3> QED  BY <3>1, <3>2
  <2> QED  BY <2>1, <2>5 DEF ClockInv, GapInv
<1>4. ASSUME NEW s \in Sources, NEW p \in Sources, RecordSourceCoverageGap(s, p)
      PROVE  ClockInv' /\ GapInv'
  <2>1. ClockInv'
    BY <1>4, ProgressStep DEF RecordSourceCoverageGap, clients
  <2>2. Receipt(s) \in Nat /\ Receipt(s) <= now
    <3>1. inbox[s] \in Seq(Nat) /\ inbox[s] # << >>
      BY SMTT(20), <1>4 DEF RecordSourceCoverageGap, Running, TypeOK
    <3>2. Receipt(s) = inbox[s][1] /\ Receipt(s) \in Nat /\ 1 \in 1..Len(inbox[s])
      BY SMTT(20), <3>1 DEF Receipt
    <3> QED  BY <3>2 DEF ClockInv, Ordered
  <2>3. /\ gap' = [gap EXCEPT ![p] = IF @ < Receipt(s) THEN Receipt(s) ELSE @]
        /\ gaps' = gaps \cup {<<p, Receipt(s)>>} /\ now' = now
    BY <1>4 DEF RecordSourceCoverageGap
  <2>4. GapInv'
    BY SMTT(20), <2>2, <2>3 DEF GapInv, TypeOK
  <2> QED  BY <2>1, <2>4
<1>5. ASSUME NEW s \in Sources, NEW x \in Targets,
             AdmitMatchingToken(s, x) \/ ProvisionTarget(s, x)
      PROVE  ClockInv' /\ GapInv'
  <2>1. Running(s) /\ RecordSourceProgress(s) /\ UNCHANGED <<now, inbox, gap, gaps>>
    BY SMTT(20), <1>5 DEF AdmitMatchingToken, ProvisionTarget
  <2> QED  BY <2>1, ProgressStep DEF GapInv
<1>6. CASE UNCHANGED <<now, inbox, progress, gap, gaps, next>>
  BY <1>6 DEF ClockInv, Ordered, GapInv
<1> QED  BY Zenon, Next, <1>1, <1>2, <1>3, <1>4, <1>5, <1>6, NotCollector
         DEF Next, CollectorNext, CancelSourceConfirmed, CancelAllConfirmed
-----------------------------------------------------------------------------
(* What a token keeps.  A generation never changes its target or interval, *)
(* stays confirmed once it is, and never loses its incomplete reason.      *)

Evolves(a, b) ==
    /\ b.target = a.target /\ b.opened = a.opened /\ b.closes = a.closes
    /\ b.state = "unborn" <=> a.state = "unborn"
    /\ WasConfirmed(a) => WasConfirmed(b)
    /\ a.incomplete => b.incomplete

\* No operation on a token changes its interval, revokes a reason or brings
\* back a state that it has left.
LEMMA OperationsEvolve ==
    ASSUME NEW tk \in Token
    PROVE  /\ Evolves(tk, tk)
           /\ Evolves(tk, Confirm(tk))
           /\ Evolves(tk, [Confirm(tk) EXCEPT !.durable = TRUE])
           /\ Evolves(tk, CancelIfPending(tk))
           /\ Evolves(tk, MarkIncomplete(tk))
           /\ Evolves(tk, CancelWithReason(tk))
           /\ Evolves(tk, MarkIncomplete(CancelWithReason(tk)))
           /\ Evolves(tk, MarkAdmitted(tk))
           /\ Evolves(tk, MarkSettled(tk))
           /\ Evolves(tk, MarkSettled(CancelIfPending(tk)))
           /\ Evolves(tk, [tk EXCEPT !.claimed = TRUE])
           /\ Evolves(tk, [tk EXCEPT !.claimed = FALSE])
           /\ Evolves(tk, [tk EXCEPT !.finalized = TRUE, !.claimed = FALSE])
<1> USE DEF Evolves, Token, WasConfirmed
<1>1. Evolves(tk, tk) /\ Evolves(tk, Confirm(tk))
  BY DEF Confirm
<1>2. Evolves(tk, [Confirm(tk) EXCEPT !.durable = TRUE])
  BY DEF Confirm
<1>3. Evolves(tk, CancelIfPending(tk)) /\ Evolves(tk, MarkIncomplete(tk))
  BY DEF CancelIfPending, MarkIncomplete
<1>4. Evolves(tk, CancelWithReason(tk))
  BY DEF CancelIfPending, MarkIncomplete, CancelWithReason
<1>5. Evolves(tk, MarkIncomplete(CancelWithReason(tk)))
  BY DEF CancelIfPending, MarkIncomplete, CancelWithReason
<1>6. Evolves(tk, MarkAdmitted(tk)) /\ Evolves(tk, MarkSettled(tk))
  BY DEF MarkAdmitted, MarkSettled
<1>7. Evolves(tk, MarkSettled(CancelIfPending(tk)))
  BY DEF CancelIfPending, MarkSettled
<1>8. /\ Evolves(tk, [tk EXCEPT !.claimed = TRUE])
      /\ Evolves(tk, [tk EXCEPT !.claimed = FALSE])
      /\ Evolves(tk, [tk EXCEPT !.finalized = TRUE, !.claimed = FALSE])
  OBVIOUS
<1> QED  BY <1>1, <1>2, <1>3, <1>4, <1>5, <1>6, <1>7, <1>8

\* Every step lets every generation evolve, except that provisioning gives the
\* next generation its token.
LEMMA TokenStep ==
    ASSUME TypeInv, Next, NEW g \in Generations, next' = next \/ g # next
    PROVE  Evolves(tok[g], tok'[g])
<1> USE DEF TypeInv
<1>0. tok \in [Generations -> Token] /\ tok[g] \in Token
  BY DEF TypeOK
<1>1. CASE tok' = tok
  BY Zenon, <1>0, <1>1, OperationsEvolve
<1>2. CASE Tick
  BY <1>1, <1>2 DEF Tick, registry
<1>3. ASSUME NEW s \in Sources, CollectorNext(s) PROVE Evolves(tok[g], tok'[g])
  <2>1. CASE Receive(s) \/ FinishNotification(s)
    BY <1>1, <2>1 DEF Receive, FinishNotification, registry
  <2>2. ASSUME NEW p \in Sources, RecordSourceCoverageGap(s, p) PROVE Evolves(tok[g], tok'[g])
    BY Zenon, <1>0, <2>2, OperationsEvolve DEF RecordSourceCoverageGap
  <2>3. ASSUME NEW x \in Targets, AdmitMatchingToken(s, x) PROVE Evolves(tok[g], tok'[g])
    BY Zenon, <1>0, <2>3, OperationsEvolve DEF AdmitMatchingToken
  <2>4. ASSUME NEW x \in Targets, ProvisionTarget(s, x) PROVE Evolves(tok[g], tok'[g])
    <3>1. CASE next' = next + 1
      <4>1. g # next
        BY SMTT(30), <3>1 DEF TypeOK
      <4>2. tok'[g] = tok[g] \/ tok'[g] = CancelWithReason(tok[g])
        BY <1>0, <2>4, <3>1, <4>1 DEF ProvisionTarget, OpenProvisional
      <4> QED  BY Zenon, <1>0, <4>2, OperationsEvolve
    <3> QED  BY <1>1, <2>4, <3>1 DEF ProvisionTarget, OpenProvisional
  <2> QED  BY SMTT(20), <1>3, <2>1, <2>2, <2>3, <2>4 DEF CollectorNext
<1>4. ASSUME NEW h \in Generations, DiscoveryNext(h) PROVE Evolves(tok[g], tok'[g])
  <2>1. ASSUME NEW from, NEW to, NEW tk, DiscoveryStep(h, from, to, tk), Evolves(tok[h], tk)
        PROVE  Evolves(tok[g], tok'[g])
    BY Zenon, <1>0, <2>1, OperationsEvolve DEF DiscoveryStep
  <2>2. tok[h] \in Token
    BY <1>0
  <2> QED  BY Zenon, <1>4, <2>1, <2>2, OperationsEvolve
           DEF DiscoveryNext, CancelDiscovery, OpenDurableWindow, ConfirmWindow, DropDiscovery,
               FinishDiscovery, FailDiscovery
<1>5. ASSUME NEW h \in Generations, ActivityNext(h) PROVE Evolves(tok[g], tok'[g])
  <2>1. ASSUME NEW tk, ActivityStep(h, tk), Evolves(tok[h], tk)
        PROVE  Evolves(tok[g], tok'[g])
    BY Zenon, <1>0, <2>1, OperationsEvolve DEF ActivityStep
  <2>2. tok[h] \in Token
    BY <1>0
  <2>3. CASE SettleFailed(h)
    BY Zenon, <1>0, <2>2, <2>3, OperationsEvolve DEF SettleFailed
  <2> QED  BY Zenon, <1>5, <2>1, <2>2, <2>3, OperationsEvolve
           DEF ActivityNext, PersistActivity, IncompleteActivity, DropActivity,
               OverflowActivity, FailActivity
<1>6. ASSUME NEW S, CancelConfirmedMatching(S) PROVE Evolves(tok[g], tok'[g])
  <2>1. tok'[g] = tok[g] \/ tok'[g] = CancelWithReason(tok[g])
    BY Zenon, <1>0, <1>6 DEF CancelConfirmedMatching
  <2> QED  BY Zenon, <1>0, <2>1, OperationsEvolve
<1>7. ASSUME NEW h \in Generations, CancelUnlinked(h) PROVE Evolves(tok[g], tok'[g])
  BY Zenon, <1>0, <1>7, OperationsEvolve DEF CancelUnlinked
<1>8. CASE FinalizerNext
  <2>1. CASE FinalizerTick \/ FinalizationCandidates \/ CleanupFinalized
    BY <1>1, <2>1 DEF FinalizerTick, FinalizationCandidates, CleanupFinalized, registry
  <2>2. ASSUME NEW h \in Generations, ClaimFinalization(h) PROVE Evolves(tok[g], tok'[g])
    <3>1. tok'[g] = tok[g] \/ tok'[g] = [tok[g] EXCEPT !.claimed = TRUE]
      BY Zenon, <1>0, <2>2 DEF ClaimFinalization
    <3> QED  BY Zenon, <1>0, <3>1, OperationsEvolve
  <2>3. CASE CommitFinalization \/ DeferFinalization
    <3>1. fin.gen \in Generations /\ tok[fin.gen] \in Token
      BY <2>3 DEF CommitFinalization, DeferFinalization, EndAttempt, TypeOK
    <3> QED  BY Zenon, <1>0, <2>3, <3>1, OperationsEvolve
             DEF CommitFinalization, DeferFinalization, EndAttempt
  <2> QED  BY Zenon, <1>8, <2>1, <2>2, <2>3 DEF FinalizerNext
<1> QED  BY Zenon, Next, <1>2, <1>3, <1>4, <1>5, <1>6, <1>7, <1>8
         DEF Next, CancelSourceConfirmed, CancelAllConfirmed

-----------------------------------------------------------------------------
(* The structure of the registry.  Generations are handed out in order; an *)
(* entry of the active map is about its key and is not also retained.      *)

Birth ==
    \A g \in Generations :
        /\ g < next => disc[g] # "none"
        /\ g >= next => /\ tok[g].state = "unborn" /\ disc[g] = "none"
                        /\ queued[g] = 0 /\ failing[g] = 0
                        /\ g \notin doubted /\ g \notin retained

Linked ==
    /\ \A x \in Targets :
          windows[x] # NoGen => /\ windows[x] < next /\ windows[x] \notin retained
                                /\ tok[windows[x]].target = x
    /\ \A g \in retained : WasConfirmed(tok[g])

\* No generation is born and no window linked when a pipeline attempt starts.
LEMMA StructInit == Init => Birth /\ Linked
BY SMTT(30) DEF Init, Birth, Linked, UnbornToken, NoGen, Generations

\* A generation that anything remembers has been issued.
LEMMA BirthFacts ==
    ASSUME TypeOK, Birth, NEW g \in Generations
    PROVE  /\ g \in Nat /\ next \in Nat
           /\ g \in doubted \/ g \in retained \/ tok[g].state # "unborn" => g < next
<1>1. g \in Nat /\ next \in Nat
  BY SMTT(30) DEF TypeOK, Generations
<1>2. g >= next => tok[g].state = "unborn" /\ g \notin doubted /\ g \notin retained
  BY Zenon DEF Birth
<1> QED  BY SMTT(30), <1>1, <1>2

\* A linked generation has been issued, is not retained and is its target's.
LEMMA LinkFacts ==
    ASSUME TypeOK, Linked, NEW x \in Targets, windows[x] # NoGen
    PROVE  /\ windows[x] \in Generations /\ windows[x] < next /\ windows[x] # next
           /\ windows[x] \notin retained /\ tok[windows[x]].target = x
<1>1. windows[x] \in Generations
  BY Zenon DEF TypeOK
<1>2. windows[x] < next /\ windows[x] \notin retained /\ tok[windows[x]].target = x
  BY Zenon DEF Linked
<1>3. windows[x] \in Nat /\ next \in Nat
  BY SMTT(30), <1>1 DEF TypeOK, Generations
<1>4. windows[x] # next
  BY SMTT(30), <1>2, <1>3
<1> QED  BY Zenon, <1>1, <1>2, <1>4

\* Steps that leave the map alone and retain nothing new.
LEMMA LinkedFrame ==
    ASSUME TypeInv, Linked, Next, windows' = windows, next' = next, retained' \subseteq retained
    PROVE  Linked'
<1>1. \A g \in Generations : Evolves(tok[g], tok'[g])
  BY TokenStep
<1>2. ASSUME NEW x \in Targets, windows'[x] # NoGen
      PROVE  windows'[x] < next' /\ windows'[x] \notin retained' /\ tok'[windows'[x]].target = x
  <2>1. windows[x] \in Generations
    BY <1>2 DEF TypeInv, TypeOK
  <2> QED  BY <1>1, <1>2, <2>1 DEF Linked, Evolves
<1>3. \A g \in retained' : WasConfirmed(tok'[g])
  BY <1>1 DEF Linked, Evolves, TypeInv, TypeOK
<1> QED  BY <1>2, <1>3 DEF Linked, WasConfirmed

\* Rotation moves windows from the map to the retained list.
LEMMA RotationLinked ==
    ASSUME TypeOK, Linked, Birth, NEW t \in Nat
    PROVE  /\ \A x \in Targets :
                Rotated(t)[x] # NoGen => /\ Rotated(t)[x] = windows[x]
                                         /\ Rotated(t)[x] \notin RotatedRetained(t)
           /\ \A g \in RotatedRetained(t) : g < next /\ WasConfirmed(tok[g])
           /\ RotatedRetained(t) \subseteq Tracked
<1>1. ASSUME NEW x \in Targets, Rotated(t)[x] # NoGen
      PROVE  Rotated(t)[x] = windows[x] /\ Rotated(t)[x] \notin RotatedRetained(t)
  <2>1. x \notin Closed(t) /\ Rotated(t)[x] = windows[x] /\ windows[x] # NoGen
    BY <1>1 DEF Rotated
  <2>2. \A y \in Closed(t) : windows[y] # windows[x]
    BY <2>1 DEF Closed, Linked
  <2> QED  BY <2>1, <2>2 DEF RotatedRetained, RetainIfDurable, Linked
<1>2. ASSUME NEW g \in RotatedRetained(t)
      PROVE  g < next /\ WasConfirmed(tok[g]) /\ g \in Tracked
  <2>1. CASE g \in retained
    BY SMTT(30), <2>1 DEF Birth, Linked, TypeOK, Tracked, Generations
  <2>2. CASE g \notin retained
    <3>1. PICK x \in Closed(t) : g = windows[x] /\ WasConfirmed(tok[g])
      BY <1>2, <2>2 DEF RotatedRetained, RetainIfDurable
    <3> QED  BY <3>1 DEF Closed, Linked, Tracked, Active
  <2> QED  BY <2>1, <2>2
<1> QED  BY <1>1, <1>2

\* The active map links each target to a window of its own, the retained list
\* holds confirmed windows only, and no window is in both.
LEMMA StructStep ==
    ASSUME BoundsAssumption, SourceOfAssumption, TypeInv, Birth, Linked, Next
    PROVE  Birth' /\ Linked'
<1> USE BoundsAssumption, SourceOfAssumption DEF TypeInv
<1>0. /\ TypeOK
      /\ \A g \in Generations : (next' = next \/ g # next) => Evolves(tok[g], tok'[g])
  BY TokenStep
<1>1. CASE UNCHANGED <<tok, next, windows, retained, disc, queued, failing, doubted>>
  BY <1>1 DEF Birth, Linked
<1>2. CASE Tick
  BY <1>1, <1>2 DEF Tick, registry, clients
<1>3. ASSUME NEW s \in Sources, Receive(s) \/ FinishNotification(s) PROVE Birth' /\ Linked'
  BY <1>1, <1>3 DEF Receive, FinishNotification, registry
<1>4. ASSUME NEW s \in Sources, NEW p \in Sources, RecordSourceCoverageGap(s, p)
      PROVE  Birth' /\ Linked'
  <2>1. /\ UNCHANGED <<next, windows, retained, disc, queued, failing>>
        /\ doubted' = doubted \cup Covering(Generations, p, Receipt(s))
    BY <1>4 DEF RecordSourceCoverageGap, clients
  <2>2. Birth'
    BY <1>0, <2>1 DEF Birth, Covering, Evolves
  <2> QED  BY <2>1, <2>2, LinkedFrame
<1>5. ASSUME NEW s \in Sources, NEW x \in Targets, AdmitMatchingToken(s, x)
      PROVE  Birth' /\ Linked'
  <2>1. /\ UNCHANGED <<next, windows, retained, disc, failing, doubted>>
        /\ queued' = [queued EXCEPT ![windows[x]] = @ + 1] /\ windows[x] # NoGen
    BY <1>5 DEF AdmitMatchingToken
  <2>2. Birth'
    BY SMTT(20), <1>0, <2>1 DEF Birth, Linked, Evolves, TypeOK, Generations
  <2> QED  BY <2>1, <2>2, LinkedFrame
<1>6. ASSUME NEW s \in Sources, NEW x \in Targets, ProvisionTarget(s, x)
      PROVE  Birth' /\ Linked'
  <2> DEFINE t == Receipt(s)
             w == Rotated(t)
  <2>1. t \in Nat
    BY <1>6, RunningTypes DEF ProvisionTarget
  <2>2. /\ \A y \in Targets : w[y] # NoGen => /\ w[y] = windows[y] /\ w[y] < next
                                                 /\ w[y] \notin RotatedRetained(t)
                                                 /\ w[y] \in Generations
                                                 /\ tok[w[y]].target = y
        /\ \A g \in RotatedRetained(t) : g \in Generations /\ g < next /\ WasConfirmed(tok[g])
    BY SMTT(30), <2>1, RotationLinked, RotationTypes DEF Linked
  <2> HIDE DEF t, w
  <2>3. CASE /\ windows' = w /\ retained' = RotatedRetained(t)
             /\ UNCHANGED <<tok, next, disc, doubted>>
    <3>1. UNCHANGED <<queued, failing>>
      BY <1>6 DEF ProvisionTarget
    <3>2. Birth'
      BY <2>2, <2>3, <3>1 DEF Birth, TypeOK, Generations
    <3> QED  BY <2>2, <2>3, <3>2 DEF Linked
  <2>4. ASSUME NEW evicted \in Evictions(w), OpenProvisional(x, t, w, evicted)
        PROVE  Birth' /\ Linked'
    <3> DEFINE victims == {w[y] : y \in evicted}
    <3>1. \A y \in evicted : y \in Targets /\ w[y] # NoGen
      BY <2>4 DEF Evictions
    <3>2. \A g \in victims : \E y \in evicted : g = w[y]
      OBVIOUS
    <3>3. \A y \in evicted : w[y] \in victims
      OBVIOUS
    <3>4. /\ retained' = RotatedRetained(t) \cup RetainIfDurable(victims)
          /\ doubted' \subseteq doubted \cup victims \cup {next}
          /\ next <= MaxGeneration /\ next' = next + 1
          /\ disc' = [disc EXCEPT ![next] = "waiting"]
          /\ tok'[next] = NewToken(x, t) \/ next \notin Generations
          /\ windows' = [y \in Targets |->
                            IF y = x THEN next ELSE IF y \in evicted THEN NoGen ELSE w[y]]
      BY <2>4 DEF OpenProvisional
    <3> HIDE DEF victims
    <3>5. next \in Generations /\ next' = next + 1 /\ UNCHANGED <<queued, failing>>
      <4>1. next \in Generations
        BY Zenon, <1>0, <3>4, NextGeneration
      <4>2. UNCHANGED <<queued, failing>>
        BY Zenon, <1>6 DEF ProvisionTarget
      <4> QED  BY Zenon, <3>4, <4>1, <4>2
    <3>6. \A g \in victims : g \in Generations /\ g < next
      <4> SUFFICES ASSUME NEW y \in evicted PROVE w[y] \in Generations /\ w[y] < next
        BY Zenon, <3>2
      <4>1. y \in Targets /\ w[y] # NoGen
        BY Zenon, <3>1
      <4> QED  BY Zenon, <2>2, <4>1
    <3>7. \A g \in retained' : /\ g \in Generations /\ g < next /\ WasConfirmed(tok[g])
                                /\ g \in RotatedRetained(t) \cup victims
      <4>1. retained \subseteq RotatedRetained(t)
        BY DEF RotatedRetained, RetainIfDurable
      <4> QED  BY <2>2, <3>4, <3>6, <4>1 DEF RetainIfDurable
    <3>8. \A g \in Generations : g # next => Evolves(tok[g], tok'[g])
      BY <1>0
    <3>9. Birth'
      <4> SUFFICES ASSUME NEW g \in Generations
                   PROVE  /\ g < next' => disc'[g] # "none"
                          /\ g >= next' => /\ tok'[g].state = "unborn" /\ disc'[g] = "none"
                                           /\ queued'[g] = 0 /\ failing'[g] = 0
                                           /\ g \notin doubted' /\ g \notin retained'
        BY DEF Birth
      <4>1. CASE g < next
        BY SMTT(20), <3>4, <3>5, <4>1 DEF Birth, TypeOK, Generations
      <4>2. CASE g = next
        BY SMTT(30), <3>4, <3>5, <4>2 DEF Birth, TypeOK, Generations
      <4>3. CASE g > next
        <5>1. g # next /\ g >= next /\ g \notin victims /\ g \notin retained'
          BY SMTT(30), <3>5, <3>6, <3>7, <4>3 DEF Generations
        <5>2. tok'[g].state = "unborn"
          BY <3>8, <5>1 DEF Birth, Evolves
        <5> QED  BY SMTT(30), <3>4, <3>5, <4>3, <5>1, <5>2 DEF Birth, TypeOK, Generations
      <4> QED  BY SMTT(30), <3>5, <4>1, <4>2, <4>3 DEF Generations
    <3>10. ASSUME NEW y \in Targets, windows'[y] # NoGen
           PROVE  windows'[y] < next' /\ windows'[y] \notin retained' /\ tok'[windows'[y]].target = y
      <4>1. CASE y = x
        <5>1. windows'[y] = next /\ tok'[next] = NewToken(x, t)
          BY <3>4, <3>5, <4>1
        <5> QED  BY SMTT(30), <3>5, <3>7, <4>1, <5>1 DEF NewToken, Generations
      <4>2. CASE y # x
        <5>1. windows'[y] = w[y] /\ y \notin evicted /\ w[y] # NoGen
          BY <3>4, <3>10, <4>2
        <5>2. w[y] \in Generations /\ w[y] < next /\ w[y] # next /\ tok[w[y]].target = y
          BY Zenon, <1>0, <2>2, <5>1, NextGeneration
        <5>3. w[y] \notin victims
          <6> SUFFICES ASSUME NEW z \in evicted, w[y] = w[z] PROVE FALSE
            BY Zenon, <3>2
          <6>1. z \in Targets /\ w[z] # NoGen
            BY Zenon, <3>1
          <6>2. tok[w[z]].target = z
            BY Zenon, <2>2, <6>1
          <6> QED  BY Zenon, <5>1, <5>2, <6>2
        <5>4. tok'[w[y]].target = y
          BY <3>8, <5>2 DEF Evolves
        <5>5. w[y] \notin RotatedRetained(t)
          BY Zenon, <2>2, <5>1
        <5>6. w[y] \notin retained'
          BY Zenon, <3>7, <5>3, <5>5
        <5>7. w[y] < next'
          BY SMTT(30), <3>5, <5>2 DEF Generations
        <5> QED  BY Zenon, <5>1, <5>4, <5>6, <5>7
      <4> QED  BY <4>1, <4>2
    <3>11. \A g \in retained' : WasConfirmed(tok'[g])
      <4> SUFFICES ASSUME NEW g \in retained' PROVE WasConfirmed(tok'[g])
        OBVIOUS
      <4>1. g \in Generations /\ g < next /\ WasConfirmed(tok[g])
        BY Zenon, <3>7
      <4>2. g # next
        BY Zenon, <1>0, <4>1, NextGeneration
      <4> QED  BY Zenon, <3>8, <4>1, <4>2 DEF Evolves
    <3> QED  BY <3>9, <3>10, <3>11 DEF Linked, WasConfirmed
  <2> QED  BY <1>6, <2>3, <2>4 DEF ProvisionTarget, t, w
<1>7. ASSUME NEW g \in Generations, DiscoveryNext(g) PROVE Birth' /\ Linked'
  <2>1. /\ UNCHANGED <<next, windows, retained, queued>>
        /\ disc[g] # "none" /\ \E to \in DiscoveryStages \ {"none"} : disc' = [disc EXCEPT ![g] = to]
        /\ doubted' \in {doubted, doubted \cup {g}}
        /\ failing' \in {failing, [failing EXCEPT ![g] = @ + 1]}
    BY <1>7 DEF DiscoveryNext, CancelDiscovery, OpenDurableWindow, ConfirmWindow, DropDiscovery,
                FinishDiscovery, FailDiscovery, DiscoveryStep, DiscoveryStages
  <2>2. Birth'
    <3> SUFFICES ASSUME NEW h \in Generations
                 PROVE  /\ h < next' => disc'[h] # "none"
                        /\ h >= next' => /\ tok'[h].state = "unborn" /\ disc'[h] = "none"
                                         /\ queued'[h] = 0 /\ failing'[h] = 0
                                         /\ h \notin doubted' /\ h \notin retained'
      BY Zenon DEF Birth
    <3>1. CASE h = g
      <4>1. g < next /\ disc'[g] # "none"
        BY SMTT(30), <2>1 DEF Birth, TypeOK, Generations
      <4> QED  BY SMTT(30), <2>1, <3>1, <4>1 DEF TypeOK, Generations
    <3>2. CASE h # g
      <4>1. disc'[h] = disc[h] /\ failing'[h] = failing[h] /\ (h \in doubted' <=> h \in doubted)
        BY <2>1, <3>2 DEF TypeOK
      <4>2. h >= next => tok'[h].state = "unborn"
        BY SMTT(20), <1>0, <2>1 DEF Birth, Evolves
      <4> QED  BY Zenon, <2>1, <4>1, <4>2 DEF Birth
    <3> QED  BY Zenon, <3>1, <3>2
  <2> QED  BY <2>1, <2>2, LinkedFrame
<1>8. ASSUME NEW g \in Generations, ActivityNext(g) PROVE Birth' /\ Linked'
  <2>1. /\ UNCHANGED <<next, windows, retained, disc>>
        /\ queued[g] > 0 \/ failing[g] > 0
        /\ doubted' \in {doubted, doubted \cup {g}}
        /\ failing' \in {failing, [failing EXCEPT ![g] = @ + 1], [failing EXCEPT ![g] = @ - 1]}
        /\ queued' \in {queued, [queued EXCEPT ![g] = @ - 1]}
    BY <1>8 DEF ActivityNext, PersistActivity, IncompleteActivity, DropActivity,
                OverflowActivity, SettleFailed, FailActivity, ActivityStep
  <2>2. g < next
    BY SMTT(30), <2>1 DEF Birth, TypeOK, Generations
  <2>3. Birth'
    BY <1>0, <2>1, <2>2 DEF Birth, Evolves, TypeOK
  <2> QED  BY <2>1, <2>3, LinkedFrame
<1>9. ASSUME NEW S, CancelConfirmedMatching(S) PROVE Birth' /\ Linked'
  <2> DEFINE hit == {x \in MatchingTargets(S) : windows[x] # NoGen}
             active == {windows[x] : x \in hit}
             confirmed == {g \in active : WasConfirmed(tok[g])}
  <2>1. /\ windows' = [x \in Targets |-> IF x \in hit THEN NoGen ELSE windows[x]]
        /\ retained' = RetainIfDurable(confirmed)
        /\ doubted' = doubted \cup {g \in Unclaimed(Generations) : SourceOf[tok[g].target] \in S}
        /\ UNCHANGED <<next, disc, queued, failing>>
    BY Zenon, <1>9 DEF CancelConfirmedMatching, clients
  <2>2. \A g \in confirmed : \E x \in hit : x \in Targets /\ windows[x] # NoGen /\ g = windows[x]
    BY DEF MatchingTargets
  <2>3. \A g \in retained' : g \in retained \/ (g \in confirmed /\ WasConfirmed(tok[g]))
    BY <2>1 DEF RetainIfDurable
  <2> HIDE DEF hit, active, confirmed
  <2>4. \A g \in retained' : g \in Generations /\ g < next /\ WasConfirmed(tok[g])
    <3>1. \A g \in retained : g \in Generations /\ g < next /\ WasConfirmed(tok[g])
      BY SMTT(30) DEF Birth, Linked, TypeOK, Generations
    <3>2. \A g \in confirmed : g \in Generations /\ g < next
      <4>1. \A x \in Targets : windows[x] # NoGen => windows[x] \in Generations /\ windows[x] < next
        BY Zenon, <1>0, LinkFacts
      <4> QED  BY Zenon, <2>2, <4>1
    <3> QED  BY <2>3, <3>1, <3>2
  <2>5. Birth'
    <3> SUFFICES ASSUME NEW g \in Generations
                 PROVE  /\ g < next' => disc'[g] # "none"
                        /\ g >= next' => /\ tok'[g].state = "unborn" /\ disc'[g] = "none"
                                         /\ queued'[g] = 0 /\ failing'[g] = 0
                                         /\ g \notin doubted' /\ g \notin retained'
      BY Zenon DEF Birth
    <3>1. CASE g < next
      BY Zenon, <2>1, <3>1, BirthFacts DEF Birth
    <3>2. CASE g >= next
      <4>1. /\ tok[g].state = "unborn" /\ disc[g] = "none" /\ queued[g] = 0 /\ failing[g] = 0
            /\ g \notin doubted
        BY Zenon, <3>2 DEF Birth
      <4>2. tok'[g].state = "unborn"
        BY Zenon, <1>0, <2>1, <4>1 DEF Evolves
      <4>3. g \notin doubted'
        BY <2>1, <4>1 DEF Unclaimed
      <4>4. g \notin retained'
        BY SMTT(30), <2>4, <3>2, BirthFacts
      <4>5. ~(g < next')
        BY SMTT(30), <2>1, <3>2, BirthFacts
      <4> QED  BY Zenon, <2>1, <4>1, <4>2, <4>3, <4>4, <4>5
    <3> QED  BY SMTT(30), <3>1, <3>2, BirthFacts
  <2>6. \A x \in Targets : windows'[x] # NoGen =>
            x \notin hit /\ windows'[x] = windows[x] /\ windows[x] \notin retained'
    <3> SUFFICES ASSUME NEW x \in Targets, windows'[x] # NoGen
                 PROVE  x \notin hit /\ windows'[x] = windows[x] /\ windows[x] \notin retained'
      OBVIOUS
    <3>1. x \notin hit /\ windows'[x] = windows[x]
      BY Zenon, <2>1
    <3>2. windows[x] \notin retained /\ tok[windows[x]].target = x
      BY Zenon, <3>1 DEF Linked
    <3>3. ASSUME windows[x] \in confirmed PROVE FALSE
      <4>1. PICK y \in hit : y \in Targets /\ windows[y] # NoGen /\ windows[x] = windows[y]
        BY Zenon, <2>2, <3>3
      <4>2. tok[windows[y]].target = y
        BY Zenon, <4>1 DEF Linked
      <4> QED  BY Zenon, <3>1, <3>2, <4>1, <4>2
    <3> QED  BY Zenon, <2>3, <3>1, <3>2, <3>3
  <2>7. Linked'
    <3>1. \A x \in Targets : windows'[x] # NoGen =>
            windows'[x] < next' /\ windows'[x] \notin retained' /\ tok'[windows'[x]].target = x
      <4>1. \A x \in Targets : windows[x] # NoGen => windows[x] \in Generations
        BY DEF TypeOK
      <4> QED  BY <1>0, <2>1, <2>6, <4>1 DEF Linked, Evolves
    <3>2. \A g \in retained' : WasConfirmed(tok'[g])
      BY <1>0, <2>1, <2>4 DEF Evolves
    <3> QED  BY <3>1, <3>2 DEF Linked, WasConfirmed
  <2> QED  BY <2>5, <2>7
<1>10. ASSUME NEW g \in Generations, CancelUnlinked(g) PROVE Birth' /\ Linked'
  <2>1. UNCHANGED <<next, windows, retained, disc, queued, failing, doubted>>
    BY <1>10 DEF CancelUnlinked, clients
  <2> QED  BY <1>0, <2>1, LinkedFrame DEF Birth, Evolves
<1>11. CASE FinalizationCandidates
  <2>1. /\ windows' = Rotated(fin.now) /\ retained' = RotatedRetained(fin.now)
        /\ UNCHANGED <<tok, next, disc, queued, failing, doubted>>
    BY <1>11 DEF FinalizationCandidates
  <2>2. fin.now \in Nat
    BY DEF TypeOK, Finalizer
  <2>3. Birth'
    BY Zenon, <2>1, <2>2, RotationLinked DEF Birth, TypeOK, Generations
  <2> QED  BY <2>1, <2>2, <2>3, RotationLinked DEF Linked
<1>12. CASE FinalizerTick
  BY <1>1, <1>12 DEF FinalizerTick, registry
<1>13. ASSUME \/ \E g \in Generations : ClaimFinalization(g)
              \/ CommitFinalization \/ DeferFinalization \/ CleanupFinalized
       PROVE  Birth' /\ Linked'
  <2>1. /\ UNCHANGED <<next, windows, disc, queued, failing, doubted>>
        /\ retained' \subseteq retained
    BY Zenon, <1>13 DEF ClaimFinalization, CommitFinalization, DeferFinalization, EndAttempt,
                 CleanupFinalized
  <2> QED  BY <1>0, <2>1, LinkedFrame DEF Birth, Evolves
<1> QED  BY Zenon, Next, <1>2, <1>3, <1>4, <1>5, <1>6, <1>7, <1>8, <1>9, <1>10, <1>11, <1>12, <1>13
         DEF Next, CollectorNext, CancelSourceConfirmed, CancelAllConfirmed, FinalizerNext
-----------------------------------------------------------------------------
(* Admission accounting.                                                   *)

\* Operations that leave the two counters alone.
LEMMA CountersKept ==
    ASSUME NEW tk \in Token,
           NEW new \in {tk, CancelIfPending(tk), MarkIncomplete(tk), CancelWithReason(tk),
                        MarkIncomplete(CancelWithReason(tk)),
                        [Confirm(tk) EXCEPT !.durable = TRUE],
                        [tk EXCEPT !.claimed = TRUE], [tk EXCEPT !.claimed = FALSE],
                        [tk EXCEPT !.finalized = TRUE, !.claimed = FALSE]}
    PROVE  new.admitted = tk.admitted /\ new.settled = tk.settled
BY Zenon DEF Token, Confirm, CancelIfPending, MarkIncomplete, CancelWithReason

\* No window has an admission when a pipeline attempt starts.
LEMMA AccountingInit == Init => AdmissionAccounting
BY SMTT(30) DEF Init, AdmissionAccounting, UnbornToken, Outstanding

\* The accounting of one generation.
Accounted(g) ==
    tok[g].admitted = tok[g].settled + queued[g] + failing[g]
                      + (IF disc[g] \in Outstanding THEN 1 ELSE 0)

\* Steps that touch no counter and no outstanding batch.
LEMMA AccountingFrame ==
    ASSUME AdmissionAccounting, UNCHANGED <<disc, queued, failing>>,
           \A g \in Generations : tok'[g].admitted = tok[g].admitted /\ tok'[g].settled = tok[g].settled
    PROVE  AdmissionAccounting'
BY DEF AdmissionAccounting

\* Every step that admits, settles or moves a batch keeps the counters in
\* step with the outstanding batches.
LEMMA AccountingStep ==
    ASSUME TypeInv, Birth, Linked, AdmissionAccounting, Next
    PROVE  AdmissionAccounting'
<1> USE DEF TypeInv
<1>0. /\ TypeOK /\ tok \in [Generations -> Token] /\ disc \in [Generations -> DiscoveryStages]
      /\ queued \in [Generations -> Nat] /\ failing \in [Generations -> Nat]
  BY DEF TypeOK
<1>a. \A g \in Generations : /\ tok[g] \in Token /\ tok[g].admitted \in Nat /\ tok[g].settled \in Nat
                              /\ queued[g] \in Nat /\ failing[g] \in Nat
  BY <1>0 DEF Token
<1>1. CASE UNCHANGED <<tok, disc, queued, failing>>
  BY <1>1 DEF AdmissionAccounting
<1>2. CASE Tick
  BY <1>1, <1>2 DEF Tick, registry, clients
<1>3. ASSUME NEW s \in Sources, Receive(s) \/ FinishNotification(s) PROVE AdmissionAccounting'
  BY <1>1, <1>3 DEF Receive, FinishNotification, registry
<1>4. ASSUME NEW s \in Sources, NEW p \in Sources, RecordSourceCoverageGap(s, p)
      PROVE  AdmissionAccounting'
  <2>1. \A g \in Generations : tok'[g] \in {tok[g], MarkIncomplete(tok[g])}
    BY <1>0, <1>4 DEF RecordSourceCoverageGap
  <2>2. UNCHANGED <<disc, queued, failing>>
    BY <1>4 DEF RecordSourceCoverageGap, clients
  <2> QED  BY <1>a, <2>1, <2>2, CountersKept, AccountingFrame
<1>5. ASSUME NEW s \in Sources, NEW x \in Targets, AdmitMatchingToken(s, x)
      PROVE  AdmissionAccounting'
  <2> DEFINE g == windows[x]
  <2>1. g \in Generations
    BY <1>5, <1>0 DEF AdmitMatchingToken, TypeOK
  <2>2. /\ tok' = [tok EXCEPT ![g] = MarkAdmitted(@)] /\ ~tok[g].finalized
        /\ queued' = [queued EXCEPT ![g] = @ + 1] /\ UNCHANGED <<disc, failing>>
    BY <1>5 DEF AdmitMatchingToken
  <2> HIDE DEF g
  <2>3. tok'[g].admitted = tok[g].admitted + 1 /\ tok'[g].settled = tok[g].settled
    BY <1>0, <1>a, <2>1, <2>2 DEF MarkAdmitted, Token
  <2>4. \A h \in Generations : h # g => tok'[h] = tok[h] /\ queued'[h] = queued[h]
    BY <1>0, <2>2
  <2>5. queued'[g] = queued[g] + 1
    BY <1>0, <2>1, <2>2
  <2> QED  BY SMTT(30), <1>a, <2>1, <2>2, <2>3, <2>4, <2>5 DEF AdmissionAccounting
<1>6. ASSUME NEW s \in Sources, NEW x \in Targets, ProvisionTarget(s, x)
      PROVE  AdmissionAccounting'
  <2>1. UNCHANGED <<queued, failing>>
    BY <1>6 DEF ProvisionTarget
  <2>2. CASE next' = next + 1
    <3>1. /\ next \in Generations /\ disc' = [disc EXCEPT ![next] = "waiting"]
          /\ tok'[next].admitted = 1 /\ tok'[next].settled = 0
      <4>1. next # next + 1
        BY Zenon, <1>0, NextGeneration
      <4>2. next <= MaxGeneration
        BY <1>6, <2>2, <4>1 DEF ProvisionTarget, OpenProvisional
      <4>3. next \in Generations
        BY Zenon, <1>0, <4>2, NextGeneration
      <4>4. \E t : tok'[next] = NewToken(x, t)
        BY <1>6, <2>2, <4>1, <4>3 DEF ProvisionTarget, OpenProvisional
      <4>5. disc' = [disc EXCEPT ![next] = "waiting"]
        BY <1>6, <2>2, <4>1 DEF ProvisionTarget, OpenProvisional
      <4> QED  BY SMTT(30), <4>3, <4>4, <4>5 DEF NewToken
    <3>2. \A g \in Generations : g # next => tok'[g] \in {tok[g], CancelWithReason(tok[g])}
      BY <1>0, <1>6, <2>2 DEF ProvisionTarget, OpenProvisional
    <3>3. \A g \in Generations : g # next =>
             tok'[g].admitted = tok[g].admitted /\ tok'[g].settled = tok[g].settled
      BY <1>a, <3>2, CountersKept
    <3>4. queued[next] = 0 /\ failing[next] = 0
      BY SMTT(30), <3>1 DEF Birth, TypeOK
    <3> QED  BY SMTT(30), <1>0, <1>a, <2>1, <3>1, <3>3, <3>4 DEF AdmissionAccounting, Outstanding
  <2> QED  BY <1>1, <1>6, <2>1, <2>2 DEF ProvisionTarget, OpenProvisional
<1>7. ASSUME NEW g \in Generations, DiscoveryNext(g) PROVE AdmissionAccounting'
  <2>1. UNCHANGED queued
    BY <1>7 DEF DiscoveryNext, CancelDiscovery, OpenDurableWindow, ConfirmWindow, DropDiscovery,
                FinishDiscovery, FailDiscovery, DiscoveryStep
  <2>2. ASSUME NEW from \in Outstanding, NEW to \in DiscoveryStages, NEW tk,
               DiscoveryStep(g, from, to, tk),
               \/ /\ tk.admitted = tok[g].admitted /\ tk.settled = tok[g].settled + 1
                  /\ to = "closed" /\ failing' = failing
               \/ /\ tk.admitted = tok[g].admitted /\ tk.settled = tok[g].settled
                  /\ to \in Outstanding /\ failing' = failing
               \/ /\ tk.admitted = tok[g].admitted /\ tk.settled = tok[g].settled
                  /\ to = "closed" /\ failing' = [failing EXCEPT ![g] = @ + 1]
        PROVE  AdmissionAccounting'
    <3>1. /\ disc[g] = from /\ disc'[g] = to /\ tok'[g] = tk
          /\ \A h \in Generations : h # g => disc'[h] = disc[h] /\ tok'[h] = tok[h]
      BY <1>0, <2>2 DEF DiscoveryStep
    <3>2. \A h \in Generations : h # g => failing'[h] = failing[h]
      BY <1>0, <2>2
    <3>4. Accounted(g)
      BY DEF AdmissionAccounting, Accounted
    <3>5. \/ /\ tk.settled = tok[g].settled + 1 /\ to = "closed" /\ failing'[g] = failing[g]
          \/ /\ tk.settled = tok[g].settled /\ to \in Outstanding /\ failing'[g] = failing[g]
          \/ /\ tk.settled = tok[g].settled /\ to = "closed" /\ failing'[g] = failing[g] + 1
      BY <1>0, <2>2
    <3>6. tk.admitted = tok[g].admitted
      BY <2>2
    <3>7. Accounted(g)'
      BY SMTT(30), <1>a, <2>1, <2>2, <3>1, <3>4, <3>5, <3>6 DEF Accounted, Outstanding
    <3> QED  BY <2>1, <3>1, <3>2, <3>7 DEF AdmissionAccounting, Accounted
  <2>3. disc[g] \in Outstanding => MarkSettled(tok[g]) = [tok[g] EXCEPT !.settled = @ + 1]
    <3>1. disc[g] \in Outstanding => tok[g].settled < tok[g].admitted
      BY SMTT(30), <1>a DEF AdmissionAccounting
    <3> QED  BY <3>1 DEF MarkSettled
  <2>4. CASE CancelDiscovery(g)
    <3> DEFINE tk == CancelIfPending(tok[g])
    <3>1. tk \in Token /\ tk.admitted = tok[g].admitted /\ tk.settled = tok[g].settled
      BY Zenon, <1>a, TokenTypes, CountersKept
    <3>2. disc[g] \in Outstanding
      BY <2>4 DEF CancelDiscovery, DiscoveryStep, Outstanding
    <3>3. tk.settled < tk.admitted
      BY SMTT(30), <1>a, <3>1, <3>2 DEF AdmissionAccounting
    <3> HIDE DEF tk
    <3>4. /\ MarkSettled(tk).admitted = tok[g].admitted
          /\ MarkSettled(tk).settled = tok[g].settled + 1
      BY <3>1, <3>3 DEF MarkSettled, Token
    <3> QED  BY Zenon, <2>2, <2>4, <3>4 DEF CancelDiscovery, Outstanding, DiscoveryStages, tk
  <2>5. CASE OpenDurableWindow(g)
    BY <2>2, <2>5 DEF OpenDurableWindow, Outstanding, DiscoveryStages
  <2>6. ASSUME NEW from \in Outstanding, FailDiscovery(g, from) PROVE AdmissionAccounting'
    <3>1. /\ MarkIncomplete(tok[g]).admitted = tok[g].admitted
          /\ MarkIncomplete(tok[g]).settled = tok[g].settled
      BY <1>a, CountersKept
    <3> QED  BY <2>2, <2>6, <3>1 DEF FailDiscovery, DiscoveryStages
  <2>7. CASE DiscoveryStep(g, "opened", "confirmed", [Confirm(tok[g]) EXCEPT !.durable = TRUE])
             /\ UNCHANGED <<failing, doubted>>
    <3> DEFINE tk == [Confirm(tok[g]) EXCEPT !.durable = TRUE]
    <3>1. tk.admitted = tok[g].admitted /\ tk.settled = tok[g].settled
      BY <1>a, CountersKept
    <3> HIDE DEF tk
    <3> QED  BY Zenon, <2>2, <2>7, <3>1 DEF Outstanding, DiscoveryStages, tk
  <2>8. CASE FinishDiscovery(g)
    <3>1. disc[g] \in Outstanding
      BY <2>8 DEF FinishDiscovery, DiscoveryStep, Outstanding
    <3>2. /\ MarkSettled(tok[g]).admitted = tok[g].admitted
          /\ MarkSettled(tok[g]).settled = tok[g].settled + 1
      BY <1>a, <2>3, <3>1 DEF Token
    <3> QED  BY <2>2, <2>8, <3>2 DEF FinishDiscovery, Outstanding, DiscoveryStages
  <2> QED  BY <1>7, <2>4, <2>5, <2>6, <2>7, <2>8
           DEF DiscoveryNext, ConfirmWindow, DropDiscovery, Outstanding
<1>8. ASSUME NEW g \in Generations, ActivityNext(g) PROVE AdmissionAccounting'
  <2>1. UNCHANGED disc
    BY <1>8 DEF ActivityNext, PersistActivity, IncompleteActivity, DropActivity,
                OverflowActivity, SettleFailed, FailActivity, ActivityStep
  <2> DEFINE out == IF disc[g] \in Outstanding THEN 1 ELSE 0
  <2>n. out \in Nat
    OBVIOUS
  <2>i. /\ tok[g].admitted \in Nat /\ tok[g].settled \in Nat
        /\ queued[g] \in Nat /\ failing[g] \in Nat
    BY <1>a DEF Token
  <2>a. tok[g].admitted = tok[g].settled + queued[g] + failing[g] + out
    BY Zenon DEF AdmissionAccounting
  <2>d. \A h \in Generations : disc'[h] = disc[h]
    BY Zenon, <2>1
  <2>g. tok'[g].admitted = tok'[g].settled + queued'[g] + failing'[g] + out => Accounted(g)'
    BY Zenon, <2>d DEF Accounted
  <2> HIDE DEF out
  <2>b. /\ (queued[g] > 0 \/ failing[g] > 0) => tok[g].settled < tok[g].admitted
        /\ queued[g] > 0 =>
             /\ tok[g].admitted = tok[g].settled + 1 + (queued[g] - 1) + failing[g] + out
             /\ tok[g].admitted = tok[g].settled + (queued[g] - 1) + (failing[g] + 1) + out
        /\ failing[g] > 0 =>
             tok[g].admitted = tok[g].settled + 1 + queued[g] + (failing[g] - 1) + out
    <3>1. PICK a \in Nat, s \in Nat, q \in Nat, f \in Nat :
             a = tok[g].admitted /\ s = tok[g].settled /\ q = queued[g] /\ f = failing[g]
      BY Zenon, <2>i
    <3>2. a = s + q + f + out
      BY Zenon, <2>a, <3>1
    <3>3. /\ (q > 0 \/ f > 0) => s < a
          /\ q > 0 => a = s + 1 + (q - 1) + f + out /\ a = s + (q - 1) + (f + 1) + out
          /\ f > 0 => a = s + 1 + q + (f - 1) + out
      BY ONLY SMT, <2>n, <3>1, <3>2
    <3> QED  BY Zenon, <3>1, <3>3
  <2>2. ASSUME queued[g] > 0 \/ failing[g] > 0
        PROVE  /\ MarkSettled(tok[g]).admitted = tok[g].admitted
               /\ MarkSettled(tok[g]).settled = tok[g].settled + 1
    <3>1. tok[g].settled < tok[g].admitted
      BY Zenon, <2>2, <2>b
    <3> QED  BY <1>a, <3>1 DEF MarkSettled, Token
  <2>3. CASE PersistActivity(g)
    <3>1. /\ queued[g] > 0 /\ queued'[g] = queued[g] - 1 /\ failing' = failing
          /\ tok'[g] = MarkSettled(tok[g])
          /\ \A h \in Generations : h # g => queued'[h] = queued[h] /\ tok'[h] = tok[h]
      BY SMTT(20), <1>0, <2>3 DEF PersistActivity, ActivityStep
    <3>2. Accounted(g)'
      <4>1. /\ tok'[g].admitted = tok[g].admitted /\ tok'[g].settled = tok[g].settled + 1
            /\ failing'[g] = failing[g]
        BY Zenon, <2>2, <3>1
      <4>2. tok'[g].admitted = tok'[g].settled + queued'[g] + failing'[g] + out
        BY Zenon, <2>b, <3>1, <4>1
      <4> QED  BY Zenon, <2>g, <4>2
    <3> QED  BY <2>1, <3>1, <3>2 DEF AdmissionAccounting, Accounted
  <2>4. ASSUME NEW tk, FailActivity(g, tk), tk.admitted = tok[g].admitted,
               tk.settled = tok[g].settled
        PROVE  AdmissionAccounting'
    <3>1. /\ queued[g] > 0 /\ queued'[g] = queued[g] - 1 /\ failing'[g] = failing[g] + 1
          /\ tok'[g] = tk
          /\ \A h \in Generations : h # g => /\ queued'[h] = queued[h] /\ tok'[h] = tok[h]
                                              /\ failing'[h] = failing[h]
      BY SMTT(20), <1>0, <2>4 DEF FailActivity, ActivityStep
    <3>2. Accounted(g)'
      <4>1. tok'[g].admitted = tok[g].admitted /\ tok'[g].settled = tok[g].settled
        BY Zenon, <2>4, <3>1
      <4>2. tok'[g].admitted = tok'[g].settled + queued'[g] + failing'[g] + out
        BY Zenon, <2>b, <3>1, <4>1
      <4> QED  BY Zenon, <2>g, <4>2
    <3> QED  BY Zenon, <2>1, <3>1, <3>2 DEF AdmissionAccounting, Accounted
  <2>5. CASE SettleFailed(g)
    <3>1. /\ failing[g] > 0 /\ failing'[g] = failing[g] - 1 /\ queued' = queued
          /\ tok'[g] = MarkSettled(tok[g])
          /\ \A h \in Generations : h # g => failing'[h] = failing[h] /\ tok'[h] = tok[h]
      BY SMTT(20), <1>0, <2>5 DEF SettleFailed
    <3>2. Accounted(g)'
      <4>1. /\ tok'[g].admitted = tok[g].admitted /\ tok'[g].settled = tok[g].settled + 1
            /\ queued'[g] = queued[g]
        BY Zenon, <2>2, <3>1
      <4>2. tok'[g].admitted = tok'[g].settled + queued'[g] + failing'[g] + out
        BY Zenon, <2>b, <3>1, <4>1
      <4> QED  BY Zenon, <2>g, <4>2
    <3> QED  BY <2>1, <3>1, <3>2 DEF AdmissionAccounting, Accounted
  <2>6. \A tk \in {MarkIncomplete(tok[g]), MarkIncomplete(CancelWithReason(tok[g]))} :
           tk.admitted = tok[g].admitted /\ tk.settled = tok[g].settled
    BY <1>a, CountersKept
  <2> QED  BY SMTT(20), <1>8, <2>3, <2>4, <2>5, <2>6
           DEF ActivityNext, IncompleteActivity, DropActivity, OverflowActivity
<1>9. ASSUME NEW S, CancelConfirmedMatching(S) PROVE AdmissionAccounting'
  <2>1. \A g \in Generations : tok'[g] \in {tok[g], CancelWithReason(tok[g])}
    BY Zenon, <1>0, <1>9 DEF CancelConfirmedMatching
  <2>2. UNCHANGED <<disc, queued, failing>>
    BY <1>9 DEF CancelConfirmedMatching, clients
  <2> QED  BY SMTT(20), <1>a, <2>1, <2>2, CountersKept, AccountingFrame
<1>10. ASSUME NEW g \in Generations, CancelUnlinked(g) PROVE AdmissionAccounting'
  <2>1. \A h \in Generations : tok'[h] \in {tok[h], CancelIfPending(tok[h])}
    BY <1>0, <1>10 DEF CancelUnlinked
  <2>2. UNCHANGED <<disc, queued, failing>>
    BY <1>10 DEF CancelUnlinked, clients
  <2> QED  BY <1>a, <2>1, <2>2, CountersKept, AccountingFrame
<1>11. CASE FinalizerTick \/ FinalizationCandidates \/ CleanupFinalized
  BY <1>1, <1>11 DEF FinalizerTick, FinalizationCandidates, CleanupFinalized, registry
<1>12. ASSUME NEW g \in Generations, ClaimFinalization(g) PROVE AdmissionAccounting'
  <2>1. \A h \in Generations : tok'[h] \in {tok[h], [tok[h] EXCEPT !.claimed = TRUE]}
    BY <1>0, <1>12 DEF ClaimFinalization
  <2>2. UNCHANGED <<disc, queued, failing>>
    BY <1>12 DEF ClaimFinalization
  <2> QED  BY Zenon, <1>a, <2>1, <2>2, CountersKept, AccountingFrame
<1>13. CASE CommitFinalization \/ DeferFinalization
  <2>1. \A h \in Generations : tok'[h] \in {tok[h], [tok[h] EXCEPT !.claimed = FALSE],
                                    [tok[h] EXCEPT !.finalized = TRUE, !.claimed = FALSE]}
    BY Zenon, Zenon, <1>0, <1>13 DEF CommitFinalization, DeferFinalization, EndAttempt
  <2>2. UNCHANGED <<disc, queued, failing>>
    BY <1>13 DEF CommitFinalization, DeferFinalization, EndAttempt
  <2> QED  BY Zenon, <1>a, <2>1, <2>2, CountersKept, AccountingFrame
<1> QED  BY Zenon, Next, <1>2, <1>3, <1>4, <1>5, <1>6, <1>7, <1>8, <1>9, <1>10, <1>11, <1>12, <1>13
         DEF Next, CollectorNext, CancelSourceConfirmed, CancelAllConfirmed, FinalizerNext

-----------------------------------------------------------------------------
(* Broken evidence is recorded.                                            *)

\* Only provisioning brings a generation into the registry.
LEMMA TrackedStep ==
    ASSUME BoundsAssumption, SourceOfAssumption, TypeInv, Birth, Linked, Next, NEW g \in Tracked'
    PROVE  g \in Generations /\ (g \in Tracked \/ (next' = next + 1 /\ g = next))
<1> USE BoundsAssumption, SourceOfAssumption DEF TypeInv
<1>0. TypeOK /\ TypeOK'
  BY TypeStep
<1>1. g \in Generations
  BY SMTT(30), <1>0 DEF TypeOK, Tracked, Active
<1>2. ASSUME windows' = windows, retained' \subseteq retained PROVE g \in Tracked
  BY <1>2 DEF Tracked, Active
<1>3. ASSUME NEW t \in Nat, windows' = Rotated(t), retained' = RotatedRetained(t)
      PROVE  g \in Tracked
  BY <1>3, RotationLinked DEF Tracked, Active
<1>4. CASE Tick
  BY Zenon, <1>1, <1>2, <1>4 DEF Tick, registry
<1>5. ASSUME NEW s \in Sources, CollectorNext(s)
      PROVE  g \in Tracked \/ (next' = next + 1 /\ g = next)
  <2>1. CASE Receive(s) \/ FinishNotification(s)
    BY <1>2, <2>1 DEF Receive, FinishNotification, registry
  <2>2. ASSUME NEW p \in Sources, RecordSourceCoverageGap(s, p) PROVE g \in Tracked
    BY Zenon, <1>2, <2>2 DEF RecordSourceCoverageGap
  <2>3. ASSUME NEW x \in Targets, AdmitMatchingToken(s, x) PROVE g \in Tracked
    BY <1>2, <2>3 DEF AdmitMatchingToken
  <2>4. ASSUME NEW x \in Targets, ProvisionTarget(s, x)
        PROVE  g \in Tracked \/ (next' = next + 1 /\ g = next)
    <3> DEFINE t == Receipt(s)
               w == Rotated(t)
    <3>1. t \in Nat
      BY <2>4, RunningTypes DEF ProvisionTarget
    <3>2. /\ \A y \in Targets : w[y] # NoGen => w[y] = windows[y]
          /\ RotatedRetained(t) \subseteq Tracked
      BY <3>1, RotationLinked
    <3> HIDE DEF t, w
    <3>3. CASE windows' = w /\ retained' = RotatedRetained(t)
      BY <3>2, <3>3 DEF Tracked, Active
    <3>4. ASSUME NEW evicted \in Evictions(w), OpenProvisional(x, t, w, evicted)
          PROVE  g \in Tracked \/ (next' = next + 1 /\ g = next)
      <4> DEFINE victims == {w[y] : y \in evicted}
      <4>1. \A y \in evicted : y \in Targets /\ w[y] # NoGen
        BY <3>4 DEF Evictions
      <4>2. victims \subseteq Tracked
        BY <3>2, <4>1 DEF Tracked, Active
      <4>3. /\ windows' = [y \in Targets |->
                            IF y = x THEN next ELSE IF y \in evicted THEN NoGen ELSE w[y]]
            /\ retained' = RotatedRetained(t) \cup RetainIfDurable(victims) /\ next' = next + 1
        BY Zenon, <3>4 DEF OpenProvisional
      <4> HIDE DEF victims
      <4>4. retained' \subseteq Tracked
        BY <3>2, <4>2, <4>3 DEF RetainIfDurable, Tracked
      <4>5. \A y \in Targets : windows'[y] # NoGen => windows'[y] = next \/ windows'[y] = windows[y]
        BY <3>2, <4>3
      <4> QED  BY <4>3, <4>4, <4>5 DEF Tracked, Active
    <3> QED  BY <2>4, <3>3, <3>4 DEF ProvisionTarget, t, w
  <2> QED  BY <1>5, <2>1, <2>2, <2>3, <2>4 DEF CollectorNext
<1>6. ASSUME NEW h \in Generations, DiscoveryNext(h) PROVE g \in Tracked
  BY <1>2, <1>6 DEF DiscoveryNext, CancelDiscovery, OpenDurableWindow, ConfirmWindow,
                    DropDiscovery, FinishDiscovery, FailDiscovery, DiscoveryStep
<1>7. ASSUME NEW h \in Generations, ActivityNext(h) \/ CancelUnlinked(h) PROVE g \in Tracked
  BY <1>2, <1>7 DEF ActivityNext, PersistActivity, IncompleteActivity, DropActivity,
                    OverflowActivity, SettleFailed, FailActivity, ActivityStep, CancelUnlinked
<1>8. ASSUME NEW S, CancelConfirmedMatching(S) PROVE g \in Tracked
  <2> DEFINE hit == {x \in MatchingTargets(S) : windows[x] # NoGen}
             confirmed == {h \in {windows[x] : x \in hit} : WasConfirmed(tok[h])}
  <2>1. /\ windows' = [x \in Targets |-> IF x \in hit THEN NoGen ELSE windows[x]]
        /\ retained' = RetainIfDurable(confirmed)
    BY Zenon, <1>8 DEF CancelConfirmedMatching
  <2>2. confirmed \subseteq Tracked
    BY Zenon DEF MatchingTargets, Tracked, Active
  <2> HIDE DEF hit, confirmed
  <2> QED  BY Zenon, <2>1, <2>2 DEF RetainIfDurable, Tracked, Active
<1>9. CASE FinalizationCandidates
  <2>1. fin.now \in Nat
    BY <1>0 DEF TypeOK, Finalizer
  <2>2. windows' = Rotated(fin.now) /\ retained' = RotatedRetained(fin.now)
    BY <1>9 DEF FinalizationCandidates
  <2>3. g \in Tracked
    BY <1>3, <2>1, <2>2
  <2> QED  BY <1>1, <2>3
<1>10. ASSUME \/ \E h \in Generations : ClaimFinalization(h)
              \/ FinalizerTick \/ CommitFinalization \/ DeferFinalization \/ CleanupFinalized
       PROVE  g \in Tracked
  BY Zenon, <1>2, <1>10 DEF ClaimFinalization, FinalizerTick, CommitFinalization, DeferFinalization,
                     EndAttempt, CleanupFinalized, registry
<1> QED  BY Zenon, Next, <1>1, <1>4, <1>5, <1>6, <1>7, <1>8, <1>9, <1>10
         DEF Next, CancelSourceConfirmed, CancelAllConfirmed, FinalizerNext

\* The latest gap is enough: a window is provisioned at a receipt time at most
\* MaxLag old, so a gap inside its interval implies that the latest one, which
\* is not later than now, is inside it too.
LEMMA LatestGapSuffices ==
    ASSUME BoundsAssumption, SourceOfAssumption, TypeOK, ClockInv, GapInv,
           NEW s \in Sources, Running(s), NEW x \in Targets,
           NEW u \in Receipt(s)..(Receipt(s) + Duration - 1), <<SourceOf[x], u>> \in gaps
    PROVE  NewToken(x, Receipt(s)).incomplete
<1> DEFINE t == Receipt(s)
           p == SourceOf[x]
<1>2. t = inbox[s][1] /\ t \in Nat /\ 1 \in 1..Len(inbox[s])
  BY Zenon, RunningReceipt
<1>3. now <= t + MaxLag
  BY Zenon, <1>2 DEF ClockInv, Ordered
<1>4. p \in Sources /\ gap[p] \in Nat /\ now \in Nat
  BY DEF SourceOfAssumption, TypeOK
<1>5. u \in Nat /\ t <= u
  <2>1. Duration \in Nat
    BY Zenon DEF BoundsAssumption
  <2>2. u \in t..(t + Duration - 1)
    OBVIOUS
  <2> HIDE DEF t
  <2> QED  BY Zenon, <1>2, <2>1, <2>2, IntervalTimes
<1>6. u <= gap[p] /\ gap[p] <= now
  BY <1>4, <1>5 DEF GapInv
<1>7. t <= gap[p] /\ gap[p] < t + Duration
  BY SMTT(20), <1>2, <1>3, <1>4, <1>5, <1>6 DEF BoundsAssumption
<1> QED  BY Zenon, <1>7 DEF NewToken

\* Every step that breaks a piece of a tracked window's evidence marks the
\* window, and provisioning marks a window born into a known gap.
LEMMA DoubtStep ==
    ASSUME BoundsAssumption, SourceOfAssumption, TypeInv, ClockInv, GapInv, Birth, Linked,
           DoubtIsRecorded, Next
    PROVE  DoubtIsRecorded'
<1> USE BoundsAssumption, SourceOfAssumption DEF TypeInv
<1> SUFFICES ASSUME NEW g \in doubted', g \in Tracked' PROVE tok'[g].incomplete
  BY DEF DoubtIsRecorded
<1>0. /\ TypeOK /\ g \in Generations /\ tok \in [Generations -> Token] /\ tok[g] \in Token
      /\ g \in Tracked \/ (next' = next + 1 /\ g = next)
  BY TrackedStep DEF TypeOK
<1>1. CASE g \in doubted
  <2>1. g < next /\ g \in Nat /\ next \in Nat
    BY Zenon, <1>0, <1>1, BirthFacts
  <2>2. g # next
    BY Zenon, <1>0, <2>1, NextGeneration
  <2>3. g \in Tracked /\ Evolves(tok[g], tok'[g])
    BY <1>0, <2>2, TokenStep
  <2> QED  BY Zenon, <1>1, <2>3 DEF DoubtIsRecorded, Evolves
<1> SUFFICES ASSUME g \notin doubted PROVE tok'[g].incomplete
  BY <1>1
<1>2. CASE doubted' = doubted
  BY <1>2
<1>3. MarkIncomplete(tok[g]).incomplete /\ MarkIncomplete(CancelWithReason(tok[g])).incomplete
  BY SMTT(30), <1>0, TokenTypes DEF MarkIncomplete, Token
<1>4. tok[g].state = "confirmed" => CancelWithReason(tok[g]).incomplete
  BY <1>0 DEF CancelWithReason, MarkIncomplete, Token
<1>5. ASSUME NEW s \in Sources, NEW p \in Sources, RecordSourceCoverageGap(s, p)
      PROVE  tok'[g].incomplete
  <2>1. g \in Covering(Generations, p, Receipt(s))
    BY Zenon, <1>5 DEF RecordSourceCoverageGap
  <2>2. g \in Tracked
    <3>1. next' = next
      BY Zenon, <1>5 DEF RecordSourceCoverageGap
    <3> QED  BY Zenon, <1>0, <3>1, NextGeneration
  <2>3. g \in Covering(Tracked, p, Receipt(s))
    BY <2>1, <2>2 DEF Covering
  <2> QED  BY <1>0, <1>3, <1>5, <2>3 DEF RecordSourceCoverageGap
<1>6. ASSUME NEW s \in Sources, NEW x \in Targets, ProvisionTarget(s, x)
      PROVE  tok'[g].incomplete
  <2> DEFINE t == Receipt(s)
             w == Rotated(t)
  <2>1. t \in Nat /\ Running(s)
    BY <1>6, RunningTypes DEF ProvisionTarget
  <2>2. /\ w \in [Targets -> Generations \cup {NoGen}]
        /\ \A y \in Targets : w[y] # NoGen => w[y] = windows[y] /\ w[y] \notin RotatedRetained(t)
    BY <2>1, RotationTypes, RotationLinked
  <2>3. PICK evicted \in Evictions(w) : OpenProvisional(x, t, w, evicted)
    BY <1>2, <1>6 DEF ProvisionTarget
  <2> DEFINE victims == {w[y] : y \in evicted}
  <2>4. /\ tok' = [h \in Generations |->
                     IF h = next THEN NewToken(x, t)
                     ELSE IF h \in victims THEN CancelWithReason(tok[h]) ELSE tok[h]]
        /\ windows' = [y \in Targets |->
                         IF y = x THEN next ELSE IF y \in evicted THEN NoGen ELSE w[y]]
        /\ retained' = RotatedRetained(t) \cup RetainIfDurable(victims)
        /\ doubted' = doubted \cup victims
             \cup {h \in {next} : \E u \in t..(t + Duration - 1) : <<SourceOf[x], u>> \in gaps}
    BY Zenon, <2>3 DEF OpenProvisional
  <2>5. CASE g = next
    <3>1. g \notin victims
      <4>1. \A y \in evicted : y \in Targets /\ w[y] # NoGen
        BY Zenon, <2>3 DEF Evictions
      <4>2. \A y \in evicted : w[y] < next
        BY Zenon, <2>2, <4>1 DEF Linked
      <4> QED  BY Zenon, <1>0, <2>5, <4>2, NextGeneration
    <3>2. \E u \in t..(t + Duration - 1) : <<SourceOf[x], u>> \in gaps
      BY Zenon, <2>4, <3>1
    <3>3. NewToken(x, t).incomplete
      BY <2>1, <3>2, LatestGapSuffices
    <3> QED  BY Zenon, <1>0, <2>4, <2>5, <3>3
  <2>6. CASE g # next
    <3>1. PICK y \in evicted : g = w[y]
      BY Zenon, <2>4, <2>6
    <3>2. /\ y \in Targets /\ w[y] # NoGen
      BY Zenon, <2>3 DEF Evictions
    <3>3. w[y] = windows[y] /\ y \notin Closed(t)
      BY Zenon, <2>2, <3>2 DEF Rotated
    <3>4. IsOpenAt(tok[g], t)
      BY Zenon, <3>1, <3>2, <3>3 DEF Closed
    <3>5. tok[g].state \in {"pending", "confirmed"}
      BY <3>4 DEF IsOpenAt
    <3>6. g \notin Active'
      <4> SUFFICES ASSUME NEW z \in Targets, windows'[z] = g, windows'[z] # NoGen PROVE FALSE
        BY DEF Active
      <4>1. windows'[z] = w[z] /\ z \notin evicted
        BY Zenon, <2>4, <2>6
      <4>2. w[z] = windows[z] /\ w[z] # NoGen
        BY Zenon, <2>2, <4>1
      <4>3. tok[windows[z]].target = z /\ tok[windows[y]].target = y
        BY Zenon, <3>2, <3>3, <4>2 DEF Linked
      <4>4. z = y
        BY Zenon, <3>1, <3>3, <4>1, <4>2, <4>3
      <4> QED  BY <4>1, <4>4
    <3>7. g \in RetainIfDurable(victims) /\ g \notin RotatedRetained(t)
      BY SMTT(20), <2>2, <2>4, <3>1, <3>2, <3>6 DEF Tracked
    <3>8. WasConfirmed(tok[g])
      <4>1. retained \subseteq RotatedRetained(t)
        BY DEF RotatedRetained, RetainIfDurable
      <4> QED  BY Zenon, <3>7, <4>1 DEF RetainIfDurable
    <3>9. tok[g].state = "confirmed"
      BY <3>5, <3>8 DEF WasConfirmed
    <3>10. g \in victims
      BY <3>1
    <3> HIDE DEF victims
    <3> QED  BY SMTT(20), <1>0, <1>4, <2>4, <2>6, <3>9, <3>10
  <2> QED  BY <2>5, <2>6
<1>7. ASSUME NEW h \in Generations, DiscoveryNext(h) PROVE tok'[g].incomplete
  <2>1. \/ doubted' = doubted
        \/ doubted' = doubted \cup {h} /\ tok' = [tok EXCEPT ![h] = MarkIncomplete(tok[h])]
    BY <1>7 DEF DiscoveryNext, CancelDiscovery, OpenDurableWindow, ConfirmWindow, DropDiscovery,
                FinishDiscovery, FailDiscovery, DiscoveryStep
  <2> QED  BY <1>0, <1>2, <1>3, <2>1
<1>8. ASSUME NEW h \in Generations, ActivityNext(h) PROVE tok'[g].incomplete
  <2>1. \/ doubted' = doubted
        \/ /\ doubted' = doubted \cup {h}
           /\ \/ tok' = [tok EXCEPT ![h] = MarkIncomplete(tok[h])]
              \/ tok' = [tok EXCEPT ![h] = MarkIncomplete(CancelWithReason(tok[h]))]
    BY <1>8 DEF ActivityNext, PersistActivity, IncompleteActivity, DropActivity,
                OverflowActivity, SettleFailed, FailActivity, ActivityStep
  <2> QED  BY SMTT(30), <1>0, <1>2, <1>3, <2>1
<1>9. ASSUME NEW S, CancelConfirmedMatching(S) PROVE tok'[g].incomplete
  <2> DEFINE hit == {x \in MatchingTargets(S) : windows[x] # NoGen}
             confirmed == {h \in {windows[x] : x \in hit} : WasConfirmed(tok[h])}
             closed == {h \in Unclaimed(retained) : SourceOf[tok[h].target] \in S}
  <2>1. tok' = [h \in Generations |->
                 IF h \in confirmed \cup closed THEN CancelWithReason(tok[h]) ELSE tok[h]]
    BY Zenon, <1>9 DEF CancelConfirmedMatching
  <2>2. g \in Unclaimed(Generations) /\ SourceOf[tok[g].target] \in S
    BY Zenon, <1>9 DEF CancelConfirmedMatching
  <2>3. tok[g].state = "confirmed"
    BY <2>2 DEF Unclaimed
  <2>4. g \in Tracked
    <3>1. next' = next
      BY Zenon, <1>9 DEF CancelConfirmedMatching
    <3> QED  BY Zenon, <1>0, <3>1, NextGeneration
  <2>5. CASE g \in retained
    BY Zenon, <1>0, <1>4, <2>1, <2>2, <2>3, <2>5 DEF Unclaimed
  <2>6. CASE g \in Active
    <3>1. PICK x \in Targets : windows[x] # NoGen /\ windows[x] = g
      BY <2>6 DEF Active
    <3>2. tok[g].target = x
      BY <3>1 DEF Linked
    <3>3. g \in confirmed
      BY <2>2, <2>3, <3>1, <3>2 DEF MatchingTargets, WasConfirmed
    <3> HIDE DEF confirmed, closed
    <3> QED  BY <1>0, <1>4, <2>1, <2>3, <3>3
  <2> QED  BY SMTT(20), <2>4, <2>5, <2>6 DEF Tracked
<1>10. ASSUME \/ Tick \/ FinalizerNext
              \/ \E s \in Sources : Receive(s) \/ FinishNotification(s)
              \/ \E s \in Sources, x \in Targets : AdmitMatchingToken(s, x)
              \/ \E h \in Generations : CancelUnlinked(h)
       PROVE  tok'[g].incomplete
  <2>1. doubted' = doubted
    BY Zenon, <1>10 DEF Tick, Receive, FinishNotification, AdmitMatchingToken, CancelUnlinked,
                 FinalizerNext, FinalizerTick, FinalizationCandidates, ClaimFinalization,
                 CommitFinalization, DeferFinalization, EndAttempt, CleanupFinalized
  <2> QED  BY <1>2, <2>1
<1> QED  BY Zenon, Next, <1>5, <1>6, <1>7, <1>8, <1>9, <1>10
         DEF Next, CollectorNext, CancelSourceConfirmed, CancelAllConfirmed
-----------------------------------------------------------------------------
(* The inductive invariant and the theorems.                               *)

IInv ==
    /\ TypeInv /\ ClockInv /\ GapInv /\ Birth /\ Linked
    /\ AdmissionAccounting /\ DoubtIsRecorded

\* A step that changes nothing keeps the invariant.
LEMMA Stuttering == ASSUME IInv, UNCHANGED vars PROVE IInv'
<1> USE DEF IInv, vars, registry, clients
<1>1. TypeInv'
  BY SMTT(20) DEF TypeInv, TypeOK
<1>2. ClockInv' /\ GapInv'
  BY Zenon DEF ClockInv, Ordered, GapInv
<1>3. Birth' /\ Linked'
  BY DEF Birth, Linked
<1>4. AdmissionAccounting' /\ DoubtIsRecorded'
  BY Zenon DEF AdmissionAccounting, DoubtIsRecorded, Tracked, Active
<1> QED  BY <1>1, <1>2, <1>3, <1>4

\* IInv holds of every reachable state.
THEOREM Invariance == Spec => []IInv
<1> USE TargetsAssumption, BoundsAssumption, SourceOfAssumption
<1>1. Init => IInv
  <2>1. Init => DoubtIsRecorded
    BY DEF Init, DoubtIsRecorded
  <2> QED  BY <2>1, TypeInit, ClockInit, StructInit, AccountingInit DEF IInv
<1>2. IInv /\ [Next]_vars => IInv'
  <2>1. ASSUME IInv, Next PROVE IInv'
    BY <2>1, TypeStep, ClockStep, StructStep, AccountingStep, DoubtStep DEF IInv
  <2> QED  BY <2>1, Stuttering
<1> QED  BY <1>1, <1>2, PTL DEF Spec

\* Every variable keeps its type.
THEOREM TypeCorrect == Spec => []TypeOK
BY Invariance, PTL DEF IInv, TypeInv

\* Every broken piece of evidence leaves a reason on a tracked window.
THEOREM DoubtRecorded == Spec => []DoubtIsRecorded
BY Invariance, PTL DEF IInv

\* The counters of a window differ by its outstanding batches.
THEOREM Accounting == Spec => []AdmissionAccounting
BY Invariance, PTL DEF IInv

-----------------------------------------------------------------------------
(* What a step may never do.                                               *)

\* A step that neither admits to a generation nor claims it.
Quiet(a, b) == b.admitted = a.admitted /\ (b.claimed => a.claimed)

\* Confirming, cancelling, marking and settling admit nothing and claim nothing.
LEMMA OperationsQuiet ==
    ASSUME NEW tk \in Token,
           NEW new \in {tk, CancelIfPending(tk), MarkIncomplete(tk), CancelWithReason(tk),
                        MarkIncomplete(CancelWithReason(tk)), MarkSettled(tk),
                        MarkSettled(CancelIfPending(tk)),
                        [Confirm(tk) EXCEPT !.durable = TRUE], [tk EXCEPT !.claimed = FALSE],
                        [tk EXCEPT !.finalized = TRUE, !.claimed = FALSE]}
    PROVE  Quiet(tk, new)
BY Zenon DEF Quiet, Token, Confirm, CancelIfPending, MarkIncomplete, CancelWithReason, MarkSettled

\* Only admit_matching_token admits, only claim_finalization claims.
LEMMA QuietStep ==
    ASSUME TypeInv, Next, NEW g \in Generations, next' = next \/ g # next,
           ~\E s \in Sources, x \in Targets : AdmitMatchingToken(s, x) /\ windows[x] = g,
           ~ClaimFinalization(g)
    PROVE  Quiet(tok[g], tok'[g])
<1> USE DEF TypeInv
<1>0. tok \in [Generations -> Token] /\ tok[g] \in Token
  BY DEF TypeOK
<1>1. ASSUME tok'[g] \in {tok[g], CancelIfPending(tok[g]), MarkIncomplete(tok[g]),
                          CancelWithReason(tok[g]), MarkIncomplete(CancelWithReason(tok[g])),
                          MarkSettled(tok[g]), MarkSettled(CancelIfPending(tok[g])),
                          [Confirm(tok[g]) EXCEPT !.durable = TRUE],
                          [tok[g] EXCEPT !.claimed = FALSE],
                          [tok[g] EXCEPT !.finalized = TRUE, !.claimed = FALSE]}
      PROVE  Quiet(tok[g], tok'[g])
  BY Zenon, <1>0, <1>1, OperationsQuiet
<1>2. CASE Tick
  BY SMTT(20), <1>1, <1>2 DEF Tick, registry
<1>3. ASSUME NEW s \in Sources, CollectorNext(s) PROVE Quiet(tok[g], tok'[g])
  <2>1. CASE Receive(s) \/ FinishNotification(s)
    BY <1>1, <2>1 DEF Receive, FinishNotification, registry
  <2>2. ASSUME NEW p \in Sources, RecordSourceCoverageGap(s, p) PROVE Quiet(tok[g], tok'[g])
    BY <1>0, <1>1, <2>2 DEF RecordSourceCoverageGap
  <2>3. ASSUME NEW x \in Targets, AdmitMatchingToken(s, x) PROVE Quiet(tok[g], tok'[g])
    <3>1. tok'[g] = tok[g]
      BY Zenon, <1>0, <2>3 DEF AdmitMatchingToken
    <3> QED  BY <1>1, <3>1
  <2>4. ASSUME NEW x \in Targets, ProvisionTarget(s, x) PROVE Quiet(tok[g], tok'[g])
    <3>1. tok'[g] = tok[g] \/ tok'[g] = CancelWithReason(tok[g])
      <4>1. CASE tok' = tok
        BY SMTT(20), <4>1
      <4>2. CASE next' = next + 1
        <5>1. g # next
          BY Zenon, <4>2, NextGeneration
        <5> QED  BY Zenon, <1>0, <2>4, <4>2, <5>1 DEF ProvisionTarget, OpenProvisional
      <4> QED  BY <2>4, <4>1, <4>2 DEF ProvisionTarget, OpenProvisional
    <3> QED  BY <1>1, <3>1
  <2> QED  BY Zenon, <1>3, <2>1, <2>2, <2>3, <2>4 DEF CollectorNext
<1>4. ASSUME NEW h \in Generations, DiscoveryNext(h) PROVE Quiet(tok[g], tok'[g])
  <2>1. \E tk \in {tok[h], MarkIncomplete(tok[h]), MarkSettled(tok[h]),
                   MarkSettled(CancelIfPending(tok[h])),
                   [Confirm(tok[h]) EXCEPT !.durable = TRUE]} : tok' = [tok EXCEPT ![h] = tk]
    BY <1>4 DEF DiscoveryNext, CancelDiscovery, OpenDurableWindow, ConfirmWindow, DropDiscovery,
                FinishDiscovery, FailDiscovery, DiscoveryStep
  <2> QED  BY <1>0, <1>1, <2>1
<1>5. ASSUME NEW h \in Generations, ActivityNext(h) PROVE Quiet(tok[g], tok'[g])
  <2>1. \E tk \in {MarkIncomplete(tok[h]), MarkSettled(tok[h]),
                   MarkIncomplete(CancelWithReason(tok[h]))} : tok' = [tok EXCEPT ![h] = tk]
    BY Zenon, <1>5 DEF ActivityNext, PersistActivity, IncompleteActivity, DropActivity,
                OverflowActivity, SettleFailed, FailActivity, ActivityStep
  <2> QED  BY SMTT(20), <1>0, <1>1, <2>1
<1>6. ASSUME NEW S, CancelConfirmedMatching(S) PROVE Quiet(tok[g], tok'[g])
  <2>1. tok'[g] = tok[g] \/ tok'[g] = CancelWithReason(tok[g])
    BY Zenon, <1>0, <1>6 DEF CancelConfirmedMatching
  <2> QED  BY <1>1, <2>1
<1>7. ASSUME NEW h \in Generations, CancelUnlinked(h) PROVE Quiet(tok[g], tok'[g])
  BY <1>0, <1>1, <1>7 DEF CancelUnlinked
<1>8. CASE FinalizerNext
  <2>1. CASE FinalizerTick \/ FinalizationCandidates \/ CleanupFinalized
    BY <1>1, <2>1 DEF FinalizerTick, FinalizationCandidates, CleanupFinalized, registry
  <2>2. ASSUME NEW h \in Generations, ClaimFinalization(h) PROVE Quiet(tok[g], tok'[g])
    <3>1. tok'[g] = tok[g]
      BY Zenon, <1>0, <2>2 DEF ClaimFinalization
    <3> QED  BY <1>1, <3>1
  <2>3. CASE CommitFinalization \/ DeferFinalization
    BY Zenon, <1>0, <1>1, <2>3 DEF CommitFinalization, DeferFinalization, EndAttempt
  <2> QED  BY Zenon, <1>8, <2>1, <2>2, <2>3 DEF FinalizerNext
<1> QED  BY Zenon, Next, <1>2, <1>3, <1>4, <1>5, <1>6, <1>7, <1>8
         DEF Next, CancelSourceConfirmed, CancelAllConfirmed

\* No event is admitted to a window that has left the active map.
THEOREM NoLateAdmission == Spec => NoAdmissionAfterClose
<1> DEFINE A == \A g \in retained : tok'[g].admitted = tok[g].admitted
<1>1. IInv /\ [Next]_vars => [A]_vars
  <2>1. ASSUME IInv, Next, NEW g \in retained PROVE tok'[g].admitted = tok[g].admitted
    <3>1. TypeInv /\ TypeOK /\ g \in Generations /\ g # next
      <4>1. TypeInv /\ TypeOK /\ Birth
        BY <2>1 DEF IInv, TypeInv
      <4>2. g \in Generations
        BY <2>1, <4>1 DEF TypeOK
      <4>3. g < next
        BY Zenon, <2>1, <4>1, <4>2, BirthFacts
      <4> QED  BY Zenon, <4>1, <4>2, <4>3, NextGeneration
    <3>2. ~\E s \in Sources, x \in Targets : AdmitMatchingToken(s, x) /\ windows[x] = g
      BY Zenon, <2>1 DEF IInv, Linked, AdmitMatchingToken
    <3>3. CASE ClaimFinalization(g)
      <4>1. tok'[g] \in {tok[g], [tok[g] EXCEPT !.claimed = TRUE]} /\ tok[g] \in Token
        BY <3>1, <3>3 DEF ClaimFinalization, TypeOK
      <4> QED  BY Zenon, Zenon, <4>1, CountersKept
    <3>4. CASE ~ClaimFinalization(g)
      BY Zenon, <2>1, <3>1, <3>2, <3>4, QuietStep DEF Quiet
    <3> QED  BY <3>3, <3>4
  <2> QED  BY <2>1
<1> QED  BY <1>1, Invariance, PTL DEF Spec, NoAdmissionAfterClose

\* A complete claim is sound: nothing of the window is in doubt or outstanding
\* and no notification received before its close is still to be classified.
THEOREM SoundClaim == Spec => CompleteClaimIsSound
<1> DEFINE Sound(g) ==
        LET src == SourceOf[tok[g].target] IN
        /\ g \notin doubted
        /\ queued[g] = 0 /\ failing[g] = 0 /\ disc[g] = "closed"
        /\ \A i \in 1..Len(inbox[src]) : inbox[src][i] >= tok[g].closes
<1> DEFINE A == \A g \in Generations :
                   (~tok[g].claimed /\ tok'[g].claimed /\ ~fin'.frozen) => Sound(g)
<1>1. IInv /\ [Next]_vars => [A]_vars
  <2>1. ASSUME IInv, Next, NEW g \in Generations,
               ~tok[g].claimed, tok'[g].claimed, ~fin'.frozen
        PROVE  Sound(g)
    <3>1. /\ TypeInv /\ TypeOK /\ ClockInv /\ Birth /\ Linked /\ AdmissionAccounting
          /\ DoubtIsRecorded /\ tok[g] \in Token /\ tok \in [Generations -> Token]
      BY Zenon, <2>1 DEF IInv, TypeInv, TypeOK
    <3>2. next' = next \/ g # next
      <4> SUFFICES ASSUME next' # next, g = next PROVE FALSE
        OBVIOUS
      <4>1. PICK s \in Sources, x \in Targets : ProvisionTarget(s, x)
        BY Zenon, Zenon, <2>1, NotCollector DEF Next, CollectorNext, CancelSourceConfirmed, CancelAllConfirmed,
                 Tick, Receive, FinishNotification, RecordSourceCoverageGap, AdmitMatchingToken,
                 registry
      <4>2. \E t : tok'[g] = NewToken(x, t)
        BY <4>1 DEF ProvisionTarget, OpenProvisional
      <4> QED  BY Zenon, <2>1, <4>2, NewTokenFacts
    <3>3. ClaimFinalization(g)
      <4>1. ASSUME NEW s \in Sources, NEW x \in Targets, AdmitMatchingToken(s, x)
            PROVE  tok'[g].claimed = tok[g].claimed
        BY <3>1, <4>1 DEF AdmitMatchingToken, MarkAdmitted, Token
      <4> QED  BY Zenon, <2>1, <3>1, <3>2, <4>1, QuietStep DEF Quiet
    <3>4. Claimable(g) /\ fin'.frozen = tok[g].incomplete
      BY Zenon, Zenon, <2>1, <3>1, <3>3 DEF ClaimFinalization, TypeOK, Finalizer
    <3>5. g \in retained /\ tok[g].admitted = tok[g].settled
          /\ progress[SourceOf[tok[g].target]] >= tok[g].closes
      BY <2>1, <3>4 DEF Claimable, Eligible, Settled
    <3>6. g \notin doubted
      BY Zenon, <2>1, <3>1, <3>4, <3>5 DEF DoubtIsRecorded, Tracked
    <3>7. queued[g] = 0 /\ failing[g] = 0 /\ disc[g] \notin Outstanding
      <4>1. /\ queued[g] \in Nat /\ failing[g] \in Nat
            /\ tok[g].admitted \in Nat /\ tok[g].settled \in Nat
        BY <3>1 DEF TypeOK, Token
      <4> QED  BY SMTT(30), <3>1, <3>5, <4>1 DEF AdmissionAccounting
    <3>8. disc[g] = "closed"
      <4>1. disc[g] # "none"
        BY Zenon, <3>1, <3>5, BirthFacts DEF Birth
      <4> QED  BY <3>1, <3>7, <4>1 DEF TypeOK, DiscoveryStages, Outstanding
    <3>9. \A i \in 1..Len(inbox[SourceOf[tok[g].target]]) :
             inbox[SourceOf[tok[g].target]][i] >= tok[g].closes
      <4> DEFINE src == SourceOf[tok[g].target]
      <4>1. src \in Sources /\ tok[g].closes \in Nat
        BY <3>1, SourceOfAssumption DEF SourceOfAssumption, Token
      <4>2. progress[src] \in Nat /\ inbox[src] \in Seq(Nat)
        BY <3>1, <4>1 DEF TypeOK
      <4>3. \A i \in 1..Len(inbox[src]) : inbox[src][i] \in Nat /\ progress[src] <= inbox[src][i]
        <5>1. \A i \in 1..Len(inbox[src]) : progress[src] <= inbox[src][i]
          BY Zenon, <3>1, <4>1 DEF ClockInv, Ordered
        <5> HIDE DEF src
        <5> QED  BY Zenon, <4>2, <5>1, ReceiptTimes
      <4>4. progress[src] >= tok[g].closes
        BY Zenon, <3>5
      <4> HIDE DEF src
      <4>5. \A i \in 1..Len(inbox[src]) : inbox[src][i] >= tok[g].closes
        BY Zenon, <4>1, <4>2, <4>3, <4>4, Later
      <4> QED  BY <4>5 DEF src
    <3> QED  BY SMTT(20), <3>6, <3>7, <3>8, <3>9
  <2> QED  BY Zenon, <2>1
<1> QED  BY <1>1, Invariance, PTL DEF Spec, CompleteClaimIsSound

-----------------------------------------------------------------------------

\* Receipt times are real times, and a remembered gap was recorded.
Recorded ==
    /\ now > 0
    /\ \A s \in Sources : \A i \in 1..Len(inbox[s]) : inbox[s][i] > 0
    /\ \A p \in Sources : gap[p] > 0 => <<p, gap[p]>> \in gaps

\* An active window is neither claimed nor finalized, and an attempt holds the
\* claim of its window.
Unclosed ==
    /\ \A x \in Targets :
          windows[x] # NoGen => ~tok[windows[x]].claimed /\ ~tok[windows[x]].finalized
    /\ fin.stage = "attempting" => tok[fin.gen].claimed /\ tok[fin.gen].state # "unborn"

CauseInv == Recorded /\ Unclosed /\ IncompletenessHasCause

-----------------------------------------------------------------------------

\* Only the collector records times and gaps, and it records a gap where it
\* remembers one.
LEMMA RecordedStep ==
    ASSUME BoundsAssumption, TypeInv, Recorded, Next
    PROVE  Recorded'
<1> USE BoundsAssumption DEF TypeInv
<1>0. ASSUME now' = now, inbox' = inbox, gap' = gap, gaps' = gaps PROVE Recorded'
  BY Zenon, <1>0 DEF Recorded
<1>1. CASE Tick
  BY SMTT(30), <1>1 DEF Tick, registry, clients, Recorded, TypeOK
<1>2. ASSUME NEW s \in Sources, Receive(s) PROVE Recorded'
  <2>1. inbox' = [inbox EXCEPT ![s] = Append(@, now)] /\ UNCHANGED <<now, gap, gaps>>
    BY <1>2 DEF Receive, registry
  <2>2. ASSUME NEW q \in Sources, NEW i \in 1..Len(inbox'[q]) PROVE inbox'[q][i] > 0
    <3>1. inbox[q] \in Seq(Nat)
      BY DEF TypeOK
    <3> QED  BY SMTT(30), <2>1, <2>2, <3>1 DEF Recorded, TypeOK
  <2> QED  BY <2>1, <2>2 DEF Recorded
<1>3. ASSUME NEW s \in Sources, FinishNotification(s) PROVE Recorded'
  <2>1. /\ inbox' = [inbox EXCEPT ![s] = Tail(@)] /\ inbox[s] # << >>
        /\ UNCHANGED <<now, gap, gaps>>
    BY <1>3 DEF FinishNotification, Running
  <2>2. ASSUME NEW q \in Sources, NEW i \in 1..Len(inbox'[q]) PROVE inbox'[q][i] > 0
    <3>1. inbox[q] \in Seq(Nat)
      BY DEF TypeOK
    <3> QED  BY SMTT(30), <2>1, <2>2, <3>1 DEF Recorded, TypeOK
  <2> QED  BY <2>1, <2>2 DEF Recorded
<1>4. ASSUME NEW s \in Sources, NEW p \in Sources, RecordSourceCoverageGap(s, p)
      PROVE  Recorded'
  BY <1>4 DEF RecordSourceCoverageGap, clients, Recorded, TypeOK
<1>5. ASSUME NEW s \in Sources, NEW x \in Targets, AdmitMatchingToken(s, x) \/ ProvisionTarget(s, x)
      PROVE  Recorded'
  <2>1. UNCHANGED <<now, inbox, gap, gaps>>
    BY Zenon, <1>5 DEF AdmitMatchingToken, ProvisionTarget
  <2> QED  BY <1>0, <2>1
<1>6. CASE UNCHANGED <<now, inbox, progress, gap, gaps, next>>
  BY <1>0, <1>6
<1> QED  BY Zenon, Next, <1>1, <1>2, <1>3, <1>4, <1>5, <1>6, NotCollector
         DEF Next, CollectorNext, CancelSourceConfirmed, CancelAllConfirmed

-----------------------------------------------------------------------------

Keeps(a, b) == b.claimed = a.claimed /\ b.finalized = a.finalized

\* Only two operations set a reason; none claims or finalizes.
LEMMA OperationsKeep ==
    ASSUME NEW tk \in Token
    PROVE  /\ \A b \in {tk, [Confirm(tk) EXCEPT !.durable = TRUE], CancelIfPending(tk),
                        MarkAdmitted(tk), MarkSettled(tk), MarkSettled(CancelIfPending(tk))} :
                 Keeps(tk, b) /\ b.incomplete = tk.incomplete
           /\ \A b \in {MarkIncomplete(tk), CancelWithReason(tk),
                        MarkIncomplete(CancelWithReason(tk))} : Keeps(tk, b)
           /\ CancelWithReason(tk).incomplete => tk.incomplete \/ tk.state = "confirmed"
<1> USE DEF Keeps, Token
<1> DEFINE Clean(b) == Keeps(tk, b) /\ b.incomplete = tk.incomplete
<1>1. Clean(tk) /\ Clean([Confirm(tk) EXCEPT !.durable = TRUE])
  BY DEF Confirm
<1>2. Clean(CancelIfPending(tk))
  BY DEF CancelIfPending
<1>3. Clean(MarkAdmitted(tk)) /\ Clean(MarkSettled(tk))
  BY DEF MarkAdmitted, MarkSettled
<1>4. Clean(MarkSettled(CancelIfPending(tk)))
  BY DEF CancelIfPending, MarkSettled
<1>5. Keeps(tk, MarkIncomplete(tk)) /\ Keeps(tk, CancelWithReason(tk))
  BY DEF CancelIfPending, MarkIncomplete, CancelWithReason
<1>6. Keeps(tk, MarkIncomplete(CancelWithReason(tk)))
  BY DEF CancelIfPending, MarkIncomplete, CancelWithReason
<1>7. CancelWithReason(tk).incomplete => tk.incomplete \/ tk.state = "confirmed"
  BY DEF CancelIfPending, MarkIncomplete, CancelWithReason
<1> QED  BY Zenon, <1>1, <1>2, <1>3, <1>4, <1>5, <1>6, <1>7

\* What a step outside the finalizer does to a window that exists: it leaves the
\* claim alone, and a reason it adds has been noted as a doubt.
Caused(g) ==
    /\ Keeps(tok[g], tok'[g])
    /\ tok'[g].incomplete => tok[g].incomplete \/ g \in doubted'

\* After a step outside the finalizer, what a generation is blamed for has a cause.
LEMMA CauseStep ==
    ASSUME TypeInv, Linked, Unclosed, Next, ~FinalizerNext,
           NEW g \in Generations, next' = next \/ g # next
    PROVE  Caused(g) /\ doubted \subseteq doubted'
<1> USE DEF TypeInv
<1>0. tok \in [Generations -> Token] /\ tok[g] \in Token
  BY DEF TypeOK
<1>1. CASE tok' = tok /\ doubted' = doubted
  BY <1>1 DEF Caused, Keeps
<1>2. CASE Tick
  BY <1>1, <1>2 DEF Tick, registry
<1>3. ASSUME NEW s \in Sources, CollectorNext(s) PROVE Caused(g) /\ doubted \subseteq doubted'
  <2>1. CASE Receive(s) \/ FinishNotification(s)
    BY <1>1, <2>1 DEF Receive, FinishNotification, registry
  <2>2. ASSUME NEW p \in Sources, RecordSourceCoverageGap(s, p)
        PROVE  Caused(g) /\ doubted \subseteq doubted'
    <3>1. /\ doubted' = doubted \cup Covering(Generations, p, Receipt(s))
          /\ tok'[g] = IF g \in Covering(Tracked, p, Receipt(s)) THEN MarkIncomplete(tok[g]) ELSE tok[g]
      BY Zenon, <1>0, <2>2 DEF RecordSourceCoverageGap
    <3>2. g \in Covering(Tracked, p, Receipt(s)) => g \in doubted'
      BY Zenon, <3>1 DEF Covering
    <3> QED  BY ZenonT(30), <1>0, <3>1, <3>2, OperationsKeep DEF Caused
  <2>3. ASSUME NEW x \in Targets, AdmitMatchingToken(s, x)
        PROVE  Caused(g) /\ doubted \subseteq doubted'
    <3>1. tok'[g] = tok[g] \/ tok'[g] = MarkAdmitted(tok[g])
      BY Zenon, <1>0, <2>3 DEF AdmitMatchingToken
    <3>2. doubted' = doubted
      BY <2>3 DEF AdmitMatchingToken
    <3> QED  BY Zenon, <1>0, <3>1, <3>2, OperationsKeep DEF Caused
  <2>4. ASSUME NEW x \in Targets, ProvisionTarget(s, x)
        PROVE  Caused(g) /\ doubted \subseteq doubted'
    <3>1. CASE UNCHANGED <<tok, doubted>>
      BY <1>1, <3>1
    <3>2. ASSUME NEW t, NEW w, NEW evicted, OpenProvisional(x, t, w, evicted)
          PROVE  Caused(g) /\ doubted \subseteq doubted'
      <4> DEFINE victims == {w[y] : y \in evicted}
      <4>0. next' = next + 1 /\ victims \subseteq doubted' /\ doubted \subseteq doubted'
        BY Zenon, <3>2 DEF OpenProvisional
      <4>1. g # next
        BY Zenon, <4>0, NextGeneration
      <4>2. tok'[g] = IF g \in victims THEN CancelWithReason(tok[g]) ELSE tok[g]
        BY Zenon, <1>0, <3>2, <4>1 DEF OpenProvisional
      <4> QED  BY ZenonT(30), <1>0, <4>0, <4>2, OperationsKeep DEF Caused
    <3> QED  BY Zenon, <2>4, <3>1, <3>2 DEF ProvisionTarget
  <2> QED  BY Zenon, <1>3, <2>1, <2>2, <2>3, <2>4 DEF CollectorNext
<1>4. ASSUME NEW h \in Generations, DiscoveryNext(h) PROVE Caused(g) /\ doubted \subseteq doubted'
  <2>1. ASSUME NEW from, NEW to, NEW tk, DiscoveryStep(h, from, to, tk), doubted' = doubted,
               Keeps(tok[h], tk), tk.incomplete = tok[h].incomplete
        PROVE  Caused(g) /\ doubted \subseteq doubted'
    <3>1. tok'[g] = IF g = h THEN tk ELSE tok[g]
      BY Zenon, <1>0, <2>1 DEF DiscoveryStep
    <3> QED  BY Zenon, <1>0, <2>1, <3>1, OperationsKeep DEF Caused
  <2>2. ASSUME NEW from, FailDiscovery(h, from) PROVE Caused(g) /\ doubted \subseteq doubted'
    <3>1. /\ tok'[g] = IF g = h THEN MarkIncomplete(tok[g]) ELSE tok[g]
          /\ doubted' = doubted \cup {h}
      BY Zenon, <1>0, <2>2 DEF FailDiscovery, DiscoveryStep
    <3> QED  BY Zenon, <1>0, <3>1, OperationsKeep DEF Caused
  <2>3. tok[h] \in Token
    BY <1>0
  <2> QED  BY Zenon, <1>4, <2>1, <2>2, <2>3, OperationsKeep
           DEF DiscoveryNext, CancelDiscovery, OpenDurableWindow, ConfirmWindow, DropDiscovery,
               FinishDiscovery
<1>5. ASSUME NEW h \in Generations, ActivityNext(h) PROVE Caused(g) /\ doubted \subseteq doubted'
  <2>1. CASE PersistActivity(h) \/ SettleFailed(h)
    <3>1. (tok'[g] = tok[g] \/ tok'[g] = MarkSettled(tok[g])) /\ doubted' = doubted
      BY Zenon, <1>0, <2>1 DEF PersistActivity, ActivityStep, SettleFailed
    <3> QED  BY Zenon, <1>0, <3>1, OperationsKeep DEF Caused
  <2>2. ASSUME NEW tk, FailActivity(h, tk), Keeps(tok[h], tk)
        PROVE  Caused(g) /\ doubted \subseteq doubted'
    <3>1. tok'[g] = (IF g = h THEN tk ELSE tok[g]) /\ doubted' = doubted \cup {h}
      BY Zenon, <1>0, <2>2 DEF FailActivity, ActivityStep
    <3> QED  BY Zenon, <1>0, <2>2, <3>1, OperationsKeep DEF Caused
  <2>3. tok[h] \in Token
    BY <1>0
  <2> QED  BY Zenon, <1>5, <2>1, <2>2, <2>3, OperationsKeep
           DEF ActivityNext, IncompleteActivity, DropActivity, OverflowActivity
<1>6. ASSUME NEW S, CancelConfirmedMatching(S) PROVE Caused(g) /\ doubted \subseteq doubted'
  <2> DEFINE hit == {x \in MatchingTargets(S) : windows[x] # NoGen}
             active == {windows[x] : x \in hit}
             confirmed == {h \in active : WasConfirmed(tok[h])}
             closed == {h \in Unclaimed(retained) : SourceOf[tok[h].target] \in S}
  <2>1. /\ tok'[g] = IF g \in confirmed \cup closed THEN CancelWithReason(tok[g]) ELSE tok[g]
        /\ doubted' = doubted \cup {h \in Unclaimed(Generations) : SourceOf[tok[h].target] \in S}
    BY Zenon, <1>0, <1>6 DEF CancelConfirmedMatching
  <2>2. ASSUME g \in active, tok[g].state = "confirmed" PROVE g \in doubted'
    <3>1. PICK x \in Targets : SourceOf[x] \in S /\ windows[x] # NoGen /\ g = windows[x]
      BY Zenon, <2>2 DEF MatchingTargets
    <3>2. tok[g].target = x /\ ~tok[g].claimed /\ ~tok[g].finalized
      BY Zenon, <3>1 DEF Linked, Unclosed
    <3> QED  BY Zenon, <2>1, <2>2, <3>1, <3>2 DEF Unclaimed
  <2>3. g \in closed => g \in doubted'
    BY Zenon, <2>1 DEF Unclaimed
  <2> HIDE DEF hit, active, closed
  <2> QED  BY Zenon, Zenon, <1>0, <2>1, <2>2, <2>3, OperationsKeep DEF Caused
<1>7. ASSUME NEW h \in Generations, CancelUnlinked(h) PROVE Caused(g) /\ doubted \subseteq doubted'
  <2>1. (tok'[g] = tok[g] \/ tok'[g] = CancelIfPending(tok[g])) /\ doubted' = doubted
    BY Zenon, <1>0, <1>7 DEF CancelUnlinked
  <2> QED  BY Zenon, <1>0, <2>1, OperationsKeep DEF Caused
<1> QED  BY Zenon, Next, <1>2, <1>3, <1>4, <1>5, <1>6, <1>7
         DEF Next, CancelSourceConfirmed, CancelAllConfirmed

-----------------------------------------------------------------------------

\* Provisioning links the next generation, which is unclaimed and is in doubt if
\* it starts with a reason.  Nothing else enters the map.
LEMMA LinkStep ==
    ASSUME BoundsAssumption, SourceOfAssumption, TypeInv, Birth, Linked, Recorded, Next
    PROVE  /\ \A x \in Targets :
                windows'[x] # NoGen => \/ windows'[x] = windows[x]
                                       \/ next' # next /\ windows'[x] = next
           /\ next' # next => /\ ~tok'[next].claimed /\ ~tok'[next].finalized
                              /\ tok'[next].incomplete => next \in doubted'
           /\ ~FinalizerNext => fin' = fin
<1> USE BoundsAssumption, SourceOfAssumption DEF TypeInv
<1> DEFINE Goal ==
      /\ \A x \in Targets :
           windows'[x] # NoGen => \/ windows'[x] = windows[x]
                                  \/ next' # next /\ windows'[x] = next
      /\ next' # next => /\ ~tok'[next].claimed /\ ~tok'[next].finalized
                         /\ tok'[next].incomplete => next \in doubted'
      /\ ~FinalizerNext => fin' = fin
<1>1. CASE UNCHANGED <<windows, next, fin>>
  BY <1>1
<1>2. CASE Tick
  BY Zenon, <1>1, <1>2 DEF Tick, registry, clients
<1>3. ASSUME NEW s \in Sources, CollectorNext(s) PROVE Goal
  <2>1. CASE Receive(s) \/ FinishNotification(s)
    BY Zenon, <1>1, <2>1 DEF Receive, FinishNotification, registry
  <2>2. ASSUME NEW p \in Sources, RecordSourceCoverageGap(s, p) PROVE Goal
    BY Zenon, <1>1, <2>2 DEF RecordSourceCoverageGap, clients
  <2>3. ASSUME NEW x \in Targets, AdmitMatchingToken(s, x) PROVE Goal
    BY <1>1, <2>3 DEF AdmitMatchingToken
  <2>4. ASSUME NEW x \in Targets, ProvisionTarget(s, x) PROVE Goal
    <3> DEFINE t == Receipt(s)
               w == Rotated(t)
    <3>1. t \in Nat /\ t > 0 /\ fin' = fin
      <4>1. Running(s) /\ RecordSourceProgress(s) /\ fin' = fin /\ gap' = gap
        BY <2>4 DEF ProvisionTarget
      <4>2. t \in Nat
        BY <4>1, RunningTypes
      <4>4. t = inbox[s][1] /\ 1 \in 1..Len(inbox[s])
        BY Zenon, <4>1, RunningReceipt
      <4>5. t > 0
        BY <4>4 DEF Recorded
      <4> QED  BY <4>1, <4>2, <4>5
    <3>2. \A y \in Targets : w[y] # NoGen => w[y] = windows[y]
      BY <3>1, RotationLinked
    <3> HIDE DEF t, w
    <3>3. CASE windows' = w /\ next' = next
      BY Zenon, <3>1, <3>2, <3>3
    <3>4. ASSUME NEW evicted \in Evictions(w), OpenProvisional(x, t, w, evicted) PROVE Goal
      <4>1. /\ windows' = [y \in Targets |->
                            IF y = x THEN next ELSE IF y \in evicted THEN NoGen ELSE w[y]]
            /\ next' = next + 1 /\ next \in Generations
            /\ tok'[next] = NewToken(x, t)
        <5> DEFINE f == [h \in Generations |->
                           IF h = next THEN NewToken(x, t)
                           ELSE IF h \in {w[y] : y \in evicted} THEN CancelWithReason(tok[h])
                           ELSE tok[h]]
        <5>1. /\ next <= MaxGeneration /\ next' = next + 1 /\ tok' = f
              /\ windows' = [y \in Targets |->
                               IF y = x THEN next ELSE IF y \in evicted THEN NoGen ELSE w[y]]
          BY Zenon, <3>4 DEF OpenProvisional
        <5>2. next \in Generations
          BY Zenon, <5>1, NextGeneration
        <5>3. f[next] = NewToken(x, t)
          BY Zenon, <5>2
        <5> HIDE DEF f
        <5> QED  BY Zenon, <5>1, <5>2, <5>3
      <4>2. next' # next
        BY Zenon, <4>1, NextGeneration
      <4>3. \A y \in Targets : windows'[y] # NoGen => windows'[y] = windows[y] \/ windows'[y] = next
        BY Zenon, <3>2, <4>1
      <4>4. ASSUME tok'[next].incomplete PROVE next \in doubted'
        <5> DEFINE b == t <= gap[SourceOf[x]] /\ gap[SourceOf[x]] < t + Duration
        <5>0. NewToken(x, t).incomplete = b
          BY DEF NewToken
        <5> HIDE DEF b
        <5>1. b
          BY <4>1, <4>4, <5>0
        <5> USE DEF b
        <5>2. SourceOf[x] \in Sources /\ gap[SourceOf[x]] \in Nat
          BY DEF TypeOK, SourceOfAssumption
        <5>3. <<SourceOf[x], gap[SourceOf[x]]>> \in gaps
          BY Zenon, <3>1, <5>1, <5>2, Later DEF Recorded
        <5>4. gap[SourceOf[x]] \in t..(t + Duration - 1)
          BY Zenon, <3>1, <5>1, <5>2, IntervalTimes DEF BoundsAssumption
        <5> QED  BY Zenon, <3>4, <5>3, <5>4 DEF OpenProvisional
      <4>5. ~tok'[next].claimed /\ ~tok'[next].finalized
        BY Zenon, <4>1, NewTokenFacts
      <4> QED  BY Zenon, <3>1, <4>2, <4>3, <4>4, <4>5
    <3> QED  BY Zenon, <2>4, <3>3, <3>4 DEF ProvisionTarget, t, w
  <2> QED  BY Zenon, <1>3, <2>1, <2>2, <2>3, <2>4 DEF CollectorNext
<1>4. ASSUME NEW h \in Generations, DiscoveryNext(h) PROVE Goal
  BY SMTT(20), <1>1, <1>4 DEF DiscoveryNext, CancelDiscovery, OpenDurableWindow, ConfirmWindow,
                    DropDiscovery, FinishDiscovery, FailDiscovery, DiscoveryStep
<1>5. ASSUME NEW h \in Generations, ActivityNext(h) \/ CancelUnlinked(h) PROVE Goal
  BY Zenon, <1>1, <1>5 DEF ActivityNext, PersistActivity, IncompleteActivity, DropActivity,
                    OverflowActivity, SettleFailed, FailActivity, ActivityStep, CancelUnlinked,
                    clients
<1>6. ASSUME NEW S, CancelConfirmedMatching(S) PROVE Goal
  <2>1. UNCHANGED <<next, fin>>
    BY Zenon, Zenon, <1>6 DEF CancelConfirmedMatching, clients
  <2>2. \A x \in Targets : windows'[x] # NoGen => windows'[x] = windows[x]
    BY Zenon, <1>6 DEF CancelConfirmedMatching
  <2> QED  BY Zenon, <2>1, <2>2
<1>7. CASE FinalizerNext
  <2>1. next' = next
    BY Zenon, <1>7, NotCollector
  <2>2. windows' = windows \/ (FinalizationCandidates /\ windows' = Rotated(fin.now))
    BY Zenon, <1>7 DEF FinalizerNext, FinalizerTick, FinalizationCandidates, ClaimFinalization,
       CommitFinalization, DeferFinalization, EndAttempt, CleanupFinalized, registry
  <2>3. \A x \in Targets : Rotated(fin.now)[x] # NoGen => Rotated(fin.now)[x] = windows[x]
    BY Zenon, RotationLinked DEF TypeOK, Finalizer
  <2> QED  BY Zenon, <1>7, <2>1, <2>2, <2>3
<1> QED  BY Zenon, Next, <1>2, <1>3, <1>4, <1>5, <1>6, <1>7
         DEF Next, CancelSourceConfirmed, CancelAllConfirmed

\* Claims are taken from the retained list and released by their attempt, so an
\* active window is never claimed or finalized.
LEMMA UnclosedStep ==
    ASSUME BoundsAssumption, SourceOfAssumption, TypeInv, TypeInv', Birth, Linked, Recorded,
           Unclosed, Next
    PROVE  Unclosed'
<1> USE BoundsAssumption, SourceOfAssumption DEF TypeInv
<1>0. tok \in [Generations -> Token] /\ tok' \in [Generations -> Token]
  BY DEF TypeOK
<1>1. ASSUME ~FinalizerNext PROVE Unclosed'
  <2>1. fin' = fin
    BY <1>1, LinkStep
  <2>2. ASSUME NEW x \in Targets, windows'[x] # NoGen
        PROVE  ~tok'[windows'[x]].claimed /\ ~tok'[windows'[x]].finalized
    <3>1. CASE next' # next /\ windows'[x] = next
      BY <3>1, LinkStep
    <3>2. CASE windows'[x] = windows[x]
      <4>1. windows[x] \in Generations /\ windows[x] # next
        BY Zenon, <2>2, <3>2, LinkFacts
      <4>2. Keeps(tok[windows[x]], tok'[windows[x]])
        BY <1>1, <4>1, CauseStep DEF Caused
      <4> QED  BY Zenon, <2>2, <3>2, <4>2 DEF Keeps, Unclosed
    <3> QED  BY Zenon, <2>2, <3>1, <3>2, LinkStep
  <2>3. ASSUME fin'.stage = "attempting"
        PROVE  tok'[fin'.gen].claimed /\ tok'[fin'.gen].state # "unborn"
    <3>1. fin.gen \in Generations /\ tok[fin.gen].claimed /\ tok[fin.gen].state # "unborn"
      BY <2>1, <2>3 DEF Unclosed
    <3>2. fin.gen # next
      BY Zenon, <3>1, BirthFacts, NextGeneration
    <3>3. Keeps(tok[fin.gen], tok'[fin.gen]) /\ Evolves(tok[fin.gen], tok'[fin.gen])
      BY Zenon, <1>1, <3>1, <3>2, CauseStep, TokenStep DEF Caused
    <3> QED  BY <2>1, <3>1, <3>3 DEF Keeps, Evolves
  <2> QED  BY <2>2, <2>3 DEF Unclosed
<1>2. ASSUME FinalizerNext PROVE Unclosed'
  <2>1. \A x \in Targets : windows'[x] # NoGen =>
           windows'[x] = windows[x] /\ windows[x] \in Generations /\ windows[x] \notin retained
    <3>1. next' = next
      BY Zenon, <1>2, NotCollector
    <3> QED  BY Zenon, <3>1, LinkStep DEF Linked, TypeOK
  <2>2. CASE FinalizerTick \/ FinalizationCandidates \/ CleanupFinalized
    <3>1. tok' = tok
      BY <2>2 DEF FinalizerTick, FinalizationCandidates, CleanupFinalized, registry
    <3>2. fin'.stage # "attempting"
      BY Zenon, <2>2 DEF FinalizerTick, FinalizationCandidates, CleanupFinalized, IdleFinalizer,
                  TypeOK, Finalizer
    <3> QED  BY <2>1, <3>1, <3>2 DEF Unclosed
  <2>3. ASSUME NEW g \in Generations, ClaimFinalization(g) PROVE Unclosed'
    <3>1. CASE tok' = tok /\ fin'.stage = "claiming"
      BY Zenon, <2>1, <3>1 DEF Unclosed
    <3>2. CASE /\ Claimable(g) /\ tok' = [tok EXCEPT ![g].claimed = TRUE]
               /\ fin'.gen = g
      <4>1. g \in retained /\ WasConfirmed(tok[g])
        BY <3>2 DEF Claimable, Eligible
      <4>2. /\ tok'[g].claimed /\ tok'[g].state = tok[g].state
            /\ \A h \in Generations : h # g => tok'[h] = tok[h]
        BY SMTT(30), <1>0, <3>2 DEF Token
      <4> QED  BY SMTT(30), <2>1, <3>2, <4>1, <4>2 DEF Unclosed, WasConfirmed
    <3>3. fin \in Finalizer
      BY DEF TypeOK
    <3>4. \/ tok' = tok /\ fin'.stage = "claiming"
          \/ Claimable(g) /\ tok' = [tok EXCEPT ![g].claimed = TRUE] /\ fin'.gen = g
      BY Zenon, <2>3, <3>3 DEF ClaimFinalization, Finalizer
    <3> QED  BY <3>1, <3>2, <3>4
  <2>4. CASE CommitFinalization \/ DeferFinalization
    <3>1. fin.gen \in Generations /\ tok[fin.gen].claimed
      BY <2>4 DEF CommitFinalization, DeferFinalization, EndAttempt, Unclosed
    <3>2. fin'.stage # "attempting" /\ \A h \in Generations : h # fin.gen => tok'[h] = tok[h]
      BY Zenon, <1>0, <2>4 DEF CommitFinalization, DeferFinalization, EndAttempt, TypeOK, Finalizer
    <3>3. windows' = windows
      BY <2>4 DEF CommitFinalization, DeferFinalization, EndAttempt
    <3>4. \A x \in Targets : windows[x] # NoGen => windows[x] # fin.gen
      BY <3>1 DEF Unclosed
    <3> QED  BY Zenon, <2>1, <3>2, <3>3, <3>4 DEF Unclosed
  <2> QED  BY Zenon, Zenon, <1>2, <2>2, <2>3, <2>4 DEF FinalizerNext
<1> QED  BY Zenon, <1>1, <1>2

\* A reason that a step adds is noted as a doubt of the same window.
LEMMA ReasonStep ==
    ASSUME BoundsAssumption, SourceOfAssumption, TypeInv, TypeInv', Birth, Linked, Recorded,
           Unclosed, IncompletenessHasCause, Next
    PROVE  IncompletenessHasCause'
<1> USE BoundsAssumption, SourceOfAssumption DEF TypeInv
<1> SUFFICES ASSUME NEW g \in Generations, tok'[g].incomplete PROVE g \in doubted'
  BY DEF IncompletenessHasCause
<1>0. tok \in [Generations -> Token]
  BY DEF TypeOK
<1>1. CASE next' # next /\ g = next
  BY Zenon, <1>1, LinkStep
<1>2. CASE ~FinalizerNext /\ ~(next' # next /\ g = next)
  <2>1. Caused(g) /\ doubted \subseteq doubted'
    BY <1>2, CauseStep
  <2> QED  BY Zenon, <2>1 DEF Caused, IncompletenessHasCause
<1>3. CASE FinalizerNext
  <2>1. doubted' = doubted
    BY Zenon, <1>3 DEF FinalizerNext, FinalizerTick, FinalizationCandidates, ClaimFinalization,
       CommitFinalization, DeferFinalization, EndAttempt, CleanupFinalized
  <2>2. tok'[g].incomplete = tok[g].incomplete
    <3>1. CASE tok' = tok
      BY Zenon, <3>1
    <3>2. ASSUME NEW h \in Generations, tok' = [tok EXCEPT ![h].claimed = TRUE]
          PROVE  tok'[g].incomplete = tok[g].incomplete
      BY Zenon, <1>0, <3>2 DEF Token
    <3>3. CASE CommitFinalization \/ DeferFinalization
      <4>1. fin.gen \in Generations
        BY <3>3 DEF CommitFinalization, DeferFinalization, EndAttempt
      <4>2. tok[g] \in Token
        BY <1>0
      <4>3. \/ tok'[g] = tok[g] \/ tok'[g] = [tok[g] EXCEPT !.claimed = FALSE]
            \/ tok'[g] = [tok[g] EXCEPT !.finalized = TRUE, !.claimed = FALSE]
        BY ZenonT(30), <1>0, <3>3, <4>1 DEF CommitFinalization, DeferFinalization, EndAttempt
      <4> DEFINE released == [tok[g] EXCEPT !.claimed = FALSE]
                 committed == [tok[g] EXCEPT !.finalized = TRUE, !.claimed = FALSE]
      <4>4. released.incomplete = tok[g].incomplete /\ committed.incomplete = tok[g].incomplete
        BY <4>2 DEF Token
      <4>5. tok'[g] = tok[g] \/ tok'[g] = released \/ tok'[g] = committed
        BY <4>3
      <4> HIDE DEF released, committed
      <4> QED  BY Zenon, <4>4, <4>5
    <3> QED  BY Zenon, <1>3, <3>1, <3>2, <3>3 DEF FinalizerNext, FinalizerTick,
                FinalizationCandidates, ClaimFinalization, CleanupFinalized, registry
  <2> QED  BY <2>1, <2>2 DEF IncompletenessHasCause
<1> QED  BY <1>1, <1>2, <1>3

\* A gap, a disconnect or a failure costs only the windows it concerns their
\* completeness: provision_target, record_source_coverage_gap, the guards and
\* cancel_confirmed_matching reach no window of another source or batch.
THEOREM OwnCause == Spec => []IncompletenessHasCause
<1> USE TargetsAssumption, BoundsAssumption, SourceOfAssumption
<1>1. Init => CauseInv
  <2>1. ASSUME Init PROVE Recorded
    BY SMTT(30), <2>1 DEF Init, Recorded, NoTime
  <2>2. ASSUME Init PROVE Unclosed
    BY <2>2 DEF Init, Unclosed, IdleFinalizer
  <2>3. ASSUME Init PROVE IncompletenessHasCause
    BY <2>3 DEF Init, IncompletenessHasCause, UnbornToken
  <2> QED  BY <2>1, <2>2, <2>3 DEF CauseInv
<1>2. IInv /\ IInv' /\ CauseInv /\ [Next]_vars => CauseInv'
  <2>1. ASSUME IInv, IInv', CauseInv, Next PROVE CauseInv'
    BY <2>1, RecordedStep, UnclosedStep, ReasonStep DEF IInv, CauseInv
  <2>2. ASSUME CauseInv, UNCHANGED vars PROVE CauseInv'
    BY Zenon, <2>2 DEF CauseInv, Recorded, Unclosed, IncompletenessHasCause, vars, registry, clients
  <2> QED  BY <2>1, <2>2
<1>3. CauseInv => IncompletenessHasCause
  BY DEF CauseInv
<1> QED  BY <1>1, <1>2, <1>3, Invariance, PTL DEF Spec

=============================================================================

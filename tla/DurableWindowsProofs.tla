----------------------- MODULE DurableWindowsProofs -----------------------
(***************************************************************************)
(* Proofs about durable windows, for any windows, facts and number of      *)
(* pipeline attempts.                                                      *)
(***************************************************************************)
EXTENDS DurableWindows, FiniteSetTheorems, TLAPS

Held == {"QUEUED"} \cup Terminal

\* What a window holds are facts of its own, whose rows still exist.
MembersAreHeld ==
    \A w \in Windows : \A o \in member[w] : Fact[o].window = w /\ facts[o].status \in Held

\* An active window holds every fact of its own that was ever stored.
ActiveHoldsAll ==
    \A o \in Facts :
        (win[Fact[o].window].status = "ACTIVE" /\ facts[o].status # "ABSENT")
        => o \in member[Fact[o].window]

UnopenedHasNoFacts ==
    \A o \in Facts : win[Fact[o].window].status = "ABSENT" => facts[o].status = "ABSENT"

UndecidedHasNone ==
    \A w \in Windows : win[w].status # "FINALIZED" => win[w].decision = "none"

InHand == fin.pc # "idle" => fin.window \in Windows

\* The invariant the theorems rest on.
WindowInv ==
    /\ TypeOK
    /\ MembersAreHeld
    /\ ActiveHoldsAll
    /\ UnopenedHasNoFacts
    /\ UndecidedHasNone
    /\ InHand

-----------------------------------------------------------------------------

\* Evaluation always decides.
LEMMA EvaluateDecides ==
  ASSUME NEW evidence, NEW reason
  PROVE  Evaluate(evidence, reason) \in Decisions
  BY DEF Evaluate, Decisions

\* Both commits of a verdict write the same.
Finalize ==
    /\ Finalizable
    /\ CommitVerdict(fin.window, fin.reason, fin.evidence)
    /\ fin' = Idle
    /\ UNCHANGED <<run, settled>>
    /\ phase' \in {phase, "down"}

\* Steps that write neither windows nor facts nor candidates.
Aside ==
    /\ UNCHANGED database
    /\ run' \in 0..MaxRuns
    /\ phase' \in {"down", "running", "draining"}
    /\ settled' \subseteq Windows
    /\ fin' \in Finalizer
    /\ InHand'

\* The steps of the system by what they write.
LEMMA StepKinds ==
  ASSUME TypeOK, InHand, Next
  PROVE  \/ Aside
         \/ \E w \in Windows : OpenDiscoveryWindow(w)
         \/ \E o \in Facts : FactStep(o)
         \/ Finalize
<1> USE DEF TypeOK, database
<1>1. ASSUME NEW w \in Windows, WindowStep(w)
      PROVE  Aside \/ OpenDiscoveryWindow(w)
  <2>1. CASE ReplayOpening(w)
    BY <2>1 DEF ReplayOpening, Aside, vars, attempt, InHand
  <2>2. CASE Settle(w)
    BY <2>2 DEF Settle, Aside, InHand
  <2>3. ASSUME NEW reason \in Reasons, AttemptFinalizeWindow(w, reason)
        PROVE  Aside
    <3>1. fin' \in Finalizer /\ InHand'
      BY <2>3 DEF AttemptFinalizeWindow, Finalizer, TerminalIncompleteReason, Reasons,
                  Evidence, InHand
    <3> QED  BY <2>3, <3>1 DEF AttemptFinalizeWindow, Aside
  <2> QED  BY <1>1, <2>1, <2>2, <2>3 DEF WindowStep
<1>2. CASE LoadDiscoveryWindow
  <2>1. Stored(fin.window) \in Evidence
    BY <1>2 DEF LoadDiscoveryWindow, InHand, Stored, Evidence, FactRow
  <2>2. fin' \in Finalizer /\ InHand'
    BY Zenon, <1>2, <2>1 DEF LoadDiscoveryWindow, Finalizer, InHand
  <2> QED  BY <1>2, <2>2 DEF LoadDiscoveryWindow, Aside
<1>3. Idle \in Finalizer /\ Idle.pc = "idle"
  BY DEF Idle, Finalizer, Evidence, Reasons
<1>4. CASE DeferFinalization \/ FinalizationError \/ Crash
  BY <1>3, <1>4 DEF DeferFinalization, FinalizationError, Crash, Aside, InHand
<1>5. CASE StartRun
  BY <1>3, <1>5, RunsAssumption DEF StartRun, Aside, InHand
<1>6. CASE StopRun \/ DrainShutdown
  BY <1>6 DEF StopRun, DrainShutdown, Aside, InHand
<1>7. CASE FinalizeDiscoveryWindow \/ FinalizeUnacknowledged
  BY <1>7 DEF FinalizeDiscoveryWindow, FinalizeUnacknowledged, Finalize
<1> QED  BY <1>1, <1>2, <1>4, <1>5, <1>6, <1>7 DEF Next, FinalizerStep, RunStep

\* What the steps write to one row is a row.
LEMMA FactUpdates ==
  ASSUME NEW f \in FactRow
  PROVE  /\ [f EXCEPT !.early = TRUE] \in FactRow
         /\ \A s \in Held \cup {"PRUNED"} : [f EXCEPT !.status = s] \in FactRow
  BY Zenon DEF FactRow, Held, Terminal

\* What opening and deciding leave in the row of a window.
LEMMA WindowUpdates ==
  ASSUME NEW r \in WindowRow, NEW n \in 0..MaxRuns, NEW reason \in Reasons,
         NEW d \in Decisions, NEW evidence \in Evidence
  PROVE  /\ [r EXCEPT !.status = "ACTIVE", !.run = n] \in WindowRow
         /\ [r EXCEPT !.status = "FINALIZED", !.reason = reason, !.decision = d,
                      !.snapshot = evidence] \in WindowRow
  BY Zenon DEF WindowRow

\* What a decision leaves in the row of a candidate.
LEMMA TokenUpdates ==
  ASSUME NEW t \in TokenRow, NEW w \in Windows, NEW d
  PROVE  /\ [t EXCEPT !.source = NoFact] \in TokenRow
         /\ DecidedToken(t, w, d) \in TokenRow
<1>1. [t EXCEPT !.source = NoFact] \in TokenRow
  BY Zenon DEF TokenRow
<1>2. ASSUME NEW s \in {"OBSERVED", "QUALIFIED"}, NEW v \in Windows \cup {NoWindow}
      PROVE  [t EXCEPT !.stage = s, !.by = v] \in TokenRow
  BY Zenon DEF TokenRow
<1>3. DecidedToken(t, w, d) \in TokenRow
  BY Zenon, <1>2 DEF DecidedToken
<1> QED  BY <1>1, <1>3

\* The counters stay numbers.
LEMMA CounterUpdates ==
  ASSUME counters \in Counters, NEW d, NEW was, NEW now
  PROVE  /\ [counters EXCEPT !.qualification_pending = @ + 1] \in Counters
         /\ [counters EXCEPT !.qualified = Less(@, 1)] \in Counters
         /\ CountDecision(d, was, now) \in Counters
<1>1. \A n \in Nat : n + 1 \in Nat /\ Less(n, 1) \in Nat
  BY DEF Less
<1>2. ASSUME NEW a \in Nat, NEW b \in Nat, NEW c \in Nat, NEW q \in Nat
      PROVE  [counters EXCEPT !.qualification_pending = a, !.qualification_rejected = b,
                              !.qualification_unknown = c, !.qualified = q] \in Counters
  BY Zenon DEF Counters
<1>3. /\ counters.qualification_pending \in Nat /\ counters.qualification_rejected \in Nat
      /\ counters.qualification_unknown \in Nat /\ counters.qualified \in Nat
  BY DEF Counters
<1>4. Less(counters.qualified + (IF now THEN 1 ELSE 0), IF was THEN 1 ELSE 0) \in Nat
  BY SMTT(20), <1>3 DEF Less
<1>5. CountDecision(d, was, now) \in Counters
  BY Zenon, <1>1, <1>2, <1>3, <1>4 DEF CountDecision
<1>6. [counters EXCEPT !.qualification_pending = @ + 1] \in Counters
  BY <1>1, <1>3 DEF Counters
<1>7. [counters EXCEPT !.qualified = Less(@, 1)] \in Counters
  BY <1>1, <1>3 DEF Counters
<1> QED  BY <1>5, <1>6, <1>7

\* Types are kept by every step.
LEMMA TypeStep ==
  ASSUME TypeOK, InHand, Next
  PROVE  TypeOK' /\ InHand'
<1> USE WindowsAssumption, WindowFactsAssumption, RunsAssumption
<1>1. CASE Aside
  BY <1>1 DEF Aside, TypeOK, database
<1>2. ASSUME NEW w \in Windows, OpenDiscoveryWindow(w)
      PROVE  TypeOK' /\ InHand'
  <2>1. facts' \in [Facts -> FactRow]
    BY Zenon, <1>2, FactUpdates DEF OpenDiscoveryWindow, TypeOK, Held
  <2>2. win' \in [Windows -> WindowRow]
    BY ZenonT(30), <1>2, WindowUpdates DEF OpenDiscoveryWindow, TypeOK, Reasons, Decisions, Evidence
  <2>3. counters' \in Counters
    BY <1>2 DEF OpenDiscoveryWindow, TypeOK, Counters
  <2> QED  BY <1>2, <2>1, <2>2, <2>3 DEF OpenDiscoveryWindow, TypeOK, attempt, InHand
<1>3. ASSUME NEW o \in Facts, FactStep(o)
      PROVE  TypeOK' /\ InHand'
  <2>1. facts' \in [Facts -> FactRow]
    <3>1. \/ UNCHANGED facts
          \/ facts' = [facts EXCEPT ![o] = [facts[o] EXCEPT !.early = TRUE]]
          \/ \E s \in Held \cup {"PRUNED"} :
                facts' = [facts EXCEPT ![o] = [facts[o] EXCEPT !.status = s]]
      BY Zenon, <1>3 DEF FactStep, InsertWindowObservation, ReplayWindowObservation, ProjectFact,
                  FailFact, PruneRetainedHistory, Held, Terminal
    <3>2. UNCHANGED facts \/ \E row \in FactRow : facts' = [facts EXCEPT ![o] = row]
      <4>1. facts[o] \in FactRow
        BY DEF TypeOK
      <4> QED  BY Zenon, <3>1, <4>1, FactUpdates
    <3> QED  BY <3>2 DEF TypeOK
  <2>2. member' \in [Windows -> SUBSET Facts]
    <3>1. \/ UNCHANGED member
          \/ member' = [member EXCEPT ![Fact[o].window] = @ \cup {o}]
          \/ member' = [w \in Windows |-> member[w] \ {o}]
      BY Zenon, <1>3 DEF FactStep, InsertWindowObservation, ReplayWindowObservation, ProjectFact,
                  FailFact, PruneRetainedHistory
    <3> QED  BY SMTT(20), <3>1 DEF TypeOK
  <2>3. token' \in [Mints -> TokenRow] /\ counters' \in Counters
    <3>1. CASE ProjectFact(o)
      BY <3>1 DEF ProjectFact, TypeOK, TokenRow, Counters, Less, NoWindow
    <3>2. CASE PruneRetainedHistory(o)
      BY ZenonT(30), <3>2, TokenUpdates DEF PruneRetainedHistory, TypeOK
    <3> QED  BY SMTT(20), <1>3, <3>1, <3>2 DEF FactStep, InsertWindowObservation, ReplayWindowObservation,
                                     FailFact, TypeOK
  <2>4. phase' \in {phase, "draining"} /\ UNCHANGED <<win, run, settled, fin>>
    BY <1>3 DEF FactStep, InsertWindowObservation, ReplayWindowObservation, ProjectFact, FailFact,
                PruneRetainedHistory, attempt
  <2> QED  BY <2>1, <2>2, <2>3, <2>4 DEF TypeOK, InHand
<1>4. CASE Finalize
  <2>1. fin.window \in Windows /\ fin.reason \in Reasons /\ fin.evidence \in Evidence
    BY SMTT(20), <1>4 DEF Finalize, Finalizable, TypeOK, Finalizer, InHand
  <2>2. win' \in [Windows -> WindowRow]
    BY ZenonT(30), <1>4, <2>1, EvaluateDecides, WindowUpdates DEF Finalize, CommitVerdict, TypeOK
  <2>3. token' \in [Mints -> TokenRow]
    BY Zenon, <1>4, <2>1, TokenUpdates DEF Finalize, CommitVerdict, TypeOK
  <2>4. counters' \in Counters
    BY <1>4, CounterUpdates DEF Finalize, CommitVerdict, TypeOK
  <2>5. fin' \in Finalizer /\ InHand'
    BY <1>4 DEF Finalize, Idle, Finalizer, Evidence, Reasons, InHand
  <2> QED  BY Zenon, <1>4, <2>2, <2>3, <2>4, <2>5 DEF Finalize, CommitVerdict, TypeOK
<1> QED  BY <1>1, <1>2, <1>3, <1>4, StepKinds

-----------------------------------------------------------------------------

\* What a step on one fact does to the status of the facts and to membership: it
\* admits a fact to an active window, settles its work, or prunes it.
LEMMA FactStepWrites ==
  ASSUME TypeOK, NEW o \in Facts, FactStep(o)
  PROVE  /\ UNCHANGED win
         /\ \A p \in Facts \ {o} : facts'[p] = facts[p]
         /\ \/ /\ win[Fact[o].window].status = "ACTIVE"
               /\ facts[o].status = "ABSENT" /\ facts'[o].status = "QUEUED"
               /\ member' = [member EXCEPT ![Fact[o].window] = @ \cup {o}]
            \/ facts'[o].status = facts[o].status /\ UNCHANGED member
            \/ /\ facts[o].status = "QUEUED" /\ facts'[o].status \in Terminal
               /\ UNCHANGED member
            \/ /\ Prunable(o) /\ facts'[o].status = "PRUNED"
               /\ member' = [w \in Windows |-> member[w] \ {o}]
<1>1. facts[o] \in FactRow /\ facts \in [Facts -> FactRow]
  BY DEF TypeOK
<1>2. CASE InsertWindowObservation(o)
  BY <1>1, <1>2 DEF InsertWindowObservation, FactRow
<1>3. CASE ReplayWindowObservation(o)
  BY SMTT(20), <1>1, <1>3 DEF ReplayWindowObservation, FactRow
<1>4. CASE ProjectFact(o)
  BY <1>1, <1>4 DEF ProjectFact, FactRow, Terminal
<1>5. CASE FailFact(o)
  BY <1>1, <1>5 DEF FailFact, FactRow, Terminal
<1>6. CASE PruneRetainedHistory(o)
  BY <1>1, <1>6 DEF PruneRetainedHistory, FactRow
<1> QED  BY <1>2, <1>3, <1>4, <1>5, <1>6 DEF FactStep

\* Opening a window stores its first fact.
LEMMA OpeningWrites ==
  ASSUME TypeOK, NEW w \in Windows, OpenDiscoveryWindow(w)
  PROVE  /\ win[w].status = "ABSENT" /\ win'[w].status = "ACTIVE"
         /\ win'[w].decision = win[w].decision
         /\ \A v \in Windows \ {w} : win'[v] = win[v]
         /\ facts[Opening[w]].status = "ABSENT" /\ facts'[Opening[w]].status = "QUEUED"
         /\ \A p \in Facts \ {Opening[w]} : facts'[p] = facts[p]
         /\ member' = [member EXCEPT ![w] = {Opening[w]}]
<1> USE WindowFactsAssumption DEF OpenDiscoveryWindow, TypeOK
<1>1. win[w] \in WindowRow /\ facts[Opening[w]] \in FactRow
  BY Zenon
<1>2. /\ win'[w] = [win[w] EXCEPT !.status = "ACTIVE", !.run = run]
      /\ \A v \in Windows \ {w} : win'[v] = win[v]
  OBVIOUS
<1>3. /\ facts'[Opening[w]] = [facts[Opening[w]] EXCEPT !.status = "QUEUED"]
      /\ \A p \in Facts \ {Opening[w]} : facts'[p] = facts[p]
  BY Zenon
<1>4. win'[w].status = "ACTIVE" /\ win'[w].decision = win[w].decision
  BY <1>1, <1>2 DEF WindowRow
<1>5. facts'[Opening[w]].status = "QUEUED"
  BY <1>1, <1>3 DEF FactRow
<1> QED  BY <1>2, <1>3, <1>4, <1>5

\* A verdict writes one window, and no facts.
LEMMA VerdictWrites ==
  ASSUME TypeOK, InHand, Finalize
  PROVE  /\ fin.window \in Windows /\ win[fin.window].status = "ACTIVE"
         /\ Refusal(fin) = "nothing"
         /\ win'[fin.window].status = "FINALIZED"
         /\ win'[fin.window].decision = Evaluate(fin.evidence, fin.reason)
         /\ win'[fin.window].reason = fin.reason
         /\ win'[fin.window].snapshot = fin.evidence
         /\ \A v \in Windows \ {fin.window} : win'[v] = win[v]
         /\ UNCHANGED <<facts, member>>
<1>1. fin.window \in Windows /\ win[fin.window].status = "ACTIVE" /\ Refusal(fin) = "nothing"
  BY SMTT(20) DEF Finalize, Finalizable, InHand
<1>2. /\ win'[fin.window] = [win[fin.window] EXCEPT
                                !.status = "FINALIZED", !.reason = fin.reason,
                                !.decision = Evaluate(fin.evidence, fin.reason),
                                !.snapshot = fin.evidence]
      /\ \A v \in Windows \ {fin.window} : win'[v] = win[v]
      /\ UNCHANGED <<facts, member>>
  BY Zenon, <1>1 DEF Finalize, CommitVerdict, TypeOK
<1>3. win[fin.window] \in WindowRow
  BY <1>1 DEF TypeOK
<1>4. /\ win'[fin.window].status = "FINALIZED"
      /\ win'[fin.window].decision = Evaluate(fin.evidence, fin.reason)
      /\ win'[fin.window].reason = fin.reason
      /\ win'[fin.window].snapshot = fin.evidence
  BY <1>2, <1>3 DEF WindowRow
<1> QED  BY <1>1, <1>2, <1>4

\* A step that is none of these leaves the rows alone.
LEMMA MembershipStep ==
  ASSUME WindowInv, Next
  PROVE  WindowInv'
<1> USE WindowFactsAssumption DEF WindowInv
<1>0. member \in [Windows -> SUBSET Facts]
  BY DEF TypeOK
<1>1. TypeOK' /\ InHand'
  BY TypeStep
<1>2. CASE Aside
  BY <1>1, <1>2 DEF Aside, database, MembersAreHeld, ActiveHoldsAll, UnopenedHasNoFacts,
                    UndecidedHasNone
<1>3. ASSUME NEW w \in Windows, OpenDiscoveryWindow(w)
      PROVE  WindowInv'
  <2>1. MembersAreHeld'
    <3> SUFFICES ASSUME NEW v \in Windows, NEW p \in member'[v]
                 PROVE  Fact[p].window = v /\ facts'[p].status \in Held
      BY DEF MembersAreHeld
    <3>1. CASE v = w
      <4>1. p = Opening[w]
        BY <1>3, <1>0, <3>1, OpeningWrites
      <4> QED  BY <1>3, <3>1, <4>1, OpeningWrites DEF Held
    <3>2. CASE v # w
      <4>1. p \in member[v]
        BY <1>3, <1>0, <3>2, OpeningWrites
      <4>2. p \in Facts /\ Fact[p].window = v /\ facts[p].status \in Held
        BY <1>0, <4>1 DEF MembersAreHeld
      <4>3. p # Opening[w]
        BY <3>2, <4>2
      <4> QED  BY <1>3, <4>2, <4>3, OpeningWrites
    <3> QED  BY <3>1, <3>2
  <2>2. ActiveHoldsAll'
    <3> SUFFICES ASSUME NEW p \in Facts, win'[Fact[p].window].status = "ACTIVE",
                        facts'[p].status # "ABSENT"
                 PROVE  p \in member'[Fact[p].window]
      BY DEF ActiveHoldsAll
    <3>1. CASE Fact[p].window = w
      <4>1. facts[p].status = "ABSENT"
        BY <1>3, <3>1, OpeningWrites DEF UnopenedHasNoFacts
      <4>2. p = Opening[w]
        BY <1>3, <4>1, OpeningWrites
      <4> QED  BY <1>3, <3>1, <4>2, OpeningWrites DEF TypeOK
    <3>2. CASE Fact[p].window # w
      <4>1. Fact[p].window \in Windows \ {w} /\ p # Opening[w]
        BY <3>2
      <4>2. win'[Fact[p].window] = win[Fact[p].window] /\ facts'[p] = facts[p]
        BY <1>3, <4>1, OpeningWrites
      <4>3. member'[Fact[p].window] = member[Fact[p].window]
        BY <1>3, <4>1, OpeningWrites DEF TypeOK
      <4> QED  BY <4>2, <4>3 DEF ActiveHoldsAll
    <3> QED  BY <3>1, <3>2
  <2>3. UnopenedHasNoFacts'
    BY <1>3, OpeningWrites DEF UnopenedHasNoFacts, TypeOK
  <2>4. UndecidedHasNone'
    BY <1>3, OpeningWrites DEF UndecidedHasNone
  <2> QED  BY <1>1, <2>1, <2>2, <2>3, <2>4
<1>4. ASSUME NEW o \in Facts, FactStep(o)
      PROVE  WindowInv'
  <2>1. MembersAreHeld'
    <3> SUFFICES ASSUME NEW v \in Windows, NEW p \in member'[v]
                 PROVE  Fact[p].window = v /\ facts'[p].status \in Held
      BY DEF MembersAreHeld
    <3>1. CASE p \in member[v]
      <4>1. p \in Facts /\ Fact[p].window = v /\ facts[p].status \in Held
        BY <1>0, <3>1 DEF MembersAreHeld
      <4>2. p = o => facts'[o].status \in Held
        BY <1>4, <1>0, <4>1, FactStepWrites DEF Held, Terminal
      <4> QED  BY <1>4, <4>1, <4>2, FactStepWrites
    <3>2. CASE p \notin member[v]
      <4>1. p = o /\ v = Fact[o].window /\ facts'[o].status = "QUEUED"
        BY <1>4, <1>0, <3>2, FactStepWrites
      <4> QED  BY <4>1 DEF Held
    <3> QED  BY <3>1, <3>2
  <2>2. ActiveHoldsAll'
    <3> SUFFICES ASSUME NEW p \in Facts, win'[Fact[p].window].status = "ACTIVE",
                        facts'[p].status # "ABSENT"
                 PROVE  p \in member'[Fact[p].window]
      BY DEF ActiveHoldsAll
    <3>1. win[Fact[p].window].status = "ACTIVE"
      BY Zenon, <1>4, FactStepWrites
    <3>2. CASE p = o
      BY <1>4, <3>1, <3>2, FactStepWrites DEF ActiveHoldsAll, Prunable, Terminal, TypeOK
    <3>3. CASE p # o
      <4>1. facts'[p] = facts[p]
        BY <1>4, <3>3, FactStepWrites
      <4>2. p \in member[Fact[p].window]
        BY Zenon, <3>1, <4>1 DEF ActiveHoldsAll
      <4> QED  BY <1>0, <1>4, <3>3, <4>2, FactStepWrites
    <3> QED  BY <3>2, <3>3
  <2>3. UnopenedHasNoFacts'
    BY <1>4, FactStepWrites DEF UnopenedHasNoFacts, Prunable, Terminal, TypeOK
  <2>4. UndecidedHasNone'
    BY <1>4, FactStepWrites DEF UndecidedHasNone
  <2> QED  BY <1>1, <2>1, <2>2, <2>3, <2>4
<1>5. CASE Finalize
  BY <1>1, <1>5, VerdictWrites
     DEF MembersAreHeld, ActiveHoldsAll, UnopenedHasNoFacts, UndecidedHasNone
<1> QED  BY <1>2, <1>3, <1>4, <1>5, StepKinds

-----------------------------------------------------------------------------

\* Nothing is stored at first.
LEMMA WindowInvInit == Init => WindowInv
<1> SUFFICES ASSUME Init PROVE WindowInv
  OBVIOUS
<1> USE WindowFactsAssumption, RunsAssumption DEF Init
<1>1. TypeOK
  <2>1. facts \in [Facts -> FactRow] /\ counters \in Counters /\ fin \in Finalizer
    BY DEF FactRow, Counters, Finalizer, Idle, Reasons, Evidence
  <2>2. win \in [Windows -> WindowRow]
    BY DEF WindowRow, NoRun, Reasons, Evidence
  <2>3. token \in [Mints -> TokenRow]
    BY DEF TokenRow, NoWindow, NoFact
  <2> QED  BY <2>1, <2>2, <2>3 DEF TypeOK, NoRun
<1> QED  BY <1>1 DEF WindowInv, MembersAreHeld, ActiveHoldsAll, UnopenedHasNoFacts,
                     UndecidedHasNone, InHand, Idle

\* Steps that change nothing keep the invariant.
LEMMA WindowInvStutters == WindowInv /\ UNCHANGED vars => WindowInv'
  BY DEF WindowInv, TypeOK, MembersAreHeld, ActiveHoldsAll, UnopenedHasNoFacts,
         UndecidedHasNone, InHand, vars, database, attempt

\* The invariant holds in every state.
LEMMA WindowInvariant == Spec => []WindowInv
  BY WindowInvInit, MembershipStep, WindowInvStutters, PTL DEF Spec

\* Retention never takes evidence from an undecided window: pruning asks every
\* window that holds the fact, and an active one holds all that were stored.
THEOREM EvidenceKept == Spec => []ActiveEvidenceKept
<1>1. WindowInv => ActiveEvidenceKept
  BY DEF WindowInv, MembersAreHeld, ActiveHoldsAll, ActiveEvidenceKept, Held, Terminal
<1> QED  BY <1>1, WindowInvariant, PTL

\* A finalized window keeps its verdict and takes no more facts: opening needs
\* an unknown key, a fact and a verdict need an active row.
THEOREM VerdictIsFrozen == Spec => FinalizedIsFrozen
<1> DEFINE Frozen == \A w \in Windows :
              win[w].status = "FINALIZED" => win'[w] = win[w] /\ member'[w] \subseteq member[w]
<1>1. ASSUME WindowInv, Next PROVE Frozen
  <2> SUFFICES ASSUME NEW w \in Windows, win[w].status = "FINALIZED"
               PROVE  win'[w] = win[w] /\ member'[w] \subseteq member[w]
    OBVIOUS
  <2> USE <1>1 DEF WindowInv
  <2>0. member \in [Windows -> SUBSET Facts]
    BY DEF TypeOK
  <2>1. CASE Aside
    BY <2>1 DEF Aside, database
  <2>2. ASSUME NEW v \in Windows, OpenDiscoveryWindow(v)
        PROVE  win'[w] = win[w] /\ member'[w] = member[w]
    BY <2>0, <2>2, OpeningWrites
  <2>3. ASSUME NEW o \in Facts, FactStep(o)
        PROVE  win'[w] = win[w] /\ member'[w] \subseteq member[w]
    BY <2>0, <2>3, FactStepWrites
  <2>4. CASE Finalize
    BY <2>4, VerdictWrites
  <2> QED  BY <2>1, <2>2, <2>3, <2>4, StepKinds
<1>2. WindowInv /\ [Next]_vars => [Frozen]_vars
  BY <1>1
<1> QED  BY <1>2, WindowInvariant, PTL DEF Spec, FinalizedIsFrozen

\* A verdict is about exactly what the database holds when it is committed: the
\* transaction compares the evidence again under the lock of the window.
THEOREM VerdictIsAboutEvidence == Spec => VerdictMatchesEvidence
<1> DEFINE Matches == \A w \in Windows :
              (win[w].status = "ACTIVE" /\ win'[w].status = "FINALIZED")
              => win'[w].snapshot = {<<o, facts'[o].early>> : o \in member'[w]}
<1>1. ASSUME WindowInv, Next PROVE Matches
  <2> SUFFICES ASSUME NEW w \in Windows, win[w].status = "ACTIVE", win'[w].status = "FINALIZED"
               PROVE  win'[w].snapshot = {<<o, facts'[o].early>> : o \in member'[w]}
    OBVIOUS
  <2> USE <1>1 DEF WindowInv
  <2>1. Finalize
    <3>1. ~Aside
      BY DEF Aside, database
    <3>2. ASSUME NEW v \in Windows, OpenDiscoveryWindow(v) PROVE FALSE
      BY <3>2, OpeningWrites
    <3>3. ASSUME NEW o \in Facts, FactStep(o) PROVE FALSE
      BY <3>3, FactStepWrites
    <3> QED  BY <3>1, <3>2, <3>3, StepKinds
  <2>2. w = fin.window /\ win'[w].snapshot = fin.evidence /\ Refusal(fin) = "nothing"
        /\ UNCHANGED <<facts, member>>
    BY <2>1, VerdictWrites
  <2>3. Stored(w) = fin.evidence
    BY <2>2 DEF Refusal
  <2> QED  BY <2>2, <2>3 DEF Stored
<1>2. WindowInv /\ [Next]_vars => [Matches]_vars
  BY <1>1
<1> QED  BY <1>2, WindowInvariant, PTL DEF Spec, VerdictMatchesEvidence

-----------------------------------------------------------------------------

\* A candidate that exists goes on existing.
LEMMA CandidatesStay ==
  ASSUME TypeOK, InHand, Next, NEW m \in Mints, token[m].stage # "ABSENT"
  PROVE  token'[m].stage # "ABSENT"
<1> USE WindowsAssumption, WindowFactsAssumption
<1>0. token \in [Mints -> TokenRow] /\ token[m] \in TokenRow
  BY DEF TypeOK
<1>1. CASE Aside
  BY <1>1 DEF Aside, database
<1>2. ASSUME NEW w \in Windows, OpenDiscoveryWindow(w)
      PROVE  token' = token
  BY <1>2 DEF OpenDiscoveryWindow
<1>3. ASSUME NEW o \in Facts, FactStep(o)
      PROVE  token'[m].stage # "ABSENT"
  <2>1. CASE ProjectFact(o)
    BY <1>0, <2>1 DEF ProjectFact
  <2>2. CASE PruneRetainedHistory(o)
    <3>1. token'[m] = token[m] \/ token'[m] = [token[m] EXCEPT !.source = NoFact]
      BY <2>2 DEF PruneRetainedHistory
    <3> QED  BY <1>0, <3>1 DEF TokenRow
  <2> QED  BY SMTT(20), <1>3, <2>1, <2>2 DEF FactStep, InsertWindowObservation, ReplayWindowObservation,
                                   FailFact
<1>4. CASE Finalize
  <2>1. \/ token'[m] = token[m]
        \/ token'[m] = DecidedToken(token[m], fin.window, Evaluate(fin.evidence, fin.reason))
    BY <1>0, <1>4 DEF Finalize, CommitVerdict, Finalizable
  <2>2. DecidedToken(token[m], fin.window, Evaluate(fin.evidence, fin.reason)).stage # "ABSENT"
    BY <1>0 DEF DecidedToken, TokenRow
  <2> QED  BY SMTT(20), <2>1, <2>2
<1> QED  BY <1>1, <1>2, <1>3, <1>4, StepKinds

\* Work that is settled, or pruned, does not come back; an opening that was
\* projected can only be pruned.
LEMMA SettledStays ==
  ASSUME TypeOK, InHand, Next, NEW p \in Facts
  PROVE  /\ facts[p].status \in Terminal \cup {"PRUNED"}
            => facts'[p].status \in Terminal \cup {"PRUNED"}
         /\ facts[p].status \in {"COMPLETE", "PRUNED"}
            => facts'[p].status \in {"COMPLETE", "PRUNED"}
<1>1. CASE Aside
  BY <1>1 DEF Aside, database
<1>2. ASSUME NEW w \in Windows, OpenDiscoveryWindow(w)
      PROVE  facts'[p] = facts[p] \/ facts[p].status = "ABSENT"
  BY <1>2, OpeningWrites
<1>3. ASSUME NEW o \in Facts, FactStep(o)
      PROVE  \/ facts'[p].status \in {facts[p].status, "PRUNED"}
             \/ facts[p].status \in {"ABSENT", "QUEUED"}
  BY <1>3, FactStepWrites
<1>4. CASE Finalize
  BY <1>4, VerdictWrites
<1> QED  BY <1>1, <1>2, <1>3, <1>4, StepKinds DEF Terminal

\* No step takes the projection away from under a complete verdict.
LEMMA ProjectedStep ==
  ASSUME WindowInv, CompleteVerdictIsProjected, Next
  PROVE  CompleteVerdictIsProjected'
<1> USE WindowsAssumption, WindowFactsAssumption DEF WindowInv
<1> SUFFICES ASSUME NEW w \in Windows, win'[w].status = "FINALIZED", win'[w].reason = "none"
             PROVE  /\ token'[MintOf[w]].stage # "ABSENT"
                    /\ \A e \in win'[w].snapshot : facts'[e[1]].status \in Terminal \cup {"PRUNED"}
                    /\ facts'[Opening[w]].status \in {"COMPLETE", "PRUNED"}
  BY DEF CompleteVerdictIsProjected
<1>1. CASE win'[w] = win[w]
  <2>1. /\ token[MintOf[w]].stage # "ABSENT"
        /\ \A e \in win[w].snapshot : facts[e[1]].status \in Terminal \cup {"PRUNED"}
        /\ facts[Opening[w]].status \in {"COMPLETE", "PRUNED"}
    BY Zenon, <1>1 DEF CompleteVerdictIsProjected
  <2>2. \A e \in win[w].snapshot : e[1] \in Facts
    <3>1. win[w] \in WindowRow
      BY Zenon DEF TypeOK
    <3>2. win[w].snapshot \in SUBSET (Facts \X BOOLEAN)
      BY Zenon, <3>1 DEF WindowRow, Evidence
    <3> QED  BY Zenon, <3>2
  <2> QED  BY Zenon, <1>1, <2>1, <2>2, CandidatesStay, SettledStays
<1>2. CASE win'[w] # win[w]
  <2>1. Finalize
    <3>1. ~Aside
      BY <1>2 DEF Aside, database
    <3>2. ASSUME NEW v \in Windows, OpenDiscoveryWindow(v) PROVE FALSE
      BY <1>2, <3>2, OpeningWrites
    <3>3. ASSUME NEW o \in Facts, FactStep(o) PROVE FALSE
      BY <1>2, <3>3, FactStepWrites
    <3> QED  BY Zenon, <3>1, <3>2, <3>3, StepKinds
  <2>2. /\ w = fin.window /\ fin.reason = "none" /\ win'[w].snapshot = fin.evidence
        /\ Refusal(fin) = "nothing" /\ UNCHANGED <<facts, member>>
    BY SMTT(20), <1>2, <2>1, VerdictWrites
  <2>3. Readiness(w) = "Ready" /\ Stored(w) = win'[w].snapshot
    BY <2>2 DEF Refusal, Readiness
  <2>4. /\ \A o \in member[w] : facts[o].status # "QUEUED"
        /\ facts[Opening[w]].status = "COMPLETE" /\ token[MintOf[w]].stage # "ABSENT"
    BY <2>3 DEF Readiness
  <2>5. \A o \in member[w] : facts[o].status \in Terminal
    BY Zenon, <2>4 DEF MembersAreHeld, Held
  <2>6. \A e \in Stored(w) : e[1] \in member[w]
    BY DEF Stored
  <2> QED  BY Zenon, <2>2, <2>3, <2>4, <2>5, <2>6, CandidatesStay
<1> QED  BY <1>1, <1>2

\* A complete verdict is given only when all its evidence is settled and its
\* candidate exists: readiness is read again inside the transaction.
THEOREM CompleteIsProjected == Spec => []CompleteVerdictIsProjected
<1>1. Init => CompleteVerdictIsProjected
  BY DEF Init, CompleteVerdictIsProjected
<1>2. CompleteVerdictIsProjected /\ UNCHANGED vars => CompleteVerdictIsProjected'
  BY DEF CompleteVerdictIsProjected, vars, database
<1> QED  BY <1>1, <1>2, ProjectedStep, WindowInvariant, PTL DEF Spec

-----------------------------------------------------------------------------

\* One element more, or one less.
LEMMA CountOne ==
  ASSUME NEW S, IsFiniteSet(S), NEW x
  PROVE  /\ Cardinality(S) \in Nat
         /\ x \notin S => Cardinality(S \cup {x}) = Cardinality(S) + 1
         /\ x \in S => Cardinality(S) >= 1 /\ Cardinality(S \ {x}) = Cardinality(S) - 1
<1>1. Cardinality(S) \in Nat
  BY FS_CardinalityType
<1>2. x \in S => Cardinality(S) # 0
  BY FS_EmptySet
<1>3. x \notin S => Cardinality(S \cup {x}) = Cardinality(S) + 1
  BY FS_AddElement
<1>4. x \in S => Cardinality(S \ {x}) = Cardinality(S) - 1
  BY FS_RemoveElement
<1> QED  BY <1>1, <1>2, <1>3, <1>4

ActiveWindows == {w \in Windows : win[w].status = "ACTIVE"}
DecidedAs(d) == {w \in Windows : win[w].decision = d}
QualifiedMints == {m \in Mints : token[m].stage = "QUALIFIED"}

\* The sets that a rebuild counts are finite.
LEMMA CountedSets ==
  /\ IsFiniteSet(ActiveWindows) /\ IsFiniteSet(QualifiedMints)
  /\ \A d : IsFiniteSet(DecidedAs(d))
  BY WindowsAssumption, FS_Subset DEF ActiveWindows, DecidedAs, QualifiedMints

\* How the number of qualified candidates follows a change of one row.
LEMMA QualifiedChange ==
  ASSUME NEW m \in Mints, NEW t, token \in [Mints -> TokenRow],
         token' = [token EXCEPT ![m] = t]
  PROVE  Cardinality(QualifiedMints') =
           Less(Cardinality(QualifiedMints) + (IF t.stage = "QUALIFIED" THEN 1 ELSE 0),
                IF token[m].stage = "QUALIFIED" THEN 1 ELSE 0)
<1> DEFINE n == Cardinality(QualifiedMints)
<1>0. \A k \in Nat : /\ Less(k + 1, 1) = k /\ Less(k + 1, 0) = k + 1 /\ Less(k + 0, 0) = k
                     /\ k >= 1 => Less(k + 0, 1) = k - 1
  BY DEF Less
<1>1. /\ n \in Nat
      /\ m \notin QualifiedMints => Cardinality(QualifiedMints \cup {m}) = n + 1
      /\ m \in QualifiedMints => n >= 1 /\ Cardinality(QualifiedMints \ {m}) = n - 1
  BY Zenon, CountedSets, CountOne
<1>2. m \in QualifiedMints <=> token[m].stage = "QUALIFIED"
  BY DEF QualifiedMints
<1>3. CASE t.stage = "QUALIFIED"
  <2>1. QualifiedMints' = QualifiedMints \cup {m}
    BY <1>3 DEF QualifiedMints
  <2>2. m \in QualifiedMints => QualifiedMints' = QualifiedMints
    BY <2>1
  <2>3. Cardinality(QualifiedMints') = IF token[m].stage = "QUALIFIED" THEN n ELSE n + 1
    BY <1>1, <1>2, <2>1, <2>2
  <2> HIDE DEF n
  <2> QED  BY <1>0, <1>1, <1>3, <2>3 DEF n
<1>4. CASE t.stage # "QUALIFIED"
  <2>1. QualifiedMints' = QualifiedMints \ {m}
    BY <1>4 DEF QualifiedMints
  <2>2. m \notin QualifiedMints => QualifiedMints' = QualifiedMints
    BY <2>1
  <2>3. Cardinality(QualifiedMints') = IF token[m].stage = "QUALIFIED" THEN n - 1 ELSE n
    BY Zenon, <1>1, <1>2, <2>1, <2>2
  <2>4. token[m].stage = "QUALIFIED" => n >= 1
    BY <1>1, <1>2
  <2> HIDE DEF n
  <2> QED  BY <1>0, <1>1, <1>4, <2>3, <2>4 DEF n
<1> QED  BY <1>3, <1>4

\* The counters, one by one.
LEMMA CountersByName ==
  ASSUME counters \in Counters
  PROVE  CountersAgree <=>
           /\ counters.qualification_pending = Cardinality(ActiveWindows)
           /\ counters.qualification_rejected = Cardinality(DecidedAs("REJECT"))
           /\ counters.qualification_unknown = Cardinality(DecidedAs("UNKNOWN"))
           /\ counters.qualified = Cardinality(QualifiedMints)
<1>1. counters = [qualification_pending |-> counters.qualification_pending,
                  qualification_rejected |-> counters.qualification_rejected,
                  qualification_unknown |-> counters.qualification_unknown,
                  qualified |-> counters.qualified]
  BY DEF Counters
<1> QED  BY <1>1 DEF CountersAgree, ActiveWindows, DecidedAs, QualifiedMints

\* A verdict moves one window from the active to the decided.
LEMMA VerdictCounts ==
  ASSUME WindowInv, Finalize
  PROVE  /\ Cardinality(ActiveWindows) >= 1
         /\ Cardinality(ActiveWindows') = Cardinality(ActiveWindows) - 1
         /\ \A d \in Decisions :
              Cardinality(DecidedAs(d)') =
                Cardinality(DecidedAs(d)) + (IF Evaluate(fin.evidence, fin.reason) = d THEN 1 ELSE 0)
<1> DEFINE w == fin.window
<1>1. /\ w \in Windows /\ win[w].status = "ACTIVE" /\ win'[w].status = "FINALIZED"
      /\ win'[w].decision = Evaluate(fin.evidence, fin.reason)
      /\ \A v \in Windows \ {w} : win'[v] = win[v]
  BY VerdictWrites DEF WindowInv
<1>2. win[w].decision = "none"
  BY <1>1 DEF WindowInv, UndecidedHasNone
<1> HIDE DEF w
<1>3. w \in ActiveWindows /\ ActiveWindows' = ActiveWindows \ {w}
  BY <1>1 DEF ActiveWindows
<1>4. ASSUME NEW d \in Decisions
      PROVE  Cardinality(DecidedAs(d)') =
               Cardinality(DecidedAs(d)) + (IF Evaluate(fin.evidence, fin.reason) = d THEN 1 ELSE 0)
  <2>1. w \notin DecidedAs(d)
    BY <1>2 DEF DecidedAs, Decisions
  <2>2. CASE Evaluate(fin.evidence, fin.reason) = d
    <3>1. DecidedAs(d)' = DecidedAs(d) \cup {w}
      BY <1>1, <2>2 DEF DecidedAs
    <3> QED  BY <2>1, <2>2, <3>1, CountOne, CountedSets
  <2>3. CASE Evaluate(fin.evidence, fin.reason) # d
    <3>1. DecidedAs(d)' = DecidedAs(d)
      BY <1>1, <2>1, <2>3 DEF DecidedAs
    <3>2. Cardinality(DecidedAs(d)) \in Nat
      BY Zenon, CountOne, CountedSets
    <3> QED  BY <2>3, <3>1, <3>2
  <2> QED  BY <2>2, <2>3
<1> QED  BY Zenon, <1>3, <1>4, CountOne, CountedSets

\* Every transaction moves the counters as it moves the rows they count.
LEMMA CountersStep ==
  ASSUME WindowInv, CountersAgree, Next
  PROVE  CountersAgree'
<1> USE WindowsAssumption, WindowFactsAssumption
<1>0. counters \in Counters /\ counters' \in Counters /\ token \in [Mints -> TokenRow]
  BY MembershipStep DEF WindowInv, TypeOK
<1>1. /\ counters.qualification_pending = Cardinality(ActiveWindows)
      /\ counters.qualification_rejected = Cardinality(DecidedAs("REJECT"))
      /\ counters.qualification_unknown = Cardinality(DecidedAs("UNKNOWN"))
      /\ counters.qualified = Cardinality(QualifiedMints)
  BY <1>0, CountersByName
<1>2. /\ Cardinality(ActiveWindows) \in Nat /\ Cardinality(QualifiedMints) \in Nat
      /\ \A d \in Decisions : Cardinality(DecidedAs(d)) \in Nat
  BY Zenon, CountOne, CountedSets
<1> SUFFICES /\ counters'.qualification_pending = Cardinality(ActiveWindows')
             /\ counters'.qualification_rejected = Cardinality(DecidedAs("REJECT")')
             /\ counters'.qualification_unknown = Cardinality(DecidedAs("UNKNOWN")')
             /\ counters'.qualified = Cardinality(QualifiedMints')
  <2>1. counters' = [qualification_pending |-> counters'.qualification_pending,
                     qualification_rejected |-> counters'.qualification_rejected,
                     qualification_unknown |-> counters'.qualification_unknown,
                     qualified |-> counters'.qualified]
    BY <1>0 DEF Counters
  <2> QED  BY <2>1 DEF CountersAgree, ActiveWindows, DecidedAs, QualifiedMints
<1>3. ASSUME UNCHANGED win
      PROVE  ActiveWindows' = ActiveWindows /\ \A d \in Decisions : DecidedAs(d)' = DecidedAs(d)
  BY <1>3 DEF ActiveWindows, DecidedAs
<1>4. CASE Aside
  BY <1>1, <1>4 DEF Aside, database, ActiveWindows, DecidedAs, QualifiedMints
<1>5. ASSUME NEW w \in Windows, OpenDiscoveryWindow(w)
      PROVE  /\ counters'.qualification_pending = Cardinality(ActiveWindows')
             /\ counters'.qualification_rejected = Cardinality(DecidedAs("REJECT")')
             /\ counters'.qualification_unknown = Cardinality(DecidedAs("UNKNOWN")')
             /\ counters'.qualified = Cardinality(QualifiedMints')
  <2>1. /\ win[w].status = "ABSENT" /\ win'[w].status = "ACTIVE"
        /\ win'[w].decision = win[w].decision
        /\ \A v \in Windows \ {w} : win'[v] = win[v]
    BY <1>5, OpeningWrites DEF WindowInv
  <2>0. \A v \in Windows : /\ win'[v].decision = win[v].decision
                           /\ win'[v].status = "ACTIVE" <=> v = w \/ win[v].status = "ACTIVE"
    BY Zenon, <2>1
  <2>2. w \notin ActiveWindows /\ ActiveWindows' = ActiveWindows \cup {w}
    BY ZenonT(30), <2>0, <2>1 DEF ActiveWindows
  <2>3. \A d \in Decisions : DecidedAs(d)' = DecidedAs(d)
    BY Zenon, <2>0 DEF DecidedAs
  <2>4. QualifiedMints' = QualifiedMints
    BY <1>5 DEF OpenDiscoveryWindow, QualifiedMints
  <2>5. Cardinality(ActiveWindows') = Cardinality(ActiveWindows) + 1
    BY <2>2, CountOne, CountedSets
  <2>6. /\ counters'.qualification_pending = counters.qualification_pending + 1
        /\ counters'.qualification_rejected = counters.qualification_rejected
        /\ counters'.qualification_unknown = counters.qualification_unknown
        /\ counters'.qualified = counters.qualified
    BY <1>0, <1>5 DEF OpenDiscoveryWindow, Counters
  <2> QED  BY SMTT(20), <1>1, <2>3, <2>4, <2>5, <2>6 DEF Decisions
<1>6. ASSUME NEW o \in Facts, FactStep(o)
      PROVE  /\ counters'.qualification_pending = Cardinality(ActiveWindows')
             /\ counters'.qualification_rejected = Cardinality(DecidedAs("REJECT")')
             /\ counters'.qualification_unknown = Cardinality(DecidedAs("UNKNOWN")')
             /\ counters'.qualified = Cardinality(QualifiedMints')
  <2>1. ActiveWindows' = ActiveWindows /\ \A d \in Decisions : DecidedAs(d)' = DecidedAs(d)
    BY SMTT(20), <1>3, <1>6, FactStepWrites DEF WindowInv
  <2>2. /\ counters'.qualification_pending = counters.qualification_pending
        /\ counters'.qualification_rejected = counters.qualification_rejected
        /\ counters'.qualification_unknown = counters.qualification_unknown
    BY ZenonT(30), <1>0, <1>6 DEF FactStep, InsertWindowObservation, ReplayWindowObservation, ProjectFact,
                      FailFact, PruneRetainedHistory, Counters
  <2>3. counters'.qualified = Cardinality(QualifiedMints')
    <3>1. CASE ProjectFact(o)
      <4> DEFINE w == Fact[o].window
                 m == MintOf[w]
                 kept == token[m].stage = "QUALIFIED" /\ token[m].market = w
                 t == [slot |-> Fact[o].slot, market |-> w, source |-> o,
                       stage |-> IF kept THEN "QUALIFIED" ELSE "OBSERVED",
                       by |-> IF kept THEN token[m].by ELSE NoWindow]
      <4>1. m \in Mints
        BY ZenonT(30)
      <4>2. CASE UNCHANGED <<token, counters>>
        BY <1>1, <4>2 DEF QualifiedMints
      <4>3. CASE /\ token' = [token EXCEPT ![m] = t]
                 /\ counters' = [counters EXCEPT !.qualified =
                        IF token[m].stage = "QUALIFIED" /\ ~kept THEN Less(@, 1) ELSE @]
        <5>1. t.stage = "QUALIFIED" <=> kept
          OBVIOUS
        <5>2. Cardinality(QualifiedMints') =
                Less(Cardinality(QualifiedMints) + (IF t.stage = "QUALIFIED" THEN 1 ELSE 0),
                     IF token[m].stage = "QUALIFIED" THEN 1 ELSE 0)
          BY ZenonT(30), <1>0, <4>1, <4>3, QualifiedChange
        <5>3. counters'.qualified = IF token[m].stage = "QUALIFIED" /\ ~kept
                                    THEN Less(counters.qualified, 1) ELSE counters.qualified
          BY Zenon, <1>0, <4>3 DEF Counters
        <5>4. kept => token[m].stage = "QUALIFIED"
          OBVIOUS
        <5> HIDE DEF t, kept, m
        <5> QED  BY <1>1, <1>2, <5>1, <5>2, <5>3, <5>4 DEF Less
      <4> QED  BY <3>1, <4>2, <4>3 DEF ProjectFact
    <3>2. CASE PruneRetainedHistory(o)
      <4>1. ASSUME NEW m \in Mints PROVE token'[m].stage = token[m].stage
        BY <1>0, <3>2 DEF PruneRetainedHistory, TokenRow
      <4>2. QualifiedMints' = QualifiedMints
        BY <4>1 DEF QualifiedMints
      <4> QED  BY <1>1, <3>2, <4>2 DEF PruneRetainedHistory
    <3>3. CASE UNCHANGED <<token, counters>>
      BY <1>1, <3>3 DEF QualifiedMints
    <3> QED  BY <1>6, <3>1, <3>2, <3>3 DEF FactStep, InsertWindowObservation,
                                           ReplayWindowObservation, FailFact
  <2> QED  BY <1>1, <2>1, <2>2, <2>3 DEF Decisions
<1>7. CASE Finalize
  <2> DEFINE m == MintOf[fin.window]
             d == Evaluate(fin.evidence, fin.reason)
             decided == IF ProjectionIsCurrent(fin.window)
                        THEN DecidedToken(token[m], fin.window, d) ELSE token[m]
  <2>1. m \in Mints
    BY Zenon, <1>7, VerdictWrites DEF WindowInv
  <2>2. /\ token' = [token EXCEPT ![m] = decided]
        /\ counters' = CountDecision(d, token[m].stage = "QUALIFIED", decided.stage = "QUALIFIED")
    BY <1>7 DEF Finalize, CommitVerdict
  <2>3. Cardinality(QualifiedMints') =
          Less(Cardinality(QualifiedMints) + (IF decided.stage = "QUALIFIED" THEN 1 ELSE 0),
               IF token[m].stage = "QUALIFIED" THEN 1 ELSE 0)
    BY ZenonT(30), <1>0, <2>1, <2>2, QualifiedChange
  <2> HIDE DEF m, d, decided
  <2>4. /\ counters'.qualification_pending = Less(counters.qualification_pending, 1)
        /\ counters'.qualification_rejected =
             IF d = "REJECT" THEN counters.qualification_rejected + 1
             ELSE counters.qualification_rejected
        /\ counters'.qualification_unknown =
             IF d = "UNKNOWN" THEN counters.qualification_unknown + 1
             ELSE counters.qualification_unknown
        /\ counters'.qualified =
             Less(counters.qualified + (IF decided.stage = "QUALIFIED" THEN 1 ELSE 0),
                  IF token[m].stage = "QUALIFIED" THEN 1 ELSE 0)
    BY <1>0, <2>2 DEF CountDecision, Counters
  <2>5. /\ Cardinality(ActiveWindows) >= 1
        /\ Cardinality(ActiveWindows') = Cardinality(ActiveWindows) - 1
        /\ Cardinality(DecidedAs("REJECT")') =
              Cardinality(DecidedAs("REJECT")) + (IF d = "REJECT" THEN 1 ELSE 0)
        /\ Cardinality(DecidedAs("UNKNOWN")') =
              Cardinality(DecidedAs("UNKNOWN")) + (IF d = "UNKNOWN" THEN 1 ELSE 0)
    BY <1>7, VerdictCounts DEF Decisions, d
  <2>6. counters'.qualification_pending = Cardinality(ActiveWindows')
    BY <1>1, <1>2, <2>4, <2>5 DEF Less
  <2>7. /\ counters'.qualification_rejected = Cardinality(DecidedAs("REJECT")')
        /\ counters'.qualification_unknown = Cardinality(DecidedAs("UNKNOWN")')
    BY <1>1, <1>2, <2>4, <2>5 DEF Decisions
  <2>8. counters'.qualified = Cardinality(QualifiedMints')
    BY SMTT(20), <1>1, <2>3, <2>4
  <2> QED  BY <2>6, <2>7, <2>8
<1> QED  BY <1>4, <1>5, <1>6, <1>7, StepKinds DEF WindowInv

\* The counters are always what a rebuild would count, so the clamp at zero of
\* the differences is never reached.
THEOREM CountersExact == Spec => []CountersAgree
<1>1. Init => CountersAgree
  <2> SUFFICES ASSUME Init PROVE CountersAgree
    OBVIOUS
  <2>1. /\ {w \in Windows : win[w].status = "ACTIVE"} = {}
        /\ {w \in Windows : win[w].decision = "REJECT"} = {}
        /\ {w \in Windows : win[w].decision = "UNKNOWN"} = {}
        /\ {m \in Mints : token[m].stage = "QUALIFIED"} = {}
    BY DEF Init
  <2> QED  BY Zenon, <2>1, FS_EmptySet DEF Init, CountersAgree
<1>2. CountersAgree /\ UNCHANGED vars => CountersAgree'
  BY DEF CountersAgree, vars, database
<1> QED  BY <1>1, <1>2, CountersStep, WindowInvariant, PTL DEF Spec

-----------------------------------------------------------------------------

Shown == [m \in Mints |-> token[m].by]
VerdictOf == [w \in Windows |-> Verdict(w)]

\* A step of a fact withdraws what a candidate shows, or leaves it.
LEMMA FactStepsShow ==
  ASSUME WindowInv, NEW o \in Facts, FactStep(o)
  PROVE  /\ UNCHANGED <<VerdictOf, counters.qualification_pending>>
         /\ \/ UNCHANGED Shown
            \/ \E m \in Mints : Shown' = [Shown EXCEPT ![m] = 0]
<1> USE WindowsAssumption, WindowFactsAssumption
<1>0. counters \in Counters /\ token \in [Mints -> TokenRow]
  BY DEF WindowInv, TypeOK
<1>1. UNCHANGED VerdictOf
  BY SMTT(20), FactStepWrites DEF WindowInv, VerdictOf, Verdict
<1>2. UNCHANGED counters.qualification_pending
  BY Zenon, <1>0 DEF FactStep, InsertWindowObservation, ReplayWindowObservation, ProjectFact,
              FailFact, PruneRetainedHistory, Counters
<1>3. CASE ProjectFact(o)
  <2> DEFINE m == MintOf[Fact[o].window]
  <2>1. m \in Mints
    BY Zenon
  <2>2. \/ UNCHANGED token
        \/ \E t : /\ token' = [token EXCEPT ![m] = t]
                  /\ t.by = token[m].by \/ t.by = 0
    BY <1>3 DEF ProjectFact, NoWindow
  <2>3. CASE UNCHANGED token
    BY <1>1, <1>2, <2>3 DEF Shown
  <2>4. ASSUME NEW t, token' = [token EXCEPT ![m] = t], t.by = token[m].by \/ t.by = 0
        PROVE  UNCHANGED Shown \/ Shown' = [Shown EXCEPT ![m] = 0]
    <3>1. CASE t.by = token[m].by
      BY <1>0, <2>1, <2>4, <3>1 DEF Shown
    <3>2. CASE t.by = 0
      BY Zenon, <1>0, <2>1, <2>4, <3>2 DEF Shown
    <3> QED  BY <2>4, <3>1, <3>2
  <2> HIDE DEF m
  <2> QED  BY <1>1, <1>2, <2>1, <2>2, <2>3, <2>4
<1>4. CASE PruneRetainedHistory(o)
  <2>1. ASSUME NEW m \in Mints PROVE token'[m].by = token[m].by
    BY <1>0, <1>4 DEF PruneRetainedHistory, TokenRow
  <2> QED  BY <1>1, <1>2, <2>1 DEF Shown
<1>5. CASE UNCHANGED token
  BY <1>1, <1>2, <1>5 DEF Shown
<1> QED  BY <1>3, <1>4, <1>5 DEF FactStep, InsertWindowObservation, ReplayWindowObservation,
                                 FailFact

\* Every verdict is a step Decide of the abstract specification.
LEMMA VerdictShows ==
  ASSUME WindowInv, CountersAgree, Finalize
  PROVE  \E w \in Windows : \E d \in Decisions : Verdicts!Decide(w, d)
<1> USE WindowsAssumption, WindowFactsAssumption
<1>0. counters \in Counters /\ token \in [Mints -> TokenRow]
  BY DEF WindowInv, TypeOK
<1>10. fin.window \in Windows /\ Evaluate(fin.evidence, fin.reason) \in Decisions
  BY VerdictWrites, EvaluateDecides DEF WindowInv
<1> PICK w \in Windows : w = fin.window
  BY Zenon, <1>10
<1> PICK d \in Decisions : d = Evaluate(fin.evidence, fin.reason)
  BY <1>10
<1> DEFINE m == MintOf[w]
<1>1. /\ win[w].status = "ACTIVE" /\ win'[w].status = "FINALIZED"
      /\ win'[w].decision = d /\ \A v \in Windows \ {w} : win'[v] = win[v]
  BY VerdictWrites DEF WindowInv
<1>2. m \in Mints
  BY Zenon
<1>3. /\ VerdictOf[w] = "open"
      /\ VerdictOf' = [VerdictOf EXCEPT ![w] = d]
  <2>1. Verdict(w) = "open" /\ Verdict(w)' = d
    BY <1>1 DEF Verdict
  <2>2. ASSUME NEW v \in Windows, v # w PROVE Verdict(v)' = Verdict(v)
    BY <1>1, <2>2 DEF Verdict
  <2> QED  BY Zenon, <2>1, <2>2 DEF VerdictOf
<1>4. counters'.qualification_pending = counters.qualification_pending - 1
  <2>1. /\ counters.qualification_pending = Cardinality(ActiveWindows)
        /\ Cardinality(ActiveWindows) >= 1 /\ Cardinality(ActiveWindows) \in Nat
    BY Zenon, <1>0, CountersByName, VerdictCounts, CountOne, CountedSets
  <2>2. counters'.qualification_pending = Less(counters.qualification_pending, 1)
    BY <1>0 DEF Finalize, CommitVerdict, CountDecision, Counters
  <2> QED  BY <2>1, <2>2 DEF Less
<1>5. \/ UNCHANGED Shown
      \/ /\ ~NewerWindowExists(w)
         /\ Shown' = [Shown EXCEPT ![m] = IF d = "PASS" THEN w ELSE 0]
  <2>1. CASE ~ProjectionIsCurrent(w)
    BY SMTT(20), <1>0, <1>2, <2>1 DEF Finalize, CommitVerdict, Shown
  <2>2. CASE ProjectionIsCurrent(w)
    <3>1. token' = [token EXCEPT ![m] = DecidedToken(token[m], w, d)]
      BY <2>2 DEF Finalize, CommitVerdict
    <3>2. token[m] \in TokenRow
      BY <1>0, <1>2
    <3>3. DecidedToken(token[m], w, d).by = IF d = "PASS" THEN w ELSE 0
      BY <3>2 DEF DecidedToken, TokenRow, NoWindow
    <3> HIDE DEF m
    <3>4. Shown' = [Shown EXCEPT ![m] = IF d = "PASS" THEN w ELSE 0]
      BY Zenon, <1>0, <1>2, <3>1, <3>3 DEF Shown
    <3> QED  BY SMTT(20), <2>2, <3>4 DEF ProjectionIsCurrent
  <2> QED  BY <2>1, <2>2
<1>6. Verdicts!Superseded(w) => NewerWindowExists(w)
  BY DEF Verdicts!Superseded, Verdict, NewerWindowExists, WindowInv, TypeOK, WindowRow
<1>7. Verdicts!Decide(w, d)
  BY <1>3, <1>4, <1>5, <1>6 DEF Verdicts!Decide, VerdictOf, Shown, Verdicts!NotShown
<1> QED  BY Zenon, <1>7

\* Every step of durable windows is a step of WindowVerdicts, or leaves what
\* it promises alone.
LEMMA VerdictsStep ==
  ASSUME WindowInv, CountersAgree, Next
  PROVE  Verdicts!VerdictsNext \/ UNCHANGED <<VerdictOf, counters.qualification_pending, Shown>>
<1> USE WindowsAssumption, WindowFactsAssumption
<1>0. counters \in Counters
  BY DEF WindowInv, TypeOK
<1>1. CASE Aside
  BY <1>1 DEF Aside, database, VerdictOf, Verdict, Shown
<1>2. ASSUME NEW w \in Windows, OpenDiscoveryWindow(w)
      PROVE  Verdicts!VerdictsNext
  <2>1. /\ win[w].status = "ABSENT" /\ win'[w].status = "ACTIVE"
        /\ \A v \in Windows \ {w} : win'[v] = win[v]
    BY <1>2, OpeningWrites DEF WindowInv
  <2>2. Verdict(w) = "unopened" /\ Verdict(w)' = "open"
    BY <2>1 DEF Verdict
  <2>3. ASSUME NEW v \in Windows, v # w PROVE Verdict(v)' = Verdict(v)
    BY <2>1, <2>3 DEF Verdict
  <2>4. VerdictOf[w] = "unopened" /\ VerdictOf' = [VerdictOf EXCEPT ![w] = "open"]
    BY Zenon, <2>2, <2>3 DEF VerdictOf
  <2>5. /\ counters'.qualification_pending = counters.qualification_pending + 1
        /\ UNCHANGED Shown
    BY <1>0, <1>2 DEF OpenDiscoveryWindow, Counters, Shown
  <2>6. Verdicts!OpenWindow(w)
    BY <2>4, <2>5 DEF Verdicts!OpenWindow, VerdictOf, Shown
  <2> QED  BY <2>6 DEF Verdicts!VerdictsNext
<1>3. ASSUME NEW o \in Facts, FactStep(o)
      PROVE  \/ Verdicts!VerdictsNext
             \/ UNCHANGED <<VerdictOf, counters.qualification_pending, Shown>>
  <2>1. CASE UNCHANGED Shown
    BY <1>3, <2>1, FactStepsShow
  <2>2. ASSUME NEW m \in Mints, Shown' = [Shown EXCEPT ![m] = 0]
        PROVE  Verdicts!Withdraw(m)
    BY <1>3, <2>2, FactStepsShow DEF Verdicts!Withdraw, Verdicts!NotShown, VerdictOf, Shown
  <2> QED  BY <1>3, <2>1, <2>2, FactStepsShow DEF Verdicts!VerdictsNext
<1>4. CASE Finalize
  BY <1>4, VerdictShows DEF Verdicts!VerdictsNext, Verdicts!Decisions, Decisions
<1> QED  BY Zenon, <1>1, <1>2, <1>3, <1>4, StepKinds DEF WindowInv

\* Durable windows implement WindowVerdicts, for any number of windows and of
\* pipeline attempts: one verdict per window, an exact count of the undecided,
\* and no candidate qualified on the word of a superseded window.
THEOREM Refinement == Spec => ImplementsVerdicts
<1>1. Init => Verdicts!VerdictsInit
  BY DEF Init, Verdicts!VerdictsInit, Verdict, Verdicts!NotShown, NoWindow
<1>2. /\ WindowInv /\ CountersAgree /\ [Next]_vars
      => [Verdicts!VerdictsNext]_<<[w \in Windows |-> Verdict(w)], counters.qualification_pending,
                                   [m \in Mints |-> token[m].by]>>
  <2>1. UNCHANGED vars => UNCHANGED <<VerdictOf, counters.qualification_pending, Shown>>
    BY DEF vars, database, VerdictOf, Verdict, Shown
  <2> QED  BY <2>1, VerdictsStep DEF VerdictOf, Shown
<1> QED  BY <1>1, <1>2, WindowInvariant, CountersExact, PTL
         DEF Spec, ImplementsVerdicts, Verdicts!VerdictsSpec
=============================================================================

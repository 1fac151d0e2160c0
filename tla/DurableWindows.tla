-------------------------- MODULE DurableWindows --------------------------
(***************************************************************************)
(* Durable observation windows from opening to verdict, across crashes and *)
(* restarts (crates/persistence/src/discovery_windows.rs, retention.rs,    *)
(* apps/server/src/jobs/qualification.rs).                                 *)
(*                                                                         *)
(* The batch processor opens windows and adds facts to them, the discovery *)
(* worker projects the facts onto the candidate (DurableWork has the       *)
(* details), the finalizer reads a window, evaluates it and commits its    *)
(* verdict, and maintenance prunes old history.  Each pipeline attempt has *)
(* a collector_run_id of its own, which windows carry.                     *)
(*                                                                         *)
(* A transaction that touches a window or its facts is one step: opening   *)
(* and finalizing hold the advisory lock of the mint, adding a fact and    *)
(* finalizing hold the row of the window, and what they read in separate   *)
(* statements cannot be changed by anyone else in between.  A finalization *)
(* attempt is three: readiness, evidence, transaction.                     *)
(*                                                                         *)
(* A window has a market of its own (one creation event, one window), so   *)
(* the market of a fact is named by its window.                            *)
(***************************************************************************)
EXTENDS Naturals, FiniteSets

CONSTANTS
    Windows,        \* discovery_windows.id
    Mints,
    MintOf,         \* the mint of each window
    OpenedAt,       \* opened_at_unix_ms: not in the order of the ids
    Facts,          \* chain_observations
    Fact,           \* the window and the slot of each fact
    Opening,        \* opening_observation_id of each window
    MinimumFacts,   \* the qualification policy: enough evidence passes
    MaxRuns         \* bound on the number of pipeline attempts

ASSUME WindowsAssumption ==
    /\ Windows \subseteq Nat \ {0} /\ IsFiniteSet(Windows)
    /\ MintOf \in [Windows -> Mints] /\ IsFiniteSet(Mints)
    /\ OpenedAt \in [Windows -> Nat]
ASSUME WindowFactsAssumption ==
    /\ Facts \subseteq Nat \ {0} /\ IsFiniteSet(Facts)
    /\ Fact \in [Facts -> [window : Windows, slot : Nat]]
    /\ Opening \in [Windows -> Facts]
    /\ \A w \in Windows : Fact[Opening[w]].window = w
ASSUME RunsAssumption == MinimumFacts \in Nat /\ MaxRuns \in Nat \ {0}

NoFact == 0
NoWindow == 0
NoRun == 0
Decisions == {"PASS", "REJECT", "UNKNOWN"}

VARIABLES
    facts,     \* status of each fact's work, and whether its receipt was lowered
    win,       \* discovery_windows, snapshots and assessments
    member,    \* discovery_window_observations
    token,     \* discovery_tokens
    counters,  \* the qualification counters of discovery_projection_state
    run,       \* the current or last collector_run_id
    phase,     \* of that pipeline attempt
    settled,   \* windows of this attempt with no admission outstanding
    fin        \* the locals of the finalizer

database == <<facts, win, member, token, counters>>
attempt == <<run, phase, settled, fin>>
vars == <<database, attempt>>

FactRow == [status : {"ABSENT", "QUEUED", "COMPLETE", "FAILED", "PRUNED"}, early : BOOLEAN]
Terminal == {"COMPLETE", "FAILED"}
Evidence == SUBSET (Facts \X BOOLEAN)
Reasons == {"none", "coverage gap", "pipeline restarted", "stream stopped", "processing failed"}

WindowRow ==
    [status : {"ABSENT", "ACTIVE", "FINALIZED"}, run : 0..MaxRuns, reason : Reasons,
     decision : Decisions \cup {"none"}, snapshot : Evidence]

\* source is the fact of source_work_id; by is the window of the qualification.
TokenRow ==
    [slot : Nat, market : Windows \cup {NoWindow}, source : Facts \cup {NoFact},
     stage : {"ABSENT", "OBSERVED", "QUALIFIED"}, by : Windows \cup {NoWindow}]

Counters ==
    [qualification_pending : Nat, qualification_rejected : Nat,
     qualification_unknown : Nat, qualified : Nat]

Finalizer ==
    [pc : {"idle", "ready", "built"}, window : Windows \cup {NoWindow},
     reason : Reasons, evidence : Evidence]

TypeOK ==
    /\ facts \in [Facts -> FactRow]
    /\ win \in [Windows -> WindowRow]
    /\ member \in [Windows -> SUBSET Facts]
    /\ token \in [Mints -> TokenRow]
    /\ counters \in Counters
    /\ run \in 0..MaxRuns
    /\ phase \in {"down", "running", "draining"}
    /\ settled \subseteq Windows
    /\ fin \in Finalizer

Idle == [pc |-> "idle", window |-> NoWindow, reason |-> "none", evidence |-> {}]

Init ==
    /\ facts = [o \in Facts |-> [status |-> "ABSENT", early |-> FALSE]]
    /\ win = [w \in Windows |-> [status |-> "ABSENT", run |-> NoRun, reason |-> "none",
                                 decision |-> "none", snapshot |-> {}]]
    /\ member = [w \in Windows |-> {}]
    /\ token = [m \in Mints |-> [slot |-> 0, market |-> NoWindow, source |-> NoFact,
                                 stage |-> "ABSENT", by |-> NoWindow]]
    /\ counters = [qualification_pending |-> 0, qualification_rejected |-> 0,
                   qualification_unknown |-> 0, qualified |-> 0]
    /\ run = NoRun
    /\ phase = "down"
    /\ settled = {}
    /\ fin = Idle

-----------------------------------------------------------------------------

\* The evidence that the database holds for window w.
Stored(w) == {<<o, facts[o].early>> : o \in member[w]}

Less(value, n) == IF value < n THEN 0 ELSE value - n

Up == phase \in {"running", "draining"}
Ours(w) == win[w].status # "ABSENT" /\ win[w].run = run

\* open_discovery_window: fact, work, window, membership and counter.  The
\* conflict on the opening key makes a replay a rollback: see ReplayOpening.
OpenDiscoveryWindow(w) ==
    /\ phase = "running"
    /\ win[w].status = "ABSENT"
    /\ facts[Opening[w]].status = "ABSENT"
    /\ facts' = [facts EXCEPT ![Opening[w]].status = "QUEUED"]
    /\ win' = [win EXCEPT ![w].status = "ACTIVE", ![w].run = run]
    /\ member' = [member EXCEPT ![w] = {Opening[w]}]
    /\ counters' = [counters EXCEPT !.qualification_pending = @ + 1]
    /\ UNCHANGED <<token, attempt>>

\* The creation is delivered again, perhaps after its fact was pruned.
ReplayOpening(w) ==
    /\ Up
    /\ win[w].status # "ABSENT"
    /\ UNCHANGED vars

\* The processor has a batch that was admitted to a window of this attempt.
Batch(w) == Up /\ Ours(w) /\ w \notin settled

\* Mutant: the status of the window is not validated.
InsertUnvalidated(o) ==
    LET w == Fact[o].window
    IN /\ Batch(w) /\ facts[o].status = "ABSENT" /\ o # Opening[w]
       /\ facts' = [facts EXCEPT ![o].status = "QUEUED"]
       /\ member' = [member EXCEPT ![w] = @ \cup {o}]
       /\ UNCHANGED <<win, token, counters, attempt>>

\* insert_window_observation of a new fact.  A window that is not active any
\* more refuses it (DiscoveryWindowNotActive), which ends the attempt.  Every fact
\* here belongs to one window and is stored with its membership, so the branch for a
\* stored fact that is not a member has no case.
InsertWindowObservation(o) ==
    LET w == Fact[o].window
    IN /\ Batch(w) /\ facts[o].status = "ABSENT" /\ o # Opening[w]
       /\ IF win[w].status = "ACTIVE"
          THEN /\ facts' = [facts EXCEPT ![o].status = "QUEUED"]
               /\ member' = [member EXCEPT ![w] = @ \cup {o}]
               /\ UNCHANGED phase
          ELSE /\ phase' = "draining"
               /\ UNCHANGED <<facts, member>>
       /\ UNCHANGED <<win, token, counters, run, settled, fin>>

\* insert_window_observation of a fact that is already admitted: the earliest
\* receipt is kept, except for the fact that opened the window.
ReplayWindowObservation(o) ==
    /\ Batch(Fact[o].window) /\ o \in member[Fact[o].window] /\ o # Opening[Fact[o].window]
    /\ facts' = [facts EXCEPT ![o].early = TRUE]
    /\ UNCHANGED <<win, member, token, counters, attempt>>

\* The last admission of a closed window is settled (ObservationWindows).
Settle(w) ==
    /\ Batch(w)
    /\ settled' = settled \cup {w}
    /\ UNCHANGED <<database, run, phase, fin>>

-----------------------------------------------------------------------------

\* The discovery worker projects fact o onto its candidate, or fails for good.
ProjectFact(o) ==
    LET w == Fact[o].window
        m == MintOf[w]
        t == token[m]
        kept == t.stage = "QUALIFIED" /\ t.market = w
    IN /\ Up /\ facts[o].status = "QUEUED"
       /\ facts' = [facts EXCEPT ![o].status = "COMPLETE"]
       /\ IF t.stage # "ABSENT" /\ t.slot > Fact[o].slot
          THEN UNCHANGED <<token, counters>>
          ELSE /\ token' = [token EXCEPT ![m] =
                    [slot |-> Fact[o].slot, market |-> w, source |-> o,
                     stage |-> IF kept THEN "QUALIFIED" ELSE "OBSERVED",
                     by |-> IF kept THEN t.by ELSE NoWindow]]
               /\ counters' = [counters EXCEPT !.qualified =
                    IF t.stage = "QUALIFIED" /\ ~kept THEN Less(@, 1) ELSE @]
       /\ UNCHANGED <<win, member, attempt>>

FailFact(o) ==
    /\ Up /\ facts[o].status = "QUEUED"
    /\ facts' = [facts EXCEPT ![o].status = "FAILED"]
    /\ UNCHANGED <<win, member, token, counters, attempt>>

\* Mutant: active windows are not spared.
PrunableAnyWindow(o) == facts[o].status \in Terminal

\* An observation goes with its work and memberships once all its work is
\* terminal and old, unless an active window needs it.
Prunable(o) ==
    /\ facts[o].status \in Terminal
    /\ \A w \in Windows : o \in member[w] => win[w].status # "ACTIVE"

PruneRetainedHistory(o) ==
    /\ Prunable(o)
    /\ facts' = [facts EXCEPT ![o].status = "PRUNED"]
    /\ member' = [w \in Windows |-> member[w] \ {o}]
    /\ token' = [m \in Mints |->
                   IF token[m].source = o THEN [token[m] EXCEPT !.source = NoFact] ELSE token[m]]
    /\ UNCHANGED <<win, counters, attempt>>

-----------------------------------------------------------------------------

\* Mutant: only the opening is waited for.
ReadinessOfOpening(w) ==
    IF facts[Opening[w]].status = "QUEUED" THEN "Pending"
    ELSE IF facts[Opening[w]].status = "COMPLETE" /\ token[MintOf[w]].stage # "ABSENT"
         THEN "Ready" ELSE "OpeningProjectionUnavailable"

\* projection_readiness.  A FAILED or missing opening is final.
Readiness(w) ==
    CASE \E o \in member[w] : facts[o].status = "QUEUED" -> "Pending"
      [] /\ \A o \in member[w] : facts[o].status # "QUEUED"
         /\ facts[Opening[w]].status = "COMPLETE" /\ token[MintOf[w]].stage # "ABSENT" -> "Ready"
      [] OTHER -> "OpeningProjectionUnavailable"

\* Mutant: windows of earlier attempts are nobody's.
TurnToOwnWindows(w, reason) ==
    /\ fin.pc = "idle"
    /\ win[w].status = "ACTIVE"
    /\ \/ Up /\ Ours(w) /\ w \in settled /\ reason \in {"none", "coverage gap"}
       \/ phase = "draining" /\ Ours(w) /\ reason = "stream stopped"

\* Windows the finalizer turns to: those of this attempt that the registry
\* lets it claim, those an earlier attempt left active, and at the end of the
\* drain all of this attempt that are still active.
Turn(w, reason) ==
    /\ fin.pc = "idle"
    /\ win[w].status = "ACTIVE"
    /\ \/ Up /\ Ours(w) /\ w \in settled /\ reason \in {"none", "coverage gap"}
       \/ phase = "running" /\ ~Ours(w) /\ reason = "pipeline restarted"
       \/ phase = "draining" /\ Ours(w) /\ reason = "stream stopped"

TerminalIncompleteReason(w, reason) ==
    IF Readiness(w) = "OpeningProjectionUnavailable" THEN "processing failed" ELSE reason

\* attempt_finalize_window, up to the load; a pending projection is retried.
AttemptFinalizeWindow(w, reason) ==
    /\ Turn(w, reason)
    /\ Readiness(w) # "Pending"
    /\ fin' = [pc |-> "ready", window |-> w, reason |-> TerminalIncompleteReason(w, reason),
               evidence |-> {}]
    /\ UNCHANGED <<database, run, phase, settled>>

\* load_discovery_window and build_discovery_window_finalization.
LoadDiscoveryWindow ==
    /\ fin.pc = "ready"
    /\ fin' = [fin EXCEPT !.pc = "built", !.evidence = Stored(fin.window)]
    /\ UNCHANGED <<database, run, phase, settled>>

\* evaluate_qualification: incomplete evidence decides nothing.
Evaluate(evidence, reason) ==
    CASE reason # "none" -> "UNKNOWN"
      [] reason = "none" /\ Cardinality(evidence) >= MinimumFacts -> "PASS"
      [] OTHER -> "REJECT"

Newer(v, w) == OpenedAt[v] > OpenedAt[w] \/ (OpenedAt[v] = OpenedAt[w] /\ v > w)

\* Mutant: a window always speaks for its candidate.
NewerWindowExistsNever(w) == FALSE

NewerWindowExists(w) ==
    \E v \in Windows \ {w} :
        MintOf[v] = MintOf[w] /\ win[v].status # "ABSENT" /\ Newer(v, w)

ProjectionIsCurrent(w) ==
    /\ token[MintOf[w]].stage # "ABSENT"
    /\ token[MintOf[w]].source \in member[w]
    /\ ~NewerWindowExists(w)

\* Mutant: the evidence is not read again.
RefusalByReadiness(f) ==
    IF Readiness(f.window) = "Pending" THEN "projection missing"
    ELSE IF /\ Readiness(f.window) = "OpeningProjectionUnavailable"
            /\ f.reason # "processing failed" THEN "evidence mismatch"
    ELSE "nothing"

\* Why the transaction refuses what the finalizer built; the checks are ordered.
Refusal(f) ==
    IF Readiness(f.window) = "Pending" THEN "projection missing"
    ELSE IF /\ Readiness(f.window) = "OpeningProjectionUnavailable"
            /\ f.reason # "processing failed" THEN "evidence mismatch"
    ELSE IF Cardinality(member[f.window]) # Cardinality(f.evidence) THEN "evidence changed"
    ELSE IF Stored(f.window) # f.evidence THEN "evidence mismatch"
    ELSE "nothing"

\* The candidate as the decision d of window w leaves it.
DecidedToken(t, w, d) ==
    [t EXCEPT !.stage = IF d = "PASS" THEN "QUALIFIED" ELSE "OBSERVED",
              !.by = IF d = "PASS" THEN w ELSE NoWindow]

\* Mutant: the window stays counted as pending.
CountWithoutPending(d, was, now) ==
    [counters EXCEPT
        !.qualification_rejected = IF d = "REJECT" THEN @ + 1 ELSE @,
        !.qualification_unknown = IF d = "UNKNOWN" THEN @ + 1 ELSE @,
        !.qualified = Less(@ + (IF now THEN 1 ELSE 0), IF was THEN 1 ELSE 0)]

CountDecision(d, was, now) ==
    [counters EXCEPT
        !.qualification_pending = Less(@, 1),
        !.qualification_rejected = IF d = "REJECT" THEN @ + 1 ELSE @,
        !.qualification_unknown = IF d = "UNKNOWN" THEN @ + 1 ELSE @,
        !.qualified = Less(@ + (IF now THEN 1 ELSE 0), IF was THEN 1 ELSE 0)]

\* The writes of finalize_discovery_window.
CommitVerdict(w, reason, evidence) ==
    LET d == Evaluate(evidence, reason)
        m == MintOf[w]
        decided == IF ProjectionIsCurrent(w) THEN DecidedToken(token[m], w, d) ELSE token[m]
    IN /\ win' = [win EXCEPT ![w].status = "FINALIZED", ![w].reason = reason,
                             ![w].decision = d, ![w].snapshot = evidence]
       /\ token' = [token EXCEPT ![m] = decided]
       /\ counters' = CountDecision(d, token[m].stage = "QUALIFIED", decided.stage = "QUALIFIED")
       /\ UNCHANGED <<facts, member>>

Finalizable == fin.pc = "built" /\ win[fin.window].status = "ACTIVE" /\ Refusal(fin) = "nothing"

FinalizeDiscoveryWindow ==
    /\ Finalizable
    /\ CommitVerdict(fin.window, fin.reason, fin.evidence)
    /\ fin' = Idle
    /\ UNCHANGED <<run, phase, settled>>

\* Evidence that is still settling: the window stays active and is tried again.
DeferFinalization ==
    /\ fin.pc = "built"
    /\ Refusal(fin) \in {"projection missing", "evidence changed"}
    /\ fin' = Idle
    /\ UNCHANGED <<database, run, phase, settled>>

-----------------------------------------------------------------------------

\* A pipeline attempt begins under a new collector_run_id.
StartRun ==
    /\ phase = "down" /\ run < MaxRuns
    /\ run' = run + 1
    /\ phase' = "running"
    /\ settled' = {}
    /\ fin' = Idle
    /\ UNCHANGED database

\* Bound: the last attempt is left alone.
MayEnd == run < MaxRuns

\* The stream is stopped, or a task other than the finalizer failed: every
\* task is cancelled and the finalizer drains.
StopRun ==
    /\ phase = "running" /\ MayEnd
    /\ phase' = "draining"
    /\ UNCHANGED <<database, run, settled, fin>>

DrainShutdown ==
    /\ phase = "draining" /\ fin.pc = "idle"
    /\ phase' = "down"
    /\ UNCHANGED <<database, run, settled, fin>>

\* A crash, or an error that the finalizer returns.
Crash ==
    /\ Up /\ MayEnd
    /\ phase' = "down"
    /\ fin' = Idle
    /\ UNCHANGED <<database, run, settled>>

\* The verdict was committed but the answer was lost.
FinalizeUnacknowledged ==
    /\ Finalizable /\ MayEnd
    /\ CommitVerdict(fin.window, fin.reason, fin.evidence)
    /\ phase' = "down"
    /\ fin' = Idle
    /\ UNCHANGED <<run, settled>>

\* DiscoveryWindowFinalizationEvidenceMismatch ends the pipeline attempt.
FinalizationError ==
    /\ fin.pc = "built"
    /\ Refusal(fin) = "evidence mismatch"
    /\ phase' = "down"
    /\ fin' = Idle
    /\ UNCHANGED <<database, run, settled>>

-----------------------------------------------------------------------------

FinalizerStep ==
    \/ LoadDiscoveryWindow
    \/ FinalizeDiscoveryWindow
    \/ DeferFinalization
    \/ FinalizationError

RunStep == StartRun \/ StopRun \/ DrainShutdown \/ Crash \/ FinalizeUnacknowledged

FactStep(o) ==
    \/ InsertWindowObservation(o)
    \/ ReplayWindowObservation(o)
    \/ ProjectFact(o)
    \/ FailFact(o)
    \/ PruneRetainedHistory(o)

WindowStep(w) ==
    \/ OpenDiscoveryWindow(w)
    \/ ReplayOpening(w)
    \/ Settle(w)
    \/ \E reason \in Reasons : AttemptFinalizeWindow(w, reason)

Next ==
    \/ \E w \in Windows : WindowStep(w)
    \/ \E o \in Facts : FactStep(o)
    \/ FinalizerStep
    \/ RunStep

Spec == Init /\ [][Next]_vars

\* The worker and the finalizer of an attempt that is up run; each tick of the
\* finalizer goes through all the windows it may turn to, so one that is ready
\* again and again is attempted; an open window closes and settles; a failed
\* attempt is followed by another.
Fairness ==
    /\ \A o \in Facts : WF_vars(ProjectFact(o) \/ FailFact(o))
    /\ \A w \in Windows : /\ SF_vars(\E reason \in Reasons : AttemptFinalizeWindow(w, reason))
                          /\ WF_vars(Settle(w))
    /\ WF_vars(FinalizerStep)
    /\ WF_vars(StartRun \/ DrainShutdown)

FairSpec == Spec /\ Fairness

-----------------------------------------------------------------------------

\* The counters of discovery_projection_state always equal what a rebuild would
\* count: active windows, rejected and unknown assessments, qualified tokens.
CountersAgree ==
    counters =
        [qualification_pending |-> Cardinality({w \in Windows : win[w].status = "ACTIVE"}),
         qualification_rejected |-> Cardinality({w \in Windows : win[w].decision = "REJECT"}),
         qualification_unknown |-> Cardinality({w \in Windows : win[w].decision = "UNKNOWN"}),
         qualified |-> Cardinality({m \in Mints : token[m].stage = "QUALIFIED"})]

\* A verdict is about exactly the evidence that the database holds at the moment
\* it is committed, although the finalizer read it earlier and the processor of
\* a stopping pipeline may still be adding facts or lowering receipts.
VerdictMatchesEvidence ==
    [][\A w \in Windows :
         (win[w].status = "ACTIVE" /\ win'[w].status = "FINALIZED")
         => win'[w].snapshot = {<<o, facts'[o].early>> : o \in member'[w]}]_vars

\* A finalized window is frozen: its verdict and snapshot never change, and no
\* fact is admitted to it afterwards.
FinalizedIsFrozen ==
    [][\A w \in Windows :
         win[w].status = "FINALIZED" => win'[w] = win[w] /\ member'[w] \subseteq member[w]]_vars

\* A window that is finalized as complete has every fact of its evidence
\* projected or failed for good, and its opening projected, so the candidate
\* that the verdict is about exists.
CompleteVerdictIsProjected ==
    \A w \in Windows :
        (win[w].status = "FINALIZED" /\ win[w].reason = "none")
        => /\ token[MintOf[w]].stage # "ABSENT"
           /\ \A e \in win[w].snapshot : facts[e[1]].status \in Terminal \cup {"PRUNED"}
           /\ facts[Opening[w]].status \in {"COMPLETE", "PRUNED"}

\* Retention never takes evidence from a window that is still undecided, however
\* long the server was down.
ActiveEvidenceKept ==
    \A w \in Windows :
        win[w].status = "ACTIVE"
        => \A o \in Facts : facts[o].status = "PRUNED" => Fact[o].window # w

\* Every durable window gets a verdict, also if the attempt that opened it was
\* stopped, crashed or failed at any point.
EveryWindowIsDecided ==
    \A w \in Windows : win[w].status = "ACTIVE" ~> win[w].status = "FINALIZED"

Verdict(w) ==
    CASE win[w].status = "ABSENT" -> "unopened"
      [] win[w].status = "ACTIVE" -> "open"
      [] OTHER -> win[w].decision

Verdicts == INSTANCE WindowVerdicts WITH
    verdict <- [w \in Windows |-> Verdict(w)],
    undecided <- counters.qualification_pending,
    shown <- [m \in Mints |-> token[m].by]

\* Durable windows implement WindowVerdicts: one verdict per window whatever is
\* retried, and a candidate qualified only by a window that was its newest.
ImplementsVerdicts == Verdicts!VerdictsSpec
=============================================================================

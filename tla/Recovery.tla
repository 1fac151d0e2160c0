------------------------------ MODULE Recovery ------------------------------
(* Recovery of missed signatures: the pager over getSignaturesForAddress    *)
(* (solana-rpc/recovery.rs), the durable checkpoint and the gaps            *)
(* (persistence: checkpoints.rs, collection_gaps.rs).  No job of the server *)
(* calls them yet; they are put together as their comments say: a batch is  *)
(* processed before its head is saved, and a pager that fails leaves a gap. *)
EXTENDS Integers, Sequences, FiniteSets, Functions

CONSTANTS
    Blocks,      \* the program's signatures, oldest first: [slot, index], index 0 is unknown
    Workers,
    PageSize,
    MaxRecords,  \* safety limit of one recovery
    Oldest,      \* the oldest signature that the provider still has
    MaxGaps      \* bound on the rows of collection_gaps

\* A signature is its place in Blocks; 0 is none.
Places == 1..Len(Blocks)

\* What the chain guarantees: slots do not decrease, and within one the index
\* follows the order wherever it is known.
ASSUME BlocksAssumption ==
    /\ Blocks \in Seq([slot : Nat, index : Nat])
    /\ \A s, t \in Places : s < t =>
          /\ Blocks[s].slot <= Blocks[t].slot
          /\ Blocks[s].slot = Blocks[t].slot /\ Blocks[t].index # 0 =>
                Blocks[s].index < Blocks[t].index
    /\ Oldest \in Places /\ PageSize \in Nat \ {0} /\ MaxRecords \in Nat

VARIABLES
    head,        \* the newest signature on the chain
    checkpoint,  \* recovery_checkpoints
    gaps,        \* collection_gaps
    pager,       \* RecoveryPager of each worker
    processed    \* signatures whose batch was processed

recoveryVars == <<head, checkpoint, gaps, pager, processed>>

NoPager == [state |-> "none", checkpoint |-> 0, before |-> 0, records |-> <<>>, head |-> 0]

RecoveryInit ==
    /\ head = Oldest
    /\ checkpoint = 0
    /\ gaps = {}
    /\ pager = [w \in Workers |-> NoPager]
    /\ processed = {}

Produce ==
    /\ head < Len(Blocks)
    /\ head' = head + 1
    /\ UNCHANGED <<checkpoint, gaps, pager, processed>>

-----------------------------------------------------------------------------

\* load_recovery_checkpoint, then initial_head or after_checkpoint.
StartPager(w) ==
    /\ pager[w].state = "none"
    /\ pager' = [pager EXCEPT ![w] = [NoPager EXCEPT !.state = "paging",
                                                     !.checkpoint = checkpoint]]
    /\ UNCHANGED <<head, checkpoint, gaps, processed>>

\* signature_page: newest first, older than the cursor; short when exhausted.
Page(before) ==
    LET newest == IF before = 0 THEN head ELSE before - 1
        count == IF newest - Oldest + 1 < PageSize THEN newest - Oldest + 1 ELSE PageSize
    IN  [i \in 1..count |-> newest - i + 1]

Failed(p) == [p EXCEPT !.state = "failed", !.records = <<>>]

OldestFirst(records) == [i \in DOMAIN records |-> records[Len(records) - i + 1]]

\* finish_batch reverses the records and keeps the head checkpoint.
FinishBatchOf(p, records) ==
    [p EXCEPT !.state = "complete", !.records = OldestFirst(records),
              !.head = IF records = <<>> THEN p.checkpoint ELSE records[1]]

\* The place of the checkpoint in a page; 0 if the page does not have it.
Position(page, c) == IF c \in Range(page) THEN CHOOSE i \in DOMAIN page : page[i] = c ELSE 0

\* accept_page: until the page with the checkpoint everything is buffered.  What
\* has another shape than the request is refused before anything changes.
AcceptPage(p, page) ==
    LET at == Position(page, p.checkpoint)
        newer == IF at = 0 THEN page ELSE SubSeq(page, 1, at - 1)
        records == p.records \o newer
    IN  IF p.checkpoint = 0 THEN FinishBatchOf(p, page)
        ELSE IF Len(records) > MaxRecords THEN Failed(p)
        ELSE IF at > 0 THEN FinishBatchOf(p, records)
        ELSE IF Len(page) < PageSize THEN Failed(p)
        ELSE [p EXCEPT !.records = records, !.before = page[Len(page)]]

ReceivePage(w) ==
    /\ pager[w].state = "paging"
    /\ pager' = [pager EXCEPT ![w] = AcceptPage(@, Page(@.before))]
    /\ UNCHANGED <<head, checkpoint, gaps, processed>>

\* The slot of the checkpoint's signature is another one than was stored.
CheckpointMoved(w) ==
    /\ pager[w].state = "paging"
    /\ pager[w].checkpoint \in Range(Page(pager[w].before))
    /\ pager' = [pager EXCEPT ![w] = Failed(@)]
    /\ UNCHANGED <<head, checkpoint, gaps, processed>>

-----------------------------------------------------------------------------

ProcessRecovered(w) ==
    /\ pager[w].state = "complete"
    /\ processed' = processed \cup Range(pager[w].records)
    /\ pager' = [pager EXCEPT ![w].state = "processed"]
    /\ UNCHANGED <<head, checkpoint, gaps>>

\* Mutant: the worker that is last decides.
AdvanceAlways(old, new) == new

\* save_recovery_checkpoint: a later slot, or the same one at a later index.
AdvanceCheckpoint(old, new) ==
    IF \/ old = 0
       \/ Blocks[old].slot < Blocks[new].slot
       \/ /\ Blocks[old].slot = Blocks[new].slot
          /\ Blocks[old].index # 0 /\ Blocks[old].index < Blocks[new].index
    THEN new ELSE old

SaveRecoveryCheckpoint(w) ==
    /\ pager[w].state = "processed"
    /\ checkpoint' = IF pager[w].head = 0 THEN checkpoint
                     ELSE AdvanceCheckpoint(checkpoint, pager[w].head)
    /\ pager' = [pager EXCEPT ![w] = NoPager]
    /\ UNCHANGED <<head, gaps, processed>>

\* record_collection_gap: one row while the gap is not resolved.
RecordCollectionGap(w) ==
    /\ pager[w].state = "failed"
    /\ gaps' = gaps \cup {[prior |-> pager[w].checkpoint, through |-> 0]}
    /\ Cardinality(gaps') <= MaxGaps
    /\ pager' = [pager EXCEPT ![w] = NoPager]
    /\ UNCHANGED <<head, checkpoint, processed>>

\* position_precedes
PositionPrecedes(s, prior) ==
    \/ Blocks[s].slot < Blocks[prior].slot
    \/ /\ Blocks[s].slot = Blocks[prior].slot
       /\ Blocks[s].index # 0 /\ Blocks[s].index < Blocks[prior].index

\* resolve_collection_gap, through the checkpoint that a later recovery saved.
ResolveCollectionGap(g) ==
    /\ g.through = 0 /\ checkpoint # 0
    /\ ~PositionPrecedes(checkpoint, g.prior)
    /\ gaps' = (gaps \ {g}) \cup {[g EXCEPT !.through = checkpoint]}
    /\ UNCHANGED <<head, checkpoint, pager, processed>>

\* A worker dies wherever it is.
LoseWorker(w) ==
    /\ pager[w].state # "none"
    /\ pager' = [pager EXCEPT ![w] = NoPager]
    /\ UNCHANGED <<head, checkpoint, gaps, processed>>

RecoveryNext ==
    \/ Produce
    \/ \E w \in Workers :
        \/ StartPager(w) \/ ReceivePage(w) \/ CheckpointMoved(w)
        \/ ProcessRecovered(w) \/ SaveRecoveryCheckpoint(w)
        \/ RecordCollectionGap(w) \/ LoseWorker(w)
    \/ \E g \in gaps : ResolveCollectionGap(g)

RecoverySpec == RecoveryInit /\ [][RecoveryNext]_recoveryVars

-----------------------------------------------------------------------------

\* Once there is a checkpoint it only moves forward, also with late workers, and
\* a recovery after a checkpoint never passes over a signature that no processed
\* batch contained (initial_head is a new beginning and makes no such promise).
CheckpointSkipsNothing ==
    [][\A w \in Workers :
        checkpoint # 0 /\ checkpoint' # checkpoint /\ pager'[w] # pager[w] =>
            /\ checkpoint' > checkpoint
            /\ pager[w].checkpoint # 0 => checkpoint + 1 .. checkpoint' \subseteq processed
      ]_recoveryVars
=============================================================================

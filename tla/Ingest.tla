------------------------------- MODULE Ingest -------------------------------
(* How the processor turns the batches of decoded chain events into stored *)
(* facts: decode_batch_events and process_batch (jobs/pipeline.rs), the    *)
(* market registry and normalize_pump_event (jobs/normalization.rs), and   *)
(* the tables they write (persistence: observations.rs, quarantine.rs,     *)
(* pump_swap.rs, markets.rs).  Registry windows appear as far as a batch   *)
(* looks at them; ObservationWindows has the rest.                         *)
EXTENDS Integers, Sequences, Functions

CONSTANTS
    Transactions,  \* the transactions of the chain: events logged, and their CPI copies
    QuoteAssets,   \* supported quote mints
    Receipts,      \* receipt times of notifications
    MaxDeliveries, \* bound on the notifications that are followed up
    MaxRuns        \* bound on the pipelines, one after the other

Ids == DOMAIN Transactions
Discoveries == {"create", "create pool"}
SwapTrades == {"swap buy", "swap sell"}
SwapEvents == SwapTrades \cup {"deposit", "withdraw"}
Terminals == {"complete", "migrate"}
AllEvents == UNION {Range(Transactions[t].logged) : t \in Ids}
Targets == {e.target : e \in AllEvents}

VARIABLES
    database,  \* facts, quarantined, pools, opening keys, discovery_tokens, projected keys
    registry,  \* MarketRegistry: the known markets
    tokens,    \* the window token of each target
    fetches,   \* discovery reads under way
    batch,     \* the batch that the processor works on
    used       \* what is used of the bounds

ingestVars == <<database, registry, tokens, fetches, batch, used>>

NoToken == [state |-> "none", opened |-> 0]
Idle == [status |-> "idle", id |-> 0, purpose |-> "none", received |-> 0, targets |-> {},
         todo |-> {}, selected |-> {}, complete |-> TRUE]
NoTokens == [x \in Targets |-> NoToken]

IngestInit ==
    /\ database = [facts |-> {}, quarantined |-> {}, pools |-> {}, opened |-> {},
                    rows |-> {}, projected |-> {}]
    /\ registry = {}
    /\ tokens = NoTokens
    /\ fetches = {}
    /\ batch = Idle
    /\ used = [deliveries |-> 0, runs |-> 1]

-----------------------------------------------------------------------------
(* Pairs and markets.                                                      *)

\* normalize_pump_swap_pair: exactly one of the mints is a quote asset.
PairIsSupported(base, quote) == (base \in QuoteAssets) # (quote \in QuoteAssets)
TokenIsBase(base, quote) == quote \in QuoteAssets

SwapMarket(pool, base, quote) ==
    [market |-> pool, venue |-> "swap", tokenIsBase |-> TokenIsBase(base, quote),
     mint |-> IF TokenIsBase(base, quote) THEN base ELSE quote,
     quote |-> IF TokenIsBase(base, quote) THEN quote ELSE base]

CurveMarket(e) ==
    [market |-> e.target, venue |-> "curve", tokenIsBase |-> TRUE,
     mint |-> e.target, quote |-> e.quote]

\* register, register_pump_swap_pool: a market replaces what was known of it.
Register(known, m) == {k \in known : k.market # m.market} \cup {m}

\* retire_pump_market
Retire(known, mint) == {k \in known : k.market # mint}

Known(known, x) == \E k \in known : k.market = x
MarketOf(known, x) == CHOOSE k \in known : k.market = x

-----------------------------------------------------------------------------
(* normalize_pump_event                                                    *)

Coordinate(id, e) ==
    [program |-> e.program, id |-> id, instruction |-> e.instruction, event |-> e.event]

CurveEvents == {"create", "trade"} \cup Terminals
PoolEvents == {"create pool"} \cup SwapEvents
Undecoded == {"unknown", "ignored"}

\* What the chain guarantees: a coordinate names one event, the address of a curve
\* or a pool is created once, and only its own program logs events about it.
ASSUME ChainAssumption ==
    /\ Receipts \subseteq Nat
    /\ \A id \in Ids : \A d, e \in Range(Transactions[id].logged) :
          Coordinate(id, d) = Coordinate(id, e) => d = e
    /\ \A i, j \in Ids :
          \A d \in Range(Transactions[i].logged), e \in Range(Transactions[j].logged) :
            d.target = e.target /\ {d.kind, e.kind} \subseteq Discoveries => i = j /\ d = e
    /\ \A d, e \in AllEvents : d.target = e.target => d.program = e.program
    /\ \A e \in AllEvents :
          /\ \/ e.program = "pump" /\ e.kind \in CurveEvents \cup Undecoded
             \/ e.program = "swap" /\ e.kind \in PoolEvents \cup Undecoded
          /\ e.kind = "trade" => e.side \in {"buy", "sell"}

\* Why the event cannot be normalised, if it cannot.
Refused(e, known) ==
    IF e.kind \in SwapTrades \cup {"trade"} /\ (e.baseUnits = 0 \/ e.quoteUnits = 0)
    THEN "ZERO_TRADE_AMOUNT"
    ELSE IF e.kind = "trade" /\ ~Known(known, e.target) THEN "UNRESOLVED_PUMP_MARKET"
    ELSE IF e.kind = "trade" /\ MarketOf(known, e.target).quote # e.quote
    THEN "PUMP_QUOTE_MINT_MISMATCH"
    ELSE IF e.kind \in SwapEvents /\ ~Known(known, e.target) THEN "UNRESOLVED_PUMP_SWAP_MARKET"
    ELSE IF e.kind = "create pool" /\ ~PairIsSupported(e.base, e.quote)
    THEN "UNSUPPORTED_PUMP_SWAP_PAIR"
    ELSE "none"

EventMarket(e, known) ==
    CASE e.kind \in {"create"} \cup Terminals -> CurveMarket(e)
      [] e.kind = "create pool" -> SwapMarket(e.target, e.base, e.quote)
      [] OTHER -> MarketOf(known, e.target)

\* Mutant: amounts are oriented but the side of the trade is not.
SideAsReported(e, m) ==
    CASE e.kind = "trade" -> e.side
      [] e.kind = "swap buy" -> "buy"
      [] e.kind = "swap sell" -> "sell"
      [] OTHER -> "none"

\* A swap that buys the source's base sells the token when that is the quote.
SideOf(e, m) ==
    CASE e.kind = "trade" -> e.side
      [] e.kind = "swap buy" -> IF m.tokenIsBase THEN "buy" ELSE "sell"
      [] e.kind = "swap sell" -> IF m.tokenIsBase THEN "sell" ELSE "buy"
      [] OTHER -> "none"

\* orient_source_amounts puts the token first.
NormalizePumpEvent(id, e, received, known) ==
    LET m == EventMarket(e, known) IN
    [key |-> Coordinate(id, e), kind |-> e.kind, mint |-> m.mint, venue |-> m.venue,
     market |-> m.market, quote |-> m.quote, side |-> SideOf(e, m),
     baseUnits |-> IF m.tokenIsBase THEN e.baseUnits ELSE e.quoteUnits,
     quoteUnits |-> IF m.tokenIsBase THEN e.quoteUnits ELSE e.baseUnits,
     received |-> received]

-----------------------------------------------------------------------------
(* decode_batch_events                                                     *)

Matches(e, c) == e = [c EXCEPT !.event = e.event]

\* The CPI copies are visited in order and each takes the first logged event
\* that is equal, in the same instruction and not taken before; what is left
\* over has no canonical log.
Unmatched(logged, copies) ==
    LET free(c, taken) == {i \in DOMAIN logged \ taken : Matches(logged[i], c)}
        matched[n \in 0..Len(copies)] ==
            IF n = 0 THEN {}
            ELSE LET found == free(copies[n], matched[n - 1])
                 IN  matched[n - 1] \cup {i \in found : \A j \in found : i <= j}
    IN  {copies[n] : n \in {k \in DOMAIN copies : matched[k] = matched[k - 1]}}

Decodes(e) == e.kind \notin Undecoded
DecodedEvents(id) == {e \in Range(Transactions[id].logged) : Decodes(e)}

\* What decoding sets aside: events and copies that do not decode, decoded
\* copies without a logged event; with broken scopes the logs as a whole.
DecodeQuarantines(id, copies, scoped) ==
    LET logged == Transactions[id].logged
        unknown(s) == {Coordinate(id, e) : e \in {x \in Range(s) : x.kind = "unknown"}}
        program(p) == [program |-> p, id |-> id, instruction |-> 0, event |-> 0]
    IN  unknown(copies) \cup
        IF ~scoped THEN {program("pump"), program("swap")}
        ELSE unknown(logged) \cup
             {Coordinate(id, c) : c \in Unmatched(SelectSeq(logged, Decodes), SelectSeq(copies, Decodes))}

\* process_batch: discoveries first, then by program, instruction and event.
Rank(e) == <<IF e.kind \in Discoveries THEN 0 ELSE 1, IF e.program = "pump" THEN 0 ELSE 1,
             e.instruction, e.event>>
RankedBefore(d, e) ==
    \E i \in 1..4 : Rank(d)[i] < Rank(e)[i] /\ \A j \in 1..(i - 1) : Rank(d)[j] = Rank(e)[j]

\* Mutant: events are processed in the order in which they were logged.
LoggedFirst(e, todo) ==
    \A d \in todo : \/ d.instruction > e.instruction
                    \/ d.instruction = e.instruction /\ d.event >= e.event

\* The loop over the sorted events: of those to do, the one that no other precedes.
RankedFirst(e, todo) == \A d \in todo : ~RankedBefore(d, e)

-----------------------------------------------------------------------------
(* The collector: windows and reads, as far as batches depend on them.     *)

\* discovery_seed: a pool of an unsupported pair is no discovery.
IsSeed(e) ==
    \/ e.kind = "create"
    \/ e.kind = "create pool" /\ PairIsSupported(e.base, e.quote)

Seeds(id) == {e.target : e \in {x \in Range(Transactions[id].logged) : IsSeed(x)}}
Activity(id) == {e.target : e \in {x \in DecodedEvents(id) : x.kind \notin Discoveries}}

IsOpenAt(x, t) == tokens[x].state \in {"pending", "confirmed"} /\ tokens[x].opened <= t
IsConfirmedAt(x, t) == tokens[x].state = "confirmed" /\ tokens[x].opened <= t

\* The windows already open that the transaction is activity of.
Tracked(id, t) == {x \in Activity(id) : IsOpenAt(x, t)}

Deliver ==
    /\ used.deliveries < MaxDeliveries
    /\ used' = [used EXCEPT !.deliveries = @ + 1]

\* A fresh discovery opens provisional windows and is read again over HTTP.
FetchDiscovery(id, t) ==
    LET new == {x \in Seeds(id) : tokens[x] = NoToken} IN
    /\ new # {}
    /\ tokens' = [x \in Targets |-> IF x \in new THEN [state |-> "pending", opened |-> t]
                                    ELSE tokens[x]]
    /\ fetches' = fetches \cup {[id |-> id, received |-> t, targets |-> new,
                                 tracked |-> Tracked(id, t), read |-> FALSE, scoped |-> TRUE]}
    /\ Deliver
    /\ UNCHANGED <<database, registry, batch>>

Cancelled(S) == [x \in Targets |-> IF x \in S /\ tokens[x].state = "pending"
                                   THEN [tokens[x] EXCEPT !.state = "cancelled"] ELSE tokens[x]]

\* What is left of a notification for the windows that were open before it.
Remaining(f) == IF f.tracked = {} THEN {} ELSE {[f EXCEPT !.targets = {}]}

\* The read fails, comes too late or says something else: the provisional windows
\* are cancelled, and the notification itself is the activity of the others.
CancelDiscovery(f) ==
    /\ f.targets # {}
    /\ tokens' = Cancelled(f.targets)
    /\ fetches' = (fetches \ {f}) \cup Remaining(f)
    /\ UNCHANGED <<database, registry, batch, used>>

StartBatch(id, purpose, t, targets, copies, scoped) ==
    LET aside == DecodeQuarantines(id, copies, scoped) IN
    /\ batch.status = "idle"
    /\ batch' = [status |-> "running", id |-> id, purpose |-> purpose, received |-> t,
                 targets |-> targets, selected |-> {}, complete |-> aside = {},
                 todo |-> IF scoped THEN DecodedEvents(id) ELSE {}]
    /\ database' = [database EXCEPT !.quarantined = @ \cup aside]
    /\ UNCHANGED <<registry, tokens>>

\* The answer carries the CPI copies, and its logs may be cut short.  It makes a
\* discovery batch, and one for the windows that were open before.
ReceiveDiscovery(f) ==
    /\ f.targets # {}
    /\ \E scoped \in BOOLEAN :
        /\ StartBatch(f.id, "discovery", f.received, f.targets, Transactions[f.id].copies, scoped)
        /\ fetches' = (fetches \ {f}) \cup
                      Remaining([f EXCEPT !.read = TRUE, !.scoped = scoped])
    /\ UNCHANGED used

ReceiveTracked(f) ==
    /\ f.targets = {}
    /\ StartBatch(f.id, "activity", f.received, f.tracked,
                  IF f.read THEN Transactions[f.id].copies ELSE <<>>, f.scoped)
    /\ fetches' = fetches \ {f}
    /\ UNCHANGED used

\* Other activity comes from the notification, which has no instruction bytes;
\* while a window is provisional it is held back, but not for ever.
ReceiveActivity(id, t) ==
    /\ Tracked(id, t) # {}
    /\ StartBatch(id, "activity", t, Tracked(id, t), <<>>, TRUE)
    /\ Deliver
    /\ UNCHANGED fetches

-----------------------------------------------------------------------------
(* process_batch, one event after the other.                               *)

\* batch_selects_event
BatchSelects(e) ==
    \/ /\ batch.purpose = "discovery" /\ IsSeed(e)
       /\ e.target \in batch.targets /\ IsOpenAt(e.target, batch.received)
    \/ /\ e.kind \notin Discoveries
       /\ e.target \in batch.targets /\ IsConfirmedAt(e.target, batch.received)

\* insert_chain_observation: one row per coordinate; a replay keeps the earliest
\* receipt, unless the fact opened a window.
InsertObservation(facts, f, opened) ==
    IF ~\E g \in facts : g.key = f.key THEN facts \cup {f}
    ELSE {IF g.key = f.key /\ f.received < g.received /\ g.key \notin opened
          THEN [g EXCEPT !.received = f.received] ELSE g : g \in facts}

\* compatible_replay: a replay may differ in its receipt only.
Conflicts(f) ==
    \E g \in database.facts : g.key = f.key /\ g # [f EXCEPT !.received = g.received]

\* upsert_pump_swap_pool: one identity per pool, and no other ever after.
UpsertPool(pools, e) ==
    IF \E p \in pools : p.pool = e.target THEN pools
    ELSE pools \cup {[pool |-> e.target, base |-> e.base, quote |-> e.quote]}

PoolConflicts(e) ==
    \E p \in database.pools : p.pool = e.target /\ (p.base # e.base \/ p.quote # e.quote)

Advance(e, complete) ==
    batch' = [batch EXCEPT !.todo = @ \ {e}, !.selected = @ \cup {e}, !.complete = @ /\ complete]

FailBatch == batch' = [batch EXCEPT !.status = "failed"]

SkipEvent(e) ==
    /\ ~BatchSelects(e)
    /\ batch' = [batch EXCEPT !.todo = @ \ {e}]
    /\ UNCHANGED <<database, registry, tokens>>

\* record_intake_quarantine: one row per coordinate.
QuarantineEvent(e) ==
    /\ Refused(e, registry) # "none"
    /\ database' = [database EXCEPT !.quarantined = @ \cup {Coordinate(batch.id, e)}]
    /\ Advance(e, FALSE)
    /\ UNCHANGED <<registry, tokens>>

\* open_discovery_window answers that the discovery was handled before.
ReplayDiscovery(e, f) ==
    /\ f.key \in database.opened
    /\ tokens' = Cancelled({e.target})
    /\ Advance(e, TRUE)
    /\ UNCHANGED <<database, registry>>

\* The window is opened durably, the token confirmed, the market registered.
OpenDiscovery(e, f) ==
    LET committed == [database EXCEPT !.facts = InsertObservation(@, f, database.opened),
                                      !.opened = @ \cup {f.key}]
    IN  /\ f.key \notin database.opened
        /\ database' = IF Conflicts(f) THEN database
                       ELSE IF e.kind = "create" \/ PoolConflicts(e) THEN committed
                       ELSE [committed EXCEPT !.pools = UpsertPool(@, e)]
        /\ IF Conflicts(f) THEN FailBatch /\ UNCHANGED <<registry, tokens>>
           ELSE /\ tokens' = [tokens EXCEPT ![e.target].state = "confirmed"]
                /\ IF e.kind = "create pool" /\ PoolConflicts(e) THEN FailBatch /\ UNCHANGED registry
                   ELSE Advance(e, TRUE) /\ registry' = Register(registry, EventMarket(e, registry))

\* The token is cancelled while its window is opened durably: confirm() refuses,
\* and with the batch the pipeline fails.
OpenCancelled(e, f) ==
    /\ f.key \notin database.opened /\ ~Conflicts(f)
    /\ tokens[e.target].state = "pending"
    /\ tokens' = Cancelled({e.target})
    /\ database' = [database EXCEPT !.facts = InsertObservation(@, f, database.opened),
                                    !.opened = @ \cup {f.key}]
    /\ FailBatch
    /\ UNCHANGED registry

\* insert_window_observation or insert_observation; the end of a curve retires it.
StoreActivity(e, f) ==
    /\ IF Conflicts(f) THEN FailBatch /\ UNCHANGED <<database, registry>>
       ELSE /\ database' = [database EXCEPT !.facts = InsertObservation(@, f, database.opened)]
            /\ registry' = IF e.kind \in Terminals THEN Retire(registry, e.target) ELSE registry
            /\ Advance(e, TRUE)
    /\ UNCHANGED tokens

ProcessEvent ==
    /\ batch.status = "running"
    /\ \E e \in batch.todo :
        /\ RankedFirst(e, batch.todo)
        /\ LET f == NormalizePumpEvent(batch.id, e, batch.received, registry)
           IN  \/ SkipEvent(e)
               \/ BatchSelects(e) /\ QuarantineEvent(e)
               \/ /\ BatchSelects(e) /\ Refused(e, registry) = "none"
                  /\ IF e.kind \in Discoveries
                     THEN ReplayDiscovery(e, f) \/ OpenDiscovery(e, f) \/ OpenCancelled(e, f)
                     ELSE StoreActivity(e, f)
    /\ UNCHANGED <<fetches, used>>

\* The end of process_batch; the windows of a batch that is incomplete or
\* selected nothing are marked so (see ObservationWindows).
FinishBatch ==
    /\ batch.status = "running" /\ batch.todo = {}
    /\ tokens' = IF batch.purpose = "discovery" THEN Cancelled(batch.targets) ELSE tokens
    /\ batch' = Idle
    /\ UNCHANGED <<database, registry, fetches, used>>

-----------------------------------------------------------------------------
(* What happens to the tables meanwhile.                                   *)

\* The discovery worker: the row of a mint follows its newest slot.
ProjectFact(f) ==
    /\ f.key \notin database.projected
    /\ database' = [database EXCEPT
            !.projected = @ \cup {f.key},
            !.rows = IF \E r \in @ : r.mint = f.mint /\ r.key.id > f.key.id THEN @
                     ELSE {r \in @ : r.mint # f.mint} \cup {f}]
    /\ UNCHANGED <<registry, tokens, fetches, batch, used>>

\* Retention: old facts whose work is over go, those of an active window do not.
PruneFact(f) ==
    /\ f.key \in database.projected
    /\ \A x \in Targets : tokens[x].state = "confirmed" => f.market # x
    /\ database' = [database EXCEPT !.facts = @ \ {f}]
    /\ UNCHANGED <<registry, tokens, fetches, batch, used>>

\* Mutant: only the token's own row is asked whether the curve has ended.
HydrateByRow(d) ==
    {[market |-> r.market, venue |-> "curve", tokenIsBase |-> TRUE,
      mint |-> r.mint, quote |-> r.quote] :
        r \in {x \in d.rows : x.venue = "curve" /\ x.kind \notin Terminals}}
    \cup {SwapMarket(p.pool, p.base, p.quote) :
            p \in {x \in d.pools : PairIsSupported(x.base, x.quote)}}

\* hydrate_market_registry, load_discovery_markets, load_pump_swap_pools
HydrateMarketRegistry(d) ==
    LET ended(r) == r.kind \in Terminals
                    \/ \E f \in d.facts : f.mint = r.mint /\ f.kind \in Terminals
    IN  {[market |-> r.market, venue |-> "curve", tokenIsBase |-> TRUE,
          mint |-> r.mint, quote |-> r.quote] :
            r \in {x \in d.rows : x.venue = "curve" /\ ~ended(x)}}
        \cup {SwapMarket(p.pool, p.base, p.quote) :
                p \in {x \in d.pools : PairIsSupported(x.base, x.quote)}}

\* The pipeline fails, is stopped or crashes, and another one starts.
Restart ==
    /\ used.runs < MaxRuns
    /\ used' = [used EXCEPT !.runs = @ + 1]
    /\ registry' = HydrateMarketRegistry(database)
    /\ tokens' = NoTokens
    /\ fetches' = {}
    /\ batch' = Idle
    /\ UNCHANGED database

IngestNext ==
    \/ \E id \in Ids, t \in Receipts : FetchDiscovery(id, t) \/ ReceiveActivity(id, t)
    \/ \E f \in fetches : CancelDiscovery(f) \/ ReceiveDiscovery(f) \/ ReceiveTracked(f)
    \/ ProcessEvent
    \/ FinishBatch
    \/ \E f \in database.facts : ProjectFact(f) \/ PruneFact(f)
    \/ Restart

IngestSpec == IngestInit /\ [][IngestNext]_ingestVars

-----------------------------------------------------------------------------

\* What a transaction says of a confirmed window is never dropped silently: when
\* the events of a batch are through, each one about a window of the batch that is
\* confirmed by then, if only by the same batch, is stored, with a receipt no later
\* than the batch's unless it opened a window, or evidence was quarantined for it
\* and the batch is incomplete (process_batch takes discoveries first).
WindowActivityIsStored ==
    batch.status = "running" /\ batch.todo = {} =>
        \A e \in DecodedEvents(batch.id) :
            LET k == Coordinate(batch.id, e) IN
            e.target \in batch.targets /\ IsConfirmedAt(e.target, batch.received) =>
                \/ k \in database.opened
                \/ \E f \in database.facts : f.key = k /\ f.received <= batch.received
                \/ /\ ~batch.complete
                   /\ \E q \in database.quarantined :
                        q = k \/ q = [k EXCEPT !.instruction = 0, !.event = 0]

\* What the chain says of an event: the token of a pair, and whether the trader
\* received it.
Chain(k) == CHOOSE e \in Range(Transactions[k.id].logged) : Coordinate(k.id, e) = k
Creation(x) == CHOOSE e \in AllEvents : e.target = x /\ e.kind \in Discoveries
TokenOf(x) == LET c == Creation(x) IN
    IF c.kind = "create" THEN c.target ELSE CHOOSE y \in {c.base, c.quote} : y \notin QuoteAssets
ReceivesBase(e) == e.kind = "swap buy" \/ (e.kind = "trade" /\ e.side = "buy")
TokenIsSourceBase(e) == e.kind = "trade" \/ TokenOf(e.target) = Creation(e.target).base

\* A stored trade says what the trader did with the token, whichever side of the
\* pool's pair it is on, and whichever route the event came by: the token that was
\* created, bought if it was received, and the units of token and quote.
FactsAreCanonical ==
    \A f \in {g \in database.facts : g.kind \in SwapTrades \cup {"trade"}} :
        LET e == Chain(f.key) IN
        /\ f.mint = TokenOf(e.target)
        /\ f.side = (IF ReceivesBase(e) = TokenIsSourceBase(e) THEN "buy" ELSE "sell")
        /\ <<f.baseUnits, f.quoteUnits>> =
              IF TokenIsSourceBase(e) THEN <<e.baseUnits, e.quoteUnits>>
              ELSE <<e.quoteUnits, e.baseUnits>>

\* While the end of a curve is stored, the curve is not among the markets of the
\* registry: not in the run that saw the end, and in no later one, whatever the
\* worker has projected by then.
RetiredCurvesStayRetired ==
    \A f \in database.facts : f.kind \in Terminals => ~Known(registry, f.market)
=============================================================================

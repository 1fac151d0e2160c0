--------------------------- MODULE WindowSnapshot ---------------------------
(* The snapshot of one market window and the verdict read off it: pure     *)
(* functions of the observations, the window and the policy                *)
(* (discovery-engine: snapshot.rs, qualification.rs).  Sums are u128 in    *)
(* the code; here they are at most MaxUnits, and what does not fit is      *)
(* ArithmeticOverflow.  The product of two u64 amounts always fits.        *)
EXTENDS Integers, Sequences, FiniteSets, FiniteSetsExt, Functions

CONSTANTS
    Observations,    \* the observations a window may be given
    Policies,        \* the qualification policies
    QuoteMints,      \* quote mints of the market, "none" included
    MaxObservations, \* bound on the observations of a window
    MaxUnits,        \* u128::MAX
    BasisPoints,     \* BASIS_POINTS_SCALE
    Closes           \* closes_at of the window, which opens at 0

VARIABLES
    observed,   \* the observations, in the order they were loaded
    question    \* the market's quote mint, the completeness and the policy

snapshotVars == <<observed, question>>

Overflow == -1
Absent == -1            \* None, of an amount
None == <<>>            \* None, of anything else; Some(x) is <<x>>
Market == "market"      \* the market of the window

Fits(n) == n <= MaxUnits

\* Times, slots, indices and signatures compare as integers, with -1 for None;
\* wallet 0 is the blank one.
ObservationKeys ==
    [slot : Int, index : Int, signature : Int, instruction : Int, event : Int, program : Int]
ASSUME SnapshotAssumption ==
    /\ \A o \in Observations :
        /\ o.key \in ObservationKeys /\ o.received \in Int
        /\ o.kind = "trade" =>
             o.side \in {"buy", "sell"} /\ o.wallet \in Nat /\ o.base \in Nat /\ o.quote \in Nat
        /\ o.kind \in {"token created", "market created"} => o.wallet \in Nat
    /\ \A p \in Policies : \A f \in {"trades", "traders", "buys", "sells", "native", "stable", "share"} :
        p[f] \in Nat
    /\ BasisPoints \in Nat \ {0} /\ MaxUnits \in Nat /\ BasisPoints <= MaxUnits
    /\ BasisPoints * (BasisPoints - 1) <= MaxUnits

-----------------------------------------------------------------------------
(* Exact fractions.                                                        *)

\* ceil(multiplier * value / divisor), multiplier <= divisor.
CeilScaledDenominator(multiplier, value, divisor) ==
    LET whole == (value \div divisor) * multiplier
        product == (value % divisor) * multiplier
        fraction == (product \div divisor) + (IF product % divisor # 0 THEN 1 ELSE 0)
    IN  IF multiplier <= divisor /\ Fits(whole) /\ Fits(product) /\ Fits(whole + fraction)
        THEN whole + fraction ELSE Overflow

\* One turn of the bisection; a closed interval stays as it is.
Halve(range, numerator, denominator, scale) ==
    LET middle == range.low + ((range.high - range.low + 1) \div 2)
        least == CeilScaledDenominator(middle, denominator, scale)
    IN  IF range.low >= range.high THEN range
        ELSE IF least = Overflow THEN [low |-> Overflow, high |-> Overflow]
        ELSE IF least <= numerator THEN [low |-> middle, high |-> range.high]
        ELSE [low |-> range.low, high |-> middle - 1]

\* floor(numerator * scale / denominator), numerator < denominator.  Every turn
\* shortens an open interval, so after scale turns it has closed.
ScaledProperFraction(numerator, denominator, scale) ==
    LET After[turn \in 0..scale] ==
            IF turn = 0 THEN [low |-> 0, high |-> scale]
            ELSE Halve(After[turn - 1], numerator, denominator, scale)
    IN  IF numerator = 0 \/ scale = 0 THEN 0 ELSE After[scale].low

\* floor(numerator * scale / denominator).
CheckedScaledRatio(numerator, denominator, scale) ==
    IF denominator = 0 THEN Overflow
    ELSE LET whole == (numerator \div denominator) * scale
             fraction == ScaledProperFraction(numerator % denominator, denominator, scale)
         IN  IF Fits(whole) /\ fraction # Overflow /\ Fits(whole + fraction)
             THEN whole + fraction ELSE Overflow

\* The largest numerator with numerator / denominator <= limit / BasisPoints.
FractionWithinBasisPointLimit(denominator, limit) ==
    IF limit = Overflow \/ limit > BasisPoints THEN Overflow
    ELSE CheckedScaledRatio(denominator, BasisPoints, limit)

\* Mutant: the share is rounded down.
FractionRoundedDown(numerator, denominator) ==
    IF denominator = 0 \/ numerator > denominator THEN Overflow
    ELSE CheckedScaledRatio(numerator, denominator, BasisPoints)

\* The share in basis points, rounded up.
FractionToBasisPoints(numerator, denominator) ==
    LET floor == CheckedScaledRatio(numerator, denominator, BasisPoints)
        most == FractionWithinBasisPointLimit(denominator, floor)
    IN  IF denominator = 0 \/ numerator > denominator \/ most = Overflow THEN Overflow
        ELSE IF numerator <= most THEN floor ELSE floor + 1

-----------------------------------------------------------------------------
(* Prices, as reduced fractions of quote over base.                        *)

GreatestCommonDivisor(a, b) ==
    LET Gcd[x \in Nat, y \in Nat] == IF y = 0 THEN x ELSE Gcd[y, x % y] IN Gcd[a, b]

PriceRatio(quote, base) ==
    LET d == GreatestCommonDivisor(quote, base) IN [quote |-> quote \div d, base |-> base \div d]

Cheaper(p, q) == p.ratio.quote * q.ratio.base < q.ratio.quote * p.ratio.base

\* A u128 as an i128, which reaches one further below zero than above.
SignedMagnitude(magnitude, negative) ==
    IF magnitude = Overflow \/ magnitude > (MaxUnits \div 2) + (IF negative THEN 1 ELSE 0) THEN None
    ELSE <<IF negative THEN -magnitude ELSE magnitude>>

\* The signed change, left out when it does not fit.
PriceChangeBasisPoints(first, last) ==
    LET new == last.quote * first.base
        old == first.quote * last.base
        difference == IF new >= old THEN new - old ELSE old - new
    IN  SignedMagnitude(CheckedScaledRatio(difference, old, BasisPoints), new < old)

\* Ties go to the earliest point.
SummarizePrices(points) ==
    IF points = <<>> THEN None
    ELSE LET Lowest(p) == \A k \in DOMAIN points : ~Cheaper(points[k], p)
             Highest(p) == \A k \in DOMAIN points : ~Cheaper(p, points[k])
             last == points[Len(points)]
         IN  <<[first |-> Head(points), last |-> last,
                low |-> points[Min({k \in DOMAIN points : Lowest(points[k])})],
                high |-> points[Min({k \in DOMAIN points : Highest(points[k])})],
                change |-> PriceChangeBasisPoints(Head(points).ratio, last.ratio)]>>

-----------------------------------------------------------------------------
(* Reserves: the extreme values and who reported them first.               *)

\* update_extrema over all samples: the least (sign 1) or the greatest (-1).
Extremum(samples, field, sign) ==
    LET known == SelectSeq(samples, LAMBDA s : s[field] # Absent)
        Extreme(s) == \A k \in DOMAIN known : sign * s[field] <= sign * known[k][field]
    IN  IF known = <<>> THEN None ELSE <<known[Min({k \in DOMAIN known : Extreme(known[k])})]>>

SummarizeReserves(samples) ==
    IF samples = <<>> THEN None
    ELSE <<[first |-> Head(samples), latest |-> samples[Len(samples)],
            minimumBase |-> Extremum(samples, "base", 1),
            maximumBase |-> Extremum(samples, "base", -1),
            minimumQuote |-> Extremum(samples, "quote", 1),
            maximumQuote |-> Extremum(samples, "quote", -1)]>>

-----------------------------------------------------------------------------
(* Totals, per wallet and over all wallets.                                *)

NoTrades == [buys |-> 0, sells |-> 0, buyBase |-> 0, sellBase |-> 0,
             buyQuote |-> 0, sellQuote |-> 0]

\* WalletMetrics::checked_record and the totals of MetricsAccumulator.
RecordTrade(m, t) ==
    IF t.side = "buy"
    THEN [m EXCEPT !.buys = @ + 1, !.buyBase = @ + t.base, !.buyQuote = @ + t.quote]
    ELSE [m EXCEPT !.sells = @ + 1, !.sellBase = @ + t.base, !.sellQuote = @ + t.quote]

QuoteUnits(m) == m.buyQuote + m.sellQuote

\* MetricsAccumulator::checked_record.
RecordMetrics(acc, t) ==
    LET w == IF t.wallet \in DOMAIN acc.wallets THEN acc.wallets[t.wallet] ELSE NoTrades
    IN  [total |-> RecordTrade(acc.total, t),
         wallets |-> [x \in DOMAIN acc.wallets \cup {t.wallet} |->
                        IF x = t.wallet THEN RecordTrade(w, t) ELSE acc.wallets[x]]]

NoWallet(o) == o.kind = "trade" /\ o.wallet = 0
NoAmount(o) == o.kind = "trade" /\ o.wallet # 0 /\ (o.base = 0 \/ o.quote = 0)
IsValidTrade(o) == o.kind = "trade" /\ ~NoWallet(o) /\ ~NoAmount(o)

\* What the loop over the observations has recorded after the first k.
Recorded(matching) ==
    LET After[k \in 0..Len(matching)] ==
            IF k = 0 THEN [total |-> NoTrades, wallets |-> [w \in {} |-> NoTrades]]
            ELSE IF IsValidTrade(matching[k]) THEN RecordMetrics(After[k - 1], matching[k])
            ELSE After[k - 1]
    IN  After[Len(matching)]

\* Every sum only grows, so one that overflows on the way does so at the end.
SumsFit(m) == /\ \A f \in DOMAIN m : Fits(m[f])
              /\ Fits(QuoteUnits(m))

WalletVolume(acc, w) == QuoteUnits(acc.wallets[w])
WalletShare(acc, w) == FractionToBasisPoints(WalletVolume(acc, w), QuoteUnits(acc.total))

\* The wallets are visited in order; a later one replaces only when larger.
Replaces(acc, w) == \A x \in DOMAIN acc.wallets : x < w => WalletVolume(acc, x) < WalletVolume(acc, w)

LargestWallet(acc) ==
    LET w == CHOOSE x \in DOMAIN acc.wallets :
                Replaces(acc, x) /\ \A y \in DOMAIN acc.wallets : x < y => ~Replaces(acc, y)
    IN  IF DOMAIN acc.wallets = {} THEN None
        ELSE <<[wallet |-> w, quote |-> WalletVolume(acc, w), share |-> WalletShare(acc, w)]>>

\* The creators are visited in order too.
CreatorVolume(acc, creators) ==
    LET UpTo[w \in 0..Max(creators)] ==
            IF w = 0 THEN 0
            ELSE UpTo[w - 1]
                 + (IF w \in creators \cap DOMAIN acc.wallets THEN WalletVolume(acc, w) ELSE 0)
        quote == UpTo[Max(creators)]
        total == QuoteUnits(acc.total)
    IN  IF creators = {} THEN None
        ELSE <<[wallets |-> creators, quote |-> quote,
                share |-> IF total > 0 THEN <<FractionToBasisPoints(quote, total)>> ELSE None]>>

\* The share of a wallet that was the largest so far, or of the creators, is too
\* large a number.
SharesOverflow(acc, creators) ==
    \/ \E w \in DOMAIN acc.wallets : Replaces(acc, w) /\ WalletShare(acc, w) = Overflow
    \/ \E c \in Range(CreatorVolume(acc, creators)) : c.share = <<Overflow>>

\* MetricsAccumulator::finish.
Finish(acc, count, creators, trades) ==
    [observations |-> count, total |-> acc.total, wallets |-> acc.wallets,
     trades |-> acc.total.buys + acc.total.sells,
     traders |-> Cardinality(DOMAIN acc.wallets),
     buyers |-> Cardinality({w \in DOMAIN acc.wallets : acc.wallets[w].buys > 0}),
     sellers |-> Cardinality({w \in DOMAIN acc.wallets : acc.wallets[w].sells > 0}),
     largest |-> LargestWallet(acc), creator |-> CreatorVolume(acc, creators),
     firstTrade |-> IF trades = <<>> THEN None ELSE <<Head(trades).key, Head(trades).received>>,
     lastTrade |-> IF trades = <<>> THEN None ELSE <<trades[Len(trades)].key, trades[Len(trades)].received>>]

-----------------------------------------------------------------------------
(* build_market_window_snapshot                                            *)

\* The first coordinate in which the keys differ decides; None is before Some.
OrderedBy(a, b) == \E i \in DOMAIN a : a[i] < b[i] /\ \A j \in 1..(i - 1) : a[j] = b[j]

Coordinates(o) == <<o.received, o.key.slot, o.key.index, o.key.signature, o.key.instruction,
                    o.key.event, o.key.program>>

\* Mutant: the event index does not take part in the order.
OrderWithoutEvent(l, r) ==
    OrderedBy(<<l.received, l.key.slot, l.key.index, l.key.signature, l.key.instruction>>,
              <<r.received, r.key.slot, r.key.index, r.key.signature, r.key.instruction>>)

ObservationOrder(l, r) == OrderedBy(Coordinates(l), Coordinates(r))

\* Whether observation j is placed before observation k: the sort is stable.
SortsBefore(observations, j, k) ==
    \/ ObservationOrder(observations[j], observations[k])
    \/ j < k /\ ~ObservationOrder(observations[k], observations[j])

InWindow(o) == o.market = Market /\ 0 <= o.received /\ o.received < Closes

UsedIn(observations) == {k \in DOMAIN observations : InWindow(observations[k])}

\* The place of observation k among the sorted ones.
Place(observations, k) ==
    1 + Cardinality({j \in UsedIn(observations) : SortsBefore(observations, j, k)})

\* The observations of the window, sorted.
Matching(observations) ==
    [place \in 1..Cardinality(UsedIn(observations)) |->
        observations[CHOOSE k \in UsedIn(observations) : Place(observations, k) = place]]

IsDuplicated(matching) ==
    \E i, j \in DOMAIN matching : i # j /\ matching[i].key = matching[j].key

\* The first invalid trade makes a complete window incomplete.
CompletenessOf(matching, given) ==
    LET invalid == {k \in DOMAIN matching : NoWallet(matching[k]) \/ NoAmount(matching[k])} IN
    IF given # "complete" \/ invalid = {} THEN given
    ELSE IF NoWallet(matching[Min(invalid)]) THEN "INVALID_TRADE_WALLET" ELSE "INVALID_TRADE_AMOUNT"

Liquidity == {"deposit", "withdraw"}
HasReserves(o) ==
    \/ o.kind \in Liquidity
    \/ o.kind = "trade" /\ (o.baseReserve # Absent \/ o.quoteReserve # Absent)

Keys(s) == [k \in DOMAIN s |-> s[k].key]
OfKind(s, kinds) == SelectSeq(s, LAMBDA o : o.kind \in kinds)

PricePoints(trades) ==
    [k \in DOMAIN trades |-> [key |-> trades[k].key, received |-> trades[k].received,
                              ratio |-> PriceRatio(trades[k].quote, trades[k].base)]]

ReserveSamples(s) ==
    [k \in DOMAIN s |-> [key |-> s[k].key, received |-> s[k].received,
                         base |-> s[k].baseReserve, quote |-> s[k].quoteReserve]]

CreatorWallets(matching) ==
    {matching[k].wallet : k \in {l \in DOMAIN matching :
                                    matching[l].kind \in {"token created", "market created"}}} \ {0}

\* The snapshot of the observations of the window, in their order.
SnapshotOf(matching, given) ==
    LET valid == SelectSeq(matching, LAMBDA o : o.kind # "trade" \/ IsValidTrade(o))
        trades == OfKind(valid, {"trade"})
        acc == Recorded(matching)
        creators == CreatorWallets(matching)
    IN  IF IsDuplicated(matching) THEN [error |-> "duplicate observation"]
        ELSE IF ~SumsFit(acc.total) \/ SharesOverflow(acc, creators) THEN [error |-> "overflow"]
        ELSE [error |-> "none",
              completeness |-> CompletenessOf(matching, given),
              keys |-> Keys(matching), trades |-> Keys(trades),
              liquidity |-> Keys(OfKind(matching, Liquidity)),
              completion |-> Keys(OfKind(matching, {"completed"})),
              migration |-> Keys(OfKind(matching, {"migrated"})),
              metrics |-> Finish(acc, Len(matching), creators, trades),
              reserves |-> SummarizeReserves(ReserveSamples(SelectSeq(valid, HasReserves))),
              prices |-> SummarizePrices(PricePoints(trades)),
              latestSlot |-> {matching[k].key.slot : k \in {l \in DOMAIN matching :
                    \A m \in DOMAIN matching : matching[m].key.slot <= matching[l].key.slot}}]

BuildMarketWindowSnapshot(observations, given) == SnapshotOf(Matching(observations), given)

-----------------------------------------------------------------------------
(* evaluate_qualification                                                  *)

ClassifyQuoteAsset(mint) ==
    CASE mint \in {"native SOL", "wrapped SOL"} -> "native"
      [] mint = "USDC" -> "stable"
      [] OTHER -> "unsupported"

\* QualificationPolicy::validate
PolicyIsValid(p) ==
    /\ p.share <= BasisPoints
    /\ p.traders <= p.trades /\ p.buys <= p.trades /\ p.sells <= p.trades

MinimumRule(actual, minimum) == IF actual >= minimum THEN "PASS" ELSE "REJECT"

VolumeRule(asset, volume, p) ==
    CASE asset = "native" -> MinimumRule(volume, p.native)
      [] asset = "stable" -> MinimumRule(volume, p.stable)
      [] OTHER -> "UNKNOWN"

ConcentrationRule(largest, p) ==
    IF largest = None THEN "UNKNOWN"
    ELSE IF largest[1].share <= p.share THEN "PASS" ELSE "REJECT"

RuleIds == {"complete", "quote asset", "trades", "traders", "buys", "sells", "volume",
            "concentration"}

Aggregate(rules) ==
    IF \E r \in RuleIds : rules[r] = "REJECT" THEN "REJECT"
    ELSE IF \E r \in RuleIds : rules[r] = "UNKNOWN" THEN "UNKNOWN" ELSE "PASS"

RulesOf(snapshot, mint, p) ==
    LET m == snapshot.metrics
        asset == ClassifyQuoteAsset(mint)
    IN  [r \in RuleIds |->
            IF snapshot.completeness # "complete" THEN "UNKNOWN"
            ELSE CASE r = "complete" -> "PASS"
              [] r = "quote asset" -> IF asset = "unsupported" THEN "REJECT" ELSE "PASS"
              [] r = "trades" -> MinimumRule(m.trades, p.trades)
              [] r = "traders" -> MinimumRule(m.traders, p.traders)
              [] r = "buys" -> MinimumRule(m.total.buys, p.buys)
              [] r = "sells" -> MinimumRule(m.total.sells, p.sells)
              [] r = "volume" -> VolumeRule(asset, QuoteUnits(m.total), p)
              [] r = "concentration" -> ConcentrationRule(m.largest, p)]

EvaluateQualification(snapshot, mint, p) ==
    IF ~PolicyIsValid(p) \/ snapshot.error # "none" THEN "error"
    ELSE Aggregate(RulesOf(snapshot, mint, p))

-----------------------------------------------------------------------------
(* A window is given one observation after the other.                      *)

SnapshotInit ==
    /\ observed = <<>>
    /\ question \in [mint : QuoteMints, given : {"complete", "SOURCE_GAP"}, policy : Policies]

LoadObservation ==
    /\ Len(observed) < MaxObservations
    /\ \E o \in Observations : observed' = Append(observed, o)
    /\ UNCHANGED question

SnapshotNext == LoadObservation

SnapshotSpec == SnapshotInit /\ [][SnapshotNext]_snapshotVars

-----------------------------------------------------------------------------

Snapshot == BuildMarketWindowSnapshot(observed, question.given)

Reordered(p) == [k \in DOMAIN observed |-> observed[p[k]]]

\* The snapshot, with its first and last trade, price extremes, reserve extremes
\* and reason of incompleteness, does not depend on the order in which the
\* observations were loaded (build_market_window_snapshot sorts them by a total
\* order of their keys).
SnapshotIgnoresLoadOrder ==
    \A p \in Bijection(DOMAIN observed, DOMAIN observed) :
        Snapshot = BuildMarketWindowSnapshot(Reordered(p), question.given)

\* The exact total of a unit over the observations at the positions S.
Volume(S, unit) ==
    LET UpTo[k \in 0..Len(observed)] ==
            IF k = 0 THEN 0 ELSE UpTo[k - 1] + (IF k \in S THEN observed[k][unit] ELSE 0)
    IN  UpTo[Len(observed)]

Traded == {k \in UsedIn(observed) : observed[k].kind = "trade"}
Wallets == {observed[k].wallet : k \in Traded}
Of(w) == {k \in Traded : observed[k].wallet = w}
Side(s) == {k \in Traded : observed[k].side = s}

Enough(p, mint) ==
    /\ Cardinality(Traded) >= p.trades
    /\ Cardinality(Wallets) >= p.traders
    /\ Cardinality(Side("buy")) >= p.buys
    /\ Cardinality(Side("sell")) >= p.sells
    /\ Volume(Traded, "quote") >= IF mint = "USDC" THEN p.stable ELSE p.native

\* Exact comparison of fractions: no wallet has more than its share of the volume.
Spread(p) ==
    \A w \in Wallets : Volume(Of(w), "quote") * BasisPoints <= p.share * Volume(Traded, "quote")

\* The verdict of evaluate_qualification, computed over the snapshot with fixed
\* width, rounding and bisection, is the exact one: UNKNOWN when the window is
\* incomplete or holds an invalid trade; PASS when every threshold is met and no
\* wallet exceeds its share of the exact volume; UNKNOWN when thresholds of zero
\* are met without any trade; REJECT otherwise.  Nothing overflows on the way.
VerdictIsExact ==
    LET p == question.policy
        bad == \E k \in Traded : observed[k].wallet = 0 \/ observed[k].base = 0
                                 \/ observed[k].quote = 0
        twice == \E j, k \in UsedIn(observed) : j # k /\ observed[j].key = observed[k].key
        fits == Fits(Volume(Traded, "base")) /\ Fits(Volume(Traded, "quote"))
        verdict == EvaluateQualification(Snapshot, question.mint, p)
    IN  PolicyIsValid(p) /\ ~twice /\ fits =>
            verdict = IF question.given # "complete" \/ bad THEN "UNKNOWN"
                      ELSE IF \/ ClassifyQuoteAsset(question.mint) = "unsupported"
                              \/ ~Enough(p, question.mint)
                              \/ ~Spread(p)
                           THEN "REJECT"
                      ELSE IF Traded = {} THEN "UNKNOWN" ELSE "PASS"
=============================================================================

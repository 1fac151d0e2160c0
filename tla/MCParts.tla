------------------------------ MODULE MCParts ------------------------------
(* The parts that do not act on each other's state, checked side by side:  *)
(* a behaviour is one of a single part, and the others stay where they     *)
(* begin.  The values below are the small instances of each part.          *)
EXTENDS EventLogs, WindowSnapshot, Ingest, Recovery, TLC

Parts == {"logs", "snapshot", "ingest", "recovery"}

VARIABLE part

partVars == <<part, logsVars, observed, question, ingestVars, recoveryVars>>

-----------------------------------------------------------------------------
(* WindowSnapshot: trades that share a transaction, ties in price, zero     *)
(* amounts, missing reserves and wallets, a late one and another market.    *)

Key(slot, index, signature, instruction, event, program) ==
    [slot |-> slot, index |-> index, signature |-> signature, instruction |-> instruction,
     event |-> event, program |-> program]

Obs(key, market, received, kind, side, wallet, units, reserves) ==
    [key |-> key, market |-> market, received |-> received, kind |-> kind, side |-> side,
     wallet |-> wallet, base |-> units[1], quote |-> units[2],
     baseReserve |-> reserves[1], quoteReserve |-> reserves[2]]

Trade(key, received, side, wallet, units, reserves) ==
    Obs(key, Market, received, "trade", side, wallet, units, reserves)

NoReserves == <<Absent, Absent>>

MCObservations == {
    Trade(Key(1, 1, 1, 0, 0, 0), 0, "buy", 1, <<1, 1>>, NoReserves),
    Trade(Key(1, 1, 1, 0, 1, 0), 0, "sell", 2, <<2, 3>>, <<2, 3>>),
    Trade(Key(1, 0, 2, 0, 0, 0), 1, "buy", 2, <<3, 2>>, <<1, Absent>>),
    Trade(Key(2, 1, 3, 1, 0, 0), 1, "sell", 1, <<1, 2>>, <<2, 1>>),
    Trade(Key(2, 1, 3, 1, 1, 0), 1, "buy", 0, <<1, 1>>, <<1, 1>>),
    Trade(Key(2, 1, 3, 1, 2, 0), 1, "buy", 2, <<1, 0>>, <<1, 1>>),
    Trade(Key(3, 1, 4, 0, 0, 0), 2, "buy", 3, <<1, 3>>, NoReserves),
    Obs(Key(1, 1, 1, 0, 2, 0), Market, 0, "token created", "none", 1, <<0, 0>>, NoReserves),
    Obs(Key(2, 0, 5, 0, 0, 1), Market, 1, "deposit", "none", 3, <<1, 1>>, <<3, 3>>),
    Obs(Key(2, 0, 5, 0, 1, 0), Market, 1, "completed", "none", 1, <<0, 0>>, NoReserves),
    Obs(Key(2, 0, 5, 0, 2, 0), "another", 1, "trade", "buy", 1, <<3, 3>>, <<3, 3>>) }

Policy(trades, traders, buys, sells, native, stable, share) ==
    [trades |-> trades, traders |-> traders, buys |-> buys, sells |-> sells,
     native |-> native, stable |-> stable, share |-> share]

MCPolicies == {
    Policy(0, 0, 0, 0, 0, 0, 4),
    Policy(2, 2, 1, 1, 3, 5, 2),
    Policy(1, 1, 1, 0, 1, 1, 3),
    Policy(1, 2, 0, 0, 0, 0, 4) }

-----------------------------------------------------------------------------
(* Ingest: a curve from its creation to its end, and the pool it migrates   *)
(* to, whose base is the quote asset.                                       *)

Event(program, kind, target, place, mints, side, units) ==
    [program |-> program, kind |-> kind, target |-> target, instruction |-> place[1],
     event |-> place[2], base |-> mints[1], quote |-> mints[2], side |-> side,
     baseUnits |-> units[1], quoteUnits |-> units[2]]

Curve(kind, place, quote, side, units) ==
    Event("pump", kind, "mint", place, <<"none", quote>>, side, units)

Pool(kind, place, mints, units) == Event("swap", kind, "pool", place, mints, "none", units)

Swap(kind, place, units) == Pool(kind, place, <<"none", "none">>, units)

Copy(e, event) == [e EXCEPT !.event = event]

\* A trade logged before the creation of its token, by another instruction.
Create == Curve("create", <<1, 1>>, "SOL", "none", <<0, 0>>)
FirstTrade == Curve("trade", <<1, 0>>, "SOL", "buy", <<2, 1>>)

\* A trade for a quote that the curve does not have, and the end of the curve.
OtherQuote == Curve("trade", <<0, 0>>, "USDC", "buy", <<2, 1>>)
LastTrade == Curve("trade", <<0, 1>>, "SOL", "sell", <<1, 3>>)
Complete == Curve("complete", <<0, 2>>, "SOL", "none", <<0, 0>>)

Migrate == Curve("migrate", <<0, 0>>, "SOL", "none", <<0, 0>>)
MigratedPool == Pool("create pool", <<0, 0>>, <<"SOL", "mint">>, <<3, 2>>)
SwapBuy == Swap("swap buy", <<0, 1>>, <<1, 2>>)

\* The copies of the last transaction have one event more than its logs.
MCTransactions ==
    << [logged |-> <<FirstTrade, Create>>, copies |-> <<Copy(Create, 0), Copy(FirstTrade, 1)>>],
       [logged |-> <<OtherQuote, LastTrade, Complete>>, copies |-> <<>>],
       [logged |-> <<Migrate, MigratedPool, SwapBuy>>,
        copies |-> <<MigratedPool, SwapBuy, Copy(SwapBuy, 2)>>] >>

-----------------------------------------------------------------------------
(* Recovery: two signatures of one slot, with and without an index.         *)

Block(slot, index) == [slot |-> slot, index |-> index]
MCBlocks == << Block(1, 1), Block(1, 2), Block(2, 0), Block(2, 2), Block(3, 1) >>

-----------------------------------------------------------------------------

Init ==
    /\ part \in Parts
    /\ LogsInit /\ SnapshotInit /\ IngestInit /\ RecoveryInit
    /\ part # "snapshot" => question = CHOOSE q \in
            [mint : QuoteMints, given : {"complete", "SOURCE_GAP"}, policy : Policies] : TRUE

Next ==
    \/ /\ part = "logs" /\ LogsNext
       /\ UNCHANGED <<part, observed, question, ingestVars, recoveryVars>>
    \/ /\ part = "snapshot" /\ SnapshotNext
       /\ UNCHANGED <<part, logsVars, ingestVars, recoveryVars>>
    \/ /\ part = "ingest" /\ IngestNext
       /\ UNCHANGED <<part, logsVars, observed, question, recoveryVars>>
    \/ /\ part = "recovery" /\ RecoveryNext
       /\ UNCHANGED <<part, logsVars, observed, question, ingestVars>>

Spec == Init /\ [][Next]_partVars
=============================================================================

--------------------------- MODULE MCDurableWork ---------------------------
(* DurableWork for one token: a trade in its pool, received before the      *)
(* older creation of the token on the bonding curve.                        *)
EXTENDS DurableWork

MCFact ==
    [o \in Facts |->
        IF o = 1 THEN [mint |-> "m", market |-> "pool", slot |-> 2, kind |-> "trade"]
        ELSE [mint |-> "m", market |-> "curve", slot |-> 1, kind |-> "create"]]
=============================================================================

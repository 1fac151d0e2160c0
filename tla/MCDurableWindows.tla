------------------------- MODULE MCDurableWindows -------------------------
(* DurableWindows for one mint that has a window for its bonding curve and  *)
(* one for the pool it migrated to.                                         *)
EXTENDS DurableWindows

MCMintOf == [w \in Windows |-> "m"]
\* The pool's window is the newer one but the curve's facts keep arriving.
MCOpenedAt == [w \in Windows |-> 1]
MCFact ==
    [o \in Facts |-> CASE o = 1 -> [window |-> 1, slot |-> 1]
                       [] o = 2 -> [window |-> 1, slot |-> 2]
                       [] o = 3 -> [window |-> 2, slot |-> 2]
                       [] o = 4 -> [window |-> 2, slot |-> 3]]
MCOpening == [w \in Windows |-> IF w = 1 THEN 1 ELSE 3]
=============================================================================

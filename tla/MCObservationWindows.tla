----------------------- MODULE MCObservationWindows -----------------------
(* ObservationWindows on small instances: mints belong to the Pump program *)
(* and pools to the PumpSwap program.                                      *)
EXTENDS ObservationWindows

MCSourceOf == [x \in Targets |-> IF x = "pool" THEN "swap" ELSE "pump"]

\* No stop and no disconnect meets a pending window.
NoPendingCancelled == unlinked = {}
=============================================================================

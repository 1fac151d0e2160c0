------------------------------ MODULE MCServer ------------------------------
(* The supervisor and the live events, which share AppState and no step: a *)
(* behaviour is one of a single part, and the other stays where it begins. *)
EXTENDS Supervisor, LiveEvents

VARIABLE part

ServerInit == part \in {"supervisor", "live"} /\ Init /\ LiveInit

ServerNext ==
    \/ part = "supervisor" /\ Next /\ UNCHANGED <<part, liveVars>>
    \/ part = "live" /\ LiveNext /\ UNCHANGED <<part, vars>>

\* Who commits a change announces it and timers fire; the event source reconnects and
\* delivers; requests are answered or time out.  Nothing is assumed of changes, of
\* failures or of refreshStream.
LiveFairness ==
    /\ WF_liveVars(part = "live" /\ (PublishDiscoveryProjectionChanged \/ Invalidate))
    /\ WF_liveVars(part = "live" /\ (Connect \/ ReceiveResync \/ ReceiveChange))
    /\ WF_liveVars(part = "live" /\ (LoadDiscoverySnapshot \/ ReadAgain \/ EndRun \/ OthersSettle))

ServerSpec ==
    /\ ServerInit
    /\ [][ServerNext]_<<part, vars, liveVars>>
    /\ Fairness
    /\ LiveFairness
=============================================================================

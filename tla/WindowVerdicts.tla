-------------------------- MODULE WindowVerdicts --------------------------
(***************************************************************************)
(* What durable qualification promises to whoever reads its results: every *)
(* window is opened at most once and decided at most once, the number of   *)
(* undecided windows is known, and a candidate is shown as qualified only  *)
(* on the word of a PASS that was, when it was given, of the candidate's   *)
(* newest window.                                                          *)
(***************************************************************************)
EXTENDS Naturals, FiniteSets

CONSTANTS
    Windows,      \* window identifiers
    Mints,
    MintOf,       \* the mint each window observes
    Newer(_, _)   \* Newer(v, w): v supersedes w if both are open

VARIABLES
    verdict,      \* of each window
    undecided,    \* the counter of windows that are open
    shown         \* the window whose PASS a candidate shows

Decisions == {"PASS", "REJECT", "UNKNOWN"}
NotShown == 0

VerdictsInit ==
    /\ verdict = [w \in Windows |-> "unopened"]
    /\ undecided = 0
    /\ shown = [m \in Mints |-> NotShown]

OpenWindow(w) ==
    /\ verdict[w] = "unopened"
    /\ verdict' = [verdict EXCEPT ![w] = "open"]
    /\ undecided' = undecided + 1
    /\ UNCHANGED shown

Superseded(w) ==
    \E v \in Windows \ {w} : verdict[v] # "unopened" /\ MintOf[v] = MintOf[w] /\ Newer(v, w)

\* The decision may be shown, may withdraw what was shown, or change nothing.
Decide(w, d) ==
    /\ verdict[w] = "open"
    /\ verdict' = [verdict EXCEPT ![w] = d]
    /\ undecided' = undecided - 1
    /\ \/ UNCHANGED shown
       \/ /\ ~Superseded(w)
          /\ shown' = [shown EXCEPT ![MintOf[w]] = IF d = "PASS" THEN w ELSE NotShown]

\* The candidate moved to another market.
Withdraw(m) ==
    /\ shown' = [shown EXCEPT ![m] = NotShown]
    /\ UNCHANGED <<verdict, undecided>>

VerdictsNext ==
    \/ \E w \in Windows : OpenWindow(w) \/ \E d \in Decisions : Decide(w, d)
    \/ \E m \in Mints : Withdraw(m)

VerdictsSpec == VerdictsInit /\ [][VerdictsNext]_<<verdict, undecided, shown>>
=============================================================================

---------------------------- MODULE WindowToken ----------------------------
(***************************************************************************)
(* One observation-window generation, ObservationWindowToken of            *)
(* crates/discovery-engine/src/lib.rs, as a record, and its lock-free      *)
(* operations as functions from a record to a record.  In the code every   *)
(* field but the interval is an atomic shared by all clones of the token,  *)
(* so each operator below is one atomic step.                              *)
(*                                                                         *)
(* The database id of a confirmed window is abstracted to the flag         *)
(* `durable': ids are unique and set_durable_window_id sets one once.  The *)
(* incomplete reason is abstracted to the flag `incomplete': the decisions *)
(* that depend on it only ask whether there is one, and since the first    *)
(* reason is kept, setting it again changes nothing.                       *)
(***************************************************************************)
EXTENDS Naturals

\* "unborn" is a generation number that has not been handed out yet.
TokenStates == {"unborn", "pending", "confirmed",
                "cancelled_pending", "cancelled_confirmed"}

InInterval(tk, t) == tk.opened <= t /\ t < tk.closes

IsOpenAt(tk, t) == tk.state \in {"pending", "confirmed"} /\ InInterval(tk, t)

WasConfirmed(tk) == tk.state \in {"confirmed", "cancelled_confirmed"}

Settled(tk) == tk.admitted = tk.settled

-----------------------------------------------------------------------------

Confirm(tk) ==
    IF tk.state = "pending" THEN [tk EXCEPT !.state = "confirmed"] ELSE tk

CancelIfPending(tk) ==
    IF tk.state = "pending" THEN [tk EXCEPT !.state = "cancelled_pending"] ELSE tk

MarkIncomplete(tk) == [tk EXCEPT !.incomplete = TRUE]

\* Mutant: a confirmed token is cancelled without its reason.
CancelWithoutReason(tk) ==
    IF tk.state = "confirmed"
    THEN [tk EXCEPT !.state = "cancelled_confirmed"]
    ELSE CancelIfPending(tk)

CancelWithReason(tk) ==
    IF tk.state = "confirmed"
    THEN [MarkIncomplete(tk) EXCEPT !.state = "cancelled_confirmed"]
    ELSE CancelIfPending(tk)

MarkAdmitted(tk) ==
    IF tk.finalized THEN tk ELSE [tk EXCEPT !.admitted = @ + 1]

MarkSettled(tk) ==
    IF tk.settled < tk.admitted THEN [tk EXCEPT !.settled = @ + 1] ELSE tk

=============================================================================

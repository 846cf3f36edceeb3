----------------------- MODULE FprintDeviceRefinement -----------------------
(***************************************************************************)
(* The device object keeps the promises of FprintService. A turn is a      *)
(* value of CURRENT; the operation runs while the device is busy; an       *)
(* answer is the final signal of an operation, heard under the claim that  *)
(* operation was begun under.                                              *)
(***************************************************************************)
EXTENDS FprintDevice

RunningKind == IF busy THEN begun[current].kind ELSE None

Answers == {[turn |-> op, client |-> begun[op].client, user |-> begun[op].user] : op \in said}

Service == INSTANCE FprintService WITH
    Idle <- None,
    present <- alive,
    blind <- claiming.blind,
    owner <- claimOwner,
    user <- claimedBy,
    turn <- current,
    running <- RunningKind,
    answered <- Answers

\* Claims, starts, stops and final signals, with the threads, tasks and races
\* behind them, go as FprintService has them: one claim, taken from a client on
\* the bus only when the bus could not be asked; one operation; and every
\* answer given once, under the claim of the operation it ends. The stage
\* signals, which may still come after a stop, and VerifyFingerSelected are
\* not part of the service.
ImplementsService == Service!Spec

=============================================================================

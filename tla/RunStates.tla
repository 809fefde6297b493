------------------------------ MODULE RunStates ------------------------------
(***************************************************************************)
(* The status vocabulary of an ExecutionRun and its transition table: pure *)
(* operators that the registry, the event bus and recovery build on.       *)
(***************************************************************************)

RunStatus ==
    {"queued", "preparing", "running", "waiting", "verifying", "succeeded",
     "failed", "cancelled", "timed_out", "blocked", "verification_failed",
     "lost"}

TerminalRunStates ==
    {"succeeded", "failed", "cancelled", "timed_out", "verification_failed",
     "lost"}

IsTerminalRunStatus(status) == status \in TerminalRunStates

(* VALID_TRANSITIONS: the forward moves; a terminal status has none. *)
ValidTransitions ==
    [status \in RunStatus |->
        CASE status = "queued"    -> {"preparing", "cancelled", "failed", "lost"}
          [] status = "preparing" -> {"running", "cancelled", "failed",
                                      "blocked", "lost"}
          [] status = "running"   -> {"waiting", "verifying", "succeeded",
                                      "failed", "cancelled", "timed_out",
                                      "blocked", "lost"}
          [] status = "waiting"   -> {"running", "verifying", "cancelled",
                                      "failed", "timed_out", "lost"}
          [] status = "verifying" -> {"succeeded", "verification_failed",
                                      "failed", "cancelled", "lost"}
          [] status = "blocked"   -> {"running", "cancelled", "failed", "lost"}
          [] OTHER                -> {}]

(* Faulty variant: any run can be declared lost. *)
CanTransitionOrLost(from, to) ==
    from = to \/ to \in ValidTransitions[from] \/ to = "lost"

(* A self-transition is always allowed, out of a terminal status too. *)
CanTransition(from, to) == from = to \/ to \in ValidTransitions[from]

(* The bus's own guard before it forces a run to 'failed'. *)
CanTransitionToFailed(from) == from \notin TerminalRunStates \ {"lost"}
==============================================================================

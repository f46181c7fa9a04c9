---------------------------- MODULE ChildStates ----------------------------
(***************************************************************************)
(* The closed vocabularies of a bridge child's life: what state a child is *)
(* in, how far the launch saga got, and what a child may say about its own *)
(* work.  These are the enums of session/bridge.rs and the predicates the  *)
(* broker, the saga driver and recovery all branch on.                     *)
(***************************************************************************)

\* States that hold one of the owner's fan-out slots (ChildState::LIVE).
\* `working' and `blocked' are the hook's names for a ready child: nothing in
\* the life cycle distinguishes them from `ready'.
LiveStates == {"starting", "ready", "stalled", "finishing", "dirty", "stop_failed"}

\* No runtime and no slot, by the source's own reading (is_terminal).
TerminalStates == {"done", "failed", "stopped", "unusable"}

\* Terminal states a verdict or a failed launch leaves a child in; `unusable' is
\* recovery's word for a relaunch it cannot account for.
EndStates == TerminalStates \ {"unusable"}

ChildStates == LiveStates \cup TerminalStates

\* What an owner's `resume' may relaunch.
ResumableStates == {"dirty", "stalled", "stopped", "unusable"}

\* Saga steps before the S6 transaction, after it, and final.
PendingSteps   == {"named", "worktree", "dirs", "pane"}
CommittedSteps == {"committed", "egress_live", "released"}
FinalSteps     == {"done", "failed"}
SagaSteps      == PendingSteps \cup CommittedSteps \cup FinalSteps

Outcomes == {"completed", "failed"}

\* Mutant: the outcome's own word is stored as the state.
TerminalStateVerbatim(outcome) == outcome

\* The state a clean, stopped child with this outcome reaches.
TerminalState(outcome) == IF outcome = "completed" THEN "done" ELSE "failed"

=============================================================================

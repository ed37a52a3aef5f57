---------------------------- MODULE MCLifecycle ----------------------------
(***************************************************************************)
(* A session of up to two events, of hooks or of the JSONL adapter, one    *)
(* kind of them without a state, published with sensible deadlines or with *)
(* ones in the wrong order, by clocks that are behind, right or ahead.     *)
(* The app's clock runs past the deadlines of the last event.              *)
(***************************************************************************)
EXTENDS Lifecycle

MCEvents   == {"preToolUse", "permissionRequest", "stop"}
MCTypes    == {"item.completed", "turn.failed"}
MCSkews    == {-1, 0, 1}
MCSettings == {[idle |-> 1, dead |-> 2, exited |-> 3], [idle |-> 2, dead |-> 1, exited |-> -1]}

=============================================================================

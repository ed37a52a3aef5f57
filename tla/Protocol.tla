------------------------------ MODULE Protocol ------------------------------
(***************************************************************************)
(* The vocabulary the publishers, the collector and the desktop app share: *)
(* the topics of docs/protocol.md as events.py builds them, and the state  *)
(* that events.py gives to each kind of event.                             *)
(*                                                                         *)
(* A topic is the triple <<prefix, workspace, session>>.  The four         *)
(* prefixes stand for TOPIC_ROOT/events, TOPIC_ROOT/state,                 *)
(* TOPIC_ROOT/health/session and TOPIC_ROOT/profile/session.  The per      *)
(* client topic TOPIC_ROOT/health/{clientId} is a pair.  A session key is  *)
(* <<workspace, session>>, both already passed through topic_segment.      *)
(***************************************************************************)

\* The None of the Python code.
CONSTANT Null

EventTopic(key)         == <<"events", key[1], key[2]>>
StateTopic(key)         == <<"state", key[1], key[2]>>
SessionHealthTopic(key) == <<"health", key[1], key[2]>>
ProfileTopic(key)       == <<"profile", key[1], key[2]>>
ClientHealthTopic(c)    == <<"client", c>>

-----------------------------------------------------------------------------
(* The normalized state of an event.                                       *)

\* Every state a document can carry.
SessionStates == {"starting", "thinking", "runningTool", "error", "compacting",
                  "waitingForPermission", "readyForReview"}

\* STATE_BY_HOOK_EVENT, with the default of normalize_hook_event: a hook event
\* always has a state.  canonical_hook_event has given the event its name.
HookState(event) ==
    CASE event = "sessionStart"                 -> "starting"
      [] event = "preToolUse"                   -> "runningTool"
      [] event = "permissionRequest"            -> "waitingForPermission"
      [] event = "preCompact"                   -> "compacting"
      [] event \in {"subagentStop", "stop"}     -> "readyForReview"
      [] OTHER                                  -> "thinking"

\* STATE_BY_JSONL_TYPE: an event of any other type has no state.
JsonlState(type) ==
    CASE type = "thread.started"                -> "starting"
      [] type = "turn.started"                  -> "thinking"
      [] type = "turn.completed"                -> "readyForReview"
      [] type \in {"turn.failed", "error"}      -> "error"
      [] OTHER                                  -> Null

\* The events after which lifecycle_document starts the session idle.
StartsIdle(event, state) ==
    \/ state \in {"idle", "readyForReview"}
    \/ event \in {"stop", "subagentStop"}

=============================================================================

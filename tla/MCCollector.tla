---------------------------- MODULE MCCollector ----------------------------
(***************************************************************************)
(* One session with two hook events, whose documents interleave, and an    *)
(* event without a state.                                                  *)
(***************************************************************************)
EXTENDS Collector, TLC

CONSTANTS e1, e2, item

MCSources == {e1, e2, item}
MCKind  == e1 :> "event" @@ e2 :> "event" @@ item :> "event"
MCKey   == [n \in MCSources |-> <<"w", "s">>]
MCState == e1 :> HookState("preToolUse") @@ e2 :> HookState("stop")
           @@ item :> JsonlState("item.completed")

=============================================================================

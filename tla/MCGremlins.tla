---------------------------- MODULE MCGremlins ----------------------------
(***************************************************************************)
(* One session: two events with a state, one without, and a profile from   *)
(* the naming tool.  The user names and kills its gremlin once each.       *)
(***************************************************************************)
EXTENDS Gremlins, TLC

CONSTANTS e1, e2, item, prof, nick

MCSources == {e1, e2, item, prof}
MCKind  == e1 :> "event" @@ e2 :> "event" @@ item :> "event" @@ prof :> "profile"
MCKey   == [n \in MCSources |-> <<"w", "s">>]
MCState == e1 :> JsonlState("turn.started") @@ e2 :> JsonlState("turn.completed")
           @@ item :> JsonlState("item.completed") @@ prof :> Null
MCNames == {nick}

=============================================================================

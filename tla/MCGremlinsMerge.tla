-------------------------- MODULE MCGremlinsMerge --------------------------
(***************************************************************************)
(* Two workspaces with a session of the same id: an event of one, and the  *)
(* name of the other.                                                      *)
(***************************************************************************)
EXTENDS Gremlins, TLC

CONSTANTS e1, prof

MCSources == {e1, prof}
MCKind  == e1 :> "event" @@ prof :> "profile"
MCKey   == e1 :> <<"w1", "s">> @@ prof :> <<"w2", "s">>
MCState == e1 :> JsonlState("turn.started") @@ prof :> Null
MCNames == {}

=============================================================================

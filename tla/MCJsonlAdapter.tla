--------------------------- MODULE MCJsonlAdapter ---------------------------
(***************************************************************************)
(* Up to three lines out of a thread that starts, a turn of another thread *)
(* that fails, an item, which has neither thread nor state, and a blank    *)
(* line.                                                                   *)
(***************************************************************************)
EXTENDS JsonlAdapter, TLC

CONSTANTS started, failed, item, blank, t1, t2

MCLines   == {started, failed, item, blank}
MCShape   == [l \in MCLines |-> IF l = blank THEN "other" ELSE "object"]
MCType    == started :> "thread.started" @@ failed :> "turn.failed"
             @@ item :> "item.completed" @@ blank :> "none"
MCThread  == [l \in MCLines |-> CASE l = started -> t1 [] l = failed -> t2 [] OTHER -> Null]
MCSegment == t1 :> "s1" @@ t2 :> "s2"

=============================================================================

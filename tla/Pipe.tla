-------------------------------- MODULE Pipe --------------------------------
(***************************************************************************)
(* What a stream promises: what has come out of it is a prefix of what     *)
(* went in.  Nothing is changed, dropped, repeated or overtaken, and what  *)
(* is out stays out; but the stream may stop at any point.                 *)
(*                                                                         *)
(* JsonlAdapter implements two pipes.                                      *)
(***************************************************************************)
EXTENDS Sequences, SequencesExt

VARIABLES
    source,   \* everything that went in
    sink      \* everything that came out

Init == source = << >> /\ sink = << >>

\* Something goes in.
Put ==
    /\ IsPrefix(source, source')
    /\ UNCHANGED sink

\* Some of what went in comes out.
Move ==
    /\ IsPrefix(sink, sink')
    /\ IsPrefix(sink', source)
    /\ UNCHANGED source

Next == Put \/ Move

Spec == Init /\ [][Next]_<<source, sink>>

=============================================================================

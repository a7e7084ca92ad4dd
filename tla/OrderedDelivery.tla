-------------------------- MODULE OrderedDelivery --------------------------
(***************************************************************************)
(* What a stream promises to its reader: what was sent is taken whole,     *)
(* once and in the order it was sent, any number of items at a time.       *)
(***************************************************************************)
EXTENDS SequencesExt

CONSTANT Item

VARIABLES sent, taken   \* all items so far

Init == sent = <<>> /\ taken = <<>>

Send == /\ sent' \in Seq(Item) /\ IsStrictPrefix(sent, sent')
        /\ UNCHANGED taken

Take == /\ IsStrictPrefix(taken, taken') /\ IsPrefix(taken', sent)
        /\ UNCHANGED sent

Next == Send \/ Take

Spec == Init /\ [][Next]_<<sent, taken>>
=============================================================================

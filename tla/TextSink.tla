------------------------------ MODULE TextSink ------------------------------
(***************************************************************************)
(* What LoggerBuffer (util/YR_Logger.h, .cpp) promises the stream that     *)
(* writes into it: the text it has taken goes to roll() once and in order, *)
(* whatever happens to the memory in between.  When roll() throws, the     *)
(* text is kept, and is given to roll() again even if it has been written. *)
(***************************************************************************)
EXTENDS Integers, Sequences

CONSTANT Inputs  \* the texts that the stream may be asked to write

VARIABLES
  rest,     \* the text that the stream has still to write
  pending,  \* the text that has been taken and is in memory
  sent      \* the text that roll() has written last

vars == <<rest, pending, sent>>

Init == rest = <<>> /\ pending = <<>> /\ sent = <<>>

Begin == rest = <<>> /\ rest' \in Inputs /\ UNCHANGED <<pending, sent>>

\* A piece of the text goes from the one to the other.
Take ==
  \E n \in 1..Len(rest) :
    /\ pending' = pending \o SubSeq(rest, 1, n)
    /\ rest' = SubSeq(rest, n + 1, Len(rest))
    /\ UNCHANGED sent

Send == sent' = pending /\ pending' = <<>> /\ UNCHANGED rest
Fail == sent' \in {sent, pending} /\ rest' = <<>> /\ UNCHANGED pending
Die == rest' = <<>> /\ pending' = <<>> /\ UNCHANGED sent

Next == Begin \/ Take \/ Send \/ Fail \/ Die

Spec == Init /\ [][Next]_vars
=============================================================================

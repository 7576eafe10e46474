------------------------------ MODULE FrameFifo ------------------------------
(***************************************************************************)
(* What the movie stream promises to its decoder, with no ring, no DMA and *)
(* no interrupt: the frames of the film become complete one after another, *)
(* are taken in that order, each exactly once, and never more than         *)
(* Capacity of them wait.  StrRing implements this specification.          *)
(***************************************************************************)
EXTENDS Naturals

CONSTANT Capacity  \* complete frames the receiver can hold at once

VARIABLES length,    \* number of frames of the film
          complete,  \* frames whose last sector has been announced
          taken      \* frames handed to the decoder

vars == <<length, complete, taken>>

Init == length \in Nat /\ complete = 0 /\ taken = 0

Complete == /\ complete < length
            /\ complete - taken < Capacity
            /\ complete' = complete + 1
            /\ UNCHANGED <<length, taken>>

Take == /\ taken < complete
        /\ taken' = taken + 1
        /\ UNCHANGED <<length, complete>>

Next == Complete \/ Take

Spec == Init /\ [][Next]_vars /\ WF_vars(Next)
==============================================================================

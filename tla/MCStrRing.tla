------------------------------ MODULE MCStrRing ------------------------------
(* Every film of at most MaxFrames frames whose frames fit the ring.  The  *)
(* first movie of a session, and a later one of a session whose receiver   *)
(* is left to itself, which can do whatever the other sessions can.        *)
EXTENDS StrRing
CONSTANT MaxFrames
AllFilms == UNION {[1 .. n -> 1 .. Slots - 1] : n \in 1 .. MaxFrames}
FirstMovie == [readiness |-> TRUE, earlier |-> FALSE]
Unguarded == [readiness |-> FALSE, earlier |-> TRUE]
BothExtremes == {FirstMovie, Unguarded}
LaterMovies == {[readiness |-> TRUE, earlier |-> TRUE]}
==============================================================================

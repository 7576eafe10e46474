---------------------------- MODULE MCCardSave ----------------------------
(* Cards of two rows for TLC.                                               *)
EXTENDS CardSave

A == "A"
B == "B"
X == "X"
F == "free"

E(n) == [name |-> n, data |-> IF n = F THEN "none" ELSE "old"]

(* An empty card, one with an entry of the game, full ones with such an     *)
(* entry before or behind one of another game, one that a save fills, one   *)
(* that is not formatted.                                                   *)
SomeCards == {<<E(F), E(F)>>, <<E(B), E(F)>>, <<E(B), E(X)>>, <<E(X), E(A)>>,
              <<E(F), E(X)>>, Unformatted}

(* One card of another game, with room for a save.                         *)
ForeignCards == {<<E(X), E(F)>>}
=============================================================================

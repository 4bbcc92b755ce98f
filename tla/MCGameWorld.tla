------------------------------ MODULE MCGameWorld ------------------------------
(* Instances of GameWorld for TLC: three rooms, two characters, one monster. *)
EXTENDS GameWorld, TLC

CONSTANTS c1, c2, rat, hall, town, docks, manifest, potion, hide

Paths == (hall :> {town}) @@ (town :> {hall, docks}) @@ (docks :> {town})
Types == (hall :> "safe") @@ (town :> "inn") @@ (docks :> "dungeon")
Dens  == rat :> docks

Kinds   == (manifest :> "quest") @@ (potion :> "healing") @@ (hide :> "armor")
Bonuses == (manifest :> 0) @@ (potion :> 1) @@ (hide :> 1)
Ranks   == (manifest :> 2) @@ (potion :> 3) @@ (hide :> 1)
Placed  == {<<docks, manifest>>}
Health  == rat :> 2
Bite    == rat :> 2
Hide    == rat :> 0
Dropped == rat :> {hide}

Nothing == [i \in Items |-> 0]
Lying(papers, inDocks, inTown) ==
  (docks :> [Nothing EXCEPT ![manifest] = papers, ![potion] = inDocks])
    @@ (town :> [Nothing EXCEPT ![potion] = inTown]) @@ (hall :> Nothing)

Budget(k, e, r, v) == [kills |-> k, errands |-> e, restarts |-> r, visits |-> v]

\* A hunt, an errand with full packs, one with a second manifest, and a hunt
\* with a potion by characters whose sessions come and go.
Tales ==
  { [ground |-> Lying(0, 0, 0), foes |-> {rat}, left |-> Budget(2, 0, 0, 0)],
    [ground |-> Lying(1, 2, 0), foes |-> {},    left |-> Budget(0, 1, 0, 0)],
    [ground |-> Lying(1, 0, 0), foes |-> {},    left |-> Budget(0, 2, 1, 0)],
    [ground |-> Lying(0, 0, 1), foes |-> {rat}, left |-> Budget(0, 0, 0, 2)] }

Symmetric == Permutations(Characters)
=============================================================================

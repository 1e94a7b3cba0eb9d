--------------------------- MODULE MCSheetStacks ----------------------------
(* Instances of SheetStacks for TLC.                                       *)
EXTENDS SheetStacks

KindOfRound(r) == IF r % 2 = 0 THEN "Drawing" ELSE "Guessing"

SheetsOf(authors, rounds, ids) ==
    {[author |-> a, number |-> r, kind |-> KindOfRound(r), id |-> k] :
        a \in authors, r \in rounds, k \in ids}

(* Three rounds of three players, with sheets missing, some played twice,  *)
(* and one sheet made before the first roundNum event arrived ("round 0"). *)
ThreeRounds == SheetsOf(1..3, 1..3, {0}) \cup SheetsOf({1, 2}, {2}, {1}) \cup SheetsOf({1}, {0}, {0})

(* The last rounds of a game of eleven.                                    *)
LateRounds == SheetsOf({1}, {1, 9, 10, 11}, {0})
=============================================================================

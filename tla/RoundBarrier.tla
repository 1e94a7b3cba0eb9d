---------------------------- MODULE RoundBarrier ----------------------------
(***************************************************************************)
(* What the rounds of a game promise: a barrier.  Every player hands in    *)
(* one sheet, and only then, and in one step, does the next round begin;   *)
(* after the last round the game is over.                                  *)
(***************************************************************************)
EXTENDS Naturals

CONSTANTS Participants, LastRound

VARIABLES
    round,         \* the current round, LastRound + 1 when the game is over
    contributed    \* who has handed in a sheet for it

barrierVars == <<round, contributed>>

BarrierInit == round = 1 /\ contributed = {}

Contribute(p) ==
    /\ round <= LastRound
    /\ p \notin contributed
    /\ contributed' = contributed \cup {p}
    /\ UNCHANGED round

Advance ==
    /\ round <= LastRound
    /\ contributed = Participants
    /\ round' = round + 1
    /\ contributed' = {}

BarrierNext == Advance \/ \E p \in Participants : Contribute(p)

(* Rounds only move forward, one at a time, and only when everybody has     *)
(* handed in.                                                              *)
BarrierSafety == BarrierInit /\ [][BarrierNext]_barrierVars

(* Nobody is left waiting: the barrier keeps moving until the game is over. *)
BarrierSpec == BarrierSafety /\ WF_barrierVars(BarrierNext)

=============================================================================

--------------------------- MODULE MCSlotGeneration ---------------------------
(***************************************************************************)
(* SlotGeneration on a small instance: one schedule that fires every tick  *)
(* and one that fires every other tick.                                    *)
(***************************************************************************)
EXTENDS SlotGeneration, TLC

CONSTANTS everyTick, everyOther

Instants == 0 .. MaxTime + Horizon

FiringTimes == (everyTick :> Instants) @@ (everyOther :> {t \in Instants : t % 2 = 0})

JobSymmetry == Permutations(Jobs)
================================================================================

------------------------------ MODULE MCScheduler ------------------------------
(* Two messages of two goals. *)
EXTENDS Scheduler, TLC

CONSTANTS m1, m2, g1, g2

MCGoal == m1 :> g1 @@ m2 :> g2

===============================================================================

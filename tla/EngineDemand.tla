---------------------------- MODULE EngineDemand ----------------------------
(***************************************************************************)
(* What the GPS engine owes its users: it runs while any feed is asked     *)
(* for, and stops only when none is.  A stop may be refused by the         *)
(* hardware, and the engine then runs on with nobody asking.               *)
(***************************************************************************)
CONSTANT Feed

VARIABLES demand, running

vars == <<demand, running>>

Init == demand = {} /\ running = FALSE

(* A feed is granted, and the engine runs.                                 *)
Grant(f) == /\ demand' = demand \cup {f}
            /\ running' = TRUE

(* A feed is given up; the engine may stop if it was the last.             *)
GiveUp(f) == /\ demand' = demand \ {f}
             /\ \/ UNCHANGED running
                \/ demand' = {} /\ running' = FALSE

(* Everything is given up at once, which works only with the engine.       *)
GiveUpAll == demand' = {} /\ running' = FALSE

(* The engine is stopped and started again for one feed.                   *)
Restart(f) == demand' = {f} /\ running' = TRUE

Next == \/ \E f \in Feed : Grant(f) \/ GiveUp(f) \/ Restart(f)
        \/ GiveUpAll

Spec == Init /\ [][Next]_vars
=============================================================================

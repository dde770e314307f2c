------------------------------- MODULE World -------------------------------
(***************************************************************************)
(* What a behaviour has in it: the parts of the service that are used and  *)
(* what may go wrong, chosen once, from combinations worth checking.       *)
(***************************************************************************)
CONSTANTS
    Worlds        \* the combinations

VARIABLES
    may           \* the one of this behaviour
=============================================================================

----------------------------- MODULE MCNetwork ------------------------------
(* The network provider with clients that subscribe and one that does not. *)
EXTENDS NetworkProvider, TLC

CONSTANTS sub1, sub2, once1, home, street, alone, cell1, posA, posB

MCWorlds == {{"mock"}, {"http_error"}, {"no_key", "post_fails", "no_position"},
             {"service_down", "call_fails"}}

MCNoFault == {{}}
=============================================================================

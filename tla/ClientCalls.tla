---------------------------- MODULE ClientCalls -----------------------------
(***************************************************************************)
(* What the location service owes the clients that call for positions or   *)
(* data: a call is refused at once or listed, and is answered only while   *)
(* it is listed.  It leaves with an answer or at its client's wish, never  *)
(* without a word, and never comes back.  Nothing is said of the           *)
(* providers: which of those listed are answered when is theirs to decide. *)
(***************************************************************************)
CONSTANTS
    Call,         \* the calls clients may make
    Subscribers,  \* those that want every answer there is, not one
    Timed         \* those that name a time for the first answer

VARIABLES
    made,         \* the calls made so far
    listed,       \* the calls that wait for an answer, or for more of them
    told,         \* what each call has been told
    cancelled     \* the calls that their clients have ended

vars == <<made, listed, told, cancelled>>

Init == /\ made = {} /\ listed = {} /\ cancelled = {}
        /\ told = [c \in Call |-> {}]

(* An answer to the calls C among those of L; one is enough for the calls  *)
(* that do not subscribe.                                                  *)
Answer(C, L) ==
    /\ told' = [c \in Call |-> IF c \in C THEN told[c] \cup {"answer"} ELSE told[c]]
    /\ listed' = L \ (C \ Subscribers)

Begin(c) == /\ c \notin made
            /\ made' = made \cup {c}
            /\ UNCHANGED cancelled

(* The call may have to wait, with those before it, or an answer is there. *)
Accept(c) == /\ Begin(c)
             /\ \E C \in SUBSET (listed \cup {c}) : Answer(C, listed \cup {c})

(* A call that is refused may be listed all the same: it is told of later  *)
(* positions if others bring them about.                                   *)
Refuse(c) == /\ Begin(c)
             /\ told' = [told EXCEPT ![c] = @ \cup {"refused"}]
             /\ listed' = listed \/ listed' = listed \cup {c}

Report == /\ \E C \in SUBSET listed : Answer(C, listed)
          /\ UNCHANGED <<made, cancelled>>

(* Only the first answer has a time; a subscriber, too, leaves then.       *)
TimeOut(c) == /\ c \in listed
              /\ "answer" \notin told[c]
              /\ told' = [told EXCEPT ![c] = @ \cup {"answer"}]
              /\ listed' = listed \ {c}
              /\ UNCHANGED <<made, cancelled>>

Cancel(c) == /\ c \in listed
             /\ listed' = listed \ {c}
             /\ cancelled' = cancelled \cup {c}
             /\ UNCHANGED <<made, told>>

Next == \/ \E c \in Call : Accept(c) \/ Refuse(c) \/ Cancel(c)
        \/ \E c \in Timed : TimeOut(c)
        \/ Report

Spec == Init /\ [][Next]_vars
=============================================================================

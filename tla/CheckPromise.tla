---------------------------- MODULE CheckPromise ----------------------------
(***************************************************************************)
(* What the daily checks promise, without phones or requests: a vehicle    *)
(* has one check per day; it is opened, then submitted, and stays          *)
(* submitted; what has been answered in it stays answered.                 *)
(***************************************************************************)
CONSTANTS Checks, Items

VARIABLES status, answered

vars == <<status, answered>>

Init ==
    /\ status = [c \in Checks |-> "ABSENT"]
    /\ answered = [c \in Checks |-> {}]

Open(c) ==
    /\ status[c] = "ABSENT"
    /\ status' = [status EXCEPT ![c] = "DRAFT"]
    /\ UNCHANGED answered

\* An empty submission is refused.
Submit(c, items) ==
    /\ status[c] # "ABSENT"
    /\ status' = [status EXCEPT ![c] = "SUBMITTED"]
    /\ answered' = [answered EXCEPT ![c] = @ \cup items]

Next ==
    \E c \in Checks :
        \/ Open(c)
        \/ \E items \in (SUBSET Items) \ {{}} : Submit(c, items)

Spec == Init /\ [][Next]_vars
=============================================================================

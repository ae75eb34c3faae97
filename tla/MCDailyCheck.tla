---------------------------- MODULE MCDailyCheck ----------------------------
(* Instances of DailyCheck for TLC. *)
EXTENDS DailyCheck, TLC

CONSTANT v1    \* a vehicle

Symmetry == Permutations(Drivers) \cup Permutations(Phones)

\* Two instances in one: one vehicle over several days, with staff and without photos,
\* or several vehicles on one day, without staff.
VARIABLE overnight

MCInit == Init /\ overnight \in BOOLEAN

MCNext ==
    /\ Next
    /\ UNCHANGED overnight
    /\ IF overnight
       THEN /\ \A c \in Checks : c[1] # v1 => check'[c] = Absent
            /\ \A p \in Phones : phone'[p].content.vehicle \in {v1, None} /\ phone'[p].photos = {}
       ELSE phone' # phone

MCSpec == MCInit /\ [][MCNext]_<<vars, overnight>>
=============================================================================

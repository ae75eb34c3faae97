------------------------ MODULE MCVehicleAssignment ------------------------
(* Instances of VehicleAssignment for TLC. *)
EXTENDS VehicleAssignment, TLC

CONSTANTS n1, n2, k1

\* A driver with a number and one without: rename one to the other's name or give the
\* number away, and a record is found by two users, or a user finds two records.
TwoRows == {[role |-> "DRIVER", name |-> n1, number |-> k1],
            [role |-> "DRIVER", name |-> n2, number |-> None]}

\* The number handed on with it, and a driver who becomes something else.
FourRows == TwoRows \cup {[role |-> "DRIVER", name |-> n2, number |-> k1],
                         [role |-> "OTHER", name |-> n1, number |-> None]}

Symmetry == Permutations(Users) \cup Permutations(Vehicles) \cup Permutations(Editors)

\* Two instances in one: with requests that overlap only the first rows are used,
\* with all of them an administrator's requests follow each other.
VARIABLE overlap

MCInit == Init /\ overlap \in BOOLEAN

Used == {user[u] : u \in Users} \cup {edit[e].next : e \in Editors}
        \cup {support[s].next : s \in Supporters}

MCNext ==
    /\ Next
    /\ UNCHANGED overlap
    /\ IF overlap THEN Used' \subseteq TwoRows \cup {Absent}
       ELSE Cardinality({e \in Editors : edit'[e] # NoEdit}) <= 1

MCSpec == MCInit /\ [][MCNext]_<<vars, overlap>>
=============================================================================

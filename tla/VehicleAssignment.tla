------------------------- MODULE VehicleAssignment -------------------------
(***************************************************************************)
(* Which driver has which vehicle, in one tenant.  A driver exists twice:  *)
(* as a row of users, which people edit, and as a row of drivers (here a   *)
(* record), which holds the vehicle.  The two are related by nothing but a *)
(* username or an employee number they have in common.                     *)
(*                                                                         *)
(* Administrators write both tables, and the vehicle, one statement at a   *)
(* time; platform support does so in one transaction, with what it has     *)
(* read before.  The onboarding import only writes users.                  *)
(***************************************************************************)
EXTENDS Integers, Sequences, FiniteSets

CONSTANTS
    Users, Vehicles,
    Names,        \* usernames
    Numbers,      \* employee numbers
    Rows,         \* the user rows that people enter
    Editors,      \* administrators' requests that may be in flight together
    Supporters,   \* support requests that may be in flight together
    MaxRecords    \* bound on the rows of drivers, which are never deleted

None == "none"     \* null
Keep == "keep"     \* a field the request leaves out

ASSUME FleetAssumption ==
    /\ {None, Keep} \cap (Users \cup Vehicles \cup Names \cup Numbers) = {}
    /\ MaxRecords \in Nat

UserRow == [role: {"DRIVER", "OTHER"}, name: Names, number: Numbers \cup {None}]
Absent == [role |-> "ABSENT", name |-> None, number |-> None]

ASSUME RowsAssumption == Rows \subseteq UserRow

VARIABLES
    user,       \* users
    record,     \* drivers, oldest first
    edit,       \* what is left of each administrator's request
    support,    \* what each support request is about to write
    contested   \* observes: vehicles that two writers gave away together

vars == <<user, record, edit, support, contested>>

Record == [name: Names, number: Numbers \cup {None}, vehicle: Vehicles \cup {None}]

\* set: the vehicle the request gives, or None to take it away.
Edit == [stage: {"idle", "write", "ensure", "sync", "find", "clear", "pick", "set"},
         user: Users \cup {None}, next: UserRow \cup {Absent},
         vehicle: Vehicles \cup {None, Keep}, record: 0..MaxRecords,
         old: Vehicles \cup {None}]
NoEdit == [stage |-> "idle", user |-> None, next |-> Absent, vehicle |-> Keep,
           record |-> 0, old |-> None]

Support == [user: Users \cup {None}, was: UserRow \cup {Absent},
            next: UserRow \cup {Absent}, vehicle: Vehicles \cup {None}]
NoSupport == [user |-> None, was |-> Absent, next |-> Absent, vehicle |-> None]

TypeOK ==
    /\ user \in [Users -> UserRow \cup {Absent}]
    /\ record \in Seq(Record) /\ Len(record) <= MaxRecords
    /\ edit \in [Editors -> Edit]
    /\ support \in [Supporters -> Support]
    /\ contested \subseteq Vehicles

Init ==
    /\ user = [u \in Users |-> Absent]
    /\ record = <<>>
    /\ edit = [e \in Editors |-> NoEdit]
    /\ support = [s \in Supporters |-> NoSupport]
    /\ contested = {}

----------------------------------------------------------------------------
(* Queries. *)

\* The where clause that relates a user to records.
Matches(row, r) == r.name = row.name \/ (row.number # None /\ r.number = row.number)

Found(row) == {i \in DOMAIN record : Matches(row, record[i])}

\* getDriverProjectionForUser: the newest of them
Newest(row) == CHOOSE i \in Found(row) : \A j \in Found(row) : j <= i

Holders(v) == {i \in DOMAIN record : record[i].vehicle = v}

\* The requests that have taken v from everybody and are about to give it.
Giving(v) == {e \in Editors : edit[e].stage \in {"pick", "set"} /\ edit[e].vehicle = v}

\* The unique indexes of users and of drivers
UserFits(u, row) ==
    \A w \in Users \ {u} : user[w] # Absent =>
        /\ user[w].name # row.name
        /\ row.number # None => user[w].number # row.number

RecordFits(i, row) ==
    \A j \in DOMAIN record \ {i} :
        /\ record[j].name # row.name
        /\ row.number # None => record[j].number # row.number

AsRecord(row, v) == [name |-> row.name, number |-> row.number, vehicle |-> v]

----------------------------------------------------------------------------
(* Administrators: users. *)

\* createMasterDriver: vehicles are for drivers only.
CreateUser(e, u, row, v) ==
    /\ edit[e] = NoEdit
    /\ user[u] = Absent
    /\ row.role # "DRIVER" => v = None
    /\ UserFits(u, row)
    /\ user' = [user EXCEPT ![u] = row]
    /\ edit' = IF row.role # "DRIVER" THEN edit
               ELSE [edit EXCEPT ![e] = [NoEdit EXCEPT !.stage = "find", !.user = u,
                                                       !.next = row, !.vehicle = v]]
    /\ UNCHANGED <<record, support, contested>>

\* updateMasterDriver up to its first write.  What the request leaves out is
\* what the user has now.
BeginUpdate(e, u, row, v) ==
    /\ edit[e] = NoEdit
    /\ user[u] # Absent
    /\ row.role # "DRIVER" => v \in {None, Keep}
    /\ edit' = [edit EXCEPT ![e] = [NoEdit EXCEPT !.stage = "write", !.user = u,
                                                  !.next = row, !.vehicle = v]]
    /\ UNCHANGED <<user, record, support, contested>>

\* A support transaction writes users and drivers in one step of this module,
\* so a statement never meets its locks.
WriteUser(e) ==
    /\ edit[e].stage = "write"
    /\ UserFits(edit[e].user, edit[e].next)
    /\ user' = [user EXCEPT ![edit[e].user] = edit[e].next]
    /\ edit' = [edit EXCEPT ![e] =
         IF @.next.role = "DRIVER" THEN [@ EXCEPT !.stage = "ensure"] ELSE NoEdit]
    /\ UNCHANGED <<record, support, contested>>

\* ensureDriverProjection.  Between the search and the insert of the code another
\* request may insert the same driver; the insert then fails, as in Fail.
Ensure(row) ==
    IF Found(row) # {} THEN record' = record
    ELSE Len(record) < MaxRecords /\ record' = Append(record, AsRecord(row, None))

Ensured(row) == IF Found(row) # {} THEN Newest(row) ELSE Len(record) + 1

EnsureRecord(e) ==
    /\ edit[e].stage = "ensure"
    /\ Ensure(edit[e].next)
    /\ edit' = [edit EXCEPT ![e].stage = "sync", ![e].record = Ensured(edit[e].next)]
    /\ UNCHANGED <<user, support, contested>>

SyncRecord(e) ==
    LET i == edit[e].record
    IN  /\ edit[e].stage = "sync"
        /\ RecordFits(i, edit[e].next)
        /\ record' = [record EXCEPT ![i] = AsRecord(edit[e].next, @.vehicle)]
        /\ edit' = [edit EXCEPT ![e] =
             IF @.vehicle = Keep THEN NoEdit ELSE [@ EXCEPT !.stage = "find", !.record = 0]]
        /\ UNCHANGED <<user, support, contested>>

\* setDriverVehicleAssignment searches anew; if it is to take a vehicle away, it
\* remembers which one it saw.
FindRecord(e) ==
    LET i == Ensured(edit[e].next)
    IN  /\ edit[e].stage = "find"
        /\ Ensure(edit[e].next)
        /\ edit' = [edit EXCEPT ![e] = [NoEdit EXCEPT !.stage = "clear", !.vehicle = edit[e].vehicle,
              !.record = i, !.old = IF edit[e].vehicle = None THEN record'[i].vehicle ELSE None]]
        /\ UNCHANGED <<user, support, contested>>

----------------------------------------------------------------------------
(* Administrators: the vehicle. *)

\* createMasterVehicle and updateMasterVehicle, when they name a driver: the user
\* is looked for only after the vehicle has been taken from everybody.
AssignVehicle(e, v, u) ==
    /\ edit[e] = NoEdit
    /\ edit' = [edit EXCEPT ![e] = [NoEdit EXCEPT !.stage = "clear", !.user = u, !.vehicle = v]]
    /\ UNCHANGED <<user, record, support, contested>>

\* Mutation: the vehicle is taken from somebody only when it is given to nobody.
ClearedOld(e) == edit[e].old

\* What the updateMany takes the vehicle away from: the vehicle to be given or, if
\* none is, the one the driver was seen with.
Cleared(e) == IF edit[e].vehicle # None THEN edit[e].vehicle ELSE edit[e].old

Clear(e) ==
    LET v == Cleared(e)
    IN  /\ edit[e].stage = "clear"
        /\ record' = [i \in DOMAIN record |->
                        IF v # None /\ record[i].vehicle = v
                        THEN [record[i] EXCEPT !.vehicle = None] ELSE record[i]]
        /\ edit' = [edit EXCEPT ![e] =
             IF @.record = 0
             THEN IF @.user = None THEN NoEdit ELSE [@ EXCEPT !.stage = "pick"]
             ELSE [@ EXCEPT !.stage = "set"]]
        /\ contested' = IF v = None \/ v # edit[e].vehicle THEN contested
                        ELSE IF Giving(v) = {} THEN contested \ {v}
                        ELSE contested \cup {v}
        /\ UNCHANGED <<user, support>>

\* assignVehicleToDriverUser: only a driver can be given the vehicle.
PickDriver(e) ==
    LET row == user[edit[e].user]
    IN  /\ edit[e].stage = "pick"
        /\ row.role = "DRIVER"
        /\ Ensure(row)
        /\ edit' = [edit EXCEPT ![e].stage = "set", ![e].user = None, ![e].record = Ensured(row)]
        /\ UNCHANGED <<user, support, contested>>

SetVehicle(e) ==
    /\ edit[e].stage = "set"
    /\ record' = [record EXCEPT ![edit[e].record].vehicle = edit[e].vehicle]
    /\ edit' = [edit EXCEPT ![e] = NoEdit]
    /\ UNCHANGED <<user, support, contested>>

\* A statement fails (a constraint, a user who is no driver) or the process dies:
\* what has been written stays.
Fail(e) ==
    /\ edit[e].stage # "idle"
    /\ edit' = [edit EXCEPT ![e] = NoEdit]
    /\ UNCHANGED <<user, record, support, contested>>

----------------------------------------------------------------------------
(* Platform support and the import. *)

\* Mutation: a vehicle the request leaves out is not filled in.
SupportVehicleRaw(old, v) == v

SupportVehicle(old, v) == IF v = Keep THEN old ELSE v

\* updateSupportTenantUser up to its transaction: a vehicle the request leaves out
\* is the one of a record of the user as it is now, any of them.
BeginSupport(s, u, row, v) ==
    /\ support[s] = NoSupport
    /\ user[u] # Absent
    /\ \E old \in IF Found(user[u]) = {} THEN {None}
                  ELSE {record[i].vehicle : i \in Found(user[u])} :
         LET next == SupportVehicle(old, v)
         IN  /\ row.role # "DRIVER" => next = None
             /\ support' = [support EXCEPT ![s] =
                  [user |-> u, was |-> user[u], next |-> row, vehicle |-> next]]
    /\ UNCHANGED <<user, record, edit, contested>>

\* What the transaction leaves in drivers: the record found by the old or the new
\* names is rewritten or, if the user is no driver any more, emptied.
SupportWrites(was, next, v) ==
    LET found == Found(was) \cup Found(next)
    IN  IF found = {}
        THEN IF next.role # "DRIVER" THEN {record}
             ELSE IF Len(record) < MaxRecords THEN {Append(record, AsRecord(next, v))} ELSE {}
        ELSE {IF next.role = "DRIVER" THEN [record EXCEPT ![i] = AsRecord(next, v)]
              ELSE [record EXCEPT ![i].vehicle = None]
                : i \in {j \in found : next.role = "DRIVER" => RecordFits(j, next)}}

\* Others may hold v, or be about to.
CommitSupport(s) ==
    LET w == support[s]
    IN  /\ w # NoSupport
        /\ UserFits(w.user, w.next)
        /\ user' = [user EXCEPT ![w.user] = w.next]
        /\ record' \in SupportWrites(w.was, w.next, w.vehicle)
        /\ contested' = IF w.vehicle = None THEN contested ELSE contested \cup {w.vehicle}
        /\ support' = [support EXCEPT ![s] = NoSupport]
        /\ UNCHANGED edit

RollBack(s) ==
    /\ support[s] # NoSupport
    /\ support' = [support EXCEPT ![s] = NoSupport]
    /\ UNCHANGED <<user, record, edit, contested>>

\* The import finds users by employee number and renames them after it.
ImportUser(u, row) ==
    /\ row.number # None
    /\ user[u] # Absent => user[u].number = row.number
    /\ UserFits(u, row)
    /\ user' = [user EXCEPT ![u] = row]
    /\ UNCHANGED <<record, edit, support, contested>>

----------------------------------------------------------------------------
Administer(e) ==
    \/ \E u \in Users, row \in Rows, v \in Vehicles \cup {None} : CreateUser(e, u, row, v)
    \/ \E u \in Users, row \in Rows, v \in Vehicles \cup {None, Keep} : BeginUpdate(e, u, row, v)
    \/ \E v \in Vehicles, u \in Users \cup {None} : AssignVehicle(e, v, u)
    \/ WriteUser(e) \/ EnsureRecord(e) \/ SyncRecord(e) \/ FindRecord(e)
    \/ Clear(e) \/ PickDriver(e) \/ SetVehicle(e) \/ Fail(e)

GiveSupport(s) ==
    \/ \E u \in Users, row \in Rows, v \in Vehicles \cup {None, Keep} : BeginSupport(s, u, row, v)
    \/ CommitSupport(s) \/ RollBack(s)

Next ==
    \/ \E e \in Editors : Administer(e)
    \/ \E s \in Supporters : GiveSupport(s)
    \/ \E u \in Users, row \in Rows : ImportUser(u, row)

Spec == Init /\ [][Next]_vars

----------------------------------------------------------------------------
(* Properties. *)

\* A vehicle is with two drivers only if somebody gave it away while an administrator's
\* request was between taking it from everybody and giving it, or support gave it:
\* one administrator at a time, whatever fails and however users are renamed, never
\* gives one vehicle to two (setDriverVehicleAssignment, assignVehicleToDriverUser).
SharedOnlyIfContested == \A v \in Vehicles \ contested : Cardinality(Holders(v)) <= 1
=============================================================================

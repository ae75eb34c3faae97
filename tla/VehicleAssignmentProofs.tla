---------------------- MODULE VehicleAssignmentProofs ----------------------
(***************************************************************************)
(* Proofs about VehicleAssignment for any number of users, vehicles,       *)
(* administrators and support requests.                                    *)
(***************************************************************************)
EXTENDS VehicleAssignment, FiniteSetTheorems, SequenceTheorems, WellFoundedInduction, TLAPS

USE FleetAssumption, RowsAssumption

\* A request under way knows a user and a record that are there, and has settled, from
\* the search for the record on, which vehicle it gives, or that it takes one away.
Sound(q, n) ==
    /\ q \in Edit
    /\ q.stage \in {"write", "pick"} => q.user \in Users
    /\ q.stage \in {"write", "ensure", "sync", "find"} => q.next \in UserRow
    /\ q.stage \in {"sync", "set"} => q.record \in 1..n
    /\ q.stage \in {"find", "clear", "set"} => q.vehicle \in Vehicles \cup {None}
    /\ q.stage = "clear" => /\ q.record \in 0..n
                            /\ q.record = 0 => q.vehicle \in Vehicles /\ q.user \in Users \cup {None}
    /\ q.stage = "pick" => q.vehicle \in Vehicles

SoundSupport(w) ==
    w = NoSupport \/ (/\ w.user \in Users /\ w.was \in UserRow /\ w.next \in UserRow
                      /\ w.vehicle \in Vehicles \cup {None})

\* A vehicle nobody gave away under somebody's hands has at most one holder, at most one
\* request is about to give it and, when one is, no holder.
Settled(v) ==
    /\ \A i, j \in Holders(v) : i = j
    /\ \A e, f \in Giving(v) : e = f
    /\ Giving(v) # {} => Holders(v) = {}

IInv ==
    /\ TypeOK
    /\ \A e \in Editors : Sound(edit[e], Len(record))
    /\ \A s \in Supporters : SoundSupport(support[s])
    /\ \A v \in Vehicles \ contested : Settled(v)

----------------------------------------------------------------------------
(* Records. *)

LEMMA LargestExists ==
    ASSUME NEW n \in Nat, NEW S \in SUBSET (1..n), S # {}
    PROVE  \E i \in S : \A j \in S : j <= i
  <1> DEFINE T == {k \in Nat : \E i \in S : k = n - i}
             R == OpToRel(<, Nat)
  <1>1. IsWellFoundedOn(R, Nat)
    BY NatLessThanWellFounded
  <1>2. T \subseteq Nat /\ T # {}
    <2>1. PICK i \in S : TRUE
      OBVIOUS
    <2>2. n - i \in T
      BY <2>1
    <2> QED
      BY <2>2
  <1>3. \A x, y \in Nat : x < y => <<x, y>> \in R
    BY DEF OpToRel
  <1> HIDE DEF R, T
  <1>4. PICK x \in T : \A y \in T : ~(<<y, x>> \in R)
    BY <1>1, <1>2, WFMin
  <1>5. \A y \in T : x <= y
    <2> SUFFICES ASSUME NEW y \in T PROVE x <= y
      OBVIOUS
    <2>1. x \in Nat /\ y \in Nat
      BY <1>2, <1>4
    <2>2. ~(y < x)
      BY <1>3, <1>4, <2>1, Zenon
    <2> QED
      BY <2>1, <2>2
  <1> QED
    BY <1>5 DEF T

LEMMA RecordsType ==
    ASSUME TypeOK
    PROVE  /\ record \in Seq(Record) /\ Len(record) \in Nat /\ Len(record) <= MaxRecords
           /\ DOMAIN record = 1..Len(record)
           /\ \A i \in 1..Len(record) : record[i] \in Record
  BY LenProperties, ElementOfSeq DEF TypeOK

LEMMA NewestFound ==
    ASSUME TypeOK, NEW row, Found(row) # {}
    PROVE  Newest(row) \in Found(row) /\ Newest(row) \in 1..Len(record)
  <1>1. Found(row) \in SUBSET (1..Len(record))
    BY RecordsType DEF Found
  <1>2. \E i \in Found(row) : \A j \in Found(row) : j <= i
    BY <1>1, RecordsType, LargestExists
  <1>3. Newest(row) \in Found(row)
    BY <1>2 DEF Newest
  <1> QED
    BY <1>1, <1>3

LEMMA AsRecordType ==
    ASSUME NEW row \in UserRow, NEW v \in Vehicles \cup {None} PROVE AsRecord(row, v) \in Record
  BY DEF AsRecord, Record, UserRow

\* One record rewritten: only the vehicle it has got can have a new holder.
LEMMA RecordChanged ==
    ASSUME TypeOK, NEW i \in 1..Len(record), NEW r \in Record, record' = [record EXCEPT ![i] = r]
    PROVE  /\ record' \in Seq(Record) /\ Len(record') = Len(record)
           /\ \A v \in Vehicles : Holders(v)' \subseteq Holders(v) \cup {i}
           /\ \A v \in Vehicles : v # r.vehicle => Holders(v)' \subseteq Holders(v)
  <1>1. /\ record' \in Seq(Record) /\ Len(record') = Len(record)
        /\ \A j \in 1..Len(record) : record'[j] = IF j = i THEN r ELSE record[j]
    BY RecordsType, ExceptSeq
  <1>2. DOMAIN record' = 1..Len(record) /\ DOMAIN record = 1..Len(record)
    BY <1>1, RecordsType, LenProperties
  <1> QED
    BY <1>1, <1>2 DEF Holders

\* One record added: only its vehicle has a new holder.
LEMMA RecordAdded ==
    ASSUME TypeOK, NEW r \in Record, record' = Append(record, r)
    PROVE  /\ record' \in Seq(Record) /\ Len(record') = Len(record) + 1
           /\ \A v \in Vehicles : v # r.vehicle => Holders(v)' = Holders(v)
  <1>1. /\ record' \in Seq(Record) /\ Len(record') = Len(record) + 1
        /\ \A j \in 1..Len(record) : record'[j] = record[j]
        /\ record'[Len(record) + 1] = r
    BY RecordsType, AppendProperties
  <1>2. DOMAIN record' = 1..Len(record) + 1 /\ DOMAIN record = 1..Len(record)
    BY <1>1, RecordsType, LenProperties
  <1>3. ASSUME NEW v \in Vehicles, v # r.vehicle PROVE Holders(v)' = Holders(v)
    <2>1. \A j \in 1..Len(record) + 1 : j \in 1..Len(record) \/ j = Len(record) + 1
      BY RecordsType
    <2>2. 1..Len(record) \subseteq 1..Len(record) + 1
      BY RecordsType
    <2> QED
      BY <1>1, <1>2, <1>3, <2>1, <2>2 DEF Holders
  <1> QED
    BY <1>1, <1>3

\* Ensuring that a user has a record gives no vehicle to anybody.
LEMMA EnsureGivesNothing ==
    ASSUME TypeOK, NEW row \in UserRow, Ensure(row)
    PROVE  /\ record' \in Seq(Record) /\ Len(record') \in Len(record)..MaxRecords
           /\ Ensured(row) \in 1..Len(record')
           /\ \A v \in Vehicles : Holders(v)' = Holders(v)
  <1>1. CASE Found(row) # {}
    <2>1. record' = record
      BY <1>1 DEF Ensure
    <2> QED
      BY <1>1, <2>1, RecordsType, NewestFound DEF Ensured, Holders
  <1>2. CASE Found(row) = {}
    <2> DEFINE r == AsRecord(row, None)
    <2>1. r \in Record /\ r.vehicle = None
      BY AsRecordType DEF AsRecord
    <2>2. record' = Append(record, r) /\ Len(record) < MaxRecords
      BY <1>2 DEF Ensure
    <2> HIDE DEF r
    <2>3. /\ record' \in Seq(Record) /\ Len(record') = Len(record) + 1
          /\ \A v \in Vehicles : Holders(v)' = Holders(v)
      BY <2>1, <2>2, RecordAdded
    <2>4. Ensured(row) = Len(record) + 1
      BY <1>2 DEF Ensured
    <2> QED
      BY <2>2, <2>3, <2>4, RecordsType
  <1> QED
    BY <1>1, <1>2

----------------------------------------------------------------------------
(* Steps of administrators' requests that give no vehicle. *)

LEMMA SoundLater ==
    ASSUME NEW q, NEW n \in Nat, NEW m \in Nat, n <= m, Sound(q, n)
    PROVE  Sound(q, m)
  BY DEF Sound

\* The invariant survives when a request goes on, no record gets a vehicle, and the
\* request is about to give only what it was about to give before.
LEMMA EditStep ==
    ASSUME IInv, NEW e \in Editors, NEW q, Sound(q, Len(record')),
           \A v \in Vehicles : q.stage \in {"pick", "set"} /\ q.vehicle = v => e \in Giving(v),
           edit' = [edit EXCEPT ![e] = q],
           record' \in Seq(Record), Len(record') \in Len(record)..MaxRecords,
           \A v \in Vehicles : Holders(v)' \subseteq Holders(v),
           user' \in [Users -> UserRow \cup {Absent}], UNCHANGED <<support, contested>>
    PROVE  IInv'
  <1>1. TypeOK /\ Len(record) \in Nat /\ Len(record') \in Nat /\ Len(record) <= Len(record')
    BY RecordsType DEF IInv
  <1>2. \A f \in Editors : edit'[f] = IF f = e THEN q ELSE edit[f]
    BY <1>1 DEF TypeOK
  <1>3. TypeOK'
    BY <1>1 DEF TypeOK, Sound
  <1>4. \A f \in Editors : Sound(edit'[f], Len(record'))
    BY <1>1, <1>2, SoundLater DEF IInv
  <1>5. ASSUME NEW v \in Vehicles PROVE Giving(v)' \subseteq Giving(v)
    BY <1>2 DEF Giving
  <1>6. ASSUME NEW v \in Vehicles \ contested' PROVE Settled(v)'
    BY <1>5 DEF IInv, Settled
  <1> QED
    BY <1>3, <1>4, <1>6 DEF IInv

LEMMA NoEditType == NoEdit \in Edit /\ NoEdit.stage = "idle" /\ NoEdit.record = 0 /\ 0 \in 0..MaxRecords
  BY DEF NoEdit, Edit

LEMMA NoEditSound ==
    ASSUME NEW n
    PROVE  Sound(NoEdit, n) /\ NoEdit.stage = "idle"
  BY NoEditType DEF Sound

LEMMA EditFields ==
    ASSUME NEW q \in Edit
    PROVE  /\ q.user \in Users \cup {None} /\ q.next \in UserRow \cup {Absent}
           /\ q.vehicle \in Vehicles \cup {None, Keep} /\ q.record \in 0..MaxRecords
           /\ q.old \in Vehicles \cup {None}
  BY DEF Edit

LEMMA HoldersSame ==
    ASSUME record' = record PROVE \A v \in Vehicles : Holders(v)' = Holders(v)
  BY DEF Holders

LEMMA StartStep ==
    ASSUME IInv, NEW e \in Editors,
           \/ \E u \in Users, row \in Rows, v \in Vehicles \cup {None} : CreateUser(e, u, row, v)
           \/ \E u \in Users, row \in Rows, v \in Vehicles \cup {None, Keep} : BeginUpdate(e, u, row, v)
           \/ \E v \in Vehicles, u \in Users \cup {None} : AssignVehicle(e, v, u)
           \/ Fail(e)
    PROVE  IInv'
  <1>1. /\ TypeOK /\ Len(record) \in Len(record)..MaxRecords /\ record \in Seq(Record)
        /\ user \in [Users -> UserRow \cup {Absent}] /\ edit \in [Editors -> Edit]
    BY RecordsType DEF IInv, TypeOK
  <1>2. ASSUME NEW q, Sound(q, Len(record)), q.stage \notin {"pick", "set"},
               edit' = [edit EXCEPT ![e] = q], record' = record,
               user' \in [Users -> UserRow \cup {Absent}], UNCHANGED <<support, contested>>
        PROVE  IInv'
    BY <1>1, <1>2, EditStep, HoldersSame
  <1>3. ASSUME NEW u \in Users, NEW row \in Rows, NEW v \in Vehicles \cup {None},
               CreateUser(e, u, row, v)
        PROVE  IInv'
    <2> DEFINE q == [NoEdit EXCEPT !.stage = "find", !.user = u, !.next = row, !.vehicle = v]
    <2>1. row \in UserRow /\ user' = [user EXCEPT ![u] = row] /\ UNCHANGED <<record, support, contested>>
      BY <1>3 DEF CreateUser
    <2>2. user' \in [Users -> UserRow \cup {Absent}]
      BY <1>1, <2>1
    <2>3. CASE edit' = edit
      <3>1. edit' = [edit EXCEPT ![e] = NoEdit]
        BY <1>1, <1>3, <2>3 DEF CreateUser
      <3> QED
        BY <1>2, <2>1, <2>2, <3>1, NoEditSound
    <2>4. CASE edit' = [edit EXCEPT ![e] = q]
      <3>1. q \in Edit /\ q.stage = "find" /\ q.next = row /\ q.vehicle = v
        BY <2>1, NoEditType DEF Edit
      <3> HIDE DEF q
      <3>2. Sound(q, Len(record))
        BY <2>1, <3>1 DEF Sound
      <3> QED
        BY <1>2, <2>1, <2>2, <2>4, <3>1, <3>2
    <2> QED
      BY <1>3, <2>3, <2>4 DEF CreateUser
  <1>4. ASSUME NEW u \in Users, NEW row \in Rows, NEW v \in Vehicles \cup {None, Keep},
               BeginUpdate(e, u, row, v)
        PROVE  IInv'
    <2> DEFINE q == [NoEdit EXCEPT !.stage = "write", !.user = u, !.next = row, !.vehicle = v]
    <2>1. q \in Edit /\ q.stage = "write" /\ q.user = u /\ q.next = row
      BY NoEditType DEF Edit
    <2>2. edit' = [edit EXCEPT ![e] = q] /\ UNCHANGED <<user, record, support, contested>>
      BY <1>4 DEF BeginUpdate
    <2> HIDE DEF q
    <2>3. Sound(q, Len(record))
      BY <2>1 DEF Sound
    <2> QED
      BY <1>1, <1>2, <2>1, <2>2, <2>3
  <1>5. ASSUME NEW v \in Vehicles, NEW u \in Users \cup {None}, AssignVehicle(e, v, u) PROVE IInv'
    <2> DEFINE q == [NoEdit EXCEPT !.stage = "clear", !.user = u, !.vehicle = v]
    <2>1. 0 \in 0..Len(record)
      BY <1>1, RecordsType
    <2>2. q \in Edit /\ q.stage = "clear" /\ q.user = u /\ q.vehicle = v /\ q.record = 0
      BY NoEditType DEF Edit
    <2>3. edit' = [edit EXCEPT ![e] = q] /\ UNCHANGED <<user, record, support, contested>>
      BY <1>5 DEF AssignVehicle
    <2> HIDE DEF q
    <2>4. Sound(q, Len(record))
      BY <2>1, <2>2 DEF Sound
    <2> QED
      BY <1>1, <1>2, <2>2, <2>3, <2>4
  <1>6. CASE Fail(e)
    BY <1>1, <1>2, <1>6, NoEditSound DEF Fail
  <1> QED
    BY <1>3, <1>4, <1>5, <1>6

LEMMA UpdateStep ==
    ASSUME IInv, NEW e \in Editors,
           WriteUser(e) \/ EnsureRecord(e) \/ SyncRecord(e) \/ FindRecord(e) \/ PickDriver(e)
    PROVE  IInv'
  <1> DEFINE old == edit[e]
  <1>1. /\ TypeOK /\ Len(record) \in Len(record)..MaxRecords /\ record \in Seq(Record)
        /\ user \in [Users -> UserRow \cup {Absent}] /\ edit \in [Editors -> Edit]
        /\ Sound(old, Len(record)) /\ old \in Edit
    BY RecordsType DEF IInv, TypeOK
  <1>2. CASE WriteUser(e)
    <2> DEFINE q == [old EXCEPT !.stage = "ensure"]
    <2>1. old.user \in Users /\ old.next \in UserRow /\ UNCHANGED <<record, support, contested>>
      BY <1>1, <1>2 DEF WriteUser, Sound
    <2>2. user' \in [Users -> UserRow \cup {Absent}]
      BY <1>1, <1>2, <2>1 DEF WriteUser
    <2>3. edit' = [edit EXCEPT ![e] = q] \/ edit' = [edit EXCEPT ![e] = NoEdit]
      BY <1>2 DEF WriteUser
    <2>4. q \in Edit /\ q.stage = "ensure" /\ q.next = old.next
      BY <1>1 DEF Edit
    <2> HIDE DEF q
    <2>5. Sound(q, Len(record))
      BY <2>1, <2>4 DEF Sound
    <2> QED
      BY <1>1, <2>1, <2>2, <2>3, <2>4, <2>5, NoEditSound, EditStep, HoldersSame
  <1>3. CASE EnsureRecord(e)
    <2> DEFINE i == Ensured(old.next)
               q == [old EXCEPT !.stage = "sync", !.record = i]
    <2>1. old.next \in UserRow /\ Ensure(old.next) /\ UNCHANGED <<user, support, contested>>
      BY <1>1, <1>3 DEF EnsureRecord, Sound
    <2>2. /\ record' \in Seq(Record) /\ Len(record') \in Len(record)..MaxRecords
          /\ i \in 1..Len(record')
          /\ \A v \in Vehicles : Holders(v)' = Holders(v)
      BY <1>1, <2>1, EnsureGivesNothing
    <2>3. i \in 0..MaxRecords
      BY <1>1, <2>2, RecordsType
    <2>4. edit' = [edit EXCEPT ![e] = q]
      BY <1>3 DEF EnsureRecord
    <2> HIDE DEF i
    <2>5. q \in Edit /\ q.stage = "sync" /\ q.next = old.next /\ q.record = i
      BY <1>1, <2>3 DEF Edit
    <2> HIDE DEF q
    <2>6. Sound(q, Len(record'))
      BY <2>1, <2>2, <2>5 DEF Sound
    <2> QED
      BY <1>1, <2>1, <2>2, <2>4, <2>5, <2>6, EditStep
  <1>4. CASE SyncRecord(e)
    <2> DEFINE i == old.record
               r == AsRecord(old.next, record[i].vehicle)
               q == [old EXCEPT !.stage = "find", !.record = 0]
    <2>1. /\ i \in 1..Len(record) /\ old.next \in UserRow /\ record' = [record EXCEPT ![i] = r]
          /\ UNCHANGED <<user, support, contested>>
      BY <1>1, <1>4 DEF SyncRecord, Sound
    <2>2. record[i].vehicle \in Vehicles \cup {None}
      BY <1>1, <2>1, RecordsType DEF Record
    <2>3. r \in Record /\ r.vehicle = record[i].vehicle
      BY <2>1, <2>2, AsRecordType DEF AsRecord
    <2> HIDE DEF r
    <2>4. /\ record' \in Seq(Record) /\ Len(record') = Len(record)
          /\ \A v \in Vehicles : Holders(v)' \subseteq Holders(v)
      <3>1. ASSUME NEW v \in Vehicles, v = r.vehicle PROVE i \in Holders(v)
        BY <1>1, <2>1, <2>3, <3>1, RecordsType DEF Holders
      <3>2. /\ record' \in Seq(Record) /\ Len(record') = Len(record)
            /\ \A v \in Vehicles : Holders(v)' \subseteq Holders(v) \cup {i}
            /\ \A v \in Vehicles : v # r.vehicle => Holders(v)' \subseteq Holders(v)
        <4> HIDE DEF i
        <4> QED
          BY <1>1, <2>1, <2>3, RecordChanged
      <3>3. ASSUME NEW v \in Vehicles PROVE Holders(v)' \subseteq Holders(v)
        BY <3>1, <3>2
      <3> QED
        BY <3>2, <3>3
    <2>5. edit' = [edit EXCEPT ![e] = IF old.vehicle = Keep THEN NoEdit ELSE q]
      BY <1>4 DEF SyncRecord
    <2>6. q \in Edit /\ q.stage = "find" /\ q.next = old.next /\ q.vehicle = old.vehicle
      BY <1>1, NoEditType DEF Edit
    <2>7. old.vehicle \in Vehicles \cup {None, Keep}
      BY <1>1, EditFields
    <2> HIDE DEF q
    <2>8. old.vehicle # Keep => Sound(q, Len(record'))
      BY <2>1, <2>6, <2>7 DEF Sound
    <2> QED
      BY <1>1, <2>1, <2>4, <2>5, <2>6, <2>8, NoEditSound, EditStep
  <1>5. CASE FindRecord(e)
    <2> DEFINE i == Ensured(old.next)
               was == IF old.vehicle = None THEN record'[i].vehicle ELSE None
               q == [NoEdit EXCEPT !.stage = "clear", !.vehicle = old.vehicle,
                                   !.record = i, !.old = was]
    <2>1. /\ old.next \in UserRow /\ old.vehicle \in Vehicles \cup {None} /\ Ensure(old.next)
          /\ UNCHANGED <<user, support, contested>>
      BY <1>1, <1>5 DEF FindRecord, Sound
    <2>2. /\ record' \in Seq(Record) /\ Len(record') \in Len(record)..MaxRecords
          /\ i \in 1..Len(record')
          /\ \A v \in Vehicles : Holders(v)' = Holders(v)
      BY <1>1, <2>1, EnsureGivesNothing
    <2>3. i \in 0..MaxRecords /\ i \in 0..Len(record') /\ i # 0
      BY <1>1, <2>2, RecordsType
    <2>4. was \in Vehicles \cup {None}
      <3>1. record'[i] \in Record
        <4> HIDE DEF i
        <4> QED
          BY <2>2, ElementOfSeq
      <3> HIDE DEF i
      <3> QED
        BY <3>1 DEF Record
    <2>5. edit' = [edit EXCEPT ![e] = q]
      BY <1>5 DEF FindRecord
    <2> HIDE DEF i, was
    <2>6. q \in Edit /\ q.stage = "clear" /\ q.record = i /\ q.vehicle = old.vehicle
      BY <2>1, <2>3, <2>4 DEF Edit, NoEdit
    <2> HIDE DEF q
    <2>7. Sound(q, Len(record'))
      BY <2>1, <2>3, <2>6 DEF Sound
    <2> QED
      BY <1>1, <2>1, <2>2, <2>5, <2>6, <2>7, EditStep
  <1>6. CASE PickDriver(e)
    <2> DEFINE row == user[old.user]
               i == Ensured(row)
               q == [old EXCEPT !.stage = "set", !.user = None, !.record = i]
    <2>1. /\ old.stage = "pick" /\ old.user \in Users /\ old.vehicle \in Vehicles /\ Ensure(row)
          /\ row.role = "DRIVER" /\ UNCHANGED <<user, support, contested>>
      BY <1>1, <1>6 DEF PickDriver, Sound
    <2>2. row \in UserRow
      BY <1>1, <2>1 DEF Absent
    <2> HIDE DEF row
    <2>3. /\ record' \in Seq(Record) /\ Len(record') \in Len(record)..MaxRecords
          /\ i \in 1..Len(record')
          /\ \A v \in Vehicles : Holders(v)' = Holders(v)
      BY <1>1, <2>1, <2>2, EnsureGivesNothing
    <2>4. i \in 0..MaxRecords
      BY <1>1, <2>3, RecordsType
    <2>5. edit' = [edit EXCEPT ![e] = q]
      BY <1>6 DEF PickDriver, row
    <2> HIDE DEF i
    <2>6. q \in Edit /\ q.stage = "set" /\ q.record = i /\ q.vehicle = old.vehicle
      BY <1>1, <2>4 DEF Edit
    <2> HIDE DEF q
    <2>7. Sound(q, Len(record'))
      BY <2>1, <2>3, <2>6 DEF Sound
    <2>8. \A v \in Vehicles : q.vehicle = v => e \in Giving(v)
      BY <2>1, <2>6 DEF Giving
    <2> QED
      BY <1>1, <2>1, <2>3, <2>5, <2>7, <2>8, EditStep
  <1> QED
    BY <1>2, <1>3, <1>4, <1>5, <1>6

----------------------------------------------------------------------------
(* Steps that take a vehicle from everybody, and that give it. *)

LEMMA ClearedRecords ==
    ASSUME TypeOK, NEW v \in Vehicles \cup {None},
           record' = [i \in DOMAIN record |->
                        IF v # None /\ record[i].vehicle = v
                        THEN [record[i] EXCEPT !.vehicle = None] ELSE record[i]]
    PROVE  /\ record' \in Seq(Record) /\ Len(record') = Len(record)
           /\ \A w \in Vehicles : Holders(w)' \subseteq Holders(w)
           /\ v # None => Holders(v)' = {}
  <1> DEFINE n == Len(record)
             r(i) == IF v # None /\ record[i].vehicle = v
                     THEN [record[i] EXCEPT !.vehicle = None] ELSE record[i]
  <1>1. n \in Nat /\ DOMAIN record = 1..n /\ record' = [i \in 1..n |-> r(i)]
    BY RecordsType
  <1>2. ASSUME NEW i \in 1..n
        PROVE  /\ r(i) \in Record
               /\ r(i).vehicle = IF v # None /\ record[i].vehicle = v THEN None ELSE record[i].vehicle
    <2>1. record[i] \in Record
      BY RecordsType
    <2> QED
      BY <2>1 DEF Record
  <1> HIDE DEF r, n
  <1>3. record' \in Seq(Record) /\ Len(record') = n
    <2>1. record' \in [1..n -> Record]
      BY <1>1, <1>2
    <2>2. record' \in Seq(Record)
      BY <1>1, <2>1, SeqDef
    <2>3. Len(record') \in Nat /\ DOMAIN record' = 1..Len(record') /\ DOMAIN record' = 1..n
      BY <1>1, <2>2, LenProperties
    <2> QED
      BY <1>1, <2>2, <2>3
  <1>4. DOMAIN record' = 1..n /\ \A i \in 1..n : record'[i] = r(i)
    BY <1>1
  <1>5. \A w \in Vehicles : Holders(w)' \subseteq Holders(w)
    BY <1>1, <1>2, <1>4 DEF Holders
  <1>6. v # None => Holders(v)' = {}
    BY <1>2, <1>4 DEF Holders
  <1> QED
    BY <1>3, <1>5, <1>6 DEF n

LEMMA ClearStep == ASSUME IInv, NEW e \in Editors, Clear(e) PROVE IInv'
  <1> DEFINE old == edit[e]
             n == Len(record)
             picking == [old EXCEPT !.stage = "pick"]
             setting == [old EXCEPT !.stage = "set"]
  <1>1. /\ TypeOK /\ n \in Nat /\ edit \in [Editors -> Edit] /\ old \in Edit
        /\ old.stage = "clear" /\ Sound(old, n) /\ user' = user /\ support' = support
    BY RecordsType DEF IInv, TypeOK, Clear
  <1>2. PICK v \in Vehicles \cup {None} :
          /\ v = Cleared(e)
          /\ (old.vehicle # None => v = old.vehicle) /\ old.vehicle \in Vehicles \cup {None}
    BY <1>1, EditFields DEF Cleared, Sound
  <1>3. /\ record' \in Seq(Record) /\ Len(record') = n
        /\ \A w \in Vehicles : Holders(w)' \subseteq Holders(w)
        /\ v # None => Holders(v)' = {}
    <2>1. record' = [i \in DOMAIN record |->
                       IF v # None /\ record[i].vehicle = v
                       THEN [record[i] EXCEPT !.vehicle = None] ELSE record[i]]
      BY <1>2 DEF Clear
    <2> QED
      BY <1>1, <2>1, ClearedRecords
  <1>4. PICK q : /\ edit' = [edit EXCEPT ![e] = q] /\ Sound(q, n)
                 /\ q = NoEdit \/ q.vehicle = old.vehicle
    <2>1. edit' = [edit EXCEPT ![e] = IF old.record = 0
                                      THEN IF old.user = None THEN NoEdit ELSE picking
                                      ELSE setting]
      BY DEF Clear
    <2>2. /\ picking \in Edit /\ picking.stage = "pick" /\ picking.user = old.user
          /\ picking.vehicle = old.vehicle
      BY <1>1 DEF Edit
    <2>3. /\ setting \in Edit /\ setting.stage = "set" /\ setting.record = old.record
          /\ setting.vehicle = old.vehicle
      BY <1>1 DEF Edit
    <2> HIDE DEF picking, setting
    <2>4. CASE old.record = 0 /\ old.user = None
      BY <2>1, <2>4, NoEditSound
    <2>5. CASE old.record = 0 /\ old.user # None
      <3>1. Sound(picking, n)
        BY <1>1, <2>2, <2>5 DEF Sound
      <3> QED
        BY <2>1, <2>2, <2>5, <3>1
    <2>6. CASE old.record # 0
      <3>1. Sound(setting, n)
        BY <1>1, <2>3, <2>6 DEF Sound
      <3> QED
        BY <2>1, <2>3, <2>6, <3>1
    <2> QED
      BY <2>4, <2>5, <2>6
  <1>5. \A f \in Editors : edit'[f] = IF f = e THEN q ELSE edit[f]
    BY <1>1, <1>4
  <1>6. contested' = IF v = None \/ v # old.vehicle THEN contested
                     ELSE IF Giving(v) = {} THEN contested \ {v}
                     ELSE contested \cup {v}
    BY <1>2 DEF Clear
  <1>7. contested' \subseteq Vehicles
    BY <1>1, <1>2, <1>6 DEF TypeOK
  <1>8. TypeOK' /\ \A f \in Editors : Sound(edit'[f], Len(record'))
    BY <1>1, <1>3, <1>4, <1>5, <1>7, RecordsType DEF TypeOK, Sound, IInv
  <1>9. ASSUME NEW w \in Vehicles PROVE Giving(w)' \subseteq Giving(w) \cup {e}
    BY <1>5 DEF Giving
  <1>10. ASSUME NEW w \in Vehicles, w # old.vehicle PROVE Giving(w)' \subseteq Giving(w)
    BY <1>4, <1>5, <1>10, NoEditType DEF Giving
  <1>11. ASSUME NEW w \in Vehicles \ contested' PROVE Settled(w)'
    <2>1. CASE w = old.vehicle
      <3>1. w = v /\ w # None
        BY <1>2, <2>1
      <3>2. Giving(w) = {}
        BY <1>6, <1>11, <2>1, <3>1
      <3>3. Holders(w)' = {} /\ Giving(w)' \subseteq {e}
        BY <1>3, <1>9, <3>1, <3>2
      <3> QED
        BY <3>3 DEF Settled
    <2>2. CASE w # old.vehicle
      <3>1. w \notin contested
        BY <1>2, <1>6, <1>11, <2>2
      <3>2. Holders(w)' \subseteq Holders(w) /\ Giving(w)' \subseteq Giving(w) /\ Settled(w)
        BY <1>3, <1>10, <2>2, <3>1 DEF IInv
      <3> QED
        BY <3>2 DEF Settled
    <2> QED
      BY <2>1, <2>2
  <1> QED
    BY <1>1, <1>8, <1>11 DEF IInv

LEMMA SetStep == ASSUME IInv, NEW e \in Editors, SetVehicle(e) PROVE IInv'
  <1> DEFINE old == edit[e]
             i == old.record
             v == old.vehicle
             r == [record[i] EXCEPT !.vehicle = v]
  <1>1. /\ TypeOK /\ Len(record) \in Nat /\ edit \in [Editors -> Edit] /\ old.stage = "set"
        /\ Sound(old, Len(record)) /\ UNCHANGED <<user, support, contested>>
        /\ edit' = [edit EXCEPT ![e] = NoEdit]
    BY RecordsType DEF IInv, TypeOK, SetVehicle
  <1>2. i \in 1..Len(record) /\ v \in Vehicles \cup {None}
    BY <1>1 DEF Sound
  <1>3. r \in Record /\ r.vehicle = v
    BY <1>1, <1>2, RecordsType DEF Record
  <1>4. record' = [record EXCEPT ![i] = r]
    BY DEF SetVehicle
  <1> HIDE DEF r
  <1>5. /\ record' \in Seq(Record) /\ Len(record') = Len(record)
        /\ \A w \in Vehicles : Holders(w)' \subseteq Holders(w) \cup {i}
        /\ \A w \in Vehicles : w # v => Holders(w)' \subseteq Holders(w)
    <2> HIDE DEF i, v
    <2> QED
      BY <1>1, <1>2, <1>3, <1>4, RecordChanged
  <1>6. \A f \in Editors : edit'[f] = IF f = e THEN NoEdit ELSE edit[f]
    BY <1>1
  <1>7. TypeOK'
    BY <1>1, <1>5, NoEditType DEF TypeOK
  <1>8. \A f \in Editors : Sound(edit'[f], Len(record'))
    BY <1>5, <1>6, NoEditSound DEF IInv
  <1>9. ASSUME NEW w \in Vehicles PROVE Giving(w)' \subseteq Giving(w) \ {e}
    BY <1>6, NoEditType DEF Giving
  <1>10. ASSUME NEW w \in Vehicles \ contested PROVE Settled(w)'
    <2>1. Settled(w)
      BY <1>10 DEF IInv
    <2>2. CASE w = v
      <3>1. e \in Giving(w)
        BY <1>1, <2>2 DEF Giving
      <3>2. Holders(w) = {} /\ Giving(w)' = {}
        BY <1>9, <2>1, <3>1 DEF Settled
      <3>3. Holders(w)' \subseteq {i}
        BY <1>5, <3>2
      <3> QED
        BY <3>2, <3>3 DEF Settled
    <2>3. CASE w # v
      <3>1. Holders(w)' \subseteq Holders(w) /\ Giving(w)' \subseteq Giving(w)
        BY <1>5, <1>9, <2>3
      <3> QED
        BY <2>1, <3>1 DEF Settled
    <2> QED
      BY <2>2, <2>3
  <1> QED
    BY <1>1, <1>7, <1>8, <1>10 DEF IInv

----------------------------------------------------------------------------
(* Support and the import. *)

LEMMA BeginSupportStep ==
    ASSUME IInv, NEW s \in Supporters, NEW u \in Users, NEW row \in Rows,
           NEW v \in Vehicles \cup {None, Keep}, BeginSupport(s, u, row, v)
    PROVE  IInv'
  <1>1. TypeOK /\ user[u] \in UserRow
    BY DEF IInv, TypeOK, BeginSupport
  <1>2. PICK old \in IF Found(user[u]) = {} THEN {None}
                      ELSE {record[i].vehicle : i \in Found(user[u])} :
          support' = [support EXCEPT ![s] = [user |-> u, was |-> user[u], next |-> row,
                                             vehicle |-> SupportVehicle(old, v)]]
    BY DEF BeginSupport
  <1>3. old \in Vehicles \cup {None}
    <2>1. \A i \in Found(user[u]) : record[i] \in Record
      BY <1>1, RecordsType DEF Found
    <2>2. \A i \in Found(user[u]) : record[i].vehicle \in Vehicles \cup {None}
      BY <2>1 DEF Record
    <2> QED
      BY <1>2, <2>2
  <1> DEFINE next == SupportVehicle(old, v)
             w == [user |-> u, was |-> user[u], next |-> row, vehicle |-> next]
  <1>4. next \in Vehicles \cup {None}
    BY <1>3 DEF SupportVehicle
  <1>5. support' = [support EXCEPT ![s] = w]
    BY <1>2
  <1> HIDE DEF next
  <1>6. w \in Support /\ SoundSupport(w)
    BY <1>1, <1>4 DEF Support, SoundSupport
  <1> HIDE DEF w
  <1>7. UNCHANGED <<user, record, edit, contested>>
    BY DEF BeginSupport
  <1>8. TypeOK' /\ \A z \in Supporters : SoundSupport(support'[z])
    BY <1>1, <1>5, <1>6, <1>7 DEF TypeOK, IInv
  <1> QED
    BY <1>7, <1>8 DEF IInv, Settled, Holders, Giving

\* What a support transaction leaves: only its vehicle can have a new holder.
LEMMA SupportRecords ==
    ASSUME TypeOK, NEW was \in UserRow, NEW next \in UserRow, NEW v \in Vehicles \cup {None},
           record' \in SupportWrites(was, next, v)
    PROVE  /\ record' \in Seq(Record) /\ Len(record') \in Len(record)..MaxRecords
           /\ \A w \in Vehicles : w # v => Holders(w)' \subseteq Holders(w)
  <1> DEFINE found == Found(was) \cup Found(next)
             r == AsRecord(next, v)
  <1>1. r \in Record /\ r.vehicle = v
    BY AsRecordType DEF AsRecord
  <1>2. found \subseteq 1..Len(record) /\ Len(record) \in Nat
    BY RecordsType DEF Found
  <1>3. \/ record' = record
        \/ Len(record) < MaxRecords /\ record' = Append(record, r)
        \/ \E i \in found : record' = [record EXCEPT ![i] = r]
        \/ \E i \in found : record' = [record EXCEPT ![i].vehicle = None]
    BY DEF SupportWrites
  <1> HIDE DEF r, found
  <1>4. CASE record' = record
    BY <1>4, RecordsType, HoldersSame
  <1>5. CASE Len(record) < MaxRecords /\ record' = Append(record, r)
    BY <1>1, <1>2, <1>5, RecordAdded, RecordsType
  <1>6. ASSUME NEW i \in found, record' = [record EXCEPT ![i] = r]
        PROVE  /\ record' \in Seq(Record) /\ Len(record') \in Len(record)..MaxRecords
               /\ \A w \in Vehicles : w # v => Holders(w)' \subseteq Holders(w)
    <2>1. record' \in Seq(Record) /\ Len(record') = Len(record)
          /\ \A w \in Vehicles : w # v => Holders(w)' \subseteq Holders(w)
      BY <1>1, <1>2, <1>6, RecordChanged
    <2> QED
      BY <2>1, RecordsType
  <1>7. ASSUME NEW i \in found, record' = [record EXCEPT ![i].vehicle = None]
        PROVE  /\ record' \in Seq(Record) /\ Len(record') \in Len(record)..MaxRecords
               /\ \A w \in Vehicles : w # v => Holders(w)' \subseteq Holders(w)
    <2> DEFINE empty == [record[i] EXCEPT !.vehicle = None]
    <2>1. empty \in Record /\ empty.vehicle = None
      BY <1>2, RecordsType DEF Record
    <2>2. record' = [record EXCEPT ![i] = empty]
      BY <1>7
    <2> HIDE DEF empty
    <2>3. record' \in Seq(Record) /\ Len(record') = Len(record)
          /\ \A w \in Vehicles : w # None => Holders(w)' \subseteq Holders(w)
      BY <1>2, <2>1, <2>2, RecordChanged
    <2> QED
      BY <2>3, RecordsType
  <1> QED
    BY <1>3, <1>4, <1>5, <1>6, <1>7

LEMMA CommitStep == ASSUME IInv, NEW s \in Supporters, CommitSupport(s) PROVE IInv'
  <1> DEFINE w == support[s]
  <1>1. /\ TypeOK /\ w.user \in Users /\ w.was \in UserRow /\ w.next \in UserRow
        /\ w.vehicle \in Vehicles \cup {None}
    BY DEF IInv, SoundSupport, CommitSupport
  <1>2. /\ user' = [user EXCEPT ![w.user] = w.next] /\ edit' = edit
        /\ record' \in SupportWrites(w.was, w.next, w.vehicle)
        /\ contested' = IF w.vehicle = None THEN contested ELSE contested \cup {w.vehicle}
        /\ support' = [support EXCEPT ![s] = NoSupport]
    BY DEF CommitSupport
  <1> HIDE DEF w
  <1>3. /\ record' \in Seq(Record) /\ Len(record') \in Len(record)..MaxRecords
        /\ \A x \in Vehicles : x # w.vehicle => Holders(x)' \subseteq Holders(x)
    BY <1>1, <1>2, SupportRecords
  <1>4. Len(record) \in Nat /\ Len(record') \in Nat /\ Len(record) <= Len(record')
        /\ Len(record') <= MaxRecords
    BY <1>1, <1>3, RecordsType
  <1>5. NoSupport \in Support
    BY DEF NoSupport, Support
  <1>6. TypeOK'
    BY <1>1, <1>2, <1>3, <1>4, <1>5 DEF TypeOK
  <1>7. \A e \in Editors : Sound(edit'[e], Len(record'))
    BY <1>2, <1>4, SoundLater DEF IInv
  <1>8. \A z \in Supporters : SoundSupport(support'[z])
    BY <1>1, <1>2 DEF IInv, TypeOK, SoundSupport
  <1>9. ASSUME NEW x \in Vehicles \ contested' PROVE Settled(x)'
    <2>1. x \notin contested /\ x # w.vehicle
      BY <1>1, <1>2, <1>9
    <2>2. Settled(x) /\ Holders(x)' \subseteq Holders(x) /\ Giving(x)' = Giving(x)
      BY <1>2, <1>3, <2>1 DEF IInv, Giving
    <2> QED
      BY <2>2 DEF Settled
  <1> QED
    BY <1>6, <1>7, <1>8, <1>9 DEF IInv

LEMMA RollBackStep == ASSUME IInv, NEW s \in Supporters, RollBack(s) PROVE IInv'
  <1>1. NoSupport \in Support /\ SoundSupport(NoSupport)
    BY DEF NoSupport, Support, SoundSupport
  <1>2. support' = [support EXCEPT ![s] = NoSupport] /\ UNCHANGED <<user, record, edit, contested>>
    BY DEF RollBack
  <1>3. TypeOK' /\ \A z \in Supporters : SoundSupport(support'[z])
    BY <1>1, <1>2 DEF TypeOK, IInv
  <1> QED
    BY <1>2, <1>3 DEF IInv, Settled, Holders, Giving

LEMMA ImportStep ==
    ASSUME IInv, NEW u \in Users, NEW row \in Rows, ImportUser(u, row)
    PROVE  IInv'
  <1>1. row \in UserRow /\ user' = [user EXCEPT ![u] = row]
        /\ UNCHANGED <<record, edit, support, contested>>
    BY DEF ImportUser
  <1>2. TypeOK'
    BY <1>1 DEF TypeOK, IInv
  <1> QED
    BY <1>1, <1>2 DEF IInv, Settled, Holders, Giving

----------------------------------------------------------------------------
(* Theorems. *)

LEMMA IInvInit == Init => IInv
  <1> SUFFICES ASSUME Init PROVE IInv
    OBVIOUS
  <1>1. record = <<>> /\ record \in Seq(Record) /\ Len(record) = 0 /\ DOMAIN record = {}
    BY DEF Init
  <1>2. NoSupport \in Support /\ SoundSupport(NoSupport)
    BY DEF NoSupport, Support, SoundSupport
  <1>3. TypeOK
    BY <1>1, <1>2, NoEditType DEF Init, TypeOK
  <1>4. \A e \in Editors : Sound(edit[e], Len(record)) /\ edit[e].stage = "idle"
    BY NoEditSound DEF Init
  <1>5. \A v \in Vehicles : Holders(v) = {} /\ Giving(v) = {}
    BY <1>1, <1>4 DEF Holders, Giving
  <1> QED
    BY <1>2, <1>3, <1>4, <1>5 DEF Init, IInv, Settled

LEMMA IInvStep == IInv /\ [Next]_vars => IInv'
  <1> SUFFICES ASSUME IInv, [Next]_vars PROVE IInv'
    OBVIOUS
  <1>1. ASSUME NEW e \in Editors, Administer(e) PROVE IInv'
    BY <1>1, StartStep, UpdateStep, ClearStep, SetStep DEF Administer
  <1>2. ASSUME NEW s \in Supporters, GiveSupport(s) PROVE IInv'
    BY <1>2, BeginSupportStep, CommitStep, RollBackStep DEF GiveSupport
  <1>3. ASSUME NEW u \in Users, NEW row \in Rows, ImportUser(u, row) PROVE IInv'
    BY <1>3, ImportStep
  <1>4. CASE UNCHANGED vars
    <2>1. TypeOK'
      BY <1>4 DEF vars, IInv, TypeOK
    <2> QED
      BY <1>4, <2>1 DEF vars, IInv, Settled, Holders, Giving
  <1> QED
    BY <1>1, <1>2, <1>3, <1>4 DEF Next

\* The invariant the following theorems rest on.
THEOREM FleetInvariant == Spec => []IInv
  BY IInvInit, IInvStep, PTL DEF Spec

\* Users, drivers' records and the requests about them keep to their types.
THEOREM FleetTypeCorrect == Spec => []TypeOK
  <1>1. IInv => TypeOK
    BY DEF IInv
  <1> QED
    BY <1>1, FleetInvariant, PTL

\* A vehicle has two holders only if somebody gave it away under another's hands.
THEOREM NeverSharedUncontested == Spec => []SharedOnlyIfContested
  <1>1. IInv => SharedOnlyIfContested
    <2> SUFFICES ASSUME IInv, NEW v \in Vehicles \ contested PROVE Cardinality(Holders(v)) <= 1
      BY DEF SharedOnlyIfContested
    <2>1. \A i, j \in Holders(v) : i = j
      BY DEF IInv, Settled
    <2>2. CASE Holders(v) = {}
      BY <2>2, FS_EmptySet
    <2>3. ASSUME NEW i \in Holders(v) PROVE Cardinality(Holders(v)) <= 1
      <3>1. Holders(v) = {i}
        BY <2>1, <2>3
      <3>2. Cardinality({i}) = 1
        BY FS_Singleton
      <3> QED
        BY <3>1, <3>2
    <2> QED
      BY <2>2, <2>3
  <1> QED
    BY <1>1, FleetInvariant, PTL

----------------------------------------------------------------------------
(* Administrators who wait for each other: without support nothing is ever *)
(* contested, and no vehicle is ever with two drivers.                     *)

LEMMA NothingContested ==
    ASSUME \A e, f \in Editors : e = f, Supporters = {}, IInv, contested = {}, [Next]_vars
    PROVE  contested' = {}
  <1>1. ASSUME NEW e \in Editors, Clear(e) PROVE contested' = {}
    <2>1. Giving(Cleared(e)) = {}
      BY <1>1 DEF Giving, Clear
    <2> QED
      BY <1>1, <2>1 DEF Clear
  <1>2. ASSUME NEW e \in Editors, Administer(e), ~Clear(e) PROVE contested' = contested
    BY <1>2 DEF Administer, CreateUser, BeginUpdate, AssignVehicle, WriteUser, EnsureRecord, SyncRecord,
                FindRecord, PickDriver, SetVehicle, Fail
  <1>3. ASSUME NEW u \in Users, NEW row \in Rows, ImportUser(u, row) PROVE contested' = contested
    BY <1>3 DEF ImportUser
  <1>4. CASE UNCHANGED vars
    BY <1>4 DEF vars
  <1> QED
    BY <1>1, <1>2, <1>3, <1>4 DEF Next

\* If administrators follow one another and support stays away, then however users are
\* renamed and whatever fails, no vehicle is ever with two drivers: their overlap, or a
\* support request, is all that SharedOnlyIfContested makes an exception for
\* (setDriverVehicleAssignment, assignVehicleToDriverUser).
THEOREM SerialNeverShares ==
    ASSUME \A e, f \in Editors : e = f, Supporters = {}
    PROVE  Spec => [](SharedOnlyIfContested /\ \A v \in Vehicles : Cardinality(Holders(v)) <= 1)
  <1>1. Init => contested = {}
    BY DEF Init
  <1>2. IInv /\ contested = {} /\ [Next]_vars => (contested = {})'
    BY NothingContested
  <1>3. Spec => [](contested = {})
    BY <1>1, <1>2, FleetInvariant, PTL DEF Spec
  <1>4. SharedOnlyIfContested /\ contested = {} => \A v \in Vehicles : Cardinality(Holders(v)) <= 1
    BY DEF SharedOnlyIfContested
  <1> QED
    BY <1>3, <1>4, NeverSharedUncontested, PTL
=============================================================================

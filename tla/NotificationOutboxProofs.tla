---------------------- MODULE NotificationOutboxProofs ----------------------
(***************************************************************************)
(* Proofs about NotificationOutbox for any number of alerts, recipients    *)
(* and overlapping requests, any attempt limit and any backoff.            *)
(***************************************************************************)
EXTENDS NotificationOutbox, TLAPS

USE DEF Open, Settled, Delivered, Skips, Statuses, Absent, None

----------------------------------------------------------------------------
(* What the pure helpers return. *)

\* A new row is waiting or already skipped, never in a state that needs an attempt.
LEMMA InitialStatusType ==
    ASSUME settings \in Settings, NEW k \in AllKeys
    PROVE  InitialStatus(k) \in {"SKIPPED_DISABLED", "SKIPPED_NOT_CONFIGURED", "PENDING"}
  BY DEF InitialStatus, EventEnabled, Settings, AllKeys, EventTypes

\* The policy check names a skip, or nothing.
LEMMA SkipReasonType ==
    ASSUME NEW s \in Settings
    PROVE  SkipReason(s) \in Skips \cup {None}
  BY DEF SkipReason, Settings

\* A row whose policy check passed has a provider to call.
LEMMA PassedPolicy ==
    ASSUME NEW s \in Settings, SkipReason(s) = None
    PROVE  /\ ResolveProvider(config) \in {"dev_stub", "meta_cloud_api"}
           /\ ~SwitchedOff(s)
  BY DEF SkipReason, Settings, ResolveProvider, SwitchedOff

\* What a provider answers is a delivery status.
LEMMA SendResultsType ==
    ASSUME NEW p, NEW r
    PROVE  SendResults(p, r \in Phones) \subseteq {"SENT", "STUBBED", "FAILED_RETRYABLE", "FAILED_PERMANENT"}
  BY DEF SendResults

\* After an attempt a row is settled or waits for a retry; it is kept open only
\* while attempts remain, and its new status is one of the logged results unless
\* the last attempt was used up or nothing but permanent failures were logged.
LEMMA FinalStatusFacts ==
    ASSUME NEW rs \in SUBSET Statuses, NEW n \in Nat
    PROVE  /\ FinalStatus(rs, n) \in Settled \cup {"FAILED_RETRYABLE"}
           /\ FinalStatus(rs, n) = "FAILED_RETRYABLE" => n < MaxAttempts
           /\ FinalStatus(rs, n) # "FAILED_PERMANENT" => FinalStatus(rs, n) \in rs
           /\ FinalStatus(rs, n) = "FAILED_PERMANENT" =>
                 /\ rs \cap (Skips \cup Delivered) = {}
                 /\ "FAILED_RETRYABLE" \in rs => ~(n < MaxAttempts)
  <1>1. CASE rs \cap Skips # {}
    <2>1. \E s \in Skips : s \in rs
      BY <1>1
    <2>2. FinalStatus(rs, n) = CHOOSE s \in Skips : s \in rs
      BY <1>1 DEF FinalStatus
    <2> QED
      BY <2>1, <2>2
  <1>2. CASE rs \cap Skips = {}
    BY <1>2 DEF FinalStatus
  <1> QED
    BY <1>1, <1>2

----------------------------------------------------------------------------
(* Types, and where a pipeline may stand.  Neither is inductive without the *)
(* other: Current(d) is a row only while the batch is not empty.            *)

USE DEF Stages, NoEntry, NothingToCreate

TypeInv == TypeOK /\ StageOK

LEMMA NobodyNamed == Nobody \in [Recipients -> 0..MaxNamed] /\ Named(Nobody) = {}
  BY ConstantsAssumption DEF Nobody, Named

LEMMA TypeInit == Init => TypeInv
  <1> SUFFICES ASSUME Init PROVE TypeInv
    OBVIOUS
  <1>1. settings \in Settings /\ config \in Configs
    BY ConstantsAssumption DEF Init
  <1>2. outbox \in [Keys -> Row] /\ accepted \in [Keys -> [Recipients -> Nat]]
    BY DEF Init, Row
  <1>3. /\ batch \in [Requests -> Seq(SnapshotRow)]
        /\ entry \in [Requests -> Entry]
        /\ deliveries \subseteq Delivery
    BY DEF Init, Entry
  <1>4. TypeOK
    BY <1>1, <1>2, <1>3, NobodyNamed DEF Init, TypeOK
  <1>5. StageOK
    BY NobodyNamed DEF Init, StageOK, StageAt
  <1> QED
    BY <1>4, <1>5 DEF TypeInv

LEMMA TypeStart ==
    ASSUME TypeInv, NEW d \in Requests, Start(d)
    PROVE  TypeInv'
  BY ConstantsAssumption, InitialStatusType
     DEF TypeInv, TypeOK, StageOK, StageAt, Start, StartPipeline, db, ghosts

LEMMA TypeCreateRows ==
    ASSUME TypeInv, NEW d \in Requests, CreateRows(d)
    PROVE  TypeInv'
  BY DEF TypeInv, TypeOK, StageOK, StageAt, CreateRows, ghosts, Row

\* A snapshot is a sequence of rows read from the outbox, empty only if n is 0.
LEMMA SnapshotFacts ==
    ASSUME TypeOK, NEW n \in 0..BatchLimit, NEW s \in ScanOrders(n)
    PROVE  /\ n \in Nat
           /\ Snapshot(n, s) \in Seq(SnapshotRow)
           /\ Len(Snapshot(n, s)) = n
           /\ \A i \in 1..n : /\ s[i] \in DueKeys
                              /\ Snapshot(n, s)[i] = [key |-> s[i], attemptCount |-> outbox[s[i]].attemptCount]
           /\ n # 0 => Snapshot(n, s) # <<>>
  <1>1. n \in Nat
    BY ConstantsAssumption
  <1>2. \A i \in 1..n : s[i] \in DueKeys
    BY DEF ScanOrders
  <1>3. \A i \in 1..n : [key |-> s[i], attemptCount |-> outbox[s[i]].attemptCount] \in SnapshotRow
    BY <1>2 DEF DueKeys, TypeOK, Row, SnapshotRow
  <1> QED
    BY <1>1, <1>2, <1>3 DEF Snapshot

LEMMA TypeScan ==
    ASSUME TypeInv, NEW d \in Requests, Scan(d)
    PROVE  TypeInv'
  <1> USE DEF TypeInv
  <1>1. PICK n \in 0..BatchLimit : \E s \in ScanOrders(n) :
             /\ batch' = [batch EXCEPT ![d] = Snapshot(n, s)]
             /\ pc' = [pc EXCEPT ![d] = IF n = 0 THEN "idle" ELSE "policy"]
    BY DEF Scan
  <1>2. PICK s \in ScanOrders(n) :
             /\ batch' = [batch EXCEPT ![d] = Snapshot(n, s)]
             /\ pc' = [pc EXCEPT ![d] = IF n = 0 THEN "idle" ELSE "policy"]
    BY <1>1
  <1>3. TypeOK'
    <2>1. batch' \in [Requests -> Seq(SnapshotRow)] /\ pc' \in [Requests -> Stages]
      BY <1>2, SnapshotFacts DEF TypeOK
    <2> QED
      BY <2>1 DEF TypeOK, Scan, db, ghosts
  <1>4. StageOK'
    <2> SUFFICES ASSUME NEW e \in Requests PROVE StageAt(e)'
      BY DEF StageOK
    <2>1. CASE e = d
      BY <1>2, <2>1, SnapshotFacts DEF StageOK, StageAt, TypeOK, Scan, db, ghosts
    <2>2. CASE e # d
      BY <1>2, <2>2 DEF StageOK, StageAt, TypeOK, Scan, db, ghosts
    <2> QED
      BY <2>1, <2>2
  <1> QED
    BY <1>3, <1>4

LEMMA TypeCheckPolicy ==
    ASSUME TypeInv, NEW d \in Requests, CheckPolicy(d)
    PROVE  TypeInv'
  <1> USE DEF TypeInv
  <1>1. TypeOK'
    <2>1. settings \in Settings
      BY DEF TypeOK
    <2>2. CASE SkipReason(settings) # None
      <3>1. [recipient |-> None, status |-> SkipReason(settings)] \in Entry
        BY <2>1, <2>2, SkipReasonType DEF Entry
      <3>2. /\ entry' = [entry EXCEPT ![d] = [recipient |-> None, status |-> SkipReason(settings)]]
            /\ via' = via
            /\ pc' = [pc EXCEPT ![d] = "log"]
        BY <2>2 DEF CheckPolicy
      <3>3. entry' \in [Requests -> Entry] /\ pc' \in [Requests -> Stages]
        BY <3>1, <3>2 DEF TypeOK
      <3> QED
        BY <3>2, <3>3 DEF TypeOK, CheckPolicy, db, ghosts
    <2>3. CASE SkipReason(settings) = None
      <3>1. ResolveProvider(config) \in {"dev_stub", "meta_cloud_api"}
        BY <2>1, <2>3, PassedPolicy
      <3>2. /\ via' = [via EXCEPT ![d] = ResolveProvider(config)]
            /\ entry' = entry
            /\ pc' = [pc EXCEPT ![d] = "resolve"]
        BY <2>3 DEF CheckPolicy
      <3>3. /\ via' \in [Requests -> {None, "dev_stub", "meta_cloud_api"}]
            /\ pc' \in [Requests -> Stages]
        BY <3>1, <3>2 DEF TypeOK
      <3> QED
        BY <3>2, <3>3 DEF TypeOK, CheckPolicy, db, ghosts
    <2> QED
      BY <2>2, <2>3
  <1>2. StageOK'
    <2> SUFFICES ASSUME NEW e \in Requests PROVE StageAt(e)'
      BY DEF StageOK
    <2>1. CASE e = d
      BY <2>1, SkipReasonType, PassedPolicy DEF StageOK, StageAt, TypeOK, CheckPolicy, db, ghosts
    <2>2. CASE e # d
      BY <2>2 DEF StageOK, StageAt, TypeOK, CheckPolicy, db, ghosts
    <2> QED
      BY <2>1, <2>2
  <1> QED
    BY <1>1, <1>2

LEMMA TypeResolveRecipients ==
    ASSUME TypeInv, NEW d \in Requests, ResolveRecipients(d)
    PROVE  TypeInv'
  <1> USE DEF TypeInv
  <1>1. TypeOK'
    <2>1. [recipient |-> None, status |-> "SKIPPED_NO_RECIPIENTS"] \in Entry
      BY DEF Entry
    <2>2. PICK list \in [Recipients -> 0..MaxNamed] :
            \/ /\ entry' = [entry EXCEPT ![d] = [recipient |-> None, status |-> "SKIPPED_NO_RECIPIENTS"]]
               /\ pc' = [pc EXCEPT ![d] = "log"]
               /\ UNCHANGED todo
            \/ /\ todo' = [todo EXCEPT ![d] = list]
               /\ pc' = [pc EXCEPT ![d] = "send"]
               /\ UNCHANGED entry
      BY DEF ResolveRecipients
    <2>3. entry' \in [Requests -> Entry]
      BY <2>1, <2>2 DEF TypeOK
    <2>4. todo' \in [Requests -> [Recipients -> 0..MaxNamed]] /\ pc' \in [Requests -> Stages]
      <3>1. todo' = todo \/ todo' = [todo EXCEPT ![d] = list]
        BY <2>2
      <3>2. pc' = [pc EXCEPT ![d] = "log"] \/ pc' = [pc EXCEPT ![d] = "send"]
        BY <2>2
      <3>3. todo \in [Requests -> [Recipients -> 0..MaxNamed]] /\ pc \in [Requests -> Stages]
        BY DEF TypeOK
      <3>4. pc' \in [Requests -> Stages]
        BY <3>2, <3>3
      <3> HIDE DEF Stages
      <3>5. todo' \in [Requests -> [Recipients -> 0..MaxNamed]]
        BY <3>1, <3>3
      <3> QED
        BY <3>4, <3>5
    <2> QED
      BY <2>3, <2>4 DEF TypeOK, ResolveRecipients, db, ghosts
  <1>2. StageOK'
    <2> SUFFICES ASSUME NEW e \in Requests PROVE StageAt(e)'
      BY DEF StageOK
    <2>1. CASE e = d
      BY <2>1 DEF StageOK, StageAt, TypeOK, ResolveRecipients, db, ghosts
    <2>2. CASE e # d
      BY <2>2 DEF StageOK, StageAt, TypeOK, ResolveRecipients, db, ghosts
    <2> QED
      BY <2>1, <2>2
  <1> QED
    BY <1>1, <1>2

\* Beyond the scan the current row is a row of the snapshot.
LEMMA CurrentType ==
    ASSUME TypeInv, NEW d \in Requests, pc[d] \in {"policy", "resolve", "send", "log", "mark"}
    PROVE  /\ Current(d) \in SnapshotRow
           /\ Current(d) = batch[d][1]
           /\ batch[d] # <<>>
           /\ Tail(batch[d]) \in Seq(SnapshotRow)
  <1>1. batch[d] \in Seq(SnapshotRow) /\ batch[d] # <<>>
    BY DEF TypeInv, TypeOK, StageOK, StageAt
  <1> QED
    BY <1>1 DEF Current

LEMMA TypeSend ==
    ASSUME TypeInv, NEW d \in Requests, Send(d)
    PROVE  TypeInv'
  <1> USE DEF TypeInv
  <1>1. TypeOK'
    <2>1. Current(d) \in SnapshotRow
      BY CurrentType DEF Send
    <2>0. PICK r \in Named(todo[d]) : \E s \in SendResults(via[d], r \in Phones), lost \in BOOLEAN :
             /\ entry' = [entry EXCEPT ![d] = [recipient |-> r, status |-> s]]
             /\ todo' = [todo EXCEPT ![d][r] = @ - 1]
             /\ accepted' = IF s \in Delivered \/ lost
                            THEN [accepted EXCEPT ![Current(d).key][r] = @ + 1]
                            ELSE accepted
             /\ faults' = IF lost THEN faults + 1 ELSE faults
      BY DEF Send
    <2>2. PICK s \in SendResults(via[d], r \in Phones), lost \in BOOLEAN :
             /\ entry' = [entry EXCEPT ![d] = [recipient |-> r, status |-> s]]
             /\ todo' = [todo EXCEPT ![d][r] = @ - 1]
             /\ accepted' = IF s \in Delivered \/ lost
                            THEN [accepted EXCEPT ![Current(d).key][r] = @ + 1]
                            ELSE accepted
             /\ faults' = IF lost THEN faults + 1 ELSE faults
      BY <2>0
    <2>3. faults' \in Nat
      BY <2>2 DEF TypeOK
    <2>4. r \in Recipients /\ todo[d][r] > 0
      BY DEF Named
    <2>5. [recipient |-> r, status |-> s] \in Entry
      BY <2>4, SendResultsType DEF Entry
    <2>6. entry' \in [Requests -> Entry]
      BY <2>2, <2>5 DEF TypeOK
    <2>7. todo' \in [Requests -> [Recipients -> 0..MaxNamed]]
      <3>1. todo[d] \in [Recipients -> 0..MaxNamed] /\ todo[d][r] - 1 \in 0..MaxNamed
        BY <2>4, ConstantsAssumption DEF TypeOK
      <3>2. [todo[d] EXCEPT ![r] = @ - 1] \in [Recipients -> 0..MaxNamed]
        BY <3>1
      <3>3. todo' = [todo EXCEPT ![d] = [todo[d] EXCEPT ![r] = @ - 1]]
        BY <2>2
      <3> QED
        BY <3>2, <3>3 DEF TypeOK
    <2>8. accepted' \in [Keys -> [Recipients -> Nat]]
      <3>1. Current(d).key \in Keys /\ accepted \in [Keys -> [Recipients -> Nat]]
        BY <2>1 DEF TypeOK, SnapshotRow
      <3> DEFINE a == accepted[Current(d).key]
      <3>2. [a EXCEPT ![r] = @ + 1] \in [Recipients -> Nat]
        BY <3>1, <2>4
      <3>3. [accepted EXCEPT ![Current(d).key] = [a EXCEPT ![r] = @ + 1]] \in [Keys -> [Recipients -> Nat]]
        BY <3>1, <3>2
      <3> QED
        BY <2>2, <3>1, <3>3
    <2>9. sentWhileOff' \in [Requests -> SUBSET Keys]
      BY <2>1 DEF TypeOK, Send, SnapshotRow
    <2> QED
      BY <2>3, <2>6, <2>7, <2>8, <2>9 DEF TypeOK, Send, db
  <1>2. StageOK'
    <2> SUFFICES ASSUME NEW e \in Requests PROVE StageAt(e)'
      BY DEF StageOK
    <2>1. CASE e = d
      BY <2>1, SendResultsType DEF StageOK, StageAt, TypeOK, Send, db
    <2>2. CASE e # d
      BY <2>2 DEF StageOK, StageAt, TypeOK, Send, db
    <2> QED
      BY <2>1, <2>2
  <1> QED
    BY <1>1, <1>2

LEMMA TypeWriteDeliveryLog ==
    ASSUME TypeInv, NEW d \in Requests, WriteDeliveryLog(d)
    PROVE  TypeInv'
  <1> USE DEF TypeInv
  <1>1. TypeOK'
    <2>1. Current(d) \in SnapshotRow
      BY CurrentType DEF WriteDeliveryLog
    <2>2. entry[d] \in Entry
      BY DEF TypeOK
    <2>3. [key |-> Current(d).key, attempt |-> AttemptNumber(d),
           recipient |-> entry[d].recipient, status |-> entry[d].status] \in Delivery
      BY <2>1, <2>2 DEF Delivery, Entry, SnapshotRow, AttemptNumber
    <2>4. deliveries' \subseteq Delivery
      BY <2>3 DEF TypeOK, WriteDeliveryLog
    <2>5. results' \in [Requests -> SUBSET Statuses] /\ entry' \in [Requests -> Entry]
      BY <2>2 DEF TypeOK, WriteDeliveryLog, Entry
    <2> QED
      BY <2>4, <2>5 DEF TypeOK, WriteDeliveryLog, ghosts
  <1>2. StageOK'
    <2> SUFFICES ASSUME NEW e \in Requests PROVE StageAt(e)'
      BY DEF StageOK
    <2>1. CASE e = d
      <3>1. results'[d] # {} /\ todo' = todo /\ batch' = batch /\ via' = via
        BY DEF TypeOK, WriteDeliveryLog
      <3>2. pc'[d] = IF Named(todo[d]) = {} THEN "mark" ELSE "send"
        BY DEF TypeOK, WriteDeliveryLog
      <3>3. batch[d] # <<>> /\ (Named(todo[d]) # {} => via[d] # None)
        BY DEF StageOK, StageAt, WriteDeliveryLog
      <3> QED
        BY <2>1, <3>1, <3>2, <3>3 DEF StageAt
    <2>2. CASE e # d
      BY <2>2 DEF StageOK, StageAt, TypeOK, WriteDeliveryLog, ghosts
    <2> QED
      BY <2>1, <2>2
  <1> QED
    BY <1>1, <1>2

\* The backoff table answers every attempt, the last delay standing for the rest.
LEMMA BackoffDelayType ==
    ASSUME NEW n \in Nat \ {0}
    PROVE  BackoffDelay(n) \in Nat
  BY ConstantsAssumption DEF BackoffDelay

LEMMA TypeMarkOutbox ==
    ASSUME TypeInv, NEW d \in Requests, MarkOutbox(d)
    PROVE  TypeInv'
  <1> USE DEF TypeInv
  <1>1. TypeOK'
    <2>1. Current(d) \in SnapshotRow /\ Tail(batch[d]) \in Seq(SnapshotRow)
      BY CurrentType DEF MarkOutbox
    <2> DEFINE n == AttemptNumber(d)
               s == FinalStatus(results[d], n)
    <2>2. n \in Nat \ {0} /\ Current(d).key \in Keys
      BY <2>1 DEF AttemptNumber, SnapshotRow
    <2>3. s \in Statuses
      BY <2>2, FinalStatusFacts DEF TypeOK
    <2>4. BackoffDelay(n) \in Nat
      BY <2>2, BackoffDelayType
    <2> HIDE DEF n, s
    <2>5. \A k \in Keys : outbox[k].due \in Int
      BY DEF TypeOK, Row
    <2>6. outbox' = [outbox EXCEPT ![Current(d).key] =
                        [status |-> s, attemptCount |-> n,
                         due |-> IF s = "FAILED_RETRYABLE" THEN BackoffDelay(n) ELSE @.due]]
      BY DEF MarkOutbox, n, s
    <2>7. outbox' \in [Keys -> Row]
      BY <2>2, <2>3, <2>4, <2>5, <2>6 DEF TypeOK, Row
    <2>8. batch' \in [Requests -> Seq(SnapshotRow)] /\ pc' \in [Requests -> Stages]
      BY <2>1 DEF TypeOK, MarkOutbox
    <2>9. via' \in [Requests -> {None, "dev_stub", "meta_cloud_api"}]
          /\ results' \in [Requests -> SUBSET Statuses]
      BY DEF TypeOK, MarkOutbox
    <2> QED
      BY <2>7, <2>8, <2>9 DEF TypeOK, MarkOutbox, ghosts
  <1>2. StageOK'
    <2> SUFFICES ASSUME NEW e \in Requests PROVE StageAt(e)'
      BY DEF StageOK
    <2>1. CASE e = d
      BY <2>1 DEF StageOK, StageAt, TypeOK, MarkOutbox, ghosts
    <2>2. CASE e # d
      BY <2>2 DEF StageOK, StageAt, TypeOK, MarkOutbox, ghosts
    <2> QED
      BY <2>1, <2>2
  <1> QED
    BY <1>1, <1>2

LEMMA TypeFaults ==
    ASSUME TypeInv, (\E d \in Requests : Throw(d)) \/ Restart
    PROVE  TypeInv'
  <1>1. PICK D \in SUBSET Requests : Forget(D)
    BY DEF Throw, Restart
  <1>2. /\ pc' \in [Requests -> Stages]
        /\ intake' \in [Requests -> [Keys -> Statuses \cup {Absent}]]
        /\ batch' \in [Requests -> Seq(SnapshotRow)]
        /\ via' \in [Requests -> {None, "dev_stub", "meta_cloud_api"}]
    BY <1>1 DEF Forget, TypeInv, TypeOK
  <1>3. /\ todo' \in [Requests -> [Recipients -> 0..MaxNamed]]
        /\ entry' \in [Requests -> Entry]
        /\ results' \in [Requests -> SUBSET Statuses]
    BY <1>1, NobodyNamed DEF Forget, TypeInv, TypeOK, Entry
  <1>4. faults' \in Nat /\ config' \in Configs
    <2>1. faults' = faults + 1 /\ (config' = config \/ config' \in Deployments)
      BY DEF Throw, Restart
    <2>2. Deployments \subseteq Configs
      BY ConstantsAssumption
    <2> QED
      BY <2>1, <2>2 DEF TypeInv, TypeOK
  <1>5. UNCHANGED <<db, accepted, sentWhileOff>>
    BY DEF Throw, Restart
  <1>6. TypeOK'
    BY <1>2, <1>3, <1>4, <1>5 DEF TypeInv, TypeOK, db
  <1>7. StageOK'
    <2> SUFFICES ASSUME NEW e \in Requests PROVE StageAt(e)'
      BY DEF StageOK
    <2> QED
      BY <1>1, NobodyNamed DEF TypeInv, StageOK, StageAt, Forget
  <1> QED
    BY <1>6, <1>7 DEF TypeInv

LEMMA TypeUpdateSettings ==
    ASSUME TypeInv, UpdateSettings
    PROVE  TypeInv'
  BY ConstantsAssumption DEF TypeInv, TypeOK, StageOK, StageAt, UpdateSettings, locals

LEMMA TypeTick ==
    ASSUME TypeInv, Tick
    PROVE  TypeInv'
  <1>1. outbox' \in [Keys -> Row]
    <2>1. ASSUME NEW k \in Keys
          PROVE  outbox[k] \in Row /\ [outbox[k] EXCEPT !.due = @ - 1] \in Row
      <3>1. outbox[k] \in Row
        BY DEF TypeInv, TypeOK
      <3>2. outbox[k].due - 1 \in Int
        BY <3>1 DEF Row
      <3> QED
        BY <3>1, <3>2 DEF Row
    <2> QED
      BY <2>1 DEF Tick
  <1>2. TypeOK'
    BY <1>1 DEF TypeInv, TypeOK, Tick, locals, ghosts
  <1>3. StageOK'
    BY DEF TypeInv, StageOK, StageAt, Tick, locals
  <1> QED
    BY <1>2, <1>3 DEF TypeInv

LEMMA TypeStep == TypeInv /\ [Next]_vars => TypeInv'
  <1> SUFFICES ASSUME TypeInv, [Next]_vars PROVE TypeInv'
    OBVIOUS
  <1>1. CASE UNCHANGED vars
    BY <1>1 DEF vars, TypeInv, TypeOK, StageOK, StageAt
  <1>2. CASE Next
    BY <1>2, TypeStart, TypeCreateRows, TypeScan, TypeCheckPolicy, TypeResolveRecipients,
       TypeSend, TypeWriteDeliveryLog, TypeMarkOutbox, TypeFaults, TypeUpdateSettings, TypeTick
       DEF Next, Step
  <1> QED
    BY <1>1, <1>2

LEMMA TypeInvariant == Spec => []TypeInv
  BY TypeInit, TypeStep, PTL DEF Spec

\* Every variable of the pipeline keeps to its type, whatever the constants.
THEOREM TypeCorrect == Spec => []TypeOK
  <1>1. TypeInv => TypeOK
    BY DEF TypeInv
  <1> QED
    BY <1>1, TypeInvariant, PTL

\* No pipeline, however the requests interleave, uses a row or a provider it
\* does not have, nor carries a result from one row to the next.
THEOREM StagesSound == Spec => []StageOK
  <1>1. TypeInv => StageOK
    BY DEF TypeInv
  <1> QED
    BY <1>1, TypeInvariant, PTL

----------------------------------------------------------------------------
(* The retry budget.  It is not inductive alone: the write-back numbers its  *)
(* attempt from the snapshot, so every snapshot row must have an attempt     *)
(* left, and what is about to be inserted must not look like a failed row.   *)

SnapshotHasAttemptLeft(d) ==
    \A i \in 1..Len(batch[d]) : batch[d][i].attemptCount < MaxAttempts

RetryInv ==
    /\ RetryBudget
    /\ \A d \in Requests : SnapshotHasAttemptLeft(d)
    /\ \A d \in Requests, k \in Keys : intake[d][k] # "FAILED_RETRYABLE"

LEMMA RetryInit == Init => RetryInv
  <1> SUFFICES ASSUME Init PROVE RetryInv
    OBVIOUS
  <1>1. RetryBudget
    BY ConstantsAssumption DEF Init, RetryBudget
  <1>2. \A d \in Requests : SnapshotHasAttemptLeft(d)
    BY DEF Init, SnapshotHasAttemptLeft
  <1>3. \A d \in Requests, k \in Keys : intake[d][k] # "FAILED_RETRYABLE"
    BY DEF Init
  <1> QED
    BY <1>1, <1>2, <1>3 DEF RetryInv

\* A due row has an attempt left, so a snapshot has.
LEMMA RetryScan ==
    ASSUME TypeInv, RetryInv, NEW d \in Requests, Scan(d)
    PROVE  RetryInv'
  <1>1. PICK n \in 0..BatchLimit, b \in Seq(SnapshotRow) :
             /\ batch' = [batch EXCEPT ![d] = b]
             /\ \A i \in 1..Len(b) : b[i].attemptCount < MaxAttempts
    <2>1. PICK n \in 0..BatchLimit : \E s \in ScanOrders(n) :
               batch' = [batch EXCEPT ![d] = Snapshot(n, s)]
      BY DEF Scan
    <2>2. PICK s \in ScanOrders(n) : batch' = [batch EXCEPT ![d] = Snapshot(n, s)]
      BY <2>1
    <2>3. \A k \in DueKeys : outbox[k].attemptCount < MaxAttempts
      BY ConstantsAssumption DEF DueKeys, RetryInv, RetryBudget, TypeInv, TypeOK, Row
    <2>4. /\ Snapshot(n, s) \in Seq(SnapshotRow) /\ Len(Snapshot(n, s)) = n
          /\ \A i \in 1..n : /\ s[i] \in DueKeys
                             /\ Snapshot(n, s)[i] = [key |-> s[i], attemptCount |-> outbox[s[i]].attemptCount]
      BY SnapshotFacts DEF TypeInv
    <2>5. \A i \in 1..Len(Snapshot(n, s)) : Snapshot(n, s)[i].attemptCount < MaxAttempts
      BY <2>3, <2>4
    <2> QED
      BY <2>2, <2>4, <2>5
  <1>2. \A e \in Requests : SnapshotHasAttemptLeft(e)'
    BY <1>1 DEF SnapshotHasAttemptLeft, RetryInv, TypeInv, TypeOK
  <1>3. RetryBudget' /\ \A e \in Requests, k \in Keys : intake'[e][k] # "FAILED_RETRYABLE"
    BY DEF RetryInv, RetryBudget, Scan, db
  <1> QED
    BY <1>2, <1>3 DEF RetryInv

LEMMA RetryMark ==
    ASSUME TypeInv, RetryInv, NEW d \in Requests, MarkOutbox(d)
    PROVE  RetryInv'
  <1> DEFINE n == AttemptNumber(d)
             s == FinalStatus(results[d], n)
             k0 == Current(d).key
  <1>1. /\ batch[d] \in Seq(SnapshotRow) /\ batch[d] # <<>>
        /\ Current(d) \in SnapshotRow /\ Current(d) = batch[d][1]
    BY CurrentType DEF MarkOutbox, TypeInv, TypeOK
  <1>2. n \in 1..MaxAttempts
    <2>1. batch[d][1].attemptCount < MaxAttempts
      BY <1>1 DEF RetryInv, SnapshotHasAttemptLeft
    <2> QED
      BY <1>1, <2>1, ConstantsAssumption DEF AttemptNumber, SnapshotRow
  <1>3. s # "PENDING" /\ (s = "FAILED_RETRYABLE" => n < MaxAttempts)
    <2>1. n \in Nat /\ results[d] \in SUBSET Statuses
      BY <1>2 DEF TypeInv, TypeOK
    <2> HIDE DEF n
    <2>2. s \in Settled \cup {"FAILED_RETRYABLE"}
      BY <2>1, FinalStatusFacts
    <2>3. s = "FAILED_RETRYABLE" => n < MaxAttempts
      BY <2>1, FinalStatusFacts
    <2> QED
      BY <2>2, <2>3
  <1>4. /\ \A k \in Keys \ {k0} : outbox'[k] = outbox[k]
        /\ k0 \in Keys => outbox'[k0].status = s /\ outbox'[k0].attemptCount = n
    BY DEF MarkOutbox, TypeInv, TypeOK
  <1> HIDE DEF n, s, k0
  <1>5. RetryBudget'
    BY <1>2, <1>3, <1>4, ConstantsAssumption DEF RetryInv, RetryBudget
  <1>6. ASSUME NEW e \in Requests
        PROVE  SnapshotHasAttemptLeft(e)'
    <2>1. CASE e = d
      <3>1. batch'[d] = Tail(batch[d])
        BY DEF MarkOutbox, TypeInv, TypeOK
      <3>2. /\ Len(Tail(batch[d])) = Len(batch[d]) - 1
            /\ \A i \in 1..Len(Tail(batch[d])) : Tail(batch[d])[i] = batch[d][i + 1]
        BY <1>1
      <3> QED
        BY <1>1, <2>1, <3>1, <3>2 DEF SnapshotHasAttemptLeft, RetryInv
    <2>2. CASE e # d
      BY <2>2 DEF MarkOutbox, SnapshotHasAttemptLeft, RetryInv, TypeInv, TypeOK
    <2> QED
      BY <2>1, <2>2
  <1>7. \A e \in Requests, k \in Keys : intake'[e][k] # "FAILED_RETRYABLE"
    BY DEF MarkOutbox, RetryInv
  <1> QED
    BY <1>5, <1>6, <1>7 DEF RetryInv

LEMMA RetryOther ==
    ASSUME TypeInv, RetryInv, [Next]_vars,
           ~ \E d \in Requests : Scan(d) \/ MarkOutbox(d)
    PROVE  RetryInv'
  <1>1. CASE \E d \in Requests : Start(d)
    <2>1. PICK d \in Requests, C \in SUBSET Keys : StartPipeline(d, C)
      BY <1>1 DEF Start
    <2>2. \A k \in Keys : InitialStatus(k) # "FAILED_RETRYABLE"
      BY InitialStatusType, ConstantsAssumption DEF TypeInv, TypeOK
    <2> QED
      BY <2>1, <2>2 DEF StartPipeline, RetryInv, RetryBudget, SnapshotHasAttemptLeft, TypeInv, TypeOK, db
  <1>2. CASE \E d \in Requests : CreateRows(d)
    <2>1. PICK d \in Requests : CreateRows(d)
      BY <1>2
    <2>2. RetryBudget'
      BY <2>1, ConstantsAssumption DEF CreateRows, RetryInv, RetryBudget
    <2> QED
      BY <2>1, <2>2 DEF CreateRows, RetryInv, SnapshotHasAttemptLeft, TypeInv, TypeOK
  <1>3. CASE (\E d \in Requests : Throw(d)) \/ Restart
    <2>1. PICK D \in SUBSET Requests : Forget(D)
      BY <1>3 DEF Throw, Restart
    <2>2. outbox' = outbox
      BY <1>3 DEF Throw, Restart, db
    <2> QED
      BY <2>1, <2>2 DEF Forget, RetryInv, RetryBudget, SnapshotHasAttemptLeft
  <1>4. CASE Tick
    <2>1. \A k \in Keys : /\ outbox'[k].status = outbox[k].status
                          /\ outbox'[k].attemptCount = outbox[k].attemptCount
      BY <1>4 DEF Tick, TypeInv, TypeOK, Row
    <2> QED
      BY <1>4, <2>1 DEF Tick, locals, RetryInv, RetryBudget, SnapshotHasAttemptLeft
  <1>5. CASE UNCHANGED <<outbox, intake, batch>>
    BY <1>5 DEF RetryInv, RetryBudget, SnapshotHasAttemptLeft
  <1>6. ASSUME NEW d \in Requests, CheckPolicy(d) \/ ResolveRecipients(d) \/ Send(d) \/ WriteDeliveryLog(d)
        PROVE  UNCHANGED <<outbox, intake, batch>>
    BY <1>6 DEF CheckPolicy, ResolveRecipients, Send, WriteDeliveryLog, db
  <1>7. UNCHANGED vars \/ UpdateSettings => UNCHANGED <<outbox, intake, batch>>
    BY DEF vars, UpdateSettings, locals
  <1> QED
    BY <1>1, <1>2, <1>3, <1>4, <1>5, <1>6, <1>7 DEF Next, Step

LEMMA RetryStep == TypeInv /\ RetryInv /\ [Next]_vars => RetryInv'
  BY RetryScan, RetryMark, RetryOther

\* However many requests overlap and whatever snapshot a write-back is based on,
\* no row is attempted beyond maxAttempts and none waits for a retry it does not
\* have.
THEOREM RetriesBounded == Spec => []RetryBudget
  <1>1. RetryInv => RetryBudget
    BY DEF RetryInv
  <1> QED
    BY <1>1, TypeInvariant, RetryInit, RetryStep, PTL DEF Spec

----------------------------------------------------------------------------
(* The delivery log backs the outbox.  The strengthening follows the results *)
(* of the current row: each is already in the log under the number the       *)
(* write-back is going to give the attempt.                                  *)

Logged(d, s) ==
    \E e \in deliveries :
        e.key = Current(d).key /\ e.attempt = AttemptNumber(d) /\ e.status = s

LogInv ==
    /\ LogBacksOutbox
    /\ \A d \in Requests : pc[d] = "log" => entry[d].status # "PENDING"
    /\ \A d \in Requests : "PENDING" \notin results[d]
    /\ \A d \in Requests : \A s \in results[d] : Logged(d, s)

LEMMA LogInit == Init => LogInv
  BY DEF Init, LogInv, LogBacksOutbox

\* An attempt that leaves the batch and the results of its request alone, and
\* takes nothing out of the log, leaves what is Logged alone.
LEMMA LoggedStays ==
    ASSUME NEW d, NEW s, Logged(d, s), deliveries \subseteq deliveries', batch'[d] = batch[d]
    PROVE  Logged(d, s)'
  BY DEF Logged, Current, AttemptNumber

\* The write-back has evidence: its status is a logged result, or every attempt
\* allowed was used and a retryable failure is on record.
LEMMA FinalStatusHasEvidence ==
    ASSUME NEW rs \in SUBSET Statuses, rs # {}, "PENDING" \notin rs, NEW n \in 1..MaxAttempts
    PROVE  rs \cap Evidence(FinalStatus(rs, n), n) # {}
  <1>1. n \in Nat
    OBVIOUS
  <1>2. CASE FinalStatus(rs, n) # "FAILED_PERMANENT"
    BY <1>1, <1>2, FinalStatusFacts DEF Evidence
  <1>3. CASE FinalStatus(rs, n) = "FAILED_PERMANENT"
    <2>1. rs \cap (Skips \cup Delivered) = {} /\ ("FAILED_RETRYABLE" \in rs => ~(n < MaxAttempts))
      BY <1>1, <1>3, FinalStatusFacts
    <2>2. "FAILED_RETRYABLE" \in rs \/ "FAILED_PERMANENT" \in rs
      BY <2>1
    <2>3. "FAILED_RETRYABLE" \in rs => n = MaxAttempts
      BY <2>1, ConstantsAssumption
    <2> QED
      BY <1>3, <2>2, <2>3 DEF Evidence
  <1> QED
    BY <1>2, <1>3

LEMMA LogWrite ==
    ASSUME TypeInv, LogInv, NEW d \in Requests, WriteDeliveryLog(d)
    PROVE  LogInv'
  <1> DEFINE x == [key |-> Current(d).key, attempt |-> AttemptNumber(d),
                   recipient |-> entry[d].recipient, status |-> entry[d].status]
  <1>1. /\ deliveries' = deliveries \cup {x}
        /\ UNCHANGED <<outbox, batch>>
        /\ results' = [results EXCEPT ![d] = @ \cup {entry[d].status}]
        /\ pc'[d] # "log"
        /\ \A e \in Requests \ {d} : pc'[e] = pc[e] /\ entry'[e] = entry[e]
    BY DEF WriteDeliveryLog, TypeInv, TypeOK
  <1>2. LogBacksOutbox'
    BY <1>1 DEF LogInv, LogBacksOutbox
  <1>3. \A e \in Requests : pc'[e] = "log" => entry'[e].status # "PENDING"
    BY <1>1 DEF LogInv
  <1>4. entry[d].status # "PENDING"
    BY DEF WriteDeliveryLog, LogInv
  <1>5. \A e \in Requests : "PENDING" \notin results'[e]
    BY <1>1, <1>4 DEF LogInv, TypeInv, TypeOK
  <1>6. ASSUME NEW e \in Requests, NEW s \in results'[e]
        PROVE  Logged(e, s)'
    <2>1. CASE s \in results[e]
      BY <1>1, <2>1, LoggedStays DEF LogInv
    <2>2. CASE s \notin results[e]
      <3>1. e = d /\ s = entry[d].status
        BY <1>1, <1>6, <2>2 DEF TypeInv, TypeOK
      <3>2. x \in deliveries' /\ x.key = Current(d).key /\ x.attempt = AttemptNumber(d) /\ x.status = s
        BY <1>1, <3>1
      <3> HIDE DEF x
      <3>3. Current(d)' = Current(d) /\ AttemptNumber(d)' = AttemptNumber(d)
        BY <1>1 DEF Current, AttemptNumber
      <3> QED
        BY <3>1, <3>2, <3>3 DEF Logged
    <2> QED
      BY <2>1, <2>2
  <1> QED
    BY <1>2, <1>3, <1>5, <1>6 DEF LogInv

LEMMA LogMark ==
    ASSUME TypeInv, RetryInv, LogInv, NEW d \in Requests, MarkOutbox(d)
    PROVE  LogInv'
  <1> DEFINE n == AttemptNumber(d)
             s == FinalStatus(results[d], n)
             k0 == Current(d).key
  <1>1. n \in 1..MaxAttempts
    <2>1. /\ batch[d] \in Seq(SnapshotRow) /\ batch[d] # <<>>
          /\ Current(d) \in SnapshotRow /\ Current(d) = batch[d][1]
      BY CurrentType DEF MarkOutbox, TypeInv, TypeOK
    <2>2. batch[d][1].attemptCount < MaxAttempts
      BY <2>1 DEF RetryInv, SnapshotHasAttemptLeft
    <2> QED
      BY <2>1, <2>2, ConstantsAssumption DEF AttemptNumber, SnapshotRow
  <1>2. /\ \A k \in Keys \ {k0} : outbox'[k] = outbox[k]
        /\ k0 \in Keys => outbox'[k0].status = s /\ outbox'[k0].attemptCount = n
    BY DEF MarkOutbox, TypeInv, TypeOK
  <1>3. PICK t \in results[d] : t \in Evidence(s, n)
    <2>1. results[d] \in SUBSET Statuses /\ results[d] # {} /\ "PENDING" \notin results[d]
      BY DEF MarkOutbox, LogInv, TypeInv, TypeOK, StageOK, StageAt
    <2> HIDE DEF n
    <2> QED
      BY <1>1, <2>1, FinalStatusHasEvidence
  <1>4. PICK y \in deliveries : y.key = k0 /\ y.attempt = n /\ y.status \in Evidence(s, n)
    BY <1>3 DEF LogInv, Logged
  <1> HIDE DEF n, s, k0
  <1>5. deliveries' = deliveries
    BY DEF MarkOutbox
  <1>6. LogBacksOutbox'
    BY <1>2, <1>4, <1>5 DEF LogInv, LogBacksOutbox, Evidence
  <1>7. /\ \A e \in Requests : pc'[e] = "log" => entry'[e].status # "PENDING"
        /\ \A e \in Requests : "PENDING" \notin results'[e]
    BY DEF MarkOutbox, LogInv, TypeInv, TypeOK
  <1>8. ASSUME NEW e \in Requests, NEW u \in results'[e]
        PROVE  Logged(e, u)'
    <2>1. e # d /\ results'[e] = results[e] /\ batch'[e] = batch[e]
      BY <1>8 DEF MarkOutbox, TypeInv, TypeOK
    <2> QED
      BY <1>5, <2>1, LoggedStays DEF LogInv
  <1> QED
    BY <1>6, <1>7, <1>8 DEF LogInv

\* A step that writes neither the log nor an attempt leaves the invariant alone
\* if what it puts in results and entry is harmless.
LEMMA LogFrame ==
    ASSUME LogInv, UNCHANGED deliveries,
           \A k \in Keys : \/ outbox'[k].attemptCount = 0
                           \/ /\ outbox'[k].status = outbox[k].status
                              /\ outbox'[k].attemptCount = outbox[k].attemptCount,
           \A d \in Requests : pc'[d] = "log" => entry'[d].status # "PENDING",
           \A d \in Requests : \/ results'[d] = {}
                               \/ results'[d] = results[d] /\ batch'[d] = batch[d]
    PROVE  LogInv'
  <1>1. LogBacksOutbox'
    <2> SUFFICES ASSUME NEW k \in Keys, outbox'[k].attemptCount > 0
                 PROVE  \E e \in deliveries :
                           /\ e.key = k
                           /\ e.attempt = outbox'[k].attemptCount
                           /\ e.status \in Evidence(outbox'[k].status, e.attempt)
      BY DEF LogBacksOutbox, Evidence
    <2>1. outbox'[k].status = outbox[k].status /\ outbox'[k].attemptCount = outbox[k].attemptCount
      OBVIOUS
    <2> QED
      BY <2>1 DEF LogInv, LogBacksOutbox
  <1>2. \A d \in Requests : "PENDING" \notin results'[d]
    BY DEF LogInv
  <1>3. ASSUME NEW d \in Requests, NEW s \in results'[d]
        PROVE  Logged(d, s)'
    <2>1. results'[d] = results[d] /\ batch'[d] = batch[d]
      BY <1>3
    <2> QED
      BY <2>1, LoggedStays DEF LogInv
  <1> QED
    BY <1>1, <1>2, <1>3 DEF LogInv

LEMMA LogOther ==
    ASSUME TypeInv, LogInv, [Next]_vars,
           ~ \E d \in Requests : WriteDeliveryLog(d) \/ MarkOutbox(d)
    PROVE  LogInv'
  <1>1. CASE UNCHANGED vars
    BY <1>1, LogFrame DEF vars, LogInv
  <1>2. CASE \E d \in Requests : Start(d)
    <2>1. PICK d \in Requests, C \in SUBSET Keys : StartPipeline(d, C)
      BY <1>2 DEF Start
    <2> QED
      BY <2>1, LogFrame DEF StartPipeline, LogInv, TypeInv, TypeOK, db
  <1>3. CASE \E d \in Requests : CreateRows(d)
    <2>1. PICK d \in Requests : CreateRows(d)
      BY <1>3
    <2> QED
      BY <2>1, LogFrame DEF CreateRows, LogInv, TypeInv, TypeOK
  <1>4. CASE \E d \in Requests : Scan(d)
    <2>1. PICK d \in Requests : Scan(d)
      BY <1>4
    <2>2. results[d] = {}
      BY <2>1 DEF Scan, TypeInv, StageOK, StageAt
    <2>3. UNCHANGED <<outbox, deliveries, entry, results>>
      BY <2>1 DEF Scan, db
    <2>4. PICK n \in 0..BatchLimit : \E b :
             /\ batch' = [batch EXCEPT ![d] = b]
             /\ pc' = [pc EXCEPT ![d] = IF n = 0 THEN "idle" ELSE "policy"]
      BY <2>1 DEF Scan
    <2>5. \A e \in Requests : pc'[e] = "log" => entry'[e].status # "PENDING"
      BY <2>3, <2>4 DEF LogInv, TypeInv, TypeOK
    <2>6. \A e \in Requests : \/ results'[e] = {}
                              \/ results'[e] = results[e] /\ batch'[e] = batch[e]
      BY <2>2, <2>3, <2>4 DEF TypeInv, TypeOK
    <2> QED
      BY <2>3, <2>5, <2>6, LogFrame
  <1>5. CASE \E d \in Requests : CheckPolicy(d)
    <2>1. PICK d \in Requests : CheckPolicy(d)
      BY <1>5
    <2>2. SkipReason(settings) # "PENDING"
      BY SkipReasonType DEF TypeInv, TypeOK
    <2>3. \A e \in Requests : pc'[e] = "log" => entry'[e].status # "PENDING"
      BY <2>1, <2>2 DEF CheckPolicy, LogInv, TypeInv, TypeOK
    <2> QED
      BY <2>1, <2>3, LogFrame DEF CheckPolicy, db
  <1>6. CASE \E d \in Requests : ResolveRecipients(d)
    <2>1. PICK d \in Requests : ResolveRecipients(d)
      BY <1>6
    <2>2. \A e \in Requests : pc'[e] = "log" => entry'[e].status # "PENDING"
      BY <2>1 DEF ResolveRecipients, LogInv, TypeInv, TypeOK
    <2> QED
      BY <2>1, <2>2, LogFrame DEF ResolveRecipients, db
  <1>7. CASE \E d \in Requests : Send(d)
    <2>1. PICK d \in Requests : Send(d)
      BY <1>7
    <2>2. PICK r \in Named(todo[d]) : \E s \in SendResults(via[d], r \in Phones) :
             entry' = [entry EXCEPT ![d] = [recipient |-> r, status |-> s]]
      BY <2>1 DEF Send
    <2>3. PICK s \in SendResults(via[d], r \in Phones) :
             entry' = [entry EXCEPT ![d] = [recipient |-> r, status |-> s]]
      BY <2>2
    <2>4. s # "PENDING"
      BY SendResultsType
    <2>5. entry'[d].status # "PENDING"
      BY <2>3, <2>4 DEF TypeInv, TypeOK
    <2>6. \A e \in Requests \ {d} : pc'[e] = pc[e] /\ entry'[e] = entry[e]
      BY <2>1, <2>3 DEF Send, TypeInv, TypeOK
    <2>7. \A e \in Requests : pc'[e] = "log" => entry'[e].status # "PENDING"
      BY <2>5, <2>6 DEF LogInv
    <2> QED
      BY <2>1, <2>7, LogFrame DEF Send, db
  <1>8. CASE (\E d \in Requests : Throw(d)) \/ Restart
    <2>1. PICK D \in SUBSET Requests : Forget(D)
      BY <1>8 DEF Throw, Restart
    <2>2. UNCHANGED <<outbox, deliveries>>
      BY <1>8 DEF Throw, Restart, db
    <2> QED
      BY <2>1, <2>2, LogFrame DEF Forget, LogInv
  <1>9. CASE UpdateSettings
    BY <1>9, LogFrame DEF UpdateSettings, locals, LogInv
  <1>10. CASE Tick
    <2>1. \A k \in Keys : /\ outbox'[k].status = outbox[k].status
                          /\ outbox'[k].attemptCount = outbox[k].attemptCount
      BY <1>10 DEF Tick, TypeInv, TypeOK, Row
    <2> QED
      BY <1>10, <2>1, LogFrame DEF Tick, locals, LogInv
  <1> QED
    BY <1>1, <1>2, <1>3, <1>4, <1>5, <1>6, <1>7, <1>8, <1>9, <1>10 DEF Next, Step

LEMMA LogStep == TypeInv /\ RetryInv /\ LogInv /\ [Next]_vars => LogInv'
  BY LogWrite, LogMark, LogOther

\* Whoever wrote a row last, and however stale the snapshot it worked from, the
\* delivery log holds the attempt that justifies what the row says.
THEOREM OutboxJustified == Spec => []LogBacksOutbox
  <1>1. LogInv => LogBacksOutbox
    BY DEF LogInv
  <1> QED
    BY <1>1, TypeInvariant, RetryInit, RetryStep, LogInit, LogStep, PTL DEF Spec

----------------------------------------------------------------------------
(* Switching notifications off stops a batch.  While they are off, a request *)
(* that has sent anything since has sent for one row, and it is past the     *)
(* policy check only if that is the row it still works on.                   *)

PastPolicy(d) == pc[d] \in {"resolve", "send"} \/ (pc[d] = "log" /\ Named(todo[d]) # {})

OffAt(d) ==
    /\ \A k, l \in sentWhileOff[d] : k = l
    /\ PastPolicy(d) => sentWhileOff[d] \subseteq {Current(d).key}

OffInv == SwitchedOff(settings) => \A d \in Requests : OffAt(d)

LEMMA OffInit == Init => OffInv
  BY DEF Init, OffInv, OffAt, PastPolicy

\* A request whose row, stage and sends stay as they are, or that leaves the
\* stages past the policy check, stays within its allowance.
LEMMA OffFrame ==
    ASSUME NEW d, OffAt(d), sentWhileOff'[d] = sentWhileOff[d],
           \/ ~PastPolicy(d)'
           \/ PastPolicy(d) /\ batch'[d] = batch[d]
    PROVE  OffAt(d)'
  BY DEF OffAt, Current

LEMMA OffStep == TypeInv /\ OffInv /\ [Next]_vars => OffInv'
  <1> SUFFICES ASSUME TypeInv, OffInv, [Next]_vars, SwitchedOff(settings)', NEW d \in Requests
               PROVE  OffAt(d)'
    BY DEF OffInv
  <1>1. CASE UpdateSettings
    <2>1. UNCHANGED <<pc, batch, todo>>
      BY <1>1 DEF UpdateSettings, locals
    <2>2. CASE SwitchedOff(settings)
      BY <1>1, <2>1, <2>2, OffFrame DEF UpdateSettings, OffInv, PastPolicy
    <2>3. CASE ~SwitchedOff(settings)
      BY <1>1, <2>3 DEF UpdateSettings, SwitchedOff, OffAt
    <2> QED
      BY <2>2, <2>3
  <1>2. CASE ~UpdateSettings
    <2>1. settings' = settings
      BY <1>2 DEF Next, Step, vars, Start, StartPipeline, CreateRows, Scan, CheckPolicy, ResolveRecipients,
                  Send, WriteDeliveryLog, MarkOutbox, Throw, Restart, Tick, db
    <2>2. SwitchedOff(settings) /\ OffAt(d)
      BY <2>1 DEF SwitchedOff, OffInv
    <2>3. CASE UNCHANGED vars \/ Tick
      BY <2>2, <2>3, OffFrame DEF vars, Tick, locals, ghosts, PastPolicy
    <2>4. CASE (\E e \in Requests : Throw(e)) \/ Restart
      <3>1. PICK D \in SUBSET Requests : Forget(D)
        BY <2>4 DEF Throw, Restart
      <3>2. sentWhileOff' = sentWhileOff
        BY <2>4 DEF Throw, Restart
      <3> QED
        BY <2>2, <3>1, <3>2, OffFrame DEF Forget, PastPolicy
    <2>5. ASSUME NEW e \in Requests, Start(e) \/ Step(e), e # d
          PROVE  OffAt(d)'
      <3>1. /\ pc'[d] = pc[d] /\ batch'[d] = batch[d] /\ todo'[d] = todo[d]
            /\ sentWhileOff'[d] = sentWhileOff[d]
        <4>1. CASE Start(e) \/ CreateRows(e) \/ CheckPolicy(e) \/ WriteDeliveryLog(e) \/ MarkOutbox(e)
          BY <2>5, <4>1 DEF Start, StartPipeline, CreateRows, CheckPolicy, WriteDeliveryLog, MarkOutbox,
                            ghosts, TypeInv, TypeOK
        <4>2. CASE Scan(e) \/ ResolveRecipients(e)
          BY <2>5, <4>2 DEF Scan, ResolveRecipients, ghosts, TypeInv, TypeOK
        <4>3. CASE Send(e)
          BY <2>5, <4>3 DEF Send, TypeInv, TypeOK
        <4> QED
          BY <2>5, <4>1, <4>2, <4>3 DEF Step
      <3> QED
        BY <2>2, <3>1, OffFrame DEF PastPolicy
    <2>6. CASE Start(d) \/ CreateRows(d)
      BY <2>2, <2>6, OffFrame DEF Start, StartPipeline, CreateRows, ghosts, TypeInv, TypeOK, PastPolicy
    <2>7. CASE Scan(d)
      <3>1. pc'[d] \in {"idle", "policy"}
        BY <2>7 DEF Scan, TypeInv, TypeOK
      <3>2. sentWhileOff' = sentWhileOff
        BY <2>7 DEF Scan, ghosts
      <3> QED
        BY <2>2, <3>1, <3>2, OffFrame DEF PastPolicy
    <2>8. CASE CheckPolicy(d)
      <3>1. SkipReason(settings) # None
        BY <2>2, PassedPolicy DEF TypeInv, TypeOK
      <3>2. pc'[d] = "log" /\ Named(todo'[d]) = {} /\ sentWhileOff' = sentWhileOff
        BY <2>8, <3>1 DEF CheckPolicy, TypeInv, TypeOK, StageOK, StageAt, ghosts
      <3> QED
        BY <2>2, <3>2, OffFrame DEF PastPolicy
    <2>9. CASE ResolveRecipients(d) \/ WriteDeliveryLog(d)
      <3>1. PastPolicy(d)' => PastPolicy(d)
        BY <2>9 DEF PastPolicy, ResolveRecipients, WriteDeliveryLog, TypeInv, TypeOK
      <3>2. UNCHANGED <<batch, sentWhileOff>>
        BY <2>9 DEF ResolveRecipients, WriteDeliveryLog, ghosts
      <3> QED
        BY <2>2, <3>1, <3>2, OffFrame
    <2>10. CASE Send(d)
      <3>1. PastPolicy(d) /\ batch' = batch /\ sentWhileOff'[d] = sentWhileOff[d] \cup {Current(d).key}
        BY <2>2, <2>10 DEF Send, PastPolicy, TypeInv, TypeOK
      <3>2. sentWhileOff'[d] = {Current(d).key} /\ Current(d)' = Current(d)
        BY <2>2, <3>1 DEF OffAt, Current
      <3> QED
        BY <3>2 DEF OffAt
    <2>11. CASE MarkOutbox(d)
      <3>1. pc'[d] \in {"idle", "policy"} /\ sentWhileOff' = sentWhileOff
        BY <2>11 DEF MarkOutbox, ghosts, TypeInv, TypeOK
      <3> QED
        BY <2>2, <3>1, OffFrame DEF PastPolicy
    <2> QED
      BY <1>2, <2>3, <2>4, <2>5, <2>6, <2>7, <2>8, <2>9, <2>10, <2>11 DEF Next, Step
  <1> QED
    BY <1>1, <1>2

\* For any number of requests and any batch size: once notifications are
\* switched off, a pipeline finishes at most the row it was on.
THEOREM DisableHonoured == Spec => []DisableStopsBatch
  <1>1. OffInv => DisableStopsBatch
    BY DEF OffInv, OffAt, DisableStopsBatch
  <1> QED
    BY <1>1, TypeInvariant, OffInit, OffStep, PTL DEF Spec

----------------------------------------------------------------------------
(* Accepted messages reach the log, as long as nothing cuts a pipeline short. *)

\* What was accepted and is accounted for stays accounted for, if every request
\* that is about to log still is, or has just logged.
LEMMA AcceptedFrame ==
    ASSUME AcceptedIsLogged, faults' = faults, accepted' = accepted, deliveries' = deliveries,
           \A d \in Requests : pc[d] = "log" =>
               pc'[d] = "log" /\ entry'[d] = entry[d] /\ batch'[d] = batch[d]
    PROVE  AcceptedIsLogged'
  <1>1. \A d \in Requests, k \in Keys, r \in Recipients : InFlight(d, k, r) => InFlight(d, k, r)'
    BY DEF InFlight, Current
  <1> QED
    BY <1>1 DEF AcceptedIsLogged

\* A lost answer is a fault, and with it the claim is void.
LEMMA AcceptedSend ==
    ASSUME TypeInv, AcceptedIsLogged, NEW d \in Requests, Send(d)
    PROVE  AcceptedIsLogged'
  <1> DEFINE k0 == Current(d).key
  <1>0. PICK r0 \in Named(todo[d]) : \E s0 \in SendResults(via[d], r0 \in Phones), lost \in BOOLEAN :
             /\ entry' = [entry EXCEPT ![d] = [recipient |-> r0, status |-> s0]]
             /\ accepted' = IF s0 \in Delivered \/ lost
                            THEN [accepted EXCEPT ![k0][r0] = @ + 1]
                            ELSE accepted
             /\ faults' = IF lost THEN faults + 1 ELSE faults
    BY DEF Send
  <1>1. PICK s0 \in SendResults(via[d], r0 \in Phones), lost \in BOOLEAN :
             /\ entry' = [entry EXCEPT ![d] = [recipient |-> r0, status |-> s0]]
             /\ accepted' = IF s0 \in Delivered \/ lost
                            THEN [accepted EXCEPT ![k0][r0] = @ + 1]
                            ELSE accepted
             /\ faults' = IF lost THEN faults + 1 ELSE faults
    BY <1>0
  <1>2. CASE lost
    <2>1. faults' # 0
      BY <1>1, <1>2 DEF TypeInv, TypeOK
    <2> QED
      BY <2>1 DEF AcceptedIsLogged
  <1>3. CASE ~lost
    <2>1. /\ UNCHANGED <<deliveries, batch, faults>> /\ pc'[d] = "log" /\ pc[d] = "send"
          /\ entry'[d] = [recipient |-> r0, status |-> s0]
          /\ \A e \in Requests \ {d} : pc'[e] = pc[e] /\ entry'[e] = entry[e]
      BY <1>1, <1>3 DEF Send, TypeInv, TypeOK, db
    <2>2. \A e \in Requests, k \in Keys, r \in Recipients : InFlight(e, k, r) => InFlight(e, k, r)'
      BY <2>1 DEF InFlight, Current
    <2>3. ASSUME NEW k \in Keys, NEW r \in Recipients, accepted'[k][r] # accepted[k][r]
          PROVE  InFlight(d, k, r)'
      <3>1. s0 \in Delivered /\ accepted' = [accepted EXCEPT ![k0] = [accepted[k0] EXCEPT ![r0] = accepted[k0][r0] + 1]]
        BY <1>1, <1>3, <2>3
      <3>2. k = k0
        BY <2>3, <3>1 DEF TypeInv, TypeOK
      <3>3. accepted'[k] = [accepted[k] EXCEPT ![r0] = accepted[k][r0] + 1]
        BY <3>1, <3>2 DEF TypeInv, TypeOK
      <3>4. r = r0
        BY <2>3, <3>3 DEF TypeInv, TypeOK
      <3> QED
        BY <2>1, <3>1, <3>2, <3>4 DEF InFlight, Current
    <2> HIDE DEF k0
    <2>4. ASSUME NEW k \in Keys, NEW r \in Recipients, faults = 0, accepted'[k][r] > 0
          PROVE  \/ \E e \in Requests : InFlight(e, k, r)'
                 \/ \E x \in deliveries : x.key = k /\ x.recipient = r /\ x.status \in Delivered
      <3>1. CASE accepted'[k][r] = accepted[k][r]
        BY <2>2, <2>4, <3>1 DEF AcceptedIsLogged
      <3>2. CASE accepted'[k][r] # accepted[k][r]
        BY <2>3, <3>2
      <3> QED
        BY <3>1, <3>2
    <2> QED
      BY <2>1, <2>4 DEF AcceptedIsLogged
  <1> QED
    BY <1>2, <1>3

LEMMA AcceptedWrite ==
    ASSUME TypeInv, AcceptedIsLogged, NEW d \in Requests, WriteDeliveryLog(d)
    PROVE  AcceptedIsLogged'
  <1> DEFINE x == [key |-> Current(d).key, attempt |-> AttemptNumber(d),
                   recipient |-> entry[d].recipient, status |-> entry[d].status]
  <1>1. /\ deliveries' = deliveries \cup {x}
        /\ UNCHANGED <<batch, accepted, faults>>
        /\ \A e \in Requests \ {d} : pc'[e] = pc[e] /\ entry'[e] = entry[e]
    BY DEF WriteDeliveryLog, ghosts, TypeInv, TypeOK
  <1>2. ASSUME NEW e \in Requests, NEW k \in Keys, NEW r \in Recipients, InFlight(e, k, r)
        PROVE  \/ InFlight(e, k, r)'
               \/ x.key = k /\ x.recipient = r /\ x.status \in Delivered
    BY <1>1, <1>2 DEF InFlight, Current
  <1> HIDE DEF x
  <1> QED
    BY <1>1, <1>2 DEF AcceptedIsLogged

LEMMA AcceptedStep == TypeInv /\ AcceptedIsLogged /\ [Next]_vars => AcceptedIsLogged'
  <1> SUFFICES ASSUME TypeInv, AcceptedIsLogged, [Next]_vars
               PROVE  AcceptedIsLogged'
    OBVIOUS
  <1>1. CASE UNCHANGED vars \/ UpdateSettings \/ Tick
    BY <1>1, AcceptedFrame DEF vars, UpdateSettings, Tick, locals, ghosts
  <1>2. CASE (\E d \in Requests : Throw(d)) \/ Restart
    <2>1. faults' = faults + 1
      BY <1>2 DEF Throw, Restart
    <2>2. faults \in Nat
      BY DEF TypeInv, TypeOK
    <2>3. faults' # 0
      BY <2>1, <2>2
    <2> QED
      BY <2>3 DEF AcceptedIsLogged
  <1>3. ASSUME NEW d \in Requests, Start(d) \/ CreateRows(d) \/ Scan(d)
        PROVE  AcceptedIsLogged'
    BY <1>3, AcceptedFrame DEF Start, StartPipeline, CreateRows, Scan, ghosts, db, TypeInv, TypeOK
  <1>4. ASSUME NEW d \in Requests, CheckPolicy(d) \/ ResolveRecipients(d)
        PROVE  AcceptedIsLogged'
    <2>1. pc[d] # "log" /\ UNCHANGED <<batch, accepted, faults, deliveries>>
      BY <1>4 DEF CheckPolicy, ResolveRecipients, db, ghosts
    <2>2. \A e \in Requests \ {d} : pc'[e] = pc[e] /\ entry'[e] = entry[e]
      BY <1>4 DEF CheckPolicy, ResolveRecipients, TypeInv, TypeOK
    <2> QED
      BY <2>1, <2>2, AcceptedFrame
  <1>5. ASSUME NEW d \in Requests, MarkOutbox(d)
        PROVE  AcceptedIsLogged'
    BY <1>5, AcceptedFrame DEF MarkOutbox, ghosts, TypeInv, TypeOK
  <1> QED
    BY <1>1, <1>2, <1>3, <1>4, <1>5, AcceptedSend, AcceptedWrite DEF Next, Step

\* For any number of requests and recipients, in a run without faults every
\* message a provider accepted is on record, or the next write puts it there.
THEOREM AcceptedRecorded == Spec => []AcceptedIsLogged
  <1>1. Init => AcceptedIsLogged
    BY DEF Init, AcceptedIsLogged
  <1> QED
    BY <1>1, TypeInvariant, AcceptedStep, PTL DEF Spec

----------------------------------------------------------------------------
(* A row is born once. *)

LEMMA BornStep ==
    ASSUME TypeInv, [Next]_vars, NEW k \in Keys, outbox[k].status # Absent
    PROVE  /\ outbox'[k].status # Absent
           /\ outbox'[k].status = "PENDING" => outbox[k].status = "PENDING"
           /\ outbox[k].attemptCount > 0 => outbox'[k].attemptCount > 0
  <1>1. CASE \E d \in Requests : MarkOutbox(d)
    <2>1. PICK d \in Requests : MarkOutbox(d)
      BY <1>1
    <2> DEFINE n == AttemptNumber(d)
               s == FinalStatus(results[d], n)
    <2>2. n \in Nat \ {0} /\ results[d] \in SUBSET Statuses
      BY <2>1, CurrentType DEF MarkOutbox, AttemptNumber, SnapshotRow, TypeInv, TypeOK
    <2>3. outbox'[k] = outbox[k] \/ (outbox'[k].status = s /\ outbox'[k].attemptCount = n)
      BY <2>1 DEF MarkOutbox, TypeInv, TypeOK
    <2> HIDE DEF n
    <2>4. s \in Settled \cup {"FAILED_RETRYABLE"}
      BY <2>2, FinalStatusFacts
    <2> QED
      BY <2>2, <2>3, <2>4
  <1>2. CASE Tick
    BY <1>2 DEF Tick, TypeInv, TypeOK, Row
  <1>3. CASE \E d \in Requests : CreateRows(d)
    BY <1>3 DEF CreateRows
  <1>4. outbox' = outbox \/ Tick \/ \E d \in Requests : MarkOutbox(d) \/ CreateRows(d)
    BY DEF Next, Step, vars, Start, StartPipeline, Scan, CheckPolicy, ResolveRecipients,
           Send, WriteDeliveryLog, Throw, Restart, UpdateSettings, db
  <1> QED
    BY <1>1, <1>2, <1>3, <1>4

\* Enqueueing is idempotent for any number of overlapping requests.
THEOREM RowsBornOnce == Spec => BornOnce
  <1>1. TypeInv /\ [Next]_vars =>
           [\A k \in Keys : outbox[k].status # Absent =>
              /\ outbox'[k].status # Absent
              /\ outbox'[k].status = "PENDING" => outbox[k].status = "PENDING"
              /\ outbox[k].attemptCount > 0 => outbox'[k].attemptCount > 0]_vars
    BY BornStep
  <1> QED
    BY <1>1, TypeInvariant, PTL DEF Spec, BornOnce

----------------------------------------------------------------------------
(* Pipelines that have no row in common, as if a dispatch claimed the rows  *)
(* it reads; a single pipeline is one of them.  Then nobody writes a row    *)
(* between the snapshot that holds it and its write-back, so a snapshot is  *)
(* still true when it is used: its rows are different rows, open, with the  *)
(* attempts it says.                                                        *)

InBatch(d, k) == \E i \in 1..Len(batch[d]) : batch[d][i].key = k

SnapshotsApart ==
    \A d, e \in Requests, k \in Keys : InBatch(d, k) /\ InBatch(e, k) => d = e

\* The row under work is one of the snapshot.
LEMMA CurrentInBatch ==
    ASSUME TypeInv, NEW d \in Requests, pc[d] \in {"policy", "resolve", "send", "log", "mark"}
    PROVE  Current(d).key \in Keys /\ InBatch(d, Current(d).key)
  <1>1. batch[d] \in Seq(SnapshotRow) /\ batch[d] # <<>> /\ Current(d) = batch[d][1]
        /\ Current(d) \in SnapshotRow
    BY CurrentType DEF TypeInv, TypeOK
  <1>2. 1 \in 1..Len(batch[d])
    BY <1>1
  <1> QED
    BY <1>1, <1>2 DEF InBatch, SnapshotRow

SnapshotFresh(d) ==
    /\ \A i \in 1..Len(batch[d]) :
          /\ outbox[batch[d][i].key].status \in Open
          /\ outbox[batch[d][i].key].attemptCount = batch[d][i].attemptCount
    /\ \A i, j \in 1..Len(batch[d]) : batch[d][i].key = batch[d][j].key => i = j

Born == {"PENDING", "SKIPPED_DISABLED", "SKIPPED_NOT_CONFIGURED"}

SerialInv ==
    /\ \A d \in Requests : SnapshotFresh(d)
    /\ \A k \in Keys : outbox[k].status = Absent => outbox[k].attemptCount = 0
    /\ \A d \in Requests, k \in Keys : intake[d][k] \in Born \cup {Absent}

LEMMA SerialInit == Init => SerialInv
  BY DEF Init, SerialInv, SnapshotFresh

LEMMA SnapshotKeys ==
    ASSUME TypeInv, NEW d \in Requests
    PROVE  \A i \in 1..Len(batch[d]) : batch[d][i].key \in Keys
  <1>1. batch[d] \in Seq(SnapshotRow)
    BY DEF TypeInv, TypeOK
  <1>2. \A i \in 1..Len(batch[d]) : batch[d][i] \in SnapshotRow
    BY <1>1
  <1> QED
    BY <1>2 DEF SnapshotRow

LEMMA SerialStart ==
    ASSUME TypeInv, SerialInv, NEW d \in Requests, Start(d)
    PROVE  SerialInv'
  <1>1. PICK C \in SUBSET Keys : StartPipeline(d, C)
    BY DEF Start
  <1>2. \A k \in Keys : InitialStatus(k) \in Born
    BY InitialStatusType, ConstantsAssumption DEF TypeInv, TypeOK, Born
  <1>3. UNCHANGED <<outbox, batch>>
    BY <1>1 DEF StartPipeline, db
  <1>4. intake' = [intake EXCEPT ![d] = [k \in Keys |-> IF k \in C THEN InitialStatus(k) ELSE Absent]]
    BY <1>1 DEF StartPipeline
  <1>5. \A e \in Requests, k \in Keys : intake'[e][k] \in Born \cup {Absent}
    BY <1>2, <1>4 DEF SerialInv, TypeInv, TypeOK
  <1>6. \A e \in Requests : SnapshotFresh(e)'
    BY <1>3 DEF SerialInv, SnapshotFresh
  <1> QED
    BY <1>3, <1>5, <1>6 DEF SerialInv

\* A row that a snapshot holds exists, and is not created again.
LEMMA SerialCreateRows ==
    ASSUME TypeInv, SerialInv, NEW d \in Requests, CreateRows(d)
    PROVE  SerialInv'
  <1>1. batch' = batch
    BY DEF CreateRows
  <1>2. \A k \in Keys : outbox[k].status # Absent => outbox'[k] = outbox[k]
    BY DEF CreateRows
  <1>3. \A e \in Requests : SnapshotFresh(e)'
    BY <1>1, <1>2, SnapshotKeys DEF SerialInv, SnapshotFresh
  <1>4. \A k \in Keys : outbox'[k].status = Absent => outbox'[k].attemptCount = 0
    BY DEF CreateRows, SerialInv, TypeInv, TypeOK
  <1>5. \A e \in Requests, k \in Keys : intake'[e][k] \in Born \cup {Absent}
    BY DEF CreateRows, SerialInv, TypeInv, TypeOK
  <1> QED
    BY <1>3, <1>4, <1>5 DEF SerialInv

LEMMA SerialScan ==
    ASSUME TypeInv, SerialInv, NEW d \in Requests, Scan(d)
    PROVE  SerialInv'
  <1>1. PICK n \in 0..BatchLimit : \E s \in ScanOrders(n) :
             batch' = [batch EXCEPT ![d] = Snapshot(n, s)]
    BY DEF Scan
  <1>2. PICK s \in ScanOrders(n) : batch' = [batch EXCEPT ![d] = Snapshot(n, s)]
    BY <1>1
  <1>3. /\ n \in Nat
        /\ Len(Snapshot(n, s)) = n
        /\ \A i \in 1..n : /\ s[i] \in DueKeys
                           /\ Snapshot(n, s)[i] = [key |-> s[i], attemptCount |-> outbox[s[i]].attemptCount]
    BY SnapshotFacts DEF TypeInv
  <1>4. \A i, j \in 1..n : s[i] = s[j] => i = j
    <2>1. \A i, j \in 1..n : i < j => s[i] # s[j]
      BY DEF ScanOrders
    <2>2. \A i, j \in 1..n : i # j => i < j \/ j < i
      BY <1>3
    <2> QED
      BY <2>1, <2>2
  <1>5. UNCHANGED <<outbox, intake>>
    BY DEF Scan, db
  <1>6. ASSUME NEW e \in Requests PROVE SnapshotFresh(e)'
    <2>1. CASE e = d
      <3>1. batch'[e] = Snapshot(n, s)
        BY <1>2, <2>1 DEF TypeInv, TypeOK
      <3> DEFINE b == Snapshot(n, s)
      <3>2. \A i \in 1..n : /\ b[i].key = s[i]
                            /\ b[i].attemptCount = outbox[s[i]].attemptCount
                            /\ outbox[s[i]].status \in Open
        BY <1>3 DEF DueKeys
      <3> HIDE DEF b
      <3>3. Len(b) = n
        BY <1>3 DEF b
      <3>4. batch'[e] = b
        BY <3>1 DEF b
      <3> QED
        BY <1>4, <1>5, <3>2, <3>3, <3>4 DEF SnapshotFresh
    <2>2. CASE e # d
      BY <1>2, <1>5, <2>2 DEF SnapshotFresh, SerialInv, TypeInv, TypeOK
    <2> QED
      BY <2>1, <2>2
  <1> QED
    BY <1>5, <1>6 DEF SerialInv

\* Writing back the first row of a snapshot leaves the rest of it as true as it was, and
\* the others, which do not hold it.
LEMMA SerialMark ==
    ASSUME SnapshotsApart,
           TypeInv, SerialInv, NEW d \in Requests, MarkOutbox(d)
    PROVE  SerialInv'
  <1> DEFINE k0 == Current(d).key
             b == batch[d]
  <1>1. /\ b \in Seq(SnapshotRow) /\ b # <<>> /\ k0 = b[1].key /\ k0 \in Keys
    BY CurrentType DEF MarkOutbox, TypeInv, TypeOK, SnapshotRow
  <1>2. /\ \A k \in Keys \ {k0} : outbox'[k] = outbox[k]
        /\ outbox'[k0].status = FinalStatus(results[d], AttemptNumber(d))
    BY <1>1 DEF MarkOutbox, TypeInv, TypeOK
  <1>3. /\ batch'[d] = Tail(b)
        /\ Len(Tail(b)) = Len(b) - 1
        /\ \A i \in 1..Len(Tail(b)) : Tail(b)[i] = b[i + 1]
    BY <1>1 DEF MarkOutbox, TypeInv, TypeOK
  <1>4. SnapshotFresh(d)
    BY DEF SerialInv
  <1> HIDE DEF k0
  <1>5. SnapshotFresh(d)'
    <2> DEFINE t == Tail(b)
    <2>1. Len(b) \in Nat /\ Len(t) \in Nat /\ Len(t) = Len(b) - 1
      BY <1>1, <1>3
    <2>2. \A i \in 1..Len(t) : i + 1 \in 1..Len(b) /\ 1 \in 1..Len(b) /\ i + 1 # 1
      BY <2>1
    <2>3. ASSUME NEW i \in 1..Len(t)
          PROVE  /\ outbox'[t[i].key].status \in Open
                 /\ outbox'[t[i].key].attemptCount = t[i].attemptCount
      <3>1. t[i] = b[i + 1] /\ i + 1 \in 1..Len(b) /\ 1 \in 1..Len(b) /\ i + 1 # 1
        BY <1>3, <2>2
      <3>2. t[i].key \in Keys /\ t[i].key # k0
        BY <1>1, <1>4, <3>1, SnapshotKeys DEF SnapshotFresh
      <3> QED
        BY <1>2, <1>4, <3>1, <3>2 DEF SnapshotFresh
    <2>4. ASSUME NEW i \in 1..Len(t), NEW j \in 1..Len(t), t[i].key = t[j].key
          PROVE  i = j
      <3>1. b[i + 1].key = b[j + 1].key /\ i + 1 \in 1..Len(b) /\ j + 1 \in 1..Len(b)
        BY <1>3, <2>2, <2>4
      <3>2. i + 1 = j + 1
        BY <1>4, <3>1 DEF SnapshotFresh
      <3> QED
        BY <3>2
    <2>5. batch'[d] = t
      BY <1>3
    <2> HIDE DEF t
    <2> QED
      BY <2>3, <2>4, <2>5 DEF SnapshotFresh
  <1>9. ASSUME NEW e \in Requests, e # d PROVE SnapshotFresh(e)'
    <2>1. batch'[e] = batch[e] /\ SnapshotFresh(e)
      BY <1>9 DEF MarkOutbox, SerialInv, TypeInv, TypeOK
    <2>2. \A i \in 1..Len(batch[e]) : batch[e][i].key \in Keys /\ batch[e][i].key # k0
      <3>1. InBatch(d, k0)
        BY CurrentInBatch DEF MarkOutbox, k0
      <3> QED
        BY <1>1, <1>9, <3>1, SnapshotKeys DEF SnapshotsApart, InBatch
    <2> QED
      BY <1>2, <2>1, <2>2 DEF SnapshotFresh
  <1>6. FinalStatus(results[d], AttemptNumber(d)) # Absent
    <2>1. AttemptNumber(d) \in Nat /\ results[d] \in SUBSET Statuses
      BY CurrentType DEF MarkOutbox, AttemptNumber, SnapshotRow, TypeInv, TypeOK
    <2> QED
      BY <2>1, FinalStatusFacts
  <1>7. \A k \in Keys : outbox'[k].status = Absent => outbox'[k].attemptCount = 0
    BY <1>2, <1>6 DEF SerialInv
  <1>8. \A e \in Requests, k \in Keys : intake'[e][k] \in Born \cup {Absent}
    BY DEF MarkOutbox, SerialInv
  <1> QED
    BY <1>5, <1>7, <1>8, <1>9 DEF SerialInv

LEMMA SerialFrame ==
    ASSUME SerialInv, UNCHANGED intake,
           \A k \in Keys : /\ outbox'[k].status = outbox[k].status
                           /\ outbox'[k].attemptCount = outbox[k].attemptCount,
           TypeInv, UNCHANGED batch
    PROVE  SerialInv'
  <1>1. \A d \in Requests : SnapshotFresh(d)'
    BY SnapshotKeys DEF SerialInv, SnapshotFresh
  <1> QED
    BY <1>1 DEF SerialInv

LEMMA SerialStep ==
    ASSUME SnapshotsApart, TypeInv, SerialInv, [Next]_vars
    PROVE  SerialInv'
  <1>1. CASE (\E d \in Requests : Throw(d)) \/ Restart
    <2>1. PICK D \in SUBSET Requests : Forget(D)
      BY <1>1 DEF Throw, Restart
    <2>2. outbox' = outbox
      BY <1>1 DEF Throw, Restart, db
    <2> QED
      BY <2>1, <2>2 DEF Forget, SerialInv, SnapshotFresh
  <1>2. CASE Tick
    <2>1. \A k \in Keys : /\ outbox'[k].status = outbox[k].status
                          /\ outbox'[k].attemptCount = outbox[k].attemptCount
      BY <1>2 DEF Tick, TypeInv, TypeOK, Row
    <2> QED
      BY <1>2, <2>1, SerialFrame DEF Tick, locals
  <1>3. CASE UNCHANGED <<outbox, intake, batch>>
    BY <1>3, SerialFrame
  <1>4. ASSUME NEW d \in Requests, CheckPolicy(d) \/ ResolveRecipients(d) \/ Send(d) \/ WriteDeliveryLog(d)
        PROVE  UNCHANGED <<outbox, intake, batch>>
    BY <1>4 DEF CheckPolicy, ResolveRecipients, Send, WriteDeliveryLog, db
  <1>5. UNCHANGED vars \/ UpdateSettings => UNCHANGED <<outbox, intake, batch>>
    BY DEF vars, UpdateSettings, locals
  <1> QED
    BY <1>1, <1>2, <1>3, <1>4, <1>5, SerialStart, SerialCreateRows, SerialScan, SerialMark
       DEF Next, Step

----------------------------------------------------------------------------
(* The refinement.  Creating rows registers alerts, a write-back is an      *)
(* attempt, and every other step stutters.                                  *)

LEMMA PromiseInitially == Init => Promise!PromiseInit
  BY DEF Init, Promise!PromiseInit

\* What the promise sees of a row is its status and its count.
LEMMA PromiseStutter ==
    ASSUME \A k \in Keys : /\ outbox'[k].status = outbox[k].status
                           /\ outbox'[k].attemptCount = outbox[k].attemptCount
    PROVE  UNCHANGED Promise!pvars
  BY DEF Promise!pvars

LEMMA CreateRowsRegisters ==
    ASSUME TypeInv, SerialInv, NEW d \in Requests, CreateRows(d)
    PROVE  Promise!Register
  <1> DEFINE C == {k \in Keys : intake[d][k] # Absent /\ outbox[k].status = Absent}
             born == [k \in C |-> intake[d][k]]
  <1>1. C \in SUBSET {k \in Keys : [l \in Keys |-> outbox[l].status][k] = Absent}
    OBVIOUS
  <1>2. born \in [C -> {"PENDING", "SKIPPED_DISABLED", "SKIPPED_NOT_CONFIGURED"}]
    BY DEF SerialInv, Born
  <1>3. ASSUME NEW k \in Keys
        PROVE  /\ outbox'[k].status = IF k \in C THEN born[k] ELSE outbox[k].status
               /\ outbox'[k].attemptCount = outbox[k].attemptCount
    BY DEF CreateRows, SerialInv
  <1> HIDE DEF C, born
  <1>4. [k \in Keys |-> outbox'[k].status] =
            [k \in Keys |-> IF k \in C THEN born[k] ELSE [l \in Keys |-> outbox[l].status][k]]
    BY <1>3
  <1>5. [k \in Keys |-> outbox'[k].attemptCount] = [k \in Keys |-> outbox[k].attemptCount]
    BY <1>3
  <1> QED
    BY <1>1, <1>2, <1>4, <1>5 DEF Promise!Register

\* The count that the snapshot told is the count that the row still has.
LEMMA MarkOutboxAttempts ==
    ASSUME TypeInv, RetryInv, SerialInv, NEW d \in Requests, MarkOutbox(d)
    PROVE  \E k \in Keys : Promise!Attempt(k)
  <1> DEFINE n == AttemptNumber(d)
             s == FinalStatus(results[d], n)
             k0 == Current(d).key
             status == [k \in Keys |-> outbox[k].status]
             attempts == [k \in Keys |-> outbox[k].attemptCount]
  <1>1. /\ 1 \in 1..Len(batch[d]) /\ Current(d) = batch[d][1] /\ k0 \in Keys
        /\ Current(d).attemptCount \in Nat
    <2>1. batch[d] \in Seq(SnapshotRow) /\ batch[d] # <<>> /\ Current(d) = batch[d][1] /\ Current(d) \in SnapshotRow
      BY CurrentType DEF MarkOutbox, TypeInv, TypeOK
    <2> QED
      BY <2>1 DEF SnapshotRow
  <1>2. outbox[k0].status \in Open /\ n = outbox[k0].attemptCount + 1
    BY <1>1 DEF SerialInv, SnapshotFresh, AttemptNumber
  <1>3. n \in Nat /\ results[d] \in SUBSET Statuses
    BY <1>1 DEF AttemptNumber, TypeInv, TypeOK
  <1>4. /\ \A k \in Keys \ {k0} : outbox'[k] = outbox[k]
        /\ outbox'[k0].status = s
        /\ outbox'[k0].attemptCount = n
    BY <1>1 DEF MarkOutbox, TypeInv, TypeOK
  <1> HIDE DEF n, k0
  <1>5. s \in Settled \cup {"FAILED_RETRYABLE"} /\ (s = "FAILED_RETRYABLE" => n < MaxAttempts)
    BY <1>3, FinalStatusFacts
  <1> HIDE DEF s
  <1>6. [k \in Keys |-> outbox'[k].status] = [status EXCEPT ![k0] = s]
    BY <1>1, <1>4
  <1>7. [k \in Keys |-> outbox'[k].attemptCount] = [attempts EXCEPT ![k0] = @ + 1]
    BY <1>1, <1>2, <1>4
  <1>8. k0 \in Keys /\ status[k0] \in Open /\ (s = "FAILED_RETRYABLE" => attempts[k0] + 1 < MaxAttempts)
    BY <1>1, <1>2, <1>5
  <1> QED
    BY <1>5, <1>6, <1>7, <1>8 DEF Promise!Attempt

LEMMA PromiseStep ==
    ASSUME TypeInv, RetryInv, SerialInv, [Next]_vars
    PROVE  [Promise!PromiseNext]_(Promise!pvars)
  <1>1. CASE \E d \in Requests : CreateRows(d)
    BY <1>1, CreateRowsRegisters DEF Promise!PromiseNext
  <1>2. CASE \E d \in Requests : MarkOutbox(d)
    BY <1>2, MarkOutboxAttempts DEF Promise!PromiseNext
  <1>3. CASE Tick
    <2>1. \A k \in Keys : /\ outbox'[k].status = outbox[k].status
                          /\ outbox'[k].attemptCount = outbox[k].attemptCount
      BY <1>3 DEF Tick, TypeInv, TypeOK, Row
    <2> QED
      BY <2>1, PromiseStutter
  <1>4. CASE outbox' = outbox
    BY <1>4, PromiseStutter
  <1>5. outbox' = outbox \/ Tick \/ \E d \in Requests : MarkOutbox(d) \/ CreateRows(d)
    BY DEF Next, Step, vars, Start, StartPipeline, Scan, CheckPolicy, ResolveRecipients,
           Send, WriteDeliveryLog, Throw, Restart, UpdateSettings, db
  <1> QED
    BY <1>1, <1>2, <1>3, <1>4, <1>5

LEMMA TypeApart == TypeInv /\ [Next /\ SnapshotsApart]_vars => TypeInv' /\ [Next]_vars
  <1>1. [Next /\ SnapshotsApart]_vars => [Next]_vars
    OBVIOUS
  <1> QED
    BY <1>1, TypeStep

LEMMA FreshApart ==
    TypeInv /\ SerialInv /\ [Next /\ SnapshotsApart]_vars => SerialInv'
  <1> SUFFICES ASSUME TypeInv, SerialInv, [Next /\ SnapshotsApart]_vars PROVE SerialInv'
    OBVIOUS
  <1>1. CASE UNCHANGED vars
    BY <1>1, SerialFrame DEF vars
  <1>2. CASE Next /\ SnapshotsApart
    BY <1>2, SerialStep
  <1> QED
    BY <1>1, <1>2

\* One pipeline has no row in common with another.
LEMMA SerialIsApart ==
    ASSUME \A d, e \in Requests : d = e
    PROVE  [Next]_vars => [Next /\ SnapshotsApart]_vars
  BY DEF SnapshotsApart

\* As long as no two pipelines hold the same row, with any number of pipelines, alerts and
\* recipients, any faults and any changes of the settings, the outbox implements its
\* promise: each alert is registered once, each attempt counted once and each outcome
\* final.  (dispatchPendingNotifications claims no row, see NoDuplicateSends.)
THEOREM RowsApartKeepPromise ==
    Init /\ [][Next /\ SnapshotsApart]_vars => KeepsPromise
  <1>1. TypeInv /\ RetryInv /\ SerialInv /\ [Next /\ SnapshotsApart]_vars =>
          RetryInv' /\ [Promise!PromiseNext]_(Promise!pvars)
    BY TypeApart, RetryStep, PromiseStep
  <1> QED
    BY <1>1, TypeApart, FreshApart, PromiseInitially, SerialInit, RetryInit, TypeInit, PTL
       DEF KeepsPromise, Promise!PromiseSpec

\* So it does while one pipeline runs at a time.
THEOREM SerialKeepsPromise ==
    ASSUME \A d, e \in Requests : d = e
    PROVE  Spec => KeepsPromise
  BY SerialIsApart, RowsApartKeepPromise, PTL DEF Spec

----------------------------------------------------------------------------
(* Messages.  The provider accepts more messages for a recipient than the   *)
(* faults account for only if the row is settled, or a pipeline is on it    *)
(* that knows of a delivery that will settle it: then the list is gone      *)
(* through to its end and no other time.                                    *)

HasDelivered(d) ==
    \/ pc[d] = "log" /\ entry[d].status \in Delivered
    \/ results[d] \cap Delivered # {}

CommittedBy(d, k) ==
    /\ pc[d] \in {"send", "log", "mark"}
    /\ Current(d).key = k
    /\ HasDelivered(d)

\* A whole list for each fault.
Excused == MaxNamed * faults

Account(k, r) ==
    \/ accepted[k][r] <= Excused
    \/ outbox[k].status \in Settled /\ accepted[k][r] <= Excused + MaxNamed
    \/ \E d \in Requests :
          CommittedBy(d, k) /\ accepted[k][r] + todo[d][r] <= Excused + MaxNamed

SendInv == \A k \in Keys, r \in Recipients : Account(k, r)

LEMMA ExcusedFacts ==
    ASSUME TypeInv
    PROVE  /\ Excused \in Nat
           /\ faults' = faults => Excused' = Excused
           /\ faults' = faults + 1 => Excused' = Excused + MaxNamed
  <1>1. faults \in Nat /\ MaxNamed \in Nat
    BY ConstantsAssumption DEF TypeInv, TypeOK
  <1>2. \A m, n \in Nat : m * n \in Nat /\ m * (n + 1) = m * n + m
    OBVIOUS
  <1> QED
    BY <1>1, <1>2 DEF Excused

LEMMA SendInit == Init => SendInv
  <1> SUFFICES ASSUME Init PROVE SendInv
    OBVIOUS
  <1>1. faults = 0 /\ \A k \in Keys, r \in Recipients : accepted[k][r] = 0
    BY DEF Init
  <1>2. MaxNamed \in Nat
    BY ConstantsAssumption
  <1> QED
    BY <1>1, <1>2 DEF SendInv, Account, Excused

\* A fault excuses a whole list more.
LEMMA SendFault ==
    ASSUME TypeInv, SendInv, accepted' = accepted, faults' = faults + 1
    PROVE  SendInv'
  <1>1. ASSUME NEW k \in Keys, NEW r \in Recipients
        PROVE  Account(k, r)'
    <2>1. /\ accepted[k][r] \in Nat /\ MaxNamed \in Nat
          /\ \A d \in Requests : todo[d][r] \in Nat
      BY ConstantsAssumption DEF TypeInv, TypeOK
    <2>2. accepted[k][r] <= Excused + MaxNamed
      BY <2>1, ExcusedFacts DEF SendInv, Account
    <2> QED
      BY <2>2, ExcusedFacts DEF Account
  <1> QED
    BY <1>1 DEF SendInv

\* A step that sends nothing keeps the account if settled rows stay settled and a
\* pipeline that will settle its row still will, or has.
LEMMA SendFrame ==
    ASSUME TypeInv, SendInv, UNCHANGED <<accepted, faults>>,
           \A k \in Keys : outbox[k].status \in Settled => outbox'[k].status \in Settled,
           \A k \in Keys, d \in Requests : CommittedBy(d, k) =>
              \/ outbox'[k].status \in Settled
              \/ CommittedBy(d, k)' /\ todo'[d] = todo[d]
    PROVE  SendInv'
  <1>1. ASSUME NEW k \in Keys, NEW r \in Recipients
        PROVE  Account(k, r)'
    <2>1. /\ accepted[k][r] \in Nat /\ Excused \in Nat /\ Excused' = Excused /\ MaxNamed \in Nat
          /\ \A d \in Requests : todo[d][r] \in Nat
      BY ExcusedFacts, ConstantsAssumption DEF TypeInv, TypeOK
    <2>2. CASE accepted[k][r] <= Excused
      BY <2>1, <2>2 DEF Account
    <2>3. CASE outbox[k].status \in Settled /\ accepted[k][r] <= Excused + MaxNamed
      BY <2>1, <2>3 DEF Account
    <2>4. ASSUME NEW d \in Requests, CommittedBy(d, k),
                 accepted[k][r] + todo[d][r] <= Excused + MaxNamed
          PROVE  Account(k, r)'
      <3>1. accepted'[k][r] <= Excused' + MaxNamed
        BY <2>1, <2>4
      <3>2. CASE outbox'[k].status \in Settled
        BY <3>1, <3>2 DEF Account
      <3>3. CASE CommittedBy(d, k)' /\ todo'[d] = todo[d]
        BY <2>1, <2>4, <3>3 DEF Account
      <3> QED
        BY <2>4, <3>2, <3>3
    <2> QED
      BY <2>2, <2>3, <2>4 DEF SendInv, Account
  <1> QED
    BY <1>1 DEF SendInv

\* A pipeline sends for a row that is open and that no other is on: what the provider
\* accepts is taken from the list.
LEMMA SendSend ==
    ASSUME SnapshotsApart,
           TypeInv, SerialInv, SendInv, NEW d \in Requests, Send(d)
    PROVE  SendInv'
  <1> DEFINE k0 == Current(d).key
  <1>0. PICK r0 \in Named(todo[d]) : \E s0 \in SendResults(via[d], r0 \in Phones), lost \in BOOLEAN :
             /\ entry' = [entry EXCEPT ![d] = [recipient |-> r0, status |-> s0]]
             /\ todo' = [todo EXCEPT ![d][r0] = @ - 1]
             /\ accepted' = IF s0 \in Delivered \/ lost
                            THEN [accepted EXCEPT ![k0][r0] = @ + 1]
                            ELSE accepted
             /\ faults' = IF lost THEN faults + 1 ELSE faults
    BY DEF Send
  <1>1. PICK s0 \in SendResults(via[d], r0 \in Phones), lost \in BOOLEAN :
             /\ entry' = [entry EXCEPT ![d] = [recipient |-> r0, status |-> s0]]
             /\ todo' = [todo EXCEPT ![d][r0] = @ - 1]
             /\ accepted' = IF s0 \in Delivered \/ lost
                            THEN [accepted EXCEPT ![k0][r0] = @ + 1]
                            ELSE accepted
             /\ faults' = IF lost THEN faults + 1 ELSE faults
    BY <1>0
  <1>2. /\ k0 \in Keys /\ r0 \in Recipients
        /\ outbox[k0].status \in Open
    <2>1. batch[d] \in Seq(SnapshotRow) /\ batch[d] # <<>> /\ Current(d) = batch[d][1] /\ Current(d) \in SnapshotRow
      BY CurrentType DEF Send, TypeInv, TypeOK
    <2>2. 1 \in 1..Len(batch[d])
      BY <2>1
    <2> QED
      BY <2>1, <2>2 DEF Named, SnapshotRow, SerialInv, SnapshotFresh, TypeInv, TypeOK
  <1>3. /\ pc[d] = "send" /\ pc'[d] = "log" /\ UNCHANGED <<outbox, batch, results>>
        /\ entry'[d].status = s0
        /\ todo[d][r0] \in Nat /\ todo'[d][r0] = todo[d][r0] - 1
        /\ \A r \in Recipients \ {r0} : todo'[d][r] = todo[d][r]
    BY <1>1, <1>2 DEF Send, TypeInv, TypeOK, db
  <1>4. Current(d)' = Current(d)
    BY <1>3 DEF Current
  <1>5. ASSUME NEW k \in Keys, NEW e \in Requests, e # d, CommittedBy(e, k)
        PROVE  k # k0 /\ CommittedBy(e, k)' /\ todo'[e] = todo[e]
    <2>1. pc'[e] = pc[e] /\ entry'[e] = entry[e] /\ todo'[e] = todo[e] /\ results'[e] = results[e]
      BY <1>1, <1>3, <1>5 DEF Send, TypeInv, TypeOK
    <2>2. k # k0
      BY <1>2, <1>3, <1>5, CurrentInBatch DEF SnapshotsApart, CommittedBy
    <2> QED
      BY <1>3, <1>5, <2>1, <2>2 DEF CommittedBy, HasDelivered, Current
  <1>6. ASSUME NEW k \in Keys, k = k0, CommittedBy(d, k) \/ s0 \in Delivered
        PROVE  CommittedBy(d, k)'
    BY <1>3, <1>4, <1>6 DEF CommittedBy, HasDelivered
  <1>7. \A k \in Keys : CommittedBy(d, k) => k = k0
    BY DEF CommittedBy
  <1> HIDE DEF k0
  <1>8. ASSUME NEW k \in Keys, NEW r \in Recipients
        PROVE  Account(k, r)'
    <2>1. /\ accepted[k][r] \in Nat /\ Excused \in Nat /\ MaxNamed \in Nat
          /\ faults \in Nat
          /\ todo[d][r] \in Nat /\ todo[d][r] <= MaxNamed
      BY ExcusedFacts, ConstantsAssumption DEF TypeInv, TypeOK
    <2>2. \/ ~lost /\ Excused' = Excused
          \/ lost /\ Excused' = Excused + MaxNamed
      BY <1>1, ExcusedFacts
    <2>3. CASE k # k0
      <3>1. accepted'[k] = accepted[k]
        BY <1>1, <1>2, <2>3 DEF TypeInv, TypeOK
      <3>2. ASSUME NEW e \in Requests, CommittedBy(e, k),
                   accepted[k][r] + todo[e][r] <= Excused + MaxNamed
            PROVE  Account(k, r)'
        <4>1. e # d
          BY <1>7, <2>3, <3>2
        <4>2. CommittedBy(e, k)' /\ todo'[e] = todo[e] /\ todo[e][r] \in Nat
          BY <1>5, <3>2, <4>1, ConstantsAssumption DEF TypeInv, TypeOK
        <4>3. accepted'[k][r] + todo'[e][r] <= Excused' + MaxNamed
          BY <2>1, <2>2, <3>1, <3>2, <4>2
        <4> QED
          BY <4>2, <4>3 DEF Account
      <3>3. CASE accepted[k][r] <= Excused
        BY <2>1, <2>2, <3>1, <3>3 DEF Account
      <3>4. CASE outbox[k].status \in Settled /\ accepted[k][r] <= Excused + MaxNamed
        BY <1>3, <2>1, <2>2, <3>1, <3>4 DEF Account
      <3> QED
        BY <3>2, <3>3, <3>4 DEF SendInv, Account
    <2>4. CASE k = k0
      <3>1. \/ accepted[k][r] <= Excused
            \/ CommittedBy(d, k) /\ accepted[k][r] + todo[d][r] <= Excused + MaxNamed
        <4>1. outbox[k].status \notin Settled
          BY <1>2, <2>4
        <4>2. \A e \in Requests : CommittedBy(e, k) => e = d
          BY <1>5, <2>4
        <4> QED
          BY <4>1, <4>2 DEF SendInv, Account
      <3>2. accepted[k][r] + todo[d][r] <= Excused + MaxNamed
        BY <2>1, <3>1
      <3>3. /\ accepted'[k][r] \in Nat /\ todo'[d][r] \in Nat
            /\ accepted'[k][r] <= accepted[k][r] + 1
            /\ accepted'[k][r] + todo'[d][r] <= accepted[k][r] + todo[d][r]
            /\ s0 \in Delivered \/ lost \/ accepted'[k][r] = accepted[k][r]
        <4>1. /\ r = r0 => todo'[d][r] = todo[d][r] - 1 /\ todo'[d][r] \in Nat
              /\ r # r0 => todo'[d][r] = todo[d][r]
          BY <1>0, <1>2, <1>3, <2>1 DEF Named
        <4>2. /\ r # r0 => accepted'[k][r] = accepted[k][r]
              /\ r = r0 => accepted'[k][r] \in {accepted[k][r], accepted[k][r] + 1}
              /\ s0 \in Delivered \/ lost \/ accepted'[k][r] = accepted[k][r]
          <5>1. CASE ~(s0 \in Delivered \/ lost)
            BY <1>1, <5>1
          <5>2. CASE s0 \in Delivered \/ lost
            <6>1. accepted' = [accepted EXCEPT ![k0] = [accepted[k0] EXCEPT ![r0] = accepted[k0][r0] + 1]]
              BY <1>1, <5>2
            <6>2. accepted'[k0] = [accepted[k0] EXCEPT ![r0] = accepted[k0][r0] + 1]
              BY <1>2, <6>1 DEF TypeInv, TypeOK
            <6> QED
              BY <1>2, <2>4, <5>2, <6>2 DEF TypeInv, TypeOK
          <5> QED
            BY <5>1, <5>2
        <4> QED
          BY <2>1, <4>1, <4>2
      <3>4. CASE lost /\ accepted[k][r] <= Excused
        <4>1. accepted'[k][r] <= Excused'
          BY <2>1, <2>2, <3>3, <3>4, ConstantsAssumption
        <4> QED
          BY <4>1 DEF Account
      <3>5. CASE CommittedBy(d, k)'
        <4>1. accepted'[k][r] + todo'[d][r] <= Excused' + MaxNamed
          BY <2>1, <2>2, <3>2, <3>3
        <4> QED
          BY <3>5, <4>1 DEF Account
      <3>6. CASE ~lost /\ s0 \notin Delivered /\ accepted[k][r] <= Excused
        BY <2>2, <3>3, <3>6 DEF Account
      <3> QED
        BY <1>6, <2>4, <3>1, <3>4, <3>5, <3>6
    <2> QED
      BY <2>3, <2>4
  <1> QED
    BY <1>8 DEF SendInv

\* A delivery among the results settles the row.
LEMMA DeliverySettles ==
    ASSUME NEW rs \in SUBSET Statuses, NEW n \in Nat, rs \cap Delivered # {}
    PROVE  FinalStatus(rs, n) \in Settled
  <1>1. CASE rs \cap Skips # {}
    <2>1. \E s \in Skips : s \in rs
      BY <1>1
    <2>2. FinalStatus(rs, n) = CHOOSE s \in Skips : s \in rs
      BY <1>1 DEF FinalStatus
    <2> QED
      BY <2>1, <2>2
  <1>2. CASE rs \cap Skips = {}
    BY <1>2 DEF FinalStatus
  <1> QED
    BY <1>1, <1>2

LEMMA SendMark ==
    ASSUME SnapshotsApart,
           TypeInv, SerialInv, SendInv, NEW d \in Requests, MarkOutbox(d)
    PROVE  SendInv'
  <1> DEFINE n == AttemptNumber(d)
             k0 == Current(d).key
  <1>1. /\ n \in Nat /\ k0 \in Keys /\ outbox[k0].status \in Open
        /\ results[d] \in SUBSET Statuses
    <2>1. batch[d] \in Seq(SnapshotRow) /\ batch[d] # <<>> /\ Current(d) = batch[d][1] /\ Current(d) \in SnapshotRow
      BY CurrentType DEF MarkOutbox, TypeInv, TypeOK
    <2>2. 1 \in 1..Len(batch[d])
      BY <2>1
    <2> QED
      BY <2>1, <2>2 DEF AttemptNumber, SnapshotRow, SerialInv, SnapshotFresh, TypeInv, TypeOK
  <1>2. /\ \A k \in Keys \ {k0} : outbox'[k] = outbox[k]
        /\ outbox'[k0].status = FinalStatus(results[d], n)
    BY <1>1 DEF MarkOutbox, TypeInv, TypeOK
  <1>3. pc[d] = "mark" /\ UNCHANGED <<accepted, faults>>
    BY DEF MarkOutbox, ghosts
  <1> HIDE DEF n
  <1>4. \A k \in Keys : outbox[k].status \in Settled => outbox'[k].status \in Settled
    BY <1>1, <1>2
  <1>5. ASSUME NEW k \in Keys, NEW e \in Requests, CommittedBy(e, k)
        PROVE  outbox'[k].status \in Settled \/ (CommittedBy(e, k)' /\ todo'[e] = todo[e])
    <2>1. CASE e = d
      <3>1. k = k0 /\ results[d] \cap Delivered # {}
        BY <1>3, <1>5, <2>1 DEF CommittedBy, HasDelivered
      <3> QED
        BY <1>1, <1>2, <3>1, DeliverySettles
    <2>2. CASE e # d
      BY <1>5, <2>2 DEF CommittedBy, HasDelivered, Current, MarkOutbox, TypeInv, TypeOK
    <2> QED
      BY <2>1, <2>2
  <1> QED
    BY <1>3, <1>4, <1>5, SendFrame

LEMMA SendWrite ==
    ASSUME TypeInv, SendInv, NEW d \in Requests, WriteDeliveryLog(d)
    PROVE  SendInv'
  <1>1. /\ UNCHANGED <<outbox, batch, todo, accepted, faults>>
        /\ pc[d] = "log" /\ pc'[d] \in {"send", "mark"}
        /\ results'[d] = results[d] \cup {entry[d].status}
        /\ \A e \in Requests \ {d} : pc'[e] = pc[e] /\ entry'[e] = entry[e] /\ results'[e] = results[e]
    BY DEF WriteDeliveryLog, ghosts, TypeInv, TypeOK
  <1>2. ASSUME NEW k \in Keys, NEW e \in Requests, CommittedBy(e, k)
        PROVE  CommittedBy(e, k)'
    BY <1>1, <1>2 DEF CommittedBy, HasDelivered, Current
  <1> QED
    BY <1>1, <1>2, SendFrame

\* The other steps of a pipeline that has nothing to show for its row yet.
LEMMA SendQuiet ==
    ASSUME TypeInv, SendInv, NEW d \in Requests,
           Start(d) \/ CreateRows(d) \/ Scan(d) \/ CheckPolicy(d) \/ ResolveRecipients(d)
    PROVE  SendInv'
  <1>1. /\ UNCHANGED <<accepted, faults, results>>
        /\ pc[d] \notin {"send", "log", "mark"}
        /\ \A e \in Requests \ {d} : /\ pc'[e] = pc[e] /\ entry'[e] = entry[e]
                                     /\ batch'[e] = batch[e] /\ todo'[e] = todo[e]
    <2>1. CASE Start(d) \/ CreateRows(d)
      BY <2>1 DEF Start, StartPipeline, CreateRows, ghosts, TypeInv, TypeOK
    <2>2. CASE Scan(d)
      BY <2>2 DEF Scan, ghosts, TypeInv, TypeOK
    <2>3. CASE CheckPolicy(d)
      BY <2>3 DEF CheckPolicy, ghosts, TypeInv, TypeOK
    <2>4. CASE ResolveRecipients(d)
      BY <2>4 DEF ResolveRecipients, ghosts, TypeInv, TypeOK
    <2> QED
      BY <2>1, <2>2, <2>3, <2>4
  <1>2. \A k \in Keys : outbox[k].status \in Settled => outbox'[k].status \in Settled
    BY DEF Start, StartPipeline, CreateRows, Scan, CheckPolicy, ResolveRecipients, db
  <1>3. ASSUME NEW k \in Keys, NEW e \in Requests, CommittedBy(e, k)
        PROVE  CommittedBy(e, k)' /\ todo'[e] = todo[e]
    <2>1. e # d
      BY <1>1, <1>3 DEF CommittedBy
    <2> QED
      BY <1>1, <1>3, <2>1 DEF CommittedBy, HasDelivered, Current
  <1> QED
    BY <1>1, <1>2, <1>3, SendFrame

LEMMA SendStep ==
    ASSUME SnapshotsApart, TypeInv, SerialInv, SendInv, [Next]_vars
    PROVE  SendInv'
  <1>1. CASE (\E d \in Requests : Throw(d)) \/ Restart
    BY <1>1, SendFault DEF Throw, Restart
  <1>2. CASE UNCHANGED vars \/ UpdateSettings \/ Tick
    <2>1. UNCHANGED <<pc, locals, accepted, faults>>
      BY <1>2 DEF vars, UpdateSettings, Tick, locals, ghosts
    <2>2. \A k \in Keys : outbox[k].status \in Settled => outbox'[k].status \in Settled
      BY <1>2 DEF vars, UpdateSettings, Tick
    <2> QED
      BY <2>1, <2>2, SendFrame DEF CommittedBy, HasDelivered, Current, locals
  <1> QED
    BY <1>1, <1>2, SendSend, SendMark, SendWrite, SendQuiet DEF Next, Step

LEMMA SendApart ==
    TypeInv /\ SerialInv /\ SendInv /\ [Next /\ SnapshotsApart]_vars => SendInv'
  <1> SUFFICES ASSUME TypeInv, SerialInv, SendInv, [Next /\ SnapshotsApart]_vars PROVE SendInv'
    OBVIOUS
  <1>1. CASE UNCHANGED vars
    BY <1>1 DEF vars, SendInv, Account, Excused, CommittedBy, HasDelivered, Current
  <1>2. CASE Next /\ SnapshotsApart
    BY <1>2, SendStep
  <1> QED
    BY <1>1, <1>2

\* What the account comes to, with a list for each fault and one more.
LEMMA AccountBound ==
    ASSUME TypeInv, SendInv, NEW k \in Keys, NEW r \in Recipients
    PROVE  accepted[k][r] <= Excused + MaxNamed
  <1>1. /\ accepted[k][r] \in Nat /\ Excused \in Nat /\ MaxNamed \in Nat
        /\ \A d \in Requests : todo[d][r] \in Nat
    BY ExcusedFacts, ConstantsAssumption DEF TypeInv, TypeOK
  <1> QED
    BY <1>1 DEF SendInv, Account

\* As long as no two pipelines hold the same row, a recipient is sent an alert as often as
\* a list may name it, and as often again for each fault, however many pipelines there
\* are and however often rows are retried.
THEOREM RowsApartListOncePerFault ==
    Init /\ [][Next /\ SnapshotsApart]_vars => []OneListPerFault
  <1>1. TypeInv /\ SendInv => OneListPerFault
    <2> SUFFICES ASSUME TypeInv, SendInv, NEW k \in Keys, NEW r \in Recipients
                 PROVE  accepted[k][r] <= MaxNamed * (1 + faults)
      BY DEF OneListPerFault
    <2>1. faults \in Nat /\ MaxNamed \in Nat
      BY ConstantsAssumption DEF TypeInv, TypeOK
    <2>2. \A m, n \in Nat : m * (1 + n) = m * n + m
      OBVIOUS
    <2> QED
      BY <2>1, <2>2, AccountBound DEF Excused
  <1> QED
    BY <1>1, TypeApart, FreshApart, SendApart, SerialInit, SendInit, TypeInit, PTL

\* So it is while one pipeline runs at a time.
THEOREM SerialListsOncePerFault ==
    ASSUME \A d, e \in Requests : d = e
    PROVE  Spec => []OneListPerFault
  BY SerialIsApart, RowsApartListOncePerFault, PTL DEF Spec

\* If no list names a destination twice, no two pipelines hold the same row and no fault
\* strikes, no recipient is sent an alert twice.  Each of the three is needed: nothing
\* removes a destination typed in twice, the scan claims nothing (NoDuplicateSends), and
\* a fault between a send and the write-back repeats the row.
THEOREM RowsApartSendOnce ==
    ASSUME MaxNamed = 1
    PROVE  Init /\ [][Next /\ SnapshotsApart /\ UNCHANGED faults]_vars => []NoDuplicateSends
  <1> DEFINE NoFault == faults = 0
             Apart == [Next /\ SnapshotsApart]_vars
             Sound == [Next /\ SnapshotsApart /\ UNCHANGED faults]_vars
  <1>1. Init => NoFault
    BY DEF Init
  <1>2. NoFault /\ Sound => NoFault'
    BY DEF vars
  <1>3. Sound => Apart
    OBVIOUS
  <1>4. NoFault /\ TypeInv /\ SendInv => NoDuplicateSends
    <2> SUFFICES ASSUME NoFault, TypeInv, SendInv, NEW k \in Keys, NEW r \in Recipients
                 PROVE  accepted[k][r] <= 1
      BY DEF NoDuplicateSends
    <2>1. Excused = 0
      BY DEF Excused
    <2> QED
      BY <2>1, AccountBound
  <1>5. /\ TypeInv /\ Apart => TypeInv'
        /\ TypeInv /\ SerialInv /\ Apart => SerialInv'
        /\ TypeInv /\ SerialInv /\ SendInv /\ Apart => SendInv'
    BY TypeApart, FreshApart, SendApart
  <1> HIDE DEF NoFault
  <1>6. NoFault /\ TypeInv /\ SerialInv /\ SendInv /\ Sound
          => NoFault' /\ TypeInv' /\ SerialInv' /\ SendInv'
    BY <1>2, <1>3, <1>5
  <1> QED
    BY <1>1, <1>4, <1>6, SerialInit, SendInit, TypeInit, PTL

----------------------------------------------------------------------------
(* Any number of pipelines.  A row is touched through a snapshot only, and  *)
(* no snapshot takes a settled row: what overlapping pipelines do twice     *)
(* they do with the snapshots they took before the row was settled.         *)

Quiet(k) == outbox[k].status \in Settled /\ \A d \in Requests : ~InBatch(d, k)

\* A snapshot takes open rows, and is walked to its end.
LEMMA BatchStep ==
    ASSUME TypeInv, [Next]_vars, NEW k \in Keys, Quiet(k), NEW d \in Requests
    PROVE  ~InBatch(d, k)'
  <1>0. batch \in [Requests -> Seq(SnapshotRow)] /\ ~InBatch(d, k)
    BY DEF TypeInv, TypeOK, Quiet
  <1>1. CASE batch'[d] = batch[d]
    BY <1>0, <1>1 DEF InBatch
  <1>2. CASE batch'[d] = <<>>
    BY <1>2 DEF InBatch
  <1>3. ASSUME NEW n \in 0..BatchLimit, NEW s \in ScanOrders(n), batch'[d] = Snapshot(n, s)
        PROVE  ~InBatch(d, k)'
    <2>1. /\ Len(batch'[d]) = n
          /\ \A i \in 1..n : batch'[d][i].key \in DueKeys
      <3>1. \A i \in 1..n : /\ s[i] \in DueKeys
                            /\ Snapshot(n, s)[i] = [key |-> s[i], attemptCount |-> outbox[s[i]].attemptCount]
        BY <1>3, SnapshotFacts DEF TypeInv
      <3>2. Len(Snapshot(n, s)) = n
        BY <1>3, SnapshotFacts DEF TypeInv
      <3>3. ASSUME NEW i \in 1..n PROVE Snapshot(n, s)[i].key \in DueKeys
        <4>1. s[i] \in DueKeys
          BY <3>1
        <4>2. Snapshot(n, s)[i] = [key |-> s[i], attemptCount |-> outbox[s[i]].attemptCount]
          BY <3>1
        <4> QED
          BY <4>1, <4>2
      <3> QED
        BY <1>3, <3>2, <3>3
    <2>2. k \notin DueKeys
      BY DEF Quiet, DueKeys
    <2> QED
      BY <2>1, <2>2 DEF InBatch
  <1>4. CASE MarkOutbox(d)
    <2>1. batch[d] # <<>> /\ batch'[d] = Tail(batch[d])
      BY <1>0, <1>4, CurrentType DEF MarkOutbox
    <2>2. \A i \in 1..Len(Tail(batch[d])) : Tail(batch[d])[i] = batch[d][i + 1] /\ i + 1 \in 1..Len(batch[d])
      BY <1>0, <2>1
    <2> QED
      BY <1>0, <2>1, <2>2 DEF InBatch
  <1>5. ASSUME NEW e \in Requests, Start(e) \/ Step(e) \/ Throw(e)
        PROVE  ~InBatch(d, k)'
    <2>1. CASE Scan(e)
      <3>1. PICK n \in 0..BatchLimit : \E s \in ScanOrders(n) :
              batch' = [batch EXCEPT ![e] = Snapshot(n, s)]
        BY <2>1 DEF Scan
      <3>2. PICK s \in ScanOrders(n) : batch' = [batch EXCEPT ![e] = Snapshot(n, s)]
        BY <3>1
      <3> QED
        BY <1>0, <1>1, <1>3, <3>2
    <2>2. CASE MarkOutbox(e)
      BY <1>0, <1>1, <1>4, <2>2 DEF MarkOutbox
    <2>3. CASE Throw(e)
      BY <1>1, <1>2, <2>3 DEF Throw, Forget
    <2> QED
      BY <1>1, <1>5, <2>1, <2>2, <2>3
         DEF Step, Start, StartPipeline, CreateRows, CheckPolicy, ResolveRecipients, Send,
             WriteDeliveryLog
  <1> QED
    BY <1>1, <1>2, <1>5 DEF Next, Restart, Forget, UpdateSettings, Tick, vars, locals

LEMMA QuietStep ==
    ASSUME TypeInv, [Next]_vars, NEW k \in Keys, Quiet(k)
    PROVE  /\ Quiet(k)' /\ outbox'[k] = outbox[k] /\ accepted'[k] = accepted[k]
           /\ \A e \in deliveries' \ deliveries : e.key # k
  <1>1. outbox \in [Keys -> Row] /\ accepted \in [Keys -> [Recipients -> Nat]]
    BY DEF TypeInv, TypeOK
  <1>2. ASSUME NEW d \in Requests, pc[d] \in {"send", "log", "mark"}
        PROVE  Current(d).key \in Keys /\ Current(d).key # k
    BY <1>2, CurrentInBatch DEF Quiet
  <1>3. outbox'[k] = outbox[k]
    <2>1. CASE Tick
      BY <1>1, <2>1 DEF Tick, Quiet
    <2>2. ASSUME NEW d \in Requests, CreateRows(d) PROVE outbox'[k] = outbox[k]
      BY <1>1, <2>2 DEF CreateRows, Quiet
    <2>3. ASSUME NEW d \in Requests, MarkOutbox(d) PROVE outbox'[k] = outbox[k]
      BY <1>1, <1>2, <2>3 DEF MarkOutbox
    <2> QED
      BY <2>1, <2>2, <2>3
         DEF Next, Step, vars, Start, StartPipeline, Scan, CheckPolicy, ResolveRecipients,
             Send, WriteDeliveryLog, Throw, Restart, UpdateSettings, db
  <1>4. accepted'[k] = accepted[k]
    <2>1. ASSUME NEW d \in Requests, Send(d) PROVE accepted'[k] = accepted[k]
      <3>1. \/ accepted' = accepted
            \/ \E r \in Named(todo[d]) : accepted' = [accepted EXCEPT ![Current(d).key][r] = @ + 1]
        BY <2>1 DEF Send
      <3>2. Current(d).key # k
        BY <1>2, <2>1 DEF Send
      <3> QED
        BY <1>1, <3>1, <3>2
    <2> QED
      BY <2>1 DEF Next, Step, vars, Start, StartPipeline, CreateRows, Scan, CheckPolicy,
             ResolveRecipients, WriteDeliveryLog, MarkOutbox, Throw, Restart, UpdateSettings,
             Tick, ghosts
  <1>5. \A e \in deliveries' \ deliveries : e.key # k
    <2>1. ASSUME NEW d \in Requests, WriteDeliveryLog(d), NEW e \in deliveries' \ deliveries
          PROVE  e.key # k
      BY <1>2, <2>1 DEF WriteDeliveryLog
    <2> QED
      BY <2>1 DEF Next, Step, vars, Start, StartPipeline, CreateRows, Scan, CheckPolicy,
             ResolveRecipients, Send, MarkOutbox, Throw, Restart, UpdateSettings, Tick, db
  <1> QED
    BY <1>3, <1>4, <1>5, BatchStep DEF Quiet

\* However many pipelines overlap and wherever they are cut short: once a row is settled
\* and no pipeline holds it in its snapshot, its status and its attempts stand for ever, and
\* no message is sent and no delivery logged for it again (dispatchPendingNotifications,
\* markOutbox).
THEOREM SettledStaysQuiet ==
    Spec => [][\A k \in Keys : Quiet(k) =>
                  /\ Quiet(k)' /\ outbox'[k] = outbox[k] /\ accepted'[k] = accepted[k]
                  /\ \A e \in deliveries' \ deliveries : e.key # k]_vars
  <1>1. TypeInv /\ [Next]_vars =>
          [\A k \in Keys : Quiet(k) =>
             /\ Quiet(k)' /\ outbox'[k] = outbox[k] /\ accepted'[k] = accepted[k]
             /\ \A e \in deliveries' \ deliveries : e.key # k]_vars
    BY QuietStep
  <1> QED
    BY <1>1, TypeInvariant, PTL DEF Spec
=============================================================================

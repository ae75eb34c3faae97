------------------------- MODULE NotificationOutbox -------------------------
(***************************************************************************)
(* The compliance notification outbox of one tenant and the pipeline that  *)
(* fills and drains it.                                                    *)
(*                                                                         *)
(* There is no background worker: every dashboard request that sees a      *)
(* compliance alert first enqueues its alerts and then drains the outbox   *)
(* (alerts.service.ts), so the pipelines of concurrent requests interleave *)
(* at every await.  A pipeline takes an unlocked snapshot of the due rows  *)
(* and then walks it row by row, writing back by id with no condition.     *)
(* One action below is the code between two awaits that change or read     *)
(* shared state.                                                           *)
(***************************************************************************)
EXTENDS Integers, Sequences, NotificationProvider

CONSTANTS
    Records,        \* compliance records of the tenant
    Keys,           \* the alerts that may arise: pairs of record and event type
    Recipients,     \* destinations the contact directory may resolve to
    Phones,         \* the destinations that are phone numbers, not e-mails
    MaxNamed,       \* bound: how often one list of recipients names a destination
    Requests,       \* dashboard requests whose pipelines may overlap
    MaxAttempts,    \* maxAttempts of a row
    Backoff,        \* delays after the 1st, 2nd, ... failed attempt, in ticks
    BatchLimit,     \* rows taken by one dispatch
    MaxLate,        \* bound: lateness beyond this many ticks is not told apart
    MaxFaults,      \* bound: exceptions, restarts and lost answers
    Deployments,    \* provider configurations the process may be started with
    Policies        \* notification settings the tenant moves between

None == "none"

EventTypes == {"COMPLIANCE_EXPIRED", "COMPLIANCE_EXPIRING_SOON"}

\* A row's idempotency key hashes tenant, event type, record, the constant
\* 'directory' and the date the record was created: for one tenant that is the
\* pair of record and event type.
AllKeys == Records \X EventTypes

Settings == [notificationsEnabled: BOOLEAN, whatsappEnabled: BOOLEAN,
             COMPLIANCE_EXPIRED: BOOLEAN, COMPLIANCE_EXPIRING_SOON: BOOLEAN]

ASSUME ConstantsAssumption ==
    /\ Keys \subseteq AllKeys
    /\ None \notin Recipients
    /\ Phones \subseteq Recipients
    /\ MaxNamed \in Nat \ {0}
    /\ MaxAttempts \in Nat \ {0}
    /\ Backoff \in Seq(Nat) /\ Backoff # <<>>
    /\ BatchLimit \in Nat \ {0}
    /\ MaxLate \in Nat
    /\ MaxFaults \in Nat
    /\ Deployments \subseteq {c \in Configs : Bootable(c)}
    /\ Policies \subseteq Settings

Skips == {"SKIPPED_DISABLED", "SKIPPED_NOT_CONFIGURED", "SKIPPED_NO_RECIPIENTS"}
Delivered == {"SENT", "STUBBED"}
Open == {"PENDING", "FAILED_RETRYABLE"}
Settled == Delivered \cup Skips \cup {"FAILED_PERMANENT"}
Statuses == Open \cup Settled
Absent == "ABSENT"      \* no row with that key

VARIABLES
    \* the database
    settings,    \* TenantNotificationSettings (no row reads as all FALSE)
    outbox,      \* NotificationOutbox, by idempotency key
    deliveries,  \* NotificationDelivery rows, ids and timestamps left out
    \* the process
    config,      \* environment the process was started with
    pc,          \* where each request's pipeline stands
    intake,      \* rows about to be created: status by key
    batch,       \* what is left of the snapshot taken by the dispatch
    via,         \* provider resolved for the current row
    todo,        \* how often each recipient of the current row is still to be sent to
    entry,       \* result about to be written to the delivery log
    results,     \* statuses logged for the current row so far
    \* observation only
    accepted,    \* messages the provider accepted, by key and recipient
    sentWhileOff,\* keys sent since notifications were last switched off
    faults       \* exceptions, restarts and lost answers so far

db == <<settings, outbox, deliveries>>
locals == <<intake, batch, via, todo, entry, results>>
ghosts == <<accepted, sentWhileOff, faults>>
vars == <<settings, outbox, deliveries, config, pc, intake, batch, via, todo,
          entry, results, accepted, sentWhileOff, faults>>

\* due is nextAttemptAt minus now, in ticks; zero or less means due.
Row == [status: Statuses \cup {Absent}, attemptCount: Nat, due: Int]
SnapshotRow == [key: Keys, attemptCount: Nat]
Delivery == [key: Keys, attempt: Nat, recipient: Recipients \cup {None}, status: Statuses]
Entry == [recipient: Recipients \cup {None}, status: Statuses]
NoEntry == [recipient |-> None, status |-> "PENDING"]
Stages == {"idle", "enqueue", "scan", "policy", "resolve", "send", "log", "mark"}

TypeOK ==
    /\ settings \in Settings
    /\ outbox \in [Keys -> Row]
    /\ deliveries \subseteq Delivery
    /\ config \in Configs
    /\ pc \in [Requests -> Stages]
    /\ intake \in [Requests -> [Keys -> Statuses \cup {Absent}]]
    /\ batch \in [Requests -> Seq(SnapshotRow)]
    /\ via \in [Requests -> {None, "dev_stub", "meta_cloud_api"}]
    /\ todo \in [Requests -> [Recipients -> 0..MaxNamed]]
    /\ entry \in [Requests -> Entry]
    /\ results \in [Requests -> SUBSET Statuses]
    /\ accepted \in [Keys -> [Recipients -> Nat]]
    /\ sentWhileOff \in [Requests -> SUBSET Keys]
    /\ faults \in Nat

----------------------------------------------------------------------------
NothingToCreate == [k \in Keys |-> Absent]
Nobody == [r \in Recipients |-> 0]

\* The destinations a list of recipients names, once or several times.
Named(list) == {r \in Recipients : list[r] > 0}

Init ==
    /\ settings \in Policies
    /\ outbox = [k \in Keys |-> [status |-> Absent, attemptCount |-> 0, due |-> 0]]
    /\ deliveries = {}
    /\ config \in Deployments
    /\ pc = [d \in Requests |-> "idle"]
    /\ intake = [d \in Requests |-> NothingToCreate]
    /\ batch = [d \in Requests |-> <<>>]
    /\ via = [d \in Requests |-> None]
    /\ todo = [d \in Requests |-> Nobody]
    /\ entry = [d \in Requests |-> NoEntry]
    /\ results = [d \in Requests |-> {}]
    /\ accepted = [k \in Keys |-> [r \in Recipients |-> 0]]
    /\ sentWhileOff = [d \in Requests |-> {}]
    /\ faults = 0

\* eventEnabled and the status a new row is given.
EventEnabled(event) == settings.notificationsEnabled /\ settings[event]

InitialStatus(k) ==
    IF ~EventEnabled(k[2]) THEN "SKIPPED_DISABLED"
    ELSE IF ~settings.whatsappEnabled THEN "SKIPPED_NOT_CONFIGURED"
    ELSE "PENDING"

\* A dashboard request whose alerts, within the viewer's scope, hold the
\* candidates C starts its pipeline and reads the settings.  With no candidate
\* the pipeline, dispatch included, does not run.
StartPipeline(d, C) ==
    /\ pc[d] = "idle"
    /\ C # {}
    /\ intake' = [intake EXCEPT ![d] = [k \in Keys |-> IF k \in C THEN InitialStatus(k) ELSE Absent]]
    /\ pc' = [pc EXCEPT ![d] = "enqueue"]
    /\ UNCHANGED <<db, config, batch, via, todo, entry, results, ghosts>>

\* Mutation: createMany replaces the row a key already has.
CreateRowsOverwriting(d) ==
    /\ pc[d] = "enqueue"
    /\ outbox' = [k \in Keys |->
                    IF intake[d][k] # Absent
                    THEN [status |-> intake[d][k], attemptCount |-> 0, due |-> 0]
                    ELSE outbox[k]]
    /\ intake' = [intake EXCEPT ![d] = NothingToCreate]
    /\ pc' = [pc EXCEPT ![d] = "scan"]
    /\ UNCHANGED <<settings, deliveries, config, batch, via, todo, entry, results, ghosts>>

\* createMany with skipDuplicates: a key that already has a row is left alone,
\* whatever that row says.
CreateRows(d) ==
    /\ pc[d] = "enqueue"
    /\ outbox' = [k \in Keys |->
                    IF intake[d][k] # Absent /\ outbox[k].status = Absent
                    THEN [status |-> intake[d][k], attemptCount |-> 0, due |-> 0]
                    ELSE outbox[k]]
    /\ intake' = [intake EXCEPT ![d] = NothingToCreate]
    /\ pc' = [pc EXCEPT ![d] = "scan"]
    /\ UNCHANGED <<settings, deliveries, config, batch, via, todo, entry, results, ghosts>>

----------------------------------------------------------------------------
DueKeys == {k \in Keys : outbox[k].status \in Open /\ outbox[k].due <= 0}

\* The order findMany returns the first n due rows in: most overdue first.
\* Rows created by one statement tie, and a tie is broken either way.
ScanOrders(n) ==
    {s \in [1..n -> DueKeys] :
        /\ \A i, j \in 1..n : i < j => s[i] # s[j] /\ outbox[s[i]].due <= outbox[s[j]].due
        /\ \A k \in DueKeys :
              \/ \E i \in 1..n : s[i] = k
              \/ n = BatchLimit /\ \A i \in 1..n : outbox[s[i]].due <= outbox[k].due}

\* The snapshot: no row is claimed or locked.
Snapshot(n, s) == [i \in 1..n |-> [key |-> s[i], attemptCount |-> outbox[s[i]].attemptCount]]

Scan(d) ==
    /\ pc[d] = "scan"
    /\ \E n \in 0..BatchLimit : \E s \in ScanOrders(n) :
         /\ batch' = [batch EXCEPT ![d] = Snapshot(n, s)]
         /\ pc' = [pc EXCEPT ![d] = IF n = 0 THEN "idle" ELSE "policy"]
    /\ UNCHANGED <<db, config, intake, via, todo, entry, results, ghosts>>

Current(d) == Head(batch[d])

\* Mutation: attempts counted down.
AttemptNumberDown(d) == Current(d).attemptCount - 1

AttemptNumber(d) == Current(d).attemptCount + 1

\* Mutation: a provider that is not available is not noticed.
SkipReasonNoProvider(s) ==
    IF ~s.notificationsEnabled THEN "SKIPPED_DISABLED"
    ELSE IF ~s.whatsappEnabled THEN "SKIPPED_NOT_CONFIGURED"
    ELSE None

SkipReason(s) ==
    IF ~s.notificationsEnabled THEN "SKIPPED_DISABLED"
    ELSE IF ~s.whatsappEnabled \/ ResolveProvider(config) = None THEN "SKIPPED_NOT_CONFIGURED"
    ELSE None

\* Settings are read afresh for every row (the per-event switches are not), and
\* the provider resolved with them.
CheckPolicy(d) ==
    /\ pc[d] = "policy"
    /\ \/ /\ SkipReason(settings) # None
          /\ entry' = [entry EXCEPT ![d] = [recipient |-> None, status |-> SkipReason(settings)]]
          /\ pc' = [pc EXCEPT ![d] = "log"]
          /\ UNCHANGED via
       \/ /\ SkipReason(settings) = None
          /\ via' = [via EXCEPT ![d] = ResolveProvider(config)]
          /\ pc' = [pc EXCEPT ![d] = "resolve"]
          /\ UNCHANGED entry
    /\ UNCHANGED <<db, config, intake, batch, todo, results, ghosts>>

\* The contact directory and the custom recipients are edited at any time, so one
\* read of them may give any list of destinations.  Contacts and users are
\* listed once each; custom recipients as the tenant typed them, so that two
\* of them may come to the same destination, and nobody removes the second.
ResolveRecipients(d) ==
    /\ pc[d] = "resolve"
    /\ \E list \in [Recipients -> 0..MaxNamed] :
         \/ /\ Named(list) = {}
            /\ entry' = [entry EXCEPT ![d] = [recipient |-> None, status |-> "SKIPPED_NO_RECIPIENTS"]]
            /\ pc' = [pc EXCEPT ![d] = "log"]
            /\ UNCHANGED todo
         \/ /\ Named(list) # {}
            /\ todo' = [todo EXCEPT ![d] = list]
            /\ pc' = [pc EXCEPT ![d] = "send"]
            /\ UNCHANGED entry
    /\ UNCHANGED <<db, config, intake, batch, via, results, ghosts>>

SwitchedOff(s) == ~s.notificationsEnabled \/ ~s.whatsappEnabled

\* One message to one element of the current row's list.  An answer lost on its way
\* back is a transport failure to the caller, although the provider took the
\* message.
Send(d) ==
    /\ pc[d] = "send"
    /\ \E r \in Named(todo[d]) : \E s \in SendResults(via[d], r \in Phones) : \E lost \in BOOLEAN :
         /\ lost => s = "FAILED_RETRYABLE" /\ faults < MaxFaults
         /\ entry' = [entry EXCEPT ![d] = [recipient |-> r, status |-> s]]
         /\ todo' = [todo EXCEPT ![d][r] = @ - 1]
         /\ accepted' = IF s \in Delivered \/ lost
                        THEN [accepted EXCEPT ![Current(d).key][r] = @ + 1]
                        ELSE accepted
         /\ faults' = IF lost THEN faults + 1 ELSE faults
    /\ sentWhileOff' = IF SwitchedOff(settings)
                       THEN [sentWhileOff EXCEPT ![d] = @ \cup {Current(d).key}]
                       ELSE sentWhileOff
    /\ pc' = [pc EXCEPT ![d] = "log"]
    /\ UNCHANGED <<db, config, intake, batch, via, results>>

\* Mutation: the log numbers attempts from zero.
WriteDeliveryLogFromZero(d) ==
    /\ pc[d] = "log"
    /\ deliveries' = deliveries \cup
         {[key |-> Current(d).key, attempt |-> Current(d).attemptCount,
           recipient |-> entry[d].recipient, status |-> entry[d].status]}
    /\ results' = [results EXCEPT ![d] = @ \cup {entry[d].status}]
    /\ entry' = [entry EXCEPT ![d] = NoEntry]
    /\ pc' = [pc EXCEPT ![d] = IF Named(todo[d]) = {} THEN "mark" ELSE "send"]
    /\ UNCHANGED <<settings, outbox, config, intake, batch, via, todo, ghosts>>

\* Mutation: only the last recipient of a row is logged.
WriteDeliveryLogLast(d) ==
    /\ pc[d] = "log"
    /\ deliveries' = IF Named(todo[d]) # {} THEN deliveries ELSE deliveries \cup
         {[key |-> Current(d).key, attempt |-> AttemptNumber(d),
           recipient |-> entry[d].recipient, status |-> entry[d].status]}
    /\ results' = [results EXCEPT ![d] = @ \cup {entry[d].status}]
    /\ entry' = [entry EXCEPT ![d] = NoEntry]
    /\ pc' = [pc EXCEPT ![d] = IF Named(todo[d]) = {} THEN "mark" ELSE "send"]
    /\ UNCHANGED <<settings, outbox, config, intake, batch, via, todo, ghosts>>

\* writeDeliveryLog
WriteDeliveryLog(d) ==
    /\ pc[d] = "log"
    /\ deliveries' = deliveries \cup
         {[key |-> Current(d).key, attempt |-> AttemptNumber(d),
           recipient |-> entry[d].recipient, status |-> entry[d].status]}
    /\ results' = [results EXCEPT ![d] = @ \cup {entry[d].status}]
    /\ entry' = [entry EXCEPT ![d] = NoEntry]
    /\ pc' = [pc EXCEPT ![d] = IF Named(todo[d]) = {} THEN "mark" ELSE "send"]
    /\ UNCHANGED <<settings, outbox, config, intake, batch, via, todo, ghosts>>

\* Mutation: one attempt too many.
FinalStatusOneMore(rs, n) ==
    IF rs \cap Skips # {} THEN CHOOSE s \in Skips : s \in rs
    ELSE IF "SENT" \in rs THEN "SENT"
    ELSE IF "STUBBED" \in rs THEN "STUBBED"
    ELSE IF "FAILED_RETRYABLE" \in rs /\ n <= MaxAttempts THEN "FAILED_RETRYABLE"
    ELSE "FAILED_PERMANENT"

\* Mutation: a retryable failure keeps the row open even beside a success.
FinalStatusRetryFirst(rs, n) ==
    IF rs \cap Skips # {} THEN CHOOSE s \in Skips : s \in rs
    ELSE IF "FAILED_RETRYABLE" \in rs
         THEN IF n < MaxAttempts THEN "FAILED_RETRYABLE" ELSE "FAILED_PERMANENT"
    ELSE IF "SENT" \in rs THEN "SENT"
    ELSE IF "STUBBED" \in rs THEN "STUBBED" ELSE "FAILED_PERMANENT"

\* What the row becomes after attempt n gave these results: a skip as it is;
\* one success settles the row, whatever failed beside it; otherwise one
\* retryable failure keeps the row open until the last attempt.
FinalStatus(rs, n) ==
    IF rs \cap Skips # {} THEN CHOOSE s \in Skips : s \in rs
    ELSE IF "SENT" \in rs THEN "SENT"
    ELSE IF "STUBBED" \in rs THEN "STUBBED"
    ELSE IF "FAILED_RETRYABLE" \in rs /\ n < MaxAttempts THEN "FAILED_RETRYABLE"
    ELSE "FAILED_PERMANENT"

BackoffDelay(n) == Backoff[IF n <= Len(Backoff) THEN n ELSE Len(Backoff)]

\* Mutation: the policy is checked for the first row of the batch only.
MarkOutboxNoRecheck(d) ==
    LET n == AttemptNumber(d)
        s == FinalStatus(results[d], n)
    IN  /\ pc[d] = "mark"
        /\ outbox' = [outbox EXCEPT ![Current(d).key] =
                        [status |-> s, attemptCount |-> n,
                         due |-> IF s = "FAILED_RETRYABLE" THEN BackoffDelay(n) ELSE @.due]]
        /\ batch' = [batch EXCEPT ![d] = Tail(@)]
        /\ pc' = [pc EXCEPT ![d] = IF Tail(batch[d]) = <<>> THEN "idle"
                                   ELSE IF via[d] = None THEN "policy" ELSE "resolve"]
        /\ results' = [results EXCEPT ![d] = {}]
        /\ UNCHANGED <<settings, deliveries, config, intake, via, todo, entry, ghosts>>

\* Mutation: the attempt is not written back.
MarkOutboxUncounted(d) ==
    LET n == AttemptNumber(d)
        s == FinalStatus(results[d], n)
    IN  /\ pc[d] = "mark"
        /\ outbox' = [outbox EXCEPT ![Current(d).key] =
                        [@ EXCEPT !.status = s,
                                  !.due = IF s = "FAILED_RETRYABLE" THEN BackoffDelay(n) ELSE @]]
        /\ batch' = [batch EXCEPT ![d] = Tail(@)]
        /\ pc' = [pc EXCEPT ![d] = IF Tail(batch[d]) = <<>> THEN "idle" ELSE "policy"]
        /\ via' = [via EXCEPT ![d] = None]
        /\ results' = [results EXCEPT ![d] = {}]
        /\ UNCHANGED <<settings, deliveries, config, intake, todo, entry, ghosts>>

\* markOutbox: by id, whatever the row says by now.
MarkOutbox(d) ==
    LET n == AttemptNumber(d)
        s == FinalStatus(results[d], n)
    IN  /\ pc[d] = "mark"
        /\ outbox' = [outbox EXCEPT ![Current(d).key] =
                        [status |-> s, attemptCount |-> n,
                         due |-> IF s = "FAILED_RETRYABLE" THEN BackoffDelay(n) ELSE @.due]]
        /\ batch' = [batch EXCEPT ![d] = Tail(@)]
        /\ pc' = [pc EXCEPT ![d] = IF Tail(batch[d]) = <<>> THEN "idle" ELSE "policy"]
        /\ via' = [via EXCEPT ![d] = None]
        /\ results' = [results EXCEPT ![d] = {}]
        /\ UNCHANGED <<settings, deliveries, config, intake, todo, entry, ghosts>>

----------------------------------------------------------------------------
\* What an interrupted pipeline leaves behind: nothing but what it wrote.
Forget(D) ==
    /\ pc' = [d \in Requests |-> IF d \in D THEN "idle" ELSE pc[d]]
    /\ intake' = [d \in Requests |-> IF d \in D THEN NothingToCreate ELSE intake[d]]
    /\ batch' = [d \in Requests |-> IF d \in D THEN <<>> ELSE batch[d]]
    /\ via' = [d \in Requests |-> IF d \in D THEN None ELSE via[d]]
    /\ todo' = [d \in Requests |-> IF d \in D THEN Nobody ELSE todo[d]]
    /\ entry' = [d \in Requests |-> IF d \in D THEN NoEntry ELSE entry[d]]
    /\ results' = [d \in Requests |-> IF d \in D THEN {} ELSE results[d]]

\* An exception from any await ends this request's pipeline; the dashboard
\* swallows it.
Throw(d) ==
    /\ pc[d] # "idle"
    /\ faults < MaxFaults
    /\ faults' = faults + 1
    /\ Forget({d})
    /\ UNCHANGED <<db, config, accepted, sentWhileOff>>

\* The process dies with every pipeline in it and comes back, perhaps with
\* another configuration.
Restart ==
    /\ faults < MaxFaults
    /\ faults' = faults + 1
    /\ config' \in Deployments
    /\ Forget(Requests)
    /\ UNCHANGED <<db, accepted, sentWhileOff>>

\* The tenant edits its notification settings.
UpdateSettings ==
    /\ settings' \in Policies \ {settings}
    /\ sentWhileOff' = IF SwitchedOff(settings') /\ ~SwitchedOff(settings)
                       THEN [d \in Requests |-> {}] ELSE sentWhileOff
    /\ UNCHANGED <<outbox, deliveries, config, pc, locals, accepted, faults>>

\* Time passes; how late a row is matters only for the order of a scan.
Tick ==
    /\ \E k \in Keys : outbox[k].status \in Open /\ outbox[k].due > -MaxLate
    /\ outbox' = [k \in Keys |->
                    IF outbox[k].status \in Open /\ outbox[k].due > -MaxLate
                    THEN [outbox[k] EXCEPT !.due = @ - 1] ELSE outbox[k]]
    /\ UNCHANGED <<settings, deliveries, config, pc, locals, ghosts>>

Step(d) ==
    \/ CreateRows(d) \/ Scan(d) \/ CheckPolicy(d) \/ ResolveRecipients(d)
    \/ Send(d) \/ WriteDeliveryLog(d) \/ MarkOutbox(d)

Start(d) == \E C \in SUBSET Keys : StartPipeline(d, C)

Next ==
    \/ \E d \in Requests : Start(d) \/ Step(d) \/ Throw(d)
    \/ Restart
    \/ UpdateSettings
    \/ Tick

Spec == Init /\ [][Next]_vars

\* Every await is answered or throws, time passes, and dashboards with at least
\* one compliance alert keep being opened: the code drains the outbox at no
\* other time.  Throw, Restart and UpdateSettings are never forced.
Fairness ==
    /\ \A d \in Requests : WF_vars(Step(d)) /\ WF_vars(Start(d))
    /\ WF_vars(Tick)

FairSpec == Spec /\ Fairness

----------------------------------------------------------------------------
(***************************************************************************)
(* Safety.                                                                 *)
(***************************************************************************)

\* A pipeline past the scan stands on a row of its snapshot, one that will call
\* a provider has one, and between rows nothing is left over from the last: no
\* null is dereferenced and no result of one row is charged to the next.
StageAt(d) ==
    /\ pc[d] \in {"policy", "resolve", "send", "log", "mark"} => batch[d] # <<>>
    /\ pc[d] \in {"resolve", "send"} \/ Named(todo[d]) # {} => via[d] # None
    /\ pc[d] = "send" => Named(todo[d]) # {}
    /\ pc[d] \in {"idle", "enqueue", "scan", "policy", "resolve"} =>
          Named(todo[d]) = {} /\ results[d] = {}
    /\ pc[d] = "mark" => results[d] # {} /\ Named(todo[d]) = {}

StageOK == \A d \in Requests : StageAt(d)

\* However pipelines overlap, a row waiting for a retry has an attempt left, no
\* attempt is numbered beyond the limit, and a row still PENDING was never
\* attempted.  (A stale snapshot may lower the count, never raise it past the
\* limit.)
RetryBudget ==
    \A k \in Keys :
        /\ outbox[k].attemptCount <= MaxAttempts
        /\ outbox[k].status = "FAILED_RETRYABLE" => outbox[k].attemptCount \in 1..(MaxAttempts - 1)
        /\ outbox[k].status = "PENDING" => outbox[k].attemptCount = 0

Evidence(s, n) ==
    IF s = "FAILED_PERMANENT" /\ n = MaxAttempts THEN {"FAILED_PERMANENT", "FAILED_RETRYABLE"}
    ELSE {s}

\* The outbox never claims what the delivery log does not show: a row that
\* counts attempts has, under its last attempt number, a log entry that
\* justifies its status -- a successful send for SENT, a retryable failure for
\* a row kept open, and so on -- whoever wrote the row last.
LogBacksOutbox ==
    \A k \in Keys : outbox[k].attemptCount > 0 =>
        \E e \in deliveries :
            /\ e.key = k
            /\ e.attempt = outbox[k].attemptCount
            /\ e.status \in Evidence(outbox[k].status, e.attempt)

InFlight(d, k, r) ==
    /\ pc[d] = "log" /\ Current(d).key = k
    /\ entry[d].recipient = r /\ entry[d].status \in Delivered

\* Unless a fault came between, a message the provider accepted is in the
\* delivery log or about to be.
AcceptedIsLogged ==
    faults = 0 =>
        \A k \in Keys, r \in Recipients : accepted[k][r] > 0 =>
            \/ \E d \in Requests : InFlight(d, k, r)
            \/ \E e \in deliveries : e.key = k /\ e.recipient = r /\ e.status \in Delivered

\* Switching notifications off takes effect within a batch: since then a
\* pipeline has sent at most the row it had already passed through the policy
\* check.
DisableStopsBatch ==
    SwitchedOff(settings) =>
        \A d \in Requests : \A k, l \in sentWhileOff[d] : k = l

\* One pipeline at a time: a row is sent through its list once.  A recipient gets
\* an alert as often as the list names it, and the whole list is gone through
\* again only if a fault struck between a send and the write-back of the row,
\* once per fault.  (Checked with one request; overlapping requests break it, see
\* NoDuplicateSends.)
OneListPerFault ==
    \A k \in Keys, r \in Recipients : accepted[k][r] <= MaxNamed * (1 + faults)

\* "prevents duplicate sends via deterministic idempotency keys"
\* (apps/api/test/compliance-notifications.test.ts:202)
NoDuplicateSends ==
    \A k \in Keys, r \in Recipients : accepted[k][r] <= 1

(***************************************************************************)
(* Action properties.                                                      *)
(***************************************************************************)

\* The idempotency key does make enqueueing idempotent, even for overlapping
\* requests: a row, once born, is never born again -- it does not go back to
\* ABSENT or PENDING, and its attempt count never returns to zero.
BornOnce ==
    [][\A k \in Keys : outbox[k].status # Absent =>
          /\ outbox'[k].status # Absent
          /\ outbox'[k].status = "PENDING" => outbox[k].status = "PENDING"
          /\ outbox[k].attemptCount > 0 => outbox'[k].attemptCount > 0]_vars

(***************************************************************************)
(* Liveness, under FairSpec.                                               *)
(***************************************************************************)

\* No row stays open for ever: it is sent, skipped or given up on.
EveryRowSettles ==
    \A k \in Keys : outbox[k].status \in Open ~> outbox[k].status \in Settled

(***************************************************************************)
(* Refinement: with one pipeline at a time the outbox keeps the promise of *)
(* NotificationPromise.                                                    *)
(***************************************************************************)
Promise == INSTANCE NotificationPromise WITH
    status <- [k \in Keys |-> outbox[k].status],
    attempts <- [k \in Keys |-> outbox[k].attemptCount]

KeepsPromise == Promise!PromiseSpec
=============================================================================

------------------------ MODULE NotificationPromise ------------------------
(***************************************************************************)
(* What the outbox promises, said without pipelines, snapshots or logs:    *)
(* every alert is registered at most once, each attempt is counted exactly *)
(* once, and an outcome, once reached, is final.                           *)
(***************************************************************************)
EXTENDS Integers

CONSTANTS Keys, MaxAttempts, Open, Settled, Absent

VARIABLES status, attempts

pvars == <<status, attempts>>

PromiseInit ==
    /\ status = [k \in Keys |-> Absent]
    /\ attempts = [k \in Keys |-> 0]

\* Alerts seen for the first time are registered, waiting or skipped by policy.
Register ==
    /\ \E C \in SUBSET {k \in Keys : status[k] = Absent} :
       \E born \in [C -> {"PENDING", "SKIPPED_DISABLED", "SKIPPED_NOT_CONFIGURED"}] :
         status' = [k \in Keys |-> IF k \in C THEN born[k] ELSE status[k]]
    /\ attempts' = attempts

\* One attempt at one open alert settles it or, while attempts remain, leaves
\* it open.
Attempt(k) ==
    /\ status[k] \in Open
    /\ attempts' = [attempts EXCEPT ![k] = @ + 1]
    /\ \E s \in Settled \cup {"FAILED_RETRYABLE"} :
         /\ s = "FAILED_RETRYABLE" => attempts[k] + 1 < MaxAttempts
         /\ status' = [status EXCEPT ![k] = s]

PromiseNext == Register \/ \E k \in Keys : Attempt(k)

PromiseSpec == PromiseInit /\ [][PromiseNext]_pvars
=============================================================================

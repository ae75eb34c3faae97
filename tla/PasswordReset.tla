---------------------------- MODULE PasswordReset ----------------------------
(***************************************************************************)
(* Password resets of one tenant: users ask for a reset, managers review   *)
(* the request or reset an account directly, users sign in and change      *)
(* their password.                                                         *)
(*                                                                         *)
(* Approving, rejecting and changing a password read and check first and   *)
(* write later, unconditionally, at READ COMMITTED; what one request read  *)
(* may be stale when it writes.  The transactions that touch an account    *)
(* all begin by updating its users row, so the writes of one are atomic to *)
(* the others: an action that ends in Commit is such a transaction's       *)
(* writes, the action before it what was read and checked.  The copies of  *)
(* the hash in UserAuth and Driver are written in the same transactions    *)
(* and never read to sign in: they are left out.                           *)
(***************************************************************************)
EXTENDS Integers

CONSTANTS
    Users,
    Identifiers,    \* what may be typed into the forgotten-password form
    Account,        \* the user each identifier names, if any
    Requests,       \* bound: reset requests ever made
    Managers,       \* review transactions that may be in flight together
    Clients,        \* sign-ins and password changes that may be in flight together
    Temps,          \* bound: temporary passwords ever handed out, all different
    Chosen          \* passwords users choose for themselves

None == "none"

Passwords == Temps \cup Chosen

ASSUME AccountsAssumption ==
    /\ None \notin Users \cup Identifiers \cup Requests \cup Passwords
    /\ Account \in [Identifiers -> Users \cup {None}]
    /\ Temps \cap Chosen = {}

VARIABLES
    \* the database
    password,   \* users.password_hash
    force,      \* user_auth.force_password_change (no row reads as FALSE)
    active,     \* users.is_active
    requests,   \* password_reset_requests
    \* in flight
    review,     \* what each manager's transaction has read
    client,     \* what each sign-in or password change has read
    sessions,   \* access tokens not yet expired
    \* observation only
    spent,      \* temporary passwords generated so far
    kept,       \* temporary passwords a user re-entered as their own
    shared      \* requests two reviews have had in hand at the same time

accounts == <<password, force, active>>
vars == <<password, force, active, requests, review, client, sessions, spent, kept,
          shared>>

Decided == {"APPROVED", "REJECTED", "COMPLETED"}
RequestStatus == {"ABSENT", "PENDING"} \cup Decided

Request == [status: RequestStatus, identifier: Identifiers \cup {None}, user: Users \cup {None}]
Review == [stage: {"idle", "approve", "reject"}, request: Requests \cup {None},
           target: Users \cup {None}, temp: Temps \cup {None}]
Client == [stage: {"idle", "login", "change"}, user: Users \cup {None},
           password: Passwords \cup {None}]
\* via is the password the session was opened with, force the claim in its token.
Session == [user: Users, via: Passwords, force: BOOLEAN]

NoReview == [stage |-> "idle", request |-> None, target |-> None, temp |-> None]
NoClient == [stage |-> "idle", user |-> None, password |-> None]

TypeOK ==
    /\ password \in [Users -> Passwords]
    /\ force \in [Users -> BOOLEAN]
    /\ active \in [Users -> BOOLEAN]
    /\ requests \in [Requests -> Request]
    /\ review \in [Managers -> Review]
    /\ client \in [Clients -> Client]
    /\ sessions \subseteq Session
    /\ spent \subseteq Temps
    /\ kept \subseteq Temps
    /\ shared \subseteq Requests

Init ==
    /\ password \in [Users -> Chosen]
    /\ force = [u \in Users |-> FALSE]
    /\ active = [u \in Users |-> TRUE]
    /\ requests = [q \in Requests |-> [status |-> "ABSENT", identifier |-> None, user |-> None]]
    /\ review = [m \in Managers |-> NoReview]
    /\ client = [c \in Clients |-> NoClient]
    /\ sessions = {}
    /\ spent = {}
    /\ kept = {}
    /\ shared = {}

----------------------------------------------------------------------------
ActiveAccount(i) == IF Account[i] # None /\ active[Account[i]] THEN Account[i] ELSE None

\* requestTenantPasswordReset: a request is created for whatever was typed.
AskForReset(i) ==
    /\ \E q \in Requests :
         /\ requests[q].status = "ABSENT"
         /\ requests' = [requests EXCEPT ![q] =
                [status |-> "PENDING", identifier |-> i, user |-> ActiveAccount(i)]]
    /\ UNCHANGED <<accounts, review, client, sessions, spent, kept, shared>>

\* Mutation: an unmatched request is taken to name the user by id.
TargetByName(q) == IF requests[q].user # None THEN requests[q].user ELSE requests[q].identifier

\* The account an approval resets: the one matched when the request was made,
\* or an active one its identifier matches now.
Target(q) == IF requests[q].user # None THEN requests[q].user ELSE ActiveAccount(requests[q].identifier)

\* A second review of a request begins while another has it in hand.
SharedBy(m, q) ==
    IF \E n \in Managers \ {m} : review[n].stage # "idle" /\ review[n].request = q
    THEN shared \cup {q} ELSE shared

\* Mutation: the status of the request is not looked at.
BeginApproveAny(m, q) ==
    /\ review[m].stage = "idle"
    /\ requests[q].status # "ABSENT"
    /\ Target(q) # None
    /\ \E t \in Temps \ spent :
         /\ review' = [review EXCEPT ![m] =
                [stage |-> "approve", request |-> q, target |-> Target(q), temp |-> t]]
         /\ spent' = spent \cup {t}
    /\ shared' = SharedBy(m, q)
    /\ UNCHANGED <<accounts, requests, client, sessions, kept>>

\* approvePasswordResetRequest up to its first write: the temporary password is
\* generated, the request read and found PENDING, its account resolved.
BeginApprove(m, q) ==
    /\ review[m].stage = "idle"
    /\ requests[q].status = "PENDING"
    /\ Target(q) # None
    /\ \E t \in Temps \ spent :
         /\ review' = [review EXCEPT ![m] =
                [stage |-> "approve", request |-> q, target |-> Target(q), temp |-> t]]
         /\ spent' = spent \cup {t}
    /\ shared' = SharedBy(m, q)
    /\ UNCHANGED <<accounts, requests, client, sessions, kept>>

\* Mutation: the account found for an unmatched request is not recorded in it.
CommitApproveUnlinked(m) ==
    LET r == review[m]
    IN  /\ r.stage = "approve"
        /\ password' = [password EXCEPT ![r.target] = r.temp]
        /\ force' = [force EXCEPT ![r.target] = TRUE]
        /\ requests' = [requests EXCEPT ![r.request].status = "APPROVED"]
        /\ review' = [review EXCEPT ![m] = NoReview]
        /\ UNCHANGED <<active, client, sessions, spent, kept, shared>>

\* Mutation: the flag is set only when the user_auth row is created.
CommitApproveNoFlag(m) ==
    LET r == review[m]
    IN  /\ r.stage = "approve"
        /\ password' = [password EXCEPT ![r.target] = r.temp]
        /\ requests' = [requests EXCEPT ![r.request].status = "APPROVED",
                                        ![r.request].user = r.target]
        /\ review' = [review EXCEPT ![m] = NoReview]
        /\ UNCHANGED <<force, active, client, sessions, spent, kept, shared>>

\* ... and its writes.
CommitApprove(m) ==
    LET r == review[m]
    IN  /\ r.stage = "approve"
        /\ password' = [password EXCEPT ![r.target] = r.temp]
        /\ force' = [force EXCEPT ![r.target] = TRUE]
        /\ requests' = [requests EXCEPT ![r.request].status = "APPROVED",
                                        ![r.request].user = r.target]
        /\ review' = [review EXCEPT ![m] = NoReview]
        /\ UNCHANGED <<active, client, sessions, spent, kept, shared>>

\* rejectPasswordResetRequest, likewise in two steps.
BeginReject(m, q) ==
    /\ review[m].stage = "idle"
    /\ requests[q].status = "PENDING"
    /\ review' = [review EXCEPT ![m] = [NoReview EXCEPT !.stage = "reject", !.request = q]]
    /\ shared' = SharedBy(m, q)
    /\ UNCHANGED <<accounts, requests, client, sessions, spent, kept>>

CommitReject(m) ==
    /\ review[m].stage = "reject"
    /\ requests' = [requests EXCEPT ![review[m].request].status = "REJECTED"]
    /\ review' = [review EXCEPT ![m] = NoReview]
    /\ UNCHANGED <<accounts, client, sessions, spent, kept, shared>>

\* A manager resets a user from the user list, or platform support does, with a
\* password typed for the purpose: the transaction depends on nothing read
\* before it.
ResetDirectly(u) ==
    /\ \E t \in Temps \ spent :
         /\ password' = [password EXCEPT ![u] = t]
         /\ spent' = spent \cup {t}
    /\ force' = [force EXCEPT ![u] = TRUE]
    /\ UNCHANGED <<active, requests, review, client, sessions, kept, shared>>

ToggleActive(u) ==
    /\ active' = [active EXCEPT ![u] = ~@]
    /\ UNCHANGED <<password, force, requests, review, client, sessions, spent, kept, shared>>

----------------------------------------------------------------------------
\* loginTenantStaff reads the users row and verifies the password against it ...
BeginLogin(c, u) ==
    /\ client[c].stage = "idle"
    /\ active[u]
    /\ client' = [client EXCEPT ![c] = [stage |-> "login", user |-> u, password |-> password[u]]]
    /\ UNCHANGED <<accounts, requests, review, sessions, spent, kept, shared>>

\* ... then reads the flag, and the token carries what it read.
FinishLogin(c) ==
    /\ client[c].stage = "login"
    /\ sessions' = sessions \cup
         {[user |-> client[c].user, via |-> client[c].password, force |-> force[client[c].user]]}
    /\ client' = [client EXCEPT ![c] = NoClient]
    /\ UNCHANGED <<accounts, requests, review, spent, kept, shared>>

\* changeTenantStaffPassword verifies the current password before it opens its
\* transaction ...
BeginChange(c, u) ==
    /\ client[c].stage = "idle"
    /\ active[u]
    /\ \E s \in sessions : s.user = u
    /\ client' = [client EXCEPT ![c] = [stage |-> "change", user |-> u, password |-> password[u]]]
    /\ UNCHANGED <<accounts, requests, review, sessions, spent, kept, shared>>

\* Mutation: the new token is answered although the transaction was rolled back.
CommitChangeRolledBack(c) ==
    LET u == client[c].user
    IN  /\ client[c].stage = "change"
        /\ sessions' = sessions \cup {[user |-> u, via |-> client[c].password, force |-> FALSE]}
        /\ client' = [client EXCEPT ![c] = NoClient]
        /\ UNCHANGED <<accounts, requests, review, spent, kept, shared>>

\* ... which overwrites whatever the account holds by then.  Nothing keeps the
\* user from entering the same password again.
CommitChange(c) ==
    LET u == client[c].user
        verified == client[c].password
    IN  /\ client[c].stage = "change"
        /\ \E new \in Chosen \cup {verified} :
             /\ password' = [password EXCEPT ![u] = new]
             /\ sessions' = sessions \cup {[user |-> u, via |-> new, force |-> FALSE]}
             /\ kept' = kept \cup ({new} \cap Temps)
        /\ force' = [force EXCEPT ![u] = FALSE]
        /\ requests' = [q \in Requests |->
                          IF requests[q].user = u /\ requests[q].status = "APPROVED"
                          THEN [requests[q] EXCEPT !.status = "COMPLETED"] ELSE requests[q]]
        /\ client' = [client EXCEPT ![c] = NoClient]
        /\ UNCHANGED <<active, review, spent, shared>>

Expire(s) ==
    /\ s \in sessions
    /\ sessions' = sessions \ {s}
    /\ UNCHANGED <<accounts, requests, review, client, spent, kept, shared>>

\* A transaction or a request fails between its two steps: nothing is written.
GiveUp ==
    /\ \/ /\ \E m \in Managers : review' = [review EXCEPT ![m] = NoReview]
          /\ UNCHANGED client
       \/ /\ \E c \in Clients : client' = [client EXCEPT ![c] = NoClient]
          /\ UNCHANGED review
    /\ UNCHANGED <<accounts, requests, sessions, spent, kept, shared>>

Manage(m) ==
    \/ \E q \in Requests : BeginApprove(m, q) \/ BeginReject(m, q)
    \/ CommitApprove(m)
    \/ CommitReject(m)

Use(c) ==
    \/ \E u \in Users : BeginLogin(c, u) \/ BeginChange(c, u)
    \/ FinishLogin(c)
    \/ CommitChange(c)

Next ==
    \/ \E i \in Identifiers : AskForReset(i)
    \/ \E m \in Managers : Manage(m)
    \/ \E c \in Clients : Use(c)
    \/ \E u \in Users : ResetDirectly(u) \/ ToggleActive(u)
    \/ \E s \in sessions : Expire(s)
    \/ GiveUp

Spec == Init /\ [][Next]_vars

----------------------------------------------------------------------------
(***************************************************************************)
(* Safety, for any number of managers and clients.                         *)
(***************************************************************************)

\* A request stays APPROVED only while its account still has to change the
\* password: whatever overlaps, no approval is left open behind a user who has
\* already moved on.
ApprovedAwaitsChange ==
    \A q \in Requests : requests[q].status = "APPROVED" =>
        requests[q].user # None /\ force[requests[q].user]

\* An account holding a temporary password its user has not confirmed must
\* change it.
TempForcesChange ==
    \A u \in Users : password[u] \in Temps \ kept => force[u]

\* A session opened with a temporary password is unrestricted only once that
\* password has been replaced, although sign-in reads the password and the flag
\* at different times.
UnrestrictedAfterChange ==
    \A s \in sessions : s.via \in Temps \ kept /\ ~s.force => password[s.user] # s.via

(***************************************************************************)
(* Action properties.                                                      *)
(***************************************************************************)

\* A request no two reviews had in hand together is decided once: approved or
\* rejected while PENDING, completed only after an approval.  One that two had
\* may be decided by both, but it is not open again, and completed only while
\* it is approved.
DecidedOnce ==
    [][\A q \in Requests :
          LET before == requests[q].status
              after == requests'[q].status
          IN  after # before =>
                \/ before = "ABSENT" /\ after = "PENDING"
                \/ before = "PENDING" /\ after \in {"APPROVED", "REJECTED"}
                \/ before = "APPROVED" /\ after = "COMPLETED"
                \/ q \in shared /\ before \in Decided /\ after \in {"APPROVED", "REJECTED"}]_vars

\* "Only pending requests can be approved." / "Only pending requests can be
\* rejected." (password-reset-requests.service.ts:169, 305)
OnlyPendingReviewed ==
    [][\A q \in Requests :
          requests'[q].status \in {"APPROVED", "REJECTED"} /\ requests'[q].status # requests[q].status
              => requests[q].status = "PENDING"]_vars

\* "enforces force_password_change" (apps/api/test/password-reset-flow.test.ts:124):
\* the flag goes down only when the user proves to hold the password it was
\* raised with.
FlagNeedsCurrentPassword ==
    [][\A u \in Users : force[u] /\ ~force'[u] =>
          \E c \in Clients : /\ client[c].user = u /\ client'[c] # client[c]
                             /\ client[c].password = password[u]]_vars
=============================================================================

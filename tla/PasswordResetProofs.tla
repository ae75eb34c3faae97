------------------------- MODULE PasswordResetProofs -------------------------
(***************************************************************************)
(* Proofs about PasswordReset for any number of users, managers and        *)
(* clients.                                                                *)
(***************************************************************************)
EXTENDS PasswordReset, TLAPS

USE AccountsAssumption DEF Decided

----------------------------------------------------------------------------
(* Types.  A review that is under way holds all it is going to write, and so *)
(* does a sign-in or a password change: without this the writes of a Commit  *)
(* step would not keep to the types.                                         *)

ReviewShape(r) ==
    /\ r.stage = "approve" => r.request \in Requests /\ r.target \in Users /\ r.temp \in Temps
    /\ r.stage = "reject" => r.request \in Requests

ClientShape(c) == c.stage # "idle" => c.user \in Users /\ c.password \in Passwords

RequestShape(q) == q.status = "PENDING" => q.identifier \in Identifiers

ShapeOK ==
    /\ \A m \in Managers : ReviewShape(review[m])
    /\ \A c \in Clients : ClientShape(client[c])
    /\ \A q \in Requests : RequestShape(requests[q])

TypeInv == TypeOK /\ ShapeOK

LEMMA TypeInit == Init => TypeInv
  <1> SUFFICES ASSUME Init PROVE TypeInv
    OBVIOUS
  <1>1. NoReview \in Review /\ NoClient \in Client
    BY DEF NoReview, NoClient, Review, Client
  <1>2. [status |-> "ABSENT", identifier |-> None, user |-> None] \in Request
    BY DEF Request, RequestStatus
  <1>3. TypeOK
    BY <1>1, <1>2 DEF Init, TypeOK, Passwords
  <1>4. ShapeOK
    BY DEF Init, ShapeOK, ReviewShape, ClientShape, RequestShape, NoReview, NoClient
  <1> QED
    BY <1>3, <1>4 DEF TypeInv

\* Ending a review or a client request is always well-typed.
LEMMA IdleTypes ==
    /\ NoReview \in Review /\ ReviewShape(NoReview)
    /\ NoClient \in Client /\ ClientShape(NoClient)
  BY DEF NoReview, NoClient, Review, Client, ReviewShape, ClientShape

\* The account found by name is an account or nothing.
LEMMA ActiveAccountType ==
    ASSUME NEW i \in Identifiers
    PROVE  ActiveAccount(i) \in Users \cup {None}
  BY DEF ActiveAccount

\* An approval resolves its request to an account.
LEMMA TargetType ==
    ASSUME TypeInv, NEW q \in Requests, requests[q].status = "PENDING"
    PROVE  Target(q) \in Users \cup {None}
  <1>1. requests[q] \in Request /\ requests[q].identifier \in Identifiers
    BY DEF TypeInv, TypeOK, ShapeOK, RequestShape
  <1>2. CASE requests[q].user # None
    BY <1>1, <1>2 DEF Target, Request
  <1>3. CASE requests[q].user = None
    BY <1>1, <1>3, ActiveAccountType DEF Target
  <1> QED
    BY <1>2, <1>3

LEMMA TypeAsk ==
    ASSUME TypeInv, NEW i \in Identifiers, AskForReset(i)
    PROVE  TypeInv'
  <1>1. PICK q \in Requests : requests' = [requests EXCEPT ![q] =
                [status |-> "PENDING", identifier |-> i, user |-> ActiveAccount(i)]]
    BY DEF AskForReset
  <1>2. [status |-> "PENDING", identifier |-> i, user |-> ActiveAccount(i)] \in Request
    BY ActiveAccountType DEF Request, RequestStatus
  <1>3. requests' \in [Requests -> Request]
    BY <1>1, <1>2 DEF TypeInv, TypeOK
  <1>4. \A p \in Requests : RequestShape(requests'[p])
    BY <1>1 DEF TypeInv, TypeOK, ShapeOK, RequestShape
  <1> QED
    BY <1>3, <1>4 DEF AskForReset, accounts, TypeInv, TypeOK, ShapeOK

LEMMA SharedType ==
    ASSUME TypeInv, NEW m \in Managers, NEW q \in Requests
    PROVE  SharedBy(m, q) \subseteq Requests
  BY DEF SharedBy, TypeInv, TypeOK

LEMMA TypeBeginReview ==
    ASSUME TypeInv, NEW m \in Managers, NEW q \in Requests, BeginApprove(m, q) \/ BeginReject(m, q)
    PROVE  TypeInv'
  <1>1. CASE BeginApprove(m, q)
    <2>1. PICK t \in Temps \ spent :
            /\ review' = [review EXCEPT ![m] =
                  [stage |-> "approve", request |-> q, target |-> Target(q), temp |-> t]]
            /\ spent' = spent \cup {t}
      BY <1>1 DEF BeginApprove
    <2>2. Target(q) \in Users
      BY <1>1, TargetType DEF BeginApprove
    <2> DEFINE r == [stage |-> "approve", request |-> q, target |-> Target(q), temp |-> t]
    <2>3. r \in Review /\ ReviewShape(r)
      BY <2>2 DEF Review, ReviewShape
    <2> HIDE DEF r
    <2>4. review' = [review EXCEPT ![m] = r]
      BY <2>1 DEF r
    <2>5. review' \in [Managers -> Review] /\ \A n \in Managers : ReviewShape(review'[n])
      BY <2>3, <2>4 DEF TypeInv, TypeOK, ShapeOK
    <2> QED
      BY <1>1, <2>1, <2>5, SharedType DEF BeginApprove, accounts, TypeInv, TypeOK, ShapeOK
  <1>2. CASE BeginReject(m, q)
    <2> DEFINE r == [NoReview EXCEPT !.stage = "reject", !.request = q]
    <2>1. r \in Review /\ ReviewShape(r)
      BY DEF NoReview, Review, ReviewShape
    <2>2. review' = [review EXCEPT ![m] = r]
      BY <1>2 DEF BeginReject
    <2> HIDE DEF r
    <2>3. review' \in [Managers -> Review] /\ \A n \in Managers : ReviewShape(review'[n])
      BY <2>1, <2>2 DEF TypeInv, TypeOK, ShapeOK
    <2> QED
      BY <1>2, <2>3, SharedType DEF BeginReject, accounts, TypeInv, TypeOK, ShapeOK
  <1> QED
    BY <1>1, <1>2

\* What an approval writes: the record in full, from one that was there.
LEMMA CommitApproveWrites ==
    ASSUME TypeInv, NEW m \in Managers, CommitApprove(m)
    PROVE  LET r == review[m] IN
           /\ r.request \in Requests /\ r.target \in Users /\ r.temp \in Temps
           /\ password' = [password EXCEPT ![r.target] = r.temp]
           /\ force' = [force EXCEPT ![r.target] = TRUE]
           /\ requests' = [requests EXCEPT ![r.request] =
                 [status |-> "APPROVED", identifier |-> requests[r.request].identifier, user |-> r.target]]
  <1>1. review[m].request \in Requests /\ review[m].target \in Users /\ review[m].temp \in Temps
    BY DEF TypeInv, ShapeOK, ReviewShape, CommitApprove
  <1>2. requests[review[m].request] \in Request
    BY <1>1 DEF TypeInv, TypeOK
  <1>3. requests' = [requests EXCEPT ![review[m].request].status = "APPROVED",
                                     ![review[m].request].user = review[m].target]
    BY DEF CommitApprove
  <1>4. requests' = [requests EXCEPT ![review[m].request] =
            [status |-> "APPROVED", identifier |-> requests[review[m].request].identifier,
             user |-> review[m].target]]
    <2> DEFINE q == review[m].request
               u == review[m].target
    <2>1. q \in Requests /\ requests \in [Requests -> Request] /\ requests[q] \in Request
      BY <1>1, <1>2 DEF TypeInv, TypeOK
    <2>2. requests' = [requests EXCEPT ![q].status = "APPROVED", ![q].user = u]
      BY <1>3
    <2> HIDE DEF q, u
    <2>3. requests' = [requests EXCEPT ![q] =
             [[requests[q] EXCEPT !.status = "APPROVED"] EXCEPT !.user = u]]
      BY <2>1, <2>2
    <2>4. [[requests[q] EXCEPT !.status = "APPROVED"] EXCEPT !.user = u] =
             [status |-> "APPROVED", identifier |-> requests[q].identifier, user |-> u]
      <3>1. PICK s \in RequestStatus, i \in Identifiers \cup {None}, v \in Users \cup {None} :
               requests[q] = [status |-> s, identifier |-> i, user |-> v]
        BY <2>1 DEF Request
      <3>2. [requests[q] EXCEPT !.status = "APPROVED"] = [status |-> "APPROVED", identifier |-> i, user |-> v]
        BY <3>1
      <3>3. requests[q].identifier = i
        BY <3>1
      <3>4. [[status |-> "APPROVED", identifier |-> i, user |-> v] EXCEPT !.user = u] =
               [status |-> "APPROVED", identifier |-> i, user |-> u]
        OBVIOUS
      <3> QED
        BY <3>2, <3>3, <3>4
    <2> QED
      BY <2>3, <2>4 DEF q, u
  <1> QED
    BY <1>1, <1>4 DEF CommitApprove

LEMMA TypeCommitReview ==
    ASSUME TypeInv, NEW m \in Managers, CommitApprove(m) \/ CommitReject(m)
    PROVE  TypeInv'
  <1> DEFINE r == review[m]
  <1>1. review' \in [Managers -> Review] /\ \A n \in Managers : ReviewShape(review'[n])
    BY IdleTypes DEF CommitApprove, CommitReject, TypeInv, TypeOK, ShapeOK
  <1>2. CASE CommitApprove(m)
    <2>1. r.request \in Requests /\ r.target \in Users
      BY <1>2, CommitApproveWrites
    <2>2. requests[r.request] \in Request
      BY <2>1 DEF TypeInv, TypeOK
    <2> DEFINE x == [status |-> "APPROVED", identifier |-> requests[r.request].identifier, user |-> r.target]
    <2>3. x \in Request /\ RequestShape(x)
      BY <2>1, <2>2 DEF Request, RequestStatus, RequestShape
    <2>4. requests' = [requests EXCEPT ![r.request] = x]
      BY <1>2, CommitApproveWrites
    <2>5. password' \in [Users -> Passwords] /\ force' \in [Users -> BOOLEAN]
      BY <1>2, CommitApproveWrites DEF TypeInv, TypeOK, Passwords
    <2> HIDE DEF x, r
    <2>6. requests' \in [Requests -> Request] /\ \A q \in Requests : RequestShape(requests'[q])
      BY <2>3, <2>4 DEF TypeInv, TypeOK, ShapeOK
    <2> QED
      BY <1>1, <1>2, <2>5, <2>6 DEF CommitApprove, TypeInv, TypeOK, ShapeOK
  <1>3. CASE CommitReject(m)
    <2>1. \A q \in Requests : /\ [requests[q] EXCEPT !.status = "REJECTED"] \in Request
                              /\ RequestShape([requests[q] EXCEPT !.status = "REJECTED"])
      <3> SUFFICES ASSUME NEW q \in Requests
                   PROVE  /\ [requests[q] EXCEPT !.status = "REJECTED"] \in Request
                          /\ RequestShape([requests[q] EXCEPT !.status = "REJECTED"])
        OBVIOUS
      <3>1. requests[q] \in Request
        BY DEF TypeInv, TypeOK
      <3> QED
        BY <3>1 DEF Request, RequestStatus, RequestShape
    <2>2. requests' = [requests EXCEPT ![r.request] = [requests[r.request] EXCEPT !.status = "REJECTED"]]
      BY <1>3 DEF CommitReject
    <2> HIDE DEF r
    <2>3. requests' \in [Requests -> Request] /\ \A q \in Requests : RequestShape(requests'[q])
      BY <2>1, <2>2 DEF TypeInv, TypeOK, ShapeOK
    <2> QED
      BY <1>1, <1>3, <2>3 DEF CommitReject, accounts, TypeInv, TypeOK, ShapeOK
  <1> QED
    BY <1>2, <1>3

LEMMA TypeReset ==
    ASSUME TypeInv, NEW u \in Users, ResetDirectly(u)
    PROVE  TypeInv'
  <1>1. PICK t \in Temps \ spent : password' = [password EXCEPT ![u] = t] /\ spent' = spent \cup {t}
    BY DEF ResetDirectly
  <1>2. password' \in [Users -> Passwords] /\ force' \in [Users -> BOOLEAN] /\ spent' \subseteq Temps
    BY <1>1 DEF ResetDirectly, TypeInv, TypeOK, Passwords
  <1> QED
    BY <1>2 DEF ResetDirectly, TypeInv, TypeOK, ShapeOK

LEMMA TypeBeginClient ==
    ASSUME TypeInv, NEW c \in Clients, NEW u \in Users, BeginLogin(c, u) \/ BeginChange(c, u)
    PROVE  TypeInv'
  <1>1. PICK x \in Client : ClientShape(x) /\ client' = [client EXCEPT ![c] = x]
    <2>1. password[u] \in Passwords
      BY DEF TypeInv, TypeOK
    <2>2. CASE BeginLogin(c, u)
      <3> DEFINE x == [stage |-> "login", user |-> u, password |-> password[u]]
      <3>1. x \in Client /\ ClientShape(x)
        BY <2>1 DEF Client, ClientShape
      <3> QED
        BY <2>2, <3>1 DEF BeginLogin
    <2>3. CASE BeginChange(c, u)
      <3> DEFINE x == [stage |-> "change", user |-> u, password |-> password[u]]
      <3>1. x \in Client /\ ClientShape(x)
        BY <2>1 DEF Client, ClientShape
      <3> QED
        BY <2>3, <3>1 DEF BeginChange
    <2> QED
      BY <2>2, <2>3
  <1>2. client' \in [Clients -> Client] /\ \A e \in Clients : ClientShape(client'[e])
    BY <1>1 DEF TypeInv, TypeOK, ShapeOK
  <1> QED
    BY <1>2 DEF BeginLogin, BeginChange, accounts, TypeInv, TypeOK, ShapeOK

LEMMA TypeFinishLogin ==
    ASSUME TypeInv, NEW c \in Clients, FinishLogin(c)
    PROVE  TypeInv'
  <1>1. client[c].user \in Users /\ client[c].password \in Passwords
    BY DEF FinishLogin, TypeInv, ShapeOK, ClientShape
  <1>2. sessions' \subseteq Session
    BY <1>1 DEF FinishLogin, TypeInv, TypeOK, Session
  <1>3. client' \in [Clients -> Client] /\ \A e \in Clients : ClientShape(client'[e])
    BY IdleTypes DEF FinishLogin, TypeInv, TypeOK, ShapeOK
  <1> QED
    BY <1>2, <1>3 DEF FinishLogin, accounts, TypeInv, TypeOK, ShapeOK

LEMMA TypeCommitChange ==
    ASSUME TypeInv, NEW c \in Clients, CommitChange(c)
    PROVE  TypeInv'
  <1> DEFINE u == client[c].user
  <1>1. u \in Users /\ client[c].password \in Passwords
    BY DEF CommitChange, TypeInv, ShapeOK, ClientShape
  <1>2. PICK new \in Chosen \cup {client[c].password} :
             /\ password' = [password EXCEPT ![u] = new]
             /\ sessions' = sessions \cup {[user |-> u, via |-> new, force |-> FALSE]}
             /\ kept' = kept \cup ({new} \cap Temps)
    BY DEF CommitChange
  <1>3. new \in Passwords
    BY <1>1 DEF Passwords
  <1>4. password' \in [Users -> Passwords] /\ sessions' \subseteq Session /\ kept' \subseteq Temps
    <2>1. password' \in [Users -> Passwords]
      BY <1>2, <1>3 DEF TypeInv, TypeOK
    <2>2. [user |-> u, via |-> new, force |-> FALSE] \in Session
      BY <1>1, <1>3 DEF Session
    <2> HIDE DEF u
    <2>3. sessions' \subseteq Session
      BY <1>2, <2>2 DEF TypeInv, TypeOK
    <2>4. kept' \subseteq Temps
      BY <1>2 DEF TypeInv, TypeOK
    <2> QED
      BY <2>1, <2>3, <2>4
  <1>5. force' \in [Users -> BOOLEAN]
    BY DEF CommitChange, TypeInv, TypeOK
  <1>6. ASSUME NEW q \in Requests
        PROVE  requests[q] \in Request /\ [requests[q] EXCEPT !.status = "COMPLETED"] \in Request
    <2>1. requests[q] \in Request
      BY DEF TypeInv, TypeOK
    <2> QED
      BY <2>1 DEF Request, RequestStatus
  <1>7. requests' \in [Requests -> Request] /\ \A q \in Requests : RequestShape(requests'[q])
    <2>1. requests' = [q \in Requests |->
                          IF requests[q].user = u /\ requests[q].status = "APPROVED"
                          THEN [requests[q] EXCEPT !.status = "COMPLETED"] ELSE requests[q]]
      BY DEF CommitChange
    <2> HIDE DEF u
    <2>2. requests' \in [Requests -> Request]
      BY <1>6, <2>1
    <2>3. \A q \in Requests : requests'[q] = requests[q] \/ requests'[q].status = "COMPLETED"
      BY <1>6, <2>1 DEF Request
    <2> QED
      BY <2>2, <2>3 DEF TypeInv, ShapeOK, RequestShape
  <1>8. client' \in [Clients -> Client] /\ \A e \in Clients : ClientShape(client'[e])
    BY IdleTypes DEF CommitChange, TypeInv, TypeOK, ShapeOK
  <1> QED
    BY <1>4, <1>5, <1>7, <1>8 DEF CommitChange, TypeInv, TypeOK, ShapeOK

LEMMA TypeOther ==
    ASSUME TypeInv, (\E u \in Users : ToggleActive(u)) \/ (\E s \in sessions : Expire(s)) \/ GiveUp
    PROVE  TypeInv'
  <1>1. CASE \E u \in Users : ToggleActive(u)
    BY <1>1 DEF ToggleActive, TypeInv, TypeOK, ShapeOK
  <1>2. CASE \E s \in sessions : Expire(s)
    BY <1>2 DEF Expire, accounts, TypeInv, TypeOK, ShapeOK
  <1>3. CASE GiveUp
    <2>1. /\ review' \in [Managers -> Review] /\ \A m \in Managers : ReviewShape(review'[m])
          /\ client' \in [Clients -> Client] /\ \A c \in Clients : ClientShape(client'[c])
      BY <1>3, IdleTypes DEF GiveUp, TypeInv, TypeOK, ShapeOK
    <2> QED
      BY <1>3, <2>1 DEF GiveUp, accounts, TypeInv, TypeOK, ShapeOK
  <1> QED
    BY <1>1, <1>2, <1>3

LEMMA TypeStep == TypeInv /\ [Next]_vars => TypeInv'
  <1> SUFFICES ASSUME TypeInv, [Next]_vars PROVE TypeInv'
    OBVIOUS
  <1>1. CASE UNCHANGED vars
    BY <1>1 DEF vars, TypeInv, TypeOK, ShapeOK
  <1>2. CASE Next
    BY <1>2, TypeAsk, TypeBeginReview, TypeCommitReview, TypeReset, TypeBeginClient, TypeFinishLogin,
       TypeCommitChange, TypeOther DEF Next, Manage, Use
  <1> QED
    BY <1>1, <1>2

LEMMA TypeInvariant == Spec => []TypeInv
  BY TypeInit, TypeStep, PTL DEF Spec

\* Every variable keeps to its type, whatever the constants.
THEOREM ResetTypeCorrect == Spec => []TypeOK
  <1>1. TypeInv => TypeOK
    BY DEF TypeInv
  <1> QED
    BY <1>1, TypeInvariant, PTL

----------------------------------------------------------------------------
(* No approval stays open behind a user who has moved on.  The invariant is  *)
(* inductive over the types: an approval raises the flag in the transaction  *)
(* that writes it, and only a password change lowers one, completing every   *)
(* approval of that user.                                                    *)

LEMMA ApprovedStep == TypeInv /\ ApprovedAwaitsChange /\ [Next]_vars => ApprovedAwaitsChange'
  <1> SUFFICES ASSUME TypeInv, ApprovedAwaitsChange, [Next]_vars, NEW q \in Requests,
                      requests'[q].status = "APPROVED"
               PROVE  requests'[q].user # None /\ force'[requests'[q].user]
    BY DEF ApprovedAwaitsChange
  <1>0. requests \in [Requests -> Request] /\ force \in [Users -> BOOLEAN] /\ requests[q] \in Request
    BY DEF TypeInv, TypeOK
  <1>1. CASE \E i \in Identifiers : AskForReset(i)
    BY <1>0, <1>1 DEF AskForReset, accounts, ApprovedAwaitsChange
  <1>2. ASSUME NEW m \in Managers, CommitApprove(m)
        PROVE  requests'[q].user # None /\ force'[requests'[q].user]
    <2> DEFINE r == review[m]
    <2>1. /\ r.request \in Requests /\ r.target \in Users
          /\ force' = [force EXCEPT ![r.target] = TRUE]
          /\ requests' = [requests EXCEPT ![r.request] =
                [status |-> "APPROVED", identifier |-> requests[r.request].identifier, user |-> r.target]]
      BY <1>2, CommitApproveWrites
    <2> HIDE DEF r
    <2>2. CASE q = r.request
      BY <1>0, <2>1, <2>2
    <2>3. CASE q # r.request
      <3>1. requests'[q] = requests[q]
        BY <1>0, <2>1, <2>3
      <3>2. requests[q].user \in Users /\ force[requests[q].user]
        BY <1>0, <3>1 DEF ApprovedAwaitsChange, Request
      <3> QED
        BY <1>0, <2>1, <3>1, <3>2
    <2> QED
      BY <2>2, <2>3
  <1>3. ASSUME NEW m \in Managers, CommitReject(m)
        PROVE  requests'[q].user # None /\ force'[requests'[q].user]
    <2>1. requests'[q] = requests[q]
      BY <1>0, <1>3 DEF CommitReject, Request
    <2> QED
      BY <1>3, <2>1 DEF CommitReject, accounts, ApprovedAwaitsChange
  <1>4. ASSUME NEW u \in Users, ResetDirectly(u)
        PROVE  requests'[q].user # None /\ force'[requests'[q].user]
    <2>1. requests[q].user \in Users /\ force[requests[q].user]
      BY <1>0, <1>4 DEF ResetDirectly, ApprovedAwaitsChange, Request
    <2> QED
      BY <1>0, <1>4, <2>1 DEF ResetDirectly
  <1>5. ASSUME NEW c \in Clients, CommitChange(c)
        PROVE  requests'[q].user # None /\ force'[requests'[q].user]
    <2> DEFINE u == client[c].user
    <2>1. /\ force' = [force EXCEPT ![u] = FALSE]
          /\ requests'[q] = IF requests[q].user = u /\ requests[q].status = "APPROVED"
                            THEN [requests[q] EXCEPT !.status = "COMPLETED"] ELSE requests[q]
      BY <1>5 DEF CommitChange
    <2> HIDE DEF u
    <2>2. requests'[q] = requests[q] /\ requests[q].user # u
      BY <1>0, <2>1 DEF Request
    <2>3. requests[q].user \in Users /\ force[requests[q].user]
      BY <1>0, <2>2 DEF ApprovedAwaitsChange, Request
    <2> QED
      BY <1>0, <2>1, <2>2, <2>3
  <1>6. CASE UNCHANGED <<requests, force>>
    BY <1>6 DEF ApprovedAwaitsChange
  <1>7. ASSUME NEW m \in Managers, NEW p \in Requests, BeginApprove(m, p) \/ BeginReject(m, p)
        PROVE  UNCHANGED <<requests, force>>
    BY <1>7 DEF BeginApprove, BeginReject, accounts
  <1>8. ASSUME NEW c \in Clients, NEW u \in Users, BeginLogin(c, u) \/ BeginChange(c, u)
        PROVE  UNCHANGED <<requests, force>>
    BY <1>8 DEF BeginLogin, BeginChange, accounts
  <1>9. ASSUME NEW c \in Clients, FinishLogin(c) PROVE UNCHANGED <<requests, force>>
    BY <1>9 DEF FinishLogin, accounts
  <1>10. ASSUME NEW u \in Users, ToggleActive(u) PROVE UNCHANGED <<requests, force>>
    BY <1>10 DEF ToggleActive
  <1>11. ASSUME NEW s \in sessions, Expire(s) PROVE UNCHANGED <<requests, force>>
    BY <1>11 DEF Expire, accounts
  <1>12. ASSUME GiveUp PROVE UNCHANGED <<requests, force>>
    BY <1>12 DEF GiveUp, accounts
  <1>13. CASE UNCHANGED vars
    BY <1>6, <1>13 DEF vars
  <1> QED
    BY <1>1, <1>2, <1>3, <1>4, <1>5, <1>6, <1>7, <1>8, <1>9, <1>10, <1>11, <1>12, <1>13
       DEF Next, Manage, Use

\* However reviews, resets and password changes overlap, no approval is left
\* open behind a user who no longer has to change the password.
THEOREM ApprovalsAwaitChange == Spec => []ApprovedAwaitsChange
  <1>1. Init => ApprovedAwaitsChange
    BY DEF Init, ApprovedAwaitsChange
  <1> QED
    BY <1>1, ApprovedStep, TypeInvariant, PTL DEF Spec

----------------------------------------------------------------------------
(* An account holding an unconfirmed temporary password must change it: the  *)
(* flag rises with every temporary password, and falls only with a password  *)
(* its user entered.                                                         *)

LEMMA TempStep == TypeInv /\ TempForcesChange /\ [Next]_vars => TempForcesChange'
  <1> SUFFICES ASSUME TypeInv, TempForcesChange, [Next]_vars, NEW u \in Users,
                      password'[u] \in Temps \ kept'
               PROVE  force'[u]
    BY DEF TempForcesChange
  <1>0. password \in [Users -> Passwords] /\ force \in [Users -> BOOLEAN]
    BY DEF TypeInv, TypeOK
  <1>1. ASSUME NEW m \in Managers, CommitApprove(m) PROVE force'[u]
    BY <1>0, <1>1, CommitApproveWrites DEF CommitApprove, TempForcesChange
  <1>2. ASSUME NEW v \in Users, ResetDirectly(v) PROVE force'[u]
    <2>1. PICK t \in Temps \ spent : password' = [password EXCEPT ![v] = t]
      BY <1>2 DEF ResetDirectly
    <2>2. force' = [force EXCEPT ![v] = TRUE] /\ kept' = kept
      BY <1>2 DEF ResetDirectly
    <2> QED
      BY <1>0, <2>1, <2>2 DEF TempForcesChange
  <1>3. ASSUME NEW c \in Clients, CommitChange(c) PROVE force'[u]
    <2> DEFINE w == client[c].user
    <2>1. PICK new \in Chosen \cup {client[c].password} :
             password' = [password EXCEPT ![w] = new] /\ kept' = kept \cup ({new} \cap Temps)
      BY <1>3 DEF CommitChange
    <2>2. force' = [force EXCEPT ![w] = FALSE]
      BY <1>3 DEF CommitChange
    <2> HIDE DEF w
    <2>3. u # w
      BY <1>0, <2>1
    <2> QED
      BY <1>0, <2>1, <2>2, <2>3 DEF TempForcesChange
  <1>4. CASE UNCHANGED <<password, force, kept>>
    BY <1>4 DEF TempForcesChange
  <1>5. ASSUME NEW i \in Identifiers, AskForReset(i) PROVE UNCHANGED <<password, force, kept>>
    BY <1>5 DEF AskForReset, accounts
  <1>6. ASSUME NEW m \in Managers, NEW p \in Requests,
               BeginApprove(m, p) \/ BeginReject(m, p)
        PROVE  UNCHANGED <<password, force, kept>>
    BY <1>6 DEF BeginApprove, BeginReject, accounts
  <1>7. ASSUME NEW m \in Managers, CommitReject(m) PROVE UNCHANGED <<password, force, kept>>
    BY <1>7 DEF CommitReject, accounts
  <1>8. ASSUME NEW c \in Clients, NEW v \in Users, BeginLogin(c, v) \/ BeginChange(c, v)
        PROVE  UNCHANGED <<password, force, kept>>
    BY <1>8 DEF BeginLogin, BeginChange, accounts
  <1>9. ASSUME NEW c \in Clients, FinishLogin(c) PROVE UNCHANGED <<password, force, kept>>
    BY <1>9 DEF FinishLogin, accounts
  <1>10. ASSUME NEW v \in Users, ToggleActive(v) PROVE UNCHANGED <<password, force, kept>>
    BY <1>10 DEF ToggleActive
  <1>11. ASSUME NEW s \in sessions, Expire(s) PROVE UNCHANGED <<password, force, kept>>
    BY <1>11 DEF Expire, accounts
  <1>12. ASSUME GiveUp PROVE UNCHANGED <<password, force, kept>>
    BY <1>12 DEF GiveUp, accounts
  <1>13. CASE UNCHANGED vars
    BY <1>4, <1>13 DEF vars
  <1> QED
    BY <1>1, <1>2, <1>3, <1>4, <1>5, <1>6, <1>7, <1>8, <1>9, <1>10, <1>11, <1>12, <1>13
       DEF Next, Manage, Use

\* Whoever is resetting or changing what, an account that holds a temporary
\* password its user has not entered as their own has the flag up.
THEOREM TempPasswordsForced == Spec => []TempForcesChange
  <1>1. Init => TempForcesChange
    BY DEF Init, TempForcesChange
  <1> QED
    BY <1>1, TempStep, TypeInvariant, PTL DEF Spec

----------------------------------------------------------------------------
(* A session opened with a temporary password.  That it is unrestricted only *)
(* once the password is gone needs more than itself: an approval in flight   *)
(* must not bring a password back, so its temporary password must not have   *)
(* been seen yet, by any account, session, sign-in or other approval.        *)

Seen == {password[u] : u \in Users} \cup {s.via : s \in sessions}
            \cup {client[c].password : c \in Clients}

Fresh ==
    /\ Seen \cap Temps \subseteq spent
    /\ \A m \in Managers : review[m].stage = "approve" => review[m].temp \in spent \ Seen
    /\ \A m, n \in Managers :
         /\ review[m].stage = "approve" /\ review[n].stage = "approve"
         /\ review[m].temp = review[n].temp
         => m = n

LEMMA FreshInit == Init => Fresh
  <1> SUFFICES ASSUME Init PROVE Fresh
    OBVIOUS
  <1>1. \A u \in Users : password[u] \in Chosen
    BY DEF Init
  <1>2. sessions = {} /\ \A c \in Clients : client[c].password = None
    BY DEF Init, NoClient
  <1>3. None \notin Temps /\ Temps \cap Chosen = {}
    BY DEF Passwords
  <1>4. Seen \cap Temps = {}
    BY <1>1, <1>2, <1>3 DEF Seen
  <1>5. \A m \in Managers : review[m].stage = "idle"
    BY DEF Init, NoReview
  <1> QED
    BY <1>4, <1>5 DEF Fresh

\* Steps that bring no password into use and leave the reviews alone, or end some.
LEMMA FreshKept ==
    ASSUME Fresh, spent' = spent, (Seen' \ Seen) \cap Temps = {},
           \A m \in Managers : review'[m] = review[m] \/ review'[m].stage # "approve",
           \A m \in Managers : review[m].stage = "approve" => review[m].temp \in Temps
    PROVE  Fresh'
  BY DEF Fresh

LEMMA FreshStep == TypeInv /\ Fresh /\ [Next]_vars => Fresh'
  <1> SUFFICES ASSUME TypeInv, Fresh, [Next]_vars PROVE Fresh'
    OBVIOUS
  <1>0. /\ password \in [Users -> Passwords]
        /\ client \in [Clients -> Client]
        /\ review \in [Managers -> Review]
        /\ \A m \in Managers : review[m].stage = "approve" => review[m].temp \in Temps
    BY DEF TypeInv, TypeOK, ShapeOK, ReviewShape
  <1>1. ASSUME NEW m \in Managers, NEW q \in Requests, BeginApprove(m, q) PROVE Fresh'
    <2>1. PICK t \in Temps \ spent :
            /\ review' = [review EXCEPT ![m] =
                  [stage |-> "approve", request |-> q, target |-> Target(q), temp |-> t]]
            /\ spent' = spent \cup {t}
      BY <1>1 DEF BeginApprove
    <2>2. Seen' = Seen
      BY <1>1 DEF BeginApprove, accounts, Seen
    <2>3. review'[m].temp = t /\ \A n \in Managers \ {m} : review'[n] = review[n]
      BY <1>0, <2>1
    <2>4. t \notin Seen /\ \A n \in Managers : review[n].stage = "approve" => review[n].temp # t
      BY DEF Fresh
    <2> QED
      BY <2>1, <2>2, <2>3, <2>4 DEF Fresh
  <1>2. ASSUME NEW m \in Managers, CommitApprove(m) PROVE Fresh'
    <2> DEFINE r == review[m]
    <2>1. r.stage = "approve" /\ r.temp \in Temps /\ password' = [password EXCEPT ![r.target] = r.temp]
      BY <1>2, CommitApproveWrites DEF CommitApprove
    <2>2. spent' = spent /\ sessions' = sessions /\ client' = client
      BY <1>2 DEF CommitApprove
    <2>3. review'[m].stage # "approve" /\ \A n \in Managers \ {m} : review'[n] = review[n]
      BY <1>0, <1>2 DEF CommitApprove, NoReview
    <2> HIDE DEF r
    <2>4. Seen' \subseteq Seen \cup {r.temp}
      BY <1>0, <2>1, <2>2 DEF Seen
    <2>5. r.temp \in spent /\ \A n \in Managers \ {m} : review[n].stage = "approve" => review[n].temp # r.temp
      BY <2>1 DEF Fresh, r
    <2> QED
      BY <2>2, <2>3, <2>4, <2>5 DEF Fresh
  <1>3. ASSUME NEW u \in Users, ResetDirectly(u) PROVE Fresh'
    <2>1. PICK t \in Temps \ spent : password' = [password EXCEPT ![u] = t] /\ spent' = spent \cup {t}
      BY <1>3 DEF ResetDirectly
    <2>2. review' = review /\ sessions' = sessions /\ client' = client
      BY <1>3 DEF ResetDirectly
    <2>3. Seen' \subseteq Seen \cup {t}
      BY <1>0, <2>1, <2>2 DEF Seen
    <2>4. \A n \in Managers : review[n].stage = "approve" => review[n].temp # t
      BY DEF Fresh
    <2> QED
      BY <2>1, <2>2, <2>3, <2>4 DEF Fresh
  <1>4. ASSUME NEW c \in Clients, NEW u \in Users, BeginLogin(c, u) \/ BeginChange(c, u) PROVE Fresh'
    <2>1. \A d \in Clients : client'[d].password = client[d].password \/ client'[d].password = password[u]
      BY <1>0, <1>4 DEF BeginLogin, BeginChange
    <2>2. UNCHANGED <<password, sessions, spent, review>>
      BY <1>4 DEF BeginLogin, BeginChange, accounts
    <2>3. Seen' \subseteq Seen
      BY <2>1, <2>2 DEF Seen
    <2> QED
      BY <1>0, <2>2, <2>3, FreshKept
  <1>5. ASSUME NEW c \in Clients, FinishLogin(c) PROVE Fresh'
    <2>1. \A s \in sessions' : s \in sessions \/ s.via = client[c].password
      BY <1>5 DEF FinishLogin
    <2>2. \A d \in Clients : client'[d].password = client[d].password \/ client'[d].password = None
      BY <1>0, <1>5 DEF FinishLogin, NoClient
    <2>3. UNCHANGED <<password, spent, review>>
      BY <1>5 DEF FinishLogin, accounts
    <2>4. Seen' \subseteq Seen \cup {None}
      BY <2>1, <2>2, <2>3 DEF Seen
    <2>5. None \notin Temps
      BY DEF Passwords
    <2> QED
      BY <1>0, <2>3, <2>4, <2>5, FreshKept
  <1>6. ASSUME NEW c \in Clients, CommitChange(c) PROVE Fresh'
    <2> DEFINE w == client[c].user
    <2>1. PICK new \in Chosen \cup {client[c].password} :
            /\ password' = [password EXCEPT ![w] = new]
            /\ sessions' = sessions \cup {[user |-> w, via |-> new, force |-> FALSE]}
      BY <1>6 DEF CommitChange
    <2>2. \A s \in sessions' : s \in sessions \/ s.via = new
      BY <2>1
    <2>3. \A d \in Clients : client'[d].password = client[d].password \/ client'[d].password = None
      BY <1>0, <1>6 DEF CommitChange, NoClient
    <2>4. UNCHANGED <<spent, review>>
      BY <1>6 DEF CommitChange
    <2> HIDE DEF w
    <2>5. \A u \in Users : password'[u] = password[u] \/ password'[u] = new
      BY <1>0, <2>1
    <2>6. Seen' \subseteq Seen \cup {None, new}
      BY <2>2, <2>3, <2>5 DEF Seen
    <2>7. None \notin Temps /\ (new \in Seen \/ new \notin Temps)
      BY DEF Passwords, Seen
    <2> QED
      BY <1>0, <2>4, <2>6, <2>7, FreshKept
  <1>7. ASSUME NEW m \in Managers, NEW q \in Requests, BeginReject(m, q) PROVE Fresh'
    <2>1. Seen' = Seen /\ spent' = spent
      BY <1>7 DEF BeginReject, accounts, Seen
    <2>2. \A n \in Managers : review'[n] = review[n] \/ review'[n].stage # "approve"
      BY <1>0, <1>7 DEF BeginReject, NoReview
    <2> QED
      BY <1>0, <2>1, <2>2, FreshKept
  <1>8. ASSUME NEW m \in Managers, CommitReject(m) PROVE Fresh'
    <2>1. Seen' = Seen /\ spent' = spent
      BY <1>8 DEF CommitReject, accounts, Seen
    <2>2. \A n \in Managers : review'[n] = review[n] \/ review'[n].stage # "approve"
      BY <1>0, <1>8 DEF CommitReject, NoReview
    <2> QED
      BY <1>0, <2>1, <2>2, FreshKept
  <1>9. ASSUME GiveUp PROVE Fresh'
    <2>1. UNCHANGED <<password, sessions, spent>>
      BY <1>9 DEF GiveUp, accounts
    <2>2. \A n \in Managers : review'[n] = review[n] \/ review'[n].stage # "approve"
      BY <1>0, <1>9 DEF GiveUp, NoReview
    <2>3. \A d \in Clients : client'[d].password = client[d].password \/ client'[d].password = None
      BY <1>0, <1>9 DEF GiveUp, NoClient
    <2>4. Seen' \subseteq Seen \cup {None}
      BY <2>1, <2>3 DEF Seen
    <2>5. None \notin Temps
      BY DEF Passwords
    <2> QED
      BY <1>0, <2>1, <2>2, <2>4, <2>5, FreshKept
  <1>10. ASSUME NEW s \in sessions, Expire(s) PROVE Fresh'
    <2>1. UNCHANGED <<password, client, spent, review>> /\ sessions' \subseteq sessions
      BY <1>10 DEF Expire, accounts
    <2>2. Seen' \subseteq Seen
      BY <2>1 DEF Seen
    <2> QED
      BY <1>0, <2>1, <2>2, FreshKept
  <1>11. CASE UNCHANGED <<password, client, sessions, spent, review>>
    BY <1>11 DEF Fresh, Seen
  <1>12. ASSUME NEW i \in Identifiers, AskForReset(i)
         PROVE  UNCHANGED <<password, client, sessions, spent, review>>
    BY <1>12 DEF AskForReset, accounts
  <1>13. ASSUME NEW u \in Users, ToggleActive(u)
         PROVE  UNCHANGED <<password, client, sessions, spent, review>>
    BY <1>13 DEF ToggleActive
  <1>14. CASE UNCHANGED vars
    BY <1>11, <1>14 DEF vars
  <1> QED
    BY <1>1, <1>2, <1>3, <1>4, <1>5, <1>6, <1>7, <1>8, <1>9, <1>10, <1>11, <1>12, <1>13, <1>14
       DEF Next, Manage, Use

LEMMA UnrestrictedStep ==
    TypeInv /\ TempForcesChange /\ Fresh /\ UnrestrictedAfterChange /\ [Next]_vars
        => UnrestrictedAfterChange'
  <1> SUFFICES ASSUME TypeInv, TempForcesChange, Fresh, UnrestrictedAfterChange, [Next]_vars,
                      NEW s \in sessions', s.via \in Temps \ kept', ~s.force
               PROVE  password'[s.user] # s.via
    BY DEF UnrestrictedAfterChange
  <1>0. password \in [Users -> Passwords] /\ sessions \subseteq Session
    BY DEF TypeInv, TypeOK
  <1> DEFINE Old == s \in sessions /\ s.via \notin kept
  <1>1. Old => s.user \in Users /\ s.via \in Seen /\ password[s.user] # s.via
    BY <1>0 DEF UnrestrictedAfterChange, Session, Seen
  <1>2. ASSUME NEW m \in Managers, CommitApprove(m) PROVE password'[s.user] # s.via
    <2>1. Old
      BY <1>2 DEF CommitApprove
    <2>2. /\ password' = [password EXCEPT ![review[m].target] = review[m].temp]
          /\ review[m].temp \notin Seen
      BY <1>2, CommitApproveWrites DEF CommitApprove, Fresh
    <2> QED
      BY <1>0, <1>1, <2>1, <2>2
  <1>3. ASSUME NEW u \in Users, ResetDirectly(u) PROVE password'[s.user] # s.via
    <2>1. Old
      BY <1>3 DEF ResetDirectly
    <2>2. PICK t \in Temps \ spent : password' = [password EXCEPT ![u] = t]
      BY <1>3 DEF ResetDirectly
    <2>3. t \notin Seen
      BY DEF Fresh
    <2> QED
      BY <1>0, <1>1, <2>1, <2>2, <2>3
  <1>4. ASSUME NEW c \in Clients, FinishLogin(c) PROVE password'[s.user] # s.via
    <2>1. client[c].user \in Users /\ UNCHANGED <<password, kept>>
      BY <1>4 DEF FinishLogin, accounts, TypeInv, ShapeOK, ClientShape
    <2>2. CASE Old
      BY <1>1, <2>1, <2>2
    <2>3. CASE ~Old
      <3>1. s = [user |-> client[c].user, via |-> client[c].password, force |-> force[client[c].user]]
        BY <1>4, <2>1, <2>3 DEF FinishLogin
      <3>2. password[s.user] = s.via => force[s.user]
        BY <2>1, <3>1 DEF TempForcesChange
      <3> QED
        BY <2>1, <3>1, <3>2
    <2> QED
      BY <2>2, <2>3
  <1>5. ASSUME NEW c \in Clients, CommitChange(c) PROVE password'[s.user] # s.via
    <2> DEFINE w == client[c].user
    <2>1. PICK new \in Chosen \cup {client[c].password} :
            /\ password' = [password EXCEPT ![w] = new]
            /\ sessions' = sessions \cup {[user |-> w, via |-> new, force |-> FALSE]}
            /\ kept' = kept \cup ({new} \cap Temps)
      BY <1>5 DEF CommitChange
    <2>2. s.via # new
      BY <2>1
    <2>3. Old
      BY <2>1, <2>2
    <2> HIDE DEF w
    <2> QED
      BY <1>0, <1>1, <2>1, <2>2, <2>3
  <1>6. CASE UNCHANGED <<password, kept>> /\ sessions' \subseteq sessions
    BY <1>1, <1>6
  <1>7. ASSUME NEW i \in Identifiers, AskForReset(i) PROVE UNCHANGED <<password, kept, sessions>>
    BY <1>7 DEF AskForReset, accounts
  <1>8. ASSUME NEW m \in Managers, NEW p \in Requests, BeginApprove(m, p) \/ BeginReject(m, p)
        PROVE  UNCHANGED <<password, kept, sessions>>
    BY <1>8 DEF BeginApprove, BeginReject, accounts
  <1>9. ASSUME NEW m \in Managers, CommitReject(m) PROVE UNCHANGED <<password, kept, sessions>>
    BY <1>9 DEF CommitReject, accounts
  <1>10. ASSUME NEW c \in Clients, NEW v \in Users, BeginLogin(c, v) \/ BeginChange(c, v)
         PROVE  UNCHANGED <<password, kept, sessions>>
    BY <1>10 DEF BeginLogin, BeginChange, accounts
  <1>11. ASSUME NEW v \in Users, ToggleActive(v) PROVE UNCHANGED <<password, kept, sessions>>
    BY <1>11 DEF ToggleActive
  <1>12. ASSUME NEW x \in sessions, Expire(x)
         PROVE  UNCHANGED <<password, kept>> /\ sessions' \subseteq sessions
    BY <1>12 DEF Expire, accounts
  <1>13. ASSUME GiveUp PROVE UNCHANGED <<password, kept, sessions>>
    BY <1>13 DEF GiveUp, accounts
  <1>14. CASE UNCHANGED vars
    BY <1>6, <1>14 DEF vars
  <1> HIDE DEF Old
  <1> QED
    BY <1>2, <1>3, <1>4, <1>5, <1>6, <1>7, <1>8, <1>9, <1>10, <1>11, <1>12, <1>13, <1>14
       DEF Next, Manage, Use

\* Sign-in reads the password and the flag at different times, and a change of
\* password verifies before it writes: still, a session opened with a temporary
\* password is unrestricted only once the account no longer holds that password.
THEOREM RestrictedUntilChanged == Spec => []UnrestrictedAfterChange
  <1>1. Init => UnrestrictedAfterChange
    BY DEF Init, UnrestrictedAfterChange
  <1> QED
    BY <1>1, FreshInit, FreshStep, UnrestrictedStep, TypeInvariant, TempPasswordsForced, PTL DEF Spec

----------------------------------------------------------------------------
(* Reviews.  What a transaction checked is still true when it writes if it   *)
(* is alone with its request: only another review takes the request out of   *)
(* PENDING.  A request that two had in hand together is marked as shared     *)
(* when the second begins.                                                   *)

InHand(m, q) == review[m].stage # "idle" /\ review[m].request = q

ReviewInv ==
    \A m \in Managers, q \in Requests : InHand(m, q) =>
        /\ requests[q].status # "ABSENT"
        /\ \/ q \in shared
           \/ /\ requests[q].status = "PENDING"
              /\ \A n \in Managers : InHand(n, q) => n = m

Moved(q) ==
    LET before == requests[q].status
        after == requests'[q].status
    IN  after # before =>
          \/ before = "ABSENT" /\ after = "PENDING"
          \/ before = "PENDING" /\ after \in {"APPROVED", "REJECTED"}
          \/ before = "APPROVED" /\ after = "COMPLETED"
          \/ q \in shared /\ before \in Decided /\ after \in {"APPROVED", "REJECTED"}

LEMMA ReviewsBegin == Init => ReviewInv
  BY DEF Init, ReviewInv, InHand, NoReview

LEMMA ReviewedTypes ==
    ASSUME TypeInv, NEW m \in Managers, review[m].stage # "idle"
    PROVE  review[m].request \in Requests
  BY DEF TypeInv, TypeOK, ShapeOK, ReviewShape, Review

\* A step that gives nobody a request to review, and takes none in hand out of PENDING.
LEMMA ReviewFrame ==
    ASSUME ReviewInv, shared' = shared,
           \A m \in Managers, q \in Requests : InHand(m, q)' => InHand(m, q),
           \A q \in Requests : (\E m \in Managers : InHand(m, q)') =>
              \/ requests'[q].status = requests[q].status
              \/ requests'[q].status # "ABSENT" /\ q \in shared
    PROVE  ReviewInv'
  BY DEF ReviewInv

LEMMA DecidedStep ==
    ASSUME TypeInv, ReviewInv, [Next]_vars
    PROVE  ReviewInv' /\ \A q \in Requests : Moved(q)
  <1> DEFINE Goal == ReviewInv' /\ \A q \in Requests : Moved(q)
  <1>0. /\ requests \in [Requests -> Request] /\ review \in [Managers -> Review]
        /\ \A q \in Requests : requests[q] \in Request
        /\ \A q \in Requests : requests[q].status \in RequestStatus
    BY DEF TypeInv, TypeOK, Request
  <1>1. ASSUME NEW i \in Identifiers, AskForReset(i) PROVE Goal
    <2>1. PICK q \in Requests :
            /\ requests[q].status = "ABSENT"
            /\ requests' = [requests EXCEPT ![q] =
                   [status |-> "PENDING", identifier |-> i, user |-> ActiveAccount(i)]]
      BY <1>1 DEF AskForReset
    <2>2. review' = review /\ shared' = shared
      BY <1>1 DEF AskForReset
    <2>3. \A n \in Managers : ~InHand(n, q)
      BY <2>1 DEF ReviewInv
    <2>5. \A p \in Requests \ {q} : requests'[p] = requests[p]
      BY <1>0, <2>1
    <2>6. \A n \in Managers, p \in Requests : InHand(n, p)' <=> InHand(n, p)
      BY <2>2 DEF InHand
    <2>7. ReviewInv'
      BY <2>2, <2>3, <2>5, <2>6, ReviewFrame
    <2>8. Moved(q)
      BY <1>0, <2>1 DEF Moved
    <2> QED
      BY <2>5, <2>7, <2>8 DEF Moved
  <1>2. ASSUME NEW m \in Managers, NEW q \in Requests, BeginApprove(m, q) \/ BeginReject(m, q) PROVE Goal
    <2>1. /\ requests' = requests /\ requests[q].status = "PENDING"
          /\ shared' = SharedBy(m, q)
          /\ review[m].stage = "idle"
      BY <1>2 DEF BeginApprove, BeginReject
    <2>2. InHand(m, q)' /\ \A p \in Requests \ {q} : ~InHand(m, p)'
      <3>1. CASE BeginApprove(m, q)
        BY <1>0, <3>1 DEF BeginApprove, InHand
      <3>2. CASE BeginReject(m, q)
        BY <1>0, <3>2 DEF BeginReject, NoReview, InHand
      <3> QED
        BY <1>2, <3>1, <3>2
    <2>3. \A n \in Managers \ {m} : review'[n] = review[n]
      BY <1>0, <1>2 DEF BeginApprove, BeginReject
    <2>4. \A n \in Managers \ {m}, p \in Requests : InHand(n, p)' <=> InHand(n, p)
      BY <2>3 DEF InHand
    <2>5. /\ shared \subseteq shared' /\ shared' \subseteq shared \cup {q}
          /\ (\E n \in Managers \ {m} : InHand(n, q)) => q \in shared'
      BY <2>1 DEF SharedBy, InHand
    <2>6. ReviewInv'
      <3> SUFFICES ASSUME NEW n \in Managers, NEW p \in Requests, InHand(n, p)'
                   PROVE  /\ requests'[p].status # "ABSENT"
                          /\ \/ p \in shared'
                             \/ /\ requests'[p].status = "PENDING"
                                /\ \A k \in Managers : InHand(k, p)' => k = n
        BY DEF ReviewInv
      <3>1. CASE p = q
        BY <2>1, <2>4, <2>5, <3>1
      <3>2. CASE p # q
        <4>1. \A k \in Managers : InHand(k, p)' => k # m /\ InHand(k, p)
          BY <2>2, <2>4, <3>2
        <4> QED
          BY <2>1, <2>5, <4>1 DEF ReviewInv
      <3> QED
        BY <3>1, <3>2
    <2> QED
      BY <2>1, <2>6 DEF Moved
  <1>3. ASSUME NEW m \in Managers, CommitApprove(m) \/ CommitReject(m) PROVE Goal
    <2>1. PICK q \in Requests : q = review[m].request /\ InHand(m, q)
      BY <1>3, ReviewedTypes DEF CommitApprove, CommitReject, InHand
    <2>2. /\ requests'[q].status \in {"APPROVED", "REJECTED"}
          /\ \A p \in Requests \ {q} : requests'[p] = requests[p]
      <3>1. CASE CommitApprove(m)
        <4>1. requests' = [requests EXCEPT ![q] = [status |-> "APPROVED",
                              identifier |-> requests[q].identifier, user |-> review[m].target]]
          BY <2>1, <3>1, CommitApproveWrites
        <4> QED
          BY <1>0, <2>1, <4>1
      <3>2. CASE CommitReject(m)
        BY <1>0, <2>1, <3>2 DEF CommitReject, Request
      <3> QED
        BY <1>3, <3>1, <3>2
    <2>3. /\ review'[m].stage = "idle" /\ \A n \in Managers \ {m} : review'[n] = review[n]
          /\ shared' = shared
      BY <1>0, <1>3 DEF CommitApprove, CommitReject, NoReview
    <2>4. \A n \in Managers, p \in Requests : InHand(n, p)' => n # m /\ InHand(n, p)
      BY <2>3 DEF InHand
    <2>5. q \in shared \/ \A n \in Managers : ~InHand(n, q)' 
      BY <2>1, <2>4 DEF ReviewInv
    <2>6. ReviewInv'
      <3>1. ASSUME NEW p \in Requests, NEW n \in Managers, InHand(n, p)'
            PROVE  \/ requests'[p].status = requests[p].status
                   \/ requests'[p].status # "ABSENT" /\ p \in shared
        <4>1. CASE p # q
          BY <2>2, <4>1
        <4>2. CASE p = q
          <5>1. q \in shared
            <6>1. InHand(n, p) /\ n # m
              BY <2>4, <3>1
            <6> QED
              BY <2>1, <4>2, <6>1 DEF ReviewInv
          <5> QED
            BY <2>2, <4>2, <5>1
        <4> QED
          BY <4>1, <4>2
      <3> QED
        BY <2>3, <2>4, <3>1, ReviewFrame
    <2>7. Moved(q)
      <3>1. requests[q].status \in RequestStatus /\ requests[q].status # "ABSENT"
            /\ (q \in shared \/ requests[q].status = "PENDING")
        BY <1>0, <2>1 DEF ReviewInv
      <3> QED
        BY <2>2, <3>1 DEF Moved, Decided, RequestStatus
    <2> QED
      BY <2>2, <2>6, <2>7 DEF Moved
  <1>5. ASSUME NEW c \in Clients, CommitChange(c) PROVE Goal
    <2>1. \A q \in Requests :
            \/ requests'[q] = requests[q]
            \/ requests[q].status = "APPROVED" /\ requests'[q].status = "COMPLETED"
      BY <1>0, <1>5 DEF CommitChange, Request
    <2>2. review' = review /\ shared' = shared
      BY <1>5 DEF CommitChange
    <2>3. \A n \in Managers, p \in Requests : InHand(n, p)' <=> InHand(n, p)
      BY <2>2 DEF InHand
    <2>4. \A p \in Requests : (\E m \in Managers : InHand(m, p)') =>
              \/ requests'[p].status = requests[p].status
              \/ requests'[p].status # "ABSENT" /\ p \in shared
      BY <2>1, <2>3 DEF ReviewInv
    <2>5. ReviewInv'
      BY <2>2, <2>3, <2>4, ReviewFrame
    <2> QED
      BY <2>1, <2>5 DEF Moved
  <1>6. ASSUME GiveUp PROVE Goal
    <2>1. /\ requests' = requests /\ shared' = shared
          /\ \A m \in Managers : review'[m] = review[m] \/ review'[m].stage = "idle"
      BY <1>0, <1>6 DEF GiveUp, NoReview
    <2>2. \A n \in Managers, p \in Requests : InHand(n, p)' => InHand(n, p)
      BY <2>1 DEF InHand
    <2> QED
      BY <2>1, <2>2, ReviewFrame DEF Moved
  <1>7. ASSUME UNCHANGED <<requests, review, shared>> PROVE Goal
    BY <1>7 DEF ReviewInv, InHand, Moved
  <1>8. ASSUME NEW c \in Clients, NEW v \in Users, BeginLogin(c, v) \/ BeginChange(c, v)
        PROVE  UNCHANGED <<requests, review, shared>>
    BY <1>8 DEF BeginLogin, BeginChange
  <1>9. ASSUME NEW c \in Clients, FinishLogin(c) PROVE UNCHANGED <<requests, review, shared>>
    BY <1>9 DEF FinishLogin
  <1>10. ASSUME NEW u \in Users, ResetDirectly(u) \/ ToggleActive(u)
         PROVE  UNCHANGED <<requests, review, shared>>
    BY <1>10 DEF ResetDirectly, ToggleActive
  <1>11. ASSUME NEW x \in sessions, Expire(x) PROVE UNCHANGED <<requests, review, shared>>
    BY <1>11 DEF Expire
  <1>12. ASSUME UNCHANGED vars PROVE Goal
    BY <1>7, <1>12 DEF vars
  <1> HIDE DEF Goal
  <1>13. ASSUME NEW m \in Managers, Manage(m) PROVE Goal
    BY <1>2, <1>3, <1>13 DEF Manage
  <1>14. ASSUME NEW c \in Clients, Use(c) PROVE Goal
    BY <1>5, <1>7, <1>8, <1>9, <1>14 DEF Use
  <1>15. ASSUME \E u \in Users : ResetDirectly(u) \/ ToggleActive(u) PROVE Goal
    BY <1>7, <1>10, <1>15
  <1>16. Goal
    BY <1>1, <1>6, <1>7, <1>11, <1>12, <1>13, <1>14, <1>15 DEF Next
  <1> QED
    BY <1>16 DEF Goal

\* With any number of managers deciding at once: a request that no two of them had in hand
\* together is decided once and completed only after its approval, and one that two had is
\* never open again (approvePasswordResetRequest and rejectPasswordResetRequest check the
\* status apart from their writes).
THEOREM RequestsDecidedOnce == Spec => DecidedOnce
  <1>1. TypeInv /\ ReviewInv /\ [Next]_vars => ReviewInv' /\ [\A q \in Requests : Moved(q)]_vars
    BY DecidedStep
  <1>2. [\A q \in Requests : Moved(q)]_vars <=>
          [\A q \in Requests :
              LET before == requests[q].status
                  after == requests'[q].status
              IN  after # before =>
                    \/ before = "ABSENT" /\ after = "PENDING"
                    \/ before = "PENDING" /\ after \in {"APPROVED", "REJECTED"}
                    \/ before = "APPROVED" /\ after = "COMPLETED"
                    \/ q \in shared /\ before \in Decided /\ after \in {"APPROVED", "REJECTED"}]_vars
    BY DEF Moved
  <1> QED
    BY <1>1, <1>2, ReviewsBegin, TypeInvariant, PTL DEF Spec, DecidedOnce

\* Reviews of different requests, as if a review claimed its request.
ReviewsApart ==
    \A m, n \in Managers :
        /\ review[m].stage # "idle" /\ review[n].stage # "idle"
        /\ review[m].request = review[n].request
        => m = n

\* A request is shared only once reviews are no longer apart.
LEMMA ApartUnshared ==
    ASSUME TypeInv, shared = {} \/ ~ReviewsApart, [Next /\ ReviewsApart]_vars
    PROVE  (shared = {} \/ ~ReviewsApart)'
  <1>1. CASE UNCHANGED vars
    BY <1>1 DEF vars, ReviewsApart
  <1>2. CASE Next /\ ReviewsApart /\ shared' = shared
    BY <1>2
  <1>3. ASSUME NEW m \in Managers, NEW q \in Requests, BeginApprove(m, q) \/ BeginReject(m, q),
               ReviewsApart
        PROVE  (shared = {} \/ ~ReviewsApart)'
    <2>1. shared = {} /\ shared' = SharedBy(m, q)
      BY <1>3 DEF BeginApprove, BeginReject
    <2>2. CASE \E n \in Managers \ {m} : InHand(n, q)
      <3>1. PICK n \in Managers \ {m} : InHand(n, q)
        BY <2>2
      <3>2. review \in [Managers -> Review]
        BY DEF TypeInv, TypeOK
      <3>3. review'[n] = review[n]
        BY <1>3, <3>2 DEF BeginApprove, BeginReject
      <3>4. review'[m].stage # "idle" /\ review'[m].request = q
        <4>1. CASE BeginApprove(m, q)
          BY <3>2, <4>1 DEF BeginApprove
        <4>2. CASE BeginReject(m, q)
          BY <3>2, <4>2 DEF BeginReject, NoReview
        <4> QED
          BY <1>3, <4>1, <4>2
      <3> QED
        BY <3>1, <3>3, <3>4 DEF ReviewsApart, InHand
    <2>3. CASE ~ \E n \in Managers \ {m} : InHand(n, q)
      BY <2>1, <2>3 DEF SharedBy, InHand
    <2> QED
      BY <2>2, <2>3
  <1>4. ASSUME Next, ~ \E m \in Managers, q \in Requests : BeginApprove(m, q) \/ BeginReject(m, q)
        PROVE  shared' = shared
    BY <1>4 DEF Next, Manage, Use, AskForReset, CommitApprove, CommitReject, BeginLogin, BeginChange,
                FinishLogin, CommitChange, ResetDirectly, ToggleActive, Expire, GiveUp
  <1> QED
    BY <1>1, <1>2, <1>3, <1>4

\* With any number of managers: as long as no two of them have the same request under
\* review, requests are approved or rejected only while PENDING.
THEOREM ReviewsApartDecidePending ==
    Init /\ [][Next /\ ReviewsApart]_vars => OnlyPendingReviewed
  <1> DEFINE Unshared == shared = {} \/ ~ReviewsApart
             OnPending == [\A q \in Requests :
                 requests'[q].status \in {"APPROVED", "REJECTED"} /\ requests'[q].status # requests[q].status
                     => requests[q].status = "PENDING"]_vars
  <1>1. TypeInv /\ [Next /\ ReviewsApart]_vars => TypeInv'
    BY TypeStep
  <1>2. TypeInv /\ Unshared /\ [Next /\ ReviewsApart]_vars => Unshared'
    BY ApartUnshared
  <1>3. TypeInv /\ ReviewInv /\ Unshared /\ [Next /\ ReviewsApart]_vars => ReviewInv' /\ OnPending
    <2> SUFFICES ASSUME TypeInv, ReviewInv, Unshared, [Next /\ ReviewsApart]_vars
                 PROVE  ReviewInv' /\ OnPending
      OBVIOUS
    <2>1. ReviewInv' /\ \A q \in Requests : Moved(q)
      BY DecidedStep
    <2>2. CASE UNCHANGED vars
      BY <2>1, <2>2
    <2>3. CASE ReviewsApart
      BY <2>1, <2>3 DEF Moved
    <2> QED
      BY <2>1, <2>2, <2>3
  <1>4. Init => Unshared
    BY DEF Init
  <1> HIDE DEF Unshared
  <1> QED
    BY <1>1, <1>2, <1>3, <1>4, TypeInit, ReviewsBegin, PTL DEF OnlyPendingReviewed

----------------------------------------------------------------------------
(* What would keep the promise that FlagNeedsCurrentPassword refutes: that  *)
(* nobody else writes the password between the check of a change and its    *)
(* writes, as if the check were part of the transaction.                    *)

ChangesUndisturbed ==
    \A c \in Clients : client[c].stage = "change" /\ client'[c] = client[c] =>
        password'[client[c].user] = password[client[c].user]

\* What was verified is what the account still holds.
Verified ==
    \A c \in Clients : client[c].stage = "change" => client[c].password = password[client[c].user]

\* Only BeginChange brings a client to the stage, with the password as it is.
LEMMA ChangeBegins ==
    ASSUME TypeInv, [Next]_vars, NEW c \in Clients, client'[c] # client[c], client'[c].stage = "change"
    PROVE  client'[c].password = password'[client'[c].user]
  <1>0. /\ client \in [Clients -> Client] /\ review \in [Managers -> Review]
        /\ NoClient.stage = "idle"
    BY DEF TypeInv, TypeOK, NoClient
  <1>1. ASSUME NEW d \in Clients, NEW u \in Users, BeginLogin(d, u) PROVE FALSE
    BY <1>0, <1>1 DEF BeginLogin
  <1>2. ASSUME NEW d \in Clients, FinishLogin(d) PROVE FALSE
    BY <1>0, <1>2 DEF FinishLogin
  <1>3. ASSUME NEW d \in Clients, CommitChange(d) PROVE FALSE
    BY <1>0, <1>3 DEF CommitChange
  <1>4. ASSUME GiveUp PROVE FALSE
    BY <1>0, <1>4 DEF GiveUp
  <1>5. ASSUME NEW d \in Clients, NEW u \in Users, BeginChange(d, u)
        PROVE  client'[c].password = password'[client'[c].user]
    <2>1. c = d /\ client'[d] = [stage |-> "change", user |-> u, password |-> password[u]]
      BY <1>0, <1>5 DEF BeginChange
    <2> QED
      BY <1>5, <2>1 DEF BeginChange, accounts
  <1>6. ASSUME NEW m \in Managers, Manage(m) PROVE client' = client
    BY <1>6 DEF Manage, BeginApprove, BeginReject, CommitApprove, CommitReject
  <1>7. ASSUME NEW i \in Identifiers, AskForReset(i) PROVE client' = client
    BY <1>7 DEF AskForReset
  <1>8. ASSUME NEW u \in Users, ResetDirectly(u) \/ ToggleActive(u) PROVE client' = client
    BY <1>8 DEF ResetDirectly, ToggleActive
  <1>9. ASSUME NEW s \in sessions, Expire(s) PROVE client' = client
    BY <1>9 DEF Expire
  <1>10. CASE UNCHANGED vars
    BY <1>10 DEF vars
  <1> QED
    BY <1>1, <1>2, <1>3, <1>4, <1>5, <1>6, <1>7, <1>8, <1>9, <1>10 DEF Next, Use

LEMMA VerifiedStep ==
    TypeInv /\ Verified /\ [Next /\ ChangesUndisturbed]_vars => Verified'
  <1> SUFFICES ASSUME TypeInv, Verified, [Next /\ ChangesUndisturbed]_vars, NEW c \in Clients,
                      client'[c].stage = "change"
               PROVE  client'[c].password = password'[client'[c].user]
    BY DEF Verified
  <1>1. CASE client'[c] # client[c]
    BY <1>1, ChangeBegins
  <1>2. CASE client'[c] = client[c]
    BY <1>2 DEF Verified, ChangesUndisturbed, vars
  <1> QED
    BY <1>1, <1>2

\* Nothing lowers a flag but a change, and it is that of the account it was verified for.
LEMMA FlagLowered ==
    ASSUME TypeInv, Next, NEW u \in Users, force[u], ~force'[u]
    PROVE  \E c \in Clients : CommitChange(c) /\ client[c].user = u
  <1>0. force \in [Users -> BOOLEAN]
    BY DEF TypeInv, TypeOK
  <1>1. ASSUME NEW m \in Managers, CommitApprove(m) PROVE FALSE
    BY <1>0, <1>1 DEF CommitApprove
  <1>2. ASSUME NEW v \in Users, ResetDirectly(v) PROVE FALSE
    BY <1>0, <1>2 DEF ResetDirectly
  <1>3. ASSUME NEW c \in Clients, CommitChange(c) PROVE client[c].user = u
    BY <1>0, <1>3 DEF CommitChange
  <1>4. ASSUME NEW m \in Managers, Manage(m), ~CommitApprove(m) PROVE force' = force
    BY <1>4 DEF Manage, BeginApprove, BeginReject, CommitReject, accounts
  <1>5. ASSUME NEW c \in Clients, Use(c), ~CommitChange(c) PROVE force' = force
    BY <1>5 DEF Use, BeginLogin, BeginChange, FinishLogin, accounts
  <1>6. ASSUME NEW i \in Identifiers, AskForReset(i) PROVE force' = force
    BY <1>6 DEF AskForReset, accounts
  <1>7. ASSUME NEW v \in Users, ToggleActive(v) PROVE force' = force
    BY <1>7 DEF ToggleActive
  <1>8. ASSUME NEW s \in sessions, Expire(s) PROVE force' = force
    BY <1>8 DEF Expire, accounts
  <1>9. ASSUME GiveUp PROVE force' = force
    BY <1>9 DEF GiveUp, accounts
  <1> QED
    BY <1>1, <1>2, <1>3, <1>4, <1>5, <1>6, <1>7, <1>8, <1>9 DEF Next

\* However sign-ins, reviews, resets and changes overlap otherwise: as long as no password
\* is written between the check of a change and its writes, a forced change is done with
\* only by a user who held the password it was forced with (changeTenantStaffPassword,
\* which checks before it opens its transaction).
THEOREM UndisturbedChangesVerify ==
    Init /\ [][Next /\ ChangesUndisturbed]_vars => FlagNeedsCurrentPassword
  <1>1. Init => Verified
    BY DEF Init, Verified, NoClient
  <1>2. TypeInv /\ [Next /\ ChangesUndisturbed]_vars => TypeInv'
    BY TypeStep
  <1>3. TypeInv /\ Verified /\ [Next /\ ChangesUndisturbed]_vars =>
          [\A u \in Users : force[u] /\ ~force'[u] =>
             \E c \in Clients : /\ client[c].user = u /\ client'[c] # client[c]
                                /\ client[c].password = password[u]]_vars
    <2> SUFFICES ASSUME TypeInv, Verified, Next, NEW u \in Users, force[u], ~force'[u]
                 PROVE  \E c \in Clients : /\ client[c].user = u /\ client'[c] # client[c]
                                           /\ client[c].password = password[u]
      OBVIOUS
    <2>1. PICK c \in Clients : CommitChange(c) /\ client[c].user = u
      BY FlagLowered
    <2>2. client[c].stage = "change" /\ client'[c].stage = "idle"
      BY <2>1 DEF CommitChange, NoClient, TypeInv, TypeOK
    <2> QED
      BY <2>1, <2>2 DEF Verified
  <1> QED
    BY <1>1, <1>2, <1>3, TypeInit, VerifiedStep, PTL DEF FlagNeedsCurrentPassword
=============================================================================

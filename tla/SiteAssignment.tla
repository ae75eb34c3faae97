--------------------------- MODULE SiteAssignment ---------------------------
(***************************************************************************)
(* The sites the users of one tenant are assigned to, and what they are    *)
(* read for: sign-in counts them and every request resolves its data scope *)
(* from them.                                                              *)
(*                                                                         *)
(* The assignment is spread over three tables.  Tenant administrators edit *)
(* two of them with single statements outside any transaction, platform    *)
(* support replaces the same two in one transaction, and the third is only *)
(* ever added to, by the onboarding import.  An action is one statement or *)
(* one transaction's commit.  Driver projections and vehicles, written by  *)
(* the same handlers before and after the sites, are not in this module.   *)
(***************************************************************************)
EXTENDS Integers, FiniteSets

CONSTANTS
    Users,
    Sites,
    Imported,     \* sites that onboarding workbooks list supervisors for
    Editors,      \* administrators' requests that may be in flight together
    Supporters,   \* support requests that may be in flight together
    Payloads      \* the updates that administrators send

Keep == "keep"           \* a field the request leaves out
Nowhere == "nowhere"     \* site_id: null
Absent == "ABSENT"       \* the role of a user not created yet
KeepSites == {Keep}      \* site_ids left out

ASSUME SitesAssumption == Keep \notin Sites /\ Nowhere \notin Sites /\ Imported \subseteq Sites

SingleSite == {"DRIVER", "SITE_SUPERVISOR"}

\* The roles master data reads and writes ...
Managed == SingleSite \cup {"SAFETY_OFFICER", "TENANT_ADMIN"}

\* ... and TRANSPORT_MANAGER for the ones only support assigns: they all see
\* the whole tenant.
Roles == Managed \cup {"TRANSPORT_MANAGER"}

SingleChoice == Sites \cup {Keep, Nowhere}
MultiChoice == (SUBSET Sites) \cup {KeepSites}

\* role, site_id and site_ids of an update, each of which may be left out.
AnyPayload == [role: Managed \cup {Keep}, single: SingleChoice, multi: MultiChoice]

\* What the drivers page sends: it always fills in all three.
FormPayload ==
    {p \in [role: Managed, single: Sites \cup {Nowhere}, multi: SUBSET Sites] :
        IF p.role = "SAFETY_OFFICER" THEN p.single = Nowhere ELSE p.multi = {}}

ASSUME PayloadsAssumption == Payloads \subseteq AnyPayload

VARIABLES
    \* the database
    role,        \* users.role
    assignment,  \* user_site_assignments
    access,      \* user_site_access
    legacy,      \* supervisor_sites
    \* in flight
    edit,        \* what is left of each administrator's request
    support,     \* each support request
    \* observation only
    asked,       \* by user, the site sets asked for since no edit was in flight
    broken       \* users one of whose edits failed since then

tables == <<role, assignment, access, legacy>>
ghosts == <<asked, broken>>
vars == <<role, assignment, access, legacy, edit, support, asked, broken>>

EditStages == {"idle", "role", "single unassign", "single revoke", "create",
               "multi revoke", "multi grant", "multi unassign", "multi assign"}
Edit == [stage: EditStages, user: Users \cup {Keep}, role: Managed \cup {Keep},
         single: SingleChoice, multi: MultiChoice,
         pending: SUBSET {"assignment", "access"}, failed: BOOLEAN]
NoEdit == [stage |-> "idle", user |-> Keep, role |-> Keep, single |-> Keep,
           multi |-> KeepSites, pending |-> {}, failed |-> FALSE]

\* old holds the rows a transaction has deleted and not committed.
Support == [stage: {"idle", "begin", "commit"}, user: Users \cup {Keep}, role: Roles \cup {Keep},
            assignment: SUBSET Sites, access: SUBSET Sites,
            oldAssignment: SUBSET Sites, oldAccess: SUBSET Sites]
NoSupport == [stage |-> "idle", user |-> Keep, role |-> Keep, assignment |-> {},
              access |-> {}, oldAssignment |-> {}, oldAccess |-> {}]

TypeOK ==
    /\ role \in [Users -> Roles \cup {Absent}]
    /\ assignment \in [Users -> SUBSET Sites]
    /\ access \in [Users -> SUBSET Sites]
    /\ legacy \in [Users -> SUBSET Sites]
    /\ edit \in [Editors -> Edit]
    /\ support \in [Supporters -> Support]
    /\ asked \in [Users -> SUBSET SUBSET Sites]
    /\ broken \subseteq Users

Init ==
    /\ role = [u \in Users |-> Absent]
    /\ assignment = [u \in Users |-> {}]
    /\ access = [u \in Users |-> {}]
    /\ legacy = [u \in Users |-> {}]
    /\ edit = [e \in Editors |-> NoEdit]
    /\ support = [s \in Supporters |-> NoSupport]
    /\ asked = [u \in Users |-> {{}}]
    /\ broken = {}

----------------------------------------------------------------------------
(* Reading the assignment. *)

\* loginTenantStaff: the rows, not the sites, are counted.
SiteRows(u) == Cardinality(access[u]) + Cardinality(assignment[u]) + Cardinality(legacy[u])

SignInAllowed(u) ==
    /\ role[u] \in SingleSite \cup {"SAFETY_OFFICER"} => SiteRows(u) > 0
    /\ role[u] \in SingleSite => SiteRows(u) = 1

\* resolveDataScope, for the roles that have one
Scope(u) == access[u] \cup assignment[u] \cup legacy[u]

----------------------------------------------------------------------------
(* What the observers remember. *)

\* What an edit leaves if nothing goes wrong: site_ids are written last.
Outcome(single, multi) ==
    IF multi # KeepSites THEN multi
    ELSE IF single \in Sites THEN {single} ELSE {}

NamesSites(e) == edit[e].single # Keep \/ edit[e].multi # KeepSites

SitesInFlight(u) ==
    \/ \E e \in Editors : edit[e].stage # "idle" /\ edit[e].user = u /\ NamesSites(e)
    \/ \E s \in Supporters : support[s].stage # "idle" /\ support[s].user = u

Ask(u, N) ==
    /\ asked' = [asked EXCEPT ![u] = IF SitesInFlight(u) THEN @ \cup {N} ELSE {N}]
    /\ broken' = IF SitesInFlight(u) THEN broken ELSE broken \ {u}

\* A failed edit excuses whatever it leaves behind.
Fail(u) ==
    /\ asked' = [asked EXCEPT ![u] = @ \cup {access[u] \cup assignment[u]}]
    /\ broken' = broken \cup {u}

----------------------------------------------------------------------------
(* Master data. *)

\* Mutation: the role is taken as the request gives it.
NextRoleAsGiven(u, r) == r

\* The role a request ends with: the user's own unless it names one.
NextRole(u, r) == IF r = Keep THEN role[u] ELSE r

\* Where the request goes on once its single site is written.
Proceed(e) ==
    edit' = [edit EXCEPT ![e] =
               IF @.multi = KeepSites THEN NoEdit
               ELSE [@ EXCEPT !.stage = "multi revoke", !.pending = {}]]

\* createMasterDriver: the user row, then the sites by role.
CreateUser(e, u, r, single, multi) ==
    /\ edit[e].stage = "idle"
    /\ role[u] = Absent
    /\ r = "SITE_SUPERVISOR" => single \in Sites
    /\ r = "SAFETY_OFFICER" <=> multi # {}
    /\ role' = [role EXCEPT ![u] = r]
    /\ edit' = [edit EXCEPT ![e] =
         IF r = "SAFETY_OFFICER"
         THEN [NoEdit EXCEPT !.stage = "multi revoke", !.user = u, !.role = r, !.multi = multi]
         ELSE [NoEdit EXCEPT !.stage = "single unassign", !.user = u, !.role = r, !.single = single]]
    /\ Ask(u, IF r = "SAFETY_OFFICER" THEN multi ELSE Outcome(single, KeepSites))
    /\ UNCHANGED <<assignment, access, legacy, support>>

\* updateMasterDriver up to its first write: what it checks, it reads here.
BeginUpdate(e, u, p) ==
    LET next == NextRole(u, p.role)
    IN  /\ edit[e].stage = "idle"
        /\ role[u] \in Managed
        /\ next = "SITE_SUPERVISOR" /\ p.single = Keep => access[u] \cup assignment[u] # {}
        /\ next = "SAFETY_OFFICER" => p.multi # {}
        /\ edit' = [edit EXCEPT ![e] = [NoEdit EXCEPT !.stage = "role", !.user = u,
                         !.role = next, !.single = p.single, !.multi = p.multi]]
        /\ IF p.single # Keep \/ p.multi # KeepSites
           THEN Ask(u, Outcome(p.single, p.multi)) ELSE UNCHANGED ghosts
        /\ UNCHANGED <<tables, support>>

\* A support transaction holds the lock on the users row it has updated.
Locked(u) == \E s \in Supporters : support[s].stage = "commit" /\ support[s].user = u

\* Inserting a row that a transaction has deleted waits for that transaction.
MayInsert(u, old, S) ==
    \A s \in Supporters : support[s].stage = "commit" /\ support[s].user = u =>
        support[s][old] \cap S = {}

WriteRole(e) ==
    /\ edit[e].stage = "role"
    /\ ~Locked(edit[e].user)
    /\ role' = [role EXCEPT ![edit[e].user] = edit[e].role]
    /\ edit' = [edit EXCEPT ![e] =
         IF ~NamesSites(e) THEN NoEdit
         ELSE [@ EXCEPT !.stage = IF edit[e].single # Keep THEN "single unassign" ELSE "multi revoke"]]
    /\ UNCHANGED <<assignment, access, legacy, support, ghosts>>

\* setSingleSiteAssignment: deleteMany, deleteMany ...  The update of users.site_id
\* that comes first belongs to the same step: sign-in and scope do not read it.
SingleUnassign(e) ==
    /\ edit[e].stage = "single unassign"
    /\ assignment' = [assignment EXCEPT ![edit[e].user] = {}]
    /\ edit' = [edit EXCEPT ![e].stage = "single revoke"]
    /\ UNCHANGED <<role, access, legacy, support, ghosts>>

\* Mutation: the access rows are left.
SingleRevokeNothing(e) ==
    /\ edit[e].stage = "single revoke"
    /\ IF edit[e].single = Nowhere THEN Proceed(e)
       ELSE edit' = [edit EXCEPT ![e] = [@ EXCEPT !.stage = "create", !.pending = {"assignment", "access"}]]
    /\ UNCHANGED <<role, assignment, access, legacy, support, ghosts>>

SingleRevoke(e) ==
    /\ edit[e].stage = "single revoke"
    /\ access' = [access EXCEPT ![edit[e].user] = {}]
    /\ IF edit[e].single = Nowhere THEN Proceed(e)
       ELSE edit' = [edit EXCEPT ![e] = [@ EXCEPT !.stage = "create", !.pending = {"assignment", "access"}]]
    /\ UNCHANGED <<role, assignment, legacy, support, ghosts>>

\* ... and both rows at once.  A row that exists by now refuses its duplicate
\* and fails the request; the other insert is under way all the same.
Insert(e, t) ==
    LET u == edit[e].user
        site == edit[e].single
        taken == site \in (IF t = "access" THEN access[u] ELSE assignment[u])
        old == IF t = "access" THEN "oldAccess" ELSE "oldAssignment"
        left == edit[e].pending \ {t}
        failed == edit[e].failed \/ taken
    IN  /\ edit[e].stage = "create"
        /\ t \in edit[e].pending
        /\ MayInsert(u, old, {site})
        /\ access' = IF t = "access" THEN [access EXCEPT ![u] = @ \cup {site}] ELSE access
        /\ assignment' = IF t = "assignment" THEN [assignment EXCEPT ![u] = @ \cup {site}] ELSE assignment
        /\ IF left = {} /\ ~failed THEN Proceed(e)
           ELSE edit' = [edit EXCEPT ![e] =
                  IF left = {} THEN NoEdit ELSE [@ EXCEPT !.pending = left, !.failed = failed]]
        /\ IF taken THEN Fail(u) ELSE UNCHANGED ghosts
        /\ UNCHANGED <<role, legacy, support>>

\* setMultiSiteAccess
MultiRevoke(e) ==
    /\ edit[e].stage = "multi revoke"
    /\ access' = [access EXCEPT ![edit[e].user] = {}]
    /\ edit' = [edit EXCEPT ![e].stage = IF edit[e].multi = {} THEN "multi unassign" ELSE "multi grant"]
    /\ UNCHANGED <<role, assignment, legacy, support, ghosts>>

MultiGrant(e) ==
    /\ edit[e].stage = "multi grant"
    /\ MayInsert(edit[e].user, "oldAccess", edit[e].multi)
    /\ access' = [access EXCEPT ![edit[e].user] = @ \cup edit[e].multi]
    /\ edit' = [edit EXCEPT ![e].stage = "multi unassign"]
    /\ UNCHANGED <<role, assignment, legacy, support, ghosts>>

\* Mutation: the second delete names the wrong table.
MultiUnassignAccess(e) ==
    /\ edit[e].stage = "multi unassign"
    /\ access' = [access EXCEPT ![edit[e].user] = {}]
    /\ edit' = [edit EXCEPT ![e] = IF @.multi = {} THEN NoEdit ELSE [@ EXCEPT !.stage = "multi assign"]]
    /\ UNCHANGED <<role, assignment, legacy, support, ghosts>>

MultiUnassign(e) ==
    /\ edit[e].stage = "multi unassign"
    /\ assignment' = [assignment EXCEPT ![edit[e].user] = {}]
    /\ edit' = [edit EXCEPT ![e] = IF @.multi = {} THEN NoEdit ELSE [@ EXCEPT !.stage = "multi assign"]]
    /\ UNCHANGED <<role, access, legacy, support, ghosts>>

MultiAssign(e) ==
    LET u == edit[e].user
    IN  /\ edit[e].stage = "multi assign"
        /\ \E first \in edit[e].multi :
             /\ MayInsert(u, "oldAssignment", {first})
             /\ assignment' = [assignment EXCEPT ![u] = @ \cup {first}]
             /\ IF first \in assignment[u] THEN Fail(u) ELSE UNCHANGED ghosts
        /\ edit' = [edit EXCEPT ![e] = NoEdit]
        /\ UNCHANGED <<role, access, legacy, support>>

\* A statement fails or the process dies: what was written stays.
Throw(e) ==
    /\ edit[e].stage # "idle"
    /\ edit' = [edit EXCEPT ![e] = NoEdit]
    /\ IF NamesSites(e) THEN Fail(edit[e].user) ELSE UNCHANGED ghosts
    /\ UNCHANGED <<tables, support>>

----------------------------------------------------------------------------
(* Platform support. *)

\* updateSupportTenantUser up to its transaction: what the request leaves out
\* is filled in from what is read here, one of the assignments included.
BeginSupport(s, u, r, single, multi) ==
    LET next == NextRole(u, r)
        sites == IF multi = KeepSites THEN access[u] ELSE multi
    IN  /\ support[s].stage = "idle"
        /\ role[u] # Absent
        /\ next # "SAFETY_OFFICER" => sites = {}
        /\ next = "SAFETY_OFFICER" => sites # {}
        /\ \E site \in (IF single # Keep THEN {single}
                        ELSE IF assignment[u] = {} THEN {Nowhere} ELSE assignment[u]) :
             /\ next \in SingleSite => site \in Sites
             /\ support' = [support EXCEPT ![s] =
                  [NoSupport EXCEPT !.stage = "begin", !.user = u, !.role = next,
                     !.assignment = IF next \in SingleSite THEN {site} ELSE {},
                     !.access = IF next = "SAFETY_OFFICER" THEN sites ELSE {}]]
             /\ Ask(u, IF next \in SingleSite THEN {site}
                       ELSE IF next = "SAFETY_OFFICER" THEN sites ELSE {})
        /\ UNCHANGED <<tables, edit>>

\* The transaction's deletes see what is committed by now.
DeleteOld(s) ==
    LET u == support[s].user
    IN  /\ support[s].stage = "begin"
        /\ ~Locked(u)
        /\ support' = [support EXCEPT ![s] = [@ EXCEPT !.stage = "commit",
                         !.oldAssignment = assignment[u], !.oldAccess = access[u]]]
        /\ UNCHANGED <<tables, edit, ghosts>>

\* Mutation: the access rows are not created.
CommitSupportNoAccess(s) ==
    LET t == support[s]
        assigned == assignment[t.user] \ t.oldAssignment
        granted == access[t.user] \ t.oldAccess
    IN  /\ t.stage = "commit"
        /\ assigned \cap t.assignment = {} /\ granted \cap t.access = {}
        /\ role' = [role EXCEPT ![t.user] = t.role]
        /\ assignment' = [assignment EXCEPT ![t.user] = assigned \cup t.assignment]
        /\ access' = [access EXCEPT ![t.user] = granted]
        /\ support' = [support EXCEPT ![s] = NoSupport]
        /\ UNCHANGED <<legacy, edit, ghosts>>

\* The rows it adds must not have been added by anyone since.
CommitSupport(s) ==
    LET t == support[s]
        assigned == assignment[t.user] \ t.oldAssignment
        granted == access[t.user] \ t.oldAccess
    IN  /\ t.stage = "commit"
        /\ assigned \cap t.assignment = {} /\ granted \cap t.access = {}
        /\ role' = [role EXCEPT ![t.user] = t.role]
        /\ assignment' = [assignment EXCEPT ![t.user] = assigned \cup t.assignment]
        /\ access' = [access EXCEPT ![t.user] = granted \cup t.access]
        /\ support' = [support EXCEPT ![s] = NoSupport]
        /\ UNCHANGED <<legacy, edit, ghosts>>

\* ... otherwise, or on any other failure, it is rolled back.
RollBack(s) ==
    /\ support[s].stage # "idle"
    /\ support' = [support EXCEPT ![s] = NoSupport]
    /\ Fail(support[s].user)
    /\ UNCHANGED <<tables, edit>>

\* The onboarding import adds the sites of its supervisors.
ImportSupervisorSite(u, site) ==
    /\ role[u] = "SITE_SUPERVISOR"
    /\ site \notin legacy[u]
    /\ legacy' = [legacy EXCEPT ![u] = @ \cup {site}]
    /\ UNCHANGED <<role, assignment, access, edit, support, ghosts>>

----------------------------------------------------------------------------
Administer(e) ==
    \/ \E u \in Users, r \in Managed, single \in Sites \cup {Nowhere}, multi \in SUBSET Sites :
          CreateUser(e, u, r, single, multi)
    \/ \E u \in Users, p \in Payloads : BeginUpdate(e, u, p)
    \/ WriteRole(e)
    \/ SingleUnassign(e) \/ SingleRevoke(e)
    \/ \E t \in {"assignment", "access"} : Insert(e, t)
    \/ MultiRevoke(e) \/ MultiGrant(e) \/ MultiUnassign(e) \/ MultiAssign(e)
    \/ Throw(e)

GiveSupport(s) ==
    \/ \E u \in Users, r \in Roles \cup {Keep}, single \in SingleChoice, multi \in MultiChoice :
          BeginSupport(s, u, r, single, multi)
    \/ DeleteOld(s) \/ CommitSupport(s) \/ RollBack(s)

Next ==
    \/ \E e \in Editors : Administer(e)
    \/ \E s \in Supporters : GiveSupport(s)
    \/ \E u \in Users, site \in Imported : ImportSupervisorSite(u, site)

Spec == Init /\ [][Next]_vars

----------------------------------------------------------------------------
(***************************************************************************)
(* Safety, when no edit of the user's sites is in flight.                  *)
(***************************************************************************)

\* A site taken away stays away: however the edits of a user overlapped and
\* wherever one of them stopped, the two tables hold no site but those asked
\* for since the user was last left alone.
RemovedSitesGo ==
    \A u \in Users : ~SitesInFlight(u) =>
        access[u] \cup assignment[u] \subseteq UNION asked[u]

\* And one of the edits gets its way in full: unless one failed, overlapping
\* edits do not delete each other's sites down to nothing.
SomeEditWins ==
    \A u \in Users : ~SitesInFlight(u) /\ u \notin broken =>
        \E N \in asked[u] : N \subseteq access[u] \cup assignment[u]

\* With support among them two edits may each get half of their way, but a user
\* whom all of them give a site keeps one.
NotLeftWithout ==
    \A u \in Users : ~SitesInFlight(u) /\ u \notin broken /\ {} \notin asked[u] =>
        access[u] \cup assignment[u] # {}

\* "This role must be assigned to exactly one site before sign in."
\* (auth.service.ts:85): a driver or supervisor who is assigned exactly one
\* site is let in.
OneSiteSignsIn ==
    \A u \in Users :
        role[u] \in SingleSite /\ ~SitesInFlight(u) /\ Cardinality(Scope(u)) = 1
            => SignInAllowed(u)

\* "Site Supervisor requires a site assignment." (master-data.service.ts:642):
\* no completed edit leaves a supervisor without one.
SupervisorHasSite ==
    \A u \in Users :
        role[u] = "SITE_SUPERVISOR" /\ ~SitesInFlight(u) /\ u \notin broken => Scope(u) # {}
=============================================================================

------------------------ MODULE SiteAssignmentProofs ------------------------
(***************************************************************************)
(* Proofs about SiteAssignment for any number of users, sites,             *)
(* administrators' and support requests.                                   *)
(***************************************************************************)
EXTENDS SiteAssignment, TLAPS

USE SitesAssumption

----------------------------------------------------------------------------
(* Types.  A request that has come as far as a statement has what the      *)
(* statement writes: a site to insert, a list of sites to replace.         *)

EditShape(d) ==
    /\ d.stage # "idle" => d.user \in Users /\ d.role \in Managed
    /\ d.stage \in {"single unassign", "single revoke"} => d.single # Keep
    /\ d.stage = "create" => d.single \in Sites
    /\ d.stage \in {"multi revoke", "multi grant", "multi unassign", "multi assign"}
          => d.multi # KeepSites

SupportShape(t) == t.stage # "idle" => t.user \in Users /\ t.role \in Roles

ShapeOK ==
    /\ \A e \in Editors : EditShape(edit[e])
    /\ \A s \in Supporters : SupportShape(support[s])

TypeInv == TypeOK /\ ShapeOK

LEMMA IdleTypes ==
    /\ NoEdit \in Edit /\ EditShape(NoEdit)
    /\ NoSupport \in Support /\ SupportShape(NoSupport)
  BY DEF NoEdit, NoSupport, Edit, Support, EditShape, SupportShape, SingleChoice,
         MultiChoice, KeepSites, EditStages

LEMMA TypeInit == Init => TypeInv
  BY IdleTypes DEF Init, TypeInv, TypeOK, ShapeOK

LEMMA NextRoleType ==
    ASSUME TypeInv, NEW u \in Users, NEW r \in Roles \cup {Keep}, role[u] # Absent
    PROVE  /\ NextRole(u, r) \in Roles
           /\ r \in Managed \cup {Keep} /\ role[u] \in Managed => NextRole(u, r) \in Managed
  BY DEF NextRole, TypeInv, TypeOK, Keep, Roles, Managed, SingleSite

\* What the observers do keeps to the types.
LEMMA GhostTypes ==
    ASSUME TypeInv, NEW u \in Users
    PROVE  /\ \A N \in SUBSET Sites : Ask(u, N) =>
                  asked' \in [Users -> SUBSET SUBSET Sites] /\ broken' \subseteq Users
           /\ Fail(u) => asked' \in [Users -> SUBSET SUBSET Sites] /\ broken' \subseteq Users
  BY DEF Ask, Fail, TypeInv, TypeOK

\* It is enough to look at the edit that changes.
LEMMA EditTypes ==
    ASSUME TypeInv, NEW e \in Editors, NEW d \in Edit, EditShape(d),
           edit' = [edit EXCEPT ![e] = d]
    PROVE  edit' \in [Editors -> Edit] /\ \A f \in Editors : EditShape(edit'[f])
  BY DEF TypeInv, TypeOK, ShapeOK

LEMMA SupportTypes ==
    ASSUME TypeInv, NEW s \in Supporters, NEW t \in Support, SupportShape(t),
           support' = [support EXCEPT ![s] = t]
    PROVE  support' \in [Supporters -> Support] /\ \A f \in Supporters : SupportShape(support'[f])
  BY DEF TypeInv, TypeOK, ShapeOK

LEMMA ProceedTypes ==
    ASSUME TypeInv, NEW e \in Editors, Proceed(e), edit[e].stage # "idle"
    PROVE  edit' \in [Editors -> Edit] /\ \A f \in Editors : EditShape(edit'[f])
  <1> DEFINE d == IF edit[e].multi = KeepSites THEN NoEdit
                  ELSE [edit[e] EXCEPT !.stage = "multi revoke", !.pending = {}]
  <1>1. edit[e] \in Edit /\ EditShape(edit[e])
    BY DEF TypeInv, TypeOK, ShapeOK
  <1>2. d \in Edit /\ EditShape(d)
    BY <1>1, IdleTypes DEF Edit, EditShape, EditStages
  <1>3. edit' = [edit EXCEPT ![e] = d]
    BY DEF Proceed, TypeInv, TypeOK
  <1> QED
    BY <1>2, <1>3, EditTypes


LEMMA TypeEdit ==
    ASSUME TypeInv, NEW e \in Editors, Administer(e)
    PROVE  TypeInv'
  <1> DEFINE EditsOK == edit' \in [Editors -> Edit] /\ \A f \in Editors : EditShape(edit'[f])
             SupportKept == support' = support
             GhostsOK == asked' \in [Users -> SUBSET SUBSET Sites] /\ broken' \subseteq Users
             TablesOK == /\ role' \in [Users -> Roles \cup {Absent}]
                         /\ assignment' \in [Users -> SUBSET Sites]
                         /\ access' \in [Users -> SUBSET Sites]
                         /\ legacy' \in [Users -> SUBSET Sites]
  <1>0. /\ edit[e] \in Edit /\ EditShape(edit[e])
        /\ edit[e].stage # "idle" => edit[e].user \in Users /\ edit[e].role \in Managed
    BY DEF TypeInv, TypeOK, ShapeOK, EditShape
  <1>t. ASSUME EditsOK, SupportKept, GhostsOK, TablesOK
        PROVE  TypeInv'
    BY <1>t DEF TypeInv, TypeOK, ShapeOK
  <1>g. UNCHANGED ghosts => GhostsOK
    BY DEF ghosts, TypeInv, TypeOK
  <1>1. ASSUME NEW u \in Users, NEW r \in Managed, NEW single \in Sites \cup {Nowhere},
               NEW multi \in SUBSET Sites, CreateUser(e, u, r, single, multi)
        PROVE  TypeInv'
    <2> DEFINE d == IF r = "SAFETY_OFFICER"
           THEN [NoEdit EXCEPT !.stage = "multi revoke", !.user = u, !.role = r, !.multi = multi]
           ELSE [NoEdit EXCEPT !.stage = "single unassign", !.user = u, !.role = r, !.single = single]
    <2>1. multi # KeepSites /\ single # Keep /\ single \in SingleChoice /\ multi \in MultiChoice
      BY DEF KeepSites, Keep, Nowhere, SingleChoice, MultiChoice
    <2>2. d \in Edit /\ EditShape(d)
      BY <2>1 DEF Edit, EditShape, EditStages, NoEdit, SingleChoice, MultiChoice, Managed
    <2>3. EditsOK
      BY <1>1, <2>2, EditTypes DEF CreateUser
    <2>4. GhostsOK
      BY <1>1, GhostTypes DEF CreateUser, Outcome, KeepSites
    <2>5. TablesOK
      BY <1>1 DEF CreateUser, TypeInv, TypeOK, Roles
    <2> QED
      BY <1>1, <1>t, <2>3, <2>4, <2>5 DEF CreateUser
  <1>2. ASSUME NEW u \in Users, NEW p \in Payloads, BeginUpdate(e, u, p)
        PROVE  TypeInv'
    <2> DEFINE next == NextRole(u, p.role)
               d == [NoEdit EXCEPT !.stage = "role", !.user = u, !.role = next,
                                   !.single = p.single, !.multi = p.multi]
    <2>1. p.role \in Managed \cup {Keep} /\ p.single \in SingleChoice /\ p.multi \in MultiChoice
      BY PayloadsAssumption DEF AnyPayload
    <2>2. next \in Managed
      BY <1>2, <2>1, NextRoleType DEF BeginUpdate, Roles, Managed, SingleSite, Absent
    <2> HIDE DEF next
    <2>3. d \in Edit /\ EditShape(d)
      BY <2>1, <2>2 DEF Edit, EditShape, EditStages, NoEdit
    <2>4. EditsOK
      BY <1>2, <2>3, EditTypes DEF BeginUpdate, next
    <2>5. Outcome(p.single, p.multi) \in SUBSET Sites
      BY <2>1 DEF Outcome, SingleChoice, MultiChoice
    <2>6. GhostsOK
      BY <1>2, <1>g, <2>5, GhostTypes DEF BeginUpdate
    <2> QED
      BY <1>2, <1>t, <2>4, <2>6 DEF BeginUpdate, tables, TypeInv, TypeOK
  <1>3. ASSUME WriteRole(e)
        PROVE  TypeInv'
    <2> DEFINE d == IF ~NamesSites(e) THEN NoEdit
                    ELSE [edit[e] EXCEPT !.stage =
                            IF edit[e].single # Keep THEN "single unassign" ELSE "multi revoke"]
    <2>1. d \in Edit /\ EditShape(d)
      BY <1>0, <1>3, IdleTypes DEF Edit, EditShape, EditStages, NamesSites, WriteRole
    <2>2. EditsOK
      BY <1>3, <2>1, EditTypes DEF WriteRole, TypeInv, TypeOK
    <2> QED
      BY <1>0, <1>3, <1>g, <1>t, <2>2 DEF WriteRole, TypeInv, TypeOK, Roles
  <1>4. ASSUME SingleUnassign(e)
        PROVE  TypeInv'
    <2> DEFINE d == [edit[e] EXCEPT !.stage = "single revoke"]
    <2>1. d \in Edit /\ EditShape(d)
      BY <1>0, <1>4 DEF Edit, EditShape, EditStages, SingleUnassign
    <2>2. EditsOK
      BY <1>4, <2>1, EditTypes DEF SingleUnassign, TypeInv, TypeOK
    <2> QED
      BY <1>4, <1>g, <1>t, <2>2 DEF SingleUnassign, TypeInv, TypeOK
  <1>5. ASSUME SingleRevoke(e)
        PROVE  TypeInv'
    <2> DEFINE d == [edit[e] EXCEPT !.stage = "create", !.pending = {"assignment", "access"}]
    <2>1. edit[e].single # Nowhere => d \in Edit /\ EditShape(d)
      BY <1>0, <1>5 DEF Edit, EditShape, EditStages, SingleRevoke, SingleChoice
    <2>2. EditsOK
      <3>1. CASE edit[e].single = Nowhere
        BY <1>5, <3>1, ProceedTypes DEF SingleRevoke
      <3>2. CASE edit[e].single # Nowhere
        BY <1>5, <3>2, <2>1, EditTypes DEF SingleRevoke, TypeInv, TypeOK
      <3> QED
        BY <3>1, <3>2
    <2> QED
      BY <1>5, <1>g, <1>t, <2>2 DEF SingleRevoke, TypeInv, TypeOK
  <1>6. ASSUME NEW t \in {"assignment", "access"}, Insert(e, t)
        PROVE  TypeInv'
    <2> DEFINE u == edit[e].user
               taken == edit[e].single \in (IF t = "access" THEN access[u] ELSE assignment[u])
               left == edit[e].pending \ {t}
               failed == edit[e].failed \/ taken
               d == IF left = {} THEN NoEdit ELSE [edit[e] EXCEPT !.pending = left, !.failed = failed]
    <2>1. u \in Users /\ edit[e].single \in Sites
      BY <1>0, <1>6 DEF Insert, EditShape
    <2>2. d \in Edit /\ EditShape(d)
      <3>1. failed \in BOOLEAN
        BY Zenon
      <3>2. left \in SUBSET {"assignment", "access"}
        BY <1>0 DEF Edit
      <3> HIDE DEF failed, left
      <3>3. CASE left = {}
        BY <3>3, IdleTypes
      <3>4. CASE left # {}
        BY <1>0, <1>6, <3>1, <3>2, <3>4 DEF Edit, EditShape, Insert
      <3> QED
        BY <3>3, <3>4
    <2>3. EditsOK
      <3>1. CASE left = {} /\ ~failed
        BY <1>6, <3>1, ProceedTypes DEF Insert
      <3>2. CASE ~(left = {} /\ ~failed)
        BY <1>6, <3>2, <2>2, EditTypes DEF Insert, TypeInv, TypeOK
      <3> QED
        BY <3>1, <3>2
    <2>4. GhostsOK
      BY <1>6, <1>g, <2>1, GhostTypes DEF Insert
    <2> QED
      BY <1>6, <1>t, <2>1, <2>3, <2>4 DEF Insert, TypeInv, TypeOK
  <1>7. ASSUME MultiRevoke(e)
        PROVE  TypeInv'
    <2> DEFINE d == [edit[e] EXCEPT !.stage = IF edit[e].multi = {} THEN "multi unassign"
                                              ELSE "multi grant"]
    <2>1. d \in Edit /\ EditShape(d)
      BY <1>0, <1>7 DEF Edit, EditShape, EditStages, MultiRevoke
    <2>2. EditsOK
      BY <1>7, <2>1, EditTypes DEF MultiRevoke, TypeInv, TypeOK
    <2> QED
      BY <1>7, <1>g, <1>t, <2>2 DEF MultiRevoke, TypeInv, TypeOK
  <1>8. ASSUME MultiGrant(e)
        PROVE  TypeInv'
    <2> DEFINE d == [edit[e] EXCEPT !.stage = "multi unassign"]
    <2>1. d \in Edit /\ EditShape(d) /\ edit[e].multi \in SUBSET Sites
      BY <1>0, <1>8 DEF Edit, EditShape, EditStages, MultiGrant, MultiChoice
    <2>2. EditsOK
      BY <1>8, <2>1, EditTypes DEF MultiGrant, TypeInv, TypeOK
    <2> QED
      BY <1>8, <1>g, <1>t, <2>1, <2>2 DEF MultiGrant, TypeInv, TypeOK
  <1>9. ASSUME MultiUnassign(e)
        PROVE  TypeInv'
    <2> DEFINE d == IF edit[e].multi = {} THEN NoEdit ELSE [edit[e] EXCEPT !.stage = "multi assign"]
    <2>1. d \in Edit /\ EditShape(d)
      BY <1>0, <1>9, IdleTypes DEF Edit, EditShape, EditStages, MultiUnassign
    <2>2. EditsOK
      BY <1>9, <2>1, EditTypes DEF MultiUnassign, TypeInv, TypeOK
    <2> QED
      BY <1>9, <1>g, <1>t, <2>2 DEF MultiUnassign, TypeInv, TypeOK
  <1>10. ASSUME MultiAssign(e)
         PROVE  TypeInv'
    <2>1. edit[e].multi \in SUBSET Sites /\ edit[e].user \in Users
      BY <1>0, <1>10 DEF Edit, EditShape, MultiAssign, MultiChoice
    <2>2. EditsOK
      BY <1>10, IdleTypes, EditTypes DEF MultiAssign
    <2>3. GhostsOK
      BY <1>10, <1>g, <2>1, GhostTypes DEF MultiAssign
    <2>4. PICK first \in Sites :
             assignment' = [assignment EXCEPT ![edit[e].user] = @ \cup {first}]
      BY <1>10, <2>1 DEF MultiAssign
    <2>5. TablesOK
      BY <1>10, <2>1, <2>4 DEF MultiAssign, TypeInv, TypeOK
    <2> QED
      BY <1>10, <1>t, <2>2, <2>3, <2>5 DEF MultiAssign
  <1>11. ASSUME Throw(e)
         PROVE  TypeInv'
    <2>1. EditsOK
      BY <1>11, IdleTypes, EditTypes DEF Throw
    <2>2. GhostsOK
      BY <1>0, <1>11, <1>g, GhostTypes DEF Throw
    <2> QED
      BY <1>11, <1>t, <2>1, <2>2 DEF Throw, tables, TypeInv, TypeOK
  <1> QED
    BY <1>1, <1>2, <1>3, <1>4, <1>5, <1>6, <1>7, <1>8, <1>9, <1>10, <1>11 DEF Administer

LEMMA TypeSupport ==
    ASSUME TypeInv, NEW s \in Supporters, GiveSupport(s)
    PROVE  TypeInv'
  <1> DEFINE SupportOK == support' \in [Supporters -> Support] /\ \A f \in Supporters : SupportShape(support'[f])
  <1>0. support[s] \in Support /\ SupportShape(support[s])
    BY DEF TypeInv, TypeOK, ShapeOK
  <1>1. ASSUME NEW u \in Users, NEW r \in Roles \cup {Keep}, NEW single \in SingleChoice,
               NEW multi \in MultiChoice, BeginSupport(s, u, r, single, multi)
        PROVE  TypeInv'
    <2> DEFINE next == NextRole(u, r)
               sites == IF multi = KeepSites THEN access[u] ELSE multi
    <2>1. PICK site \in (IF single # Keep THEN {single}
                         ELSE IF assignment[u] = {} THEN {Nowhere} ELSE assignment[u]) :
             /\ next \in SingleSite => site \in Sites
             /\ support' = [support EXCEPT ![s] =
                  [NoSupport EXCEPT !.stage = "begin", !.user = u, !.role = next,
                     !.assignment = IF next \in SingleSite THEN {site} ELSE {},
                     !.access = IF next = "SAFETY_OFFICER" THEN sites ELSE {}]]
             /\ Ask(u, IF next \in SingleSite THEN {site}
                       ELSE IF next = "SAFETY_OFFICER" THEN sites ELSE {})
      BY <1>1 DEF BeginSupport
    <2>2. next \in Roles
      BY <1>1, NextRoleType DEF BeginSupport
    <2>3. sites \in SUBSET Sites
      BY DEF MultiChoice, TypeInv, TypeOK
    <2> HIDE DEF next, sites
    <2> DEFINE t == [NoSupport EXCEPT !.stage = "begin", !.user = u, !.role = next,
                       !.assignment = IF next \in SingleSite THEN {site} ELSE {},
                       !.access = IF next = "SAFETY_OFFICER" THEN sites ELSE {}]
    <2>4. t \in Support /\ SupportShape(t)
      BY <2>1, <2>2, <2>3 DEF Support, SupportShape, NoSupport
    <2>5. SupportOK
      BY <2>1, <2>4, SupportTypes
    <2>6. asked' \in [Users -> SUBSET SUBSET Sites] /\ broken' \subseteq Users
      BY <2>1, <2>3, GhostTypes
    <2> QED
      BY <1>1, <2>5, <2>6 DEF BeginSupport, tables, TypeInv, TypeOK, ShapeOK
  <1>2. ASSUME DeleteOld(s)
        PROVE  TypeInv'
    <2> DEFINE u == support[s].user
               t == [support[s] EXCEPT !.stage = "commit",
                       !.oldAssignment = assignment[u], !.oldAccess = access[u]]
    <2>1. /\ u \in Users /\ support[s].role \in Roles
          /\ assignment[u] \in SUBSET Sites /\ access[u] \in SUBSET Sites
      BY <1>0, <1>2 DEF DeleteOld, SupportShape, TypeInv, TypeOK
    <2>2. t \in Support /\ SupportShape(t)
      BY <1>0, <2>1 DEF Support, SupportShape
    <2>3. support' = [support EXCEPT ![s] = t]
      BY <1>2 DEF DeleteOld, TypeInv, TypeOK
    <2>4. SupportOK
      BY <2>2, <2>3, SupportTypes
    <2> QED
      BY <1>2, <2>4 DEF DeleteOld, tables, ghosts, TypeInv, TypeOK, ShapeOK
  <1>3. ASSUME CommitSupport(s)
        PROVE  TypeInv'
    <2>1. SupportOK
      BY <1>3, IdleTypes, SupportTypes DEF CommitSupport
    <2>2. /\ support[s].user \in Users /\ support[s].role \in Roles
          /\ support[s].assignment \subseteq Sites /\ support[s].access \subseteq Sites
      BY <1>0, <1>3 DEF CommitSupport, SupportShape, Support
    <2>3. /\ role' \in [Users -> Roles \cup {Absent}]
          /\ assignment' \in [Users -> SUBSET Sites] /\ access' \in [Users -> SUBSET Sites]
      BY <1>3, <2>2 DEF CommitSupport, TypeInv, TypeOK
    <2> QED
      BY <1>3, <2>1, <2>3 DEF CommitSupport, ghosts, TypeInv, TypeOK, ShapeOK
  <1>4. ASSUME RollBack(s)
        PROVE  TypeInv'
    <2>1. SupportOK
      BY <1>4, IdleTypes, SupportTypes DEF RollBack
    <2>2. asked' \in [Users -> SUBSET SUBSET Sites] /\ broken' \subseteq Users
      BY <1>0, <1>4, GhostTypes DEF RollBack, SupportShape
    <2> QED
      BY <1>4, <2>1, <2>2 DEF RollBack, tables, TypeInv, TypeOK, ShapeOK
  <1> QED
    BY <1>1, <1>2, <1>3, <1>4 DEF GiveSupport

LEMMA TypeStep ==
    ASSUME TypeInv, [Next]_vars
    PROVE  TypeInv'
  <1>1. ASSUME NEW u \in Users, NEW site \in Imported, ImportSupervisorSite(u, site)
        PROVE  TypeInv'
    BY <1>1 DEF ImportSupervisorSite, ghosts, TypeInv, TypeOK, ShapeOK
  <1>2. CASE UNCHANGED vars
    BY <1>2 DEF vars, TypeInv, TypeOK, ShapeOK
  <1> QED
    BY <1>1, <1>2, TypeEdit, TypeSupport DEF Next

\* The site assignment is type-correct and no statement lacks what it writes.
LEMMA TypeInvariant == Spec => []TypeInv
  BY TypeInit, TypeStep, PTL DEF Spec

\* For any number of users, sites and overlapping requests the state keeps to
\* its types.
THEOREM SitesTypeCorrect == Spec => []TypeOK
  <1>1. TypeInv => TypeOK
    BY DEF TypeInv
  <1> QED
    BY <1>1, TypeInvariant, PTL

----------------------------------------------------------------------------
(* No request forgets a site it is to remove. *)

Asked(u) == UNION asked[u]

\* What an edit is going to leave has been asked for.  A single site that a
\* list of sites replaces in the same request has not, unless the request failed.
EditAsked(e) ==
    LET d == edit[e]
    IN  d.stage # "idle" =>
          /\ d.multi # KeepSites => d.multi \subseteq Asked(d.user)
          /\ d.single \in Sites /\ (d.multi = KeepSites \/ d.failed) => d.single \in Asked(d.user)

SupportAsked(s) ==
    support[s].stage # "idle" =>
        support[s].assignment \cup support[s].access \subseteq Asked(support[s].user)

\* The edit still has to empty a table, and cannot end without doing so or failing.
Empties(e, u, here) ==
    /\ edit[e].user = u
    /\ \/ edit[e].stage \in here
       \/ edit[e].stage = "role" /\ NamesSites(e)
       \/ edit[e].stage \in {"single unassign", "multi revoke"}
       \/ /\ edit[e].stage \in {"single revoke", "create"}
          /\ edit[e].multi # KeepSites
          /\ ~edit[e].failed

EmptiesAccess(e, u) == Empties(e, u, {"single revoke"})
EmptiesAssignment(e, u) == Empties(e, u, {"multi grant", "multi unassign"})

\* A transaction is going to replace the rows nobody asked for.
ReplacesAccess(s, u) ==
    /\ support[s].user = u
    /\ \/ support[s].stage = "begin"
       \/ support[s].stage = "commit" /\ access[u] \ support[s].oldAccess \subseteq Asked(u)

ReplacesAssignment(s, u) ==
    /\ support[s].user = u
    /\ \/ support[s].stage = "begin"
       \/ support[s].stage = "commit" /\ assignment[u] \ support[s].oldAssignment \subseteq Asked(u)

AccessCovered(u) ==
    \/ access[u] \subseteq Asked(u)
    \/ \E e \in Editors : EmptiesAccess(e, u)
    \/ \E s \in Supporters : ReplacesAccess(s, u)

AssignmentCovered(u) ==
    \/ assignment[u] \subseteq Asked(u)
    \/ \E e \in Editors : EmptiesAssignment(e, u)
    \/ \E s \in Supporters : ReplacesAssignment(s, u)

CoverInv ==
    /\ TypeInv
    /\ \A e \in Editors : EditAsked(e)
    /\ \A s \in Supporters : SupportAsked(s)
    /\ \A u \in Users : AccessCovered(u) /\ AssignmentCovered(u)

LEMMA CoverInit == Init => CoverInv
  <1> SUFFICES ASSUME Init PROVE CoverInv
    OBVIOUS
  <1>1. /\ \A e \in Editors : EditAsked(e)
        /\ \A s \in Supporters : SupportAsked(s)
    BY DEF Init, EditAsked, SupportAsked, NoEdit, NoSupport
  <1>2. \A u \in Users : AccessCovered(u) /\ AssignmentCovered(u)
    BY DEF Init, AccessCovered, AssignmentCovered
  <1> QED
    BY <1>1, <1>2, TypeInit DEF CoverInv

\* What has been asked for is forgotten only when nothing is in flight.
LEMMA AskGrows ==
    ASSUME TypeInv, NEW u \in Users, NEW N \in SUBSET Sites, Ask(u, N)
    PROVE  /\ N \subseteq Asked(u)'
           /\ \A v \in Users : SitesInFlight(v) \/ v # u => Asked(v) \subseteq Asked(v)'
  BY DEF Ask, Asked, TypeInv, TypeOK

\* A failure excuses the rows it leaves.
LEMMA FailCovers ==
    ASSUME TypeInv, NEW u \in Users, Fail(u)
    PROVE  /\ access[u] \cup assignment[u] \subseteq Asked(u)'
           /\ \A v \in Users : Asked(v) \subseteq Asked(v)'
  BY DEF Fail, Asked, TypeInv, TypeOK

LEMMA GhostsKept ==
    ASSUME UNCHANGED ghosts
    PROVE  \A v \in Users : Asked(v)' = Asked(v)
  BY DEF ghosts, Asked

LEMMA InFlight ==
    /\ \A e \in Editors : edit[e].stage # "idle" /\ NamesSites(e) => SitesInFlight(edit[e].user)
    /\ \A s \in Supporters : support[s].stage # "idle" => SitesInFlight(support[s].user)
  BY DEF SitesInFlight

\* What a step of an edit owes each user in each table: a table that holds only
\* what was asked for, an edit that is still going to empty it, or no more
\* rows than before but those asked for.
KeepsAccess(e, v) ==
    \/ access'[v] \subseteq Asked(v)'
    \/ EmptiesAccess(e, v)'
    \/ Asked(v) \subseteq Asked(v)' /\ access'[v] \subseteq access[v] \cup Asked(v)' /\ ~EmptiesAccess(e, v)

KeepsAssignment(e, v) ==
    \/ assignment'[v] \subseteq Asked(v)'
    \/ EmptiesAssignment(e, v)'
    \/ Asked(v) \subseteq Asked(v)' /\ assignment'[v] \subseteq assignment[v] \cup Asked(v)'
         /\ ~EmptiesAssignment(e, v)

LEMMA EditKeepsCover ==
    ASSUME CoverInv, TypeInv', NEW e \in Editors, support' = support,
           \A f \in Editors \ {e} : edit'[f] = edit[f],
           EditAsked(e)',
           \A v \in Users : SitesInFlight(v) => Asked(v) \subseteq Asked(v)',
           \A v \in Users : KeepsAccess(e, v) /\ KeepsAssignment(e, v)
    PROVE  CoverInv'
  <1>1. ASSUME NEW f \in Editors
        PROVE  EditAsked(f)'
    <2>1. CASE f = e
      BY <2>1
    <2>2. CASE f # e /\ edit[f].stage # "idle" /\ NamesSites(f)
      BY <2>2, InFlight DEF CoverInv, EditAsked, TypeInv, ShapeOK, EditShape
    <2>3. CASE f # e /\ ~(edit[f].stage # "idle" /\ NamesSites(f))
      BY <2>3 DEF EditAsked, NamesSites
    <2> QED
      BY <2>1, <2>2, <2>3
  <1>2. ASSUME NEW s \in Supporters
        PROVE  SupportAsked(s)'
    BY InFlight DEF CoverInv, SupportAsked, TypeInv, ShapeOK, SupportShape
  <1>3. ASSUME NEW u \in Users
        PROVE  AccessCovered(u)'
    <2>1. CASE access'[u] \subseteq Asked(u)' \/ EmptiesAccess(e, u)'
      BY <2>1 DEF AccessCovered
    <2>2. CASE Asked(u) \subseteq Asked(u)' /\ access'[u] \subseteq access[u] \cup Asked(u)'
                 /\ ~EmptiesAccess(e, u)
      <3>1. CASE access[u] \subseteq Asked(u)
        BY <2>2, <3>1 DEF AccessCovered
      <3>2. ASSUME NEW f \in Editors, EmptiesAccess(f, u)
            PROVE  AccessCovered(u)'
        <4>1. EmptiesAccess(f, u)'
          BY <2>2, <3>2 DEF EmptiesAccess, Empties, NamesSites
        <4> QED
          BY <4>1 DEF AccessCovered
      <3>3. ASSUME NEW s \in Supporters, ReplacesAccess(s, u)
            PROVE  AccessCovered(u)'
        <4>1. ReplacesAccess(s, u)'
          BY <2>2, <3>3 DEF ReplacesAccess
        <4> QED
          BY <4>1 DEF AccessCovered
      <3> QED
        BY <3>1, <3>2, <3>3 DEF CoverInv, AccessCovered
    <2> QED
      BY <2>1, <2>2 DEF KeepsAccess
  <1>4. ASSUME NEW u \in Users
        PROVE  AssignmentCovered(u)'
    <2>1. CASE assignment'[u] \subseteq Asked(u)' \/ EmptiesAssignment(e, u)'
      BY <2>1 DEF AssignmentCovered
    <2>2. CASE Asked(u) \subseteq Asked(u)' /\ assignment'[u] \subseteq assignment[u] \cup Asked(u)'
                 /\ ~EmptiesAssignment(e, u)
      <3>1. CASE assignment[u] \subseteq Asked(u)
        BY <2>2, <3>1 DEF AssignmentCovered
      <3>2. ASSUME NEW f \in Editors, EmptiesAssignment(f, u)
            PROVE  AssignmentCovered(u)'
        <4>1. EmptiesAssignment(f, u)'
          BY <2>2, <3>2 DEF EmptiesAssignment, Empties, NamesSites
        <4> QED
          BY <4>1 DEF AssignmentCovered
      <3>3. ASSUME NEW s \in Supporters, ReplacesAssignment(s, u)
            PROVE  AssignmentCovered(u)'
        <4>1. ReplacesAssignment(s, u)'
          BY <2>2, <3>3 DEF ReplacesAssignment
        <4> QED
          BY <4>1 DEF AssignmentCovered
      <3> QED
        BY <3>1, <3>2, <3>3 DEF CoverInv, AssignmentCovered
    <2> QED
      BY <2>1, <2>2 DEF KeepsAssignment
  <1> QED
    BY <1>1, <1>2, <1>3, <1>4 DEF CoverInv
\* All that moving on to another statement changes.
MovesTo(e, stage) ==
    /\ edit'[e].stage = stage
    /\ edit'[e].user = edit[e].user /\ edit'[e].failed = edit[e].failed
    /\ edit'[e].single = edit[e].single /\ edit'[e].multi = edit[e].multi

LEMMA StageSet ==
    ASSUME TypeInv, NEW e \in Editors, NEW stage
    PROVE  /\ edit' = [edit EXCEPT ![e].stage = stage] => MovesTo(e, stage)
           /\ edit' = [edit EXCEPT ![e] = [@ EXCEPT !.stage = stage]] => MovesTo(e, stage)
           /\ \A pending : edit' = [edit EXCEPT ![e] = [@ EXCEPT !.stage = stage, !.pending = pending]]
                 => MovesTo(e, stage)
  <1>1. edit[e] \in Edit /\ edit \in [Editors -> Edit]
    BY DEF TypeInv, TypeOK
  <1>2. ASSUME edit'[e] = [edit[e] EXCEPT !.stage = stage]
        PROVE  MovesTo(e, stage)
    BY <1>1, <1>2 DEF MovesTo, Edit
  <1>3. ASSUME NEW pending, edit'[e] = [edit[e] EXCEPT !.stage = stage, !.pending = pending]
        PROVE  MovesTo(e, stage)
    <2>1. PICK d : d = [edit[e] EXCEPT !.stage = stage]
      OBVIOUS
    <2>2. /\ DOMAIN d = DOMAIN edit[e] /\ d.stage = stage
          /\ d.user = edit[e].user /\ d.failed = edit[e].failed
          /\ d.single = edit[e].single /\ d.multi = edit[e].multi
      BY <1>1, <2>1 DEF Edit
    <2>3. edit'[e] = [d EXCEPT !.pending = pending]
      BY <1>3, <2>1
    <2> QED
      BY <1>1, <2>2, <2>3 DEF MovesTo, Edit
  <1> QED
    BY <1>1, <1>2, <1>3

LEMMA ProceedsTo ==
    ASSUME TypeInv, NEW e \in Editors, Proceed(e)
    PROVE  /\ edit[e].multi = KeepSites => edit'[e] = NoEdit
           /\ edit[e].multi # KeepSites => MovesTo(e, "multi revoke")
           /\ \A f \in Editors \ {e} : edit'[f] = edit[f]
  <1>1. edit[e].multi # KeepSites =>
           edit' = [edit EXCEPT ![e] = [@ EXCEPT !.stage = "multi revoke", !.pending = {}]]
    BY DEF Proceed, TypeInv, TypeOK
  <1>2. edit[e].multi # KeepSites => MovesTo(e, "multi revoke")
    BY <1>1, StageSet
  <1> QED
    BY <1>2 DEF Proceed, TypeInv, TypeOK

LEMMA CoverEdit ==
    ASSUME CoverInv, TypeInv', NEW e \in Editors, Administer(e)
    PROVE  CoverInv'
  <1> DEFINE Grows == \A v \in Users : SitesInFlight(v) => Asked(v) \subseteq Asked(v)'
             Keeps(v) == KeepsAccess(e, v) /\ KeepsAssignment(e, v)
  <1>m. PICK me : me = edit[e].user
    OBVIOUS
  <1>0. /\ me = edit[e].user
        /\ TypeInv /\ EditAsked(e) /\ EditShape(edit[e]) /\ edit[e] \in Edit
        /\ edit[e].stage # "idle" => me \in Users
    BY <1>m DEF CoverInv, TypeInv, TypeOK, ShapeOK, EditShape
  <1>k. ASSUME support' = support, \A f \in Editors \ {e} : edit'[f] = edit[f],
               EditAsked(e)', Grows, \A v \in Users : Keeps(v)
        PROVE  CoverInv'
    BY <1>0, <1>k, EditKeepsCover
  \* The users whom the edit is not about.
  <1>o. ASSUME NEW v \in Users, edit[e].stage = "idle" \/ v # me,
               Asked(v) \subseteq Asked(v)', access'[v] = access[v], assignment'[v] = assignment[v]
        PROVE  Keeps(v)
    BY <1>0, <1>o DEF KeepsAccess, KeepsAssignment, EmptiesAccess, EmptiesAssignment, Empties
  <1>g. UNCHANGED ghosts => \A v \in Users : Asked(v)' = Asked(v)
    BY GhostsKept
  <1>1. ASSUME NEW u \in Users, NEW r \in Managed, NEW single \in Sites \cup {Nowhere},
               NEW multi \in SUBSET Sites, CreateUser(e, u, r, single, multi)
        PROVE  CoverInv'
    <2> DEFINE officer == r = "SAFETY_OFFICER"
               N == IF officer THEN multi ELSE Outcome(single, KeepSites)
    <2>1. N \in SUBSET Sites /\ Ask(u, N)
      BY <1>1 DEF CreateUser, Outcome, KeepSites
    <2>2. edit'[e].user = u /\ edit'[e].stage = IF officer THEN "multi revoke" ELSE "single unassign"
      BY <1>1 DEF CreateUser, NoEdit, TypeInv, TypeOK
    <2>3. Keeps(u)
      BY <1>0, <2>2 DEF KeepsAccess, KeepsAssignment, EmptiesAccess, EmptiesAssignment, Empties
    <2>4. \A v \in Users \ {u} : Keeps(v)
      BY <1>0, <1>1, <1>o, <2>1, AskGrows DEF CreateUser
    <2>5. EditAsked(e)'
      <3>1. N \subseteq Asked(u)'
        BY <1>0, <2>1, AskGrows
      <3>2. CASE officer
        BY <1>0, <1>1, <3>1, <3>2 DEF CreateUser, EditAsked, NoEdit, TypeInv, TypeOK, Keep
      <3>3. CASE ~officer
        BY <1>0, <1>1, <3>1, <3>3 DEF CreateUser, EditAsked, NoEdit, TypeInv, TypeOK, Outcome
      <3> QED
        BY <3>2, <3>3
    <2> QED
      BY <1>0, <1>1, <1>k, <2>1, <2>3, <2>4, <2>5, AskGrows DEF CreateUser, TypeInv, TypeOK
  <1>2. ASSUME NEW u \in Users, NEW p \in Payloads, BeginUpdate(e, u, p)
        PROVE  CoverInv'
    <2> DEFINE N == Outcome(p.single, p.multi)
    <2>1. p.single \in SingleChoice /\ p.multi \in MultiChoice
      BY PayloadsAssumption DEF AnyPayload
    <2>2. N \in SUBSET Sites
      BY <2>1 DEF Outcome, SingleChoice, MultiChoice
    <2>3. /\ edit'[e].user = u /\ edit'[e].stage = "role" /\ ~edit'[e].failed
          /\ edit'[e].single = p.single /\ edit'[e].multi = p.multi
      BY <1>0, <1>2 DEF BeginUpdate, NoEdit, TypeInv, TypeOK
    <2>4. edit[e].stage = "idle" /\ support' = support /\ access' = access /\ assignment' = assignment
      BY <1>2 DEF BeginUpdate, tables
    <2>5. \A f \in Editors \ {e} : edit'[f] = edit[f]
      BY <1>0, <1>2 DEF BeginUpdate, TypeInv, TypeOK
    <2>6. CASE p.single # Keep \/ p.multi # KeepSites
      <3>1. Ask(u, N)
        BY <1>2, <2>6 DEF BeginUpdate
      <3>2. N \subseteq Asked(u)' /\ Grows /\ \A v \in Users \ {u} : Asked(v) \subseteq Asked(v)'
        BY <1>0, <2>2, <3>1, AskGrows
      <3>3. Keeps(u)
        BY <1>0, <2>3, <2>6 DEF KeepsAccess, KeepsAssignment, EmptiesAccess, EmptiesAssignment,
                          Empties, NamesSites
      <3>4. \A v \in Users \ {u} : Keeps(v)
        BY <1>0, <1>o, <2>4, <3>2
      <3>5. EditAsked(e)'
        BY <2>3, <3>2 DEF EditAsked, Outcome
      <3> QED
        BY <1>k, <2>4, <2>5, <3>2, <3>3, <3>4, <3>5
    <2>7. CASE ~(p.single # Keep \/ p.multi # KeepSites)
      <3>1. \A v \in Users : Asked(v)' = Asked(v)
        BY <1>2, <1>g, <2>7 DEF BeginUpdate
      <3>2. \A v \in Users : Keeps(v)
        BY <1>0, <1>o, <2>4, <3>1
      <3>3. EditAsked(e)'
        BY <2>3, <2>7 DEF EditAsked
      <3> QED
        BY <1>k, <2>4, <2>5, <3>1, <3>2, <3>3
    <2> QED
      BY <2>6, <2>7
  <1>3. ASSUME edit[e].stage # "idle", UNCHANGED ghosts, support' = support,
               \A f \in Editors \ {e} : edit'[f] = edit[f],
               \A v \in Users \ {me} : access'[v] = access[v] /\ assignment'[v] = assignment[v],
               edit'[e] = NoEdit \/ (\E stage : MovesTo(e, stage)),
               Keeps(me)
        PROVE  CoverInv'
    <2>1. \A v \in Users : Keeps(v)
      BY <1>0, <1>3, <1>g, <1>o
    <2>2. EditAsked(e)'
      BY <1>0, <1>3, <1>g DEF EditAsked, NoEdit, MovesTo
    <2> QED
      BY <1>3, <1>g, <1>k, <2>1, <2>2
  <1>4. ASSUME WriteRole(e)
        PROVE  CoverInv'
    <2>1. CASE ~NamesSites(e)
      <3>1. Keeps(me)
        BY <1>0, <1>4, <1>g, <2>1 DEF WriteRole, KeepsAccess, KeepsAssignment, EmptiesAccess,
               EmptiesAssignment, Empties
      <3> QED
        BY <1>0, <1>3, <1>4, <2>1, <3>1 DEF WriteRole, TypeInv, TypeOK
    <2>2. CASE NamesSites(e)
      <3>1. \E stage \in {"single unassign", "multi revoke"} : MovesTo(e, stage)
        BY <1>0, <1>4, <2>2, StageSet DEF WriteRole, TypeInv, TypeOK
      <3>2. Keeps(me)
        BY <1>0, <3>1 DEF KeepsAccess, KeepsAssignment, EmptiesAccess, EmptiesAssignment, Empties, MovesTo
      <3> QED
        BY <1>0, <1>3, <1>4, <3>1, <3>2 DEF WriteRole, TypeInv, TypeOK
    <2> QED
      BY <2>1, <2>2
  <1>5. ASSUME SingleUnassign(e)
        PROVE  CoverInv'
    <2>1. MovesTo(e, "single revoke")
      BY <1>0, <1>5, StageSet DEF SingleUnassign
    <2>2. Keeps(me)
      BY <1>0, <1>5, <2>1 DEF SingleUnassign, KeepsAccess, KeepsAssignment, EmptiesAccess, Empties,
             MovesTo, TypeInv, TypeOK
    <2> QED
      BY <1>0, <1>3, <1>5, <2>1, <2>2 DEF SingleUnassign, TypeInv, TypeOK
  <1>6. ASSUME SingleRevoke(e)
        PROVE  CoverInv'
    <2>1. access' = [access EXCEPT ![me] = {}] /\ assignment' = assignment /\ me \in Users
      BY <1>0, <1>6 DEF SingleRevoke
    <2>2. CASE edit[e].single = Nowhere
      <3>1. Proceed(e)
        BY <1>6, <2>2 DEF SingleRevoke
      <3>2. Keeps(me)
        <4>1. CASE edit[e].multi = KeepSites
          BY <1>0, <1>6, <1>g, <2>1, <4>1 DEF SingleRevoke, KeepsAccess, KeepsAssignment,
                 EmptiesAssignment, Empties, TypeInv, TypeOK
        <4>2. CASE edit[e].multi # KeepSites
          BY <1>0, <2>1, <3>1, <4>2, ProceedsTo DEF KeepsAccess, KeepsAssignment,
                 EmptiesAssignment, Empties, MovesTo, TypeInv, TypeOK
        <4> QED
          BY <4>1, <4>2
      <3> QED
        BY <1>0, <1>3, <1>6, <2>1, <3>1, <3>2, ProceedsTo DEF SingleRevoke, TypeInv, TypeOK
    <2>3. CASE edit[e].single # Nowhere
      <3>1. MovesTo(e, "create")
        BY <1>0, <1>6, <2>3, StageSet DEF SingleRevoke
      <3>2. Keeps(me)
        BY <1>0, <1>6, <1>g, <2>1, <3>1 DEF SingleRevoke, KeepsAccess, KeepsAssignment,
               EmptiesAssignment, Empties, MovesTo, TypeInv, TypeOK
      <3>3. PICK d : edit' = [edit EXCEPT ![e] = d]
        BY <1>6, <2>3 DEF SingleRevoke
      <3>4. \A f \in Editors \ {e} : edit'[f] = edit[f]
        BY <1>0, <3>3 DEF TypeInv, TypeOK
      <3> QED
        BY <1>0, <1>3, <1>6, <2>1, <3>1, <3>2, <3>4 DEF SingleRevoke, TypeInv, TypeOK
    <2> QED
      BY <2>2, <2>3
  <1>7. ASSUME MultiRevoke(e)
        PROVE  CoverInv'
    <2>1. \E stage \in {"multi grant", "multi unassign"} : MovesTo(e, stage)
      BY <1>0, <1>7, StageSet DEF MultiRevoke
    <2>2. Keeps(me)
      BY <1>0, <1>7, <2>1 DEF MultiRevoke, KeepsAccess, KeepsAssignment, EmptiesAssignment, Empties,
             MovesTo, TypeInv, TypeOK
    <2> QED
      BY <1>0, <1>3, <1>7, <2>1, <2>2 DEF MultiRevoke, TypeInv, TypeOK
  <1>8. ASSUME MultiGrant(e)
        PROVE  CoverInv'
    <2>1. edit[e].multi \subseteq Asked(me)
      BY <1>0, <1>8 DEF MultiGrant, EditAsked, EditShape
    <2>2. MovesTo(e, "multi unassign")
      BY <1>0, <1>8, StageSet DEF MultiGrant
    <2>3. Keeps(me)
      <3>1. access'[me] = access[me] \cup edit[e].multi
        <4>1. me \in Users /\ access' = [access EXCEPT ![me] = @ \cup edit[e].multi]
          BY <1>0, <1>8 DEF MultiGrant
        <4>2. access \in [Users -> SUBSET Sites]
          BY <1>0 DEF TypeInv, TypeOK
        <4> QED
          BY <4>1, <4>2
      <3>2. KeepsAccess(e, me)
        BY <1>0, <1>8, <1>g, <2>1, <3>1 DEF MultiGrant, KeepsAccess, EmptiesAccess, Empties
      <3>3. KeepsAssignment(e, me)
        BY <1>0, <2>2 DEF KeepsAssignment, EmptiesAssignment, Empties, MovesTo
      <3> QED
        BY <3>2, <3>3
    <2> QED
      BY <1>0, <1>3, <1>8, <2>2, <2>3 DEF MultiGrant, TypeInv, TypeOK
  <1>9. ASSUME MultiUnassign(e)
        PROVE  CoverInv'
    <2>1. edit'[e] = NoEdit \/ MovesTo(e, "multi assign")
      BY <1>0, <1>9, StageSet DEF MultiUnassign, TypeInv, TypeOK
    <2>2. Keeps(me)
      BY <1>0, <1>9, <1>g DEF MultiUnassign, KeepsAccess, KeepsAssignment, EmptiesAccess, Empties,
             TypeInv, TypeOK
    <2> QED
      BY <1>0, <1>3, <1>9, <2>1, <2>2 DEF MultiUnassign, TypeInv, TypeOK
  <1>10. ASSUME Insert(e, "access") \/ Insert(e, "assignment")
         PROVE  CoverInv'
    <2> DEFINE site == edit[e].single
    <2>1. PICK t \in {"access", "assignment"} : Insert(e, t)
      BY <1>10
    <2> DEFINE taken == site \in (IF t = "access" THEN access[me] ELSE assignment[me])
               left == edit[e].pending \ {t}
               failed == edit[e].failed \/ taken
    <2>2. /\ me \in Users /\ site \in Sites /\ edit[e].stage = "create"
          /\ access' = IF t = "access" THEN [access EXCEPT ![me] = @ \cup {site}] ELSE access
          /\ assignment' = IF t = "assignment" THEN [assignment EXCEPT ![me] = @ \cup {site}]
                           ELSE assignment
          /\ IF taken THEN Fail(me) ELSE UNCHANGED ghosts
          /\ support' = support
      BY <1>0, <2>1 DEF Insert, EditShape
    <2>3. /\ \A f \in Editors \ {e} : edit'[f] = edit[f]
          /\ \/ edit'[e] = NoEdit /\ (edit[e].multi = KeepSites \/ failed)
             \/ MovesTo(e, "multi revoke") /\ ~failed
             \/ /\ edit'[e].stage = "create" /\ edit'[e].user = me /\ (edit'[e].failed <=> failed)
                /\ edit'[e].multi = edit[e].multi /\ edit'[e].single = site
      <3>1. CASE left = {} /\ ~failed
        <4>1. Proceed(e)
          BY <1>0, <2>1, <3>1 DEF Insert
        <4> QED
          BY <1>0, <3>1, <4>1, ProceedsTo
      <3>2. CASE left = {} /\ failed
        BY <1>0, <2>1, <3>2 DEF Insert, TypeInv, TypeOK
      <3>3. CASE left # {}
        <4>1. edit' = [edit EXCEPT ![e] = [@ EXCEPT !.pending = left, !.failed = failed]]
          BY <1>0, <2>1, <3>3 DEF Insert
        <4> HIDE DEF left, failed
        <4>2. edit'[e] = [edit[e] EXCEPT !.pending = left, !.failed = failed]
          BY <1>0, <4>1 DEF TypeInv, TypeOK
        <4>3. /\ edit'[e].stage = "create" /\ edit'[e].user = me /\ edit'[e].failed = failed
              /\ edit'[e].multi = edit[e].multi /\ edit'[e].single = site
          BY <1>0, <2>2, <4>2 DEF Edit
        <4> QED
          BY <1>0, <4>1, <4>3 DEF TypeInv, TypeOK
      <3> QED
        BY <3>1, <3>2, <3>3
    <2>4. \A v \in Users : Asked(v) \subseteq Asked(v)'
      BY <1>0, <1>g, <2>2, FailCovers
    <2>5. taken => access[me] \cup assignment[me] \subseteq Asked(me)' /\ site \in Asked(me)'
      BY <1>0, <2>2, FailCovers
    <2>6. edit[e].multi = KeepSites \/ failed => site \in Asked(me)'
      BY <1>0, <2>2, <2>4, <2>5 DEF EditAsked
    <2>7. EditAsked(e)'
      <3>1. CASE edit'[e] = NoEdit
        BY <3>1 DEF EditAsked, NoEdit
      <3>2. CASE MovesTo(e, "multi revoke") /\ ~failed
        BY <1>0, <2>2, <2>4, <3>2 DEF EditAsked, MovesTo, Asked
      <3>3. CASE /\ edit'[e].stage = "create" /\ edit'[e].user = me /\ (edit'[e].failed <=> failed)
                 /\ edit'[e].multi = edit[e].multi /\ edit'[e].single = site
        BY <1>0, <2>2, <2>4, <2>6, <3>3 DEF EditAsked, Asked
      <3> QED
        BY <2>3, <3>1, <3>2, <3>3
    <2> HIDE DEF taken, failed, left
    <2>8. \A v \in Users \ {me} : Keeps(v)
      BY <1>0, <1>o, <2>2, <2>4 DEF TypeInv, TypeOK
    <2>9. Keeps(me)
      <3>1. access'[me] \subseteq access[me] \cup {site} /\ assignment'[me] \subseteq assignment[me] \cup {site}
        BY <1>0, <2>2 DEF TypeInv, TypeOK
      <3>2. CASE edit[e].multi # KeepSites /\ ~failed
        BY <1>0, <2>3, <3>2 DEF KeepsAccess, KeepsAssignment, EmptiesAccess, EmptiesAssignment, Empties,
               MovesTo
      <3>3. CASE (edit[e].multi = KeepSites \/ failed) /\ ~taken
        BY <1>0, <2>2, <2>4, <2>6, <3>1, <3>3 DEF KeepsAccess, KeepsAssignment, EmptiesAccess,
               EmptiesAssignment, Empties, failed
      <3>4. CASE taken
        BY <1>0, <2>5, <3>1, <3>4 DEF KeepsAccess, KeepsAssignment
      <3> QED
        BY <3>2, <3>3, <3>4
    <2> QED
      BY <1>k, <2>2, <2>3, <2>4, <2>7, <2>8, <2>9
  <1>11. ASSUME MultiAssign(e)
         PROVE  CoverInv'
    <2>1. me \in Users /\ edit[e].multi \subseteq Asked(me) /\ edit[e].stage = "multi assign"
      BY <1>0, <1>11 DEF MultiAssign, EditAsked, EditShape
    <2>2. PICK first \in edit[e].multi :
             /\ assignment' = [assignment EXCEPT ![me] = @ \cup {first}]
             /\ Fail(me) \/ UNCHANGED ghosts
      BY <1>0, <1>11 DEF MultiAssign
    <2>3. \A v \in Users : Asked(v) \subseteq Asked(v)'
      BY <1>0, <1>g, <2>1, <2>2, FailCovers
    <2>4. Keeps(me)
      <3>1. access' = access /\ assignment'[me] \subseteq assignment[me] \cup edit[e].multi
        <4>1. access' = access
          BY <1>11 DEF MultiAssign
        <4>2. assignment'[me] = assignment[me] \cup {first}
          BY <1>0, <2>1, <2>2 DEF TypeInv, TypeOK
        <4> QED
          BY <2>2, <4>1, <4>2
      <3>2. KeepsAccess(e, me)
        BY <1>0, <2>1, <2>3, <3>1 DEF KeepsAccess, EmptiesAccess, Empties
      <3>3. KeepsAssignment(e, me)
        BY <1>0, <2>1, <2>3, <3>1 DEF KeepsAssignment, EmptiesAssignment, Empties
      <3> QED
        BY <3>2, <3>3
    <2>5. \A v \in Users \ {me} : Keeps(v)
      BY <1>0, <1>11, <1>o, <2>2, <2>3 DEF MultiAssign, TypeInv, TypeOK
    <2>6. EditAsked(e)'
      BY <1>0, <1>11 DEF MultiAssign, EditAsked, NoEdit, TypeInv, TypeOK
    <2> QED
      BY <1>0, <1>11, <1>k, <2>3, <2>4, <2>5, <2>6 DEF MultiAssign, TypeInv, TypeOK
  <1>12. ASSUME Throw(e)
         PROVE  CoverInv'
    <2>1. me \in Users /\ (IF NamesSites(e) THEN Fail(me) ELSE UNCHANGED ghosts)
      BY <1>0, <1>12 DEF Throw
    <2>2. \A v \in Users : Asked(v) \subseteq Asked(v)'
      BY <1>0, <1>g, <2>1, FailCovers
    <2>3. Keeps(me)
      <3>1. CASE NamesSites(e)
        BY <1>0, <1>12, <2>1, <3>1, FailCovers DEF Throw, tables, KeepsAccess, KeepsAssignment
      <3>2. CASE ~NamesSites(e)
        BY <1>0, <1>12, <2>2, <3>2 DEF Throw, tables, NamesSites, EditShape, KeepsAccess,
               KeepsAssignment, EmptiesAccess, EmptiesAssignment, Empties
      <3> QED
        BY <3>1, <3>2
    <2>4. \A v \in Users \ {me} : Keeps(v)
      BY <1>0, <1>12, <1>o, <2>2 DEF Throw, tables
    <2>5. EditAsked(e)'
      BY <1>0, <1>12 DEF Throw, EditAsked, NoEdit, TypeInv, TypeOK
    <2> QED
      BY <1>0, <1>12, <1>k, <2>2, <2>3, <2>4, <2>5 DEF Throw, TypeInv, TypeOK
  <1> QED
    BY <1>1, <1>2, <1>4, <1>5, <1>6, <1>7, <1>8, <1>9, <1>10, <1>11, <1>12 DEF Administer
LEMMA SupportKeepsCover ==
    ASSUME CoverInv, TypeInv', NEW s \in Supporters, edit' = edit,
           \A t \in Supporters \ {s} : support'[t] = support[t],
           SupportAsked(s)',
           \A v \in Users : SitesInFlight(v) => Asked(v) \subseteq Asked(v)',
           \A v \in Users :
              \/ access'[v] \subseteq Asked(v)'
              \/ ReplacesAccess(s, v)'
              \/ Asked(v) \subseteq Asked(v)' /\ access'[v] \subseteq access[v] \cup Asked(v)' /\ ~ReplacesAccess(s, v),
           \A v \in Users :
              \/ assignment'[v] \subseteq Asked(v)'
              \/ ReplacesAssignment(s, v)'
              \/ Asked(v) \subseteq Asked(v)' /\ assignment'[v] \subseteq assignment[v] \cup Asked(v)'
                    /\ ~ReplacesAssignment(s, v)
    PROVE  CoverInv'
  <1>1. ASSUME NEW e \in Editors
        PROVE  EditAsked(e)'
    <2>1. CASE edit[e].stage # "idle" /\ NamesSites(e)
      BY <2>1, InFlight DEF CoverInv, EditAsked, TypeInv, ShapeOK, EditShape
    <2>2. CASE ~(edit[e].stage # "idle" /\ NamesSites(e))
      BY <2>2 DEF EditAsked, NamesSites
    <2> QED
      BY <2>1, <2>2
  <1>2. ASSUME NEW t \in Supporters
        PROVE  SupportAsked(t)'
    <2>1. CASE t # s
      BY <2>1, InFlight DEF CoverInv, SupportAsked, TypeInv, ShapeOK, SupportShape
    <2> QED
      BY <2>1
  <1>3. ASSUME NEW u \in Users
        PROVE  AccessCovered(u)'
    <2>1. CASE access'[u] \subseteq Asked(u)' \/ ReplacesAccess(s, u)'
      BY <2>1 DEF AccessCovered
    <2>2. CASE Asked(u) \subseteq Asked(u)' /\ access'[u] \subseteq access[u] \cup Asked(u)' /\ ~ReplacesAccess(s, u)
      <3>1. ASSUME NEW e \in Editors, EmptiesAccess(e, u)
            PROVE  AccessCovered(u)'
        BY <3>1 DEF AccessCovered, EmptiesAccess, Empties, NamesSites
      <3>2. ASSUME NEW t \in Supporters, ReplacesAccess(t, u)
            PROVE  AccessCovered(u)'
        <4>1. ReplacesAccess(t, u)'
          BY <2>2, <3>2 DEF ReplacesAccess
        <4> QED
          BY <4>1 DEF AccessCovered
      <3> QED
        BY <2>2, <3>1, <3>2 DEF CoverInv, AccessCovered
    <2> QED
      BY <2>1, <2>2
  <1>4. ASSUME NEW u \in Users
        PROVE  AssignmentCovered(u)'
    <2>1. CASE assignment'[u] \subseteq Asked(u)' \/ ReplacesAssignment(s, u)'
      BY <2>1 DEF AssignmentCovered
    <2>2. CASE Asked(u) \subseteq Asked(u)' /\ assignment'[u] \subseteq assignment[u] \cup Asked(u)'
                 /\ ~ReplacesAssignment(s, u)
      <3>1. ASSUME NEW e \in Editors, EmptiesAssignment(e, u)
            PROVE  AssignmentCovered(u)'
        BY <3>1 DEF AssignmentCovered, EmptiesAssignment, Empties, NamesSites
      <3>2. ASSUME NEW t \in Supporters, ReplacesAssignment(t, u)
            PROVE  AssignmentCovered(u)'
        <4>1. ReplacesAssignment(t, u)'
          BY <2>2, <3>2 DEF ReplacesAssignment
        <4> QED
          BY <4>1 DEF AssignmentCovered
      <3> QED
        BY <2>2, <3>1, <3>2 DEF CoverInv, AssignmentCovered
    <2> QED
      BY <2>1, <2>2
  <1> QED
    BY <1>1, <1>2, <1>3, <1>4 DEF CoverInv

LEMMA CoverSupport ==
    ASSUME CoverInv, TypeInv', NEW s \in Supporters, GiveSupport(s)
    PROVE  CoverInv'
  <1>m. PICK me : me = support[s].user
    OBVIOUS
  <1>0. /\ me = support[s].user
        /\ TypeInv /\ SupportAsked(s)
        /\ support[s].stage # "idle" => me \in Users
    BY <1>m DEF CoverInv, TypeInv, TypeOK, ShapeOK, SupportShape
  <1>1. ASSUME NEW u \in Users, NEW r \in Roles \cup {Keep}, NEW single \in SingleChoice,
               NEW multi \in MultiChoice, BeginSupport(s, u, r, single, multi)
        PROVE  CoverInv'
    <2> DEFINE next == NextRole(u, r)
               sites == IF multi = KeepSites THEN access[u] ELSE multi
    <2>a. sites \in SUBSET Sites
      BY <1>0 DEF MultiChoice, TypeInv, TypeOK
    <2>b. PICK site : /\ next \in SingleSite => site \in Sites
                      /\ support' = [support EXCEPT ![s] =
                           [NoSupport EXCEPT !.stage = "begin", !.user = u, !.role = next,
                              !.assignment = IF next \in SingleSite THEN {site} ELSE {},
                              !.access = IF next = "SAFETY_OFFICER" THEN sites ELSE {}]]
                      /\ Ask(u, IF next \in SingleSite THEN {site}
                                ELSE IF next = "SAFETY_OFFICER" THEN sites ELSE {})
      BY <1>1 DEF BeginSupport
    <2> HIDE DEF next, sites
    <2> DEFINE A == IF next \in SingleSite THEN {site} ELSE {}
               G == IF next = "SAFETY_OFFICER" THEN sites ELSE {}
               N == IF next \in SingleSite THEN {site}
                    ELSE IF next = "SAFETY_OFFICER" THEN sites ELSE {}
    <2>c. N \in SUBSET Sites /\ A \cup G \subseteq N
      BY <2>a, <2>b DEF SingleSite
    <2>1. /\ support' = [support EXCEPT ![s] =
                [NoSupport EXCEPT !.stage = "begin", !.user = u, !.role = next,
                   !.assignment = A, !.access = G]]
          /\ Ask(u, N) /\ N \in SUBSET Sites /\ A \cup G \subseteq N
      BY <2>b, <2>c
    <2> HIDE DEF A, G, N
    <2>2. /\ support'[s].stage = "begin" /\ support'[s].user = u
          /\ support'[s].assignment = A /\ support'[s].access = G
          /\ \A t \in Supporters \ {s} : support'[t] = support[t]
      BY <1>0, <2>1 DEF NoSupport, TypeInv, TypeOK
    <2>3. support[s].stage = "idle" /\ edit' = edit /\ access' = access /\ assignment' = assignment
      BY <1>1 DEF BeginSupport, tables
    <2>4. /\ A \cup G \subseteq Asked(u)'
          /\ \A v \in Users : SitesInFlight(v) \/ v # u => Asked(v) \subseteq Asked(v)'
      BY <1>0, <2>1, AskGrows
    <2>5. SupportAsked(s)'
      BY <2>2, <2>4 DEF SupportAsked, Asked
    <2>6. ReplacesAccess(s, u)' /\ ReplacesAssignment(s, u)'
      BY <2>2 DEF ReplacesAccess, ReplacesAssignment
    <2>7. \A v \in Users : ~ReplacesAccess(s, v) /\ ~ReplacesAssignment(s, v)
      BY <2>3 DEF ReplacesAccess, ReplacesAssignment
    <2> QED
      BY <2>2, <2>3, <2>4, <2>5, <2>6, <2>7, SupportKeepsCover
  <1>2. ASSUME DeleteOld(s)
        PROVE  CoverInv'
    <2>1. me \in Users /\ edit' = edit /\ access' = access /\ assignment' = assignment
      BY <1>0, <1>2 DEF DeleteOld, tables
    <2>2. \A v \in Users : Asked(v)' = Asked(v)
      BY <1>2, GhostsKept DEF DeleteOld
    <2>3. support' = [support EXCEPT ![s] = [support[s] EXCEPT !.stage = "commit",
                        !.oldAssignment = assignment[me], !.oldAccess = access[me]]]
      BY <1>0, <1>2 DEF DeleteOld, TypeInv, TypeOK
    <2>4. /\ support'[s].stage = "commit" /\ support'[s].user = me
          /\ support'[s].assignment = support[s].assignment /\ support'[s].access = support[s].access
          /\ support'[s].oldAssignment = assignment[me] /\ support'[s].oldAccess = access[me]
          /\ \A t \in Supporters \ {s} : support'[t] = support[t]
      BY <1>0, <2>3 DEF TypeInv, TypeOK, Support
    <2>5. SupportAsked(s)'
      BY <1>0, <1>2, <2>1, <2>2, <2>4 DEF SupportAsked, DeleteOld, Asked
    <2>6. ReplacesAccess(s, me)' /\ ReplacesAssignment(s, me)'
      BY <2>1, <2>4 DEF ReplacesAccess, ReplacesAssignment
    <2>7. \A v \in Users \ {me} : ~ReplacesAccess(s, v) /\ ~ReplacesAssignment(s, v)
      BY <1>0 DEF ReplacesAccess, ReplacesAssignment
    <2> QED
      BY <2>1, <2>2, <2>4, <2>5, <2>6, <2>7, SupportKeepsCover
  <1>3. ASSUME CommitSupport(s)
        PROVE  CoverInv'
    <2>1. /\ me \in Users /\ edit' = edit /\ support[s].stage = "commit"
          /\ access' = [access EXCEPT ![me] = (access[me] \ support[s].oldAccess) \cup support[s].access]
          /\ assignment' = [assignment EXCEPT ![me] =
                              (assignment[me] \ support[s].oldAssignment) \cup support[s].assignment]
          /\ support' = [support EXCEPT ![s] = NoSupport]
      BY <1>0, <1>3 DEF CommitSupport
    <2>2. \A v \in Users : Asked(v)' = Asked(v)
      BY <1>3, GhostsKept DEF CommitSupport
    <2>3. support[s].assignment \cup support[s].access \subseteq Asked(me)
      BY <1>0, <2>1 DEF SupportAsked
    <2>4. SupportAsked(s)' /\ \A t \in Supporters \ {s} : support'[t] = support[t]
      BY <1>0, <2>1 DEF SupportAsked, NoSupport, TypeInv, TypeOK
    <2>5. /\ access'[me] = (access[me] \ support[s].oldAccess) \cup support[s].access
          /\ assignment'[me] = (assignment[me] \ support[s].oldAssignment) \cup support[s].assignment
          /\ \A v \in Users \ {me} : access'[v] = access[v] /\ assignment'[v] = assignment[v]
      BY <1>0, <2>1 DEF TypeInv, TypeOK
    <2>6. ASSUME ReplacesAccess(s, me)
          PROVE  access'[me] \subseteq Asked(me)'
      BY <2>1, <2>2, <2>3, <2>5, <2>6 DEF ReplacesAccess
    <2>7. ASSUME ReplacesAssignment(s, me)
          PROVE  assignment'[me] \subseteq Asked(me)'
      BY <2>1, <2>2, <2>3, <2>5, <2>7 DEF ReplacesAssignment
    <2>8. \A v \in Users \ {me} : ~ReplacesAccess(s, v) /\ ~ReplacesAssignment(s, v)
      BY <1>0 DEF ReplacesAccess, ReplacesAssignment
    <2>9. ASSUME NEW v \in Users
          PROVE  /\ \/ access'[v] \subseteq Asked(v)'
                    \/ Asked(v) \subseteq Asked(v)' /\ access'[v] \subseteq access[v] \cup Asked(v)' /\ ~ReplacesAccess(s, v)
                 /\ \/ assignment'[v] \subseteq Asked(v)'
                    \/ Asked(v) \subseteq Asked(v)' /\ assignment'[v] \subseteq assignment[v] \cup Asked(v)'
                          /\ ~ReplacesAssignment(s, v)
      <3>1. CASE v = me
        BY <2>1, <2>2, <2>3, <2>5, <2>6, <2>7, <3>1
      <3>2. CASE v # me
        BY <2>2, <2>5, <2>8, <3>2
      <3> QED
        BY <3>1, <3>2
    <2> QED
      BY <2>1, <2>2, <2>4, <2>9, SupportKeepsCover
  <1>4. ASSUME RollBack(s)
        PROVE  CoverInv'
    <2>1. /\ me \in Users /\ edit' = edit /\ access' = access /\ assignment' = assignment
          /\ Fail(me) /\ support' = [support EXCEPT ![s] = NoSupport]
      BY <1>0, <1>4 DEF RollBack, tables
    <2>2. /\ access[me] \cup assignment[me] \subseteq Asked(me)'
          /\ \A v \in Users : Asked(v) \subseteq Asked(v)'
      BY <1>0, <2>1, FailCovers
    <2>3. SupportAsked(s)' /\ \A t \in Supporters \ {s} : support'[t] = support[t]
      BY <1>0, <2>1 DEF SupportAsked, NoSupport, TypeInv, TypeOK
    <2>4. \A v \in Users \ {me} : ~ReplacesAccess(s, v) /\ ~ReplacesAssignment(s, v)
      BY <1>0 DEF ReplacesAccess, ReplacesAssignment
    <2> QED
      BY <2>1, <2>2, <2>3, <2>4, SupportKeepsCover
  <1> QED
    BY <1>1, <1>2, <1>3, <1>4 DEF GiveSupport

LEMMA CoverStep ==
    ASSUME CoverInv, [Next]_vars
    PROVE  CoverInv'
  <1>0. TypeInv'
    BY TypeStep DEF CoverInv
  <1>1. ASSUME edit' = edit, support' = support, access' = access, assignment' = assignment,
               asked' = asked
        PROVE  CoverInv'
    <2>1. /\ \A e \in Editors : EditAsked(e)'
          /\ \A s \in Supporters : SupportAsked(s)'
      BY <1>1 DEF CoverInv, EditAsked, SupportAsked, Asked
    <2>2. ASSUME NEW u \in Users
          PROVE  AccessCovered(u)'
      <3>1. CASE access[u] \subseteq Asked(u)
        BY <1>1, <3>1 DEF AccessCovered, Asked
      <3>2. ASSUME NEW e \in Editors, EmptiesAccess(e, u)
            PROVE  EmptiesAccess(e, u)'
        BY <1>1, <3>2 DEF EmptiesAccess, Empties, NamesSites
      <3>3. ASSUME NEW s \in Supporters, ReplacesAccess(s, u)
            PROVE  ReplacesAccess(s, u)'
        BY <1>1, <3>3 DEF ReplacesAccess, Asked
      <3> QED
        BY <3>1, <3>2, <3>3 DEF CoverInv, AccessCovered
    <2>3. ASSUME NEW u \in Users
          PROVE  AssignmentCovered(u)'
      <3>1. CASE assignment[u] \subseteq Asked(u)
        BY <1>1, <3>1 DEF AssignmentCovered, Asked
      <3>2. ASSUME NEW e \in Editors, EmptiesAssignment(e, u)
            PROVE  EmptiesAssignment(e, u)'
        BY <1>1, <3>2 DEF EmptiesAssignment, Empties, NamesSites
      <3>3. ASSUME NEW s \in Supporters, ReplacesAssignment(s, u)
            PROVE  ReplacesAssignment(s, u)'
        BY <1>1, <3>3 DEF ReplacesAssignment, Asked
      <3> QED
        BY <3>1, <3>2, <3>3 DEF CoverInv, AssignmentCovered
    <2> QED
      BY <1>0, <2>1, <2>2, <2>3 DEF CoverInv
  <1>2. ASSUME NEW u \in Users, NEW site \in Imported, ImportSupervisorSite(u, site)
        PROVE  CoverInv'
    BY <1>1, <1>2 DEF ImportSupervisorSite, ghosts
  <1>3. CASE UNCHANGED vars
    BY <1>1, <1>3 DEF vars
  <1> QED
    BY <1>0, <1>2, <1>3, CoverEdit, CoverSupport DEF Next

\* A site that an administrator or support took from a user does not survive,
\* for any number of users and sites, any number of overlapping edits, and
\* wherever edits fail.
THEOREM RemovedSitesStayAway == Spec => []RemovedSitesGo
  <1>1. CoverInv => RemovedSitesGo
    <2> SUFFICES ASSUME CoverInv, NEW u \in Users, ~SitesInFlight(u)
                 PROVE  access[u] \cup assignment[u] \subseteq Asked(u)
      BY DEF RemovedSitesGo, Asked
    <2>1. \A e \in Editors : ~EmptiesAccess(e, u) /\ ~EmptiesAssignment(e, u)
      BY DEF CoverInv, TypeInv, ShapeOK, EditShape, EmptiesAccess, EmptiesAssignment, Empties,
             NamesSites, SitesInFlight
    <2>2. \A s \in Supporters : ~ReplacesAccess(s, u) /\ ~ReplacesAssignment(s, u)
      BY DEF ReplacesAccess, ReplacesAssignment, SitesInFlight
    <2> QED
      BY <2>1, <2>2 DEF CoverInv, AccessCovered, AssignmentCovered
  <1>2. Init => CoverInv
    BY CoverInit
  <1>3. CoverInv /\ [Next]_vars => CoverInv'
    BY CoverStep
  <1> QED
    BY <1>1, <1>2, <1>3, PTL DEF Spec

----------------------------------------------------------------------------
(* What was asked for is not deleted down to nothing.                      *)
(*                                                                         *)
(* Every request ends by writing rows, unless it asks for none or fails.   *)
(* And of requests without support among them, the one that was the last   *)
(* to empty a user's access rows goes on to grant all of its sites.        *)

OfUser(e, u) == edit[e].stage # "idle" /\ edit[e].user = u /\ NamesSites(e)

EditWanted(e) ==
    LET d == edit[e]
    IN  d.stage # "idle" /\ NamesSites(e) =>
          /\ Outcome(d.single, d.multi) \in asked[d.user]
          /\ d.failed => d.user \in broken

SupportWanted(s) ==
    support[s].stage # "idle" =>
        support[s].assignment \cup support[s].access \in asked[support[s].user]

\* The edit still has to grant sites, and cannot end without doing so or failing.
OwesAccess(e, u) ==
    /\ edit[e].user = u /\ NamesSites(e)
    /\ \/ edit[e].stage \in {"role", "single unassign", "single revoke", "multi revoke", "multi grant"}
       \/ /\ edit[e].stage = "create"
          /\ "access" \in edit[e].pending \/ edit[e].multi # KeepSites

KeepsSome(u) ==
    ~SitesInFlight(u) /\ u \notin broken /\ {} \notin asked[u] => access[u] \cup assignment[u] # {}

Wins(u) ==
    \/ u \in broken
    \/ \E N \in asked[u] : N \subseteq access[u]
    \/ \E e \in Editors : OwesAccess(e, u)

Served(u) == KeepsSome(u) /\ (Supporters = {} => Wins(u))

OutcomeInv ==
    /\ TypeInv
    /\ \A e \in Editors : EditWanted(e)
    /\ \A s \in Supporters : SupportWanted(s)
    /\ \A u \in Users : Served(u)

LEMMA OutcomeInit == Init => OutcomeInv
  <1> SUFFICES ASSUME Init PROVE OutcomeInv
    OBVIOUS
  <1>1. /\ \A e \in Editors : EditWanted(e)
        /\ \A s \in Supporters : SupportWanted(s)
    BY DEF Init, EditWanted, SupportWanted, NoEdit, NoSupport
  <1>2. \A u \in Users : asked[u] = {{}}
    BY DEF Init
  <1>3. \A u \in Users : Served(u)
    BY <1>2 DEF Served, KeepsSome, Wins
  <1> QED
    BY <1>1, <1>3, TypeInit DEF OutcomeInv

\* Nothing is forgotten of a user while something is in flight, or of another user.
Remembers(v) == asked[v] \subseteq asked'[v] /\ (v \in broken => v \in broken')

\* Nothing that tells whether a user is served is touched.
Untouched(v) ==
    /\ asked'[v] = asked[v] /\ (v \in broken' <=> v \in broken)
    /\ access'[v] = access[v] /\ assignment'[v] = assignment[v]

LEMMA AskRemembers ==
    ASSUME TypeInv, NEW u \in Users, NEW N \in SUBSET Sites, Ask(u, N)
    PROVE  /\ N \in asked'[u]
           /\ \A v \in Users : SitesInFlight(v) \/ v # u => Remembers(v)
           /\ \A v \in Users \ {u} : asked'[v] = asked[v] /\ (v \in broken' <=> v \in broken)
  BY DEF Ask, Remembers, TypeInv, TypeOK

LEMMA FailRemembers ==
    ASSUME TypeInv, NEW u \in Users, Fail(u)
    PROVE  /\ u \in broken'
           /\ \A v \in Users : Remembers(v)
           /\ \A v \in Users \ {u} : asked'[v] = asked[v] /\ (v \in broken' <=> v \in broken)
  BY DEF Fail, Remembers, TypeInv, TypeOK

LEMMA OutcomeType ==
    ASSUME NEW single \in SingleChoice, NEW multi \in MultiChoice
    PROVE  Outcome(single, multi) \in SUBSET Sites
  BY DEF Outcome, SingleChoice, MultiChoice

\* It is enough to look at the edit that changes and at its user.
LEMMA EditKeepsOutcome ==
    ASSUME OutcomeInv, TypeInv', NEW e \in Editors, support' = support,
           \A f \in Editors \ {e} : edit'[f] = edit[f],
           EditWanted(e)',
           \A v \in Users : SitesInFlight(v) => Remembers(v),
           \A v \in Users : Served(v)' \/ (Untouched(v) /\ ~OfUser(e, v))
    PROVE  OutcomeInv'
  <1>1. ASSUME NEW f \in Editors
        PROVE  EditWanted(f)'
    <2>1. CASE f = e
      BY <2>1
    <2>2. CASE f # e /\ edit[f].stage # "idle" /\ NamesSites(f)
      <3>1. edit[f].user \in Users
        BY <2>2 DEF OutcomeInv, TypeInv, ShapeOK, EditShape
      <3>2. Remembers(edit[f].user)
        BY <2>2, <3>1, InFlight
      <3> QED
        BY <2>2, <3>1, <3>2 DEF OutcomeInv, EditWanted, Remembers
    <2>3. CASE f # e /\ ~(edit[f].stage # "idle" /\ NamesSites(f))
      BY <2>3 DEF EditWanted, NamesSites
    <2> QED
      BY <2>1, <2>2, <2>3
  <1>2. ASSUME NEW s \in Supporters
        PROVE  SupportWanted(s)'
    <2> SUFFICES ASSUME support[s].stage # "idle"
                 PROVE  support[s].assignment \cup support[s].access \in asked'[support[s].user]
      BY DEF SupportWanted
    <2>1. support[s].user \in Users
      BY DEF OutcomeInv, TypeInv, ShapeOK, SupportShape
    <2> QED
      BY <2>1, InFlight DEF OutcomeInv, SupportWanted, Remembers
  <1>3. ASSUME NEW v \in Users
        PROVE  Served(v)'
    <2>1. CASE Served(v)'
      BY <2>1
    <2>2. CASE Untouched(v) /\ ~OfUser(e, v)
      <3>1. SitesInFlight(v) => SitesInFlight(v)'
        <4>1. ASSUME NEW f \in Editors, edit[f].stage # "idle" /\ edit[f].user = v /\ NamesSites(f)
              PROVE  SitesInFlight(v)'
          <5>1. f # e
            BY <2>2, <4>1 DEF OfUser
          <5> QED
            BY <4>1, <5>1 DEF SitesInFlight, NamesSites
        <4>2. ASSUME NEW s \in Supporters, support[s].stage # "idle" /\ support[s].user = v
              PROVE  SitesInFlight(v)'
          BY <4>2 DEF SitesInFlight
        <4> QED
          BY <4>1, <4>2 DEF SitesInFlight
      <3>2. KeepsSome(v)'
        BY <2>2, <3>1 DEF OutcomeInv, Served, KeepsSome, Untouched
      <3>3. ASSUME Supporters = {}
            PROVE  Wins(v)'
        <4>1. ASSUME NEW f \in Editors, OwesAccess(f, v)
              PROVE  OwesAccess(f, v)'
          <5>1. f # e
            BY <2>2, <4>1 DEF OfUser, OwesAccess
          <5> QED
            BY <4>1, <5>1 DEF OwesAccess, NamesSites
        <4> QED
          BY <2>2, <3>3, <4>1 DEF OutcomeInv, Served, Wins, Untouched
      <3> QED
        BY <3>2, <3>3 DEF Served
    <2> QED
      BY <2>1, <2>2
  <1> QED
    BY <1>1, <1>2, <1>3 DEF OutcomeInv

\* A step that takes no access away and leaves the user with something, or in
\* flight, serves a user to whom the edit did not owe access.
LEMMA GrowingServes ==
    ASSUME OutcomeInv, NEW e \in Editors, NEW u \in Users,
           \A f \in Editors \ {e} : edit'[f] = edit[f],
           ~OwesAccess(e, u), Remembers(u), access[u] \subseteq access'[u],
           SitesInFlight(u)' \/ {} \in asked'[u] \/ access'[u] \cup assignment'[u] # {}
    PROVE  Served(u)'
  <1>1. ASSUME NEW f \in Editors, OwesAccess(f, u)
        PROVE  OwesAccess(f, u)'
    <2>1. f # e
      BY <1>1
    <2> QED
      BY <1>1, <2>1 DEF OwesAccess, NamesSites
  <1>2. Supporters = {} => Wins(u)'
    BY <1>1 DEF OutcomeInv, Served, Wins, Remembers
  <1> QED
    BY <1>2 DEF Served, KeepsSome

\* What a step in the middle of an edit owes: nothing, if it names no sites.
LEMMA OutcomeMove ==
    ASSUME OutcomeInv, TypeInv', NEW e \in Editors, NEW me, me = edit[e].user,
           edit[e].stage # "idle", support' = support,
           \A f \in Editors \ {e} : edit'[f] = edit[f], UNCHANGED ghosts,
           edit'[e] = NoEdit \/ (\E stage : MovesTo(e, stage)),
           \A v \in Users \ {me} : access'[v] = access[v] /\ assignment'[v] = assignment[v],
           \/ Served(me)'
           \/ ~NamesSites(e) /\ access' = access /\ assignment' = assignment
    PROVE  OutcomeInv'
  <1>1. EditWanted(e)'
    BY DEF OutcomeInv, EditWanted, NamesSites, MovesTo, NoEdit, ghosts
  <1>2. \A v \in Users : SitesInFlight(v) => Remembers(v)
    BY DEF Remembers, ghosts
  <1>3. ASSUME NEW v \in Users
        PROVE  Served(v)' \/ (Untouched(v) /\ ~OfUser(e, v))
    <2>1. CASE v = me
      BY <2>1 DEF Untouched, OfUser, ghosts
    <2>2. CASE v # me
      BY <2>2 DEF Untouched, OfUser, ghosts
    <2> QED
      BY <2>1, <2>2
  <1> QED
    BY <1>1, <1>2, <1>3, EditKeepsOutcome

\* An edit that moves on to a statement that is still going to grant sites, or
\* that is in flight in any way.
LEMMA MovesOwing ==
    ASSUME TypeInv, NEW e \in Editors, NEW me, me = edit[e].user, NamesSites(e), NEW stage, MovesTo(e, stage)
    PROVE  /\ stage \in {"single unassign", "single revoke", "multi revoke", "multi grant"} =>
                 OwesAccess(e, me)'
           /\ stage # "idle" => SitesInFlight(me)'
  <1>1. edit'[e].stage = stage /\ edit'[e].user = me /\ NamesSites(e)'
    BY DEF MovesTo, NamesSites
  <1> QED
    BY <1>1 DEF OwesAccess, SitesInFlight

\* An edit that fails leaves its user among the broken.
LEMMA OutcomeFail ==
    ASSUME OutcomeInv, TypeInv', NEW e \in Editors, NEW me, me = edit[e].user,
           edit[e].stage # "idle", support' = support,
           \A f \in Editors \ {e} : edit'[f] = edit[f], Fail(me),
           \/ edit'[e] = NoEdit
           \/ /\ edit'[e].user = me
              /\ edit'[e].single = edit[e].single /\ edit'[e].multi = edit[e].multi,
           \A v \in Users \ {me} : access'[v] = access[v] /\ assignment'[v] = assignment[v]
    PROVE  OutcomeInv'
  <1>1. me \in Users /\ TypeInv
    BY DEF OutcomeInv, TypeInv, ShapeOK, EditShape
  <1>2. /\ me \in broken' /\ \A v \in Users : Remembers(v)
        /\ \A v \in Users \ {me} : asked'[v] = asked[v] /\ (v \in broken' <=> v \in broken)
    BY <1>1, FailRemembers
  <1>3. EditWanted(e)'
    BY <1>1, <1>2 DEF OutcomeInv, EditWanted, NamesSites, NoEdit, Remembers
  <1>4. Served(me)'
    BY <1>2 DEF Served, KeepsSome, Wins
  <1>5. ASSUME NEW v \in Users
        PROVE  Served(v)' \/ (Untouched(v) /\ ~OfUser(e, v))
    BY <1>2, <1>4 DEF Untouched, OfUser
  <1> QED
    BY <1>2, <1>3, <1>5, EditKeepsOutcome

\* An edit begins with everything still to do.
LEMMA OutcomeBegin ==
    ASSUME OutcomeInv, TypeInv', NEW e \in Editors, edit[e].stage = "idle", support' = support,
           \A f \in Editors \ {e} : edit'[f] = edit[f],
           NEW u \in Users, NEW N \in SUBSET Sites, Ask(u, N),
           edit'[e].user = u, ~edit'[e].failed, NamesSites(e)',
           edit'[e].stage \in {"role", "single unassign", "multi revoke"},
           N = Outcome(edit'[e].single, edit'[e].multi),
           access' = access, assignment' = assignment
    PROVE  OutcomeInv'
  <1>1. /\ N \in asked'[u] /\ \A v \in Users : SitesInFlight(v) \/ v # u => Remembers(v)
        /\ \A v \in Users \ {u} : asked'[v] = asked[v] /\ (v \in broken' <=> v \in broken)
    BY AskRemembers DEF OutcomeInv
  <1>2. EditWanted(e)'
    BY <1>1 DEF EditWanted
  <1>3. Served(u)'
    <2>1. OwesAccess(e, u)'
      BY DEF OwesAccess
    <2>2. SitesInFlight(u)'
      BY DEF SitesInFlight
    <2> QED
      BY <2>1, <2>2 DEF Served, KeepsSome, Wins
  <1>4. ASSUME NEW v \in Users
        PROVE  Served(v)' \/ (Untouched(v) /\ ~OfUser(e, v))
    BY <1>1, <1>3 DEF Untouched, OfUser
  <1> QED
    BY <1>1, <1>2, <1>4, EditKeepsOutcome

LEMMA OutcomeInsert ==
    ASSUME OutcomeInv, TypeInv', NEW e \in Editors, NEW t \in {"assignment", "access"}, Insert(e, t)
    PROVE  OutcomeInv'
  <1>m. PICK me, site : me = edit[e].user /\ site = edit[e].single
    OBVIOUS
  <1> DEFINE taken == site \in (IF t = "access" THEN access[me] ELSE assignment[me])
             left == edit[e].pending \ {t}
             failed == edit[e].failed \/ taken
             d == [edit[e] EXCEPT !.pending = left, !.failed = failed]
  <1>0. /\ me = edit[e].user /\ site = edit[e].single
        /\ TypeInv /\ edit[e] \in Edit /\ me \in Users /\ site \in Sites
        /\ NamesSites(e) /\ EditWanted(e) /\ edit[e].stage = "create" /\ support' = support
    BY <1>m DEF OutcomeInv, TypeInv, TypeOK, ShapeOK, EditShape, Insert, NamesSites, Keep
  <1>1. /\ IF left = {} /\ ~failed THEN Proceed(e)
           ELSE edit' = [edit EXCEPT ![e] = IF left = {} THEN NoEdit ELSE d]
        /\ IF taken THEN Fail(me) ELSE UNCHANGED ghosts
        /\ t \in edit[e].pending
    BY <1>0 DEF Insert, TypeInv, TypeOK
  <1>2. /\ access'[me] = IF t = "access" THEN access[me] \cup {site} ELSE access[me]
        /\ assignment'[me] = IF t = "assignment" THEN assignment[me] \cup {site} ELSE assignment[me]
        /\ \A v \in Users \ {me} : access'[v] = access[v] /\ assignment'[v] = assignment[v]
    BY <1>0 DEF Insert, TypeInv, TypeOK
  <1>3. /\ d.stage = "create" /\ d.user = me /\ d.single = site /\ d.multi = edit[e].multi /\ d.pending = left
        /\ d.failed = failed
    BY <1>0 DEF Edit
  <1> HIDE DEF taken, left, failed, d
  <1>4. /\ \A f \in Editors \ {e} : edit'[f] = edit[f]
        /\ left # {} => edit'[e] = d
        /\ left = {} /\ failed => edit'[e] = NoEdit
        /\ left = {} /\ ~failed =>
              /\ edit[e].multi = KeepSites => edit'[e] = NoEdit
              /\ edit[e].multi # KeepSites => MovesTo(e, "multi revoke")
    <2>1. CASE left = {} /\ ~failed
      <3>1. Proceed(e)
        BY <1>1, <2>1
      <3>2. /\ edit[e].multi = KeepSites => edit'[e] = NoEdit
            /\ edit[e].multi # KeepSites => MovesTo(e, "multi revoke")
            /\ \A f \in Editors \ {e} : edit'[f] = edit[f]
        BY <1>0, <3>1, ProceedsTo
      <3> QED
        BY <2>1, <3>2
    <2>2. CASE ~(left = {} /\ ~failed)
      <3>1. edit' = [edit EXCEPT ![e] = IF left = {} THEN NoEdit ELSE d] /\ edit \in [Editors -> Edit]
        BY <1>0, <1>1, <2>2 DEF TypeInv, TypeOK
      <3> QED
        BY <2>2, <3>1
    <2> QED
      BY <2>1, <2>2
  <1>5. CASE taken
    <2>1. Fail(me)
      BY <1>0, <1>1, <1>5
    <2>2. \/ edit'[e] = NoEdit
          \/ /\ edit'[e].user = me
             /\ edit'[e].single = site /\ edit'[e].multi = edit[e].multi
      BY <1>0, <1>3, <1>4 DEF MovesTo
    <2> QED
      BY <1>0, <1>2, <1>4, <2>1, <2>2, OutcomeFail
  <1>6. CASE ~taken
    <2>1. UNCHANGED ghosts
      BY <1>1, <1>6
    <2>2. edit'[e].failed => edit[e].failed
      <3>1. CASE left # {}
        BY <1>3, <1>4, <1>6, <3>1 DEF failed
      <3>2. CASE left = {} /\ failed
        BY <1>4, <3>2 DEF NoEdit
      <3>3. CASE left = {} /\ ~failed
        <4>1. CASE edit[e].multi = KeepSites
          BY <1>4, <3>3, <4>1 DEF NoEdit
        <4>2. CASE edit[e].multi # KeepSites
          <5>1. edit'[e].failed = edit[e].failed
            BY <1>4, <3>3, <4>2 DEF MovesTo
          <5> QED
            BY <5>1
        <4> QED
          BY <4>1, <4>2
      <3> QED
        BY <3>1, <3>2, <3>3
    <2>3. EditWanted(e)'
      <3>1. \/ edit'[e] = NoEdit
            \/ /\ edit'[e].user = me /\ edit'[e].single = site /\ edit'[e].multi = edit[e].multi
        BY <1>0, <1>3, <1>4 DEF MovesTo
      <3> QED
        BY <1>0, <2>1, <2>2, <3>1 DEF EditWanted, NoEdit, ghosts, NamesSites
    <2>4. Remembers(me) /\ \A v \in Users : SitesInFlight(v) => Remembers(v)
      BY <1>0, <2>1 DEF Remembers, ghosts
    <2>5. Served(me)'
      <3>1. CASE me \in broken
        BY <2>1, <3>1 DEF Served, KeepsSome, Wins, ghosts
      <3>2. CASE edit[e].multi = KeepSites /\ t = "access"
        <4>1. Outcome(site, edit[e].multi) = {site}
          BY <1>0, <3>2 DEF Outcome
        <4>2. {site} \in asked'[me]
          BY <1>0, <2>1, <4>1 DEF EditWanted, ghosts
        <4>3. {site} \subseteq access'[me]
          BY <1>2, <3>2
        <4> QED
          BY <4>2, <4>3 DEF Served, KeepsSome, Wins
      <3>3. CASE edit[e].multi # KeepSites /\ me \notin broken
        <4>1. ~failed
          BY <1>0, <1>6, <3>3 DEF failed, EditWanted
        <4>2. /\ edit'[e].user = me /\ NamesSites(e)' /\ edit'[e].multi # KeepSites
              /\ edit'[e].stage \in {"create", "multi revoke"}
          BY <1>0, <1>3, <1>4, <3>3, <4>1 DEF MovesTo, NamesSites
        <4>3. OwesAccess(e, me)' /\ SitesInFlight(me)'
          BY <4>2 DEF OwesAccess, SitesInFlight
        <4> QED
          BY <4>3 DEF Served, KeepsSome, Wins
      <3>4. CASE edit[e].multi = KeepSites /\ t = "assignment"
        <4>1. access'[me] \cup assignment'[me] # {} /\ access[me] \subseteq access'[me]
          BY <1>2, <3>4
        <4>2. CASE "access" \in edit[e].pending
          <5>1. "access" \in left
            BY <3>4, <4>2 DEF left
          <5>2. /\ edit'[e].user = me /\ NamesSites(e)' /\ edit'[e].stage = "create"
                /\ "access" \in edit'[e].pending
            BY <1>0, <1>3, <1>4, <5>1 DEF NamesSites
          <5>3. OwesAccess(e, me)' /\ SitesInFlight(me)'
            BY <5>2 DEF OwesAccess, SitesInFlight
          <5> QED
            BY <5>3 DEF Served, KeepsSome, Wins
        <4>3. CASE "access" \notin edit[e].pending
          <5>1. ~OwesAccess(e, me)
            BY <1>0, <3>4, <4>3 DEF OwesAccess
          <5> QED
            BY <1>0, <1>4, <2>4, <4>1, <5>1, GrowingServes
        <4> QED
          BY <4>2, <4>3
      <3> QED
        BY <3>1, <3>2, <3>3, <3>4
    <2>6. ASSUME NEW v \in Users
          PROVE  Served(v)' \/ (Untouched(v) /\ ~OfUser(e, v))
      BY <1>0, <1>2, <2>1, <2>5 DEF Untouched, OfUser, ghosts
    <2> QED
      BY <1>0, <1>4, <2>3, <2>4, <2>6, EditKeepsOutcome
  <1> QED
    BY <1>5, <1>6

LEMMA OutcomeEdit ==
    ASSUME OutcomeInv, TypeInv', NEW e \in Editors, Administer(e)
    PROVE  OutcomeInv'
  <1>m. PICK me : me = edit[e].user
    OBVIOUS
  <1>0. /\ me = edit[e].user
        /\ TypeInv /\ EditWanted(e) /\ EditShape(edit[e]) /\ edit[e] \in Edit
        /\ edit[e].stage # "idle" => me \in Users
    BY <1>m DEF OutcomeInv, TypeInv, TypeOK, ShapeOK, EditShape
  <1>1. ASSUME NEW u \in Users, NEW r \in Managed, NEW single \in Sites \cup {Nowhere},
               NEW multi \in SUBSET Sites, CreateUser(e, u, r, single, multi)
        PROVE  OutcomeInv'
    <2> DEFINE d == IF r = "SAFETY_OFFICER"
           THEN [NoEdit EXCEPT !.stage = "multi revoke", !.user = u, !.role = r, !.multi = multi]
           ELSE [NoEdit EXCEPT !.stage = "single unassign", !.user = u, !.role = r, !.single = single]
    <2>1. PICK N : N = Outcome(d.single, d.multi) /\ Ask(u, N) /\ N \in SUBSET Sites
      <3>1. multi # KeepSites
        BY DEF KeepSites
      <3>2. CASE r = "SAFETY_OFFICER"
        BY <1>1, <3>1, <3>2 DEF CreateUser, Outcome, NoEdit
      <3>3. CASE r # "SAFETY_OFFICER"
        BY <1>1, <3>1, <3>3 DEF CreateUser, Outcome, NoEdit
      <3> QED
        BY <3>2, <3>3
    <2>2. /\ d.user = u /\ ~d.failed /\ d.stage \in {"role", "single unassign", "multi revoke"}
          /\ d.single # Keep \/ d.multi # KeepSites
      BY DEF NoEdit, KeepSites, Keep, Nowhere
    <2>3. edit'[e] = d /\ \A f \in Editors \ {e} : edit'[f] = edit[f]
      BY <1>0, <1>1 DEF CreateUser, TypeInv, TypeOK
    <2> HIDE DEF d
    <2>4. NamesSites(e)'
      BY <2>2, <2>3 DEF NamesSites
    <2>5. /\ edit[e].stage = "idle" /\ support' = support /\ access' = access /\ assignment' = assignment
      BY <1>1 DEF CreateUser
    <2> QED
      BY <2>1, <2>2, <2>3, <2>4, <2>5, OutcomeBegin
  <1>2. ASSUME NEW u \in Users, NEW p \in Payloads, BeginUpdate(e, u, p)
        PROVE  OutcomeInv'
    <2> DEFINE N == Outcome(p.single, p.multi)
    <2>1. N \in SUBSET Sites
      BY PayloadsAssumption, OutcomeType DEF AnyPayload
    <2>2. /\ edit'[e].user = u /\ edit'[e].stage = "role" /\ ~edit'[e].failed
          /\ edit'[e].single = p.single /\ edit'[e].multi = p.multi
      BY <1>0, <1>2 DEF BeginUpdate, NoEdit, TypeInv, TypeOK
    <2>3. edit[e].stage = "idle" /\ support' = support /\ access' = access /\ assignment' = assignment
      BY <1>2 DEF BeginUpdate, tables
    <2>4. \A f \in Editors \ {e} : edit'[f] = edit[f]
      BY <1>0, <1>2 DEF BeginUpdate, TypeInv, TypeOK
    <2>5. CASE p.single # Keep \/ p.multi # KeepSites
      <3>1. Ask(u, N)
        BY <1>2, <2>5 DEF BeginUpdate
      <3>2. NamesSites(e)' /\ N = Outcome(edit'[e].single, edit'[e].multi)
        BY <2>2, <2>5 DEF NamesSites
      <3> QED
        BY <2>1, <2>2, <2>3, <2>4, <3>1, <3>2, OutcomeBegin
    <2>6. CASE ~(p.single # Keep \/ p.multi # KeepSites)
      <3>1. UNCHANGED ghosts
        BY <1>2, <2>6 DEF BeginUpdate
      <3>2. EditWanted(e)'
        BY <2>2, <2>6 DEF EditWanted, NamesSites
      <3>3. \A v \in Users : Remembers(v) /\ Untouched(v) /\ ~OfUser(e, v)
        BY <2>3, <3>1 DEF Remembers, Untouched, OfUser, ghosts
      <3> QED
        BY <2>3, <2>4, <3>2, <3>3, EditKeepsOutcome
    <2> QED
      BY <2>5, <2>6
  \* A step that goes on to another statement: only the user's service is left to show.
  <1>3. ASSUME edit[e].stage # "idle", UNCHANGED ghosts, support' = support,
               \A f \in Editors \ {e} : edit'[f] = edit[f],
               \A v \in Users \ {me} : access'[v] = access[v] /\ assignment'[v] = assignment[v],
               edit'[e] = NoEdit \/ (\E stage : MovesTo(e, stage)),
               Served(me)' \/ (~NamesSites(e) /\ access' = access /\ assignment' = assignment)
        PROVE  OutcomeInv'
    BY <1>0, <1>3, OutcomeMove
  \* Among the statements before the last delete of the access rows
  <1>4. ASSUME NamesSites(e), NEW stage, MovesTo(e, stage),
               stage \in {"single unassign", "single revoke", "multi revoke", "multi grant"}
        PROVE  Served(me)'
    <2>1. OwesAccess(e, me)' /\ SitesInFlight(me)'
      BY <1>0, <1>4, MovesOwing
    <2> QED
      BY <2>1 DEF Served, KeepsSome, Wins
  \* What was asked for, as long as the ghosts do not change.
  <1>5. ASSUME UNCHANGED ghosts, edit[e].stage # "idle", NamesSites(e)
        PROVE  Outcome(edit[e].single, edit[e].multi) \in asked'[me]
    BY <1>0, <1>5 DEF EditWanted, ghosts
  <1>6. ASSUME WriteRole(e)
        PROVE  OutcomeInv'
    <2>1. CASE ~NamesSites(e)
      BY <1>0, <1>3, <1>6, <2>1 DEF WriteRole, TypeInv, TypeOK
    <2>2. CASE NamesSites(e)
      <3>1. PICK stage \in {"single unassign", "multi revoke"} : MovesTo(e, stage)
        BY <1>0, <1>6, <2>2, StageSet DEF WriteRole, TypeInv, TypeOK
      <3>2. Served(me)'
        BY <1>4, <2>2, <3>1
      <3> QED
        BY <1>0, <1>3, <1>6, <3>1, <3>2 DEF WriteRole, TypeInv, TypeOK
    <2> QED
      BY <2>1, <2>2
  <1>7. ASSUME SingleUnassign(e)
        PROVE  OutcomeInv'
    <2>1. MovesTo(e, "single revoke")
      BY <1>0, <1>7, StageSet DEF SingleUnassign
    <2>2. NamesSites(e)
      BY <1>0, <1>7 DEF SingleUnassign, NamesSites, EditShape
    <2>3. Served(me)'
      BY <1>4, <2>1, <2>2
    <2> QED
      BY <1>0, <1>3, <1>7, <2>1, <2>3 DEF SingleUnassign, TypeInv, TypeOK
  <1>8. ASSUME SingleRevoke(e)
        PROVE  OutcomeInv'
    <2>1. /\ edit[e].stage = "single revoke" /\ NamesSites(e) /\ me \in Users
          /\ access' = [access EXCEPT ![me] = {}] /\ assignment' = assignment
          /\ support' = support /\ UNCHANGED ghosts
      BY <1>0, <1>8 DEF SingleRevoke, NamesSites, EditShape
    <2>2. CASE edit[e].single = Nowhere
      <3>1. Proceed(e)
        BY <1>8, <2>2 DEF SingleRevoke
      <3>2. Served(me)'
        <4>1. CASE edit[e].multi = KeepSites
          <5>1. {} \in asked'[me]
            BY <1>5, <2>1, <2>2, <4>1 DEF Outcome
          <5> QED
            BY <5>1 DEF Served, KeepsSome, Wins
        <4>2. CASE edit[e].multi # KeepSites
          <5>1. MovesTo(e, "multi revoke")
            BY <1>0, <3>1, <4>2, ProceedsTo
          <5> QED
            BY <1>4, <2>1, <5>1
        <4> QED
          BY <4>1, <4>2
      <3>3. /\ edit'[e] = NoEdit \/ MovesTo(e, "multi revoke")
            /\ \A f \in Editors \ {e} : edit'[f] = edit[f]
        BY <1>0, <3>1, ProceedsTo
      <3> QED
        BY <1>0, <1>3, <2>1, <3>2, <3>3 DEF TypeInv, TypeOK
    <2>3. CASE edit[e].single # Nowhere
      <3>1. edit' = [edit EXCEPT ![e] = [@ EXCEPT !.stage = "create", !.pending = {"assignment", "access"}]]
        BY <1>8, <2>3 DEF SingleRevoke
      <3>2. MovesTo(e, "create") /\ \A f \in Editors \ {e} : edit'[f] = edit[f]
        BY <1>0, <3>1, StageSet DEF TypeInv, TypeOK
      <3>3. edit'[e].pending = {"assignment", "access"}
        BY <1>0, <3>1 DEF TypeInv, TypeOK, Edit
      <3>4. edit'[e].user = me /\ edit'[e].stage = "create" /\ NamesSites(e)'
        BY <1>0, <2>1, <3>2 DEF MovesTo, NamesSites
      <3>5. OwesAccess(e, me)' /\ SitesInFlight(me)'
        BY <3>3, <3>4 DEF OwesAccess, SitesInFlight
      <3>6. Served(me)'
        BY <3>5 DEF Served, KeepsSome, Wins
      <3> QED
        BY <1>0, <1>3, <2>1, <3>2, <3>6 DEF TypeInv, TypeOK
    <2> QED
      BY <2>2, <2>3
  <1>9. ASSUME MultiRevoke(e)
        PROVE  OutcomeInv'
    <2>1. /\ edit[e].stage = "multi revoke" /\ NamesSites(e) /\ UNCHANGED ghosts
          /\ edit[e].multi # KeepSites
      BY <1>0, <1>9 DEF MultiRevoke, NamesSites, EditShape
    <2>2. PICK stage \in {"multi grant", "multi unassign"} :
             MovesTo(e, stage) /\ (stage = "multi unassign" => edit[e].multi = {})
      BY <1>0, <1>9, StageSet DEF MultiRevoke
    <2>3. Served(me)'
      <3>1. CASE stage = "multi grant"
        BY <1>4, <2>1, <2>2, <3>1
      <3>2. CASE stage = "multi unassign"
        <4>1. {} \in asked'[me]
          BY <1>5, <2>1, <2>2, <3>2 DEF Outcome
        <4> QED
          BY <4>1 DEF Served, KeepsSome, Wins
      <3> QED
        BY <3>1, <3>2
    <2> QED
      BY <1>0, <1>3, <1>9, <2>2, <2>3 DEF MultiRevoke, TypeInv, TypeOK
  <1>10. ASSUME MultiGrant(e)
         PROVE  OutcomeInv'
    <2>1. /\ edit[e].stage = "multi grant" /\ NamesSites(e) /\ UNCHANGED ghosts
          /\ edit[e].multi # KeepSites /\ MovesTo(e, "multi unassign")
      BY <1>0, <1>10, StageSet DEF MultiGrant, NamesSites, EditShape
    <2>2. edit[e].multi \in asked'[me]
      BY <1>5, <2>1 DEF Outcome
    <2>3. edit[e].multi \subseteq access'[me]
      <3>1. me \in Users /\ access' = [access EXCEPT ![me] = @ \cup edit[e].multi]
        BY <1>0, <1>10 DEF MultiGrant
      <3>2. access \in [Users -> SUBSET Sites]
        BY <1>0 DEF TypeInv, TypeOK
      <3> QED
        BY <3>1, <3>2
    <2>4. SitesInFlight(me)'
      <3>1. edit'[e].user = me /\ edit'[e].stage = "multi unassign" /\ NamesSites(e)'
        BY <1>0, <2>1 DEF MovesTo, NamesSites
      <3> QED
        BY <3>1 DEF SitesInFlight
    <2>5. Served(me)'
      BY <2>2, <2>3, <2>4 DEF Served, KeepsSome, Wins
    <2> QED
      BY <1>0, <1>3, <1>10, <2>1, <2>5 DEF MultiGrant, TypeInv, TypeOK
  <1>11. ASSUME MultiUnassign(e)
         PROVE  OutcomeInv'
    <2>1. /\ edit[e].stage = "multi unassign" /\ NamesSites(e) /\ UNCHANGED ghosts
          /\ edit[e].multi # KeepSites /\ me \in Users /\ ~OwesAccess(e, me)
      BY <1>0, <1>11 DEF MultiUnassign, NamesSites, EditShape, OwesAccess
    <2>2. edit'[e] = NoEdit \/ MovesTo(e, "multi assign")
      BY <1>0, <1>11, StageSet DEF MultiUnassign, TypeInv, TypeOK
    <2>3. /\ edit[e].multi = {} \/ MovesTo(e, "multi assign")
          /\ \A f \in Editors \ {e} : edit'[f] = edit[f]
      BY <1>0, <1>11, StageSet DEF MultiUnassign, TypeInv, TypeOK
    <2>4. SitesInFlight(me)' \/ {} \in asked'[me]
      <3>1. CASE edit[e].multi = {}
        BY <1>5, <2>1, <3>1 DEF Outcome
      <3>2. CASE MovesTo(e, "multi assign")
        <4>1. edit'[e].user = me /\ edit'[e].stage = "multi assign" /\ NamesSites(e)'
          BY <1>0, <2>1, <3>2 DEF MovesTo, NamesSites
        <4> QED
          BY <4>1 DEF SitesInFlight
      <3> QED
        BY <2>3, <3>1, <3>2
    <2>5. Remembers(me) /\ access' = access
      BY <1>11, <2>1 DEF MultiUnassign, Remembers, ghosts
    <2>6. Served(me)'
      BY <2>1, <2>3, <2>4, <2>5, GrowingServes
    <2> QED
      BY <1>0, <1>3, <1>11, <2>2, <2>3, <2>6 DEF MultiUnassign, TypeInv, TypeOK
  <1>12. ASSUME MultiAssign(e)
         PROVE  OutcomeInv'
    <2>1. /\ edit[e].stage = "multi assign" /\ me \in Users /\ ~OwesAccess(e, me)
          /\ support' = support /\ access' = access
      BY <1>0, <1>12 DEF MultiAssign, EditShape, OwesAccess
    <2>2. PICK first \in edit[e].multi :
             /\ assignment' = [assignment EXCEPT ![me] = @ \cup {first}]
             /\ IF first \in assignment[me] THEN Fail(me) ELSE UNCHANGED ghosts
      BY <1>0, <1>12 DEF MultiAssign
    <2>3. edit'[e] = NoEdit /\ \A f \in Editors \ {e} : edit'[f] = edit[f]
      BY <1>0, <1>12 DEF MultiAssign, TypeInv, TypeOK
    <2>4. first \in assignment'[me] /\ \A v \in Users \ {me} : assignment'[v] = assignment[v]
      BY <2>1, <2>2 DEF OutcomeInv, TypeInv, TypeOK
    <2>5. CASE first \in assignment[me]
      BY <1>0, <2>1, <2>2, <2>3, <2>4, <2>5, OutcomeFail
    <2>6. CASE first \notin assignment[me]
      <3>1. UNCHANGED ghosts
        BY <2>2, <2>6
      <3>2. Remembers(me)
        BY <3>1 DEF Remembers, ghosts
      <3>3. Served(me)'
        BY <2>1, <2>3, <2>4, <3>2, GrowingServes
      <3> QED
        BY <1>3, <2>1, <2>3, <2>4, <3>1, <3>3
    <2> QED
      BY <2>5, <2>6
  <1>13. ASSUME Throw(e)
         PROVE  OutcomeInv'
    <2>1. /\ edit[e].stage # "idle" /\ support' = support /\ access' = access /\ assignment' = assignment
          /\ IF NamesSites(e) THEN Fail(me) ELSE UNCHANGED ghosts
      BY <1>0, <1>13 DEF Throw, tables
    <2>2. edit'[e] = NoEdit /\ \A f \in Editors \ {e} : edit'[f] = edit[f]
      BY <1>0, <1>13 DEF Throw, TypeInv, TypeOK
    <2>3. CASE NamesSites(e)
      BY <1>0, <2>1, <2>2, <2>3, OutcomeFail
    <2>4. CASE ~NamesSites(e)
      BY <1>3, <2>1, <2>2, <2>4
    <2> QED
      BY <2>3, <2>4
  <1> QED
    BY <1>1, <1>2, <1>6, <1>7, <1>8, <1>9, <1>10, <1>11, <1>12, <1>13, OutcomeInsert DEF Administer

\* It is enough to look at the support request that changes.
LEMMA SupportKeepsOutcome ==
    ASSUME OutcomeInv, TypeInv', NEW s \in Supporters, edit' = edit,
           \A t \in Supporters \ {s} : support'[t] = support[t],
           SupportWanted(s)',
           \A v \in Users : SitesInFlight(v) => Remembers(v),
           \A v \in Users :
              \/ SitesInFlight(v)' \/ v \in broken' \/ access'[v] \cup assignment'[v] # {} \/ {} \in asked'[v]
              \/ Untouched(v) /\ (support[s].stage # "idle" => support[s].user # v)
    PROVE  OutcomeInv'
  <1>1. ASSUME NEW f \in Editors
        PROVE  EditWanted(f)'
    <2>1. CASE edit[f].stage # "idle" /\ NamesSites(f)
      <3>1. edit[f].user \in Users
        BY <2>1 DEF OutcomeInv, TypeInv, ShapeOK, EditShape
      <3>2. Remembers(edit[f].user)
        BY <2>1, <3>1, InFlight
      <3> QED
        BY <2>1, <3>2 DEF OutcomeInv, EditWanted, Remembers
    <2>2. CASE ~(edit[f].stage # "idle" /\ NamesSites(f))
      BY <2>2 DEF EditWanted, NamesSites
    <2> QED
      BY <2>1, <2>2
  <1>2. ASSUME NEW t \in Supporters
        PROVE  SupportWanted(t)'
    <2>1. CASE t = s
      BY <2>1
    <2>2. CASE t # s
      <3> SUFFICES ASSUME support[t].stage # "idle"
                   PROVE  support[t].assignment \cup support[t].access \in asked'[support[t].user]
        BY <2>2 DEF SupportWanted
      <3>1. support[t].user \in Users
        BY DEF OutcomeInv, TypeInv, ShapeOK, SupportShape
      <3> QED
        BY <3>1, InFlight DEF OutcomeInv, SupportWanted, Remembers
    <2> QED
      BY <2>1, <2>2
  <1>3. ASSUME NEW v \in Users
        PROVE  Served(v)'
    <2>1. Supporters # {}
      OBVIOUS
    <2>2. CASE \/ SitesInFlight(v)' \/ v \in broken' \/ access'[v] \cup assignment'[v] # {}
               \/ {} \in asked'[v]
      BY <2>1, <2>2 DEF Served, KeepsSome
    <2>3. CASE Untouched(v) /\ (support[s].stage # "idle" => support[s].user # v)
      <3>1. SitesInFlight(v) => SitesInFlight(v)'
        BY <2>3 DEF SitesInFlight, NamesSites
      <3> QED
        BY <2>1, <2>3, <3>1 DEF OutcomeInv, Served, KeepsSome, Untouched
    <2> QED
      BY <2>2, <2>3
  <1> QED
    BY <1>1, <1>2, <1>3 DEF OutcomeInv

LEMMA OutcomeSupport ==
    ASSUME OutcomeInv, TypeInv', NEW s \in Supporters, GiveSupport(s)
    PROVE  OutcomeInv'
  <1>m. PICK me : me = support[s].user
    OBVIOUS
  <1>0. /\ me = support[s].user
        /\ TypeInv /\ SupportWanted(s) /\ support[s] \in Support
        /\ support[s].stage # "idle" => me \in Users
    BY <1>m DEF OutcomeInv, TypeInv, TypeOK, ShapeOK, SupportShape
  <1>1. ASSUME NEW u \in Users, NEW r \in Roles \cup {Keep}, NEW single \in SingleChoice,
               NEW multi \in MultiChoice, BeginSupport(s, u, r, single, multi)
        PROVE  OutcomeInv'
    <2> DEFINE next == NextRole(u, r)
               sites == IF multi = KeepSites THEN access[u] ELSE multi
    <2>1. sites \in SUBSET Sites
      BY <1>0 DEF MultiChoice, TypeInv, TypeOK
    <2>2. PICK site : /\ next \in SingleSite => site \in Sites
                      /\ support' = [support EXCEPT ![s] =
                           [NoSupport EXCEPT !.stage = "begin", !.user = u, !.role = next,
                              !.assignment = IF next \in SingleSite THEN {site} ELSE {},
                              !.access = IF next = "SAFETY_OFFICER" THEN sites ELSE {}]]
                      /\ Ask(u, IF next \in SingleSite THEN {site}
                                ELSE IF next = "SAFETY_OFFICER" THEN sites ELSE {})
      BY <1>1 DEF BeginSupport
    <2> HIDE DEF next, sites
    <2> DEFINE A == IF next \in SingleSite THEN {site} ELSE {}
               G == IF next = "SAFETY_OFFICER" THEN sites ELSE {}
               N == IF next \in SingleSite THEN {site}
                    ELSE IF next = "SAFETY_OFFICER" THEN sites ELSE {}
    <2>3. N \in SUBSET Sites /\ A \cup G = N
      BY <2>1, <2>2 DEF SingleSite
    <2>4. /\ support' = [support EXCEPT ![s] =
                [NoSupport EXCEPT !.stage = "begin", !.user = u, !.role = next,
                   !.assignment = A, !.access = G]]
          /\ Ask(u, N)
      BY <2>2
    <2> HIDE DEF A, G, N
    <2>5. /\ support'[s].stage = "begin" /\ support'[s].user = u
          /\ support'[s].assignment = A /\ support'[s].access = G
          /\ \A t \in Supporters \ {s} : support'[t] = support[t]
      BY <1>0, <2>4 DEF NoSupport, TypeInv, TypeOK
    <2>6. support[s].stage = "idle" /\ edit' = edit /\ access' = access /\ assignment' = assignment
      BY <1>1 DEF BeginSupport, tables
    <2>7. /\ N \in asked'[u] /\ \A v \in Users : SitesInFlight(v) \/ v # u => Remembers(v)
          /\ \A v \in Users \ {u} : asked'[v] = asked[v] /\ (v \in broken' <=> v \in broken)
      BY <1>0, <2>3, <2>4, AskRemembers
    <2>8. SupportWanted(s)' /\ SitesInFlight(u)'
      BY <2>3, <2>5, <2>7 DEF SupportWanted, SitesInFlight
    <2>9. \A v \in Users \ {u} : Untouched(v)
      BY <2>6, <2>7 DEF Untouched
    <2> QED
      BY <2>5, <2>6, <2>7, <2>8, <2>9, SupportKeepsOutcome
  <1>2. ASSUME DeleteOld(s)
        PROVE  OutcomeInv'
    <2>1. /\ me \in Users /\ edit' = edit /\ access' = access /\ assignment' = assignment
          /\ support[s].stage = "begin" /\ UNCHANGED ghosts
      BY <1>0, <1>2 DEF DeleteOld, tables
    <2>2. support' = [support EXCEPT ![s] = [support[s] EXCEPT !.stage = "commit",
                        !.oldAssignment = assignment[me], !.oldAccess = access[me]]]
      BY <1>0, <1>2 DEF DeleteOld, TypeInv, TypeOK
    <2>3. /\ support'[s].stage = "commit" /\ support'[s].user = me
          /\ support'[s].assignment = support[s].assignment /\ support'[s].access = support[s].access
          /\ \A t \in Supporters \ {s} : support'[t] = support[t]
      BY <1>0, <2>2 DEF TypeInv, TypeOK, Support
    <2>4. SupportWanted(s)'
      BY <1>0, <2>1, <2>3 DEF SupportWanted, ghosts
    <2>5. SitesInFlight(me)'
      BY <2>3 DEF SitesInFlight
    <2>6. \A v \in Users : Remembers(v) /\ Untouched(v)
      BY <2>1 DEF Remembers, Untouched, ghosts
    <2> QED
      BY <1>0, <2>1, <2>3, <2>4, <2>5, <2>6, SupportKeepsOutcome
  <1>3. ASSUME CommitSupport(s)
        PROVE  OutcomeInv'
    <2>1. /\ me \in Users /\ edit' = edit /\ support[s].stage = "commit" /\ UNCHANGED ghosts
          /\ access' = [access EXCEPT ![me] = (access[me] \ support[s].oldAccess) \cup support[s].access]
          /\ assignment' = [assignment EXCEPT ![me] =
                              (assignment[me] \ support[s].oldAssignment) \cup support[s].assignment]
          /\ support' = [support EXCEPT ![s] = NoSupport]
      BY <1>0, <1>3 DEF CommitSupport
    <2>2. SupportWanted(s)' /\ \A t \in Supporters \ {s} : support'[t] = support[t]
      BY <1>0, <2>1 DEF SupportWanted, NoSupport, TypeInv, TypeOK
    <2>3. /\ support[s].access \subseteq access'[me] /\ support[s].assignment \subseteq assignment'[me]
          /\ \A v \in Users \ {me} : access'[v] = access[v] /\ assignment'[v] = assignment[v]
      BY <1>0, <2>1 DEF TypeInv, TypeOK
    <2>4. support[s].assignment \cup support[s].access \in asked'[me]
      BY <1>0, <2>1 DEF SupportWanted, ghosts
    <2>5. access'[me] \cup assignment'[me] # {} \/ {} \in asked'[me]
      <3>1. CASE support[s].assignment \cup support[s].access = {}
        BY <2>4, <3>1
      <3>2. CASE support[s].assignment \cup support[s].access # {}
        BY <2>3, <3>2
      <3> QED
        BY <3>1, <3>2
    <2>6. \A v \in Users : Remembers(v)
      BY <2>1 DEF Remembers, ghosts
    <2>7. \A v \in Users \ {me} : Untouched(v)
      BY <2>1, <2>3 DEF Untouched, ghosts
    <2> QED
      BY <1>0, <2>1, <2>2, <2>5, <2>6, <2>7, SupportKeepsOutcome
  <1>4. ASSUME RollBack(s)
        PROVE  OutcomeInv'
    <2>1. /\ me \in Users /\ edit' = edit /\ access' = access /\ assignment' = assignment
          /\ Fail(me) /\ support' = [support EXCEPT ![s] = NoSupport]
      BY <1>0, <1>4 DEF RollBack, tables
    <2>2. /\ me \in broken' /\ \A v \in Users : Remembers(v)
          /\ \A v \in Users \ {me} : asked'[v] = asked[v] /\ (v \in broken' <=> v \in broken)
      BY <1>0, <2>1, FailRemembers
    <2>3. SupportWanted(s)' /\ \A t \in Supporters \ {s} : support'[t] = support[t]
      BY <1>0, <2>1 DEF SupportWanted, NoSupport, TypeInv, TypeOK
    <2>4. \A v \in Users \ {me} : Untouched(v)
      BY <2>1, <2>2 DEF Untouched
    <2> QED
      BY <1>0, <2>1, <2>2, <2>3, <2>4, SupportKeepsOutcome
  <1> QED
    BY <1>1, <1>2, <1>3, <1>4 DEF GiveSupport

LEMMA OutcomeStep ==
    ASSUME OutcomeInv, [Next]_vars
    PROVE  OutcomeInv'
  <1>0. TypeInv'
    BY TypeStep DEF OutcomeInv
  <1>1. ASSUME edit' = edit, support' = support, access' = access, assignment' = assignment,
               asked' = asked, broken' = broken
        PROVE  OutcomeInv'
    <2>1. /\ \A e \in Editors : EditWanted(e)'
          /\ \A s \in Supporters : SupportWanted(s)'
      BY <1>1 DEF OutcomeInv, EditWanted, SupportWanted, NamesSites
    <2>2. \A u \in Users : SitesInFlight(u)' <=> SitesInFlight(u)
      BY <1>1 DEF SitesInFlight, NamesSites
    <2>3. \A u \in Users, e \in Editors : OwesAccess(e, u) => OwesAccess(e, u)'
      BY <1>1 DEF OwesAccess, NamesSites
    <2>4. \A u \in Users : Served(u)'
      BY <1>1, <2>2, <2>3 DEF OutcomeInv, Served, KeepsSome, Wins
    <2> QED
      BY <1>0, <2>1, <2>4 DEF OutcomeInv
  <1>2. ASSUME NEW u \in Users, NEW site \in Imported, ImportSupervisorSite(u, site)
        PROVE  OutcomeInv'
    BY <1>1, <1>2 DEF ImportSupervisorSite, ghosts
  <1>3. CASE UNCHANGED vars
    BY <1>1, <1>3 DEF vars
  <1> QED
    BY <1>0, <1>2, <1>3, OutcomeEdit, OutcomeSupport DEF Next

\* What the requests owe a user is what makes them end well.
LEMMA OutcomeInvariant == Spec => []OutcomeInv
  BY OutcomeInit, OutcomeStep, PTL DEF Spec

\* For any number of administrators and of support requests: a user to whom each of
\* a set of overlapping requests gives a site, none of them failing, has a site in the end.
THEOREM NobodyLeftWithout == Spec => []NotLeftWithout
  <1>1. OutcomeInv => NotLeftWithout
    BY DEF OutcomeInv, Served, KeepsSome, NotLeftWithout
  <1> QED
    BY <1>1, OutcomeInvariant, PTL

\* Without support among them, for any number of overlapping edits of which none
\* fails: one of them has all the sites it asked for in the end.
THEOREM SomeEditAlwaysWins == ASSUME Supporters = {} PROVE Spec => []SomeEditWins
  <1>1. OutcomeInv => SomeEditWins
    <2> SUFFICES ASSUME OutcomeInv, NEW u \in Users, ~SitesInFlight(u), u \notin broken
                 PROVE  \E N \in asked[u] : N \subseteq access[u] \cup assignment[u]
      BY DEF SomeEditWins
    <2>1. \A e \in Editors : ~OwesAccess(e, u)
      BY DEF OwesAccess, SitesInFlight
    <2> QED
      BY <2>1 DEF OutcomeInv, Served, Wins
  <1> QED
    BY <1>1, OutcomeInvariant, PTL
----------------------------------------------------------------------------
(* What would keep the promise that SupervisorHasSite refutes: that one     *)
(* administrator edits at a time, and that an update which may leave a user *)
(* a supervisor gives a site or leaves both fields out.                     *)

SupervisorsGivenSites ==
    \A p \in Payloads : p.role \in {"SITE_SUPERVISOR", Keep} =>
        (p.single = Keep /\ p.multi = KeepSites) \/ Outcome(p.single, p.multi) # {}

GivenSite(u) == u \in broken \/ {} \notin asked[u]

\* The edit is going to take the role away, and names sites.
Demotes(e, u) ==
    /\ edit[e].stage = "role" /\ edit[e].user = u /\ edit[e].role # "SITE_SUPERVISOR"
    /\ NamesSites(e)

SupervisorInv ==
    /\ \A u \in Users : u \in broken \/ \E N \in SUBSET Sites : asked[u] = {N}
    /\ \A u \in Users : role[u] = "SITE_SUPERVISOR" =>
          GivenSite(u) \/ \E e \in Editors : Demotes(e, u)
    /\ \A e \in Editors : edit[e].stage = "role" /\ edit[e].role = "SITE_SUPERVISOR" =>
          GivenSite(edit[e].user)

\* Steps that leave the roles alone and are not of an update's first write.
LEMMA RolesKept ==
    ASSUME SupervisorInv, TypeInv, role' = role,
           \A e \in Editors : edit'[e].stage # "role",
           \/ UNCHANGED ghosts /\ \A e \in Editors : edit[e].stage # "role"
           \/ \E u \in Users : /\ Fail(u)
                               /\ \A e \in Editors, v \in Users \ {u} : ~Demotes(e, v)
    PROVE  SupervisorInv'
  <1>1. CASE UNCHANGED ghosts /\ \A e \in Editors : edit[e].stage # "role"
    BY <1>1 DEF SupervisorInv, ghosts, GivenSite, Demotes
  <1>2. ASSUME NEW u \in Users, Fail(u), \A e \in Editors, v \in Users \ {u} : ~Demotes(e, v)
        PROVE  SupervisorInv'
    <2>1. /\ u \in broken' /\ \A v \in Users : v \in broken => v \in broken'
          /\ \A v \in Users \ {u} : asked'[v] = asked[v]
      BY <1>2, FailRemembers DEF Remembers
    <2>2. ASSUME NEW v \in Users PROVE v \in broken' \/ \E N \in SUBSET Sites : asked'[v] = {N}
      BY <2>1 DEF SupervisorInv
    <2>3. ASSUME NEW v \in Users, role[v] = "SITE_SUPERVISOR" PROVE v \in broken' \/ {} \notin asked'[v]
      BY <1>2, <2>1, <2>3 DEF SupervisorInv, GivenSite
    <2> QED
      BY <2>2, <2>3 DEF SupervisorInv, GivenSite
  <1> QED
    BY <1>1, <1>2

LEMMA SupervisorStep ==
    ASSUME \A e, f \in Editors : e = f, Supporters = {}, SupervisorsGivenSites,
           SupervisorInv, TypeInv, RemovedSitesGo, [Next]_vars
    PROVE  SupervisorInv'
  <1>t. /\ edit \in [Editors -> Edit] /\ role \in [Users -> Roles \cup {Absent}]
        /\ asked \in [Users -> SUBSET SUBSET Sites] /\ broken \subseteq Users
        /\ \A e \in Editors : EditShape(edit[e])
    BY DEF TypeInv, TypeOK, ShapeOK
  \* With one editor, what is asked of the user is all there is.
  <1>a. ASSUME NEW e \in Editors, edit[e].stage = "idle", NEW u \in Users,
               NEW N \in SUBSET Sites, Ask(u, N)
        PROVE  /\ asked'[u] = {N} /\ \A v \in Users \ {u} : asked'[v] = asked[v]
               /\ \A v \in Users \ {u} : v \in broken => v \in broken'
    <2>1. ~SitesInFlight(u)
      BY <1>a DEF SitesInFlight
    <2> QED
      BY <1>a, <1>t, <2>1 DEF Ask
  <1>b. ASSUME NEW e \in Editors, edit[e].stage = "idle", NEW u \in Users
        PROVE  role[u] = "SITE_SUPERVISOR" => GivenSite(u)
    BY <1>b DEF SupervisorInv, Demotes
  <1>1. ASSUME NEW e \in Editors, NEW u \in Users, NEW r \in Managed,
               NEW single \in Sites \cup {Nowhere}, NEW multi \in SUBSET Sites,
               CreateUser(e, u, r, single, multi)
        PROVE  SupervisorInv'
    <2> DEFINE N == IF r = "SAFETY_OFFICER" THEN multi ELSE Outcome(single, KeepSites)
    <2>1. N \in SUBSET Sites /\ (r = "SITE_SUPERVISOR" => N # {})
      BY <1>1 DEF CreateUser, Outcome
    <2>2. edit[e].stage = "idle" /\ Ask(u, N)
      BY <1>1 DEF CreateUser
    <2> HIDE DEF N
    <2>3. /\ asked'[u] = {N} /\ \A v \in Users \ {u} : asked'[v] = asked[v]
          /\ \A v \in Users \ {u} : v \in broken => v \in broken'
      BY <1>a, <2>1, <2>2
    <2>4. edit'[e].stage # "role"
      BY <1>1, <1>t DEF CreateUser, NoEdit
    <2>5. \A v \in Users : role'[v] = IF v = u THEN r ELSE role[v]
      BY <1>1, <1>t DEF CreateUser
    <2>6. \A v \in Users : v \in broken' \/ \E M \in SUBSET Sites : asked'[v] = {M}
      BY <2>1, <2>3 DEF SupervisorInv
    <2>7. \A v \in Users : role'[v] = "SITE_SUPERVISOR" => v \in broken' \/ {} \notin asked'[v]
      BY <1>b, <2>1, <2>2, <2>3, <2>5 DEF GivenSite
    <2> QED
      BY <2>4, <2>6, <2>7 DEF SupervisorInv, GivenSite
  <1>2. ASSUME NEW e \in Editors, NEW u \in Users, NEW p \in Payloads, BeginUpdate(e, u, p)
        PROVE  SupervisorInv'
    <2> DEFINE next == NextRole(u, p.role)
               N == Outcome(p.single, p.multi)
               d == [NoEdit EXCEPT !.stage = "role", !.user = u, !.role = next,
                                   !.single = p.single, !.multi = p.multi]
    <2>1. /\ edit[e].stage = "idle" /\ role' = role /\ edit' = [edit EXCEPT ![e] = d]
          /\ next = "SITE_SUPERVISOR" /\ p.single = Keep => access[u] \cup assignment[u] # {}
      BY <1>2 DEF BeginUpdate, tables
    <2>2. d.stage = "role" /\ d.user = u /\ d.role = next /\ d.single = p.single /\ d.multi = p.multi
      BY DEF NoEdit
    <2>3. N \in SUBSET Sites
      BY PayloadsAssumption DEF AnyPayload, Outcome, SingleChoice, MultiChoice
    <2>4. next = "SITE_SUPERVISOR" => \/ p.single = Keep /\ p.multi = KeepSites
                                      \/ N # {}
      <3>1. next = "SITE_SUPERVISOR" => p.role \in {"SITE_SUPERVISOR", Keep}
        BY DEF NextRole
      <3> QED
        BY <3>1 DEF SupervisorsGivenSites
    <2> HIDE DEF d, N, next
    <2>5. edit'[e] = d
      BY <1>t, <2>1
    <2>6. CASE p.single # Keep \/ p.multi # KeepSites
      <3>1. /\ asked'[u] = {N} /\ \A v \in Users \ {u} : asked'[v] = asked[v]
            /\ \A v \in Users \ {u} : v \in broken => v \in broken'
        BY <1>2, <1>a, <2>1, <2>3, <2>6 DEF BeginUpdate, N
      <3>2. \A v \in Users : v \in broken' \/ \E M \in SUBSET Sites : asked'[v] = {M}
        BY <2>3, <3>1 DEF SupervisorInv
      <3>3. next = "SITE_SUPERVISOR" => {} \notin asked'[u]
        BY <2>4, <2>6, <3>1
      <3>4. next # "SITE_SUPERVISOR" => Demotes(e, u)'
        BY <2>2, <2>5, <2>6 DEF Demotes, NamesSites
      <3>5. \A v \in Users : role'[v] = "SITE_SUPERVISOR"
              => v \in broken' \/ {} \notin asked'[v] \/ (v = u /\ Demotes(e, u)')
        BY <1>b, <2>1, <3>1, <3>3, <3>4 DEF GivenSite
      <3> QED
        BY <2>2, <2>5, <3>2, <3>3, <3>5 DEF SupervisorInv, GivenSite
    <2>7. CASE ~(p.single # Keep \/ p.multi # KeepSites)
      <3>1. asked' = asked /\ broken' = broken
        BY <1>2, <2>7 DEF BeginUpdate, ghosts
      <3>2. next = "SITE_SUPERVISOR" => GivenSite(u)
        <4>1. ~SitesInFlight(u)
          BY <2>1 DEF SitesInFlight
        <4>2. next = "SITE_SUPERVISOR" => UNION asked[u] # {}
          BY <2>1, <2>7, <4>1 DEF RemovedSitesGo
        <4>3. u \in broken \/ \E M \in SUBSET Sites : asked[u] = {M}
          BY DEF SupervisorInv
        <4> QED
          BY <4>2, <4>3 DEF GivenSite
      <3> QED
        BY <1>b, <2>1, <2>2, <2>5, <3>1, <3>2 DEF SupervisorInv, GivenSite
    <2> QED
      BY <2>6, <2>7
  <1>3. ASSUME NEW e \in Editors, WriteRole(e)
        PROVE  SupervisorInv'
    <2>1. /\ edit[e].stage = "role" /\ asked' = asked /\ broken' = broken
          /\ edit[e].user \in Users
      BY <1>3, <1>t DEF WriteRole, ghosts, EditShape
    <2>2. edit'[e].stage # "role"
      <3>1. CASE ~NamesSites(e)
        BY <1>3, <1>t, <3>1 DEF WriteRole, NoEdit
      <3>2. CASE NamesSites(e)
        <4>1. PICK stage \in {"single unassign", "multi revoke"} :
                edit' = [edit EXCEPT ![e] = [@ EXCEPT !.stage = stage]]
          BY <1>3, <3>2 DEF WriteRole
        <4> QED
          BY <4>1, StageSet DEF MovesTo
      <3> QED
        BY <3>1, <3>2
    <2>3. \A v \in Users : role'[v] = IF v = edit[e].user THEN edit[e].role ELSE role[v]
      BY <1>3, <1>t DEF WriteRole
    <2>4. \A v \in Users : role'[v] = "SITE_SUPERVISOR" => GivenSite(v)
      BY <2>1, <2>3 DEF SupervisorInv, Demotes
    <2> QED
      BY <2>1, <2>2, <2>4 DEF SupervisorInv, GivenSite
  <1>4. ASSUME NEW e \in Editors,
               \/ SingleUnassign(e) \/ SingleRevoke(e) \/ MultiRevoke(e) \/ MultiGrant(e)
               \/ MultiUnassign(e) \/ MultiAssign(e)
               \/ \E t \in {"assignment", "access"} : Insert(e, t)
        PROVE  SupervisorInv'
    <2>1. edit[e].stage \notin {"role", "idle"} /\ role' = role /\ edit[e].user \in Users
      BY <1>4, <1>t DEF SingleUnassign, SingleRevoke, MultiRevoke, MultiGrant, MultiUnassign,
                        MultiAssign, Insert, EditShape
    <2>2. edit'[e].stage # "role"
      <3>1. CASE Proceed(e) \/ edit' = [edit EXCEPT ![e] = NoEdit]
        <4>1. NoEdit.stage # "role"
          BY DEF NoEdit
        <4>2. Proceed(e) => edit'[e] = NoEdit \/ edit'[e].stage = "multi revoke"
          BY ProceedsTo DEF MovesTo
        <4>3. edit' = [edit EXCEPT ![e] = NoEdit] => edit'[e] = NoEdit
          BY <1>t
        <4> QED
          BY <3>1, <4>1, <4>2, <4>3
      <3>2. CASE \E stage \in EditStages \ {"role"} : edit' = [edit EXCEPT ![e].stage = stage]
        BY <1>t, <3>2 DEF Edit
      <3>3. CASE edit' = [edit EXCEPT ![e] = [@ EXCEPT !.stage = "create",
                                                       !.pending = {"assignment", "access"}]]
        BY <1>t, <3>3 DEF Edit
      <3>4. ASSUME NEW left, NEW failed,
                   edit' = [edit EXCEPT ![e] = [@ EXCEPT !.pending = left, !.failed = failed]]
            PROVE  edit'[e].stage # "role"
        BY <1>t, <2>1, <3>4 DEF Edit
      <3>5. CASE SingleUnassign(e) \/ MultiRevoke(e) \/ MultiGrant(e)
        BY <3>2, <3>5 DEF SingleUnassign, MultiRevoke, MultiGrant, EditStages
      <3>6. CASE SingleRevoke(e)
        BY <3>1, <3>3, <3>6 DEF SingleRevoke
      <3>7. CASE MultiUnassign(e) \/ MultiAssign(e)
        BY <3>1, <3>2, <3>7 DEF MultiUnassign, MultiAssign, EditStages
      <3>8. CASE \E t \in {"assignment", "access"} : Insert(e, t)
        BY <3>1, <3>4, <3>8 DEF Insert
      <3> QED
        BY <1>4, <3>5, <3>6, <3>7, <3>8
    <2>3. UNCHANGED ghosts \/ Fail(edit[e].user)
      BY <1>4 DEF SingleUnassign, SingleRevoke, MultiRevoke, MultiGrant, MultiUnassign,
                        MultiAssign, Insert
    <2> QED
      BY <2>1, <2>2, <2>3, RolesKept DEF Demotes
  <1>5. ASSUME NEW e \in Editors, Throw(e)
        PROVE  SupervisorInv'
    <2>1. role' = role /\ edit[e].user \in Users /\ edit'[e].stage # "role"
      BY <1>5, <1>t DEF Throw, tables, EditShape, NoEdit
    <2>2. CASE NamesSites(e)
      <3>1. Fail(edit[e].user)
        BY <1>5, <2>2 DEF Throw
      <3> QED
        BY <2>1, <3>1, RolesKept DEF Demotes
    <2>3. CASE ~NamesSites(e)
      BY <1>5, <2>1, <2>3 DEF Throw, ghosts, SupervisorInv, GivenSite, Demotes
    <2> QED
      BY <2>2, <2>3
  <1>6. CASE UNCHANGED <<role, edit, ghosts>>
    BY <1>6 DEF SupervisorInv, ghosts, GivenSite, Demotes, NamesSites
  <1>7. ASSUME NEW u \in Users, NEW site \in Imported, ImportSupervisorSite(u, site)
        PROVE  SupervisorInv'
    BY <1>6, <1>7 DEF ImportSupervisorSite
  <1>8. CASE UNCHANGED vars
    BY <1>6, <1>8 DEF vars, ghosts
  <1> QED
    BY <1>1, <1>2, <1>3, <1>4, <1>5, <1>7, <1>8 DEF Next, Administer

\* If one administrator edits at a time, support does not, and every update that may
\* leave a user a supervisor gives a site or leaves the sites alone, then no completed
\* edit leaves a supervisor without a site (createMasterDriver, updateMasterDriver).
THEOREM SupervisorsKeepSite ==
    ASSUME \A e, f \in Editors : e = f, Supporters = {}, SupervisorsGivenSites
    PROVE  Spec => []SupervisorHasSite
  <1>1. Init => SupervisorInv
    <2> SUFFICES ASSUME Init PROVE SupervisorInv
      OBVIOUS
    <2>1. \A u \in Users : role[u] # "SITE_SUPERVISOR" /\ asked[u] = {{}}
      BY DEF Init, Absent
    <2>2. \A e \in Editors : edit[e].stage # "role"
      BY DEF Init, NoEdit
    <2> QED
      BY <2>1, <2>2 DEF SupervisorInv
  <1>2. SupervisorInv /\ TypeInv /\ RemovedSitesGo /\ [Next]_vars => SupervisorInv'
    BY SupervisorStep
  <1>3. SupervisorInv /\ NotLeftWithout => SupervisorHasSite
    BY DEF SupervisorInv, GivenSite, Demotes, NotLeftWithout, SupervisorHasSite, SitesInFlight, Scope
  <1> QED
    BY <1>1, <1>2, <1>3, TypeInvariant, RemovedSitesStayAway, NobodyLeftWithout, PTL DEF Spec
=============================================================================

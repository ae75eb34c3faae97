---------------------------- MODULE MCSiteOverlap ----------------------------
(* Instances of SiteAssignment in which edits of one user overlap. *)
EXTENDS MCSiteAssignment

\* Instances in one: two administrators, or one beside platform support or the import.
\* (No edit reads what the import adds.)
VARIABLE beside

MCInit == Init /\ beside \in {"administrator", "support", "import"}

\* Bound on the roles.  Of two administrators either may take every site away from a
\* driver; beside support or the import SITE_SUPERVISOR stands for DRIVER too.
LeftOut == IF beside = "administrator" THEN Roles \ {"DRIVER", "SAFETY_OFFICER"} ELSE {"DRIVER"}

Alone(e) == \A f \in Editors \ {e} : edit[f].stage = "idle"

MCNext ==
    /\ \/ \E e \in Editors : (beside # "administrator" => Alone(e)) /\ Administer(e)
       \/ beside = "support" /\ \E s \in Supporters : GiveSupport(s)
       \/ beside = "import" /\ \E u \in Users, site \in Imported : ImportSupervisorSite(u, site)
    /\ UNCHANGED beside
    /\ \A u \in Users : role'[u] \notin LeftOut
    /\ \A s \in Supporters : support'[s].role \notin LeftOut

MCSpec == MCInit /\ [][MCNext]_<<vars, beside>>

\* Of overlapping edits by administrators alone, one gets its way in full.
SomeAdministratorWins == beside # "support" => SomeEditWins
=============================================================================

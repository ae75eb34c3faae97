-------------------------- MODULE MCSiteAssignment --------------------------
(* Instances of SiteAssignment for TLC. *)
EXTENDS SiteAssignment, TLC

\* The drivers page, used as it asks to be: a supervisor is given a site.
FormWithSite == {p \in FormPayload : p.role = "SITE_SUPERVISOR" => p.single \in Sites}

\* Roles as they are: they decide nothing about overlapping writes.
SitesOnly == {p \in AnyPayload : p.role = Keep}

Symmetry == Permutations(Users) \cup Permutations(Sites) \cup Permutations(Editors)
                \cup Permutations(Supporters)
=============================================================================

------------------------------ MODULE Company ------------------------------
(* What the parts of a company's system have in common. *)
CONSTANTS
    Sites, Vehicles,
    None    \* nothing at all: no site, no reading, no driver, no date, ...

\* A viewer's scope: the whole company, or some sites.
Everything == [full |-> TRUE, sites |-> {}]
Scopes == {Everything} \cup [full: {FALSE}, sites: SUBSET Sites]
=============================================================================

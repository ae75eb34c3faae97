------------------------- MODULE MCOutboxRecipients -------------------------
(* Instances of NotificationOutbox with one pipeline at a time. *)
EXTENDS MCNotificationOutbox, Functions

\* Instances in one: one compliance record with a list of two names, which may be
\* twice the same, any deployment and settings; or two records with one phone,
\* the provider live and notifications on or off.
VARIABLE reach      \* how often a list may name each recipient

MCInit ==
    /\ Init
    /\ reach \in [Recipients -> 0..MaxNamed]
    /\ SumFunction(reach) \in 1..2
    /\ Named(reach) \cap Phones # {}
    /\ SumFunction(reach) = 2 \/ (config = MetaLive /\ settings \in OnOff)

MCNext ==
    /\ Next
    /\ UNCHANGED reach
    /\ \A d \in Requests, r \in Recipients : todo'[d][r] <= reach[r]
    /\ IF SumFunction(reach) = 2
       THEN \A d \in Requests, k \in Keys \ OneKey : intake'[d][k] = Absent
       ELSE config' = MetaLive /\ settings' \in OnOff

MCSpec == MCInit /\ [][MCNext]_<<vars, reach>>
=============================================================================

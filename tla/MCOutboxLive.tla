---------------------------- MODULE MCOutboxLive ----------------------------
(* Instances of NotificationOutbox under fairness. *)
EXTENDS MCNotificationOutbox, FiniteSets

\* Instances in one: two requests whose pipelines overlap over one alert, or one
\* request with two alerts and a batch of one, so that a row waits for its turn.
VARIABLE active     \* the requests that are ever made

MCInit == Init /\ active \in {Requests, {CHOOSE d \in Requests : TRUE}}

MCNext ==
    /\ Next
    /\ UNCHANGED active
    /\ \A d \in Requests \ active : pc'[d] = "idle"
    /\ Cardinality(active) > 1 =>
          \A d \in Requests, k \in Keys \ OneKey : intake'[d][k] = Absent

MCFairness ==
    /\ \A d \in Requests : WF_vars(Step(d)) /\ WF_vars(d \in active /\ Start(d))
    /\ WF_vars(Tick)

MCSpec == MCInit /\ [][MCNext]_<<vars, active>> /\ MCFairness
=============================================================================

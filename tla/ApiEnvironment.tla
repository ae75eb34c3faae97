--------------------------- MODULE ApiEnvironment ---------------------------
(***************************************************************************)
(* The API process and the environment it is deployed with: it boots only  *)
(* with an environment that passes validation, and from then on three      *)
(* functions of that environment decide what notifications do and what     *)
(* administrators are told.                                                *)
(***************************************************************************)
EXTENDS NotificationProvider

VARIABLES environment, up

evars == <<environment, up>>

EnvInit == environment \in Configs /\ up = FALSE

\* Importing config/env.ts throws, and the process never listens, unless the
\* environment validates.
Boot ==
    /\ ~up
    /\ Bootable(environment)
    /\ up' = TRUE
    /\ UNCHANGED environment

\* An operator stops the process and deploys it with another environment.
Redeploy ==
    /\ environment' \in Configs \ {environment}
    /\ up' = FALSE

EnvSpec == EnvInit /\ [][Boot \/ Redeploy]_evars

\* What administrators are told is what dispatch does: the report says ready
\* exactly when a dispatch would call the real provider, and stub exactly when
\* it would call the stub.
ReadinessIsTruthful ==
    up => /\ Readiness(environment) = "ready_for_controlled_send"
                 <=> ResolveProvider(environment) = "meta_cloud_api"
          /\ Readiness(environment) = "stub_mode" <=> DeliveryMode(environment) = "stub"
          /\ DeliveryMode(environment) = "active"
                 <=> Readiness(environment) = "ready_for_controlled_send"

\* A production process that was asked to deliver through Meta and did boot can
\* deliver: the three checks of the same settings (boot, guard, credentials)
\* leave no environment in which every alert would be skipped in silence.
ProductionDelivers ==
    up /\ environment.production /\ environment.deliveryEnabled
       /\ environment.provider = "meta_cloud_api"
    => ResolveProvider(environment) = "meta_cloud_api"
=============================================================================

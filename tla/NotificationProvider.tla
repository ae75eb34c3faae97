------------------------ MODULE NotificationProvider ------------------------
(***************************************************************************)
(* Which WhatsApp provider a dispatch run uses, and what a provider may    *)
(* answer.  The choice is a pure function of the process environment, read *)
(* on every call; the readiness report shown to administrators and the     *)
(* check the process makes when it boots are two more functions of the     *)
(* same environment, written separately.  Models the provider half of      *)
(* apps/api/src/services/notification-dispatch.service.ts and              *)
(* apps/api/src/config/env.ts.                                             *)
(***************************************************************************)

Providers == {"stub", "meta_cloud_api", "twilio_whatsapp"}

\* NODE_ENV = production, whether JWT_SECRET is the placeholder,
\* NOTIFICATION_PROVIDER, NOTIFICATION_DELIVERY_ENABLED, the switch that allows
\* real sends outside production, and the two Meta credentials, each of which
\* may be missing on its own.
Configs ==
    [production: BOOLEAN, placeholderSecret: BOOLEAN, provider: Providers,
     deliveryEnabled: BOOLEAN, allowReal: BOOLEAN,
     phoneNumberId: BOOLEAN, accessToken: BOOLEAN]

\* envSchema.superRefine: what the process refuses to start with.
Bootable(c) ==
    c.production =>
        /\ ~c.placeholderSecret
        /\ c.provider = "meta_cloud_api" /\ c.deliveryEnabled =>
              c.phoneNumberId /\ c.accessToken

\* Mutation: production is no reason to send.
HasRealSendSafetyGuardOptIn(c) == c.allowReal

HasRealSendSafetyGuard(c) == c.production \/ c.allowReal

\* Mutation: the resolver takes one credential for both.
HasMetaCloudApiConfigHalf(c) == c.phoneNumberId

\* resolveMetaCloudApiConfig gives a configuration rather than null.
HasMetaCloudApiConfig(c) == c.phoneNumberId /\ c.accessToken

\* isMetaConfigured, the readiness report's own reading of the credentials.
IsMetaConfigured(c) == c.phoneNumberId /\ c.accessToken

\* resolveNotificationProvider: "none" stands for null.
ResolveProvider(c) ==
    IF c.provider = "stub" THEN "dev_stub"
    ELSE IF ~c.deliveryEnabled \/ ~HasRealSendSafetyGuard(c) THEN "none"
    ELSE IF c.provider = "meta_cloud_api" /\ HasMetaCloudApiConfig(c) THEN "meta_cloud_api"
    ELSE "none"

\* getNotificationDeliveryMode
DeliveryMode(c) ==
    CASE ResolveProvider(c) = "none"     -> "not_configured"
      [] ResolveProvider(c) = "dev_stub" -> "stub"
      [] OTHER                           -> "active"

\* getNotificationProviderReadiness: it looks at the credentials before the
\* switches, the resolver after them.
Readiness(c) ==
    IF c.provider = "stub" THEN "stub_mode"
    ELSE IF c.provider # "meta_cloud_api" \/ ~IsMetaConfigured(c) THEN "provider_not_configured"
    ELSE IF ~c.deliveryEnabled \/ ~HasRealSendSafetyGuard(c) THEN "provider_ready_not_enabled"
    ELSE "ready_for_controlled_send"

\* The statuses a send to one recipient may be given.  Meta Cloud API refuses
\* anything that is not a phone number without calling out; otherwise an
\* accepted message is sent, 429, 5xx and transport errors are retryable and
\* every other rejection is permanent.
SendResults(provider, isPhone) ==
    IF provider = "dev_stub" THEN {"STUBBED"}
    ELSE IF isPhone THEN {"SENT", "FAILED_RETRYABLE", "FAILED_PERMANENT"}
    ELSE {"FAILED_PERMANENT"}
=============================================================================

------------------------ MODULE MCNotificationOutbox ------------------------
(* Instances of NotificationOutbox for TLC. *)
EXTENDS NotificationOutbox, TLC

CONSTANTS c1, c2    \* compliance records

OneKey == {<<c1, "COMPLIANCE_EXPIRED">>}
TwoKeys == {<<c1, "COMPLIANCE_EXPIRED">>, <<c2, "COMPLIANCE_EXPIRING_SOON">>}

StubOnly == [provider |-> "stub", placeholderSecret |-> TRUE, deliveryEnabled |-> FALSE,
             allowReal |-> FALSE,
             production |-> FALSE, phoneNumberId |-> FALSE, accessToken |-> FALSE]
MetaLive == [provider |-> "meta_cloud_api", placeholderSecret |-> FALSE, deliveryEnabled |-> TRUE,
             allowReal |-> FALSE,
             production |-> TRUE, phoneNumberId |-> TRUE, accessToken |-> TRUE]
MetaSwitchedOff == [MetaLive EXCEPT !.deliveryEnabled = FALSE]

MetaDeployment == {MetaLive}
MixedDeployments == {StubOnly, MetaLive, MetaSwitchedOff}

AllOn == [notificationsEnabled |-> TRUE, whatsappEnabled |-> TRUE,
          COMPLIANCE_EXPIRED |-> TRUE, COMPLIANCE_EXPIRING_SOON |-> TRUE]
Off == [AllOn EXCEPT !.notificationsEnabled = FALSE]
NoWhatsapp == [AllOn EXCEPT !.whatsappEnabled = FALSE]
ExpiredOnly == [AllOn EXCEPT !.COMPLIANCE_EXPIRING_SOON = FALSE]

OnOff == {AllOn, Off}
AlwaysOn == {AllOn}
AllPolicies == {AllOn, Off, NoWhatsapp, ExpiredOnly}

OneDelay == <<1>>

\* Bound: the settings change while no pipeline runs.
QuietChange == settings' # settings => \A d \in Requests : pc[d] = "idle"

RecipientSymmetry == Permutations(Phones)
Symmetry == Permutations(Requests) \cup Permutations(Phones)
=============================================================================

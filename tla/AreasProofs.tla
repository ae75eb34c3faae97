---------------------------- MODULE AreasProofs ----------------------------
(***************************************************************************)
(* Proofs about parts that share nothing with each other, as MCAreas has   *)
(* them side by side: the environment of the API, the settings page, the   *)
(* contact directory with any number of contacts, users and administrators *)
(* whose updates overlap, and what the dashboard says of any number of     *)
(* vehicles, drivers, sites and records, with days of any length and       *)
(* windows of any size.                                                    *)
(***************************************************************************)
EXTENDS MCAreas, FuelEntriesProofs, OnboardingBatchProofs, FiniteSetTheorems, TLAPS

----------------------------------------------------------------------------
(* The environment. Its three functions agree wherever they are evaluated; *)
(* what booting adds is only that production has the credentials that      *)
(* delivery needs.                                                         *)

\* The invariant: the process is up only with an environment that validates.
EnvInv ==
    /\ environment \in Configs
    /\ up \in BOOLEAN
    /\ up => Bootable(environment)

LEMMA EnvInvInit == EnvInit => EnvInv
  BY DEF EnvInit, EnvInv

LEMMA EnvInvStep == EnvInv /\ [Boot \/ Redeploy]_evars => EnvInv'
  <1> SUFFICES ASSUME EnvInv, [Boot \/ Redeploy]_evars PROVE EnvInv'
    OBVIOUS
  <1>1. CASE Boot
    BY <1>1 DEF EnvInv, Boot, Bootable
  <1>2. CASE Redeploy
    BY <1>2 DEF EnvInv, Redeploy
  <1>3. CASE UNCHANGED evars
    BY <1>3 DEF EnvInv, evars, Bootable
  <1> QED
    BY <1>1, <1>2, <1>3

\* However the process is deployed, it is up only with an environment that validates.
THEOREM UpIsBootable == EnvSpec => []EnvInv
  BY EnvInvInit, EnvInvStep, PTL DEF EnvSpec

\* The resolver chooses Meta under the conditions that the report calls ready, and the
\* stub for the stub only: the order they are looked at in makes no difference.
LEMMA ResolverAndReport ==
    ASSUME NEW c \in Configs
    PROVE  /\ Readiness(c) = "ready_for_controlled_send" <=> ResolveProvider(c) = "meta_cloud_api"
           /\ Readiness(c) = "stub_mode" <=> DeliveryMode(c) = "stub"
           /\ DeliveryMode(c) = "active" <=> Readiness(c) = "ready_for_controlled_send"
  <1>1. IsMetaConfigured(c) <=> HasMetaCloudApiConfig(c)
    BY DEF IsMetaConfigured, HasMetaCloudApiConfig
  <1>2. CASE c.provider = "stub"
    BY <1>2 DEF Readiness, ResolveProvider, DeliveryMode
  <1>3. CASE c.provider = "meta_cloud_api"
    BY <1>1, <1>3 DEF Readiness, ResolveProvider, DeliveryMode
  <1>4. CASE c.provider = "twilio_whatsapp"
    BY <1>4 DEF Readiness, ResolveProvider, DeliveryMode
  <1> QED
    BY <1>2, <1>3, <1>4 DEF Configs, Providers

\* What administrators are told is what dispatch does, in every environment
\* (getNotificationProviderReadiness, resolveNotificationProvider).
THEOREM ReadinessTruthful == EnvSpec => []ReadinessIsTruthful
  <1>1. EnvInv => ReadinessIsTruthful
    BY ResolverAndReport DEF EnvInv, ReadinessIsTruthful
  <1> QED
    BY <1>1, UpIsBootable, PTL

\* A production process that is up and is asked to deliver through Meta can do so
\* (envSchema, resolveMetaCloudApiConfig).
THEOREM ProductionCanDeliver == EnvSpec => []ProductionDelivers
  <1>1. EnvInv => ProductionDelivers
    BY DEF EnvInv, ProductionDelivers, Bootable, ResolveProvider, HasRealSendSafetyGuard,
           HasMetaCloudApiConfig
  <1> QED
    BY <1>1, UpIsBootable, PTL

----------------------------------------------------------------------------
(* The settings page. A form is taken on trust by whoever saves it, so the *)
(* proof follows where the fields come from: each that is not edited is as *)
(* it was read, and what was read, or sent, is stored still, unless a load *)
(* and a save crossed or somebody else saved.                              *)

\* Unedited fields are true.
Agrees == \A f \in Fields \ page.edited : page.form[f] = stored[f]

FormTrusted ==
    doubts \cap {"somebody else saved", "load and save crossed"} = {} =>
      /\ load # None => save = None /\ (load.stage = "read" => load.got = stored)
      /\ /\ load = None \/ load.stage \in {"lists", "preview"}
         /\ ~page.failed /\ page.form # None
         => Agrees
      /\ save # None =>
           /\ save.stage = "sent" =>
                page.form # None /\ \A f \in Fields \ page.edited : save.form[f] = page.form[f]
           /\ save.stage = "read" => save.form = stored

\* A preview under way is the one for the site chosen, and a load has no other beside it.
PreviewTrusted ==
    doubts \cap {"preview overtaken", "preview failed"} = {} =>
      /\ load # None => previews = NoPreviews
      /\ \A c \in PreviewChoices : previews[c] > 0 => c = page.site
      /\ load = None /\ ~page.failed => page.shown = page.site

PageInv == PageTypeOK /\ FormTrusted /\ PreviewTrusted

LEMMA PageInvInit == PageConstantsFit /\ PageInit => PageInv
  BY DEF PageConstantsFit, PageInit, PageInv, PageTypeOK, FormTrusted, PreviewTrusted, Page, Fresh,
         PreviewChoices, Load, Asked, NoPreviews, Doubts, Sound, Forms

LEMMA SoundIsForm == Sound \subseteq Forms /\ Forms \subseteq Settings
  BY DEF Sound, Forms

\* What is under way is told from nothing.
LEMMA LoadIsSomething ==
    ASSUME PageConstantsFit
    PROVE  /\ \A q \in Load : q # None
           /\ \A q \in Save : q # None
           /\ \A q \in Settings : q # None
           /\ \A stage \in {"asked", "read", "lists", "preview"}, got \in Sound \cup {None} :
                [stage |-> stage, got |-> got] \in Load
  BY DEF PageConstantsFit, Load

LEMMA PageTypeStep == PageConstantsFit /\ PageTypeOK /\ [PageNext]_settingsVars => PageTypeOK'
  <1> SUFFICES ASSUME PageConstantsFit, PageTypeOK, [PageNext]_settingsVars PROVE PageTypeOK'
    OBVIOUS
  <1>1. CASE Open
    BY <1>1 DEF Open, PageTypeOK, Page, Fresh, PreviewChoices, Load, Asked, NoPreviews, PageConstantsFit
  <1>2. ASSUME NEW site \in PreviewChoices, Select(site) PROVE PageTypeOK'
    BY <1>2 DEF Select, PageTypeOK, Page, Load, Asked, Doubts
  <1>3. CASE ReadSettings
    BY <1>3 DEF ReadSettings, PageTypeOK, Load
  <1>4. CASE FillForm
    BY <1>4, SoundIsForm DEF FillForm, PageTypeOK, Load, Page
  <1>5. CASE LoadLists
    BY <1>5 DEF LoadLists, PageTypeOK, Load, Page
  <1>6. CASE FinishLoad
    BY <1>6 DEF FinishLoad, PageTypeOK, Page
  <1>7. CASE FailLoad
    BY <1>7 DEF FailLoad, PageTypeOK, Page, Doubts
  <1>8. CASE RefreshPreview
    <2>1. page.site \in PreviewChoices /\ previews[page.site] + 1 \in 0..MaxPreviews
      BY <1>8 DEF RefreshPreview, PageTypeOK, Page, PageConstantsFit
    <2> QED
      BY <1>8, <2>1 DEF RefreshPreview, PageTypeOK, Page
  <1>9. ASSUME NEW site \in PreviewChoices, AnswerPreview(site) PROVE PageTypeOK'
    <2>1. previews[site] \in 0..MaxPreviews /\ previews[site] > 0
      BY <1>9 DEF AnswerPreview, PageTypeOK
    <2>2. previews[site] - 1 \in 0..MaxPreviews
      BY <2>1 DEF PageConstantsFit
    <2> QED
      BY <1>9, <2>2 DEF AnswerPreview, PageTypeOK, Page, Doubts
  <1>10. CASE EditEnabled
    <2>1. page.form \in Forms
      BY <1>10 DEF EditEnabled, Usable, PageTypeOK, Page
    <2>2. [page.form EXCEPT !.enabled = ~@] \in Forms
      BY <2>1 DEF Forms, Settings
    <2> QED
      BY <1>10, <2>2 DEF EditEnabled, PageTypeOK, Page, Fields
  <1>11. ASSUME NEW choice \in BOOLEAN, EditScope(choice) PROVE PageTypeOK'
    <2>1. page.form \in Forms
      BY <1>11 DEF EditScope, Usable, PageTypeOK, Page
    <2>2. [[page.form EXCEPT !.scope = choice] EXCEPT !.recipients = choice /\ @] \in Forms
      BY <2>1 DEF Forms, Settings
    <2> QED
      BY <1>11, <2>1, <2>2 DEF EditScope, PageTypeOK, Page, Fields, Forms, Settings
  <1>12. ASSUME NEW choice \in BOOLEAN, EditRecipients(choice) PROVE PageTypeOK'
    <2>1. page.form \in Forms
      BY <1>12 DEF EditRecipients, Usable, PageTypeOK, Page
    <2>2. [page.form EXCEPT !.recipients = choice] \in Forms
      BY <1>12, <2>1 DEF EditRecipients, Forms, Settings
    <2> QED
      BY <1>12, <2>2 DEF EditRecipients, PageTypeOK, Page, Fields
  <1>13. CASE SendForm
    BY <1>13 DEF SendForm, Usable, PageTypeOK, Page, Save
  <1>14. CASE Store
    BY <1>14 DEF Store, PageTypeOK, Save
  <1>15. CASE ReadBack
    BY <1>15, SoundIsForm DEF ReadBack, PageTypeOK, Save
  <1>16. CASE AnswerSave
    BY <1>16 DEF AnswerSave, PageTypeOK, Save, Page
  <1>17. CASE FailSave
    BY <1>17 DEF FailSave, PageTypeOK
  <1>18. ASSUME NEW other \in Sound, SaveElsewhere(other) PROVE PageTypeOK'
    BY <1>18 DEF SaveElsewhere, PageTypeOK, Doubts
  <1>19. CASE UNCHANGED settingsVars
    BY <1>19 DEF settingsVars, PageTypeOK
  <1> QED
    BY <1>1, <1>2, <1>3, <1>4, <1>5, <1>6, <1>7, <1>8, <1>9, <1>10, <1>11, <1>12, <1>13, <1>14,
       <1>15, <1>16, <1>17, <1>18, <1>19 DEF PageNext

LEMMA FormStep == PageConstantsFit /\ PageInv /\ [PageNext]_settingsVars => FormTrusted'
  <1> SUFFICES ASSUME PageConstantsFit, PageInv, [PageNext]_settingsVars PROVE FormTrusted'
    OBVIOUS
  <1> USE DEF PageInv, FormTrusted, Agrees
  <1>0. /\ load \in Load \cup {None} /\ save \in Save \cup {None} /\ page \in Page
        /\ stored \in Sound /\ stored \in Settings
        /\ \A q \in Load : q # None
        /\ \A q \in Save : q # None
        /\ \A q \in Settings : q # None
    BY LoadIsSomething DEF PageTypeOK, Sound, Forms
  <1>a. Asked \in Load /\ Asked.stage = "asked"
    BY LoadIsSomething DEF Asked
  <1>1. CASE Open
    BY <1>0, <1>1, <1>a DEF Open, Fresh
  <1>2. ASSUME NEW site \in PreviewChoices, Select(site) PROVE FormTrusted'
    <2>1. load' = Asked /\ save' = save /\ (save # None => "load and save crossed" \in doubts')
      BY <1>2 DEF Select
    <2> QED
      BY <1>0, <1>a, <2>1
  <1>3. CASE ReadSettings
    <2>1. load' = [stage |-> "read", got |-> stored] /\ load # None
      BY <1>3 DEF ReadSettings
    <2>2. load' \in Load
      BY <1>0, <2>1, LoadIsSomething
    <2>3. load' # None
      BY <2>2, LoadIsSomething
    <2>4. load'.stage = "read" /\ load'.got = stored
      BY <2>1
    <2>5. UNCHANGED <<stored, page, save, doubts>>
      BY <1>3 DEF ReadSettings
    <2> QED
      BY <2>1, <2>3, <2>4, <2>5
  <1>4. CASE FillForm
    BY <1>0, <1>4 DEF FillForm, Load, Page
  <1>5. CASE LoadLists
    BY <1>0, <1>5 DEF LoadLists, Load, Page
  <1>6. CASE FinishLoad
    BY <1>0, <1>6 DEF FinishLoad, Load, Page
  <1>7. CASE FailLoad
    BY <1>0, <1>7 DEF FailLoad, Load, Page
  <1>8. CASE RefreshPreview
    BY <1>0, <1>8 DEF RefreshPreview, Page
  <1>9. ASSUME NEW site \in PreviewChoices, AnswerPreview(site) PROVE FormTrusted'
    BY <1>0, <1>9 DEF AnswerPreview, Page
  <1>10. CASE EditEnabled
    <2>1. /\ UNCHANGED <<stored, load, save, doubts, page.failed>>
          /\ load = None /\ page.form # None /\ ~page.failed
          /\ page.form \in Settings /\ page'.form \in Settings
          /\ page.edited \subseteq page'.edited
          /\ \A f \in Fields \ page'.edited : page'.form[f] = page.form[f]
      BY <1>0, <1>10 DEF EditEnabled, Usable, Page, Fields, Forms, Settings
    <2> QED
      BY <1>0, <2>1
  <1>11. ASSUME NEW choice \in BOOLEAN, EditScope(choice) PROVE FormTrusted'
    <2>1. /\ UNCHANGED <<stored, load, save, doubts, page.failed>>
          /\ load = None /\ page.form # None /\ ~page.failed
          /\ page.form \in Settings /\ page'.form \in Settings
          /\ page.edited \subseteq page'.edited
          /\ \A f \in Fields \ page'.edited : page'.form[f] = page.form[f]
      BY <1>0, <1>11 DEF EditScope, Usable, Page, Fields, Forms, Settings
    <2> QED
      BY <1>0, <2>1
  <1>12. ASSUME NEW choice \in BOOLEAN, EditRecipients(choice) PROVE FormTrusted'
    <2>1. /\ UNCHANGED <<stored, load, save, doubts, page.failed>>
          /\ load = None /\ page.form # None /\ ~page.failed
          /\ page.form \in Settings /\ page'.form \in Settings
          /\ page.edited \subseteq page'.edited
          /\ \A f \in Fields \ page'.edited : page'.form[f] = page.form[f]
      BY <1>0, <1>12 DEF EditRecipients, Usable, Page, Fields, Forms, Settings
    <2> QED
      BY <1>0, <2>1
  <1>13. CASE SendForm
    BY <1>0, <1>13 DEF SendForm, Usable, Save
  <1>14. CASE Store
    BY <1>0, <1>14 DEF Store, Save
  <1>15. CASE ReadBack
    BY <1>0, <1>15 DEF ReadBack, Save
  <1>16. CASE AnswerSave
    BY <1>0, <1>16 DEF AnswerSave, Save, Page
  <1>17. CASE FailSave
    BY <1>0, <1>17 DEF FailSave, Save
  <1>18. ASSUME NEW other \in Sound, SaveElsewhere(other) PROVE FormTrusted'
    BY <1>18 DEF SaveElsewhere
  <1>19. CASE UNCHANGED settingsVars
    BY <1>19 DEF settingsVars
  <1> QED
    BY <1>1, <1>2, <1>3, <1>4, <1>5, <1>6, <1>7, <1>8, <1>9, <1>10, <1>11, <1>12, <1>13, <1>14,
       <1>15, <1>16, <1>17, <1>18, <1>19 DEF PageNext

LEMMA PreviewTrustStep == PageConstantsFit /\ PageInv /\ [PageNext]_settingsVars => PreviewTrusted'
  <1> SUFFICES ASSUME PageConstantsFit, PageInv, [PageNext]_settingsVars PROVE PreviewTrusted'
    OBVIOUS
  <1> USE DEF PreviewTrusted
  <1>i. PageTypeOK /\ PreviewTrusted
    BY DEF PageInv
  <1>0. /\ load \in Load \cup {None} /\ page \in Page /\ \A q \in Load : q # None
    BY LoadIsSomething, <1>i DEF PageTypeOK
  <1>b. DOMAIN previews = PreviewChoices /\ \A c \in PreviewChoices : previews[c] \in Nat
    <2>1. previews \in [PreviewChoices -> 0..MaxPreviews] /\ MaxPreviews \in Nat
      BY <1>i DEF PageTypeOK, PageConstantsFit
    <2> HIDE DEF PreviewTrusted
    <2> QED
      BY <2>1
  <1>c. \A c \in PreviewChoices : ~(NoPreviews[c] > 0)
    BY DEF NoPreviews
  <1>a. Asked \in Load
    BY LoadIsSomething DEF Asked
  <1>1. CASE Open
    <2>1. load' # None
      BY <1>i, <1>0, <1>1, <1>a DEF Open
    <2>2. previews' = NoPreviews
      BY <1>1 DEF Open
    <2>3. \A c \in PreviewChoices : ~(previews'[c] > 0)
      BY <1>c, <2>2
    <2> QED
      BY <1>i, <2>1, <2>2, <2>3
  <1>2. ASSUME NEW site \in PreviewChoices, Select(site) PROVE PreviewTrusted'
    <2>1. /\ load' = Asked /\ previews' = previews
          /\ previews # NoPreviews => "preview overtaken" \in doubts'
      BY <1>2 DEF Select
    <2>2. CASE previews = NoPreviews
      BY <1>i, <1>0, <1>a, <1>c, <2>1, <2>2
    <2>3. CASE previews # NoPreviews
      BY <1>i, <2>1, <2>3
    <2> QED
      BY <2>2, <2>3
  <1>3. CASE ReadSettings
    BY <1>i, <1>0, <1>3, LoadIsSomething DEF ReadSettings, PageTypeOK
  <1>4. CASE FillForm
    BY <1>i, <1>0, <1>4, LoadIsSomething DEF FillForm, Page
  <1>5. CASE LoadLists
    BY <1>i, <1>0, <1>5, LoadIsSomething DEF LoadLists, Page, Load
  <1>6. CASE FinishLoad
    BY <1>i, <1>0, <1>6 DEF FinishLoad, Page
  <1>7. CASE FailLoad
    BY <1>i, <1>0, <1>7 DEF FailLoad, Page
  <1>8. CASE RefreshPreview
    <2>1. /\ load' = None /\ load = None /\ doubts' = doubts /\ ~page.failed
          /\ UNCHANGED <<page.site, page.shown, page.failed>>
          /\ previews' = [previews EXCEPT ![page.site] = @ + 1]
      BY <1>0, <1>8 DEF RefreshPreview, Usable, Page
    <2>2. \A c \in PreviewChoices : c # page.site => previews'[c] = previews[c]
      BY <1>b, <2>1
    <2> QED
      BY <1>i, <1>b, <2>1, <2>2
  <1>9. ASSUME NEW site \in PreviewChoices, AnswerPreview(site) PROVE PreviewTrusted'
    <2>1. /\ load' = load /\ UNCHANGED <<page.site, page.failed>>
          /\ previews' = [previews EXCEPT ![site] = @ - 1] /\ previews[site] > 0
          /\ \/ page'.shown = site /\ doubts' = doubts
             \/ "preview failed" \in doubts'
      BY <1>i, <1>0, <1>9 DEF AnswerPreview, Page
    <2>2. \A c \in PreviewChoices : previews'[c] > 0 => previews[c] > 0
      BY <1>b, <2>1
    <2>3. CASE "preview failed" \in doubts'
      BY <2>3
    <2>4. CASE page'.shown = site /\ doubts' = doubts
      <3>1. load # None => previews # NoPreviews
        BY <1>c, <2>1
      <3> QED
        BY <1>i, <1>0, <2>1, <2>2, <2>4, <3>1
    <2> QED
      BY <1>i, <2>1, <2>3, <2>4
  <1>10. CASE UNCHANGED <<page.site, page.shown, page.failed, load, previews, doubts>>
    BY <1>10, <1>i
  <1>11. ASSUME NEW other \in Sound, SaveElsewhere(other) PROVE PreviewTrusted'
    BY <1>i, <1>11 DEF SaveElsewhere
  <1>12. EditEnabled \/ SendForm \/ Store \/ ReadBack \/ AnswerSave \/ FailSave
         \/ (\E choice \in BOOLEAN : EditScope(choice) \/ EditRecipients(choice))
         \/ UNCHANGED settingsVars
         => UNCHANGED <<page.site, page.shown, page.failed, load, previews, doubts>>
    BY <1>i, <1>0 DEF EditEnabled, SendForm, Store, ReadBack, AnswerSave, FailSave, EditScope,
                EditRecipients, settingsVars, Page
  <1> QED
    BY <1>1, <1>2, <1>3, <1>4, <1>5, <1>6, <1>7, <1>8, <1>9, <1>10, <1>11, <1>12 DEF PageNext

\* Every variable of the page keeps to its type; the server never has CUSTOM without
\* recipients or recipients without CUSTOM.
THEOREM PageTypeCorrect == ASSUME PageConstantsFit PROVE PageSpec => []PageTypeOK
  <1>1. PageInit => PageTypeOK
    BY PageInvInit DEF PageInv
  <1>2. PageTypeOK /\ [PageNext]_settingsVars => PageTypeOK'
    BY PageTypeStep
  <1> QED
    BY <1>1, <1>2, PTL DEF PageSpec

\* However loads, saves and refreshes of the preview interleave, what the page shows at rest
\* is true unless it has a reason not to be (handleSaveNotifications, refreshNotificationPreview).
THEOREM PageStaysTrue == ASSUME PageConstantsFit PROVE PageSpec => []PageIsTrue
  <1>1. PageInit => PageInv
    BY PageInvInit
  <1>2. PageInv /\ [PageNext]_settingsVars => PageInv'
    BY PageTypeStep, FormStep, PreviewTrustStep DEF PageInv
  <1>3. PageInv => PageIsTrue
    BY DEF PageInv, PageIsTrue, FormTrusted, PreviewTrusted, Agrees, Usable
  <1> QED
    BY <1>1, <1>2, <1>3, PTL DEF PageSpec

USE ContactsAssumption

----------------------------------------------------------------------------
(* The contact directory: types. *)

\* The contact made for a user is one.
LEMMA CreatedType ==
    ASSUME ContactsTypeOK, NEW given \in Contact
    PROVE  LET u == given.user
               row == IF u = None THEN given
                      ELSE [given EXCEPT
                              !.email = IF @ = None THEN users[u].email ELSE @,
                              !.role = IF users[u].role \in ContactRoles THEN users[u].role ELSE @]
           IN  row \in Contact /\ (Reachable(given) => Reachable(row))
  <1>1. CASE given.user = None
    BY <1>1
  <1>2. CASE given.user # None
    <2>1. users[given.user] \in User
      BY <1>2 DEF Contact, ContactsTypeOK
    <2> QED
      BY <1>2, <2>1 DEF Contact, User, Reachable
  <1> QED
    BY <1>1, <1>2

\* A contact completed with what was read is one.
LEMMA CompletedType ==
    ASSUME ContactsTypeOK, NEW c \in Contacts, contacts[c] # None, NEW given \in Contact,
           NEW fields \in SUBSET DOMAIN given
    PROVE  Completed(c, fields, given) \in Contact
  <1>1. contacts[c] \in Contact
    BY DEF ContactsTypeOK
  <1>2. DOMAIN given = {"role", "phone", "email", "active", "user"}
    BY DEF Contact
  <1> QED
    BY <1>1, <1>2 DEF Completed, Contact

LEMMA ContactsTypeInit == ContactsInit => ContactsTypeOK
  BY DEF ContactsInit, ContactsTypeOK

LEMMA ContactsTypeStep == ContactsTypeOK /\ [ContactsNext]_contactVars => ContactsTypeOK'
  <1> SUFFICES ASSUME ContactsTypeOK, [ContactsNext]_contactVars PROVE ContactsTypeOK'
    OBVIOUS
  <1>1. ASSUME NEW c \in Contacts, NEW given \in Rows, Create(c, given)
        PROVE  ContactsTypeOK'
    <2>1. PICK row \in Contact : contacts' = [contacts EXCEPT ![c] = row]
      BY <1>1, CreatedType DEF Create
    <2> QED
      BY <1>1, <2>1 DEF Create, ContactsTypeOK
  <1>2. ASSUME NEW c \in Contacts, NEW given \in Rows, NEW e \in Editors,
               NEW fields \in SUBSET DOMAIN given, BeginUpdate(e, c, fields, given)
        PROVE  ContactsTypeOK'
    <2>1. Completed(c, fields, given) \in Contact
      BY <1>2, CompletedType DEF BeginUpdate
    <2> QED
      BY <1>2, <2>1 DEF BeginUpdate, ContactsTypeOK
  <1>3. ASSUME NEW c \in Contacts, NEW site \in Sites, Assign(c, site) PROVE ContactsTypeOK'
    BY <1>3 DEF Assign, ContactsTypeOK
  <1>4. ASSUME NEW c \in Contacts, NEW site \in Sites, Unassign(c, site) PROVE ContactsTypeOK'
    BY <1>4 DEF Unassign, ContactsTypeOK
  <1>5. ASSUME NEW e \in Editors, Write(e) PROVE ContactsTypeOK'
    <2>1. editing[e] \in [contact: Contacts, row: Contact]
      BY <1>5 DEF Write, ContactsTypeOK
    <2> QED
      BY <1>5, <2>1 DEF Write, ContactsTypeOK
  <1>6. ASSUME NEW e \in Editors, Fail(e) PROVE ContactsTypeOK'
    BY <1>6 DEF Fail, ContactsTypeOK
  <1>7. ASSUME NEW fallback \in Fallback, UpdateSettings(fallback) PROVE ContactsTypeOK'
    BY <1>7 DEF UpdateSettings, ContactsTypeOK
  <1>8. ASSUME NEW u \in Users, NEW user \in User, ChangeUser(u, user) PROVE ContactsTypeOK'
    BY <1>8 DEF ChangeUser, ContactsTypeOK
  <1>9. CASE UNCHANGED contactVars
    BY <1>9 DEF contactVars, ContactsTypeOK
  <1> QED
    BY <1>1, <1>2, <1>3, <1>4, <1>5, <1>6, <1>7, <1>8, <1>9 DEF ContactsNext

\* Every variable of the directory keeps to its type, and a contact that is not there has
\* no sites.
THEOREM ContactsTypeCorrect == ContactsSpec => []ContactsTypeOK
  BY ContactsTypeInit, ContactsTypeStep, PTL DEF ContactsSpec

----------------------------------------------------------------------------
(* Overlapping updates.  What saves a contact from two updates that each   *)
(* take a channel away is that every update writes both: what is under way *)
(* is reachable by itself, whatever the contact has become.                *)

EditsReachable == \A e \in Editors : editing[e] # None => Reachable(editing[e].row)

ReachInv == ContactsTypeOK /\ AlwaysReachable /\ EditsReachable

LEMMA ReachStep == ReachInv /\ [ContactsNext]_contactVars => ReachInv'
  <1> SUFFICES ASSUME ReachInv, [ContactsNext]_contactVars
               PROVE  AlwaysReachable' /\ EditsReachable'
    BY ContactsTypeStep DEF ReachInv
  <1> USE DEF ReachInv, AlwaysReachable, EditsReachable
  <1>1. ASSUME NEW c \in Contacts, NEW given \in Rows, Create(c, given)
        PROVE  AlwaysReachable' /\ EditsReachable'
    <2>1. PICK row \in Contact : Reachable(row) /\ contacts' = [contacts EXCEPT ![c] = row]
      BY <1>1, CreatedType DEF Create
    <2> QED
      BY <1>1, <2>1 DEF Create, ContactsTypeOK
  <1>2. ASSUME NEW c \in Contacts, NEW given \in Rows, NEW e \in Editors,
               NEW fields \in SUBSET DOMAIN given, BeginUpdate(e, c, fields, given)
        PROVE  AlwaysReachable' /\ EditsReachable'
    BY <1>2 DEF BeginUpdate, ContactsTypeOK
  <1>3. ASSUME NEW e \in Editors, Write(e) PROVE AlwaysReachable' /\ EditsReachable'
    <2>1. /\ contacts' = [contacts EXCEPT ![editing[e].contact] = editing[e].row]
          /\ Reachable(editing[e].row)
      BY <1>3 DEF Write
    <2>2. AlwaysReachable'
      BY <2>1 DEF ContactsTypeOK
    <2> QED
      BY <1>3, <2>2 DEF Write, ContactsTypeOK
  <1>4. ASSUME NEW e \in Editors, Fail(e) PROVE AlwaysReachable' /\ EditsReachable'
    BY <1>4 DEF Fail, ContactsTypeOK
  <1>5. CASE UNCHANGED <<contacts, editing>>
    BY <1>5
  <1> QED
    BY <1>1, <1>2, <1>3, <1>4, <1>5
    DEF ContactsNext, contactVars, Assign, Unassign, UpdateSettings, ChangeUser

\* However updates of a contact overlap, it keeps a channel (updateContact).
THEOREM ContactsStayReachable == ContactsSpec => []AlwaysReachable
  <1>1. ContactsInit => ReachInv
    BY ContactsTypeInit DEF ContactsInit, ReachInv, AlwaysReachable, EditsReachable
  <1>2. ReachInv => AlwaysReachable
    BY DEF ReachInv
  <1> QED
    BY <1>1, <1>2, ReachStep, PTL DEF ContactsSpec

----------------------------------------------------------------------------
(* The preview. *)

LEMMA DirectoryType ==
    ASSUME ContactsTypeOK, NEW site PROVE DirectoryRecipients(site) \in Recipients
  <1> SUFFICES ASSUME NEW c \in Contacts, contacts[c] # None, Destination(c) # None
               PROVE  Destination(c) \in Numbers \cup Emails
    BY DEF DirectoryRecipients, Meant, Recipients
  <1>1. contacts[c] \in Contact
    BY DEF ContactsTypeOK
  <1> QED
    BY <1>1 DEF Destination, Contact

LEMMA LegacyType ==
    ASSUME ContactsTypeOK, settings # None PROVE LegacyRecipients \in Recipients \cup {None}
  <1>1. settings \in Fallback
    BY DEF ContactsTypeOK
  <1>2. CASE settings.scope = "CUSTOM"
    <2>1. {typed.number : typed \in settings.custom} \subseteq Numbers
      BY <1>1 DEF Fallback, Spelling
    <2> QED
      BY <1>2, <2>1, Zenon DEF LegacyRecipients, Recipients
  <1>3. CASE settings.scope = "SITE_SUPERVISORS_ONLY"
    BY <1>3 DEF LegacyRecipients, Recipients
  <1>4. CASE settings.scope = "ALL_TENANT_OPERATIONS"
    BY <1>4 DEF LegacyRecipients, Recipients
  <1> QED
    BY <1>1, <1>2, <1>3, <1>4 DEF Fallback

LEMMA PreviewStep == ContactsTypeOK => PreviewIsSent
  <1> SUFFICES ASSUME ContactsTypeOK, NEW site \in Sites \cup {None}
               PROVE  IF None \in {Resolve(site), Preview(site)} THEN Resolve(site) = Preview(site)
                      ELSE Preview(site).recipients = Resolve(site)
    BY Zenon DEF PreviewIsSent
  <1> DEFINE directory == DirectoryRecipients(site)
             Told(recipients, source) == [recipients |-> recipients, source |-> source]
  <1>1. directory \in Recipients /\ directory # None
    BY DirectoryType
  <1>2. CASE directory # {}
    <2>1. Resolve(site) = directory /\ Preview(site) = Told(directory, "contact_directory")
      BY <1>2 DEF Resolve, Preview
    <2>2. Told(directory, "contact_directory") \in Shown
      BY <1>1 DEF Shown
    <2> QED
      BY <1>1, <2>1, <2>2
  <1>3. CASE directory = {} /\ settings = None
    <2>1. Resolve(site) = {} /\ Preview(site) = Told({}, "none")
      BY <1>3 DEF Resolve, Preview
    <2>2. Told({}, "none") \in Shown
      BY DEF Shown, Recipients
    <2> QED
      BY <1>1, <1>3, <2>1, <2>2
  <1>4. CASE directory = {} /\ settings # None /\ LegacyRecipients = None
    BY <1>4 DEF Resolve, Preview
  <1>5. CASE directory = {} /\ settings # None /\ LegacyRecipients # None
    <2>1. LegacyRecipients \in Recipients
      BY <1>5, LegacyType
    <2>2. PICK source \in {"legacy_settings", "none"} :
             Resolve(site) = LegacyRecipients /\ Preview(site) = Told(LegacyRecipients, source)
      BY <1>5 DEF Resolve, Preview
    <2>3. Told(LegacyRecipients, source) \in Shown
      BY <2>1 DEF Shown
    <2> QED
      BY <1>5, <2>2, <2>3
  <1> QED
    BY <1>2, <1>3, <1>4, <1>5

\* What the settings page shows for a site is what is sent to, and one fails just when
\* the other does (previewNotificationRecipientResolution).
THEOREM PreviewsAreSent == ContactsSpec => []PreviewIsSent
  BY PreviewStep, ContactsTypeCorrect, PTL

----------------------------------------------------------------------------
(* What the dashboard says: days and hours. *)

LEMMA QuotientAndRest ==
    ASSUME NEW a \in Int, NEW h \in Nat \ {0}
    PROVE  a = h * (a \div h) + (a % h)
  BY SMTT(60)

USE StatusAssumption

LEMMA Division ==
    ASSUME NEW a \in Int
    PROVE  /\ a \div Hours \in Int /\ a % Hours \in 0..Hours - 1
           /\ a = Hours * (a \div Hours) + (a % Hours)
  <1>1. Hours \in Nat /\ Hours > 0
    OBVIOUS
  <1>2. a \div Hours \in Int /\ a % Hours \in Int
    BY <1>1
  <1>3. a = Hours * (a \div Hours) + (a % Hours)
    BY QuotientAndRest
  <1>4. 0 <= a % Hours /\ a % Hours < Hours
    BY <1>1
  <1> QED
    BY <1>1, <1>2, <1>3, <1>4

LEMMA DivisionMonotone ==
    ASSUME NEW a \in Int, NEW b \in Int, a <= b
    PROVE  a \div Hours <= b \div Hours
  <1> DEFINE x == a \div Hours  y == b \div Hours  r == a % Hours  q == b % Hours
  <1>1. /\ x \in Int /\ y \in Int /\ r \in Int /\ q \in Int /\ Hours \in Nat
        /\ a = Hours * x + r /\ b = Hours * y + q /\ 0 <= r /\ q < Hours
    BY Division
  <1> HIDE DEF x, y, r, q
  <1>2. SUFFICES ASSUME y + 1 <= x PROVE FALSE
    BY <1>1 DEF x, y
  <1>3. Hours * (y + 1) <= Hours * x
    BY <1>1, <1>2, SMTT(30)
  <1>4. Hours * (y + 1) = Hours * y + Hours
    BY <1>1
  <1> QED
    BY <1>1, <1>3, <1>4

----------------------------------------------------------------------------
(* Types. *)

LEMMA DatesType == Dates \subseteq Int /\ MaxNow \div Hours \in Int
  BY DEF Dates

LEMMA TodayType == ASSUME TypeOK PROVE Today \in Int /\ LocalDay \in Int /\ LocalHour \in Int
  BY DEF TypeOK, Today, LocalDay, LocalHour

LEMMA TodayInDates == ASSUME TypeOK PROVE Today \in Dates
  <1>1. now \in Int /\ 0 <= now /\ now <= MaxNow
    BY DEF TypeOK
  <1>2. 0 \div Hours <= now \div Hours /\ now \div Hours <= MaxNow \div Hours
    <2>1. 0 \in Int /\ MaxNow \in Int
      OBVIOUS
    <2>2. 0 \div Hours <= now \div Hours
      BY <1>1, <2>1, DivisionMonotone, Zenon
    <2> QED
      BY <1>1, <2>1, <2>2, DivisionMonotone, Zenon
  <1>3. 0 \div Hours = 0
    OBVIOUS
  <1>4. Today \in Int /\ MaxNow \div Hours \in Int
    BY TodayType, DatesType
  <1> QED
    BY <1>2, <1>3, <1>4 DEF Today, Dates

LEMMA CheckStep ==
    ASSUME TypeOK, NEW v \in Vehicles, NEW date \in Dates,
           \/ \E driver \in Drivers \cup {None}, site \in Sites \cup {None} :
                OpenCheck(v, date, driver, site)
           \/ \E notOk \in SUBSET {"critical", "other"} : SubmitCheck(v, date, notOk)
    PROVE  checks' \in [Vehicles \X Dates -> Check \cup {None}]
  <1>0. checks[<<v, date>>] \in Check \cup {None} /\ <<v, date>> \in Vehicles \X Dates
    BY DEF TypeOK
  <1>1. ASSUME NEW driver \in Drivers \cup {None}, NEW site \in Sites \cup {None},
               OpenCheck(v, date, driver, site)
        PROVE  checks' \in [Vehicles \X Dates -> Check \cup {None}]
    <2>1. vehicles[v].site \in Sites \cup {None}
      BY DEF TypeOK, Vehicle
    <2>2. PICK c \in Check : checks' = [checks EXCEPT ![<<v, date>>] = c]
      <3>1. CASE checks[<<v, date>>] = None
        <4> DEFINE c == [status |-> "DRAFT", driver |-> driver, notOk |-> {},
                         site |-> IF site = None THEN vehicles[v].site ELSE site]
        <4>1. c \in Check
          BY <2>1 DEF Check
        <4>2. checks' = [checks EXCEPT ![<<v, date>>] = c]
          BY <1>1, <3>1 DEF OpenCheck
        <4> QED
          BY <4>1, <4>2
      <3>2. CASE checks[<<v, date>>] # None
        BY <1>0, <1>1, <3>2 DEF OpenCheck, Check
      <3> QED
        BY <3>1, <3>2
    <2> QED
      BY <1>0, <2>2 DEF TypeOK
  <1>2. ASSUME NEW notOk \in SUBSET {"critical", "other"}, SubmitCheck(v, date, notOk)
        PROVE  checks' \in [Vehicles \X Dates -> Check \cup {None}]
    <2>1. PICK c \in Check : checks' = [checks EXCEPT ![<<v, date>>] = c]
      BY <1>0, <1>2 DEF SubmitCheck, Check, TypeOK
    <2> QED
      BY <1>0, <2>1 DEF TypeOK
  <1> QED
    BY <1>1, <1>2

LEMMA DisturbType ==
    ASSUME dashboard \in Dashboard \cup {None}, NEW v \in Vehicles, NEW dates, Disturb(v, dates)
    PROVE  dashboard' \in Dashboard \cup {None}
  <1>1. CASE dashboard # None /\ dashboard.date \in dates
    <2>1. dashboard' = [dashboard EXCEPT !.disturbed = @ \cup {v}]
      BY <1>1 DEF Disturb
    <2> QED
      BY <1>1, <2>1 DEF Dashboard
  <1>2. CASE ~(dashboard # None /\ dashboard.date \in dates)
    BY <1>2 DEF Disturb
  <1> QED
    BY <1>1, <1>2

LEMMA ReadingsType ==
    ASSUME NEW scope, NEW date
    PROVE  ActiveVehicles(scope) \in SUBSET Vehicles /\ SubmittedVehicles(scope, date) \in SUBSET Vehicles
  BY DEF ActiveVehicles, SubmittedVehicles

DashboardStep ==
    \/ \E scope \in Scopes : AskDashboard(scope)
    \/ \E reading \in Readings : ReadActive(reading) \/ ReadSubmitted(reading)
    \/ AskAlerts \/ AnswerDashboard

LEMMA DashboardType ==
    ASSUME TypeOK, DashboardStep
    PROVE  dashboard' \in Dashboard \cup {None} /\ UNCHANGED <<now, vehicles, drivers, checks, types, records>>
  <1>0. Today \in Dates
    BY TodayInDates
  <1>1. ASSUME NEW scope \in Scopes, AskDashboard(scope)
        PROVE  dashboard' \in Dashboard \cup {None}
    BY <1>0, <1>1 DEF AskDashboard, Dashboard, Readings
  <1>2. ASSUME NEW reading \in Readings, ReadActive(reading)
        PROVE  dashboard' \in Dashboard \cup {None}
    <2>1. dashboard \in Dashboard
      BY <1>2 DEF ReadActive, Due, TypeOK
    <2>2. PICK s \in SUBSET Vehicles : dashboard' = [dashboard EXCEPT !.active[reading] = s]
      BY <1>2, ReadingsType DEF ReadActive
    <2> QED
      BY <2>1, <2>2 DEF Dashboard
  <1>3. ASSUME NEW reading \in Readings, ReadSubmitted(reading)
        PROVE  dashboard' \in Dashboard \cup {None}
    <2>1. dashboard \in Dashboard
      BY <1>3 DEF ReadSubmitted, Due, TypeOK
    <2>2. PICK s \in SUBSET Vehicles : dashboard' = [dashboard EXCEPT !.submitted[reading] = s]
      BY <1>3, ReadingsType DEF ReadSubmitted
    <2> QED
      BY <2>1, <2>2 DEF Dashboard
  <1>4. CASE AskAlerts
    <2>1. dashboard \in Dashboard
      BY <1>4 DEF AskAlerts, Due, TypeOK
    <2>2. CutoffPassed(dashboard.date) \in BOOLEAN
      BY DEF CutoffPassed
    <2> QED
      BY <1>4, <2>1, <2>2 DEF AskAlerts, Dashboard
  <1>5. CASE AnswerDashboard
    BY <1>5 DEF AnswerDashboard
  <1>6. UNCHANGED <<now, vehicles, drivers, checks, types, records>>
    BY DEF DashboardStep, AskDashboard, ReadActive, ReadSubmitted, AskAlerts, AnswerDashboard
  <1> QED
    BY <1>1, <1>2, <1>3, <1>4, <1>5, <1>6 DEF DashboardStep

LEMMA StatusTypeStep == TypeOK /\ [Next]_vars => TypeOK'
  <1> SUFFICES ASSUME TypeOK, [Next]_vars PROVE TypeOK'
    OBVIOUS
  <1>1. CASE Tick
    BY <1>1 DEF Tick, TypeOK
  <1>2. ASSUME NEW v \in Vehicles, NEW date \in Dates,
               \/ \E driver \in Drivers \cup {None}, site \in Sites \cup {None} :
                    OpenCheck(v, date, driver, site)
               \/ \E notOk \in SUBSET {"critical", "other"} : SubmitCheck(v, date, notOk)
        PROVE  TypeOK'
    <2>1. UNCHANGED <<now, vehicles, drivers, types, records>>
      BY <1>2 DEF OpenCheck, SubmitCheck
    <2>2. dashboard' \in Dashboard \cup {None}
      <3>1. CASE \E dates : Disturb(v, dates)
        BY <3>1, DisturbType DEF TypeOK
      <3>2. CASE dashboard' = dashboard
        BY <3>2 DEF TypeOK
      <3> QED
        BY <1>2, <3>1, <3>2 DEF OpenCheck, SubmitCheck
    <2> QED
      BY <1>2, <2>1, <2>2, CheckStep DEF TypeOK
  <1>3. ASSUME NEW t \in Types, NEW requiresExpiry \in BOOLEAN,
               \/ \E appliesTo \in {"DRIVER", "VEHICLE"} : CreateType(t, appliesTo, requiresExpiry)
               \/ \E active \in BOOLEAN : UpdateType(t, requiresExpiry, active)
        PROVE  TypeOK'
    <2>1. CASE \E appliesTo \in {"DRIVER", "VEHICLE"} : CreateType(t, appliesTo, requiresExpiry)
      BY <2>1 DEF CreateType, TypeOK, ComplianceType
    <2>2. ASSUME NEW active \in BOOLEAN, UpdateType(t, requiresExpiry, active)
          PROVE  TypeOK'
      <3> DEFINE new == [types[t] EXCEPT !.requiresExpiry = requiresExpiry, !.active = active]
      <3>1. types[t] \in ComplianceType
        BY <2>2 DEF UpdateType, TypeOK
      <3>2. new \in ComplianceType
        BY <3>1 DEF ComplianceType
      <3>3. types' = [types EXCEPT ![t] = new]
        BY <2>2 DEF UpdateType
      <3> HIDE DEF new
      <3> QED
        BY <2>2, <3>2, <3>3 DEF UpdateType, TypeOK
    <2> QED
      BY <1>3, <2>1, <2>2
  <1>4. ASSUME NEW scope \in Scopes, NEW t \in Types, NEW target \in Vehicles \cup Drivers,
               NEW expiry \in Dates \cup {None}, CreateRecord(scope, t, target, expiry)
        PROVE  TypeOK'
    <2>1. [type |-> t, target |-> target, expiry |-> expiry] \in ComplianceRecord
      BY DatesType DEF ComplianceRecord
    <2> QED
      BY <1>4, <2>1 DEF CreateRecord, TypeOK
  <1>5. ASSUME NEW v \in Vehicles, NEW vehicle \in Vehicle, ChangeVehicle(v, vehicle)
        PROVE  TypeOK'
    <2>1. dashboard' \in Dashboard \cup {None}
      BY <1>5, DisturbType DEF ChangeVehicle, TypeOK
    <2> QED
      BY <1>5, <2>1 DEF ChangeVehicle, TypeOK
  <1>6. ASSUME NEW d \in Drivers, NEW driver \in Driver, ChangeDriver(d, driver)
        PROVE  TypeOK'
    BY <1>6 DEF ChangeDriver, TypeOK
  <1>7. CASE DashboardStep
    BY <1>7, DashboardType DEF TypeOK
  <1>8. CASE UNCHANGED vars
    BY <1>8 DEF vars, TypeOK
  <1> QED
    BY <1>1, <1>2, <1>3, <1>4, <1>5, <1>6, <1>7, <1>8 DEF Next, DashboardStep

\* Every variable of checks, compliance records and master data keeps to its type.
THEOREM StatusTypeCorrect == Spec => []TypeOK
  <1>1. Init => TypeOK
    BY DEF Init, TypeOK, Driver
  <1> QED
    BY <1>1, StatusTypeStep, PTL DEF Spec

----------------------------------------------------------------------------
(* Compliance: the alerts and the list. *)

\* The alerts about compliance records and the list of records always agree.
THEOREM ComplianceAlwaysAgrees == Spec => []ComplianceAgrees
  <1>1. TypeOK => ComplianceAgrees
    <2> SUFFICES ASSUME TypeOK, NEW scope \in Scopes
                 PROVE  /\ {r \in Expiring(scope) : ComplianceAlert(r)[1] = "compliance_expired"}
                           = {r \in ListedRecords(scope, None) : Expired(r)}
                        /\ {r \in Expiring(scope) :
                              ComplianceAlert(r)[1] = "compliance_expiring_soon"}
                           = ListedRecords(scope, ExpiryWindow)
      BY DEF ComplianceAgrees
    <2>1. ASSUME NEW r \in DOMAIN records
          PROVE  records[r].expiry \in Int \cup {None}
      <3>1. records \in Seq(ComplianceRecord) /\ r \in 1..Len(records)
        BY <2>1 DEF TypeOK
      <3>2. records[r] \in ComplianceRecord
        BY <3>1
      <3> QED
        BY <3>2 DEF ComplianceRecord
    <2>2. ASSUME NEW r \in DOMAIN records
          PROVE  r \in Expiring(scope)
                 <=> /\ records[r].expiry # None /\ records[r].expiry <= Today + ExpiryWindow
                     /\ Accessible(records[r].target, scope)
      BY DEF Expiring, Accessible
    <2>3. ASSUME NEW r
          PROVE  /\ ComplianceAlert(r)[1] = "compliance_expired" <=> records[r].expiry < Today
                 /\ ComplianceAlert(r)[1] = "compliance_expiring_soon"
                    <=> ~(records[r].expiry < Today)
      BY DEF ComplianceAlert
    <2>4. Expiring(scope) \subseteq DOMAIN records
      BY DEF Expiring
    <2>5. ExpiryWindow # None
      OBVIOUS
    <2>6. {r \in Expiring(scope) : ComplianceAlert(r)[1] = "compliance_expired"}
          = {r \in ListedRecords(scope, None) : Expired(r)}
      BY <2>1, <2>2, <2>3, <2>4, TodayType DEF ListedRecords, Expired
    <2>7. {r \in Expiring(scope) : ComplianceAlert(r)[1] = "compliance_expiring_soon"}
          = ListedRecords(scope, ExpiryWindow)
      BY <2>1, <2>2, <2>3, <2>4, <2>5, TodayType DEF ListedRecords, ExpiringWithin
    <2> QED
      BY <2>6, <2>7
  <1> QED
    BY <1>1, StatusTypeCorrect, PTL

----------------------------------------------------------------------------
(* The dashboard and the alerts. *)

\* What has been read holds as long as nobody disturbs it: a vehicle is active for the
\* viewer, and a check that is submitted stays so. The number is of the date the alerts
\* are of, and read before they are asked for.
DashboardInv ==
    dashboard # None =>
        LET d == dashboard
            calm == Vehicles \ d.disturbed
        IN  /\ \A r \in Readings, v \in calm :
                  /\ d.active[r] # None =>
                       (v \in d.active[r] <=> v \in ActiveVehicles(d.scope))
                  /\ d.submitted[r] # None /\ v \in d.submitted[r] =>
                       <<v, d.date>> \in Filed(d.scope, "SUBMITTED")
            /\ d.alertsFor = None => d.submitted["alerts"] = None
            /\ d.alertsFor # None => d.alertsFor = d.date /\ Complete("count")
            /\ d.submitted["alerts"] # None =>
                 \A v \in calm : v \in d.submitted["count"] => v \in d.submitted["alerts"]

LEMMA SidesDiffer == Readings = {"count", "alerts"} /\ "count" # "alerts"
  BY DEF Readings

\* What a step that is not the dashboard's leaves as it is, where it does not disturb.
LEMMA CalmStays ==
    ASSUME TypeOK, [Next]_vars, ~DashboardStep, dashboard # None
    PROVE  \/ dashboard' = None
           \/ /\ dashboard' = [dashboard EXCEPT !.disturbed = dashboard'.disturbed]
              /\ dashboard.disturbed \subseteq dashboard'.disturbed
              /\ \A v \in Vehicles \ dashboard'.disturbed :
                   /\ vehicles'[v] = vehicles[v]
                   /\ <<v, dashboard.date>> \in Filed(dashboard.scope, "SUBMITTED") =>
                        <<v, dashboard.date>> \in Filed(dashboard.scope, "SUBMITTED")'
  <1> DEFINE d == dashboard
             Calm == /\ d' = [d EXCEPT !.disturbed = d'.disturbed]
                     /\ d.disturbed \subseteq d'.disturbed
                     /\ \A v \in Vehicles \ d'.disturbed :
                          /\ vehicles'[v] = vehicles[v]
                          /\ checks[<<v, d.date>>] # None
                               /\ checks[<<v, d.date>>].status = "SUBMITTED" =>
                             /\ checks'[<<v, d.date>>] # None
                             /\ checks'[<<v, d.date>>].status = "SUBMITTED"
                             /\ checks'[<<v, d.date>>].site = checks[<<v, d.date>>].site
  <1>0. d \in Dashboard
    BY DEF TypeOK
  <1>1. ASSUME NEW v \in Vehicles, NEW dates, Disturb(v, dates)
        PROVE  /\ d' = [d EXCEPT !.disturbed = d'.disturbed]
               /\ d.disturbed \subseteq d'.disturbed
               /\ d.date \in dates => v \in d'.disturbed
    BY <1>0, <1>1 DEF Disturb, Dashboard
  <1>2. ASSUME UNCHANGED <<vehicles, checks, dashboard>>
        PROVE  Calm
    BY <1>0, <1>2 DEF Dashboard
  <1>3. ASSUME NEW v \in Vehicles, NEW vehicle \in Vehicle, ChangeVehicle(v, vehicle)
        PROVE  Calm
    <2>1. v \in d'.disturbed
      BY <1>0, <1>1, <1>3 DEF ChangeVehicle, Dashboard
    <2> QED
      BY <1>1, <1>3, <2>1 DEF ChangeVehicle, TypeOK
  <1>4. ASSUME NEW v \in Vehicles, NEW date \in Dates, NEW driver \in Drivers \cup {None},
               NEW site \in Sites \cup {None}, OpenCheck(v, date, driver, site)
        PROVE  Calm
    <2> DEFINE old == checks[<<v, date>>]
    <2>1. Disturb(v, IF old # None /\ site # None THEN {date} ELSE {})
      BY <1>4 DEF OpenCheck
    <2>2. ASSUME NEW w \in Vehicles \ d'.disturbed, checks[<<w, d.date>>] # None,
                 checks[<<w, d.date>>].status = "SUBMITTED"
          PROVE  /\ checks'[<<w, d.date>>] # None
                 /\ checks'[<<w, d.date>>].status = "SUBMITTED"
                 /\ checks'[<<w, d.date>>].site = checks[<<w, d.date>>].site
      <3>0. d.date \in Dates /\ <<w, d.date>> \in DOMAIN checks
            /\ checks[<<w, d.date>>] \in Check /\ None \notin Check
        <4>1. d.date \in Dates /\ <<w, d.date>> \in DOMAIN checks
          BY <1>0 DEF Dashboard, TypeOK
        <4>2. checks[<<w, d.date>>] \in Check
          BY <2>2, <4>1 DEF TypeOK
        <4> QED
          BY <4>1, <4>2, NoneIsNoCheck
      <3>1. CASE <<w, d.date>> # <<v, date>>
        BY <1>4, <2>2, <3>0, <3>1 DEF OpenCheck
      <3>2. CASE w = v /\ d.date = date
        <4>1. site = None
          BY <1>1, <2>1, <2>2, <3>2
        <4> QED
          BY <1>4, <2>2, <3>0, <3>2, <4>1 DEF OpenCheck, Check
      <3> QED
        BY <3>1, <3>2
    <2> QED
      BY <1>1, <1>4, <2>1, <2>2 DEF OpenCheck
  <1>5. ASSUME NEW v \in Vehicles, NEW date \in Dates, NEW notOk \in SUBSET {"critical", "other"},
               SubmitCheck(v, date, notOk)
        PROVE  Calm
    <2>1. PICK c \in Check : /\ c.status = "SUBMITTED" /\ c.site = checks[<<v, date>>].site
                             /\ checks' = [checks EXCEPT ![<<v, date>>] = c]
      <3>1. checks[<<v, date>>] \in Check
        BY <1>5 DEF SubmitCheck, TypeOK
      <3> DEFINE c == [checks[<<v, date>>] EXCEPT !.status = "SUBMITTED", !.notOk = notOk]
      <3>2. c \in Check /\ c.status = "SUBMITTED" /\ c.site = checks[<<v, date>>].site
        BY <3>1 DEF Check
      <3>3. checks' = [checks EXCEPT ![<<v, date>>] = c]
        BY <1>5 DEF SubmitCheck
      <3> QED
        BY <3>2, <3>3
    <2>2. d' = d /\ vehicles' = vehicles /\ c # None
      BY <1>5, NoneIsNoCheck DEF SubmitCheck
    <2>3. ASSUME NEW w \in Vehicles
          PROVE  <<w, d.date>> \in DOMAIN checks
      BY <1>0 DEF TypeOK, Dashboard
    <2> QED
      BY <1>0, <2>1, <2>2, <2>3 DEF Dashboard
  <1>6. Calm
    <2> HIDE DEF Calm
    <2>1. CASE UNCHANGED <<vehicles, checks, dashboard>>
      BY <1>2, <2>1
    <2> QED
      BY <1>3, <1>4, <1>5, <2>1
         DEF Next, vars, Tick, CreateType, UpdateType, CreateRecord, ChangeDriver, DashboardStep
  <1>7. ASSUME NEW v \in Vehicles \ d'.disturbed, <<v, d.date>> \in Filed(d.scope, "SUBMITTED")
        PROVE  <<v, dashboard.date>> \in Filed(dashboard.scope, "SUBMITTED")'
    <2>1. /\ checks[<<v, d.date>>] # None /\ checks[<<v, d.date>>].status = "SUBMITTED"
          /\ CheckInScope(<<v, d.date>>, d.scope)
      BY <1>7 DEF Filed
    <2>2. /\ checks'[<<v, d.date>>] # None /\ checks'[<<v, d.date>>].status = "SUBMITTED"
          /\ checks'[<<v, d.date>>].site = checks[<<v, d.date>>].site
          /\ vehicles'[v] = vehicles[v]
      BY <1>6, <2>1
    <2>3. d'.date = d.date /\ d'.scope = d.scope
      BY <1>0, <1>6 DEF Dashboard
    <2>4. <<v, d.date>> \in DOMAIN checks'
      BY <1>0, StatusTypeStep DEF TypeOK, Dashboard
    <2>5. CheckInScope(<<v, d.date>>, d.scope)'
      BY <2>1, <2>2, <2>3 DEF CheckInScope
    <2> QED
      BY <2>2, <2>3, <2>4, <2>5 DEF Filed
  <1> QED
    BY <1>6, <1>7

\* What others do while a dashboard is read.
LEMMA DashboardKept ==
    ASSUME TypeOK, DashboardInv, [Next]_vars, ~DashboardStep
    PROVE  DashboardInv'
  <1> SUFFICES ASSUME dashboard' # None PROVE DashboardInv'
    BY DEF DashboardInv
  <1>1. CASE dashboard = None
    BY <1>1 DEF Next, vars, DashboardStep, Tick, OpenCheck, SubmitCheck, CreateType, UpdateType,
                CreateRecord, ChangeVehicle, ChangeDriver, Disturb
  <1>2. CASE dashboard # None
    <2>1. dashboard \in Dashboard
      BY <1>2 DEF TypeOK
    <2>2. /\ dashboard' = [dashboard EXCEPT !.disturbed = dashboard'.disturbed]
          /\ dashboard.disturbed \subseteq dashboard'.disturbed
          /\ \A v \in Vehicles \ dashboard'.disturbed :
               /\ vehicles'[v] = vehicles[v]
               /\ <<v, dashboard.date>> \in Filed(dashboard.scope, "SUBMITTED") =>
                    <<v, dashboard.date>> \in Filed(dashboard.scope, "SUBMITTED")'
      BY <1>2, CalmStays
    <2>3. /\ dashboard'.scope = dashboard.scope /\ dashboard'.date = dashboard.date
          /\ dashboard'.alertsFor = dashboard.alertsFor
          /\ dashboard'.active = dashboard.active /\ dashboard'.submitted = dashboard.submitted
      BY <2>1, <2>2 DEF Dashboard
    <2>4. ASSUME NEW v \in Vehicles \ dashboard'.disturbed
          PROVE  /\ v \in Vehicles \ dashboard.disturbed
                 /\ v \in ActiveVehicles(dashboard.scope)' <=> v \in ActiveVehicles(dashboard.scope)
      BY <2>2, <2>3 DEF ActiveVehicles
    <2>5. Complete("count")' = Complete("count")
      BY <2>3 DEF Complete
    <2> QED
      BY <1>2, <2>2, <2>3, <2>4, <2>5 DEF DashboardInv
  <1> QED
    BY <1>1, <1>2

\* What a dashboard reads holds when it is read.
LEMMA DashboardReads ==
    ASSUME TypeOK, DashboardInv, DashboardStep
    PROVE  DashboardInv'
  <1>0. UNCHANGED <<vehicles, checks>>
    BY DashboardType
  <1>1. ASSUME NEW s, NEW status
        PROVE  ActiveVehicles(s)' = ActiveVehicles(s) /\ Filed(s, status)' = Filed(s, status)
    BY <1>0 DEF ActiveVehicles, Filed, CheckInScope
  <1>2. ASSUME NEW scope \in Scopes, AskDashboard(scope)
        PROVE  DashboardInv'
    BY <1>2 DEF AskDashboard, DashboardInv, Readings
  <1>3. CASE AnswerDashboard
    BY <1>3 DEF AnswerDashboard, DashboardInv
  <1>4. SUFFICES ASSUME dashboard \in Dashboard, dashboard # None,
                        \/ \E reading \in Readings : ReadActive(reading) \/ ReadSubmitted(reading)
                        \/ AskAlerts
                 PROVE  DashboardInv'
    BY <1>2, <1>3 DEF DashboardStep, TypeOK, ReadActive, ReadSubmitted, AskAlerts, Due
  <1>5. ASSUME NEW reading \in Readings, ReadActive(reading)
        PROVE  DashboardInv'
    <2>1. /\ dashboard.active[reading] = None
          /\ dashboard' = [dashboard EXCEPT !.active[reading] = ActiveVehicles(dashboard.scope)]
      BY <1>5 DEF ReadActive
    <2>2. /\ dashboard'.active = [dashboard.active EXCEPT ![reading] = ActiveVehicles(dashboard.scope)]
          /\ dashboard'.scope = dashboard.scope /\ dashboard'.date = dashboard.date
          /\ dashboard'.alertsFor = dashboard.alertsFor /\ dashboard'.submitted = dashboard.submitted
          /\ dashboard'.disturbed = dashboard.disturbed
          /\ DOMAIN dashboard.active = Readings
      BY <1>4, <2>1 DEF Dashboard
    <2>3. dashboard.alertsFor # None => reading # "count"
      BY <1>4, <2>1 DEF DashboardInv, Complete
    <2>4. dashboard.alertsFor # None => Complete("count")'
      BY <1>4, <2>2, <2>3 DEF DashboardInv, Complete, Readings
    <2>5. ASSUME NEW r \in Readings, NEW v \in Vehicles \ dashboard.disturbed,
                 dashboard'.active[r] # None
          PROVE  v \in dashboard'.active[r] <=> v \in ActiveVehicles(dashboard.scope)
      <3>1. CASE r = reading
        BY <2>2, <3>1
      <3>2. CASE r # reading
        BY <1>4, <2>2, <2>5, <3>2 DEF DashboardInv
      <3> QED
        BY <3>1, <3>2
    <2>6. SUFFICES ASSUME dashboard' # None PROVE DashboardInv'
      BY DEF DashboardInv
    <2> QED
      BY <1>1, <1>4, <2>2, <2>4, <2>5 DEF DashboardInv
  <1>6. ASSUME NEW reading \in Readings, ReadSubmitted(reading)
        PROVE  DashboardInv'
    <2> DEFINE date == IF reading = "count" THEN dashboard.date ELSE dashboard.alertsFor
               Sent == SubmittedVehicles(dashboard.scope, dashboard.date)
    <2>0. reading = "alerts" <=> dashboard.alertsFor # None
      BY <1>6 DEF ReadSubmitted, Due
    <2>1. date = dashboard.date
      BY <1>4, <1>6, <2>0 DEF DashboardInv, Readings
    <2>2. /\ dashboard.submitted[reading] = None
          /\ dashboard' = [dashboard EXCEPT !.submitted[reading] = Sent]
      BY <1>6, <2>1 DEF ReadSubmitted
    <2>3. \A v : v \in Sent <=> v \in Vehicles
                                /\ <<v, dashboard.date>> \in Filed(dashboard.scope, "SUBMITTED")
      BY DEF SubmittedVehicles
    <2> HIDE DEF Sent, date
    <2>4. /\ dashboard'.submitted = [dashboard.submitted EXCEPT ![reading] = Sent]
          /\ dashboard'.scope = dashboard.scope /\ dashboard'.date = dashboard.date
          /\ dashboard'.alertsFor = dashboard.alertsFor /\ dashboard'.active = dashboard.active
          /\ dashboard'.disturbed = dashboard.disturbed
          /\ DOMAIN dashboard.submitted = Readings
      BY <1>4, <2>2 DEF Dashboard
    <2>5. ASSUME NEW r \in Readings, NEW v \in Vehicles \ dashboard.disturbed,
                 dashboard'.submitted[r] # None, v \in dashboard'.submitted[r]
          PROVE  <<v, dashboard.date>> \in Filed(dashboard.scope, "SUBMITTED")
      <3>1. CASE r = reading
        BY <2>3, <2>4, <2>5, <3>1
      <3>2. CASE r # reading
        BY <1>4, <2>4, <2>5, <3>2 DEF DashboardInv
      <3> QED
        BY <3>1, <3>2
    <2>6. dashboard.alertsFor = None => dashboard'.submitted["alerts"] = None
      BY <1>4, <2>0, <2>4 DEF DashboardInv, Readings
    <2>7. dashboard.alertsFor # None => dashboard.alertsFor = dashboard.date /\ Complete("count")'
      <3>1. SUFFICES ASSUME dashboard.alertsFor # None
                     PROVE  dashboard.alertsFor = dashboard.date /\ Complete("count")'
        OBVIOUS
      <3>2. dashboard'.submitted["count"] = dashboard.submitted["count"]
        BY <2>0, <2>4, <3>1, SidesDiffer
      <3> QED
        BY <1>4, <2>4, <3>1, <3>2 DEF DashboardInv, Complete
    <2>8. ASSUME dashboard'.submitted["alerts"] # None, NEW v \in Vehicles \ dashboard.disturbed,
                 v \in dashboard'.submitted["count"]
          PROVE  v \in dashboard'.submitted["alerts"]
      <3>1. reading = "alerts"
        BY <2>0, <2>6, <2>8
      <3>2. /\ dashboard'.submitted["count"] = dashboard.submitted["count"]
            /\ dashboard'.submitted["alerts"] = Sent
        BY <2>4, <3>1, SidesDiffer
      <3>3. dashboard.submitted["count"] # None
        BY <1>4, <2>0, <3>1 DEF DashboardInv, Complete
      <3>4. <<v, dashboard.date>> \in Filed(dashboard.scope, "SUBMITTED")
        BY <1>4, <2>8, <3>2, <3>3, SidesDiffer DEF DashboardInv
      <3> QED
        BY <2>3, <2>8, <3>2, <3>4
    <2>9. SUFFICES ASSUME dashboard' # None PROVE DashboardInv'
      BY DEF DashboardInv
    <2> QED
      BY <1>1, <1>4, <2>4, <2>5, <2>6, <2>7, <2>8 DEF DashboardInv
  <1>7. CASE AskAlerts
    <2>1. /\ dashboard'.alertsFor = dashboard.date /\ dashboard.alertsFor = None
          /\ dashboard'.scope = dashboard.scope /\ dashboard'.date = dashboard.date
          /\ dashboard'.active = dashboard.active /\ dashboard'.submitted = dashboard.submitted
          /\ dashboard'.disturbed = dashboard.disturbed /\ Complete("count")
      BY <1>4, <1>7 DEF AskAlerts, Due, Dashboard
    <2>2. dashboard.date # None
      BY <1>4, DatesType DEF Dashboard
    <2>3. Complete("count")'
      BY <2>1 DEF Complete
    <2>4. SUFFICES ASSUME dashboard' # None PROVE DashboardInv'
      BY DEF DashboardInv
    <2> QED
      BY <1>1, <1>4, <2>1, <2>2, <2>3 DEF DashboardInv
  <1> QED
    BY <1>4, <1>5, <1>6, <1>7

\* However the reads of a dashboard fall, its number of missing checks and its alerts
\* about them agree on every vehicle that was left alone meanwhile.
THEOREM DashboardAlwaysAgrees == Spec => []DashboardAgrees
  <1>1. Init => DashboardInv
    BY DEF Init, DashboardInv
  <1>2. TypeOK /\ DashboardInv /\ [Next]_vars => DashboardInv'
    BY DashboardKept, DashboardReads
  <1>3. TypeOK /\ DashboardInv => DashboardAgrees
    <2> SUFFICES ASSUME TypeOK, DashboardInv, dashboard # None,
                        Complete("count"), Complete("alerts")
                 PROVE  LET d == dashboard
                            missing == [r \in Readings |->
                                          d.active[r] \ (d.submitted[r] \cup d.disturbed)]
                        IN  /\ missing["alerts"] \subseteq missing["count"]
                            /\ \A v \in missing["count"] \ missing["alerts"] :
                                  /\ checks[<<v, d.date>>] # None
                                  /\ checks[<<v, d.date>>].status = "SUBMITTED"
      BY Zenon DEF DashboardAgrees
    <2> DEFINE d == dashboard
               missing == [r \in Readings |-> d.active[r] \ (d.submitted[r] \cup d.disturbed)]
    <2>1. \A r \in Readings : d.active[r] # None /\ d.submitted[r] # None
      BY SidesDiffer DEF Complete
    <2>2. ASSUME NEW r \in Readings, NEW v
          PROVE  v \in missing[r] <=> /\ v \in d.active[r] /\ v \notin d.submitted[r]
                                      /\ v \in Vehicles \ d.disturbed
      <3>1. d.active[r] \subseteq Vehicles
        BY <2>1 DEF TypeOK, Dashboard
      <3> QED
        BY <3>1
    <2> HIDE DEF missing
    <2>3. ASSUME NEW v \in Vehicles \ d.disturbed
          PROVE  /\ v \in d.active["alerts"] <=> v \in d.active["count"]
                 /\ v \in d.submitted["count"] => v \in d.submitted["alerts"]
                 /\ v \in d.submitted["alerts"] => <<v, d.date>> \in Filed(d.scope, "SUBMITTED")
      BY <2>1, SidesDiffer DEF DashboardInv
    <2>4. missing["alerts"] \subseteq missing["count"]
      BY <2>2, <2>3, SidesDiffer
    <2>5. ASSUME NEW v \in missing["count"] \ missing["alerts"]
          PROVE  checks[<<v, d.date>>] # None /\ checks[<<v, d.date>>].status = "SUBMITTED"
      <3>1. <<v, d.date>> \in Filed(d.scope, "SUBMITTED")
        BY <2>2, <2>3, <2>5, SidesDiffer
      <3> QED
        BY <3>1 DEF Filed
    <2> QED
      BY <2>4, <2>5 DEF missing
  <1> QED
    BY <1>1, <1>2, <1>3, StatusTypeCorrect, PTL DEF Spec

----------------------------------------------------------------------------
(* What a restricted viewer sees. *)

LEMMA EverythingFull == Everything.full
  BY DEF Everything

LEMMA FiledFinite ==
    ASSUME TypeOK, NEW scope, NEW status
    PROVE  IsFiniteSet(Filed(scope, status))
  <1>1. IsFiniteSet(Dates)
    BY FS_Interval, DatesType DEF Dates
  <1>2. IsFiniteSet(Vehicles \X Dates)
    BY <1>1, FS_Product
  <1>3. Filed(scope, status) \subseteq Vehicles \X Dates
    BY DEF Filed, TypeOK
  <1> QED
    BY <1>2, <1>3, FS_Subset

LEMMA FiledLess ==
    ASSUME NEW scope, NEW status
    PROVE  Filed(scope, status) \subseteq Filed(Everything, status)
  BY EverythingFull DEF Filed, CheckInScope

LEMMA ExpiringLess == ASSUME NEW scope PROVE Expiring(scope) \subseteq Expiring(Everything)
  BY EverythingFull DEF Expiring

\* A count that reaches a bound among some checks reaches it among more of them.
LEMMA CountLess ==
    ASSUME TypeOK, NEW few, NEW many, NEW status, NEW bound \in Nat,
           few \subseteq many, many \subseteq Filed(Everything, status),
           Cardinality(few) >= bound
    PROVE  Cardinality(many) >= bound
  <1>1. IsFiniteSet(many)
    BY FiledFinite, FS_Subset
  <1>2. IsFiniteSet(few) /\ Cardinality(few) <= Cardinality(many)
    BY <1>1, FS_Subset
  <1>3. Cardinality(few) \in Nat /\ Cardinality(many) \in Nat
    BY <1>1, <1>2, FS_CardinalityType
  <1> QED
    BY <1>2, <1>3

LEMMA CheckAlertsLess ==
    ASSUME TypeOK, NEW scope, NEW date
    PROVE  CheckAlerts(scope, date) \subseteq CheckAlerts(Everything, date)
  <1> DEFINE Days(s, c) == {x \in WithIssues(s, Lately(date)) : x[1] = c[1]}
             Of(s, c) ==
               {<<"checklist_issue_reported",
                  IF "critical" \in checks[c].notOk THEN "HIGH" ELSE "MEDIUM", c>>}
               \cup (IF "critical" \in checks[c].notOk
                     THEN {<<"critical_checklist_issue", "HIGH", c>>} ELSE {})
               \cup (IF Cardinality(Days(s, c)) >= RepeatedIssues
                     THEN {<<"repeated_checklist_issues_vehicle", "MEDIUM", c>>} ELSE {})
  <1>1. ASSUME NEW s PROVE CheckAlerts(s, date) = UNION {Of(s, c) : c \in WithIssues(s, {date})}
    BY DEF CheckAlerts
  <1>2. ASSUME NEW dates PROVE WithIssues(scope, dates) \subseteq WithIssues(Everything, dates)
    BY FiledLess DEF WithIssues
  <1>3. ASSUME NEW c, Cardinality(Days(scope, c)) >= RepeatedIssues
        PROVE  Cardinality(Days(Everything, c)) >= RepeatedIssues
    <2>1. Days(scope, c) \subseteq Days(Everything, c)
      BY <1>2
    <2>2. Days(Everything, c) \subseteq Filed(Everything, "SUBMITTED")
      BY DEF WithIssues
    <2> HIDE DEF Days
    <2> QED
      BY <1>3, <2>1, <2>2, CountLess
  <1>4. ASSUME NEW c PROVE Of(scope, c) \subseteq Of(Everything, c)
    <2> HIDE DEF Days
    <2> QED
      BY <1>3
  <1> HIDE DEF Of
  <1> QED
    BY <1>1, <1>2, <1>4

LEMMA SkippersLess ==
    ASSUME TypeOK, NEW scope, NEW date
    PROVE  Skippers(scope, date) \subseteq Skippers(Everything, date)
  <1> DEFINE Skipped(s, d) ==
               {c \in Filed(s, "DRAFT") : c[2] \in Lately(date) /\ checks[c].driver = d}
  <1>1. ASSUME NEW d, Cardinality(Skipped(scope, d)) >= FrequentSkips
        PROVE  Cardinality(Skipped(Everything, d)) >= FrequentSkips
    <2>1. /\ Skipped(scope, d) \subseteq Skipped(Everything, d)
          /\ Skipped(Everything, d) \subseteq Filed(Everything, "DRAFT")
      BY FiledLess
    <2> HIDE DEF Skipped
    <2> QED
      BY <1>1, <2>1, CountLess
  <1>2. ASSUME NEW s
        PROVE  Skippers(s, date) = IF CutoffPassed(date)
                                   THEN {d \in Drivers : Cardinality(Skipped(s, d)) >= FrequentSkips}
                                   ELSE {}
    BY DEF Skippers
  <1> HIDE DEF Skipped
  <1> QED
    BY <1>1, <1>2

LEMMA MissingElsewhere ==
    ASSUME TypeOK, NEW scope, NEW date \in Dates,
           NEW v \in Missing(scope, date), v \notin Missing(Everything, date)
    PROVE  checks[<<v, date>>] # None /\ checks[<<v, date>>].site \notin scope.sites \cup {None}
  <1>1. v \in ActiveVehicles(scope) /\ CutoffPassed(date)
        /\ <<v, date>> \notin Filed(scope, "SUBMITTED")
    BY DEF Missing
  <1>2. v \in Vehicles /\ v \in ActiveVehicles(Everything)
    BY <1>1, EverythingFull DEF ActiveVehicles
  <1>3. <<v, date>> \in Filed(Everything, "SUBMITTED")
    BY <1>1, <1>2 DEF Missing
  <1>4. ~CheckInScope(<<v, date>>, scope) /\ checks[<<v, date>>] # None
    BY <1>1, <1>3 DEF Filed
  <1>5. vehicles[v].site \in scope.sites
    BY <1>1, <1>4 DEF ActiveVehicles, CheckInScope
  <1> QED
    BY <1>4, <1>5 DEF CheckInScope

LEMMA AlertsLess ==
    ASSUME TypeOK, NEW scope, NEW date \in Dates,
           NEW a \in Alerts(scope, date), a \notin Alerts(Everything, date)
    PROVE  /\ a[1] = "missing_daily_check"
           /\ checks[<<a[3], date>>] # None
           /\ checks[<<a[3], date>>].site \notin scope.sites \cup {None}
  <1>1. a \notin {ComplianceAlert(r) : r \in Expiring(scope)}
    BY ExpiringLess DEF Alerts
  <1>2. a \notin CheckAlerts(scope, date)
    BY CheckAlertsLess DEF Alerts
  <1>3. a \notin {<<"driver_frequent_skips", "MEDIUM", d>> : d \in Skippers(scope, date)}
    BY SkippersLess DEF Alerts
  <1>4. PICK v \in Missing(scope, date) : a = <<"missing_daily_check", "HIGH", v>>
    BY <1>1, <1>2, <1>3 DEF Alerts
  <1>5. v \notin Missing(Everything, date)
    BY <1>4 DEF Alerts
  <1> QED
    BY <1>4, <1>5, MissingElsewhere

\* Who sees some sites only never sees what who sees the whole company does not, but for
\* missing checks that were filed at a site out of their sight.
THEOREM RestrictedAlwaysSeesLess == Spec => []RestrictedSeesLess
  <1>1. ASSUME NEW scope \in Scopes, NEW number \in DOMAIN Counted(scope)
        PROVE  Counted(scope)[number] \subseteq Counted(Everything)[number]
    <2>1. ASSUME NEW x, Accessible(x, scope) PROVE Accessible(x, Everything)
      BY EverythingFull DEF Accessible
    <2> QED
      BY <1>1, <2>1, FiledLess DEF Counted
  <1>2. ASSUME TypeOK, NEW scope \in Scopes, NEW date \in Dates,
               NEW number \in DOMAIN FromAlerts(scope, date)
        PROVE  FromAlerts(scope, date)[number] \subseteq FromAlerts(Everything, date)[number]
    <2>1. ASSUME NEW a \in Alerts(scope, date), a[1] # "missing_daily_check"
          PROVE  a \in Alerts(Everything, date)
      BY <1>2, <2>1, AlertsLess
    <2> QED
      BY <2>1 DEF FromAlerts
  <1>3. TypeOK => RestrictedSeesLess
    BY <1>1, <1>2, AlertsLess, Zenon DEF RestrictedSeesLess
  <1> QED
    BY <1>3, StatusTypeCorrect, PTL

----------------------------------------------------------------------------
(* Missing checks as time passes. *)

LEMMA TimePasses == ASSUME TypeOK, [Next]_vars PROVE now' = now \/ now' = now + 1
  BY DEF Next, vars, Tick, OpenCheck, SubmitCheck, CreateType, UpdateType, CreateRecord,
         ChangeVehicle, ChangeDriver, AskDashboard, ReadActive, ReadSubmitted, AskAlerts,
         AnswerDashboard

\* A cutoff that has passed has passed for good, unless the server's day ends first.
LEMMA CutoffStays ==
    ASSUME TypeOK, [Next]_vars, NEW date \in Dates, CutoffPassed(date),
           date = Today' => LocalDay' = LocalDay
    PROVE  CutoffPassed(date)'
  <1> DEFINE local == now + Offset
  <1>1. /\ now \in Int /\ now' \in Int /\ local \in Int /\ local' \in Int
        /\ now <= now' /\ local' - local = now' - now
    BY TimePasses DEF TypeOK
  <1>2. Today <= Today'
    BY <1>1, DivisionMonotone, Zenon DEF Today
  <1>3. /\ Today \in Int /\ Today' \in Int /\ LocalDay \in Int /\ LocalDay' \in Int
        /\ LocalHour \in Int /\ LocalHour' \in Int
        /\ local = Hours * LocalDay + LocalHour /\ local' = Hours * LocalDay' + LocalHour'
    <2>1. Today \in Int /\ Today' \in Int
      BY <1>1, Division DEF Today
    <2>2. ASSUME NEW t \in Int
          PROVE  /\ t \div Hours \in Int /\ t % Hours \in Int
                 /\ t = Hours * (t \div Hours) + (t % Hours)
      BY Division
    <2>3. local = Hours * (local \div Hours) + (local % Hours)
          /\ local \div Hours \in Int /\ local % Hours \in Int
      BY <1>1, <2>2, Zenon
    <2>4. local' = Hours * (local' \div Hours) + (local' % Hours)
          /\ local' \div Hours \in Int /\ local' % Hours \in Int
      BY <1>1, <2>2, Zenon
    <2> QED
      BY <2>1, <2>3, <2>4 DEF LocalDay, LocalHour
  <1>4. date \in Int
    BY DatesType
  <1>5. CASE date < Today'
    BY <1>5 DEF CutoffPassed
  <1>6. CASE ~(date < Today')
    <2>1. date = Today /\ Today' = Today /\ LocalHour >= Cutoff
      BY <1>2, <1>3, <1>4, <1>6 DEF CutoffPassed
    <2>2. LocalDay = LocalDay'
      BY <2>1
    <2>3. LocalHour' >= LocalHour
      <3>1. Hours * LocalDay \in Int /\ Hours * LocalDay' = Hours * LocalDay
        BY <1>3, <2>2
      <3> DEFINE start == Hours * LocalDay
      <3>2. start \in Int /\ local = start + LocalHour /\ local' = start + LocalHour'
        BY <1>3, <3>1
      <3>3. now + Offset = start + LocalHour /\ now' + Offset = start + LocalHour'
        BY <3>2
      <3> HIDE DEF start, local
      <3> QED
        BY <1>1, <1>3, <3>2, <3>3
    <2> QED
      BY <1>3, <2>1, <2>3 DEF CutoffPassed
  <1> QED
    BY <1>5, <1>6

\* Wherever the server is, a check once missing stays missing for whoever is told so, until
\* it or its vehicle changes; that of a day not over in UTC, until the server's day is over.
THEOREM MissingAlwaysStays == Spec => MissingStays
  <1>1. TypeOK /\ [Next]_vars =>
          [\A scope \in Scopes, date \in Dates : \A v \in Missing(scope, date) :
             /\ vehicles'[v] = vehicles[v]
             /\ checks'[<<v, date>>] = checks[<<v, date>>]
             /\ date = Today' => LocalDay' = LocalDay
             => v \in Missing(scope, date)']_vars
    <2> SUFFICES ASSUME TypeOK, [Next]_vars, NEW scope \in Scopes, NEW date \in Dates,
                        NEW v \in Missing(scope, date), vehicles'[v] = vehicles[v],
                        checks'[<<v, date>>] = checks[<<v, date>>],
                        date = Today' => LocalDay' = LocalDay
                 PROVE  v \in Missing(scope, date)'
      OBVIOUS
    <2>1. /\ CutoffPassed(date) /\ v \in ActiveVehicles(scope)
          /\ <<v, date>> \notin Filed(scope, "SUBMITTED")
      BY DEF Missing
    <2>2. CutoffPassed(date)'
      BY <2>1, CutoffStays
    <2>3. v \in ActiveVehicles(scope)'
      BY <2>1 DEF ActiveVehicles
    <2>4. <<v, date>> \in DOMAIN checks
      BY <2>1 DEF ActiveVehicles, TypeOK
    <2>5. <<v, date>> \notin Filed(scope, "SUBMITTED")'
      BY <2>1, <2>4 DEF Filed, CheckInScope
    <2> QED
      BY <2>2, <2>3, <2>5 DEF Missing
  <1> QED
    BY <1>1, StatusTypeCorrect, PTL DEF Spec, MissingStays
----------------------------------------------------------------------------
(* The parts side by side: what MCAreas runs are behaviours of every part,  *)
(* so that its bounds leave some out and add none.                          *)

LEMMA EnvStarts == ASSUME MCInit PROVE EnvInit /\ area \in Areas
  <1>1. \E c \in Configs : TRUE
    <2>1. [provider |-> "stub", placeholderSecret |-> TRUE, deliveryEnabled |-> FALSE,
           allowReal |-> FALSE, production |-> FALSE, phoneNumberId |-> FALSE,
           accessToken |-> FALSE] \in Configs
      BY DEF Configs, Providers
    <2> QED
      BY <2>1
  <1>2. (CHOOSE c \in Configs : TRUE) \in Configs
    BY <1>1
  <1> QED
    BY <1>2 DEF MCInit, EnvInit

LEMMA PartsStart ==
  MCInit => EnvInit /\ Init /\ ContactsInit /\ ImportInit /\ FuelInit /\ PageInit
  <1> SUFFICES ASSUME MCInit PROVE EnvInit /\ Init /\ ContactsInit /\ ImportInit /\ FuelInit /\ PageInit
    OBVIOUS
  <1>1. EnvInit
    BY EnvStarts
  <1>2. Init /\ ContactsInit /\ ImportInit /\ FuelInit /\ PageInit
    BY DEF MCInit
  <1> QED
    BY <1>1, <1>2

areasVars == <<area, evars, vars, contactVars, importVars, fuelVars, settingsVars>>

LEMMA PartsStep ==
  [MCNext]_areasVars =>
    /\ [Boot \/ Redeploy]_evars
    /\ [Next]_vars
    /\ [ContactsNext]_contactVars
    /\ [ImportNext]_importVars
    /\ [FuelNext]_fuelVars
    /\ [PageNext]_settingsVars
  <1> SUFFICES ASSUME [MCNext]_areasVars
               PROVE  /\ [Boot \/ Redeploy]_evars
                      /\ [Next]_vars
                      /\ [ContactsNext]_contactVars
                      /\ [ImportNext]_importVars
                      /\ [FuelNext]_fuelVars
                      /\ [PageNext]_settingsVars
    OBVIOUS
  <1>1. CASE Environment
    BY <1>1 DEF Environment
  <1>2. CASE Status
    BY <1>2 DEF Status, StatusNext
  <1>3. CASE Directory
    BY <1>3 DEF Directory
  <1>4. CASE Importing
    BY <1>4, Zenon DEF Importing, ImportBounded, ImportNext
  <1>5. CASE Fuel
    BY <1>5, Zenon DEF Fuel, FuelBounded
  <1>6. CASE SettingsUi
    BY <1>6 DEF SettingsUi, PageBounded
  <1>7. CASE UNCHANGED areasVars
    BY <1>7 DEF areasVars
  <1> QED
    BY <1>1, <1>2, <1>3, <1>4, <1>5, <1>6, <1>7 DEF MCNext

LEMMA AreaStays == [MCNext]_areasVars => area' = area
  BY Zenon DEF areasVars, MCNext, Environment, Status, Directory, Importing, Fuel, SettingsUi

\* Whatever is run of the parts side by side is, seen from each, a run of that part: the
\* instances leave steps out and make none up.
THEOREM AreasAreParts ==
  MCSpec => EnvSpec /\ Spec /\ ContactsSpec /\ ImportSpec /\ FuelSpec /\ PageSpec
  <1> SUFFICES MCInit /\ [][MCNext]_areasVars =>
                 EnvSpec /\ Spec /\ ContactsSpec /\ ImportSpec /\ FuelSpec /\ PageSpec
    BY DEF MCSpec, areasVars
  <1> QED
    BY PartsStart, PartsStep, PTL
       DEF EnvSpec, Spec, ContactsSpec, ImportSpec, FuelSpec, PageSpec

\* An area is chosen once, and what every part keeps is of the form its module says.
THEOREM AreasTypeCorrect == MCSpec => []TypesOK
  <1>1. MCInit => area \in Areas
    BY EnvStarts
  <1>2. area \in Areas /\ [MCNext]_areasVars => (area \in Areas)'
    BY AreaStays
  <1>3. MCSpec => [](area \in Areas)
    <2> SUFFICES MCInit /\ [][MCNext]_areasVars => [](area \in Areas)
      BY DEF MCSpec, areasVars
    <2> QED
      BY <1>1, <1>2, PTL
  <1>4. ImportConstantsFit /\ FuelConstantsFit /\ PageConstantsFit
    BY OnboardingAssumption, FuelingAssumption, SettingsAssumption
  <1>5. /\ EnvSpec => []EnvInv
        /\ Spec => []TypeOK
        /\ ContactsSpec => []ContactsTypeOK
        /\ ImportSpec => []ImportTypeOK
        /\ FuelSpec => []FuelTypeOK
        /\ PageSpec => []PageTypeOK
    BY <1>4, UpIsBootable, StatusTypeCorrect, ContactsTypeCorrect, OnboardingTypeCorrect,
       FuelTypeCorrect, PageTypeCorrect
  <1>6. area \in Areas /\ EnvInv /\ TypeOK /\ ContactsTypeOK /\ ImportTypeOK /\ FuelTypeOK
          /\ PageTypeOK => TypesOK
    BY Zenon DEF Areas, EnvInv, TypesOK
  <1> QED
    BY <1>3, <1>5, <1>6, AreasAreParts, PTL
=============================================================================

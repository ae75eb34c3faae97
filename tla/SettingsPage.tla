---------------------------- MODULE SettingsPage ----------------------------
(***************************************************************************)
(* The settings page of the admin web: a form for the notification         *)
(* settings, saved as a whole, and a preview of the recipients for a site. *)
(* Choosing another site (or event: a choice of both is a site here) loads *)
(* all of the page again, while answers to what was asked before may be    *)
(* still to come.                                                          *)
(***************************************************************************)
EXTENDS Company, Integers

CONSTANT
    MaxPreviews     \* bound: refreshes of the preview under way, of a site

VARIABLES
    stored,     \* the settings that the server keeps
    page,       \* what the page holds
    load,       \* the load of the page that is under way, or None
    save,       \* the save that is under way, or None
    previews,   \* how many refreshes of the preview are under way, by site
    doubts      \* why the page need not be up to date, which it does not know

settingsVars == <<stored, page, load, save, previews, doubts>>

\* Of each field what matters: a switch is on, the scope is CUSTOM, there are recipients.
Settings == [enabled: BOOLEAN, scope: BOOLEAN, recipients: BOOLEAN]
Fields == {"enabled", "scope", "recipients"}

\* The form empties the recipients with the scope, which the server asks for;
Forms == {s \in Settings : s.recipients => s.scope}

\* that there are some it leaves to the server.
Sound == {s \in Settings : s.recipients = s.scope}

\* None is no site in particular, "nothing" no preview at all.
PreviewChoices == Sites \cup {None}

\* edited are the fields changed since the form was filled, which it does not know either.
Page == [site: PreviewChoices, form: Forms \cup {None}, edited: SUBSET Fields,
         shown: PreviewChoices \cup {"nothing"}, failed: BOOLEAN, refreshing: BOOLEAN]

Fresh == [site |-> None, form |-> None, edited |-> {},
          shown |-> "nothing", failed |-> FALSE, refreshing |-> FALSE]

Load == [stage: {"asked", "read", "lists", "preview"}, got: Sound \cup {None}]
Asked == [stage |-> "asked", got |-> None]

Save == [stage: {"sent", "stored", "read"}, form: Forms]

\* What the constants are like: None is nothing else there is.
PageConstantsFit ==
    /\ MaxPreviews \in Nat
    /\ None \notin Settings \cup Load \cup Save

Doubts == {"somebody else saved", "load and save crossed", "preview overtaken", "preview failed"}

PageTypeOK ==
    /\ stored \in Sound
    /\ page \in Page
    /\ load \in Load \cup {None}
    /\ save \in Save \cup {None}
    /\ previews \in [PreviewChoices -> 0..MaxPreviews]
    /\ doubts \subseteq Doubts

NoPreviews == [c \in PreviewChoices |-> 0]

PageInit ==
    /\ stored \in Sound
    /\ page = Fresh
    /\ load = Asked
    /\ save = None
    /\ previews = NoPreviews
    /\ doubts = {}

----------------------------------------------------------------------------
(* Loading. *)

\* The page is opened anew. What it was sending may yet be stored (SaveElsewhere).
Open ==
    /\ page' = Fresh
    /\ load' = Asked
    /\ save' = None
    /\ previews' = NoPreviews
    /\ doubts' = {}
    /\ UNCHANGED stored

\* While it loads, and after a load that failed, nothing can be seen or done.
Usable == load = None /\ ~page.failed /\ page.form # None

\* Mutation: the preview alone is what the site makes no difference to.
SelectOnly(site) ==
    /\ Usable /\ site # page.site
    /\ page' = [page EXCEPT !.site = site]
    /\ UNCHANGED <<stored, load, save, previews, doubts>>

Select(site) ==
    /\ Usable /\ site # page.site
    /\ page' = [page EXCEPT !.site = site]
    /\ load' = Asked
    /\ doubts' = (IF save # None THEN {"load and save crossed"} ELSE {})
                 \cup (IF previews # NoPreviews THEN {"preview overtaken"} ELSE {})
    /\ UNCHANGED <<stored, save, previews>>

ReadSettings ==
    /\ load # None /\ load.stage = "asked"
    /\ load' = [stage |-> "read", got |-> stored]
    /\ UNCHANGED <<stored, page, save, previews, doubts>>

\* What was in the form is gone.
FillForm ==
    /\ load # None /\ load.stage = "read"
    /\ page' = [page EXCEPT !.form = load.got, !.edited = {}]
    /\ load' = [stage |-> "lists", got |-> None]
    /\ UNCHANGED <<stored, save, previews, doubts>>

\* The contacts, the sites and the status of the system are read.
LoadLists ==
    /\ load # None /\ load.stage = "lists"
    /\ load' = [load EXCEPT !.stage = "preview"]
    /\ page' = [page EXCEPT !.refreshing = TRUE]
    /\ UNCHANGED <<stored, save, previews, doubts>>

FinishLoad ==
    /\ load # None /\ load.stage = "preview"
    /\ page' = [page EXCEPT !.shown = page.site, !.refreshing = FALSE]
    /\ load' = None
    /\ UNCHANGED <<stored, save, previews, doubts>>

\* A failed preview fails nothing else, and leaves the one that is shown.
FailLoad ==
    /\ load # None
    /\ load' = None
    /\ IF load.stage = "preview"
       THEN /\ page' = [page EXCEPT !.refreshing = FALSE]
            /\ doubts' = doubts \cup {"preview failed"}
       ELSE /\ page' = [page EXCEPT !.failed = TRUE]
            /\ UNCHANGED doubts
    /\ UNCHANGED <<stored, save, previews>>

----------------------------------------------------------------------------
(* The preview. *)

\* The first answer of several makes the button work again.
RefreshPreview ==
    /\ Usable /\ ~page.refreshing
    /\ previews[page.site] < MaxPreviews
    /\ previews' = [previews EXCEPT ![page.site] = @ + 1]
    /\ page' = [page EXCEPT !.refreshing = TRUE]
    /\ UNCHANGED <<stored, load, save, doubts>>

AnswerPreview(site) ==
    /\ previews[site] > 0
    /\ previews' = [previews EXCEPT ![site] = @ - 1]
    /\ \/ /\ page' = [page EXCEPT !.shown = site, !.refreshing = FALSE]
          /\ UNCHANGED doubts
       \/ /\ page' = [page EXCEPT !.refreshing = FALSE]
          /\ doubts' = doubts \cup {"preview failed"}
    /\ UNCHANGED <<stored, load, save>>

----------------------------------------------------------------------------
(* The form. *)

EditEnabled ==
    /\ Usable
    /\ page' = [page EXCEPT !.form.enabled = ~@, !.edited = @ \cup {"enabled"}]
    /\ UNCHANGED <<stored, load, save, previews, doubts>>

EditScope(custom) ==
    /\ Usable /\ custom # page.form.scope
    /\ page' = [page EXCEPT !.form.scope = custom, !.form.recipients = custom /\ @,
                           !.edited = @ \cup {"scope", "recipients"}]
    /\ UNCHANGED <<stored, load, save, previews, doubts>>

\* Lines that are no label with a value are left out at once.
EditRecipients(some) ==
    /\ Usable /\ page.form.scope
    /\ page' = [page EXCEPT !.form.recipients = some, !.edited = @ \cup {"recipients"}]
    /\ UNCHANGED <<stored, load, save, previews, doubts>>

\* handleSaveNotifications. The form stays open.
SendForm ==
    /\ Usable /\ save = None
    /\ save' = [stage |-> "sent", form |-> page.form]
    /\ UNCHANGED <<stored, page, load, previews, doubts>>

\* updateTenantNotificationSettings stores all fields, of a form that is sound,
Store ==
    /\ save # None /\ save.stage = "sent" /\ save.form \in Sound
    /\ stored' = save.form
    /\ save' = [save EXCEPT !.stage = "stored"]
    /\ UNCHANGED <<page, load, previews, doubts>>

\* and reads them again for its answer.
ReadBack ==
    /\ save # None /\ save.stage = "stored"
    /\ save' = [stage |-> "read", form |-> stored]
    /\ UNCHANGED <<stored, page, load, previews, doubts>>

\* The form is filled with the answer, over what was changed in it since.
AnswerSave ==
    /\ save # None /\ save.stage = "read"
    /\ page' = [page EXCEPT !.form = save.form, !.edited = {}]
    /\ save' = None
    /\ UNCHANGED <<stored, load, previews, doubts>>

\* It is refused, fails or its answer is lost, stored or not: nothing happens to the form. One that
\* is stored after that is as if saved elsewhere.
FailSave ==
    /\ save # None
    /\ save' = None
    /\ UNCHANGED <<stored, page, load, previews, doubts>>

\* Other pages save, and pages that are gone.
SaveElsewhere(other) ==
    /\ stored' = other
    /\ doubts' = doubts \cup {"somebody else saved"}
    /\ UNCHANGED <<page, load, save, previews>>

----------------------------------------------------------------------------
PageNext ==
    \/ Open \/ ReadSettings \/ FillForm \/ LoadLists \/ FinishLoad \/ FailLoad
    \/ \E site \in PreviewChoices : Select(site) \/ AnswerPreview(site)
    \/ RefreshPreview \/ SendForm \/ Store \/ ReadBack \/ AnswerSave \/ FailSave
    \/ EditEnabled
    \/ \E choice \in BOOLEAN : EditScope(choice) \/ EditRecipients(choice)
    \/ \E other \in Sound : SaveElsewhere(other)

PageSpec == PageInit /\ [][PageNext]_settingsVars

----------------------------------------------------------------------------
(* Properties. *)

\* Unless a save and a load of the same page crossed or others saved since it was loaded,
\* a form that can be saved differs from what is stored in the fields changed in it only,
\* so that saving all fields takes nothing back; and unless a refresh was overtaken or
\* failed, the preview shown at rest is the one for the site chosen (the effect that
\* loads the page, handleSaveNotifications, refreshNotificationPreview).
PageIsTrue ==
    /\ Usable /\ save = None
         /\ doubts \cap {"somebody else saved", "load and save crossed"} = {}
       => \A f \in Fields \ page.edited : page.form[f] = stored[f]
    /\ Usable /\ previews = NoPreviews
         /\ doubts \cap {"preview overtaken", "preview failed"} = {}
       => page.shown = page.site
=============================================================================

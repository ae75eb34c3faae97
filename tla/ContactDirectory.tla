------------------------- MODULE ContactDirectory -------------------------
(***************************************************************************)
(* The directory of notification contacts, the recipients that the         *)
(* settings fall back to, and whom both make the recipients of a           *)
(* compliance event. Contacts are updated as a whole, from what the        *)
(* request read before, and several may be at it.                          *)
(***************************************************************************)
EXTENDS Company, FiniteSets

CONSTANTS
    Contacts, Editors, Users,
    Numbers, Emails,
    Rows        \* what requests give of a contact

VARIABLES
    contacts,   \* the directory
    assigned,   \* the sites of each contact
    users,      \* the role of each user, whether they are active, their e-mail
    settings,   \* whom the settings fall back to, or None
    editing     \* the update that each editor's request has under way

contactVars == <<contacts, assigned, users, settings, editing>>

ContactRoles == {"TENANT_ADMIN", "SITE_SUPERVISOR", "CUSTOM"}

Contact == [role: ContactRoles, phone: Numbers \cup {None}, email: Emails \cup {None},
            active: BOOLEAN, user: Users \cup {None}]
User == [role: {"TENANT_ADMIN", "SITE_SUPERVISOR", "DRIVER"}, active: BOOLEAN,
         email: Emails \cup {None}]

\* A custom recipient as typed: it may be a number that cannot be brought into that form.
Spelling == [number: Numbers, valid: BOOLEAN]

Fallback == [scope: {"ALL_TENANT_OPERATIONS", "SITE_SUPERVISORS_ONLY", "CUSTOM"},
             custom: SUBSET Spelling]

\* Whom an event goes to, and where that comes from. The code has a list, which names one
\* custom recipient twice if the settings do: who is on it matters here, and how often to
\* the outbox, which sends once for each.
Recipients == SUBSET (Numbers \cup Emails \cup Users)
Shown == [recipients: Recipients, source: {"contact_directory", "legacy_settings", "none"}]

ASSUME ContactsAssumption ==
    /\ Rows \subseteq Contact
    /\ \A contact \in Contact : contact # None
    /\ \A recipients \in Recipients : recipients # None
    /\ \A shown \in Shown : shown # None

ContactsTypeOK ==
    /\ contacts \in [Contacts -> Contact \cup {None}]
    /\ assigned \in [Contacts -> SUBSET Sites]
    /\ users \in [Users -> User]
    /\ settings \in Fallback \cup {None}
    /\ editing \in [Editors -> [contact: Contacts, row: Contact] \cup {None}]
    /\ \A c \in Contacts : contacts[c] = None => assigned[c] = {}

ContactsInit ==
    /\ contacts = [c \in Contacts |-> None]
    /\ assigned = [c \in Contacts |-> {}]
    /\ users \in [Users -> User]
    /\ settings = None
    /\ editing = [e \in Editors |-> None]

----------------------------------------------------------------------------
(* Contacts. Each number, and each user, is in the directory once. *)

Fits(c, row) ==
    \A d \in Contacts \ {c} :
        contacts[d] # None =>
            /\ row.phone # None => contacts[d].phone # row.phone
            /\ row.user # None => contacts[d].user # row.user

Reachable(row) == row.phone # None \/ row.email # None

\* A number that cannot be brought into the form it is stored in is refused. A contact that
\* is a user has the user's role, if contacts can have it, and e-mail.
Create(c, given) ==
    LET u == given.user
        row == IF u = None THEN given
               ELSE [given EXCEPT
                       !.email = IF @ = None THEN users[u].email ELSE @,
                       !.role = IF users[u].role \in ContactRoles THEN users[u].role ELSE @]
    IN  /\ contacts[c] = None
        /\ Reachable(given) /\ Fits(c, row)
        /\ contacts' = [contacts EXCEPT ![c] = row]
        /\ UNCHANGED <<assigned, users, settings, editing>>

\* The request reads the contact and completes the fields given with what it read.
Completed(c, fields, given) ==
    [f \in DOMAIN given |-> IF f \in fields THEN given[f] ELSE contacts[c][f]]

\* Mutation: a channel may be taken away if the contact has another, given or not.
BeginUpdateEither(e, c, fields, given) ==
    /\ editing[e] = None /\ contacts[c] # None
    /\ Reachable(contacts[c]) \/ Reachable(given)
    /\ editing' = [editing EXCEPT ![e] = [contact |-> c, row |-> Completed(c, fields, given)]]
    /\ UNCHANGED <<contacts, assigned, users, settings>>

BeginUpdate(e, c, fields, given) ==
    /\ editing[e] = None /\ contacts[c] # None
    /\ Reachable(Completed(c, fields, given))
    /\ editing' = [editing EXCEPT ![e] = [contact |-> c, row |-> Completed(c, fields, given)]]
    /\ UNCHANGED <<contacts, assigned, users, settings>>

\* Then it writes all of them.
Write(e) ==
    /\ editing[e] # None
    /\ Fits(editing[e].contact, editing[e].row)
    /\ contacts' = [contacts EXCEPT ![editing[e].contact] = editing[e].row]
    /\ editing' = [editing EXCEPT ![e] = None]
    /\ UNCHANGED <<assigned, users, settings>>

\* The write fails, on a number or a user that is there already or anything else.
Fail(e) ==
    /\ editing[e] # None
    /\ editing' = [editing EXCEPT ![e] = None]
    /\ UNCHANGED <<contacts, assigned, users, settings>>

\* Mutation: the contact is not looked up.
AssignBlindly(c, site) ==
    /\ assigned' = [assigned EXCEPT ![c] = @ \cup {site}]
    /\ UNCHANGED <<contacts, users, settings, editing>>

Assign(c, site) ==
    /\ contacts[c] # None
    /\ assigned' = [assigned EXCEPT ![c] = @ \cup {site}]
    /\ UNCHANGED <<contacts, users, settings, editing>>

Unassign(c, site) ==
    /\ assigned' = [assigned EXCEPT ![c] = @ \ {site}]
    /\ UNCHANGED <<contacts, users, settings, editing>>

\* Custom recipients are stored as they are typed, and only with the scope for them.
UpdateSettings(fallback) ==
    /\ (fallback.scope = "CUSTOM") = (fallback.custom # {})
    /\ settings' = fallback
    /\ UNCHANGED <<contacts, assigned, users, editing>>

ChangeUser(u, user) ==
    /\ users' = [users EXCEPT ![u] = user]
    /\ UNCHANGED <<contacts, assigned, settings, editing>>

----------------------------------------------------------------------------
(* Whom an event of a site, or of none, goes to. *)

\* The contacts for it: all of them, if it has no site.
Meant(c, site) ==
    /\ contacts[c] # None /\ contacts[c].active
    /\ site # None =>
         \/ site \in assigned[c]
         \/ assigned[c] = {} /\ contacts[c].role # "SITE_SUPERVISOR"

\* Where a contact is reached: by phone if possible.
Destination(c) == IF contacts[c].phone # None THEN contacts[c].phone ELSE contacts[c].email

DirectoryRecipients(site) ==
    {Destination(c) : c \in {x \in Contacts : Meant(x, site)}} \ {None}

\* The recipients that the settings name, whatever the site; None when one of them cannot
\* be normalised, which fails the whole.
LegacyRecipients ==
    CASE settings.scope = "CUSTOM" ->
           IF \A typed \in settings.custom : typed.valid
           THEN {typed.number : typed \in settings.custom} ELSE None
      [] settings.scope = "SITE_SUPERVISORS_ONLY" ->
           {u \in Users : users[u].active /\ users[u].role = "SITE_SUPERVISOR"}
      [] OTHER -> {u \in Users : users[u].active}

\* Mutation: the dispatcher leaves out the ones that cannot be normalised.
ResolveSkipping(site) ==
    IF DirectoryRecipients(site) # {} THEN DirectoryRecipients(site)
    ELSE IF settings = None THEN {}
    ELSE IF LegacyRecipients = None
    THEN {typed.number : typed \in {t \in settings.custom : t.valid}}
    ELSE LegacyRecipients

\* What the dispatcher makes of it (resolveNotificationRecipientsFromDirectory)
Resolve(site) ==
    IF DirectoryRecipients(site) # {} THEN DirectoryRecipients(site)
    ELSE IF settings = None THEN {}
    ELSE LegacyRecipients

\* What the settings page is shown, and where it says that it comes from; None is an error
\* (previewNotificationRecipientResolution).
Preview(site) ==
    LET Answer(recipients, source) == [recipients |-> recipients, source |-> source]
    IN  IF DirectoryRecipients(site) # {}
        THEN Answer(DirectoryRecipients(site), "contact_directory")
        ELSE IF settings = None THEN Answer({}, "none")
        ELSE IF LegacyRecipients = None THEN None
        ELSE IF LegacyRecipients = {} THEN Answer({}, "none")
        ELSE Answer(LegacyRecipients, "legacy_settings")

----------------------------------------------------------------------------
ContactsNext ==
    \/ \E c \in Contacts :
          \/ \E given \in Rows :
                \/ Create(c, given)
                \/ \E e \in Editors, fields \in SUBSET DOMAIN given : BeginUpdate(e, c, fields, given)
          \/ \E site \in Sites : Assign(c, site) \/ Unassign(c, site)
    \/ \E e \in Editors : Write(e) \/ Fail(e)
    \/ \E fallback \in Fallback : UpdateSettings(fallback)
    \/ \E u \in Users, user \in User : ChangeUser(u, user)

ContactsSpec == ContactsInit /\ [][ContactsNext]_contactVars

----------------------------------------------------------------------------
(* Properties. *)

\* However updates overlap, each of which saw that a channel was left, no contact ends up
\* without any (updateContact writes the other channel back, as it read it).
AlwaysReachable == \A c \in Contacts : contacts[c] # None => Reachable(contacts[c])

\* What the settings page shows for a site, or for none, is what is sent to, with the
\* recipients that nobody else is left for, and it fails just when sending does
\* (resolveLegacyRecipients, which normalises again what the settings keep as typed).
PreviewIsSent ==
    \A site \in Sites \cup {None} :
        LET sent  == Resolve(site)
            shown == Preview(site)
        IN  IF None \in {sent, shown} THEN sent = shown ELSE shown.recipients = sent
=============================================================================

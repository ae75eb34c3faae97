# Fleet fuel platform: a verification project

TLA+ models of the fleet fuel platform (its API in `src/apps/api`, with the
pages of the driver app and the admin web that keep state of their own), the TLC
configurations that check them on small instances, and TLAPS proofs of what
holds on every instance. Paths below are relative to `src/`.

- [The system](#the-system)
- [Modules and runs](#modules-and-runs)
- [The notification outbox](#the-notification-outbox)
- [Contacts and recipients](#contacts-and-recipients)
- [The settings page](#the-settings-page)
- [Password resets](#password-resets)
- [The sites of users](#the-sites-of-users)
- [Drivers and their vehicles](#drivers-and-their-vehicles)
- [Daily checks](#daily-checks)
- [Fuel entries and their alerts](#fuel-entries-and-their-alerts)
- [Checks and compliance as dashboards show them](#checks-and-compliance-as-dashboards-show-them)
- [Importing a company](#importing-a-company)
- [The run of the areas](#the-run-of-the-areas)
- [Proofs](#proofs)
- [Where the code and what is said of it differ](#where-the-code-and-what-is-said-of-it-differ)
- [What is not modelled](#what-is-not-modelled)
- [What is left](#what-is-left)
- [Running it](#running-it)

## The system

A multi-tenant platform for fuel and vehicle operations: an Express API over
PostgreSQL (Prisma), a Next.js admin web, a driver PWA and a package of shared
schemas. The API process keeps no state of its own between requests; there is
no queue, no cron job and no background worker. Everything that happens,
happens inside some HTTP request, and requests interleave at every `await`.
Transactions run at PostgreSQL's default READ COMMITTED and the code takes no
explicit lock, so what a request has read may be stale by the time it writes.

| Component | State it keeps | Operations | Hard behaviour | What makes it correct |
|---|---|---|---|---|
| Notification outbox and dispatch (`notification-dispatch.service.ts`) | `NotificationOutbox`, `NotificationDelivery` | enqueue candidates, dispatch due rows, write log, write back | overlapping dispatches over an unclaimed snapshot, retries, partial failure, crash between send and write-back | bounded retries, log and outbox agree, no loss, no duplicates, disabling takes effect |
| Provider selection (`notification-dispatch.service.ts`, `config/env.ts`) | the environment | validate at boot, resolve, report | three functions of the same settings must agree | what is reported is what happens |
| Tenant notification settings (`tenant-settings.service.ts`) | one row of switches per tenant | read, update | edited while a batch runs, and from several pages | a saved form takes nothing back |
| Contact directory (`contact-directory.service.ts`) | contacts, their sites | create, update, assign, unassign, resolve, preview | updates written back as read; resolution may throw on stored data | everybody can be reached; the preview is what dispatch does |
| Password reset requests (`password-reset-requests.service.ts`) | `PasswordResetRequest` | ask, approve, reject, list | two reviewers, approval against change | decided once, approval forces a change |
| Sign-in and password change (`auth.service.ts`) | `User`, `UserAuth`, tokens at the client | sign in, change, ask for reset | checks and writes in different statements | a temporary password is never enough |
| Alerts engine (`alerts.service.ts`) | none, derived from checks, fuel, compliance | alert algorithms, site risk score, feeds the outbox | windows, baselines, two clocks, viewers' scopes | later entries change no alert, viewers agree, the list and the dashboard agree |
| Master data (`master-data.service.ts`) | users, sites, vehicles, tanks, drivers, assignments, accesses | create/update users, sites, vehicles, tanks; assign | several statements without a transaction; two projections of one fact | one driver per vehicle, one site per single-site role |
| Site scope (`data-scope.service.ts`, `scope-utils.service.ts`) | none, union of three tables | resolve at sign-in and per request | the three tables disagree after partial writes | nobody sees a site they were removed from |
| Platform support (`platform-support.service.ts`) | same as master data, in one transaction | update user, reset account | differs from master data in what it writes | same |
| Daily checklist (`daily-checklist.service.ts`) | one check per tenant, vehicle and date, items, status | open, submit | one row written by two drivers and staff, submit without a status guard | a submitted check stays submitted with all that was answered |
| Driver services (`driver.service.ts`) | none of its own | checks and fuel entries of a driver | two definitions of the latest reading, no idempotency | what is acknowledged is stored |
| Fuel (`fuel.service.ts`) | fuel entries | create, list | a repeated request is a second entry | repeats come from faults only, and show |
| Onboarding (`onboarding.service.ts`, `modules/onboarding/`) | import batch, stored file, created entities | upload, preview, commit | validation before the transaction, no status guard, codes in any capitals | nothing taken back, nothing lost in silence |
| Compliance (`compliance.service.ts`) | types and records | create, update types, list | three implementations of expiry | they agree at the boundary |
| Driver PWA | drafts in local storage, the page, the submission under way | edit, submit, sign in/out, leave | lost answers, a draft that outlives page, day and driver | nothing entered is lost |
| Admin web | the settings form and its preview | load, edit, save, preview | answers arrive out of order | the page shows what is stored |
| Tenant provisioning, profile (`platform-tenant.service.ts`, `tenant-profile.service.ts`) | tenants | create, update | – | – |
| Read side (`dashboard`, `lookup`, `system-status`, `operator-assistant` services) | none | queries | one thing read twice in one request, with writes in between | the two agree on what nobody changed |
| Routes and middleware | none | validate, delegate | tokens carry stale claims | guards modelled with the service they protect |

How they interact. A dashboard request asks the **alerts engine** for the
alerts in the viewer's **site scope**; if any is a compliance alert, the same
request hands the candidates to the **outbox**, which consults **notification
settings**, the **provider** and the **contact directory**, calls the provider
and writes the delivery log. **Sign-in** reads users, their auth row and their
site scope; managers' **resets** write users and auth; **password change**
completes reset requests. **Master data**, **support** and **onboarding** write
the users, assignments and projections the others read. The **driver app**
writes checks and fuel entries, which the alerts engine judges the next time a
dashboard is opened.

The full list of hazards, each with its line and the properties aimed at it, is
the `hazards` list of `PROJECT.json`.

## Modules and runs

| Module | Models | Extends |
|---|---|---|
| `NotificationProvider` | provider configuration as pure functions: boot validation, guard, resolution, report, possible answers | – |
| `ApiEnvironment` | deploying and booting the process | `NotificationProvider` |
| `NotificationOutbox` | the outbox, the pipelines of dashboard requests, faults | `NotificationProvider` |
| `NotificationPromise` | what the outbox promises, without pipelines | – (instantiated by `NotificationOutbox`) |
| `ContactDirectory` | contacts and their sites, overlapping updates, recipients and their preview | `Company` |
| `SettingsPage` | the notification form of the admin web, its loads, saves and previews | `Company` |
| `PasswordReset` | reset requests, direct resets, sign-in and password change of one tenant | – |
| `SiteAssignment` | users' roles and sites: master data, support, import, sign-in, scope | – |
| `VehicleAssignment` | users, driver records and the vehicle each has: master data, support, import | – |
| `DailyCheck` | daily checks, the staff who write them, the drivers' phones with drafts and submissions | – |
| `CheckPromise` | what daily checks promise, without phones | – (instantiated by `DailyCheck`) |
| `FuelAlerts` | the fuel alerts and the risk score as functions of the entries | `Company` |
| `FuelEntries` | fuel entries, the phones that send them, lost answers | `FuelAlerts` |
| `FleetStatus` | checks and compliance records as written, and as alerts, dashboard and list show them | `Company` |
| `OnboardingBatch` | upload, preview and commit of a workbook beside the company's own users | – |
| `Company` | sites, vehicles, and the scopes of viewers, which the parts share | – |
| `…Proofs` | proofs for any instance: of the outbox, resets, sites, vehicles, checks, fuel entries and the import | the module named |
| `AreasProofs` | the same of the environment, the contacts, fleet status and the settings page; and that the run of the areas runs its six parts | those four, and `MCAreas` |
| `MC…` | definitions for TLC's constants | the module named; `MCOutboxRecipients` and `MCOutboxLive` the outbox, `MCSiteOverlap` the sites, `MCAreas` several |

| Run | Instance | Shows |
|---|---|---|
| `outbox_serial` | one pipeline at a time; two alerts in one batch, or one with a list of two recipients | the outbox refines its promise; a list is gone through once per fault |
| `outbox_live` | two overlapping pipelines, or two alerts that take turns | retry budget, log and outbox agree, every open row settles |
| `outbox_duplicates` | two overlapping pipelines | **violated**: both send |
| `reset_clients` | two managers, two clients, two requests | a temporary password always forces a change; a request is decided twice only if two managers had it in hand |
| `reset_two_managers` | two managers, one request | **violated**: what is not pending is decided |
| `reset_lost_update` | a manager, a client | **violated**: a change undoes a reset |
| `sites_overlap` | two administrators; one beside support or the import | a site taken away stays away |
| `sites_form` | one administrator, the form | **violated**: saving a supervisor takes the site |
| `vehicles_overlap` | two administrators and support | a vehicle is shared only if contested |
| `checks_phones` | a phone, two drivers, staff, two days | what is acknowledged is stored; the checks refine their promise |
| `checks_draft` | a phone | **violated**: a draft is lost |
| `areas` | six parts beside each other | see [the run of the areas](#the-run-of-the-areas) |

## The notification outbox

### Provider and environment

`NotificationProvider` keeps of the environment the seven facts its functions
tell apart (which provider is asked for, whether delivery is enabled, whether
real sends are allowed outside production, whether the process is in
production, whether the phone number id and the token are set, and whether
`JWT_SECRET` is the placeholder). `Bootable` is the schema's `superRefine`,
`ResolveProvider`, `DeliveryMode` and `Readiness` are the functions of those
names. `SendResults` gives the statuses a provider may answer: the stub always
`STUBBED`; Meta `FAILED_PERMANENT` for an address that is not a phone number,
otherwise `SENT`, retryable or permanent failure.

`ApiEnvironment` boots only with a valid environment. Run `areas`
enumerates every reachable state: `ReadinessIsTruthful` relates the three functions
that are written separately in the code and shown to administrators or used to
dispatch; `ProductionDelivers` says that boot validation is strong enough for
production to be able to deliver.

### State and actions

`NotificationOutbox` is one tenant. `outbox` maps each idempotency key to its
row (`ABSENT` if none); `due` is `nextAttemptAt` minus now in ticks, so time is
relative and the state space stays finite. `deliveries` is the delivery log as
a set (ids and timestamps left out). The rest is local to the requests: `pc`
says at which `await` a pipeline stands, `intake` what it is about to create,
`batch` what is left of its snapshot, `via`, `todo`, `entry` and `results` the
locals of the row it is on. `accepted`, `sentWhileOff` and `faults` observe and
influence nothing but their bound.

| Action | Code |
|---|---|
| `StartPipeline` | `getDashboardAlerts` maps the compliance alerts in the viewer's scope to candidates; `enqueueComplianceNotificationCandidates` reads the settings and gives each row its initial status |
| `CreateRows` | `createMany` with `skipDuplicates` |
| `Scan` | the `findMany` of `dispatchPendingNotifications`: due and open, most overdue first, up to the limit; no lock, no claim |
| `CheckPolicy` | per row: the two master switches and the provider; a skip goes straight to the log |
| `ResolveRecipients` | the contact directory or the custom recipients, as any list of destinations |
| `Send` | one `sendMessage`; the answer may be lost (`FAILED_RETRYABLE` though the message was taken) |
| `WriteDeliveryLog` | one row of the log per result |
| `MarkOutbox` | the status from all results, the attempt number from the *snapshot*, the retry time, written by id |
| `Throw` | an exception anywhere in the pipeline, caught and dropped by the dashboard |
| `Restart` | the process dies with every pipeline in it, perhaps to come back with another configuration |
| `UpdateSettings` | an administrator edits the settings |
| `Tick` | time |

The loop over recipients takes them in any order, which covers the order the
directory returns; so of a list only how often it names each destination matters
(`todo`, a bag of at most `MaxNamed` of each). Contacts are listed once, but custom
recipients as they were typed: two that come to the same number are two elements,
nothing removes the second (`contact-directory.service.ts:346-358`), and each is
sent to (`notification-dispatch.service.ts:562`). Rows that tie in the scan order are taken either way.

### Runs

| Run | Instance | Shows |
|---|---|---|
| `outbox_serial` | 1 request at a time, 2 attempts, 1 fault: 2 alerts in one batch of 2 with 1 phone and notifications on or off; or 1 alert with a list of 2 out of 2 phones and an e-mail address, perhaps the same twice, 4 policies, 3 deployments | the outbox refines `NotificationPromise` (each alert registered once, each attempt counted once, outcomes final); a list is sent through once, and once more per fault (`OneListPerFault`); what was accepted is logged; switching off stops the batch; nothing of one row leaks into the next |
| `outbox_live` | 1 recipient, 2 attempts, 1 fault, settings on/off, batches of 1: 2 requests and 1 alert, or 1 request and 2 alerts | what survives overlap: retry budget, agreement of outbox and log, idempotent enqueueing; every open row settles, although stale counts overwrite newer ones and a row may have to wait for the batch |
| `outbox_duplicates` | 2 requests, 1 alert, 1 recipient | **violated**: both pipelines send |

`MCOutboxRecipients` puts the two serial instances into one run: `reach`, chosen
to begin with, says how often a list may name each recipient, and two names mean the
second instance. `MCOutboxLive` does so by `active`, the requests that are ever made.
In `outbox_live` the settings change while no pipeline runs
(`QuietChange`); `outbox_serial` changes them at any time.

Bounds. Two requests are enough for every kind of overlap the properties speak
of: a property of a row is threatened by one writer being stale with respect to
another. Two alerts and a batch limit of one or two make rows compete for the
batch and let the settings change between rows. Two attempts give a first, a
last and an exhausted row; the length of the back-off changes when a row is
retried and not whether.
One fault meets every stage, and `OneListPerFault` counts against it. `MaxLate`
only merges lateness beyond one tick, which changes the order of a scan and
nothing else. `BatchLimit` is a parameter in the code (20 by default).

Fairness (`FairSpec`). Weak fairness of each pipeline's own steps (an `await`
returns or throws), of the clock, and of `Start`: dashboards that show at least
one compliance alert keep being opened. The last is a real assumption, and the
code's only scheduler: a tenant whose dashboard nobody opens, or whose alerts
have gone, keeps its open rows for ever. Any single set of candidates will do:
the dispatch that follows takes all due rows of the tenant. `Throw`, `Restart`
and `UpdateSettings` are never forced; faults are bounded by `MaxFaults`,
because a pipeline that throws for ever never drains anything.

## Contacts and recipients

`ContactDirectory` keeps the directory (`contacts`, `assigned`), what it takes
over from `users`, the `settings` that recipients fall back to, and the update
each request has under way (`editing`). An update is two steps, because the code
reads the contact, completes what the request gives with what it read, checks,
and then writes all fields by id (`BeginUpdate`, `Write`). The unique indexes are
`Fits`. A custom recipient is stored as typed; whether it can be brought into the
form of a number is decided when it is used, which is where the code throws.

- `AlwaysReachable`: two updates may each take away the channel that the other
  saw left. What saves the contact is that every update writes *both* channels
  back; a version of `updateContact` that writes only what it was given, a
  natural improvement, would break it.
- `PreviewIsSent`: the preview and the dispatch resolve recipients in two
  functions with fall-backs of their own. They give the same recipients for
  every site, and fail on the same stored data.

Only the two compliance events exist, so the branch of the preview for other
events cannot be reached and is left out. An event without a site goes to all
contacts, whatever their sites; nothing says that it should not.

## The settings page

`SettingsPage` is one browser page (`page`), the load and the save it may have
under way, the refreshes of the preview, and what the server has `stored`. The
effect that loads the page depends on the event and the site chosen for the
preview, so choosing one loads everything again and fills the form anew:
`Select` is `load' = Asked`, and what was edited is gone with `FillForm`. A
save sends all fields, stores them and reads them again for its answer; a lost
answer leaves the form as it is.

`PageIsTrue` says when that is harmless: unless a save and a load of the page
crossed, or somebody else saved, the fields of a form that were not edited are
those stored, so that saving all of them takes nothing back; and unless a
refresh was overtaken or failed, the preview at rest is that of the site chosen.
`doubts` observes exactly these exceptions, and each is real: a load that read
before a save committed can put the old values back into the form after "saved",
a refresh answered late overwrites the preview of another site, and a failed
preview leaves the old one in place. The preview is not refreshed after a save
either.

## Password resets

`PasswordReset` is one tenant's accounts (`password`, `force`, `active`), the
`requests`, and what each manager's review and each client's sign-in or
password change has read but not yet acted on. Passwords are values: `Temps`,
each handed out once, and `Chosen`.

Approval, rejection and password change are modelled in two steps, what was
read and checked (`Begin…`) and what is written (`Commit…`), because the code
checks with a plain SELECT and updates by id. The writes of one transaction are
one step: every transaction that touches an account begins by updating the
`users` row, whose row lock orders them. Sign-in is two steps because password
and flag are read by two queries. A token carries the flag it was issued with
(`Session.force`), `via` remembers the password it was opened with. A direct
reset (by a manager, or by platform support) reads nothing it depends on and is
one step. `GiveUp` is a failure between the two steps, `Expire` the expiry of a
token.

| Run | Instance | Shows |
|---|---|---|
| `reset_clients` | 1 account, 2 identifiers (one names nobody), 2 requests, 2 managers, 2 clients, 2 temporary passwords | an `APPROVED` request always has its account forced to change, however reviews and changes overlap; a temporary password always forces a change; a session opened with one is unrestricted only once it is gone, although sign-in reads flag and hash at different times; a request that no two managers had in hand together is decided once (`DecidedOnce`), one that two had is never open again |
| `reset_two_managers` | 2 managers, 1 request | **violated**: a request is approved or rejected that is not pending |
| `reset_lost_update` | 1 manager, 1 client | **violated**: a change verified before a reset lowers the flag the reset raised |

`shared` observes the requests that two reviews have had in hand together and
influences nothing: `DecidedOnce` says that the overlap of two reviews is the only
way in which a request is decided twice, and that even then a decided request does
not become open, and is completed only after an approval.

Bounds. Two managers, two clients and two temporary passwords give every overlap
of two reviews, of a review or a direct reset with a sign-in or a change, and of two
clients; one session at a time (`OneSession`), since it is asked for nothing but its
existence. The proofs hold for any number of each. One account is enough: no property relates two, and the only link between accounts
is the identifier, which may name nobody or an account deactivated meanwhile.
There is nothing to prove about progress: every step waits for a person.

## The sites of users

`SiteAssignment` is one tenant's users: their `role` and the three tables their
sites are spread over, `assignment` (`user_site_assignments`), `access`
(`user_site_access`) and `legacy` (`supervisor_sites`). Sign-in adds up the rows
of the three (`SiteRows`, `SignInAllowed`), `resolveDataScope` takes their union
(`Scope`).

Administrators rewrite the first two tables with one statement after another
and no transaction, so each statement is an action and `edit` says which one is
next and with what it was called. Support replaces both tables in one
transaction: `BeginSupport` reads and fills in what the request left out,
`DeleteOld` takes the lock on the `users` row and fixes the rows the deletes
see, `CommitSupport` makes the transaction visible. The locks that matter are
the row lock on `users` (`Locked`) and the unique index, where inserting a row
waits for the transaction that has deleted it (`MayInsert`). A delete that meets
rows of an uncommitted transaction is not made to wait: it leaves the same rows
before the commit and after it.

| Action | Code |
|---|---|
| `CreateUser` | `createMasterDriver` up to the user row; the sites follow by role |
| `BeginUpdate`, `WriteRole` | `updateMasterDriver`: reads and checks, then the write of the `users` row |
| `SingleUnassign`, `SingleRevoke`, `Insert` | `setSingleSiteAssignment`: two deletes, then two inserts at once, in either order, either of which may meet a row that exists |
| `MultiRevoke`, `MultiGrant`, `MultiUnassign`, `MultiAssign` | `setMultiSiteAccess` |
| `BeginSupport`, `DeleteOld`, `CommitSupport`, `RollBack` | `updateSupportTenantUser` |
| `ImportSupervisorSite` | the onboarding commit, as far as supervisor sites go |
| `Throw` | a statement fails or the process dies; nothing is undone |

`asked` and `broken` only observe. `asked` holds, per user, what each edit would
leave on its own, forgotten when an edit begins with no other in flight. A
failing edit adds the rows it leaves behind: partial writes are excused, the
question is which sites survive that nobody asked for or left.

| Run | Instance | Shows |
|---|---|---|
| `sites_overlap` | 1 user, 2 sites: 2 administrators, or 1 beside a support request or imported sites | a site taken away stays away; of overlapping edits by administrators one gets its way in full; a user whom every edit gives a site keeps one |
| `sites_form` | 1 administrator who sends what the drivers page sends | **violated**: saving a supervisor leaves the supervisor without a site |

`MCSiteOverlap` chooses who is `beside` the administrator to begin with.
`SomeEditWins` is a property of administrators among themselves, and in the run is
asked of them alone (`SomeAdministratorWins`). With support it is false, and nothing in the repository says otherwise: an administrator's
two tables and a transaction that replaces both can each end with half of their
way, and what holds is the weaker `NotLeftWithout`.

`OneSiteSignsIn` says of sign-in what its refusal message says, "This role must
be assigned to exactly one site before sign in." (`auth.service.ts:85`). It has
no run of its own: put in the place of `SupervisorHasSite` in `sites_form.cfg`,
TLC refutes it in five steps, since `setSingleSiteAssignment` writes the one
site to two tables and sign-in counts rows. Users whom support or the import
gave their only site do sign in, and a test removes the second row by hand
(`password-reset-flow.test.ts:161`).

Bounds. One user is enough, since no statement touches two. Two sites tell the
old from the new and one from many; two writers give every overlap of two
sequences of statements, and the proofs of all three properties remove the bound.
The passing runs leave the role out of updates (`SitesOnly`): the role decides
what an administrator may ask for and nothing about the statements that follow;
`sites_form` changes roles too. There is no progress to state: nothing retries.

## Drivers and their vehicles

A driver exists twice: as a row of `users`, which people edit, and as a row of
`drivers`, which holds the vehicle. No key relates the two, only a username or an
employee number they have in common. `VehicleAssignment` keeps both (`user`,
`record`), what is left of each administrator's request (`edit`) and what each
support request has read (`support`).

| Action | Code |
|---|---|
| `CreateUser`, `BeginUpdate`, `WriteUser` | `createMasterDriver`, `updateMasterDriver` up to the user row |
| `EnsureRecord`, `SyncRecord` | `ensureDriverProjection` and the update that renames the record |
| `FindRecord`, `Clear`, `SetVehicle` | `setDriverVehicleAssignment`: the record is searched anew, the vehicle taken from all that have it, and given |
| `AssignVehicle`, `Clear`, `PickDriver`, `SetVehicle` | `createMasterVehicle`, `updateMasterVehicle`: the vehicle is taken before anybody looks whether the user is a driver |
| `BeginSupport`, `CommitSupport`, `RollBack` | `updateSupportTenantUser`: what is left out is filled in from what was read before the transaction |
| `ImportUser` | the onboarding commit, which writes users only |
| `Fail` | a statement fails or the process dies; nothing is undone |

`contested` observes the vehicles somebody gave away while another request stood
between taking them from everybody and giving them, or that support gave: support
does not take a vehicle from its other holders. `SharedOnlyIfContested` says that
a vehicle has two holders in no other case, however users are renamed, demoted,
given each other's numbers or imported, and wherever a request fails. It
excuses these two and so catches neither: a vehicle has two drivers after an overlap or
a gift by support. What it shows is that a constraint in the schema would have nothing
else to forbid.

Run `vehicles_overlap`: two users, one vehicle, two names, one number, at most
two records; requests that overlap with the rows that make a record be found by
two users (`TwoRows`), or one administrator at a time with all rows, beside one
support request (`overlap` says which). The proof removes the bounds.

Met while modelling and not against any property: a demoted driver keeps the
vehicle; a rename by the import orphans the record; a vehicle is taken from
everybody by a request that is then refused (`master-data.service.ts:1018`).

## Daily checks

`DailyCheck` keeps the rows of the API (`check`, by vehicle and date), and of each
`phone` who is signed in, whether the page is open and what it holds, the draft
in local storage, and the submission under way (`call`). A check is reduced to
its status, its driver, who created it and the set of items answered; what an
item was answered with is left out, only that it was.

| Action | Code |
|---|---|
| `LoadPage`, `FailToLoad` | `loadChecklist`: a draft is restored, whoever's it is and whatever its age; a failed load empties the page, and the effect that saves the draft removes it |
| `Answer`, `MarkAll`, `ClearAll`, `AttachPhoto`, `ChooseVehicle` | the form; `Edited` is the effect that saves the draft |
| `Press` | `onSubmit` up to its first request |
| `Upload`, `Create`, `Submit`, `Refresh` | the requests of a submission, each with what the API does and what the page makes of the answer |
| `FailCall` | a request or its answer is lost: nothing is undone, the driver presses again |
| `SignOut`, `Leave`, `Close` | the page goes; a submission goes on without it, or with the browser closed only its request in flight |
| `StaffOpen`, `StaffSubmit` | the same two services through the staff routes |

- `AckedIsStored`: when a page is told its check is submitted, the check has every
  answer sent and every required one, whoever else opened or submitted it.
- `KeepsPromise`: the rows refine `CheckPromise`: one check per vehicle and day,
  opened, submitted, never un-submitted, and no answer ever withdrawn. That the
  same check is created again, by the retry of a submission whose answer was lost
  or by another driver, undoes nothing.
- `AnswersKept` is **violated** in `checks_draft`, see below.

Run `checks_phones` has one phone: of another, the row sees only openings by a
driver and submissions of items, which staff do in every order and with every
set of items; what they cannot imitate, that the submission of one phone meets
the answer of the other, is in the proofs for any number of phones. It is two
instances in one (`overnight`): one vehicle over two days, or two vehicles with
photos on one day.

Met while modelling: an uploaded photo makes every submission fail, since the
upload returns a path and the schema wants a URL (`Valid`), also on every retry;
answers changed during a submission are dropped when it succeeds; a submission
that outlives its page removes the draft of the page opened since; an item
without a place in the paper layout is never shown, whether required or not,
although the comment at line 591 of the page says otherwise; opening a check
makes the opener its driver even if it is submitted, and when a third user opens
it too, the submission of the second is refused (`Finds`).

## Fuel entries and their alerts

`FuelAlerts` computes the alerts of an entry from the log, as
`getTenantDashboardAlerts` does: the entry's own (receipt, odometer, source,
litres) and those against the series of its vehicle (too soon, litres for the
distance, deviation from the baseline, risk). Percentages of averages are
compared as integers, with both sides multiplied out; the thresholds are the
code's. `FuelEntries` adds the server, which appends every request to the `log`,
and the phones: `draft` on the page, `stored` in local storage, and the `call` the
page waits for. `home` is the site of each vehicle, `checked` the reading of its
latest check. `origin` observes which draft an entry was made from, `seen` how long
the log was when its reading was looked up.

| Action | Code |
|---|---|
| `OpenForm`, `Edit` | the page with its draft, which the fields change also while a request is under way |
| `Submit` | `onSubmit` up to its first request; all the page asks is that it waits for none, so after an error, or opened anew, it sends while the server may still be at what it sent before (`Calls`) |
| `LookUp`, `Keep` | `createDriverFuelEntry`: the fallback reading is read, and in another statement the entry is created; entries, by staff and by other requests, come in between |
| `Refuse`, `Finish` | a request that is refused, or comes to its end with no page waiting; then the page that was left still removes whatever draft is stored |
| `Answer`, `Refresh`, `FailRefresh`, `Lose` | what the page makes of the answer, of the vehicles it reads next, and of either failing |
| `CreateByStaff`, `CheckReading`, `Move` | what others write |


- `RepeatsNeedFaults`: nothing in the API recognises a request it has seen, so a
  fueling is entered once per attempt. The page limits attempts: there are more
  entries than fuelings only for answers that were lost, refreshes that failed
  after the entry was kept, and pages left while sending.
- `RepeatIsFlagged`: an entry that is there again, with nothing of the vehicle
  in between, is reported, by its time or by its distance. By its distance needs
  both to have the same reading (`SameBasis`): typed, or filled in from the same
  entries. The reading is looked up before the entry is created, so an entry
  that is created in between leaves a repeat that comes late with another reading,
  or with none, and nobody is told. The property pins that down as the only way.
- `AlertsSettle`: the alerts of an entry are those it had when it was created,
  whatever is entered later, and for whichever date. The engine looks back and
  cuts the history off at the entry itself (`historyUntilCurrent`, `Series`).

The previous reading of the vehicle list is that of the entry or check *created*
last, the fallback filled in by the server is that of the entry *dated* last and
knows nothing of checks: `Previous` and `FallbackReading` differ as the code's do.
A form with an uploaded receipt is always refused (`Acceptable`, `Refuse`): the
upload returns a path and the schema asks for a URL, although the receipt flow of
`docs/ui-flows.md` ends with its attachment.

## Checks and compliance as dashboards show them

`FleetStatus` keeps checks, compliance types and records, vehicles and drivers
with the sites they were seen at, and a clock in hours; its operators are three
programs over the same data: the alerts (`Alerts`), the dashboard's numbers
(`Counted`, `FromAlerts`) and the list of records (`ListedRecords`). Each filters by
the viewer's scope on its own and each has its own idea of the date.

`dashboard` is the request for a dashboard that is under way. The code reads its own
numbers first, in one `Promise.all`, and then asks for the alerts, which read the
same tables again. Each read of vehicles and of submitted checks is an action
(`AskDashboard`, `ReadActive`, `ReadSubmitted`, `AskAlerts`, `AnswerDashboard`), and
checks, vehicles and the clock change between any two. `disturbed` observes the
vehicles that changed meanwhile, or whose check went to another site.

- `ComplianceAgrees`: alerts and list agree, for every viewer, on what has
  expired and what is about to, at the day of expiry and the end of the window.
- `DashboardAgrees`: the number of missing checks and the alerts shown beside it
  come from different moments, so they may differ. They differ by no more than what
  happened: of the vehicles nobody disturbed, the alerts name only such as were
  counted, and those that were counted and not named have their check submitted by
  then. It holds over midnight and over the cutoff because the date the alerts are
  asked for is the one that was counted.
- `RestrictedSeesLess`: a viewer of some sites sees nothing that a viewer of the
  company does not, but for checks of their vehicles filed at a site they do not
  see, which they are told are missing.
- `MissingStays`: a missing check stays missing until it or its vehicle changes,
  with one exception: the cutoff compares an hour of the server's clock with a date
  in UTC, so a check of a day that is not over in UTC is no longer missing when the
  server's own day ends. East or west of Greenwich this comes once a day. Nothing
  fixes the server's time zone, and `Offset` may be any integer.

## Importing a company

`OnboardingBatch` is one batch: the workbook on disk and the row of the batch
(two steps of the upload), previews and commits in flight, and the data of the
company, which its own users change meanwhile. Workbooks are sequences of rows
whose codes may differ from the company's in capitals only, since validation
compares in lower case, the unique indexes as typed, and the commit looks codes
up in lower case. A commit reads and validates (`Read`), then writes everything in
one transaction that looks at neither file nor data again (`Commit`).

- `KeepsAccounts`: the status of a batch is never looked at, and the commit
  upserts. Still a workbook committed again takes no password back from employee
  numbers whose users have chosen their own, because validation refuses numbers that
  exist; only a number given to somebody between validation and transaction is
  overwritten.
- `StoredWhole`: rows whose site or employee is not found are passed over in
  silence, or stored without a site. To the rows of a validated workbook about
  vehicles, cards, equipment, tanks, credentials and supervisors' sites that happens
  only if the company changed a code they refer to in between, or took the role from
  the supervisor, or if two employees have numbers that differ in capitals only and
  one is no supervisor. What was there when the file was validated (`seen`,
  `supervisors`) is part of the state, so that "in between" can be said.

Not against any property: the site and the phone of a workbook's drivers are
validated and never stored (`commit.ts:43-99`); a temporary password is made of the number in lower case, though the
preview says `Employee_No` and "!Temp"; of two rows for one tank the last
wins; supervisor sites of an import are never removed (`commit.ts:239`); a batch
can be previewed after it was committed and then is no longer `COMMITTED`
(`onboarding.service.ts:116`).

## The run of the areas

Six parts share no state with each other: the environment, the contacts, the
settings page, fuel entries, checks and compliance, and the import. `MCAreas`
checks them in one run. `area`, chosen to begin with, says which of them moves;
the variables of the others stay as they began, so the states are the *sum* of
the six state spaces and not their product, and each property is checked in its
own part. The bounds, each named in `MCAreas`:

- environment: none, all configurations.
- contacts (`ContactsBounded`): two contacts, two overlapping updates, one user,
  one number, one address; updates overlap at one contact, where the hazard is,
  and settings are for a directory at rest. The second contact and the second
  editor, being like the first, begin after them.
- fuel (`FuelBounded`): one vehicle with no history or with the four entries a
  baseline needs, one phone, one fault, and an entry of staff where there is a
  history. Two areas: one request at a time, with two forms, checks before entries
  and back-dated drafts only with the fallback; or two requests (`Calls`) of one form
  that is the fallback's, which overlap each other and the entry of staff. A day has
  three instants, and the run reaches from the histories of the day before into the
  next (`MaxClock`). There are no sites, since a viewer of everything is told the same
  wherever an entry is.
- status (`StatusNext`): one vehicle, one driver, two sites, days of three hours
  with the server one hour east, a cutoff after one hour, windows of one and two
  days, so that each boundary is crossed within two days. Master data and records
  change in the first hour where compliance types are there. A dashboard is read
  without compliance types, from the last hour of the first day to the first of the
  second, so that midnight, the cutoff and submissions fall between its reads.
- import (`ImportBounded`): three areas: a workbook with a row of every kind and one
  with a site twice, beside administrators; a workbook that *refers* to a site and
  a supervisor the company must have, beside administrators who give these other
  codes or another role while it is committed; or any of them in two requests that
  overlap, without administrators.
- page (`PageBounded`): one site and none, one refresh per site; nothing is saved
  while a preview is refreshed, and no more than one doubt is raised.

`MCAreas` extends the modules of the six parts, so what the run checks are the very
definitions that the proofs are about: each part moves by its own next-state
relation, and only the bounds come on top.

## Proofs

All theorems hold for every value of the constants that satisfies the
assumptions of their modules (`ConstantsAssumption`, `AccountsAssumption`,
`SitesAssumption` and `PayloadsAssumption`, `ContactsAssumption`,
`StatusAssumption`, `CheckAssumption`, `FleetAssumption` and `RowsAssumption`), or,
for the import, the settings page and the fuel entries, the `ImportConstantsFit`,
`PageConstantsFit` and `FuelConstantsFit` that a theorem names as its hypothesis and
that TLC evaluates in `MCAreas`: any number of alerts, recipients, overlapping
requests, accounts, managers, clients, sites, vehicles, phones, drivers, administrators and support requests,
any attempt limit, any length of a day, any workbooks, any log to begin with.
Nothing else is assumed but where a theorem says so. `SomeEditAlwaysWins` needs support to
stay away; the theorems whose names begin with `Serial` are about one actor at a time; and
those that say [where the refuted claims do hold](#where-the-refuted-claims-do-hold) state
the condition in their hypothesis or in the next-state relation, as in
`Init /\ [][Next /\ SnapshotsApart]_vars => ...`. The assumptions say that placeholders such as `None` are not among
the values, that limits are natural numbers, that codes in lower case are codes, that
phones and calls are finitely many where entries are counted and that a process runs
only with an environment that boots.

`NotificationOutboxProofs`

| Theorem | Inductive invariant, and why it is needed |
|---|---|
| `TypeCorrect`, `StagesSound` | `TypeInv == TypeOK /\ StageOK`. Neither is inductive alone: the row under work is the head of a batch that must not be empty, and a row that reaches a send must have a provider |
| `RetriesBounded` | `RetryInv` adds that every *snapshot* in flight carries an attempt count below the limit, since the write-back uses the snapshot's count and not the row's |
| `OutboxJustified` | `LogInv` adds that every result a pipeline holds for its row is already in the log under that pipeline's attempt number; with it, `MarkOutbox` finds the evidence for what it writes |
| `DisableHonoured` | `OffInv`: while notifications are off, a pipeline that has passed the policy check has sent for no row but its current one, and one that has not passed it has nothing more to send |
| `AcceptedRecorded` | inductive over `TypeInv`: an accepted message is in flight in its pipeline's `entry` until the log takes it |
| `RowsBornOnce` | an action property from `TypeInv`, one step per action |
| `RowsApartKeepPromise` | the refinement of `NotificationPromise`, for any number of pipelines of which no two hold the same row (`SnapshotsApart`): `SerialInv` says that every snapshot is *fresh*, that is each row of it still has the status and the count that the scan saw, and no row occurs twice. So the count written back is the row's own plus one and a settled row is never written again. A snapshot that shares a row goes stale at the other's write, which is what `outbox_duplicates` shows |
| `RowsApartListOncePerFault`, `RowsApartSendOnce` | `SendInv`: each fault excuses a whole list (`Excused`), that is `MaxNamed` messages to a recipient. Of a recipient with more than that (`Account`) either the row is settled, or a pipeline is on it that knows of a delivery, so that it will settle the row (`CommittedBy`), and what has been sent and what its list still has come to one list more. `RowsApartSendOnce` is the case of `MaxNamed = 1` and no fault |
| `SerialKeepsPromise`, `SerialListsOncePerFault` | corollaries, since one pipeline shares no row |
| `SettledStaysQuiet` | for every overlap: `Quiet(k)`, the row is settled and in no snapshot, is stable because a scan takes open rows and a snapshot is only ever walked to its end. Whatever is done twice is done with snapshots from before the row was settled |

`PasswordResetProofs`

| Theorem | Inductive invariant, and why it is needed |
|---|---|
| `ResetTypeCorrect` | `TypeInv == TypeOK /\ ShapeOK`: a transaction between its two steps holds an account, a request and a password |
| `ApprovalsAwaitChange` | inductive over `TypeInv`: every writer that lowers the flag completes the approved requests of the account in the same step |
| `TempPasswordsForced` | inductive over `TypeInv`: every writer of a temporary password raises the flag, and a change that leaves one behind puts it in `kept` |
| `RestrictedUntilChanged` | needs `Fresh`: a temporary password about to be written has been generated (`spent`) but is seen in no account and no session, and no two reviews hold the same one; so a password that has gone never comes back |
| `RequestsDecidedOnce`, `ReviewsApartDecidePending` | `ReviewInv`: a request that a manager has in hand has been made, and unless two have had it in hand together (`shared`) it is still PENDING and in no other hand. While no two managers review the same request (`ReviewsApart`) none is ever shared |
| `UndisturbedChangesVerify` | `Verified`: while a change is between its check and its writes, the password that was checked is the account's. `ChangesUndisturbed` says only that nobody else writes the password of that account meanwhile |

`SiteAssignmentProofs`

| Theorem | Inductive invariant, and why it is needed |
|---|---|
| `SitesTypeCorrect` | `TypeInv == TypeOK /\ ShapeOK`: a request that has come as far as a statement has what the statement writes |
| `RemovedSitesStayAway` | `CoverInv`: while edits are in flight the tables do hold sites nobody asked for, but then each such table is *covered*: some edit still has to empty it and cannot end without doing so or failing, or some transaction has yet to delete or has deleted the rows in question. `EditAsked` and `SupportAsked` say that what is about to be written was asked for; a single site that the same request is going to replace by a list is the exception, which is why the edit that writes it must still cover the table afterwards. Each step of an edit then owes every user and table one of three things (`KeepsAccess`, `KeepsAssignment`) |
| `SomeEditAlwaysWins` | for administrators without support among them: `OutcomeInv`, of which `Wins` says that a user's access rows hold all the sites of one of the requests, or some request still owes the user access (`OwesAccess`) and cannot end without granting it or failing. Whoever empties the table is such a request from then on, so the last to do so is the one that wins |
| `NobodyLeftWithout` | the same `OutcomeInv`, for administrators and support: `KeepsSome` is `NotLeftWithout` itself, but to carry it through a request's last step it must be known that what the request writes is what it asked for (`EditWanted`, `SupportWanted`), and that an edit one of whose inserts was refused has its user among the broken |
| `SupervisorsKeepSite` | `SupervisorInv`, for one administrator: a user who is a supervisor was last given a site, or an edit that names sites is about to take the role away. The role is written first and the sites after it, so between the two a user may be a supervisor of sites to come; the clause about an edit that is about to write the role carries this across |

`VehicleAssignmentProofs`

| Theorem | Inductive invariant, and why it is needed |
|---|---|
| `FleetTypeCorrect` | with `Sound`: a request that has come as far as a statement has the user, record and vehicle the statement needs |
| `NeverSharedUncontested` | `Settled`: a vehicle that nobody contested has at most one holder, at most one request about to give it and, while one is, no holder. One holder alone is not inductive: it is the taking from everybody that makes the giving safe, and only until somebody else gives |
| `SerialNeverShares` | with one administrator and no support nothing is ever contested (`NothingContested`): a vehicle is contested only by taking it while another request is about to give it, and an update that fails in between leaves it with nobody |

`DailyCheckProofs`

| Theorem | Inductive invariant, and why it is needed |
|---|---|
| `ChecksTypeCorrect`, `AckedAlwaysStored` | `AckedIsStored` with `Sound`: an open page has a driver and content, and a submission under way still carries every required item shown, which was checked when the button was pressed |
| `ChecksKeepPromise` | the refinement: every step of a phone or of staff opens a check, submits one or leaves the rows' status and items alone, since opening again changes the driver only |
| `AnswersKeptWhileWaiting` | `Faithful`: the page that is open shows just what its draft holds, a page that is closed holds nothing, and the draft is part of what is being sent. Each clause fails by one of the things the hypotheses exclude: a page that does not load, an item that has no place on it, an edit during a submission |

`AreasProofs`

| Theorem | Argument |
|---|---|
| `UpIsBootable`, `ReadinessTruthful`, `ProductionCanDeliver` | by cases of the three functions of the environment, over any configuration |
| `ContactsTypeCorrect` | inductive by itself |
| `ContactsStayReachable` | every row that an update is about to write is reachable too: it was completed and checked together |
| `PreviewsAreSent` | no induction: from the definitions, for every state of the types |
| `StatusTypeCorrect` | inductive by itself |
| `ComplianceAlwaysAgrees` | separately written filters are shown equal for every viewer and day, from types only |
| `DashboardAlwaysAgrees` | `DashboardInv`: what has been read of a vehicle nobody disturbed holds as long as the dashboard is under way, since a submitted check stays submitted; and what is counted was read, for the date of the alerts, before they were asked for. So what the alerts read as submitted includes what the count did |
| `RestrictedAlwaysSeesLess` | each alert of a restricted viewer is one of the company's; counts (repeated issues, frequent skips) need that the set counted only grows with the scope and is finite |
| `MissingAlwaysStays` | lemmas about quotient and remainder, for any integers: the hour of the server grows within its own day, wherever that day begins, so a cutoff that has passed has passed until the server's day ends, or for good if the date is over in UTC |
| `PageTypeCorrect`, `PageStaysTrue` | `FormTrusted`: unless one of the two doubts about the form was raised, a load and a save are never under way together, a load that has read still holds what is stored, and what a save sends agrees with the page wherever it was not edited. `PreviewTrusted`: unless one of the two about the preview was raised, refreshes under way are all for the site chosen. What is under way is not visible in `PageIsTrue`, and it is what will be shown next |
| `AreasAreParts`, `AreasTypeCorrect` | each step of `MCNext` is a step of one part and leaves the variables of the others alone, so a run of `MCSpec` is a run of each of the six. What the modules prove holds of the run therefore, and a bound of the run can hide behaviours but add none |

`OnboardingBatchProofs`

| Theorem | Inductive invariant, and why it is needed |
|---|---|
| `OnboardingTypeCorrect` | `OnboardingInv`: what is written in the transaction is typed because the workbook *was* valid: a commit under way carries one that validation accepted against the codes it saw (`CommitsValid`), and a batch on record has its file (`FileRecorded`) |
| `ImportsKeepAccounts` | an action property: an employee who is overwritten is one the validation did not see |
| `WorkbooksStoredWhole` | a site or an employee that a row refers to is one of the workbook's, which the transaction has just written, or one that validation saw (`CommitsValid`), a supervisor where one is asked for; the second may be gone or demoted since, and only then is the row passed over or put nowhere, unless its number has a twin in other capitals. The lemmas follow the sheets in the order the transaction writes them, since codes are matched in lower case and stored as typed |

`FuelEntriesProofs`

| Theorem | Inductive invariant, and why it is needed |
|---|---|
| `FuelTypeCorrect` | with `Held`, that a page that is open has a draft, and `Waiting`, that a page that is sending waits for a request of its own which no other page waits for |
| `AlertsStaySettled` | no induction over steps: the alerts of an entry are a function of the log up to it. The lemmas carry that through the series, the entry before each, the stretches of the baseline and their sums; maxima and minima exist by well-foundedness |
| `RepeatsTakeFaults` | `Budget`: the entries of drafts (`Kept`), plus the requests that may still become one (`Pending`), plus the phones that may send one of these forms again (`Repeatable`), are at most the forms that have an entry or a pending request (`Outstanding`) plus the faults. The bound alone is not inductive, as a fault is counted when the answer is lost, the server may still be at the request, and the repeat comes later. A request that is refused gives its form back; a fault gives a phone another chance, sending turns it into a pending request, and that into an entry. `FormsApart` says that no two phones report the same fueling and a new form is new |
| `RepeatsAreFlagged` | `EntriesFit`: every entry has the vehicle and the date of its draft, and the reading of its draft or that of the latest dated entry that was there when it was looked up (`seen`); and so has every request whose lookup is done (`CallFits`). Entries are only added, so what was read is still what there was then (`ReadsStay`); two entries with the same basis have the same reading (`SameReading`), and the one that is repeated is the one the alerts compare with (`RepeatComesNext`) |

Only model-checked: liveness (`EveryRowSettles`), which is out of the prover's
reach. Every other property that a passing run checks is stated by a theorem.

## Where the code and what is said of it differ

1. *Duplicates* (`outbox_duplicates`). A test says the outbox "prevents
   duplicate sends via deterministic idempotency keys". The key makes
   enqueueing idempotent; dispatch neither claims the rows it reads nor passes
   the key on to Meta. Two dashboards opened together send twice. One pipeline
   alone does so too, where two custom recipients come to the same number: the
   run leaves this out (`MaxNamed = 1`) to show the overlap.
2. *Lost reset* (`reset_lost_update`). The current password is verified before
   the transaction that replaces it, so a change may overwrite a reset it never
   saw and lower its flag.
3. *The drivers page* (`sites_form`). "Site Supervisor requires a site
   assignment." The page always sends `site_id` and, for every role but the
   safety officer, `site_ids: []`; the handler writes the first and then
   replaces it by the second.
4. *Drafts* (`checks_draft`). The driver app is to "Preserve entered data and
   captured artifacts during retry attempts." Opening the page of the check once
   without a connection removes the draft: the load fails before the draft is
   read, and the effect that saves it then sees an empty form.
5. *Double review* (`reset_two_managers`). "Only pending requests can be
   approved." / "rejected." The status is checked apart from the update, which
   has no condition: of two managers who read the request PENDING, the second
   decides it anew.

Two more show without a run of their own. *Sign-in with one site*: see `OneSiteSignsIn` above. *One driver per
vehicle*: a vehicle is to have "zero or one assigned `Driver`"
(`skills/fleet-fuel-domain/SKILL.md:31`), and support gives it without taking it
from another; `contested` is where the model says so.

### Where the refuted claims do hold

For each of these a theorem names a condition under which the claim is true, for every
value of the other constants. It says what a repair would have to establish, and that nothing else
in the modelled code stands in the way.

| Claim | Theorem | Condition |
|---|---|---|
| no duplicate sends | `RowsApartSendOnce`; with faults and repeated names `RowsApartListOncePerFault`, `RowsApartKeepPromise` | `SnapshotsApart`: no two pipelines hold the same row, as if the scan claimed what it reads; `MaxNamed = 1`: no list names a recipient twice, as if repeated destinations were removed; and no fault |
| a forced change verifies the password it was forced with | `UndisturbedChangesVerify` | `ChangesUndisturbed`: no password is written between the check of a change and its writes, as if the check were in the transaction |
| a supervisor has a site | `SupervisorsKeepSite` | one administrator, no support, and `SupervisorsGivenSites`: an update that may leave a supervisor gives a site or sends no site fields |
| entered answers are kept | `AnswersKeptWhileWaiting` | the page can always be loaded and shows every item, and `Waits`: drivers do not edit while a submission is under way |
| only pending requests are decided | `ReviewsApartDecidePending` | `ReviewsApart`: no two managers have the same request under review, as if the update were conditional on PENDING |
| a vehicle has one driver | `SerialNeverShares` | one administrator and no support |

## What is not modelled

Message wording, templates, audit log rows and pagination; the copies of the
password hash in `UserAuth` and `Driver` that no sign-in reads; more than one
tenant, as every query is filtered by tenant id; HTTP validation beyond the
schemas named in `PROJECT.json`; the copy of a user's first site in
`users.site_id`, which neither sign-in nor the scope reads; an actor's own scope
and rights to give a role; tokens and rate limits.

Not modelled as components: provisioning and resolving tenants (one transaction of
new rows, and look-ups), the profile a user changes (a rename of the two rows that
`VehicleAssignment` renames too), look-ups, system status and the operator
assistant (text from queries), tanks (single statements nothing else reads), the
pages that load a list, show it and post a form that keeps nothing. The alerts
engine is modelled by what it reports; wording and order of its answer are not.

Hazards known and without a property: the force-change guard reads the claim in
the token, so a session opened before a reset stays unrestricted until it expires
(`middleware/auth.ts:58`); an update of a user writes back name, role and active
flag as read (`master-data.service.ts:604`) and nothing in the repository says
that it should not; support fills in what a request leaves out from before its
transaction (`platform-support.service.ts:312`). Four are in the models but no
property catches them: two edits, or a gift by support, that leave a vehicle with
two drivers, which `SharedOnlyIfContested` excuses
(`master-data.service.ts:253`, `platform-support.service.ts:416`); a vehicle taken
from everybody by a request that is then refused (`master-data.service.ts:1018`);
a draft of another driver or of yesterday that is sent as one's own of today
(`driver-daily-check.tsx:484`); a repeated fueling whose reading was filled in from
another entry, which `RepeatIsFlagged` names as the exception
(`driver.service.ts:271`).

## What is left

The profile change as an action of `VehicleAssignment`; a property for the update that
writes back what it read (`master-data.service.ts:604`); liveness, which only TLC checks.

## Running it

    tlc -workers 2 -config outbox_serial.cfg MCOutboxRecipients
    tlapm NotificationOutboxProofs.tla

Each run's module and configuration are in the `runs` list of `PROJECT.json`;
the definitions named "Mutation" are faulty variants of the definition that
follows them, listed under `mutants`: with the variant in place, the run must
report the property violated. Deadlock is not checked in `areas`: a deployment
can be up and stay so, a bounded import or clock comes to its end.

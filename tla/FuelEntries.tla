---------------------------- MODULE FuelEntries ----------------------------
(***************************************************************************)
(* Fuel entries: the drivers' phones that send them, with drafts that       *)
(* outlive a page and answers that get lost, and the server that adds each  *)
(* request to the log, whether or not it has seen it before.                *)
(***************************************************************************)
EXTENDS FuelAlerts

CONSTANTS
    Phones,
    Calls,          \* requests on the server at once
    Day,            \* instants of a day
    Contents,       \* what drivers and staff enter, besides the vehicle and the date
    Histories,      \* logs to begin with
    MaxClock, MaxFaults   \* bounds

VARIABLES
    log,        \* fuel entries, in the order they were created
    clock,
    checked,    \* the latest odometer reading of a daily check, by vehicle
    phone,      \* what each page holds, and what it has stored
    request,    \* the calls of the server
    origin,     \* the draft that each entry of the log was made from, or None,
    seen,       \* and how long the log was when what it says was looked up
    forms,      \* forms begun so far, by anyone
    faults      \* answers lost, refreshes failed and pages left while sending

fuelVars == <<log, home, clock, checked, phone, request, origin, seen, forms, faults>>

ThisDay == clock \div Day

\* upload is whether a receipt was uploaded.
Content == [reading: Nat \cup {None}, fallback: BOOLEAN, upload: BOOLEAN, liters: Nat,
            source: {"CARD", "TANK", "STATION", "APPROVED_SOURCE"}]

Blank == [reading |-> None, fallback |-> FALSE, upload |-> FALSE, liters |-> 0,
          source |-> "STATION"]

\* form counts the fuelings that drivers mean to report, it is not sent.
Draft == [vehicle: Vehicles, date: Int, content: Content, form: Nat]

\* call is what the page waits for.
Phone == [step: {"closed", "form", "sending", "refreshing"}, draft: Draft \cup {None},
          stored: Draft \cup {None}, previous: [Vehicles -> Nat \cup {None}],
          call: Calls \cup {None}]
Closed == [step |-> "closed", draft |-> None, stored |-> None,
           previous |-> [v \in Vehicles |-> None], call |-> None]

\* sender is the phone whose page, or what a page that was left has still to do, goes on
\* with the answer; reading and seen are what has been looked up.
Request == [sender: Phones \cup {None}, draft: Draft, stage: {"sent", "read", "kept", "refused"},
            reading: Nat \cup {None}, seen: Nat]

\* What the constants are like: None is no draft and no request.
FuelConstantsFit ==
    /\ Histories \subseteq Seq(FuelEntry) /\ Contents \subseteq Content
    /\ IsFiniteSet(Phones) /\ IsFiniteSet(Calls) /\ None \notin Phones \cup Calls
    /\ {Lookback, RepeatWindow, MaxClock, MaxFaults} \subseteq Nat /\ Day \in Nat \ {0}
    /\ None \notin Draft \cup Request

FuelTypeOK ==
    /\ log \in Seq(FuelEntry)
    /\ home \in [Vehicles -> Sites \cup {None}]
    /\ clock \in 0..MaxClock
    /\ checked \in [Vehicles -> [reading: Nat, createdAt: Int] \cup {None}]
    /\ phone \in [Phones -> Phone]
    /\ request \in [Calls -> Request \cup {None}]
    /\ origin \in [DOMAIN log -> Draft \cup {None}]
    /\ seen \in [DOMAIN log -> Nat]
    /\ forms \in Nat
    /\ faults \in 0..MaxFaults

FuelInit ==
    /\ log \in Histories
    /\ origin = [k \in DOMAIN log |-> None]
    /\ seen = [k \in DOMAIN log |-> 0]
    /\ home \in [Vehicles -> Sites \cup {None}]
    /\ clock = 0
    /\ checked = [v \in Vehicles |-> None]
    /\ phone = [p \in Phones |-> Closed]
    /\ request = [c \in Calls |-> None]
    /\ forms = 0
    /\ faults = 0

----------------------------------------------------------------------------
(* The server. *)

\* What the list of vehicles gives as the previous reading: the later of the last fuel
\* entry created and the last check, while they have a reading.
Previous(v) ==
    LET with == {k \in DOMAIN log : log[k].vehicle = v /\ log[k].reading # None}
        check == checked[v]
    IN  IF with = {} THEN IF check = None THEN None ELSE check.reading
        ELSE IF check = None \/ log[Max(with)].createdAt >= check.createdAt
        THEN log[Max(with)].reading
        ELSE check.reading

\* What the server puts in for a reading that a driver could not take: the one of the
\* entry with the latest date, of checks it knows nothing.
FallbackReading(v) ==
    LET with == {k \in DOMAIN log : log[k].vehicle = v /\ log[k].reading # None}
        last == {k \in with : \A l \in with : log[l].date <= log[k].date}
    IN  IF with = {} THEN None ELSE log[Max(last)].reading

Acceptable(c) == (c.fallback \/ c.reading # None) /\ ~c.upload /\ c.liters > 0

Add(e, draft, before) ==
    /\ log' = Append(log, e)
    /\ origin' = Append(origin, draft)
    /\ seen' = Append(seen, before)
    /\ clock < MaxClock
    /\ clock' = clock + 1

\* createDriverFuelEntry: what its entry will say is looked up,
LookUp(c) ==
    /\ request[c] # None /\ request[c].stage = "sent"
    /\ LET draft == request[c].draft
       IN  /\ Acceptable(draft.content)
           /\ request' = [request EXCEPT ![c].stage = "read", ![c].seen = Len(log),
                ![c].reading = IF draft.content.reading = None THEN FallbackReading(draft.vehicle)
                               ELSE draft.content.reading]
    /\ UNCHANGED <<log, origin, seen, home, clock, checked, phone, forms, faults>>

\* and then it is created, whatever else has been meanwhile. The site is the driver's, or
\* else the vehicle's, which was looked up before too: either may be another by now.
Keep(c) ==
    /\ request[c] # None /\ request[c].stage = "read"
    /\ LET d == request[c].draft
       IN  \E site \in Sites \cup {None} :
             Add([vehicle |-> d.vehicle, site |-> site, date |-> d.date,
                  reading |-> request[c].reading, fallback |-> d.content.fallback,
                  source |-> d.content.source, receipt |-> FALSE, liters |-> d.content.liters,
                  createdAt |-> clock], d, request[c].seen)
    /\ request' = [request EXCEPT ![c].stage = "kept"]
    /\ UNCHANGED <<home, checked, phone, forms, faults>>

\* Anything may be refused, for a card or a tank that is not found; and what has a
\* receipt uploaded always is, as that gives a path and an entry's must be a URL.
Refuse(c) ==
    /\ request[c] # None /\ request[c].stage \in {"sent", "read"}
    /\ request' = [request EXCEPT ![c].stage = "refused"]
    /\ UNCHANGED <<log, origin, seen, home, clock, checked, phone, forms, faults>>

\* Staff enter what they like, at any date.
CreateByStaff(v, date, content) ==
    /\ \E receipt \in BOOLEAN, site \in Sites \cup {None} :
         Add([vehicle |-> v, site |-> site, date |-> date, reading |-> content.reading,
              fallback |-> FALSE, source |-> "CARD", receipt |-> receipt, liters |-> content.liters,
              createdAt |-> clock], None, Len(log))
    /\ UNCHANGED <<home, checked, phone, request, forms, faults>>

CheckReading(v, reading) ==
    /\ clock < MaxClock
    /\ checked' = [checked EXCEPT ![v] = [reading |-> reading, createdAt |-> clock]]
    /\ clock' = clock + 1
    /\ UNCHANGED <<log, origin, seen, home, phone, request, forms, faults>>

Move(v, site) ==
    /\ home' = [home EXCEPT ![v] = site]
    /\ UNCHANGED <<log, origin, seen, clock, checked, phone, request, forms, faults>>

----------------------------------------------------------------------------
(* A driver's phone. *)

FreshDraft(v, date, form) ==
    [vehicle |-> v, date |-> date, content |-> Blank, form |-> form]

\* The page is opened, or left and opened again: a draft that was stored is restored,
\* with its date. A request under way goes on without the page.
OpenForm(p, v) ==
    LET begun == phone[p].stored = None
        left  == phone[p].step \in {"sending", "refreshing"}
    IN  /\ left => faults < MaxFaults
        /\ faults' = IF left THEN faults + 1 ELSE faults
        /\ forms' = IF begun THEN forms + 1 ELSE forms
        /\ LET draft == IF begun THEN FreshDraft(v, ThisDay, forms + 1) ELSE phone[p].stored
           IN  phone' = [phone EXCEPT ![p] = [step |-> "form", draft |-> draft, stored |-> draft,
                                              previous |-> [w \in Vehicles |-> Previous(w)],
                                              call |-> None]]
        /\ UNCHANGED <<log, origin, seen, home, clock, checked, request>>

\* The fields stay open while a request is under way.
Edit(p, v, date, content) ==
    /\ phone[p].step # "closed"
    /\ LET draft == [phone[p].draft EXCEPT !.vehicle = v, !.date = date, !.content = content]
       IN  phone' = [phone EXCEPT ![p].draft = draft, ![p].stored = draft]
    /\ UNCHANGED <<log, origin, seen, home, clock, checked, request, forms, faults>>

\* validateOdometerAgainstPrevious: against what the page was last told.
Valid(p) ==
    LET c == phone[p].draft.content
        previous == phone[p].previous[phone[p].draft.vehicle]
    IN  c.fallback \/ (c.reading # None /\ (previous # None => c.reading >= previous))

\* Mutation: the button is not disabled while a request is under way.
SubmitAgain(p, c) ==
    /\ phone[p].step \in {"form", "sending"} /\ Valid(p)
    /\ request[c] = None
    /\ phone' = [phone EXCEPT ![p].step = "sending", ![p].call = c]
    /\ request' = [request EXCEPT ![c] = [sender |-> p, draft |-> phone[p].draft, stage |-> "sent",
                                          reading |-> None, seen |-> 0]]
    /\ UNCHANGED <<log, origin, seen, home, clock, checked, forms, faults>>

\* Whatever became of the requests before, as the page knows only the one it waits for.
Submit(p, c) ==
    /\ phone[p].step = "form" /\ Valid(p)
    /\ request[c] = None
    /\ phone' = [phone EXCEPT ![p].step = "sending", ![p].call = c]
    /\ request' = [request EXCEPT ![c] = [sender |-> p, draft |-> phone[p].draft, stage |-> "sent",
                                          reading |-> None, seen |-> 0]]
    /\ UNCHANGED <<log, origin, seen, home, clock, checked, forms, faults>>

\* The answer: an entry that was kept is followed by a read of the vehicles.
Answer(p) ==
    /\ phone[p].step = "sending"
    /\ LET c == phone[p].call
       IN  \/ /\ request[c].stage = "kept"
              /\ phone' = [phone EXCEPT ![p].step = "refreshing"]
              /\ UNCHANGED request
           \/ /\ request[c].stage = "refused"
              /\ phone' = [phone EXCEPT ![p].step = "form", ![p].call = None]
              /\ request' = [request EXCEPT ![c] = None]
    /\ UNCHANGED <<log, origin, seen, home, clock, checked, forms, faults>>

\* The request or its answer is lost, or it fails after its entry is kept: the page says
\* so, and the draft is still there to be sent again. The server may still be at it.
Lose(p) ==
    /\ phone[p].step = "sending" /\ faults < MaxFaults
    /\ LET c == phone[p].call
       IN  request' \in {[request EXCEPT ![c] = None], [request EXCEPT ![c].sender = None]}
    /\ phone' = [phone EXCEPT ![p].step = "form", ![p].call = None]
    /\ faults' = faults + 1
    /\ UNCHANGED <<log, origin, seen, home, clock, checked, forms>>

\* Only now is the draft done with, and what was typed meanwhile with it.
Refresh(p) ==
    /\ phone[p].step = "refreshing"
    /\ phone' = [phone EXCEPT ![p] =
         [step |-> "form", stored |-> None, previous |-> [w \in Vehicles |-> Previous(w)],
          draft |-> FreshDraft(@.draft.vehicle, @.draft.date, forms + 1), call |-> None]]
    /\ request' = [request EXCEPT ![phone[p].call] = None]
    /\ forms' = forms + 1
    /\ UNCHANGED <<log, origin, seen, home, clock, checked, faults>>

\* A refresh that fails looks like a submission that failed.
FailRefresh(p) ==
    /\ phone[p].step = "refreshing" /\ faults < MaxFaults
    /\ phone' = [phone EXCEPT ![p].step = "form", ![p].call = None]
    /\ request' = [request EXCEPT ![phone[p].call] = None]
    /\ faults' = faults + 1
    /\ UNCHANGED <<log, origin, seen, home, clock, checked, forms>>

\* A request that no page waits for comes to an end. If its page was left, and not closed,
\* the rest of onSubmit still runs: it removes the draft that is stored, whichever it is.
Finish(c) ==
    /\ request[c] # None /\ request[c].stage \in {"kept", "refused"}
    /\ \A p \in Phones : phone[p].call # c
    /\ request' = [request EXCEPT ![c] = None]
    /\ \/ UNCHANGED phone
       \/ /\ request[c].stage = "kept" /\ request[c].sender # None
          /\ phone' = [phone EXCEPT ![request[c].sender].stored = None]
    /\ UNCHANGED <<log, origin, seen, home, clock, checked, forms, faults>>

----------------------------------------------------------------------------
FuelTick ==
    /\ clock < MaxClock
    /\ clock' = clock + 1
    /\ UNCHANGED <<log, origin, seen, home, checked, phone, request, forms, faults>>

Serve(c) == LookUp(c) \/ Keep(c) \/ Refuse(c) \/ Finish(c)

Drive(p) ==
    \/ \E v \in Vehicles : OpenForm(p, v)
    \/ \E v \in Vehicles, date \in {ThisDay - 1, ThisDay}, content \in Contents :
         Edit(p, v, date, content)
    \/ \E c \in Calls : Submit(p, c)
    \/ Answer(p) \/ Lose(p) \/ Refresh(p) \/ FailRefresh(p)

Staff ==
    \E v \in Vehicles :
        \/ \E content \in Contents :
              \/ \E date \in {ThisDay - 1, ThisDay} : CreateByStaff(v, date, content)
              \/ content.reading # None /\ CheckReading(v, content.reading)
        \/ \E site \in Sites \cup {None} : Move(v, site)

FuelNext == Staff \/ FuelTick \/ (\E c \in Calls : Serve(c)) \/ (\E p \in Phones : Drive(p))

FuelSpec == FuelInit /\ [][FuelNext]_fuelVars

----------------------------------------------------------------------------
(* Properties. *)

\* Whatever a driver does, a fueling is in the log more often than once only for answers
\* that were lost, refreshes that failed and pages that were left while sending
\* (onSubmit, which sends the draft as it is while it is not done with).
RepeatsNeedFaults ==
    LET made == {origin[k].form : k \in {l \in DOMAIN log : origin[l] # None}}
    IN  Cardinality({k \in DOMAIN log : origin[k] # None}) <= Cardinality(made) + faults

\* Whether two entries have their readings from the same entries before them: typed by
\* the driver they do; filled in, if nothing with a reading was created for the vehicle
\* between the first of the two lookups and the first of the two entries.
SameBasis(i, k) ==
    \/ origin[k].content.reading # None
    \/ \A l \in Min({seen[i], seen[k]})+1..i-1 :
          log[l].vehicle = log[k].vehicle => log[l].reading = None

\* An entry that is in the log again, from the same draft and with nothing between the
\* two, is reported to whoever sees the whole company, if it comes soon, or has a reading
\* and no other entry came between a lookup and what it was for: then the repeat may have
\* another reading than the entry, and nobody is told (resolveFallbackOdometer, tooSoon).
RepeatIsFlagged ==
    \A i, k \in DOMAIN log :
        /\ i < k /\ origin[k] # None /\ origin[i] = origin[k]
        /\ \A l \in i+1..k-1 : log[l].vehicle # log[k].vehicle
        /\ \/ log[k].createdAt - log[i].createdAt <= RepeatWindow
           \/ log[k].reading # None /\ SameBasis(i, k)
        => <<"fueling_too_soon_after_previous_fill", "HIGH">> \in EntryAlerts(log, k, Everything)

\* The alerts of an entry, for who sees the whole company, stay those it had when it was
\* created, whatever is entered later and for whichever date (historyUntilCurrent).
AlertsSettle ==
    \A k \in DOMAIN log :
        EntryAlerts(log, k, Everything) = EntryAlerts(SubSeq(log, 1, k), k, Everything)
=============================================================================

----------------------------- MODULE DailyCheck -----------------------------
(***************************************************************************)
(* The daily vehicle checks of one tenant: the rows of the API, the staff  *)
(* who may write them, and the drivers' phones, on which a check is filled *)
(* in, kept as a draft in the browser's storage and submitted by a         *)
(* sequence of requests.  Any of them may fail, and the page may be left   *)
(* or closed at any time.                                                  *)
(***************************************************************************)
EXTENDS Integers, FiniteSets

CONSTANTS
    Drivers, Vehicles, Phones,
    Items,       \* checklist_items_master
    Required,    \* those that are required
    Shown,       \* those that the paper layout of the page has a place for
    Photographed,\* bound: those that drivers attach photos to
    MaxDay,      \* bound on the days that pass
    Staff,       \* whether staff write checks too
    Offline      \* whether the page may fail to load

None == "none"

ASSUME CheckAssumption ==
    /\ None \notin Drivers \cup Vehicles
    /\ Required \cup Shown \cup Photographed \subseteq Items
    /\ MaxDay \in Nat
    /\ {Staff, Offline} \subseteq BOOLEAN

VARIABLES
    day,       \* today, at the phones and at the API
    check,     \* daily_checks, by vehicle and date
    phone      \* each phone: its storage, the page, the submission under way

vars == <<day, check, phone>>

Days == 0..MaxDay
Checks == Vehicles \X Days

\* driver is the driver of the row, creator the user who created it.
Row == [status: {"DRAFT", "SUBMITTED"}, driver: Drivers \cup {None},
        creator: Drivers \cup {"staff"}, items: SUBSET Items]
Absent == [status |-> "ABSENT", driver |-> None, creator |-> None, items |-> {}]

\* What the page shows and what a draft holds of it: photos are files and are not stored.
Content == [vehicle: Vehicles, answers: SUBSET Items]
NoContent == [vehicle |-> None, answers |-> {}]

\* A submission: of the page that is open, of one that was left, or of one that
\* was closed, when only the request on its way remains.
Call == [stage: {"upload", "create", "submit", "refresh"}, driver: Drivers,
         vehicle: Vehicles, day: Days, sent: SUBSET Items, photos: SUBSET Items,
         page: {"open", "left", "closed"}]
NoCall == [stage |-> "none", driver |-> None, vehicle |-> None, day |-> 0,
           sent |-> {}, photos |-> {}, page |-> "open"]

Phone == [driver: Drivers \cup {None}, open: BOOLEAN, content: Content \cup {NoContent},
          photos: SUBSET Items, draft: Content \cup {NoContent}, call: Call \cup {NoCall}]

TypeOK ==
    /\ day \in Days
    /\ check \in [Checks -> Row \cup {Absent}]
    /\ phone \in [Phones -> Phone]

Init ==
    /\ day = 0
    /\ check = [c \in Checks |-> Absent]
    /\ phone = [p \in Phones |-> [driver |-> None, open |-> FALSE, content |-> NoContent,
                                  photos |-> {}, draft |-> NoContent, call |-> NoCall]]

----------------------------------------------------------------------------
(* The API. *)

\* Mutation: an update, which leaves a check that is not there as it is but for its driver.
OpenedIfThere(c, driver, creator) ==
    [check[c] EXCEPT !.driver = IF driver = None THEN @ ELSE driver]

\* createDailyCheck: one row per vehicle and date, whose driver is the last who
\* opened it.
Opened(c, driver, creator) ==
    IF check[c] = Absent
    THEN [status |-> "DRAFT", driver |-> driver, creator |-> creator, items |-> {}]
    ELSE [check[c] EXCEPT !.driver = IF driver = None THEN @ ELSE driver]

\* Mutation: the items are replaced and not added to.
SubmittedAnew(c, items) ==
    [check[c] EXCEPT !.status = "SUBMITTED", !.items = items]

\* submitDailyCheck, whatever the status was.
Submitted(c, items) ==
    [check[c] EXCEPT !.status = "SUBMITTED", !.items = @ \cup items]

\* submitDriverDailyCheckEntry: the check must be the driver's.
Finds(c, driver) == driver \in {check[c].driver, check[c].creator}

\* What an upload returns is a path, which the schema of a submission, wanting a
\* URL, refuses; it refuses an empty list too.
Valid(items, photos) == items # {} /\ photos = {}

HasSubmittedDailyCheck(c) == check[c].status = "SUBMITTED"

StaffOpen(c, driver) ==
    /\ Staff
    /\ check' = [check EXCEPT ![c] = Opened(c, driver, "staff")]
    /\ UNCHANGED <<day, phone>>

StaffSubmit(c, items) ==
    /\ Staff
    /\ check[c] # Absent
    /\ Valid(items, {})
    /\ check' = [check EXCEPT ![c] = Submitted(c, items)]
    /\ UNCHANGED <<day, phone>>

----------------------------------------------------------------------------
(* The page. *)

SignIn(p, d) ==
    /\ phone[p].driver = None
    /\ phone' = [phone EXCEPT ![p].driver = d]
    /\ UNCHANGED <<day, check>>

\* Only the token goes, the draft stays.  A submission under way goes on.
Detached(call, page) == IF call = NoCall THEN NoCall ELSE [call EXCEPT !.page = page]

Away(p, page) ==
    [phone[p] EXCEPT !.open = FALSE, !.content = NoContent, !.photos = {},
                     !.call = IF @.page = "open" THEN Detached(@, page) ELSE @]

SignOut(p) ==
    /\ phone[p].driver # None
    /\ phone' = [phone EXCEPT ![p] = [Away(p, "left") EXCEPT !.driver = None]]
    /\ UNCHANGED <<day, check>>

Leave(p) ==
    /\ phone[p].open
    /\ phone' = [phone EXCEPT ![p] = Away(p, "left")]
    /\ UNCHANGED <<day, check>>

\* The browser closes or reloads: every submission of this phone is dead.
Close(p) ==
    /\ phone[p].open \/ phone[p].call.page = "left"
    /\ phone' = [phone EXCEPT ![p] = [Away(p, "closed") EXCEPT !.call = Detached(phone[p].call, "closed")]]
    /\ UNCHANGED <<day, check>>

\* loadChecklist: a draft is restored, whoever's it is and whatever its age;
\* otherwise the page proposes the vehicle assigned, or the first.
LoadPage(p, v) ==
    LET d == phone[p].draft
        content == IF d # NoContent THEN d ELSE [vehicle |-> v, answers |-> {}]
    IN  /\ phone[p].driver # None /\ ~phone[p].open
        /\ phone' = [phone EXCEPT ![p] = [@ EXCEPT !.open = TRUE, !.content = content,
                                                   !.draft = content]]
        /\ UNCHANGED <<day, check>>

\* When it cannot be loaded the page has no content, and the effect that saves the
\* draft removes it.
FailToLoad(p) ==
    /\ Offline
    /\ phone[p].driver # None /\ ~phone[p].open
    /\ phone' = [phone EXCEPT ![p].draft = NoContent]
    /\ UNCHANGED <<day, check>>

\* Whatever the driver changes, the effect saves.
Edited(p, content, photos) ==
    /\ phone[p].open
    /\ phone' = [phone EXCEPT ![p] = [@ EXCEPT !.content = content, !.draft = content,
                                               !.photos = photos]]
    /\ UNCHANGED <<day, check>>

Answer(p, i) ==
    /\ i \notin phone[p].content.answers
    /\ Edited(p, [phone[p].content EXCEPT !.answers = @ \cup {i}], phone[p].photos)

\* toggleMarkAllOk: an answer is never taken back but with all the others.
MarkAll(p) ==
    /\ ~(Shown \subseteq phone[p].content.answers)
    /\ Edited(p, [phone[p].content EXCEPT !.answers = @ \cup Shown], phone[p].photos)

ClearAll(p) ==
    /\ Shown \subseteq phone[p].content.answers
    /\ Edited(p, [phone[p].content EXCEPT !.answers = @ \ Shown], phone[p].photos)

AttachPhoto(p, i) ==
    /\ i \in (phone[p].content.answers \ phone[p].photos) \cap Photographed
    /\ Edited(p, phone[p].content, phone[p].photos \cup {i})

ChooseVehicle(p, v) ==
    /\ v # phone[p].content.vehicle
    /\ Edited(p, [phone[p].content EXCEPT !.vehicle = v], phone[p].photos)

----------------------------------------------------------------------------
(* Submitting. *)

\* Mutation: the required items are not asked for.
CompleteEnough(p) == phone[p].content.answers \cap Shown # {}

\* No required item that the page shows is left unanswered.
Complete(p) == Required \cap Shown \subseteq phone[p].content.answers

\* onSubmit, with the answers as they are now.  The photos that go with them are
\* those of the items answered as an issue.  A page has one submission at a time;
\* that the submission of a page left is over before the next begins is a bound.
Press(p) ==
    LET page == phone[p]
        sent == page.content.answers \cap Shown
    IN  /\ page.open /\ page.call = NoCall
        /\ Complete(p)
        /\ \E photos \in SUBSET (page.photos \cap sent) :
             phone' = [phone EXCEPT ![p].call =
               [stage |-> IF photos = {} THEN "create" ELSE "upload",
                driver |-> page.driver, vehicle |-> page.content.vehicle, day |-> day,
                sent |-> sent, photos |-> photos, page |-> "open"]]
        /\ UNCHANGED <<day, check>>

\* After a request has been answered: a dead page asks no more.
Onward(p, stage) ==
    IF phone[p].call.page = "closed" THEN NoCall ELSE [phone[p].call EXCEPT !.stage = stage]

\* The date of the check is that of the moment when nothing is left to upload.
Upload(p) ==
    /\ phone[p].call.stage = "upload"
    /\ phone' = [phone EXCEPT ![p].call =
         IF @.page = "closed" THEN NoCall ELSE [@ EXCEPT !.stage = "create", !.day = day]]
    /\ UNCHANGED <<day, check>>

Create(p) ==
    LET call == phone[p].call
        c == <<call.vehicle, call.day>>
    IN  /\ call.stage = "create"
        /\ check' = [check EXCEPT ![c] = Opened(c, call.driver, call.driver)]
        /\ phone' = [phone EXCEPT ![p].call = Onward(p, "submit")]
        /\ UNCHANGED day

Submit(p) ==
    LET call == phone[p].call
        c == <<call.vehicle, call.day>>
    IN  /\ call.stage = "submit"
        /\ IF Valid(call.sent, call.photos) /\ Finds(c, call.driver)
           THEN /\ check' = [check EXCEPT ![c] = Submitted(c, call.sent)]
                /\ phone' = [phone EXCEPT ![p].call = Onward(p, "refresh")]
           ELSE /\ phone' = [phone EXCEPT ![p].call = NoCall]
                /\ UNCHANGED check
        /\ UNCHANGED day

\* The vehicles are read again; then the form is emptied and the draft removed,
\* which the effect saves again, now with the vehicle only.
Refresh(p) ==
    LET page == phone[p]
        empty == [page.content EXCEPT !.answers = {}]
    IN  /\ page.call.stage = "refresh"
        /\ phone' = [phone EXCEPT ![p] =
             IF page.call.page = "open"
             THEN [page EXCEPT !.content = empty, !.draft = empty, !.photos = {}, !.call = NoCall]
             ELSE IF page.call.page = "left" THEN [page EXCEPT !.draft = NoContent, !.call = NoCall]
             ELSE [page EXCEPT !.call = NoCall]]
        /\ UNCHANGED <<day, check>>

\* A request or its answer is lost, or refused for a reason not modelled.
FailCall(p) ==
    /\ phone[p].call # NoCall
    /\ phone' = [phone EXCEPT ![p].call = NoCall]
    /\ UNCHANGED <<day, check>>

NextDay ==
    /\ day < MaxDay
    /\ day' = day + 1
    /\ UNCHANGED <<check, phone>>

----------------------------------------------------------------------------
UsePhone(p) ==
    \/ \E d \in Drivers : SignIn(p, d)
    \/ SignOut(p) \/ Leave(p) \/ Close(p)
    \/ \E v \in Vehicles : LoadPage(p, v) \/ (phone[p].open /\ ChooseVehicle(p, v))
    \/ FailToLoad(p)
    \/ \E i \in Items : Answer(p, i) \/ AttachPhoto(p, i)
    \/ MarkAll(p) \/ ClearAll(p)
    \/ Press(p) \/ Upload(p) \/ Create(p) \/ Submit(p) \/ Refresh(p) \/ FailCall(p)

Next ==
    \/ \E p \in Phones : UsePhone(p)
    \/ \E c \in Checks, d \in Drivers \cup {None} : StaffOpen(c, d)
    \/ \E c \in Checks, items \in SUBSET Items : StaffSubmit(c, items)
    \/ NextDay

Spec == Init /\ [][Next]_vars

----------------------------------------------------------------------------
(* Properties. *)

\* What a phone is told has been submitted has been: by the time its page empties
\* the form, the check of that vehicle and day is SUBMITTED with every answer that
\* was sent, and none that is required and shown is missing from it, whoever else
\* has opened or submitted the same check meanwhile (onSubmit, submitDailyCheck).
AckedIsStored ==
    \A p \in Phones : phone[p].call.stage = "refresh" =>
        LET c == <<phone[p].call.vehicle, phone[p].call.day>>
        IN  /\ HasSubmittedDailyCheck(c)
            /\ (Required \cap Shown) \cup phone[p].call.sent \subseteq check[c].items

\* The checks implement what CheckPromise says of them: requests that open a check
\* again, or submit it twice or from two phones, undo nothing.
Promise == INSTANCE CheckPromise WITH
    status <- [c \in Checks |-> check[c].status],
    answered <- [c \in Checks |-> check[c].items]
KeepsPromise == Promise!Spec

\* The answers on a phone, on the page or in the draft
Held(p) == phone[p].content.answers \cup phone[p].draft.answers

\* The items that some submitted check of the vehicle has
Stored(v) == UNION {check[c].items : c \in {k \in Checks : k[1] = v /\ HasSubmittedDailyCheck(k)}}

\* "Preserve entered data and captured artifacts during retry attempts."
\* (skills/driver-mobile-ux/SKILL.md:54): answers disappear from a phone only when
\* the driver clears them or a submitted check has them.
AnswersKept ==
    [][\A p \in Phones :
          \/ Held(p) \subseteq Held(p)' \cup Stored(phone[p].draft.vehicle)
          \/ ClearAll(p)]_vars
=============================================================================

-------------------------- MODULE DailyCheckProofs --------------------------
(***************************************************************************)
(* Proofs about DailyCheck for any number of phones, drivers, vehicles,    *)
(* items and days.                                                         *)
(***************************************************************************)
EXTENDS DailyCheck, TLAPS

USE CheckAssumption

\* A page that is open has its driver and its content, and a submission was begun with
\* every required item that the page shows.
Sound(q) ==
    /\ q \in Phone
    /\ q.open => q.content \in Content /\ q.driver \in Drivers
    /\ q.call # NoCall => Required \cap Shown \subseteq q.call.sent

IInv ==
    /\ TypeOK
    /\ \A p \in Phones : Sound(phone[p])
    /\ AckedIsStored

LEMMA DaysType == Days \subseteq Int /\ 0 \in Days
  BY DEF Days

LEMMA NoVehicle == NoContent \notin Content /\ NoCall \notin Call
  BY DEF NoContent, Content, NoCall, Call

----------------------------------------------------------------------------
(* Steps of a phone alone. *)

\* The invariant survives when a phone becomes another sound one that has not been
\* told of more submissions.
LEMMA PhoneStep ==
    ASSUME IInv, NEW p \in Phones, NEW q, Sound(q),
           q.call.stage = "refresh" => /\ phone[p].call.stage = "refresh"
                                       /\ q.call.vehicle = phone[p].call.vehicle
                                       /\ q.call.day = phone[p].call.day
                                       /\ q.call.sent = phone[p].call.sent,
           phone' = [phone EXCEPT ![p] = q], UNCHANGED <<day, check>>
    PROVE  IInv'
  <1>1. \A o \in Phones : phone'[o] = IF o = p THEN q ELSE phone[o]
    BY DEF IInv, TypeOK
  <1>2. TypeOK'
    BY DEF IInv, TypeOK, Sound
  <1>3. \A o \in Phones : Sound(phone'[o])
    BY <1>1 DEF IInv
  <1>4. AckedIsStored'
    BY <1>1 DEF IInv, AckedIsStored, HasSubmittedDailyCheck
  <1> QED
    BY <1>2, <1>3, <1>4 DEF IInv, Sound

LEMMA PhoneFields ==
    ASSUME NEW q \in Phone
    PROVE  /\ q.driver \in Drivers \cup {None} /\ q.open \in BOOLEAN
           /\ q.content \in Content \cup {NoContent} /\ q.draft \in Content \cup {NoContent}
           /\ q.photos \in SUBSET Items /\ q.call \in Call \cup {NoCall}
           /\ q = [driver |-> q.driver, open |-> q.open, content |-> q.content,
                   photos |-> q.photos, draft |-> q.draft, call |-> q.call]
  BY DEF Phone

\* A submission that is detached is the same submission.
LEMMA DetachedCall ==
    ASSUME NEW call \in Call \cup {NoCall}, NEW page \in {"left", "closed"}
    PROVE  /\ Detached(call, page) \in Call \cup {NoCall}
           /\ Detached(call, page) = NoCall <=> call = NoCall
           /\ Detached(call, page).stage = call.stage
           /\ Detached(call, page).sent = call.sent
           /\ Detached(call, page).vehicle = call.vehicle
           /\ Detached(call, page).day = call.day
  <1>1. CASE call = NoCall
    BY <1>1 DEF Detached
  <1>2. CASE call # NoCall
    <2>1. call \in Call /\ Detached(call, page) = [call EXCEPT !.page = page]
      BY <1>2 DEF Detached
    <2>2. Detached(call, page) \in Call
      BY <2>1 DEF Call
    <2> QED
      BY <1>2, <2>1, <2>2, NoVehicle DEF Call
  <1> QED
    BY <1>1, <1>2

\* Whoever goes away leaves a phone without a page, with the same submission or none.
LEMMA AwayStep ==
    ASSUME IInv, NEW p \in Phones, SignOut(p) \/ Leave(p) \/ Close(p)
    PROVE  IInv'
  <1> DEFINE old == phone[p]
             Calls(page) == {old.call, Detached(old.call, page)}
             Gone(c) == [old EXCEPT !.open = FALSE, !.content = NoContent, !.photos = {},
                                    !.call = c]
  <1>1. Sound(old)
    BY DEF IInv
  <1>2. ASSUME NEW page \in {"left", "closed"}
        PROVE  \E c \in Calls(page) : Away(p, page) = Gone(c)
    <2> DEFINE c == IF old.call.page = "open" THEN Detached(old.call, page) ELSE old.call
    <2>1. Away(p, page) = Gone(c)
      BY DEF Away
    <2>2. c \in Calls(page)
      OBVIOUS
    <2> QED
      BY <2>1, <2>2
  <1>3. ASSUME NEW page \in {"left", "closed"}, NEW c \in Calls(page)
        PROVE  /\ Gone(c) \in Phone /\ ~Gone(c).open /\ Gone(c).call = c /\ Sound(Gone(c))
               /\ c.stage = old.call.stage /\ c.vehicle = old.call.vehicle
               /\ c.day = old.call.day /\ c.sent = old.call.sent
    <2>1. old \in Phone /\ old.call \in Call \cup {NoCall}
      BY <1>1 DEF Sound, Phone
    <2>2. /\ c \in Call \cup {NoCall} /\ (c = NoCall <=> old.call = NoCall)
          /\ c.stage = old.call.stage /\ c.vehicle = old.call.vehicle
          /\ c.day = old.call.day /\ c.sent = old.call.sent
      BY <1>3, <2>1, DetachedCall
    <2>3. Gone(c) \in Phone /\ ~Gone(c).open /\ Gone(c).call = c
      BY <2>1, <2>2 DEF Phone
    <2> HIDE DEF Gone
    <2> QED
      BY <1>1, <2>2, <2>3 DEF Sound
  <1> HIDE DEF Gone
  <1>4. CASE Leave(p)
    <2>1. PICK c \in Calls("left") : Away(p, "left") = Gone(c)
      BY <1>2
    <2>2. phone' = [phone EXCEPT ![p] = Gone(c)] /\ UNCHANGED <<day, check>>
      BY <1>4, <2>1 DEF Leave
    <2> QED
      BY <1>3, <2>2, PhoneStep
  <1>5. CASE SignOut(p)
    <2>1. PICK c \in Calls("left") : Away(p, "left") = Gone(c)
      BY <1>2
    <2> DEFINE q == Gone(c)
               r == [q EXCEPT !.driver = None]
    <2>2. /\ q \in Phone /\ ~q.open /\ Sound(q) /\ q.call = c
          /\ c.stage = old.call.stage /\ c.vehicle = old.call.vehicle
          /\ c.day = old.call.day /\ c.sent = old.call.sent
      BY <1>3
    <2>3. phone' = [phone EXCEPT ![p] = r] /\ UNCHANGED <<day, check>>
      BY <1>5, <2>1 DEF SignOut
    <2> HIDE DEF q
    <2>4. r \in Phone /\ ~r.open /\ r.call = c
      BY <2>2 DEF Phone
    <2>5. Sound(r)
      BY <2>2, <2>4 DEF Sound
    <2> HIDE DEF r
    <2> QED
      BY <2>2, <2>3, <2>4, <2>5, PhoneStep
  <1>6. CASE Close(p)
    <2>1. PICK c \in Calls("closed") : Away(p, "closed") = Gone(c)
      BY <1>2
    <2> DEFINE d == Detached(old.call, "closed")
               q == Gone(c)
               r == [q EXCEPT !.call = d]
    <2>2. q \in Phone /\ ~q.open
      BY <1>3
    <2>3. /\ d \in Call \cup {NoCall} /\ (d # NoCall => Required \cap Shown \subseteq d.sent)
          /\ d.stage = old.call.stage /\ d.vehicle = old.call.vehicle
          /\ d.day = old.call.day /\ d.sent = old.call.sent
      <3>1. Sound(Gone(d)) /\ Gone(d).call = d
        BY <1>3
      <3> QED
        BY <1>3, <3>1 DEF Sound, Phone
    <2>4. phone' = [phone EXCEPT ![p] = r] /\ UNCHANGED <<day, check>>
      BY <1>6, <2>1 DEF Close
    <2> HIDE DEF d, q
    <2>5. r \in Phone /\ ~r.open /\ r.call = d
      BY <2>2, <2>3 DEF Phone
    <2>6. Sound(r)
      BY <2>3, <2>5 DEF Sound
    <2> HIDE DEF r
    <2> QED
      BY <2>3, <2>4, <2>5, <2>6, PhoneStep
  <1> QED
    BY <1>4, <1>5, <1>6

\* The page is loaded, or changed by its driver.
LEMMA PageStep ==
    ASSUME IInv, NEW p \in Phones,
           \/ \E d \in Drivers : SignIn(p, d)
           \/ \E v \in Vehicles : LoadPage(p, v) \/ (phone[p].open /\ ChooseVehicle(p, v))
           \/ FailToLoad(p)
           \/ \E i \in Items : Answer(p, i) \/ AttachPhoto(p, i)
           \/ MarkAll(p) \/ ClearAll(p)
    PROVE  IInv'
  <1> DEFINE old == phone[p]
  <1>1. Sound(old) /\ old \in Phone
    BY DEF IInv, Sound
  <1>2. ASSUME NEW d \in Drivers, SignIn(p, d) PROVE IInv'
    <2> DEFINE q == [old EXCEPT !.driver = d]
    <2>1. q \in Phone /\ q.call = old.call /\ q.open = old.open /\ q.content = old.content
          /\ q.driver = d
      BY <1>1 DEF Phone
    <2>2. phone' = [phone EXCEPT ![p] = q] /\ UNCHANGED <<day, check>>
      BY <1>2 DEF SignIn
    <2> HIDE DEF q
    <2>3. Sound(q)
      BY <1>1, <2>1 DEF Sound
    <2> QED
      BY <2>1, <2>2, <2>3, PhoneStep
  <1>3. CASE FailToLoad(p)
    <2> DEFINE q == [old EXCEPT !.draft = NoContent]
    <2>1. q \in Phone /\ q.call = old.call /\ q.open = old.open /\ q.content = old.content
          /\ q.driver = old.driver
      BY <1>1 DEF Phone
    <2>2. phone' = [phone EXCEPT ![p] = q] /\ UNCHANGED <<day, check>>
      BY <1>3 DEF FailToLoad
    <2> HIDE DEF q
    <2>3. Sound(q)
      BY <1>1, <2>1 DEF Sound
    <2> QED
      BY <2>1, <2>2, <2>3, PhoneStep
  <1>4. ASSUME NEW v \in Vehicles, LoadPage(p, v) PROVE IInv'
    <2> DEFINE content == IF old.draft # NoContent THEN old.draft
                          ELSE [vehicle |-> v, answers |-> {}]
               q == [old EXCEPT !.open = TRUE, !.content = content, !.draft = content]
    <2>1. phone' = [phone EXCEPT ![p] = q] /\ UNCHANGED <<day, check>>
      BY <1>4 DEF LoadPage
    <2>2. content \in Content /\ old.driver \in Drivers
      BY <1>1, <1>4 DEF LoadPage, Phone, Content
    <2> HIDE DEF content
    <2>3. q \in Phone /\ q.call = old.call /\ q.content = content /\ q.driver = old.driver
      BY <1>1, <2>2 DEF Phone
    <2> HIDE DEF q
    <2>4. Sound(q)
      BY <1>1, <2>2, <2>3 DEF Sound
    <2> QED
      BY <2>1, <2>3, <2>4, PhoneStep
  <1>5. ASSUME NEW content \in Content, NEW photos \in SUBSET Items, Edited(p, content, photos)
        PROVE  IInv'
    <2> DEFINE q == [old EXCEPT !.content = content, !.draft = content, !.photos = photos]
    <2>1. phone' = [phone EXCEPT ![p] = q] /\ UNCHANGED <<day, check>> /\ old.open
      BY <1>5 DEF Edited
    <2>2. q \in Phone /\ q.call = old.call /\ q.content = content /\ q.driver = old.driver
      BY <1>1 DEF Phone
    <2> HIDE DEF q
    <2>3. Sound(q)
      BY <1>1, <2>1, <2>2 DEF Sound
    <2> QED
      BY <2>1, <2>2, <2>3, PhoneStep
  <1>6. ASSUME NEW i \in Items, Answer(p, i) \/ AttachPhoto(p, i) PROVE IInv'
    <2>1. old.content \in Content /\ old.photos \in SUBSET Items
      BY <1>1, <1>6 DEF Answer, AttachPhoto, Edited, Sound, Phone
    <2>2. [old.content EXCEPT !.answers = @ \cup {i}] \in Content
      BY <2>1 DEF Content
    <2> QED
      BY <1>5, <1>6, <2>1, <2>2 DEF Answer, AttachPhoto
  <1>7. CASE MarkAll(p) \/ ClearAll(p)
    <2>1. old.content \in Content /\ old.photos \in SUBSET Items
      BY <1>1, <1>7 DEF MarkAll, ClearAll, Edited, Sound, Phone
    <2>2. /\ [old.content EXCEPT !.answers = @ \cup Shown] \in Content
          /\ [old.content EXCEPT !.answers = @ \ Shown] \in Content
      BY <2>1 DEF Content
    <2> QED
      BY <1>5, <1>7, <2>1, <2>2 DEF MarkAll, ClearAll
  <1>8. ASSUME NEW v \in Vehicles, phone[p].open, ChooseVehicle(p, v) PROVE IInv'
    <2>1. old.content \in Content /\ old.photos \in SUBSET Items
      BY <1>1, <1>8 DEF Sound, Phone
    <2>2. [old.content EXCEPT !.vehicle = v] \in Content
      BY <2>1 DEF Content
    <2> QED
      BY <1>5, <1>8, <2>1, <2>2 DEF ChooseVehicle
  <1> QED
    BY <1>2, <1>3, <1>4, <1>6, <1>7, <1>8

LEMMA PressStep == ASSUME IInv, NEW p \in Phones, Press(p) PROVE IInv'
  <1> DEFINE old == phone[p]  sent == old.content.answers \cap Shown
  <1>1. Sound(old) /\ old \in Phone /\ day \in Days
    BY DEF IInv, TypeOK, Sound
  <1>2. PICK photos \in SUBSET (old.photos \cap sent) :
          phone' = [phone EXCEPT ![p].call =
            [stage |-> IF photos = {} THEN "create" ELSE "upload",
             driver |-> old.driver, vehicle |-> old.content.vehicle, day |-> day,
             sent |-> sent, photos |-> photos, page |-> "open"]]
    BY DEF Press
  <1> DEFINE stage == IF photos = {} THEN "create" ELSE "upload"
             call == [stage |-> stage, driver |-> old.driver, vehicle |-> old.content.vehicle,
                      day |-> day, sent |-> sent, photos |-> photos, page |-> "open"]
             q == [old EXCEPT !.call = call]
  <1>3. old.open /\ Complete(p) /\ UNCHANGED <<day, check>>
    BY DEF Press
  <1>4. old.content \in Content /\ old.driver \in Drivers /\ old.photos \in SUBSET Items
    BY <1>1, <1>3 DEF Sound, Phone
  <1>5. old.content.vehicle \in Vehicles /\ sent \in SUBSET Items /\ photos \in SUBSET Items
    BY <1>2, <1>4 DEF Content
  <1>6. call.stage = stage /\ call.sent = sent /\ stage \in {"create", "upload"}
    OBVIOUS
  <1>7. call \in Call
    BY <1>1, <1>4, <1>5 DEF Call
  <1>8. Required \cap Shown \subseteq sent
    BY <1>3 DEF Complete
  <1>9. phone' = [phone EXCEPT ![p] = q]
    BY <1>2
  <1> HIDE DEF call, sent, stage
  <1>10. q \in Phone /\ q.call = call /\ q.open = old.open /\ q.content = old.content
         /\ q.driver = old.driver
    BY <1>1, <1>7 DEF Phone
  <1> HIDE DEF q
  <1>11. Sound(q)
    BY <1>4, <1>6, <1>8, <1>10 DEF Sound
  <1> QED
    BY <1>3, <1>6, <1>9, <1>10, <1>11, PhoneStep

\* What becomes of a submission when nothing is written.
LEMMA CallStep ==
    ASSUME IInv, NEW p \in Phones, Upload(p) \/ Refresh(p) \/ FailCall(p)
    PROVE  IInv'
  <1> DEFINE old == phone[p]
  <1>1. /\ Sound(old) /\ old \in Phone /\ day \in Days
        /\ old.call \in Call \cup {NoCall} /\ old.content \in Content \cup {NoContent}
    BY DEF IInv, TypeOK, Sound, Phone
  <1>2. ASSUME NEW call \in Call \cup {NoCall}, call.stage # "refresh",
               call # NoCall => Required \cap Shown \subseteq call.sent,
               phone' = [phone EXCEPT ![p] = [old EXCEPT !.call = call]],
               UNCHANGED <<day, check>>
        PROVE  IInv'
    <2> DEFINE q == [old EXCEPT !.call = call]
    <2>1. q \in Phone /\ q.call = call /\ q.open = old.open /\ q.content = old.content
          /\ q.driver = old.driver
      BY <1>1, <1>2 DEF Phone
    <2>2. phone' = [phone EXCEPT ![p] = q]
      BY <1>2
    <2> HIDE DEF q
    <2>3. Sound(q)
      BY <1>1, <1>2, <2>1 DEF Sound
    <2> QED
      BY <1>2, <2>1, <2>2, <2>3, PhoneStep
  <1>3. NoCall.stage # "refresh" /\ NoCall \in Call \cup {NoCall}
    BY DEF NoCall
  <1>4. CASE FailCall(p)
    BY <1>2, <1>3, <1>4 DEF FailCall
  <1>5. CASE Upload(p)
    <2> DEFINE new == [old.call EXCEPT !.stage = "create", !.day = day]
               call == IF old.call.page = "closed" THEN NoCall ELSE new
    <2>1. old.call \in Call
      BY <1>1, <1>5 DEF Upload, NoCall
    <2>2. new \in Call /\ new.stage = "create" /\ new.sent = old.call.sent
      BY <1>1, <2>1 DEF Call
    <2>3. Required \cap Shown \subseteq old.call.sent
      BY <1>1, <2>1, NoVehicle DEF Sound
    <2>4. phone' = [phone EXCEPT ![p] = [old EXCEPT !.call = call]] /\ UNCHANGED <<day, check>>
      BY <1>5 DEF Upload
    <2>5. /\ call \in Call \cup {NoCall} /\ call.stage # "refresh"
          /\ call # NoCall => Required \cap Shown \subseteq call.sent
      BY <1>3, <2>2, <2>3
    <2> HIDE DEF call
    <2> QED
      BY <1>2, <2>4, <2>5
  <1>6. CASE Refresh(p)
    <2> DEFINE empty == [old.content EXCEPT !.answers = {}]
               emptied == [old EXCEPT !.content = empty, !.draft = empty, !.photos = {},
                                      !.call = NoCall]
               removed == [old EXCEPT !.draft = NoContent, !.call = NoCall]
               ended == [old EXCEPT !.call = NoCall]
    <2>1. PICK q \in {emptied, removed, ended} : phone' = [phone EXCEPT ![p] = q]
      <3>1. phone' = [phone EXCEPT ![p] = IF old.call.page = "open" THEN emptied
                                          ELSE IF old.call.page = "left" THEN removed ELSE ended]
        BY <1>6 DEF Refresh
      <3> HIDE DEF emptied, removed, ended
      <3> QED
        BY <3>1
    <2>2. empty \in Content \cup {NoContent} /\ (old.content \in Content => empty \in Content)
      <3>1. CASE old.content \in Content
        BY <3>1 DEF Content
      <3>2. CASE old.content = NoContent
        BY <3>2, NoVehicle DEF NoContent
      <3> QED
        BY <1>1, <3>1, <3>2
    <2> HIDE DEF empty
    <2>3. /\ emptied \in Phone /\ emptied.content = empty /\ emptied.call = NoCall
          /\ emptied.open = old.open /\ emptied.driver = old.driver
      BY <1>1, <2>2 DEF Phone
    <2>4. /\ removed \in Phone /\ removed.content = old.content /\ removed.call = NoCall
          /\ removed.open = old.open /\ removed.driver = old.driver
      BY <1>1 DEF Phone
    <2>5. /\ ended \in Phone /\ ended.content = old.content /\ ended.call = NoCall
          /\ ended.open = old.open /\ ended.driver = old.driver
      BY <1>1 DEF Phone
    <2> HIDE DEF emptied, removed, ended
    <2>6. q \in Phone /\ q.content \in {empty, old.content} /\ q.call = NoCall
          /\ q.open = old.open /\ q.driver = old.driver
      BY <2>1, <2>3, <2>4, <2>5
    <2>7. Sound(q)
      BY <1>1, <2>2, <2>6 DEF Sound
    <2>8. UNCHANGED <<day, check>>
      BY <1>6 DEF Refresh
    <2> QED
      BY <1>3, <2>1, <2>6, <2>7, <2>8, PhoneStep
  <1> QED
    BY <1>4, <1>5, <1>6

----------------------------------------------------------------------------
(* Steps that write checks. *)

LEMMA OpenedRow ==
    ASSUME TypeOK, NEW c \in Checks, NEW driver \in Drivers \cup {None},
           NEW creator \in Drivers \cup {"staff"}
    PROVE  /\ Opened(c, driver, creator) \in Row
           /\ check[c] = Absent => Opened(c, driver, creator).status = "DRAFT"
                                  /\ Opened(c, driver, creator).items = {}
           /\ check[c] # Absent => Opened(c, driver, creator).status = check[c].status
                                  /\ Opened(c, driver, creator).items = check[c].items
  <1> DEFINE old == check[c]
             other == IF driver = None THEN old.driver ELSE driver
  <1>1. CASE old = Absent
    BY <1>1 DEF Opened, Row
  <1>2. CASE old # Absent
    <2>1. old \in Row /\ other \in Drivers \cup {None}
      BY <1>2 DEF TypeOK, Row
    <2>2. Opened(c, driver, creator) = [old EXCEPT !.driver = other]
      BY <1>2 DEF Opened
    <2> HIDE DEF other
    <2>3. /\ [old EXCEPT !.driver = other] \in Row
          /\ [old EXCEPT !.driver = other].status = old.status
          /\ [old EXCEPT !.driver = other].items = old.items
      BY <2>1 DEF Row
    <2> QED
      BY <1>2, <2>2, <2>3
  <1> QED
    BY <1>1, <1>2

LEMMA SubmittedRow ==
    ASSUME TypeOK, NEW c \in Checks, check[c] # Absent, NEW items \in SUBSET Items
    PROVE  /\ Submitted(c, items) \in Row /\ Submitted(c, items).status = "SUBMITTED"
           /\ Submitted(c, items).items = check[c].items \cup items
  <1> DEFINE all == check[c].items \cup items
  <1>1. check[c] \in Row /\ all \in SUBSET Items
    BY DEF TypeOK, Row
  <1>2. Submitted(c, items) = [check[c] EXCEPT !.status = "SUBMITTED", !.items = all]
    BY DEF Submitted
  <1> HIDE DEF all
  <1>3. [check[c] EXCEPT !.status = "SUBMITTED", !.items = all] \in Row
        /\ [check[c] EXCEPT !.status = "SUBMITTED", !.items = all].status = "SUBMITTED"
        /\ [check[c] EXCEPT !.status = "SUBMITTED", !.items = all].items = all
    BY <1>1 DEF Row
  <1> QED
    BY <1>2, <1>3 DEF all

\* A check that a driver finds is there.
LEMMA FoundIsThere == ASSUME TypeOK, NEW c, NEW driver \in Drivers, Finds(c, driver)
                      PROVE  check[c] # Absent
  BY DEF Finds, Absent

\* A write that takes nothing back, beside a phone that is told only what is stored.
LEMMA WriteStep ==
    ASSUME IInv, NEW c \in Checks, NEW row \in Row, check' = [check EXCEPT ![c] = row],
           check[c].status = "SUBMITTED" => /\ row.status = "SUBMITTED"
                                            /\ check[c].items \subseteq row.items,
           day' = day, phone' \in [Phones -> Phone],
           \A p \in Phones : phone'[p] # phone[p] =>
              /\ Sound(phone'[p])
              /\ phone'[p].call.stage = "refresh" =>
                   /\ <<phone'[p].call.vehicle, phone'[p].call.day>> = c
                   /\ row.status = "SUBMITTED" /\ phone'[p].call.sent \subseteq row.items
    PROVE  IInv'
  <1>1. TypeOK'
    BY DEF IInv, TypeOK
  <1>2. \A p \in Phones : Sound(phone'[p])
    BY DEF IInv
  <1>3. \A k \in Checks : check'[k] = IF k = c THEN row ELSE check[k]
    BY DEF IInv, TypeOK
  <1>4. ASSUME NEW p \in Phones, phone'[p].call.stage = "refresh"
        PROVE  LET k == <<phone'[p].call.vehicle, phone'[p].call.day>>
               IN  /\ check'[k].status = "SUBMITTED"
                   /\ (Required \cap Shown) \cup phone'[p].call.sent \subseteq check'[k].items
    <2> DEFINE call == phone'[p].call
               k == <<call.vehicle, call.day>>
    <2>1. call \in Call /\ call # NoCall
      BY <1>2, <1>4 DEF Sound, Phone, NoCall
    <2>2. k \in Checks /\ Required \cap Shown \subseteq call.sent
      BY <1>2, <2>1 DEF Sound, Call, Checks
    <2>3. CASE phone'[p] = phone[p]
      <3>1. check[k].status = "SUBMITTED" /\ call.sent \subseteq check[k].items
        BY <1>4, <2>3 DEF IInv, AckedIsStored, HasSubmittedDailyCheck
      <3> QED
        BY <1>3, <2>2, <3>1
    <2>4. CASE phone'[p] # phone[p]
      BY <1>3, <1>4, <2>2, <2>4
    <2> QED
      BY <2>3, <2>4
  <1> QED
    BY <1>1, <1>2, <1>4 DEF IInv, AckedIsStored, HasSubmittedDailyCheck

\* A submission goes on to its next request or, with its page closed, no further.
LEMMA OnwardCall ==
    ASSUME NEW p, Sound(phone[p]), phone[p].call.stage # "none",
           NEW stage \in {"submit", "refresh"}
    PROVE  LET q == [phone[p] EXCEPT !.call = Onward(p, stage)]
           IN  /\ q \in Phone /\ Sound(q) /\ q.call = Onward(p, stage)
               /\ q.call.stage \in {stage, "none"}
               /\ q.call.stage = stage => /\ q.call.vehicle = phone[p].call.vehicle
                                          /\ q.call.day = phone[p].call.day
                                          /\ q.call.sent = phone[p].call.sent
  <1> DEFINE old == phone[p]
             call == Onward(p, stage)
             q == [old EXCEPT !.call = call]
  <1>1. old \in Phone /\ old.call \in Call /\ Required \cap Shown \subseteq old.call.sent
    BY NoVehicle DEF Sound, Phone, NoCall
  <1> DEFINE next == [old.call EXCEPT !.stage = stage]
  <1>2. /\ next \in Call /\ next.stage = stage /\ next.vehicle = old.call.vehicle
        /\ next.day = old.call.day /\ next.sent = old.call.sent
    BY <1>1 DEF Call
  <1>3. call = IF old.call.page = "closed" THEN NoCall ELSE next
    BY DEF Onward
  <1> HIDE DEF next
  <1>4. NoCall.stage = "none"
    BY DEF NoCall
  <1>5. /\ call \in Call \cup {NoCall} /\ call.stage \in {stage, "none"}
        /\ call # NoCall => Required \cap Shown \subseteq call.sent
        /\ call.stage = stage => /\ call.vehicle = old.call.vehicle
                                 /\ call.day = old.call.day /\ call.sent = old.call.sent
    BY <1>1, <1>2, <1>3, <1>4
  <1> HIDE DEF call
  <1>6. q \in Phone /\ q.call = call /\ q.open = old.open /\ q.content = old.content
        /\ q.driver = old.driver
    BY <1>1, <1>5 DEF Phone
  <1> HIDE DEF q
  <1>7. Sound(q)
    BY <1>5, <1>6 DEF Sound
  <1> QED
    BY <1>5, <1>6, <1>7 DEF call, q

\* The check that a submission is about.
LEMMA CallCheck ==
    ASSUME IInv, NEW p \in Phones, phone[p].call.stage # "none"
    PROVE  /\ <<phone[p].call.vehicle, phone[p].call.day>> \in Checks
           /\ phone[p].call.driver \in Drivers /\ phone[p].call.sent \in SUBSET Items
  <1>1. phone[p].call \in Call
    BY DEF IInv, Sound, Phone, NoCall
  <1> QED
    BY <1>1 DEF Call, Checks

LEMMA CreateStep == ASSUME IInv, NEW p \in Phones, Create(p) PROVE IInv'
  <1> DEFINE call == phone[p].call
             c == <<call.vehicle, call.day>>
             q == [phone[p] EXCEPT !.call = Onward(p, "submit")]
             row == Opened(c, call.driver, call.driver)
  <1>1. /\ call.stage = "create" /\ day' = day /\ check' = [check EXCEPT ![c] = row]
        /\ phone' = [phone EXCEPT ![p] = q]
    BY DEF Create
  <1>2. Sound(phone[p]) /\ TypeOK
    BY DEF IInv
  <1>3. c \in Checks /\ call.driver \in Drivers
    BY <1>1, CallCheck
  <1>4. q \in Phone /\ Sound(q) /\ q.call.stage # "refresh"
    BY <1>1, <1>2, OnwardCall
  <1>5. row \in Row
        /\ (check[c].status = "SUBMITTED" =>
              row.status = "SUBMITTED" /\ check[c].items \subseteq row.items)
    BY <1>2, <1>3, OpenedRow DEF Absent
  <1> HIDE DEF q, row, c
  <1>6. phone' \in [Phones -> Phone] /\ \A o \in Phones : phone'[o] = IF o = p THEN q ELSE phone[o]
    BY <1>1, <1>2, <1>4 DEF TypeOK
  <1> QED
    BY <1>1, <1>3, <1>4, <1>5, <1>6, WriteStep

LEMMA SubmitStep == ASSUME IInv, NEW p \in Phones, Submit(p) PROVE IInv'
  <1> DEFINE call == phone[p].call
             c == <<call.vehicle, call.day>>
             sent == call.sent
             row == Submitted(c, sent)
             q == [phone[p] EXCEPT !.call = Onward(p, "refresh")]
             ended == [phone[p] EXCEPT !.call = NoCall]
  <1>1. call.stage = "submit" /\ day' = day
    BY DEF Submit
  <1>2. Sound(phone[p]) /\ TypeOK /\ phone[p] \in Phone
    BY DEF IInv, Sound
  <1>3. c \in Checks /\ call.driver \in Drivers /\ sent \in SUBSET Items
    BY <1>1, CallCheck
  <1>4. CASE Finds(c, call.driver) /\ check' = [check EXCEPT ![c] = row]
             /\ phone' = [phone EXCEPT ![p] = q]
    <2>1. check[c] # Absent
      BY <1>2, <1>3, <1>4, FoundIsThere
    <2>2. row \in Row /\ row.status = "SUBMITTED" /\ row.items = check[c].items \cup sent
      BY <1>2, <1>3, <2>1, SubmittedRow
    <2>3. /\ q \in Phone /\ Sound(q)
          /\ q.call.stage = "refresh" => /\ <<q.call.vehicle, q.call.day>> = c
                                         /\ q.call.sent = sent
      BY <1>1, <1>2, OnwardCall
    <2> HIDE DEF q, row, c, sent
    <2>4. phone' \in [Phones -> Phone]
          /\ \A o \in Phones : phone'[o] = IF o = p THEN q ELSE phone[o]
      BY <1>2, <1>4, <2>3 DEF TypeOK
    <2> QED
      BY <1>1, <1>3, <1>4, <2>2, <2>3, <2>4, WriteStep
  <1>5. CASE phone' = [phone EXCEPT ![p] = ended] /\ check' = check
    <2>1. NoCall.stage = "none"
      BY DEF NoCall
    <2>2. ended \in Phone /\ ended.call = NoCall /\ ended.open = phone[p].open
          /\ ended.content = phone[p].content /\ ended.driver = phone[p].driver
      BY <1>2 DEF Phone
    <2> HIDE DEF ended
    <2>3. Sound(ended)
      BY <1>2, <2>2 DEF Sound
    <2> QED
      BY <1>1, <1>5, <2>1, <2>2, <2>3, PhoneStep
  <1> QED
    BY <1>4, <1>5 DEF Submit

LEMMA StaffStep ==
    ASSUME IInv, NEW c \in Checks,
           \/ \E d \in Drivers \cup {None} : StaffOpen(c, d)
           \/ \E items \in SUBSET Items : StaffSubmit(c, items)
    PROVE  IInv'
  <1>1. TypeOK
    BY DEF IInv
  <1>2. ASSUME NEW d \in Drivers \cup {None}, StaffOpen(c, d) PROVE IInv'
    <2> DEFINE row == Opened(c, d, "staff")
    <2>1. row \in Row
          /\ (check[c].status = "SUBMITTED" =>
                row.status = "SUBMITTED" /\ check[c].items \subseteq row.items)
      BY <1>1, OpenedRow DEF Absent
    <2>2. check' = [check EXCEPT ![c] = row] /\ UNCHANGED <<day, phone>>
      BY <1>2 DEF StaffOpen
    <2> HIDE DEF row
    <2>3. phone' \in [Phones -> Phone]
      BY <1>1, <2>2 DEF TypeOK
    <2> QED
      BY <2>1, <2>2, <2>3, WriteStep
  <1>3. ASSUME NEW items \in SUBSET Items, StaffSubmit(c, items) PROVE IInv'
    <2> DEFINE row == Submitted(c, items)
    <2>1. check' = [check EXCEPT ![c] = row] /\ UNCHANGED <<day, phone>> /\ check[c] # Absent
      BY <1>3 DEF StaffSubmit
    <2>2. row \in Row /\ row.status = "SUBMITTED" /\ check[c].items \subseteq row.items
      BY <1>1, <2>1, SubmittedRow
    <2> HIDE DEF row
    <2>3. phone' \in [Phones -> Phone]
      BY <1>1, <2>1 DEF TypeOK
    <2> QED
      BY <2>1, <2>2, <2>3, WriteStep
  <1> QED
    BY <1>2, <1>3

----------------------------------------------------------------------------
(* Theorems. *)

LEMMA IInvInit == Init => IInv
  <1> SUFFICES ASSUME Init PROVE IInv
    OBVIOUS
  <1> DEFINE q == [driver |-> None, open |-> FALSE, content |-> NoContent,
                   photos |-> {}, draft |-> NoContent, call |-> NoCall]
  <1>1. q \in Phone /\ Sound(q) /\ q.call.stage = "none"
    BY DEF Sound, Phone, NoCall
  <1>2. phone = [p \in Phones |-> q] /\ day = 0 /\ check = [c \in Checks |-> Absent]
    BY DEF Init
  <1> HIDE DEF q
  <1> QED
    BY <1>1, <1>2, DaysType DEF IInv, TypeOK, AckedIsStored

LEMMA IInvStep == IInv /\ [Next]_vars => IInv'
  <1> SUFFICES ASSUME IInv, [Next]_vars PROVE IInv'
    OBVIOUS
  <1>1. ASSUME NEW p \in Phones, UsePhone(p) PROVE IInv'
    BY <1>1, AwayStep, PageStep, PressStep, CallStep, CreateStep, SubmitStep DEF UsePhone
  <1>2. ASSUME NEW c \in Checks,
               \/ \E d \in Drivers \cup {None} : StaffOpen(c, d)
               \/ \E items \in SUBSET Items : StaffSubmit(c, items)
        PROVE  IInv'
    BY <1>2, StaffStep
  <1>3. CASE NextDay
    <2>1. day' \in Days
      BY <1>3 DEF NextDay, IInv, TypeOK, Days
    <2> QED
      BY <1>3, <2>1 DEF NextDay, IInv, TypeOK, AckedIsStored, HasSubmittedDailyCheck
  <1>4. CASE UNCHANGED vars
    BY <1>4 DEF vars, IInv, TypeOK, AckedIsStored, HasSubmittedDailyCheck
  <1> QED
    BY <1>1, <1>2, <1>3, <1>4 DEF Next

\* The invariant the following theorems rest on.
THEOREM ChecksInvariant == Spec => []IInv
  BY IInvInit, IInvStep, PTL DEF Spec

\* The rows, the phones and their submissions keep to their types.
THEOREM ChecksTypeCorrect == Spec => []TypeOK
  <1>1. IInv => TypeOK
    BY DEF IInv
  <1> QED
    BY <1>1, ChecksInvariant, PTL

\* What a phone is told has been submitted has been, complete.
THEOREM AckedAlwaysStored == Spec => []AckedIsStored
  <1>1. IInv => AckedIsStored
    BY DEF IInv
  <1> QED
    BY <1>1, ChecksInvariant, PTL

----------------------------------------------------------------------------
(* Refinement. *)

\* A check that is written as the API writes it is opened, submitted or left as it was.
LEMMA RowPromised ==
    ASSUME TypeOK, TypeOK', NEW c \in Checks, NEW row, check' = [check EXCEPT ![c] = row],
           \/ check[c] = Absent /\ row.status = "DRAFT" /\ row.items = {}
           \/ row.status = check[c].status /\ row.items = check[c].items
           \/ /\ check[c] # Absent /\ row.status = "SUBMITTED"
              /\ \E items \in (SUBSET Items) \ {{}} : row.items = check[c].items \cup items
    PROVE  [Promise!Next]_(Promise!vars)
  <1> DEFINE status == [k \in Checks |-> check[k].status]
             answered == [k \in Checks |-> check[k].items]
  <1>1. \A k \in Checks : check'[k] = IF k = c THEN row ELSE check[k]
    BY DEF TypeOK
  <1>2. status' = [status EXCEPT ![c] = row.status]
    <2>1. status' = [k \in Checks |-> check'[k].status]
      BY DEF Checks, Days
    <2>2. \A k \in Checks : check'[k].status = IF k = c THEN row.status ELSE status[k]
      BY <1>1
    <2>3. [k \in Checks |-> check'[k].status] = [status EXCEPT ![c] = row.status]
      BY <2>2
    <2> QED
      BY <2>1, <2>3
  <1>3. answered' = [answered EXCEPT ![c] = row.items]
    <2>1. answered' = [k \in Checks |-> check'[k].items]
      BY DEF Checks, Days
    <2>2. \A k \in Checks : check'[k].items = IF k = c THEN row.items ELSE answered[k]
      BY <1>1
    <2>3. [k \in Checks |-> check'[k].items] = [answered EXCEPT ![c] = row.items]
      BY <2>2
    <2> QED
      BY <2>1, <2>3
  <1>4. CASE check[c] = Absent /\ row.status = "DRAFT" /\ row.items = {}
    <2>1. status[c] = "ABSENT" /\ answered[c] = {}
      BY <1>4 DEF Absent
    <2>2. answered' = answered
      BY <1>3, <1>4, <2>1
    <2>3. Promise!Open(c)
      BY <1>2, <1>4, <2>1, <2>2 DEF Promise!Open
    <2> QED
      BY <2>3 DEF Promise!Next
  <1>5. CASE row.status = check[c].status /\ row.items = check[c].items
    <2>1. status' = status /\ answered' = answered
      BY <1>2, <1>3, <1>5
    <2> QED
      BY <2>1 DEF Promise!vars
  <1>6. ASSUME NEW items \in (SUBSET Items) \ {{}}, check[c] # Absent, row.status = "SUBMITTED",
               row.items = check[c].items \cup items
        PROVE  [Promise!Next]_(Promise!vars)
    <2>1. status[c] # "ABSENT"
      BY <1>6 DEF TypeOK, Row
    <2>2. answered' = [answered EXCEPT ![c] = @ \cup items]
      BY <1>3, <1>6
    <2>3. Promise!Submit(c, items)
      BY <1>2, <1>6, <2>1, <2>2 DEF Promise!Submit
    <2> QED
      BY <2>3 DEF Promise!Next
  <1> QED
    BY <1>4, <1>5, <1>6

LEMMA CheckPromised ==
    ASSUME IInv, IInv', [Next]_vars
    PROVE  [Promise!Next]_(Promise!vars)
  <1>1. TypeOK /\ TypeOK'
    BY DEF IInv
  <1>2. ASSUME NEW c \in Checks, NEW driver \in Drivers \cup {None},
               NEW creator \in Drivers \cup {"staff"},
               check' = [check EXCEPT ![c] = Opened(c, driver, creator)]
        PROVE  [Promise!Next]_(Promise!vars)
    BY <1>1, <1>2, OpenedRow, RowPromised
  <1>3. ASSUME NEW c \in Checks, NEW items \in (SUBSET Items) \ {{}}, check[c] # Absent,
               check' = [check EXCEPT ![c] = Submitted(c, items)]
        PROVE  [Promise!Next]_(Promise!vars)
    BY <1>1, <1>3, SubmittedRow, RowPromised
  <1>4. CASE check' = check
    BY <1>4 DEF Promise!vars
  <1>5. ASSUME NEW p \in Phones, Create(p) PROVE [Promise!Next]_(Promise!vars)
    <2>1. phone[p].call.stage # "none"
      BY <1>5 DEF Create
    <2> QED
      BY <1>2, <1>5, <2>1, CallCheck DEF Create
  <1>6. ASSUME NEW p \in Phones, Submit(p) PROVE [Promise!Next]_(Promise!vars)
    <2> DEFINE call == phone[p].call  c == <<call.vehicle, call.day>>
    <2>1. c \in Checks /\ call.driver \in Drivers /\ call.sent \in SUBSET Items
      BY <1>6, CallCheck DEF Submit
    <2>2. ASSUME Valid(call.sent, call.photos), Finds(c, call.driver),
                 check' = [check EXCEPT ![c] = Submitted(c, call.sent)]
          PROVE  [Promise!Next]_(Promise!vars)
      <3>1. check[c] # Absent /\ call.sent \in (SUBSET Items) \ {{}}
        BY <1>1, <2>1, <2>2, FoundIsThere DEF Valid
      <3> QED
        BY <1>3, <2>1, <2>2, <3>1
    <2> QED
      BY <1>4, <1>6, <2>2 DEF Submit
  <1>7. ASSUME NEW p \in Phones, UsePhone(p) PROVE [Promise!Next]_(Promise!vars)
    BY <1>4, <1>5, <1>6, <1>7
       DEF UsePhone, SignIn, SignOut, Leave, Close, LoadPage, ChooseVehicle, FailToLoad, Answer,
           AttachPhoto, Edited, MarkAll, ClearAll, Press, Upload, Refresh, FailCall
  <1>8. ASSUME NEW c \in Checks, NEW d \in Drivers \cup {None}, StaffOpen(c, d)
        PROVE  [Promise!Next]_(Promise!vars)
    BY <1>2, <1>8 DEF StaffOpen
  <1>9. ASSUME NEW c \in Checks, NEW items \in SUBSET Items, StaffSubmit(c, items)
        PROVE  [Promise!Next]_(Promise!vars)
    <2>1. /\ check[c] # Absent /\ items \in (SUBSET Items) \ {{}}
          /\ check' = [check EXCEPT ![c] = Submitted(c, items)]
      BY <1>9 DEF StaffSubmit, Valid
    <2> QED
      BY <1>3, <2>1
  <1> QED
    BY <1>4, <1>7, <1>8, <1>9 DEF Next, NextDay, vars

\* Phones and staff, whatever they do at the same time, keep what CheckPromise says.
THEOREM ChecksKeepPromise == Spec => KeepsPromise
  <1>1. Init => Promise!Init
    BY DEF Init, Promise!Init, Absent
  <1> QED
    BY <1>1, ChecksInvariant, CheckPromised, PTL DEF Spec, KeepsPromise, Promise!Spec

----------------------------------------------------------------------------
(* What would keep the promise that AnswersKept refutes: that the page can  *)
(* always be loaded and has a place for every item, and that drivers wait   *)
(* for an answer before they change the page or come back to it.            *)

\* While a submission of the phone is under way the page stays as it is or is left.
Waits ==
    \A p \in Phones : phone[p].call # NoCall /\ ~Refresh(p) =>
        phone'[p].content \in {phone[p].content, NoContent}

\* The page that is open is in the draft, and so is what is being sent.
Faithful(q) ==
    /\ q.open => q.content = q.draft
    /\ ~q.open => q.content = NoContent
    /\ q.call # NoCall => /\ q.draft.answers \subseteq q.call.sent
                          /\ q.draft.vehicle = q.call.vehicle
                          /\ q.open => q.call.page = "open"

KeptInv == IInv /\ \A p \in Phones : Faithful(phone[p])

Kept(p) ==
    \/ Held(p) \subseteq Held(p)' \cup Stored(phone[p].draft.vehicle)
    \/ ClearAll(p)

\* A phone that becomes q keeps what it holds, if q holds it.
LEMMA KeptAs ==
    ASSUME KeptInv, NEW p \in Phones, NEW q, phone' = [phone EXCEPT ![p] = q], Faithful(q),
           phone[p].content.answers \cup phone[p].draft.answers
              \subseteq q.content.answers \cup q.draft.answers \/ ClearAll(p)
    PROVE  Faithful(phone'[p]) /\ Kept(p)
  <1>1. phone'[p] = q
    BY DEF KeptInv, IInv, TypeOK
  <1> QED
    BY <1>1 DEF Kept, Held

\* Leaving the page, whatever becomes of its submission.
LEMMA AwayKeeps ==
    ASSUME KeptInv, NEW p \in Phones, SignOut(p) \/ Leave(p) \/ Close(p)
    PROVE  Faithful(phone'[p]) /\ Kept(p)
  <1> DEFINE old == phone[p]
  <1>1. /\ Faithful(old) /\ old \in Phone /\ old.call \in Call \cup {NoCall}
        /\ phone \in [Phones -> Phone]
    BY DEF KeptInv, IInv, TypeOK, Phone
  <1>2. PICK q \in Phone : /\ phone' = [phone EXCEPT ![p] = q]
                           /\ ~q.open /\ q.content = NoContent /\ q.draft = old.draft
                           /\ q.call.sent = old.call.sent /\ q.call.vehicle = old.call.vehicle
                           /\ (q.call = NoCall <=> old.call = NoCall)
    <2>1. ASSUME NEW call \in {old.call, Detached(old.call, "left"), Detached(old.call, "closed")},
                 NEW driver \in {old.driver, None}
          PROVE  LET q == [old EXCEPT !.open = FALSE, !.content = NoContent, !.photos = {},
                                      !.call = call, !.driver = driver]
                 IN  /\ q \in Phone /\ ~q.open /\ q.content = NoContent /\ q.draft = old.draft
                     /\ q.call.sent = old.call.sent /\ q.call.vehicle = old.call.vehicle
                     /\ (q.call = NoCall <=> old.call = NoCall)
      <3>1. /\ call \in Call \cup {NoCall} /\ call.sent = old.call.sent
            /\ call.vehicle = old.call.vehicle /\ (call = NoCall <=> old.call = NoCall)
        BY <1>1, <2>1, DetachedCall
      <3> DEFINE q == [old EXCEPT !.open = FALSE, !.content = NoContent, !.photos = {},
                                  !.call = call, !.driver = driver]
      <3>2. driver \in Drivers \cup {None}
        BY <1>1, PhoneFields
      <3>3. /\ q.driver = driver /\ q.open = FALSE /\ q.content = NoContent /\ q.photos = {}
            /\ q.draft = old.draft /\ q.call = call
        BY <1>1 DEF Phone
      <3>4. q \in Phone
        BY <1>1, <3>1, <3>2 DEF Phone
      <3> HIDE DEF q
      <3>5. (q.call = NoCall) <=> (old.call = NoCall)
        BY <3>1, <3>3
      <3> QED
        BY <3>1, <3>3, <3>4, <3>5 DEF q
    <2> DEFINE with(call, driver) ==
                 [old EXCEPT !.open = FALSE, !.content = NoContent, !.photos = {},
                             !.call = call, !.driver = driver]
    <2>2. \E call \in {old.call, Detached(old.call, "left"), Detached(old.call, "closed")},
             driver \in {old.driver, None} : phone' = [phone EXCEPT ![p] = with(call, driver)]
      <3>1. CASE SignOut(p)
        <4>1. phone' = [phone EXCEPT ![p] = [Away(p, "left") EXCEPT !.driver = None]]
          BY <3>1 DEF SignOut
        <4>2. [Away(p, "left") EXCEPT !.driver = None]
                = with(IF old.call.page = "open" THEN Detached(old.call, "left") ELSE old.call, None)
          BY <1>1 DEF Away, Phone
        <4> QED
          BY <4>1, <4>2
      <3>2. CASE Leave(p)
        <4>1. phone' = [phone EXCEPT ![p] = Away(p, "left")]
          BY <3>2 DEF Leave
        <4>2. Away(p, "left")
                = with(IF old.call.page = "open" THEN Detached(old.call, "left") ELSE old.call, old.driver)
          BY <1>1 DEF Away, Phone
        <4> QED
          BY <4>1, <4>2
      <3>3. CASE Close(p)
        <4>1. phone' = [phone EXCEPT ![p] = [Away(p, "closed") EXCEPT !.call = Detached(old.call, "closed")]]
          BY <3>3 DEF Close
        <4>2. [Away(p, "closed") EXCEPT !.call = Detached(old.call, "closed")]
                = with(Detached(old.call, "closed"), old.driver)
          BY <1>1 DEF Away, Phone
        <4> QED
          BY <4>1, <4>2
      <3> QED
        BY <3>1, <3>2, <3>3
    <2> QED
      BY <2>1, <2>2
  <1>3. Faithful(q)
    BY <1>1, <1>2 DEF Faithful
  <1>4. old.content.answers \cup old.draft.answers \subseteq q.content.answers \cup q.draft.answers
    BY <1>1, <1>2 DEF Faithful, NoContent
  <1> QED
    BY <1>2, <1>3, <1>4, KeptAs

\* Loading the page, and whatever the driver changes on it.
LEMMA PageKeeps ==
    ASSUME KeptInv, IInv', Waits, Offline = FALSE, NEW p \in Phones,
           \/ \E d \in Drivers : SignIn(p, d)
           \/ \E v \in Vehicles : LoadPage(p, v) \/ (phone[p].open /\ ChooseVehicle(p, v))
           \/ FailToLoad(p)
           \/ \E i \in Items : Answer(p, i) \/ AttachPhoto(p, i)
           \/ MarkAll(p) \/ ClearAll(p)
    PROVE  Faithful(phone'[p]) /\ Kept(p)
  <1> DEFINE old == phone[p]
  <1>1. /\ Faithful(old) /\ old \in Phone /\ phone \in [Phones -> Phone]
        /\ Sound(phone'[p])
    BY DEF KeptInv, IInv, TypeOK
  \* A page that shows something new has no submission under way.
  <1>2. ASSUME NEW content, NEW photos,
               phone' = [phone EXCEPT ![p] = [old EXCEPT !.open = TRUE, !.content = content,
                                                         !.draft = content, !.photos = photos]],
               old.draft.answers \subseteq content.answers \/ ClearAll(p)
        PROVE  Faithful(phone'[p]) /\ Kept(p)
    <2> DEFINE q == [old EXCEPT !.open = TRUE, !.content = content, !.draft = content, !.photos = photos]
    <2>1. phone'[p] = q
      BY <1>1, <1>2
    <2>2. q.open /\ q.content = content /\ q.draft = content /\ q.call = old.call
      BY <1>1 DEF Phone
    <2>3. content # NoContent
      BY <1>1, <2>1, <2>2, NoVehicle DEF Sound
    <2>4. old.call # NoCall => old.open /\ content = old.content
      <3>1. ASSUME Refresh(p) PROVE q.call = NoCall
        <4>1. PICK r \in {[old EXCEPT !.content = [old.content EXCEPT !.answers = {}],
                                      !.draft = [old.content EXCEPT !.answers = {}],
                                      !.photos = {}, !.call = NoCall],
                          [old EXCEPT !.draft = NoContent, !.call = NoCall],
                          [old EXCEPT !.call = NoCall]} : phone' = [phone EXCEPT ![p] = r]
          BY <3>1 DEF Refresh
        <4>2. r.call = NoCall
          BY <1>1 DEF Phone
        <4> HIDE DEF q
        <4> QED
          BY <1>1, <2>1, <4>1, <4>2
      <3> QED
        BY <1>1, <2>1, <2>2, <2>3, <3>1 DEF Waits, Faithful
    <2>5. Faithful(q)
      BY <1>1, <2>2, <2>4 DEF Faithful
    <2>6. old.content.answers \subseteq old.draft.answers
      BY <1>1 DEF Faithful, NoContent
    <2> HIDE DEF q
    <2> QED
      BY <1>2, <2>2, <2>5, <2>6, KeptAs DEF q
  <1>3. ASSUME NEW content, NEW photos, Edited(p, content, photos),
               old.draft.answers \subseteq content.answers \/ ClearAll(p)
        PROVE  Faithful(phone'[p]) /\ Kept(p)
    <2>1. [old EXCEPT !.content = content, !.draft = content, !.photos = photos]
            = [old EXCEPT !.open = TRUE, !.content = content, !.draft = content, !.photos = photos]
      BY <1>1, <1>3 DEF Edited, Phone
    <2> QED
      BY <1>2, <1>3, <2>1 DEF Edited
  <1>4. old.open => old.content = old.draft /\ old.content \in Content
    BY <1>1 DEF KeptInv, IInv, Sound, Faithful
  <1>5. CASE \E d \in Drivers : SignIn(p, d)
    <2>1. PICK d \in Drivers : SignIn(p, d)
      BY <1>5
    <2> DEFINE q == [old EXCEPT !.driver = d]
    <2>2. phone' = [phone EXCEPT ![p] = q]
      BY <2>1 DEF SignIn
    <2>3. /\ q.open = old.open /\ q.content = old.content /\ q.draft = old.draft
          /\ q.call = old.call
      BY <1>1 DEF Phone
    <2>4. Faithful(q)
      BY <1>1, <2>3 DEF Faithful
    <2> HIDE DEF q
    <2> QED
      BY <2>2, <2>3, <2>4, KeptAs
  <1>6. ASSUME NEW v \in Vehicles, LoadPage(p, v) PROVE Faithful(phone'[p]) /\ Kept(p)
    <2> DEFINE content == IF old.draft # NoContent THEN old.draft ELSE [vehicle |-> v, answers |-> {}]
    <2>1. phone' = [phone EXCEPT ![p] = [old EXCEPT !.open = TRUE, !.content = content,
                                                    !.draft = content]]
      BY <1>6 DEF LoadPage
    <2>2. [old EXCEPT !.open = TRUE, !.content = content, !.draft = content]
            = [old EXCEPT !.open = TRUE, !.content = content, !.draft = content, !.photos = old.photos]
      BY <1>1 DEF Phone
    <2>3. old.draft.answers \subseteq content.answers
      BY DEF NoContent
    <2> HIDE DEF content
    <2> QED
      BY <1>2, <2>1, <2>2, <2>3
  <1>7. ASSUME NEW v \in Vehicles, old.open, ChooseVehicle(p, v) PROVE Faithful(phone'[p]) /\ Kept(p)
    <2>1. Edited(p, [old.content EXCEPT !.vehicle = v], old.photos)
      BY <1>7 DEF ChooseVehicle
    <2>2. [old.content EXCEPT !.vehicle = v].answers = old.draft.answers
      BY <1>4, <1>7 DEF Content
    <2> QED
      BY <1>3, <2>1, <2>2
  <1>8. ~FailToLoad(p)
    BY DEF FailToLoad
  <1>9. ASSUME NEW more \in SUBSET Items,
               Edited(p, [old.content EXCEPT !.answers = @ \cup more], old.photos)
        PROVE  Faithful(phone'[p]) /\ Kept(p)
    <2>1. old.open
      BY <1>9 DEF Edited
    <2>2. old.draft.answers \subseteq [old.content EXCEPT !.answers = @ \cup more].answers
      BY <1>4, <2>1 DEF Content
    <2> QED
      BY <1>3, <1>9, <2>2
  <1>10. ASSUME NEW i \in Items, Answer(p, i) PROVE Faithful(phone'[p]) /\ Kept(p)
    <2>1. Edited(p, [old.content EXCEPT !.answers = @ \cup {i}], old.photos)
      BY <1>10 DEF Answer
    <2>2. {i} \in SUBSET Items
      BY <1>10
    <2> DEFINE one == {i}
    <2>3. Edited(p, [old.content EXCEPT !.answers = @ \cup one], old.photos) /\ one \in SUBSET Items
      BY <2>1, <2>2
    <2> HIDE DEF one
    <2> QED
      BY <1>9, <2>3
  <1>11. ASSUME MarkAll(p) PROVE Faithful(phone'[p]) /\ Kept(p)
    BY <1>9, <1>11, CheckAssumption DEF MarkAll
  <1>12. ASSUME ClearAll(p) PROVE Faithful(phone'[p]) /\ Kept(p)
    BY <1>3, <1>12 DEF ClearAll
  <1>13. ASSUME NEW i \in Items, AttachPhoto(p, i) PROVE Faithful(phone'[p]) /\ Kept(p)
    <2>1. Edited(p, old.content, old.photos \cup {i})
      BY <1>13 DEF AttachPhoto
    <2>2. old.content = old.draft
      BY <1>4, <2>1 DEF Edited
    <2> QED
      BY <1>3, <2>1, <2>2
  <1> QED
    BY <1>5, <1>6, <1>7, <1>8, <1>10, <1>11, <1>12, <1>13
\* A submission that goes on is of the same answers and page, or is over.
LEMMA GoesOnKeeps ==
    ASSUME KeptInv, NEW p \in Phones, NEW call, phone' = [phone EXCEPT ![p].call = call],
           \/ call = NoCall
           \/ /\ phone[p].call # NoCall
              /\ call.sent = phone[p].call.sent /\ call.vehicle = phone[p].call.vehicle
              /\ call.page = phone[p].call.page
           \/ /\ phone[p].open
              /\ call.sent = phone[p].content.answers /\ call.vehicle = phone[p].content.vehicle
              /\ call.page = "open"
    PROVE  Faithful(phone'[p]) /\ Kept(p)
  <1> DEFINE old == phone[p]  q == [old EXCEPT !.call = call]
  <1>1. Faithful(old) /\ old \in Phone
    BY DEF KeptInv, IInv, TypeOK
  <1>2. q.open = old.open /\ q.content = old.content /\ q.draft = old.draft /\ q.call = call
    BY <1>1 DEF Phone
  <1>3. phone' = [phone EXCEPT ![p] = q]
    OBVIOUS
  <1> HIDE DEF q
  <1>4. Faithful(q)
    BY <1>1, <1>2 DEF Faithful
  <1> QED
    BY <1>2, <1>3, <1>4, KeptAs

LEMMA PressKeeps ==
    ASSUME KeptInv, Items \subseteq Shown, NEW p \in Phones, Press(p)
    PROVE  Faithful(phone'[p]) /\ Kept(p)
  <1> DEFINE old == phone[p]  sent == old.content.answers \cap Shown
  <1>1. PICK photos \in SUBSET (old.photos \cap sent) :
          phone' = [phone EXCEPT ![p].call =
            [stage |-> IF photos = {} THEN "create" ELSE "upload",
             driver |-> old.driver, vehicle |-> old.content.vehicle, day |-> day,
             sent |-> sent, photos |-> photos, page |-> "open"]]
    BY DEF Press
  <1>2. old.open /\ sent = old.content.answers
    <2>1. old.open /\ old.content \in Content
      BY DEF Press, KeptInv, IInv, Sound
    <2> QED
      BY <2>1 DEF Content
  <1> DEFINE call == [stage |-> IF photos = {} THEN "create" ELSE "upload",
                      driver |-> old.driver, vehicle |-> old.content.vehicle, day |-> day,
                      sent |-> sent, photos |-> photos, page |-> "open"]
  <1>3. /\ call.sent = old.content.answers /\ call.vehicle = old.content.vehicle
        /\ call.page = "open"
    BY <1>2
  <1>4. phone' = [phone EXCEPT ![p].call = call]
    BY <1>1
  <1> HIDE DEF call
  <1> QED
    BY <1>2, <1>3, <1>4, GoesOnKeeps

\* A page empties its form when the answers are stored.
LEMMA RefreshKeeps ==
    ASSUME KeptInv, NEW p \in Phones, Refresh(p)
    PROVE  Faithful(phone'[p]) /\ Kept(p)
  <1> DEFINE old == phone[p]  empty == [old.content EXCEPT !.answers = {}]
  <1>1. /\ Faithful(old) /\ old \in Phone /\ old.call # NoCall /\ old.call \in Call
        /\ phone \in [Phones -> Phone]
    BY DEF KeptInv, IInv, TypeOK, Refresh, NoCall, Phone
  <1>2. Held(p) \subseteq Stored(old.draft.vehicle)
    <2> DEFINE c == <<old.call.vehicle, old.call.day>>
    <2>1. c \in Checks /\ c[1] = old.call.vehicle
      BY <1>1 DEF Call, Checks
    <2>2. HasSubmittedDailyCheck(c) /\ old.call.sent \subseteq check[c].items
      BY DEF Refresh, KeptInv, IInv, AckedIsStored
    <2> HIDE DEF c
    <2>3. check[c].items \subseteq Stored(old.call.vehicle)
      BY <2>1, <2>2 DEF Stored
    <2>4. Held(p) \subseteq old.draft.answers
      BY <1>1 DEF Held, Faithful, NoContent
    <2> QED
      BY <1>1, <2>2, <2>3, <2>4 DEF Faithful
  <1>3. Kept(p)
    BY <1>2 DEF Kept
  <1>4. CASE old.call.page = "closed"
    BY <1>4, GoesOnKeeps, <1>1 DEF Refresh
  <1>5. CASE old.call.page = "left"
    <2> DEFINE q == [old EXCEPT !.draft = NoContent, !.call = NoCall]
    <2>1. phone'[p] = q
      BY <1>1, <1>5 DEF Refresh
    <2>2. ~old.open
      BY <1>1, <1>5 DEF Faithful
    <2>3. q.open = old.open /\ q.content = old.content /\ q.call = NoCall
      BY <1>1 DEF Phone
    <2> HIDE DEF q
    <2> QED
      BY <1>1, <1>3, <2>1, <2>2, <2>3 DEF Faithful
  <1>6. CASE old.call.page = "open"
    <2> DEFINE q == [old EXCEPT !.content = empty, !.draft = empty, !.photos = {}, !.call = NoCall]
    <2>1. phone'[p] = q
      BY <1>1, <1>6 DEF Refresh
    <2>2. q.open = old.open /\ q.content = empty /\ q.draft = empty /\ q.call = NoCall
      BY <1>1 DEF Phone
    <2>3. ~old.open => empty = NoContent
      BY <1>1 DEF Faithful, NoContent
    <2> HIDE DEF q, empty
    <2> QED
      BY <1>3, <2>1, <2>2, <2>3 DEF Faithful
  <1> QED
    BY <1>1, <1>4, <1>5, <1>6 DEF Call

\* A submission on its way, whatever it is answered.
LEMMA CallKeeps ==
    ASSUME KeptInv, NEW p \in Phones,
           Upload(p) \/ Create(p) \/ Submit(p) \/ Refresh(p) \/ FailCall(p)
    PROVE  Faithful(phone'[p]) /\ Kept(p)
  <1> DEFINE old == phone[p]
  <1>1. old.call \in Call \cup {NoCall} /\ NoCall.stage = "none"
    BY DEF KeptInv, IInv, TypeOK, Phone, NoCall
  <1>2. ASSUME NEW stage, old.call # NoCall,
               phone' = [phone EXCEPT ![p].call = Onward(p, stage)]
        PROVE  Faithful(phone'[p]) /\ Kept(p)
    <2>1. CASE old.call.page = "closed"
      BY <1>2, <2>1, GoesOnKeeps DEF Onward
    <2>2. CASE old.call.page # "closed"
      <3> DEFINE call == [old.call EXCEPT !.stage = stage]
      <3>1. /\ call.sent = old.call.sent /\ call.vehicle = old.call.vehicle
            /\ call.page = old.call.page
        BY <1>1, <1>2 DEF Call
      <3>2. phone' = [phone EXCEPT ![p].call = call]
        BY <1>2, <2>2 DEF Onward
      <3> HIDE DEF call
      <3> QED
        BY <1>2, <3>1, <3>2, GoesOnKeeps
    <2> QED
      BY <2>1, <2>2
  <1>3. CASE Upload(p)
    <2>1. old.call # NoCall /\ old.call \in Call
      BY <1>1, <1>3 DEF Upload
    <2>2. CASE old.call.page = "closed"
      BY <1>3, <2>2, GoesOnKeeps DEF Upload
    <2>3. CASE old.call.page # "closed"
      <3> DEFINE call == [old.call EXCEPT !.stage = "create", !.day = day]
      <3>1. /\ call.sent = old.call.sent /\ call.vehicle = old.call.vehicle
            /\ call.page = old.call.page
        BY <2>1 DEF Call
      <3>2. phone' = [phone EXCEPT ![p].call = call]
        BY <1>3, <2>3 DEF Upload
      <3> HIDE DEF call
      <3> QED
        BY <2>1, <3>1, <3>2, GoesOnKeeps
    <2> QED
      BY <2>2, <2>3
  <1>4. CASE Create(p)
    BY <1>1, <1>2, <1>4 DEF Create
  <1>5. CASE Submit(p)
    BY <1>1, <1>2, <1>5, GoesOnKeeps DEF Submit
  <1>6. CASE FailCall(p)
    BY <1>6, GoesOnKeeps DEF FailCall
  <1> QED
    BY <1>3, <1>4, <1>5, <1>6, RefreshKeeps

LEMMA KeptStep ==
    ASSUME KeptInv, Offline = FALSE, Items \subseteq Shown, [Next /\ Waits]_vars
    PROVE  KeptInv' /\ [\A p \in Phones : Kept(p)]_vars
  <1>1. IInv'
    BY IInvStep DEF KeptInv
  <1>2. ASSUME NEW p \in Phones, phone'[p] = phone[p] PROVE Faithful(phone'[p]) /\ Kept(p)
    BY <1>2 DEF KeptInv, Kept, Held
  <1>3. CASE UNCHANGED phone
    BY <1>1, <1>2, <1>3 DEF KeptInv
  <1>4. ASSUME NEW p \in Phones, UsePhone(p), Waits
        PROVE  /\ Faithful(phone'[p]) /\ Kept(p)
               /\ \A o \in Phones \ {p} : phone'[o] = phone[o]
    <2>1. Faithful(phone'[p]) /\ Kept(p)
      BY <1>1, <1>4, AwayKeeps, PageKeeps, PressKeeps, CallKeeps DEF UsePhone
    <2>2. \E q : phone' = [phone EXCEPT ![p] = q]
      BY <1>4 DEF UsePhone, SignIn, SignOut, Leave, Close, LoadPage, ChooseVehicle, FailToLoad,
                  Answer, AttachPhoto, Edited, MarkAll, ClearAll, Press, Upload, Create, Submit,
                  Refresh, FailCall
    <2>3. phone \in [Phones -> Phone]
      BY DEF KeptInv, IInv, TypeOK
    <2> QED
      BY <2>1, <2>2, <2>3
  <1>5. CASE \E p \in Phones : UsePhone(p) /\ Waits
    <2>1. PICK p \in Phones : UsePhone(p) /\ Waits
      BY <1>5
    <2>2. \A o \in Phones : Faithful(phone'[o]) /\ Kept(o)
      BY <1>2, <1>4, <2>1
    <2> QED
      BY <1>1, <2>2 DEF KeptInv
  <1> QED
    BY <1>3, <1>5 DEF Next, StaffOpen, StaffSubmit, NextDay, vars

\* If the page can always be loaded and has a place for every item, and drivers wait for
\* the answer to a submission, then answers disappear from a phone only when the driver
\* clears them or a submitted check has them (the draft of DriverChecklistPage).
THEOREM AnswersKeptWhileWaiting ==
    ASSUME Offline = FALSE, Items \subseteq Shown
    PROVE  Init /\ [][Next /\ Waits]_vars => AnswersKept
  <1>1. Init => KeptInv
    <2>1. Init => \A p \in Phones : Faithful(phone[p])
      BY DEF Init, Faithful
    <2> QED
      BY <2>1, IInvInit DEF KeptInv
  <1>2. KeptInv /\ [Next /\ Waits]_vars => KeptInv'
    BY KeptStep
  <1>3. KeptInv /\ [Next /\ Waits]_vars
          => [\A p \in Phones :
                \/ Held(p) \subseteq Held(p)' \cup Stored(phone[p].draft.vehicle)
                \/ ClearAll(p)]_vars
    BY KeptStep DEF Kept
  <1> QED
    BY <1>1, <1>2, <1>3, PTL DEF AnswersKept
=============================================================================

------------------------------ MODULE MCAreas ------------------------------
(***************************************************************************)
(* Instances for TLC of the parts that share nothing with each other. An   *)
(* area is chosen to begin with, and only its own state ever changes: the  *)
(* states are those of six specifications, one beside the other.          *)
(***************************************************************************)
EXTENDS ApiEnvironment, FleetStatus, ContactDirectory, SettingsPage, FuelEntries, OnboardingBatch

VARIABLE area

Imports == {"import", "import of a part", "overlapping imports"}
Fuelings == {"fuel", "overlapping fuel requests"}
Areas == {"environment", "status", "contacts", "page"} \cup Imports \cup Fuelings

----------------------------------------------------------------------------
(* Workbooks: one that is right, with a row of every kind, one with a site twice, and   *)
(* one whose rows refer to a site and an employee that the company must have already.   *)

Small(n) == [name |-> n, capital |-> FALSE]
Big(n) == [name |-> n, capital |-> TRUE]
Codes(n) == {Small(n), Big(n)}

Workbooks ==
    LET blank == [key |-> Small("none"), card |-> Small("none"), site |-> Small("none"),
                  number |-> Small("none"), role |-> "NONE", sound |-> TRUE]
        site == [blank EXCEPT !.key = Big("s1")]
        driver == [blank EXCEPT !.key = Big("k1"), !.role = "SITE_SUPERVISOR", !.site = Small("s1")]
        right ==
          [Sites |-> <<site>>,
           Drivers |-> <<driver>>,
           Vehicles_Cards |-> <<[blank EXCEPT !.key = Big("x1"), !.card = Small("c1"),
                                              !.site = Big("s1")]>>,
           Driver_Compliance |-> <<[blank EXCEPT !.key = Small("x1"), !.number = Small("k1")]>>,
           Supervisor_Sites |-> <<[blank EXCEPT !.number = Big("k1"), !.site = Big("s1")]>>,
           Tanks |-> <<[blank EXCEPT !.key = Small("x1"), !.site = Small("s1")]>>,
           Equipment |-> <<[blank EXCEPT !.key = Small("x1"), !.site = Small("s1")]>>]
    IN  [right |-> right,
         wrong |-> [right EXCEPT !.Sites = @ \o <<[site EXCEPT !.key = Small("s1")]>>],
         referring |-> [right EXCEPT !.Sites = <<[site EXCEPT !.key = Small("s2")]>>,
                            !.Drivers = <<[driver EXCEPT !.key = Small("k2"), !.role = "DRIVER"]>>]]

WorkbookFiles == {Workbooks[kind] : kind \in DOMAIN Workbooks}

CodesOfSite == Codes("s1") \cup {Small("s2")}
NumbersOfEmployee == Codes("k1") \cup {Small("k2")}
OtherCodes == Codes("x1") \cup {Small("c1")}

ASSUME OnboardingAssumption == ImportConstantsFit

\* One request beside administrators, and either the workbook that refers to what the
\* company has, or the others; or two requests that overlap without administrators. The
\* codes that workbook adds itself are given by administrators only while it is
\* committed, to one that had another, and they do no more then or afterwards.
ImportBounded ==
    LET its == {Small("s2"), Small("k2")}
        Has(codes) == its \cap codes # {}
    IN  IF area = "overlapping imports" THEN Operate
        ELSE /\ \/ Operate
                \/ /\ Administer /\ ~Has(sites \cup Employed)
                   /\ Has((sites \cup Employed)') =>
                        /\ importing["r1"].stage = "commit"
                        /\ Cardinality((sites \cup Employed)') = Cardinality(sites \cup Employed)
             /\ importing'["r2"] = NoRequest
             /\ batch'.file \in {NoFile} \cup IF area = "import"
                                             THEN {Workbooks.right, Workbooks.wrong}
                                             ELSE {Workbooks.referring}

----------------------------------------------------------------------------
(* Fueling: a vehicle new to the log, or with a baseline. *)

Logged(n, reading) ==
    [vehicle |-> "v1", site |-> None, date |-> -1, reading |-> reading, fallback |-> FALSE,
     source |-> "TANK", receipt |-> FALSE, liters |-> 40, createdAt |-> n]

Entered ==
    {[reading |-> 1100, fallback |-> FALSE, upload |-> FALSE, liters |-> 130,
      source |-> "APPROVED_SOURCE"],
     [reading |-> None, fallback |-> TRUE, upload |-> FALSE, liters |-> 40, source |-> "STATION"]}
Logs ==
    {<<>>, <<Logged(-5, 700), Logged(-4, 800), Logged(-3, 900), Logged(-2, 1000)>>}

ASSUME FuelingAssumption == FuelConstantsFit

\* No sites, as whoever sees everything is told the same; one entry of staff where there
\* is a baseline and no check. Either one request at a time, with two forms, checks before
\* all else, faults with the first form, nothing edited, checked or entered while it is
\* sent, fallbacks for yesterday, and no receipt for what staff enter; or two that overlap
\* each other and the entry, of one form that is the fallback's, with a baseline and that
\* receipt, without checks.
FuelBounded ==
    LET draft == phone'["p1"].draft
    IN  /\ FuelNext
        /\ home' = [v \in Vehicles |-> None] /\ \A k \in DOMAIN log' : log'[k].site = None
        /\ Cardinality({k \in DOMAIN log' : log'[k].createdAt >= 0 /\ origin'[k] = None})
             <= (IF Len(log') >= 4 /\ checked'["v1"] = None THEN 1 ELSE 0)
        /\ \A k \in DOMAIN log' \ DOMAIN log : origin'[k] = None =>
             log'[k].receipt = (area # "fuel")
        /\ IF area = "fuel"
           THEN /\ request'["q2"] = None /\ clock' < MaxClock /\ forms' <= 2
                /\ checked' # checked => clock = 0 /\ log # <<>>
                /\ faults' # faults => forms' = 1
                /\ request["q1"] # None /\ clock' # clock => request' # request
                /\ IF phone'["p1"].step # "form" THEN draft = phone["p1"].draft
                   ELSE phone["p1"].step = "form" /\ phone' # phone =>
                          (draft.date < clock \div 3 => draft.content.fallback)
           ELSE /\ checked' = checked /\ forms' <= 1 /\ log # <<>>
                /\ draft # phone["p1"].draft /\ phone["p1"].draft # None =>
                     phone["p1"].draft.content = Blank /\ draft.content.fallback /\ draft.date = 0
                /\ request["q2"] = None /\ request'["q2"] # None => request["q1"] # None

----------------------------------------------------------------------------
(* Checks, compliance and the dashboard. *)

Unseen == [d \in Drivers |-> [assigned |-> {}, supervised |-> {}, fueled |-> {}]]

\* Checks are those of the day, of a driver, with at most one kind of issue; the
\* vehicle changes in one hour. With compliance types, the master data of the first
\* hour and drafts only. A dashboard is read without them, at the end of the first
\* day and the start of the second, of the company or the site the vehicle begins at, and
\* where no check has issues or is of another day.
StatusNext ==
    /\ Next
    /\ dashboard' # None =>
         /\ now' \in 2..3 /\ drivers' = Unseen /\ \A t \in Types : types'[t] = None
         /\ dashboard'.scope.sites \subseteq {"s1"}
         /\ dashboard'.scope.full \/ dashboard'.scope.sites # {}
         /\ \A c \in DOMAIN checks' :
              checks'[c] # None => checks'[c].notOk = {} /\ c[2] = dashboard'.date
    /\ \A c \in DOMAIN checks' :
         /\ checks'[c] # None =>
              checks'[c].driver # None /\ checks'[c].notOk # {"critical", "other"}
         /\ checks'[c] # checks[c] => c[2] = Today
    /\ vehicles' # vehicles =>
         /\ now = 1 \/ dashboard # None
         /\ \A v \in Vehicles : checks[<<v, 1>>] = None
    /\ \A d \in Drivers :
         Cardinality(drivers'[d].assigned) + Cardinality(drivers'[d].supervised)
           + Cardinality(drivers'[d].fueled) <= 1
    /\ IF \A t \in Types : types'[t] = None
       THEN drivers' = Unseen
       ELSE /\ types' # types => now = 0 /\ drivers = Unseen
            /\ <<drivers, checks, records>>' # <<drivers, checks, records>> => now = 0
            /\ \A c \in DOMAIN checks' :
                 checks'[c] # None /\ <<types, checks>>' # <<types, checks>>
                    => checks'[c].status = "DRAFT"

----------------------------------------------------------------------------
(* Contacts. *)

GivenRows ==
    LET Given(role, phone_, email, active, user) ==
          [role |-> role, phone |-> phone_, email |-> email, active |-> active, user |-> user]
    IN  {Given("CUSTOM", "n1", None, TRUE, None),
         Given("CUSTOM", None, "m1", TRUE, None),
         Given("SITE_SUPERVISOR", "n1", "m1", TRUE, "u1"),
         Given("CUSTOM", None, None, FALSE, None)}

\* Updates are where no contact has a site, without settings, and overlap at the only
\* contact; where there are two, the later one is updated. Settings are for one. The
\* contacts, and the editors, are alike, so the second ones begin after the first.
ContactsBounded ==
    LET known == Cardinality({c \in Contacts : contacts'[c] # None})
        alone == settings' = None /\ \A c \in Contacts : assigned'[c] = {}
        busy  == Cardinality({e \in Editors : editing'[e] # None})
    IN  /\ busy > 0 => alone
        /\ known = 2 => /\ settings' = None /\ busy <= 1
                        /\ \A e \in Editors : editing'[e] # None => editing'[e].contact = "c2"
        /\ users' # users => settings # None
        /\ contacts'["c2"] # None => contacts'["c1"] # None
        /\ editing["e2"] = None /\ editing'["e2"] # None => editing["e1"] # None
        /\ \A c \in Contacts : assigned'[c] \subseteq {"s1"}

----------------------------------------------------------------------------
(* The settings page. *)

ASSUME SettingsAssumption == PageConstantsFit

\* One site and none are chosen. Nothing is saved while the preview is refreshed, and
\* nobody else saves then or where loads and saves have crossed.
PageBounded ==
    /\ PageNext
    /\ page'.site \in {"s1", None}
    /\ previews' # NoPreviews => save' = None /\ page'.edited = {}
    /\ stored' # stored /\ save' = save => doubts = {} /\ previews = NoPreviews
    /\ Cardinality(doubts') <= 1

----------------------------------------------------------------------------
MCInit ==
    /\ area \in Areas
    /\ IF area = "environment" THEN EnvInit
       ELSE up = FALSE /\ environment = CHOOSE c \in Configs : TRUE
    /\ Init
    /\ \A v \in Vehicles : vehicles[v] = [site |-> "s1", active |-> area = "status"]
    /\ ContactsInit
    /\ \A u \in Users : users[u] = [role |-> "SITE_SUPERVISOR", active |-> TRUE, email |-> "m1"]
    /\ ImportInit
    /\ FuelInit
    /\ PageInit
    /\ area # "page" => ~stored.enabled /\ ~stored.scope
    /\ home = [v \in Vehicles |-> None] /\ (area \notin Fuelings => log = <<>>)

Environment ==
    /\ area = "environment" /\ (Boot \/ Redeploy)
    /\ UNCHANGED <<area, vars, contactVars, importVars, fuelVars, settingsVars>>

Status ==
    /\ area = "status" /\ StatusNext
    /\ UNCHANGED <<area, evars, contactVars, importVars, fuelVars, settingsVars>>

Directory ==
    /\ area = "contacts" /\ ContactsNext /\ ContactsBounded
    /\ UNCHANGED <<area, evars, vars, importVars, fuelVars, settingsVars>>

Importing ==
    /\ area \in Imports /\ ImportBounded
    /\ UNCHANGED <<area, evars, vars, contactVars, fuelVars, settingsVars>>

Fuel ==
    /\ area \in Fuelings /\ FuelBounded
    /\ UNCHANGED <<area, evars, vars, contactVars, importVars, settingsVars>>

SettingsUi ==
    /\ area = "page" /\ PageBounded
    /\ UNCHANGED <<area, evars, vars, contactVars, importVars, fuelVars>>

MCNext == Environment \/ Status \/ Directory \/ Importing \/ Fuel \/ SettingsUi

MCSpec ==
    MCInit /\ [][MCNext]_<<area, evars, vars, contactVars, importVars, fuelVars, settingsVars>>

----------------------------------------------------------------------------
(* Properties: those of the parts. *)

\* Types: what every part keeps is of the form that its module says.
TypesOK ==
    CASE area = "status" -> TypeOK
      [] area = "contacts" -> ContactsTypeOK
      [] area \in Imports -> ImportTypeOK
      [] area \in Fuelings -> FuelTypeOK
      [] area = "page" -> PageTypeOK
      [] area = "environment" -> environment \in Configs /\ up \in BOOLEAN
=============================================================================

---------------------------- MODULE FleetStatus ----------------------------
(***************************************************************************)
(* What the dashboard says of the daily checks and the compliance records. *)
(* Nothing of it is stored: the alerts engine, the dashboard and the list  *)
(* of records each compute it anew, in the scope of who asks, from what    *)
(* drivers and staff have entered until then.                              *)
(***************************************************************************)
EXTENDS Company, Integers, Sequences, FiniteSets

CONSTANTS
    Drivers, Types,
    Hours,          \* hours of a day (24)
    Offset,         \* the server's clock is that many hours before UTC's, or behind if negative
    Cutoff,         \* the local hour after which a check is missing (9)
    Week,           \* days of checks looked at, the day asked for among them (7)
    FrequentSkips,  \* drafts in them that make a driver skip frequently (3)
    RepeatedIssues, \* days with issues in them that make a vehicle's repeated (2)
    ExpiryWindow,   \* days before its expiry that a record is expiring soon (30)
    MaxNow, MaxRecords  \* bounds

\* The server may be in any time zone: nothing says which.
ASSUME StatusAssumption ==
    /\ Hours \in Nat \ {0} /\ Offset \in Int /\ Cutoff \in Nat
    /\ {Week, FrequentSkips, RepeatedIssues, ExpiryWindow, MaxNow, MaxRecords} \subseteq Nat
    /\ IsFiniteSet(Vehicles)
    /\ None \notin Int /\ None \notin Sites

VARIABLES
    now,        \* hours
    vehicles,   \* the site of each vehicle, and whether it is active
    drivers,    \* the sites each driver is assigned to, supervises and has fueled at
    checks,     \* the check of each vehicle and date
    types,      \* compliance types
    records,    \* compliance records, in the order they were created
    dashboard   \* what the request for a dashboard that is under way has read

vars == <<now, vehicles, drivers, checks, types, records, dashboard>>

Today == now \div Hours
LocalDay == (now + Offset) \div Hours
LocalHour == (now + Offset) % Hours
Dates == 0..(MaxNow \div Hours)

Vehicle == [site: Sites \cup {None}, active: BOOLEAN]
Driver == [assigned: SUBSET Sites, supervised: SUBSET Sites, fueled: SUBSET Sites]

\* notOk tells whether some of the items that are not OK are critical.
Check == [status: {"DRAFT", "SUBMITTED"}, driver: Drivers \cup {None},
          site: Sites \cup {None}, notOk: SUBSET {"critical", "other"}]

ASSUME NoneIsNoCheck == None \notin Check

ComplianceType == [appliesTo: {"DRIVER", "VEHICLE"}, requiresExpiry: BOOLEAN, active: BOOLEAN]
ComplianceRecord == [type: Types, target: Vehicles \cup Drivers, expiry: Int \cup {None}]

\* A dashboard counts the checks that are missing, and then has the alerts computed: each
\* reads the active vehicles and those whose check of the date is submitted, None until
\* it has. alertsFor is the date the alerts are asked for, None until they are, and passed
\* whether its cutoff had passed then. disturbed collects the vehicles that changed
\* meanwhile, or whose check went to another site; nothing reads it.
Readings == {"count", "alerts"}
Dashboard ==
    [scope: Scopes, date: Dates, alertsFor: Dates \cup {None}, passed: BOOLEAN,
     active: [Readings -> (SUBSET Vehicles) \cup {None}],
     submitted: [Readings -> (SUBSET Vehicles) \cup {None}],
     disturbed: SUBSET Vehicles]

Disturb(v, dates) ==
    dashboard' = IF dashboard # None /\ dashboard.date \in dates
                 THEN [dashboard EXCEPT !.disturbed = @ \cup {v}]
                 ELSE dashboard

TypeOK ==
    /\ now \in 0..MaxNow
    /\ vehicles \in [Vehicles -> Vehicle]
    /\ drivers \in [Drivers -> Driver]
    /\ checks \in [Vehicles \X Dates -> Check \cup {None}]
    /\ types \in [Types -> ComplianceType \cup {None}]
    /\ records \in Seq(ComplianceRecord) /\ Len(records) <= MaxRecords
    /\ dashboard \in Dashboard \cup {None}

Init ==
    /\ now = 0
    /\ vehicles \in [Vehicles -> Vehicle]
    /\ drivers = [d \in Drivers |-> [assigned |-> {}, supervised |-> {}, fueled |-> {}]]
    /\ checks = [c \in Vehicles \X Dates |-> None]
    /\ types = [t \in Types |-> None]
    /\ records = <<>>
    /\ dashboard = None

----------------------------------------------------------------------------
(* Daily checks. *)

\* A check is opened for a driver or for nobody, at the site given or else the vehicle's;
\* one that is there takes over the driver and the site that are given.
OpenCheck(v, date, driver, site) ==
    LET old == checks[<<v, date>>]
        Given(x, y) == IF x = None THEN y ELSE x
    IN  /\ checks' = [checks EXCEPT ![<<v, date>>] =
              IF old = None
              THEN [status |-> "DRAFT", driver |-> driver, notOk |-> {},
                    site |-> Given(site, vehicles[v].site)]
              ELSE [old EXCEPT !.driver = Given(driver, @), !.site = Given(site, @)]]
        /\ Disturb(v, IF old # None /\ site # None THEN {date} ELSE {})
        /\ UNCHANGED <<now, vehicles, drivers, types, records>>

SubmitCheck(v, date, notOk) ==
    /\ checks[<<v, date>>] # None
    /\ checks' = [checks EXCEPT ![<<v, date>>].status = "SUBMITTED", ![<<v, date>>].notOk = notOk]
    /\ UNCHANGED <<now, vehicles, drivers, types, records, dashboard>>

----------------------------------------------------------------------------
(* Compliance types and records. *)

CreateType(t, appliesTo, requiresExpiry) ==
    /\ types[t] = None
    /\ types' = [types EXCEPT ![t] =
         [appliesTo |-> appliesTo, requiresExpiry |-> requiresExpiry, active |-> TRUE]]
    /\ UNCHANGED <<now, vehicles, drivers, checks, records, dashboard>>

\* What a type applies to stays; records of it that lack an expiry do, too.
UpdateType(t, requiresExpiry, active) ==
    /\ types[t] # None
    /\ types' = [types EXCEPT ![t] = [@ EXCEPT !.requiresExpiry = requiresExpiry, !.active = active]]
    /\ UNCHANGED <<now, vehicles, drivers, checks, records, dashboard>>

\* The sites of a driver: those they are given and those they were seen at.
SeenAt(d) ==
    drivers[d].assigned \cup drivers[d].supervised \cup drivers[d].fueled
    \cup {checks[c].site : c \in {x \in DOMAIN checks : checks[x] # None /\ checks[x].driver = d}}

\* The list's filter (driverScopeWhere, vehicleScopeWhere)
Accessible(target, scope) ==
    \/ scope.full
    \/ /\ scope.sites # {}
       /\ \/ target \in Vehicles /\ vehicles[target].site \in scope.sites
          \/ target \in Drivers /\ SeenAt(target) \cap scope.sites # {}

\* createComplianceRecord. Nothing is ever updated or deleted. What changes between its
\* checks and its write could as well change after it.
CreateRecord(scope, t, target, expiry) ==
    /\ types[t] # None /\ types[t].active
    /\ target \in IF types[t].appliesTo = "DRIVER" THEN Drivers ELSE Vehicles
    /\ types[t].requiresExpiry => expiry # None
    /\ Accessible(target, scope)
    /\ Len(records) < MaxRecords
    /\ records' = Append(records, [type |-> t, target |-> target, expiry |-> expiry])
    /\ UNCHANGED <<now, vehicles, drivers, checks, types, dashboard>>

----------------------------------------------------------------------------
(* Master data, fueling and time. *)

ChangeVehicle(v, vehicle) ==
    /\ vehicles' = [vehicles EXCEPT ![v] = vehicle]
    /\ Disturb(v, Dates)
    /\ UNCHANGED <<now, drivers, checks, types, records>>

ChangeDriver(d, driver) ==
    /\ drivers' = [drivers EXCEPT ![d] = driver]
    /\ UNCHANGED <<now, vehicles, checks, types, records, dashboard>>

Tick ==
    /\ now < MaxNow
    /\ now' = now + 1
    /\ UNCHANGED <<vehicles, drivers, checks, types, records, dashboard>>

----------------------------------------------------------------------------
(* The list of records: what it says of each, in a window of some days. *)

\* Mutation: a record has expired on the day it expires.
ExpiredThatDay(r) == records[r].expiry # None /\ records[r].expiry <= Today

Expired(r) == records[r].expiry # None /\ records[r].expiry < Today

ExpiringWithin(r, days) == records[r].expiry # None /\ records[r].expiry \in Today..Today + days

\* within is the window asked for, or None: then all records are listed.
ListedRecords(scope, within) ==
    {r \in DOMAIN records : /\ Accessible(records[r].target, scope)
                            /\ within # None => ExpiringWithin(r, within)}

----------------------------------------------------------------------------
(* The alerts engine. *)

\* Mutation: a check without a site is nobody's who sees only some sites.
CheckInScopeIfSited(c, scope) == scope.full \/ checks[c].site \in scope.sites

CheckInScope(c, scope) ==
    \/ scope.full
    \/ checks[c].site \in scope.sites
    \/ checks[c].site = None /\ vehicles[c[1]].site \in scope.sites

Filed(scope, status) ==
    {c \in DOMAIN checks : /\ checks[c] # None /\ checks[c].status = status
                           /\ CheckInScope(c, scope)}

ActiveVehicles(scope) ==
    {v \in Vehicles : vehicles[v].active /\ (scope.full \/ vehicles[v].site \in scope.sites)}

CutoffPassed(date) == date < Today \/ (date = Today /\ LocalHour >= Cutoff)

\* Mutation: the day that is asked for is not where the checks end.
MissingSince(scope, date) ==
    IF CutoffPassed(date)
    THEN {v \in ActiveVehicles(scope) :
             \A day \in Dates : day >= date => <<v, day>> \notin Filed(scope, "SUBMITTED")}
    ELSE {}

\* missing_daily_check
Missing(scope, date) ==
    IF CutoffPassed(date)
    THEN {v \in ActiveVehicles(scope) : <<v, date>> \notin Filed(scope, "SUBMITTED")}
    ELSE {}

Lately(date) == date - (Week - 1)..date

WithIssues(scope, dates) ==
    {c \in Filed(scope, "SUBMITTED") : c[2] \in dates /\ checks[c].notOk # {}}

CheckAlerts(scope, date) ==
    UNION {LET critical == "critical" \in checks[c].notOk
               days == {x \in WithIssues(scope, Lately(date)) : x[1] = c[1]}
           IN  {<<"checklist_issue_reported", IF critical THEN "HIGH" ELSE "MEDIUM", c>>}
               \cup (IF critical THEN {<<"critical_checklist_issue", "HIGH", c>>} ELSE {})
               \cup (IF Cardinality(days) >= RepeatedIssues
                     THEN {<<"repeated_checklist_issues_vehicle", "MEDIUM", c>>} ELSE {})
           : c \in WithIssues(scope, {date})}

\* driver_frequent_skips
Skippers(scope, date) ==
    IF CutoffPassed(date)
    THEN {d \in Drivers :
             Cardinality({c \in Filed(scope, "DRAFT") : c[2] \in Lately(date) /\ checks[c].driver = d})
               >= FrequentSkips}
    ELSE {}

\* The engine's own filter of records, and its own idea of when they expire: today's,
\* for whichever date the alerts are asked.
Expiring(scope) ==
    {r \in DOMAIN records :
        /\ records[r].expiry # None /\ records[r].expiry <= Today + ExpiryWindow
        /\ LET target == records[r].target IN
             \/ scope.full
             \/ target \in Vehicles /\ vehicles[target].site \in scope.sites
             \/ target \in Drivers /\ SeenAt(target) \cap scope.sites # {}}

ComplianceAlert(r) ==
    IF records[r].expiry < Today THEN <<"compliance_expired", "HIGH", r>>
    ELSE <<"compliance_expiring_soon", "MEDIUM", r>>

Alerts(scope, date) ==
    {ComplianceAlert(r) : r \in Expiring(scope)}
    \cup {<<"missing_daily_check", "HIGH", v>> : v \in Missing(scope, date)}
    \cup CheckAlerts(scope, date)
    \cup {<<"driver_frequent_skips", "MEDIUM", d>> : d \in Skippers(scope, date)}

----------------------------------------------------------------------------
(* The dashboard: some numbers of its own, others from the alerts of its date. *)

\* submittedVehicleIds
SubmittedVehicles(scope, date) == {v \in Vehicles : <<v, date>> \in Filed(scope, "SUBMITTED")}

\* Numbers of its own: checks are missing before the cutoff as well.
Counted(scope) ==
    LET OfToday(status) == {c \in Filed(scope, status) : c[2] = Today}
        InSight(targets) == {x \in targets : Accessible(x, scope)}
    IN  [vehicles_total |-> InSight(Vehicles),
         drivers_total |-> InSight(Drivers),
         submitted |-> OfToday("SUBMITTED"),
         pending |-> OfToday("DRAFT")]

\* Numbers of the alerts it has computed.
FromAlerts(scope, date) ==
    LET Of(names) == {a \in Alerts(scope, date) : a[1] \in names}
    IN  [compliance_expired |-> Of({"compliance_expired"}),
         compliance_expiring_soon |-> Of({"compliance_expiring_soon"}),
         checklist_issues |-> Of({"checklist_issue_reported", "critical_checklist_issue",
             "repeated_checklist_issues_vehicle", "driver_frequent_skips"})]

\* getTenantDashboardSummary: the date is that of the moment it is called.
AskDashboard(scope) ==
    /\ dashboard = None
    /\ dashboard' = [scope |-> scope, date |-> Today, alertsFor |-> None, passed |-> FALSE,
                     active |-> [r \in Readings |-> None],
                     submitted |-> [r \in Readings |-> None], disturbed |-> {}]
    /\ UNCHANGED <<now, vehicles, drivers, checks, types, records>>

\* The reads of a Promise.all come in any order. The first two are the dashboard's, the
\* others those of the alerts it asks for.
Due(reading) == dashboard # None /\ (reading = "alerts" <=> dashboard.alertsFor # None)

ReadActive(reading) ==
    /\ Due(reading) /\ dashboard.active[reading] = None
    /\ dashboard' = [dashboard EXCEPT !.active[reading] = ActiveVehicles(dashboard.scope)]
    /\ UNCHANGED <<now, vehicles, drivers, checks, types, records>>

ReadSubmitted(reading) ==
    /\ Due(reading) /\ dashboard.submitted[reading] = None
    /\ LET date == IF reading = "count" THEN dashboard.date ELSE dashboard.alertsFor
       IN  dashboard' = [dashboard EXCEPT !.submitted[reading] =
                           SubmittedVehicles(dashboard.scope, date)]
    /\ UNCHANGED <<now, vehicles, drivers, checks, types, records>>

Complete(reading) == dashboard.active[reading] # None /\ dashboard.submitted[reading] # None

\* Mutation: the alerts are asked for without a date, and take the day it is by then.
AskAlertsOfToday ==
    /\ Due("count") /\ Complete("count")
    /\ dashboard' = [dashboard EXCEPT !.alertsFor = Today, !.passed = CutoffPassed(Today)]
    /\ UNCHANGED <<now, vehicles, drivers, checks, types, records>>

AskAlerts ==
    /\ Due("count") /\ Complete("count")
    /\ dashboard' = [dashboard EXCEPT !.alertsFor = dashboard.date,
                                      !.passed = CutoffPassed(dashboard.date)]
    /\ UNCHANGED <<now, vehicles, drivers, checks, types, records>>

AnswerDashboard ==
    /\ Due("alerts") /\ Complete("alerts")
    /\ dashboard' = None
    /\ UNCHANGED <<now, vehicles, drivers, checks, types, records>>

----------------------------------------------------------------------------
Next ==
    \/ Tick
    \/ \E v \in Vehicles, date \in Dates :
          \/ \E driver \in Drivers \cup {None}, site \in Sites \cup {None} :
               OpenCheck(v, date, driver, site)
          \/ \E notOk \in SUBSET {"critical", "other"} : SubmitCheck(v, date, notOk)
    \/ \E t \in Types, requiresExpiry \in BOOLEAN :
          \/ \E appliesTo \in {"DRIVER", "VEHICLE"} : CreateType(t, appliesTo, requiresExpiry)
          \/ \E active \in BOOLEAN : UpdateType(t, requiresExpiry, active)
    \/ \E scope \in Scopes, t \in Types, target \in Vehicles \cup Drivers,
          expiry \in Dates \cup {None} : CreateRecord(scope, t, target, expiry)
    \/ \E v \in Vehicles, vehicle \in Vehicle : ChangeVehicle(v, vehicle)
    \/ \E d \in Drivers, driver \in Driver : ChangeDriver(d, driver)
    \/ \E scope \in Scopes : AskDashboard(scope)
    \/ \E reading \in Readings : ReadActive(reading) \/ ReadSubmitted(reading)
    \/ AskAlerts \/ AnswerDashboard

Spec == Init /\ [][Next]_vars

----------------------------------------------------------------------------
(* Properties. *)

\* The alerts and the list, which filter and date the records each on its own, never
\* disagree: a viewer has a compliance alert about a record just if the list shows it as
\* expired or expiring soon, and a list of what expires in the alerts' window shows just
\* those that the alerts say do (getTenantDashboardAlerts, listComplianceRecords).
ComplianceAgrees ==
    \A scope \in Scopes :
        LET Alerted(type) == {r \in Expiring(scope) : ComplianceAlert(r)[1] = type}
        IN  /\ Alerted("compliance_expired") = {r \in ListedRecords(scope, None) : Expired(r)}
            /\ Alerted("compliance_expiring_soon") = ListedRecords(scope, ExpiryWindow)

\* The two places of a dashboard that tell of missing checks, the number and the alerts,
\* agree as far as what they are about stays as it is: however the reads of the two fall,
\* midnight or the cutoff among them, if the alerts name any checks they name, of vehicles
\* that nobody disturbed, those counted, but for checks submitted by then
\* (vehiclesMissingDailyCheckToday, missing_daily_check).
DashboardAgrees ==
    dashboard # None /\ Complete("count") /\ Complete("alerts") /\ dashboard.passed =>
        LET missing == [r \in Readings |->
                          dashboard.active[r] \ (dashboard.submitted[r] \cup dashboard.disturbed)]
        IN  /\ missing["alerts"] \subseteq missing["count"]
            /\ \A v \in missing["count"] \ missing["alerts"] :
                  /\ checks[<<v, dashboard.date>>] # None
                  /\ checks[<<v, dashboard.date>>].status = "SUBMITTED"

\* Who sees some sites sees nothing that who sees the whole company does not, but for
\* checks of their vehicles that are filed at a site they do not see: those they are
\* told are missing (buildDailyCheckScope, submittedVehicleIds).
RestrictedSeesLess ==
    \A scope \in Scopes :
        LET Elsewhere(v, date) ==
              /\ checks[<<v, date>>] # None
              /\ checks[<<v, date>>].site \notin scope.sites \cup {None}
            Less(part, whole) == \A number \in DOMAIN part : part[number] \subseteq whole[number]
        IN  /\ \A date \in Dates :
                  /\ \A a \in Alerts(scope, date) \ Alerts(Everything, date) :
                        a[1] = "missing_daily_check" /\ Elsewhere(a[3], date)
                  /\ Less(FromAlerts(scope, date), FromAlerts(Everything, date))
            /\ Less(Counted(scope), Counted(Everything))

\* An alert about a missing check stays, for whoever has it, until the check or the
\* vehicle changes; only that of a day that is not over in UTC goes, too, when the
\* server's own day ends, which starts its hours anew (cutoffPassed).
MissingStays ==
    [][\A scope \in Scopes, date \in Dates : \A v \in Missing(scope, date) :
          /\ vehicles'[v] = vehicles[v]
          /\ checks'[<<v, date>>] = checks[<<v, date>>]
          /\ date = Today' => LocalDay' = LocalDay
          => v \in Missing(scope, date)']_vars
=============================================================================

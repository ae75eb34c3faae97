---------------------------- MODULE FuelAlerts ----------------------------
(***************************************************************************)
(* What the alerts engine makes of the fuel entries: it keeps nothing, and *)
(* computes the alerts of a day from the entries whenever a dashboard      *)
(* asks, in the viewer's scope. The compliance and checklist alerts of the *)
(* same answer are in FleetStatus.                                         *)
(***************************************************************************)
EXTENDS Company, Integers, FiniteSets, FiniteSetsExt, SequencesExt

CONSTANTS
    Lookback,       \* days of entries looked at before the day asked for (30)
    RepeatWindow    \* how long after a fill the next is too soon (two hours)

VARIABLE
    home    \* the site of each vehicle, or None

Sources == {"CARD", "TANK", "STATION", "MANUAL", "APPROVED_SOURCE"}

\* createdAt differs from entry to entry.
FuelEntry == [vehicle: Vehicles, site: Sites \cup {None}, date: Int, reading: Nat \cup {None},
              fallback: BOOLEAN, source: Sources, receipt: BOOLEAN, liters: Nat,
              createdAt: Int]

InScope(e, scope) ==
    \/ scope.full
    \/ e.site \in scope.sites
    \/ e.site = None /\ home[e.vehicle] \in scope.sites

----------------------------------------------------------------------------
(* Alerts that an entry gives by itself. *)

MissesReceipt(e) == e.source \in {"CARD", "STATION", "APPROVED_SOURCE"} /\ ~e.receipt

OwnAlerts(e) ==
    {type \in {"fuel_missing_receipt", "fuel_used_odometer_fallback",
               "fuel_used_approved_source", "suspicious_high_liters"} :
        CASE type = "fuel_missing_receipt" -> MissesReceipt(e)
          [] type = "fuel_used_odometer_fallback" -> e.fallback
          [] type = "fuel_used_approved_source" -> e.source = "APPROVED_SOURCE"
          [] type = "suspicious_high_liters" -> e.liters > 120}

----------------------------------------------------------------------------
(* Alerts that an entry gives after those before it. *)

\* Mutation: the entries created after this one are looked at too.
SeriesWhole(log, i, scope) ==
    {k \in DOMAIN log : /\ log[k].vehicle = log[i].vehicle
                        /\ InScope(log[k], scope)
                        /\ log[k].date \in log[i].date - Lookback .. log[i].date}

\* The entries of the vehicle up to this one, when the day of this one is asked for
Series(log, i, scope) ==
    {k \in 1..i : /\ log[k].vehicle = log[i].vehicle
                  /\ InScope(log[k], scope)
                  /\ log[k].date \in log[i].date - Lookback .. log[i].date}

Before(k, series) == Max({j \in series : j < k})

\* The distance between two entries, if both have a reading
Known(last, e) == None \notin {last.reading, e.reading}
Driven(last, e) == Max({0, e.reading - last.reading})

\* Mutation: a distance of nothing is taken for a missing one.
TooSoonUnlessStill(last, e) ==
    \/ e.createdAt - last.createdAt <= RepeatWindow
    \/ Known(last, e) /\ Driven(last, e) \in 1..30

TooSoon(last, e) ==
    \/ e.createdAt - last.createdAt <= RepeatWindow
    \/ Known(last, e) /\ Driven(last, e) <= 30

\* The baseline: the last five stretches long enough, if there are three of them.
Stretches(log, series) ==
    LET ends == {k \in series : k # Min(series)}
        long == {k \in ends : /\ Known(log[Before(k, series)], log[k])
                              /\ Driven(log[Before(k, series)], log[k]) >= 25}
    IN  {k \in long : Cardinality({l \in long : l >= k}) <= 5}

Baseline(log, series) ==
    LET stretches == Stretches(log, series)
    IN  [count  |-> Cardinality(stretches),
         liters |-> MapThenSumSet(LAMBDA k : log[k].liters, stretches),
         km     |-> MapThenSumSet(LAMBDA k : Driven(log[Before(k, series)], log[k]), stretches)]

\* What was filled, and what was expected to be, both times the baseline's km: a
\* consumption of so many percent of the expected is compared without division.
Filled(e, base) == e.liters * base.km
Expected(last, e, base) == base.liters * Driven(last, e)

HasExpectation(last, e, base) ==
    base.count >= 3 /\ Known(last, e) /\ Driven(last, e) >= 25 /\ Expected(last, e, base) > 0

AtLeastPercent(last, e, base, percent) ==
    HasExpectation(last, e, base) /\ 100 * Filled(e, base) >= percent * Expected(last, e, base)

DeviatesBy(last, e, base, percent) ==
    /\ HasExpectation(last, e, base)
    /\ LET gap == Filled(e, base) - Expected(last, e, base)
       IN  100 * Max({gap, -gap}) >= percent * Expected(last, e, base)

Weigh(holds, weight) == IF holds THEN weight ELSE 0

RiskScore(last, e, base) ==
    Weigh(MissesReceipt(e), 20) + Weigh(e.fallback, 15)
    + Weigh(e.source = "APPROVED_SOURCE", 15)
    + Weigh(DeviatesBy(last, e, base, 35), 30) + Weigh(TooSoon(last, e), 20)

\* Each with its severity
AlertsAfter(last, e, base) ==
    LET Of(type, raised, high) ==
            IF raised THEN {<<type, IF high THEN "HIGH" ELSE "MEDIUM">>} ELSE {}
    IN  Of("fueling_too_soon_after_previous_fill", TooSoon(last, e), TRUE)
        \cup Of("suspicious_high_liters_vs_distance", AtLeastPercent(last, e, base, 140),
                AtLeastPercent(last, e, base, 180))
        \cup Of("suspicious_consumption_deviation", DeviatesBy(last, e, base, 35),
                DeviatesBy(last, e, base, 60))
        \cup Of("suspicious_high_risk_combination", RiskScore(last, e, base) >= 60,
                RiskScore(last, e, base) >= 80)

SeriesAlerts(log, k, scope) ==
    LET series == Series(log, k, scope)
    IN  IF k = Min(series) THEN {}
        ELSE AlertsAfter(log[Before(k, series)], log[k], Baseline(log, series \ {k}))

EntryAlerts(log, k, scope) ==
    {<<type, IF type = "suspicious_high_liters" THEN "HIGH" ELSE "MEDIUM">> :
        type \in OwnAlerts(log[k])} \cup SeriesAlerts(log, k, scope)
=============================================================================

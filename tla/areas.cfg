SPECIFICATION MCSpec
CONSTANTS
  None = None
  Vehicles = {"v1"}
  Drivers = {"d1"}
  Sites = {"s1", "s2"}
  Types = {"t1"}
  Hours = 3
  Offset = 1
  Cutoff = 1
  Week = 2
  FrequentSkips = 2
  RepeatedIssues = 2
  ExpiryWindow = 1
  MaxNow = 5
  MaxRecords = 1
  Contacts = {"c1", "c2"}
  Editors = {"e1", "e2"}
  Users = {"u1"}
  Numbers = {"n1"}
  Emails = {"m1"}
  Rows <- GivenRows
  MaxPreviews = 1
  Phones = {"p1"}
  Calls = {"q1", "q2"}
  Day = 3
  Lookback = 30
  RepeatWindow = 1
  Contents <- Entered
  Histories <- Logs
  MaxClock = 4
  MaxFaults = 1
  Files <- WorkbookFiles
  NoFile = None
  Requests = {"r1", "r2"}
  SiteCodes <- CodesOfSite
  EmployeeNumbers <- NumbersOfEmployee
  OtherKeys <- OtherCodes
INVARIANTS TypesOK ReadinessIsTruthful ProductionDelivers StoredWhole RepeatsNeedFaults
  RepeatIsFlagged AlertsSettle ComplianceAgrees DashboardAgrees RestrictedSeesLess
  AlwaysReachable PreviewIsSent PageIsTrue
PROPERTIES KeepsAccounts MissingStays
CHECK_DEADLOCK FALSE

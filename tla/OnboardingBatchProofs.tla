----------------------- MODULE OnboardingBatchProofs -----------------------
(***************************************************************************)
(* Proofs about OnboardingBatch for any workbooks, any company and any     *)
(* number of previews and commits that overlap.                            *)
(***************************************************************************)
EXTENDS OnboardingBatch, TLAPS

----------------------------------------------------------------------------
(* Codes. *)

\* Lowering a code twice is lowering it once.
LEMMA LowerTwice == ASSUME NEW c PROVE Lower(Lower(c)) = Lower(c)
  <1>1. \A d : Lower(d) = [x \in DOMAIN d |-> IF x = "capital" THEN FALSE ELSE d[x]]
    BY DEF Lower
  <1> QED
    BY <1>1

\* What is typed stays of its kind in lower case.
LEMMA LowerType ==
    ASSUME ImportConstantsFit
    PROVE  /\ \A c \in SiteCodes : Lower(c) \in SiteCodes
           /\ \A c \in EmployeeNumbers : Lower(c) \in EmployeeNumbers
           /\ \A c \in OtherKeys : Lower(c) \in OtherKeys
           /\ \A c \in Typed : Lower(c) \in Typed /\ Lower(c) # NoCode
  BY DEF ImportConstantsFit, Typed

\* The rows of a workbook, and the keys that the sheets of sites and drivers may have.
LEMMA RowsType ==
    ASSUME ImportConstantsFit, NEW f \in Files, NEW s \in Sheets
    PROVE  /\ RowsOf(f, s) \subseteq Row
           /\ f[s] \in Seq(Row)
           /\ \A row \in RowsOf(f, s) :
                 /\ s = "Sites" => row.key \in SiteCodes \cup {NoCode}
                 /\ s = "Drivers" => row.key \in EmployeeNumbers \cup {NoCode}
  <1>1. f[s] \in Seq(Row)
    BY DEF ImportConstantsFit
  <1>2. \A i \in DOMAIN f[s] : f[s][i] \in Row
    BY <1>1
  <1> QED
    BY <1>1, <1>2 DEF ImportConstantsFit, RowsOf

\* What a code resolves to is a code that differs in capitals only.
LEMMA ResolutionsFacts ==
    ASSUME NEW codes, NEW g \in Resolutions(codes), NEW c, NoCode \notin codes
    PROVE  /\ Find(g, c) # NoCode => Find(g, c) \in codes /\ Lower(Find(g, c)) = Lower(c)
           /\ Find(g, c) = NoCode => \A d \in codes : Lower(d) # Lower(c)
  <1>1. g \in [{Lower(d) : d \in codes} -> codes] /\ \A d \in DOMAIN g : Lower(g[d]) = d
    BY DEF Resolutions
  <1>2. CASE Lower(c) \in DOMAIN g
    <2>1. Find(g, c) = g[Lower(c)] /\ g[Lower(c)] \in codes /\ Lower(g[Lower(c)]) = Lower(c)
      BY <1>1, <1>2 DEF Find
    <2> QED
      BY <2>1
  <1>3. CASE Lower(c) \notin DOMAIN g
    BY <1>1, <1>3 DEF Find
  <1> QED
    BY <1>2, <1>3

----------------------------------------------------------------------------
(* What a commit that has read knows of its workbook.  It is a fact about   *)
(* the request alone, so nothing that others do can take it away.           *)

\* A site, and an employee, of the company or of the workbook, as the validation saw them
SiteSeen(f, seen, c) ==
    \/ \E d \in seen \cap SiteCodes : Lower(d) = Lower(c)
    \/ \E row \in RowsOf(f, "Sites") : Lower(row.key) = Lower(c)

EmployeeSeen(f, seen, s, c) ==
    \/ \E d \in seen \cap EmployeeNumbers : Lower(d) = Lower(c)
    \/ \E row \in RowsOf(f, "Drivers") :
          Lower(row.key) = Lower(c) /\ (s = "Driver_Compliance" \/ row.role = "SITE_SUPERVISOR")

RowFits(f, seen, s, row) ==
    /\ \A field \in Needs[s] : row[field] # NoCode
    /\ row.site # NoCode => SiteSeen(f, seen, row.site)
    /\ row.number # NoCode => EmployeeSeen(f, seen, s, row.number)

\* Drivers are new to the company, have roles and do not repeat.
DriversFit(f, seen) ==
    /\ \A row \in RowsOf(f, "Drivers") :
          /\ row.role # "NONE"
          /\ \A d \in seen \cap EmployeeNumbers : Lower(d) # Lower(row.key)
    /\ \A row, other \in RowsOf(f, "Drivers") : Lower(row.key) = Lower(other.key) => row = other

Validated(f, seen) ==
    /\ \A s \in Sheets : \A row \in RowsOf(f, s) : RowFits(f, seen, s, row)
    /\ DriversFit(f, seen)

\* Supervisors that rows refer to were seen as such, or are the workbook's.
SupervisorsFit(f, seen, supervisors) ==
    /\ supervisors \subseteq seen \cap EmployeeNumbers
    /\ \A row \in RowsOf(f, "Supervisor_Sites") :
          \/ \E n \in supervisors : Lower(n) = Lower(row.number)
          \/ \E driver \in RowsOf(f, "Drivers") :
                Lower(driver.key) = Lower(row.number) /\ driver.role = "SITE_SUPERVISOR"

CommitsValid ==
    \A r \in Requests : importing[r].stage = "commit" =>
        /\ Validated(importing[r].file, importing[r].seen)
        /\ SupervisorsFit(importing[r].file, importing[r].seen, importing[r].supervisors)

FileRecorded == batch.recorded => batch.file # NoFile

OnboardingInv == ImportTypeOK /\ FileRecorded /\ CommitsValid

----------------------------------------------------------------------------
(* The validation. *)

LEMMA ValidationFits ==
    ASSUME ImportConstantsFit, ImportTypeOK, NEW f \in Files, ~HasErrors(f)
    PROVE  Validated(f, sites \cup Employed)
  <1> DEFINE seen == sites \cup Employed
  <1>1. sites \subseteq SiteCodes /\ Employed \subseteq EmployeeNumbers /\ SiteCodes \cap EmployeeNumbers = {}
    BY DEF ImportTypeOK, Employed, ImportConstantsFit
  <1>2. seen \cap SiteCodes = sites /\ seen \cap EmployeeNumbers = Employed
    BY <1>1
  <1>3. \A s \in Sheets : \A i \in DOMAIN f[s] : ~RowIsWrong(f, s, i)
    BY DEF HasErrors
  <1> HIDE DEF seen
  <1>4. ASSUME NEW s \in Sheets, NEW row \in RowsOf(f, s) PROVE RowFits(f, seen, s, row)
    <2>1. PICK i \in DOMAIN f[s] : row = f[s][i]
      BY DEF RowsOf
    <2>2. ~RowIsWrong(f, s, i)
      BY <1>3
    <2>3. \A field \in Needs[s] : row[field] # NoCode
      BY <2>1, <2>2 DEF RowIsWrong
    <2>4. row.site # NoCode => SiteSeen(f, seen, row.site)
      BY <1>2, <2>1, <2>2 DEF RowIsWrong, KnownSites, SiteSeen
    <2>5. ASSUME row.number # NoCode PROVE EmployeeSeen(f, seen, s, row.number)
      <3>1. Lower(row.number) \in Employees(f, s)
        BY <2>1, <2>2, <2>5 DEF RowIsWrong
      <3> QED
        BY <1>2, <3>1 DEF Employees, EmployeeSeen
    <2> QED
      BY <2>3, <2>4, <2>5 DEF RowFits
  <1>5. DriversFit(f, seen)
    <2> DEFINE F == f["Drivers"]
    <2>0. "Drivers" \in Sheets /\ "Drivers" \in RequiredSheets
      BY DEF Sheets, RequiredSheets
    <2>1. F \in Seq(Row)
      BY <2>0, RowsType
    <2>2. ASSUME NEW i \in DOMAIN F
          PROVE  /\ F[i].key # NoCode /\ F[i].role # "NONE"
                 /\ \A d \in Employed : Lower(d) # Lower(F[i].key)
                 /\ \A j \in 1..i-1 : Lower(F[j].key) # Lower(F[i].key)
      <3>1. ~RowIsWrong(f, "Drivers", i)
        BY <1>3, <2>0, <2>2
      <3>2. "key" \in Needs["Drivers"]
        BY <2>0 DEF Needs
      <3>3. F[i].key # NoCode /\ F[i].role # "NONE"
        BY <3>1, <3>2 DEF RowIsWrong
      <3>4. Lower(F[i].key) \notin Taken("Drivers")
        BY <3>1, <3>3 DEF RowIsWrong
      <3>5. ~Repeats(f, "Drivers", i)
        BY <3>1 DEF RowIsWrong
      <3>6. \A d \in Employed : Lower(d) # Lower(F[i].key)
        BY <3>4 DEF Taken
      <3>7. \A j \in 1..i-1 : Lower(F[j].key) # Lower(F[i].key)
        BY <2>0, <3>3, <3>5 DEF Repeats
      <3> QED
        BY <3>3, <3>6, <3>7
    <2>3. ASSUME NEW i \in DOMAIN F, NEW j \in DOMAIN F, Lower(F[i].key) = Lower(F[j].key)
          PROVE  i = j
      <3>1. i \in Nat /\ j \in Nat /\ i >= 1 /\ j >= 1
        BY <2>1
      <3>2. CASE i < j
        BY <2>2, <2>3, <3>1, <3>2
      <3>3. CASE j < i
        BY <2>2, <2>3, <3>1, <3>3
      <3> QED
        BY <3>1, <3>2, <3>3
    <2>4. RowsOf(f, "Drivers") = {F[i] : i \in DOMAIN F}
      BY DEF RowsOf
    <2> HIDE DEF F
    <2> QED
      BY <1>2, <2>2, <2>3, <2>4 DEF DriversFit
  <1> QED
    BY <1>4, <1>5 DEF Validated, seen

LEMMA SupervisorsChecked ==
    ASSUME ImportConstantsFit, ImportTypeOK, NEW f \in Files, ~HasErrors(f)
    PROVE  SupervisorsFit(f, sites \cup Employed, Supervisors)
  <1>1. Supervisors \subseteq (sites \cup Employed) \cap EmployeeNumbers
    BY DEF Supervisors, Employed
  <1>2. ASSUME NEW row \in RowsOf(f, "Supervisor_Sites")
        PROVE  \/ \E n \in Supervisors : Lower(n) = Lower(row.number)
               \/ \E driver \in RowsOf(f, "Drivers") :
                    Lower(driver.key) = Lower(row.number) /\ driver.role = "SITE_SUPERVISOR"
    <2>1. PICK i \in DOMAIN f["Supervisor_Sites"] : row = f["Supervisor_Sites"][i]
      BY DEF RowsOf
    <2>2. "Supervisor_Sites" \in Sheets /\ "number" \in Needs["Supervisor_Sites"]
      BY DEF Sheets, Needs
    <2>3. ~RowIsWrong(f, "Supervisor_Sites", i)
      BY <2>2 DEF HasErrors
    <2>4. row["number"] # NoCode
      BY <2>1, <2>2, <2>3 DEF RowIsWrong
    <2>5. Lower(row.number) \in Employees(f, "Supervisor_Sites")
      BY <2>1, <2>3, <2>4 DEF RowIsWrong
    <2> QED
      BY <2>5 DEF Employees, Supervisors
  <1> QED
    BY <1>1, <1>2 DEF SupervisorsFit

----------------------------------------------------------------------------
(* Types. *)

\* A valid workbook adds sites and users under codes of their kind.
LEMMA CommitType ==
    ASSUME ImportConstantsFit, ImportTypeOK, NEW f \in Files, NEW seen, Validated(f, seen)
    PROVE  /\ SitesAfter(f) \subseteq SiteCodes
           /\ UsersAfter(f) \in [EmployeeNumbers -> Employee \cup {Absent}]
  <1>1. ASSUME NEW row \in RowsOf(f, "Sites") PROVE Lower(row.key) \in SiteCodes
    <2>1. "Sites" \in Sheets /\ Needs["Sites"] = {"key"}
      BY DEF Needs, Sheets
    <2>2. row["key"] # NoCode
      BY <2>1 DEF Validated, RowFits
    <2>3. row.key \in SiteCodes \cup {NoCode}
      BY <2>1, RowsType
    <2> QED
      BY <2>2, <2>3, LowerType
  <1>2. ASSUME NEW n \in EmployeeNumbers, \E row \in RowsOf(f, "Drivers") : Lower(row.key) = n
        PROVE  [role |-> (CHOOSE row \in RowsOf(f, "Drivers") : Lower(row.key) = n).role,
                password |-> "imported"] \in Employee
    <2> DEFINE row == CHOOSE row \in RowsOf(f, "Drivers") : Lower(row.key) = n
    <2>1. row \in RowsOf(f, "Drivers")
      BY <1>2
    <2>2. row \in Row
      BY <2>1, RowsType DEF Sheets
    <2>3. row.role # "NONE"
      BY <2>1 DEF Validated, DriversFit
    <2> HIDE DEF row
    <2>4. row.role \in {"DRIVER", "SITE_SUPERVISOR"}
      BY <2>2, <2>3 DEF Row
    <2>5. [role |-> row.role, password |-> "imported"] \in Employee
      BY <2>4 DEF Employee
    <2> QED
      BY <2>5 DEF row
  <1>3. SitesAfter(f) \subseteq SiteCodes
    BY <1>1 DEF SitesAfter, ImportTypeOK
  <1>4. UsersAfter(f) \in [EmployeeNumbers -> Employee \cup {Absent}]
    BY <1>2 DEF UsersAfter, ImportTypeOK
  <1> QED
    BY <1>3, <1>4

\* What a row becomes, by the sheet it is in
LEMMA PlacedBecomes ==
    ASSUME NEW f, NEW row, NEW siteBy, NEW employeeBy, NEW s, s \in {"Vehicles_Cards", "Equipment"}
    PROVE  Become(f, s, row, siteBy, employeeBy) =
             [sheet |-> s, key |-> Lower(row.key), at |-> Find(siteBy, row.site)]
  BY DEF Become

LEMMA TankBecomes ==
    ASSUME NEW f, NEW row, NEW siteBy, NEW employeeBy, NEW s, s = "Tanks"
    PROVE  Become(f, s, row, siteBy, employeeBy) =
             IF Find(siteBy, row.site) # NoCode
             THEN [sheet |-> s, key |-> row.key, at |-> Find(siteBy, row.site)] ELSE PassedOver
  BY DEF Become

LEMMA CredentialBecomes ==
    ASSUME NEW f, NEW row, NEW siteBy, NEW employeeBy, NEW s, s = "Driver_Compliance"
    PROVE  Become(f, s, row, siteBy, employeeBy) =
             IF Find(employeeBy, row.number) # NoCode
             THEN [sheet |-> s, key |-> Lower(row.key), at |-> Find(employeeBy, row.number)]
             ELSE PassedOver
  BY DEF Become

LEMMA SupervisedBecomes ==
    ASSUME NEW f, NEW row, NEW siteBy, NEW employeeBy, NEW s, s = "Supervisor_Sites"
    PROVE  Become(f, s, row, siteBy, employeeBy) =
             IF /\ NoCode \notin {Find(siteBy, row.site), Find(employeeBy, row.number)}
                /\ UsersAfter(f)[Find(employeeBy, row.number)].role = "SITE_SUPERVISOR"
             THEN [sheet |-> s, key |-> Find(siteBy, row.site), at |-> Find(employeeBy, row.number)]
             ELSE PassedOver
  BY DEF Become

\* What a code resolves to is a site's, or an employee's, or nothing.
LEMMA FoundType ==
    ASSUME ImportConstantsFit, ImportTypeOK, NEW f \in Files, NEW seen, Validated(f, seen),
           NEW siteBy \in SitesBy(f), NEW employeeBy \in EmployeesBy(f), NEW c
    PROVE  /\ Find(siteBy, c) # NoCode => Find(siteBy, c) \in SitesAfter(f) /\ Find(siteBy, c) \in SiteCodes
           /\ Find(siteBy, c) # NoCode => Lower(Find(siteBy, c)) = Lower(c)
           /\ Find(siteBy, c) = NoCode => \A d \in SitesAfter(f) : Lower(d) # Lower(c)
           /\ Find(employeeBy, c) # NoCode =>
                 /\ Find(employeeBy, c) \in EmployeeNumbers
                 /\ UsersAfter(f)[Find(employeeBy, c)] # Absent
                 /\ Lower(Find(employeeBy, c)) = Lower(c)
           /\ Find(employeeBy, c) = NoCode =>
                 \A d \in EmployeeNumbers : UsersAfter(f)[d] # Absent => Lower(d) # Lower(c)
  <1> DEFINE there == {n \in EmployeeNumbers : UsersAfter(f)[n] # Absent}
  <1>1. SitesAfter(f) \subseteq SiteCodes /\ NoCode \notin SiteCodes /\ NoCode \notin there
    BY CommitType DEF ImportConstantsFit, Typed
  <1>2. siteBy \in Resolutions(SitesAfter(f)) /\ employeeBy \in Resolutions(there)
    BY DEF SitesBy, EmployeesBy
  <1> HIDE DEF there
  <1>3. /\ Find(siteBy, c) # NoCode => Find(siteBy, c) \in SitesAfter(f) /\ Lower(Find(siteBy, c)) = Lower(c)
        /\ Find(siteBy, c) = NoCode => \A d \in SitesAfter(f) : Lower(d) # Lower(c)
    BY <1>1, <1>2, ResolutionsFacts
  <1>4. /\ Find(employeeBy, c) # NoCode => Find(employeeBy, c) \in there /\ Lower(Find(employeeBy, c)) = Lower(c)
        /\ Find(employeeBy, c) = NoCode => \A d \in there : Lower(d) # Lower(c)
    BY <1>1, <1>2, ResolutionsFacts
  <1> QED
    BY <1>1, <1>3, <1>4 DEF there

\* What a row of a valid workbook becomes is an asset, unless it is passed over.
LEMMA BecomeType ==
    ASSUME ImportConstantsFit, ImportTypeOK, NEW f \in Files, NEW seen, Validated(f, seen),
           NEW s \in Sheets \ {"Sites", "Drivers"}, NEW row \in RowsOf(f, s),
           NEW siteBy \in SitesBy(f), NEW employeeBy \in EmployeesBy(f)
    PROVE  Become(f, s, row, siteBy, employeeBy) \in Asset \cup {PassedOver}
  <1>1. row \in Row /\ RowFits(f, seen, s, row)
    BY RowsType DEF Validated
  <1>2. PICK site \in Typed \cup {NoCode} : site = Find(siteBy, row.site)
    BY FoundType DEF Typed
  <1>3. PICK who \in Typed \cup {NoCode} : who = Find(employeeBy, row.number)
    BY FoundType DEF Typed
  <1>4. row.key \in Typed \cup {NoCode}
    BY <1>1 DEF Row
  <1>5. s \in {"Vehicles_Cards", "Equipment", "Driver_Compliance"} => Lower(row.key) \in Typed
    <2>1. s \in {"Vehicles_Cards", "Equipment", "Driver_Compliance"} => "key" \in Needs[s]
      BY DEF Needs, Sheets
    <2>2. s \in {"Vehicles_Cards", "Equipment", "Driver_Compliance"} => row["key"] # NoCode
      BY <1>1, <2>1 DEF RowFits
    <2> QED
      BY <1>4, <2>2, LowerType
  <1>6. \A key \in Typed \cup {NoCode}, at \in Typed \cup {NoCode} :
            [sheet |-> s, key |-> key, at |-> at] \in Asset
    BY DEF Asset
  <1>7. CASE s \in {"Vehicles_Cards", "Equipment"}
    <2>1. Become(f, s, row, siteBy, employeeBy) = [sheet |-> s, key |-> Lower(row.key), at |-> site]
      BY <1>2, <1>7, PlacedBecomes
    <2> QED
      BY <1>2, <1>5, <1>6, <1>7, <2>1
  <1>8. CASE s = "Tanks"
    <2>1. Become(f, s, row, siteBy, employeeBy)
             = IF site # NoCode THEN [sheet |-> s, key |-> row.key, at |-> site] ELSE PassedOver
      BY <1>2, <1>8, TankBecomes
    <2> QED
      BY <1>2, <1>4, <1>6, <2>1
  <1>9. CASE s = "Driver_Compliance"
    <2>1. Become(f, s, row, siteBy, employeeBy)
             = IF who # NoCode THEN [sheet |-> s, key |-> Lower(row.key), at |-> who] ELSE PassedOver
      BY <1>3, <1>9, CredentialBecomes
    <2> QED
      BY <1>3, <1>5, <1>6, <1>9, <2>1
  <1>10. CASE s = "Supervisor_Sites"
    <2>1. Become(f, s, row, siteBy, employeeBy) = PassedOver
             \/ Become(f, s, row, siteBy, employeeBy) = [sheet |-> s, key |-> site, at |-> who]
      BY <1>2, <1>3, <1>10, SupervisedBecomes
    <2> QED
      BY <1>2, <1>3, <1>6, <2>1
  <1> QED
    BY <1>7, <1>8, <1>9, <1>10 DEF Sheets

LEMMA AssetsType ==
    ASSUME ImportConstantsFit, ImportTypeOK, NEW f \in Files, NEW seen, Validated(f, seen),
           NEW siteBy \in SitesBy(f), NEW employeeBy \in EmployeesBy(f)
    PROVE  AssetsAfter(f, siteBy, employeeBy) \subseteq Asset
  <1>1. ASSUME NEW x \in Referring(f)
        PROVE  Become(f, x[1], x[2], siteBy, employeeBy) \in Asset \cup {PassedOver}
    <2>1. PICK s \in Sheets \ {"Sites", "Drivers"} : x \in {<<s, row>> : row \in RowsOf(f, s)}
      BY DEF Referring
    <2>2. PICK row \in RowsOf(f, s) : x = <<s, row>>
      BY <2>1
    <2>3. x[1] = s /\ x[2] = row
      BY <2>2
    <2> QED
      BY <2>3, BecomeType
  <1>2. Cards(f) \subseteq Asset
    <2> SUFFICES ASSUME NEW row \in RowsOf(f, "Vehicles_Cards"), row.card # NoCode
                 PROVE  [sheet |-> "Cards", key |-> Lower(row.card), at |-> Lower(row.key)] \in Asset
      BY DEF Cards
    <2>1. "Vehicles_Cards" \in Sheets /\ Needs["Vehicles_Cards"] = {"key"}
      BY DEF Sheets, Needs
    <2>2. row \in Row /\ row["key"] # NoCode
      BY <2>1, RowsType DEF Validated, RowFits
    <2>3. row.card \in Typed /\ row.key \in Typed
      BY <2>2 DEF Row, Typed
    <2>4. Lower(row.card) \in Typed /\ Lower(row.key) \in Typed
      BY <2>3, LowerType
    <2> QED
      BY <2>4 DEF Asset
  <1>3. assets \subseteq Asset
    BY DEF ImportTypeOK
  <1> QED
    BY <1>1, <1>2, <1>3 DEF AssetsAfter

----------------------------------------------------------------------------
(* The invariant, step by step. *)

LEMMA OnboardingInit == ImportInit => OnboardingInv
  BY DEF ImportInit, OnboardingInv, ImportTypeOK, FileRecorded, CommitsValid, Batch, Statuses, NoRequest

LEMMA OnboardingRead ==
    ASSUME ImportConstantsFit, OnboardingInv, NEW r \in Requests, NEW stage \in {"preview", "commit"}, Read(r, stage)
    PROVE  OnboardingInv'
  <1> USE DEF OnboardingInv
  <1> DEFINE q == [stage |-> stage, file |-> batch.file,
                   errors |-> HasErrors(batch.file), seen |-> sites \cup Employed,
                   supervisors |-> Supervisors]
  <1>1. importing' = [importing EXCEPT ![r] = q] /\ UNCHANGED <<batch, sites, accounts, assets>>
    BY DEF Read
  <1>2. batch.file \in Files
    BY DEF Read, FileRecorded, ImportTypeOK, Batch
  <1>3. /\ q.file = batch.file /\ q.seen = sites \cup Employed /\ q.stage = stage
        /\ q.supervisors = Supervisors
    OBVIOUS
  <1>4. q \in Import
    <2>1. HasErrors(batch.file) \in BOOLEAN
      BY DEF HasErrors
    <2>2. sites \cup Employed \in SUBSET (SiteCodes \cup EmployeeNumbers)
      BY DEF ImportTypeOK, Employed
    <2>3. Supervisors \in SUBSET EmployeeNumbers
      BY DEF Supervisors, Employed
    <2> QED
      BY <1>2, <2>1, <2>2, <2>3 DEF Import
  <1>5. stage = "commit" => /\ Validated(batch.file, sites \cup Employed)
                            /\ SupervisorsFit(batch.file, sites \cup Employed, Supervisors)
    BY <1>2, ValidationFits, SupervisorsChecked DEF Read
  <1> HIDE DEF q
  <1>6. ImportTypeOK'
    BY <1>1, <1>4 DEF ImportTypeOK
  <1>7. \A p \in Requests : importing'[p] = IF p = r THEN q ELSE importing[p]
    BY <1>1 DEF ImportTypeOK
  <1>8. CommitsValid'
    <2> SUFFICES ASSUME NEW p \in Requests, importing'[p].stage = "commit"
                 PROVE  /\ Validated(importing'[p].file, importing'[p].seen)
                        /\ SupervisorsFit(importing'[p].file, importing'[p].seen,
                                          importing'[p].supervisors)
      BY DEF CommitsValid, Validated, RowFits, DriversFit, SiteSeen, EmployeeSeen, RowsOf,
             SupervisorsFit
    <2>1. CASE p = r
      BY <1>3, <1>5, <1>7, <2>1
    <2>2. CASE p # r
      BY <1>7, <2>2 DEF CommitsValid
    <2> QED
      BY <2>1, <2>2
  <1> QED
    BY <1>1, <1>6, <1>8 DEF FileRecorded

\* A step that starts no commit leaves what commits know alone.
LEMMA CommitsFrame ==
    ASSUME CommitsValid, \A r \in Requests : importing'[r] = importing[r] \/ importing'[r] = NoRequest
    PROVE  CommitsValid'
  <1> SUFFICES ASSUME NEW r \in Requests, importing'[r].stage = "commit"
               PROVE  /\ Validated(importing'[r].file, importing'[r].seen)
                      /\ SupervisorsFit(importing'[r].file, importing'[r].seen,
                                        importing'[r].supervisors)
    BY DEF CommitsValid, Validated, RowFits, DriversFit, SiteSeen, EmployeeSeen, RowsOf,
           SupervisorsFit
  <1>1. importing'[r] = importing[r]
    BY DEF NoRequest
  <1> QED
    BY <1>1 DEF CommitsValid

LEMMA OnboardingCommit ==
    ASSUME ImportConstantsFit, OnboardingInv, NEW r \in Requests, Commit(r)
    PROVE  OnboardingInv'
  <1> USE DEF OnboardingInv
  <1>1. importing[r].file \in Files /\ Validated(importing[r].file, importing[r].seen)
    BY DEF Commit, CommitsValid, ImportTypeOK, Import, NoRequest
  <1>2. sites' \subseteq SiteCodes /\ accounts' \in [EmployeeNumbers -> Employee \cup {Absent}]
    BY <1>1, CommitType DEF Commit
  <1>3. assets' \subseteq Asset
    <2>1. PICK siteBy \in SitesBy(importing[r].file), employeeBy \in EmployeesBy(importing[r].file) :
              assets' = AssetsAfter(importing[r].file, siteBy, employeeBy)
      BY DEF Commit
    <2> QED
      BY <1>1, <2>1, AssetsType
  <1>4. ImportTypeOK'
    BY <1>2, <1>3 DEF Commit, ImportTypeOK, Batch, Statuses
  <1>5. FileRecorded'
    BY DEF Commit, FileRecorded, ImportTypeOK, Batch
  <1>6. CommitsValid'
    BY CommitsFrame DEF Commit, ImportTypeOK
  <1> QED
    BY <1>4, <1>5, <1>6

\* An asset under another code is one.
LEMMA RecodedType ==
    ASSUME ImportTypeOK, NEW old, NEW new \in Typed
    PROVE  Recoded(old, new) \subseteq Asset
  <1> SUFFICES ASSUME NEW a \in assets,
                      NEW key \in {a.key, new}, NEW at \in {a.at, new}
               PROVE  [a EXCEPT !.key = key, !.at = at] \in Asset
    BY DEF Recoded
  <1>1. a \in Asset
    BY DEF ImportTypeOK
  <1> QED
    BY <1>1 DEF Asset

LEMMA OnboardingStep == ImportConstantsFit /\ OnboardingInv /\ [ImportNext]_importVars => OnboardingInv'
  <1> SUFFICES ASSUME ImportConstantsFit, OnboardingInv, [ImportNext]_importVars PROVE OnboardingInv'
    OBVIOUS
  <1> USE DEF OnboardingInv
  <1>1. ASSUME NEW f \in Files, WriteFile(f) PROVE OnboardingInv'
    <2>1. f # NoFile
      BY DEF ImportConstantsFit
    <2> QED
      BY <1>1, <2>1, CommitsFrame DEF WriteFile, ImportTypeOK, Batch, FileRecorded
  <1>2. CASE SetUploadPath
    BY <1>2, CommitsFrame DEF SetUploadPath, ImportTypeOK, Batch, Statuses, FileRecorded
  <1>3. ASSUME NEW r \in Requests, StorePreview(r) PROVE OnboardingInv'
    <2>1. CommitsValid'
      BY <1>3, CommitsFrame DEF StorePreview, ImportTypeOK
    <2> QED
      BY <1>3, <2>1 DEF StorePreview, ImportTypeOK, Batch, Statuses, FileRecorded
  <1>4. ASSUME NEW r \in Requests, Abort(r) PROVE OnboardingInv'
    BY <1>4, CommitsFrame DEF Abort, ImportTypeOK, FileRecorded
  <1>5. ASSUME NEW c \in SiteCodes, CreateSite(c) PROVE OnboardingInv'
    BY <1>5, CommitsFrame DEF CreateSite, ImportTypeOK, FileRecorded
  <1>6. ASSUME NEW c \in SiteCodes, NEW d \in SiteCodes, RecodeSite(c, d) PROVE OnboardingInv'
    <2>1. assets' \subseteq Asset
      BY <1>6, RecodedType DEF RecodeSite, Typed
    <2> QED
      BY <1>6, <2>1, CommitsFrame DEF RecodeSite, ImportTypeOK, FileRecorded
  <1>7. ASSUME NEW n \in EmployeeNumbers, NEW role \in {"DRIVER", "SITE_SUPERVISOR"}, SaveUser(n, role)
        PROVE  OnboardingInv'
    <2>1. accounts' \in [EmployeeNumbers -> Employee \cup {Absent}]
      BY <1>7 DEF SaveUser, ImportTypeOK, Employee
    <2> QED
      BY <1>7, <2>1, CommitsFrame DEF SaveUser, ImportTypeOK, FileRecorded
  <1>8. ASSUME NEW n \in EmployeeNumbers, ChangePassword(n) PROVE OnboardingInv'
    <2>1. accounts' \in [EmployeeNumbers -> Employee \cup {Absent}]
      BY <1>8 DEF ChangePassword, ImportTypeOK, Employee
    <2> QED
      BY <1>8, <2>1, CommitsFrame DEF ChangePassword, ImportTypeOK, FileRecorded
  <1>9. ASSUME NEW n \in EmployeeNumbers, NEW m \in EmployeeNumbers, Renumber(n, m) PROVE OnboardingInv'
    <2>1. assets' \subseteq Asset
      BY <1>9, RecodedType DEF Renumber, Typed
    <2> QED
      BY <1>9, <2>1, CommitsFrame DEF Renumber, ImportTypeOK, FileRecorded
  <1>10. CASE UNCHANGED importVars
    BY <1>10, CommitsFrame DEF importVars, ImportTypeOK, FileRecorded
  <1> QED
    BY <1>1, <1>2, <1>3, <1>4, <1>5, <1>6, <1>7, <1>8, <1>9, <1>10, OnboardingRead, OnboardingCommit
       DEF ImportNext, Operate, Administer

LEMMA OnboardingInvariant == ASSUME ImportConstantsFit PROVE ImportSpec => []OnboardingInv
  <1>1. OnboardingInv /\ [ImportNext]_importVars => OnboardingInv'
    BY OnboardingStep
  <1> QED
    BY <1>1, OnboardingInit, PTL DEF ImportSpec

\* Every variable keeps to its type: a commit stores nothing that is not a site, a user or an
\* asset of the company, whatever happened between its validation and its transaction.
THEOREM OnboardingTypeCorrect == ASSUME ImportConstantsFit PROVE ImportSpec => []ImportTypeOK
  <1>1. OnboardingInv => ImportTypeOK
    BY DEF OnboardingInv
  <1> QED
    BY <1>1, OnboardingInvariant, PTL

----------------------------------------------------------------------------
(* Accounts. *)

LEMMA AccountsStep ==
    ASSUME ImportConstantsFit, OnboardingInv, [ImportNext]_importVars, NEW n \in EmployeeNumbers,
           accounts[n].password = "own", accounts'[n].password = "imported"
    PROVE  \E r \in Requests : importing'[r] # importing[r] /\ n \notin importing[r].seen
  <1> USE DEF OnboardingInv
  <1>1. CASE \E r \in Requests : Commit(r)
    <2>1. PICK r \in Requests : Commit(r)
      BY <1>1
    <2> DEFINE f == importing[r].file
    <2>2. DriversFit(f, importing[r].seen) /\ importing[r].stage = "commit"
      BY <2>1 DEF Commit, CommitsValid, Validated
    <2>3. PICK row \in RowsOf(f, "Drivers") : Lower(row.key) = n
      <3>1. accounts'[n] = UsersAfter(f)[n]
        BY <2>1 DEF Commit
      <3> QED
        BY <3>1 DEF UsersAfter
    <2>4. Lower(n) = Lower(row.key)
      BY <2>3, LowerTwice
    <2>5. n \notin importing[r].seen
      BY <2>2, <2>4 DEF DriversFit
    <2>6. importing'[r] = NoRequest
      BY <2>1 DEF Commit, ImportTypeOK
    <2> QED
      BY <2>2, <2>5, <2>6 DEF NoRequest
  <1>2. CASE \E m \in EmployeeNumbers, role \in {"DRIVER", "SITE_SUPERVISOR"} : SaveUser(m, role)
    BY <1>2 DEF SaveUser, ImportTypeOK, Absent
  <1>3. CASE \E m \in EmployeeNumbers : ChangePassword(m)
    BY <1>3 DEF ChangePassword, ImportTypeOK
  <1>4. CASE \E k \in EmployeeNumbers, m \in EmployeeNumbers : Renumber(k, m)
    BY <1>4 DEF Renumber, ImportTypeOK, Absent
  <1>5. accounts' # accounts
    OBVIOUS
  <1> QED
    BY <1>1, <1>2, <1>3, <1>4, <1>5
       DEF ImportNext, Operate, Administer, importVars, WriteFile, SetUploadPath, Read, StorePreview, Abort,
           CreateSite, RecodeSite

\* However previews, commits and the work of the company interleave, an import gives a password
\* to no number that somebody had when its workbook was validated (validateWorkbookRows, commit).
THEOREM ImportsKeepAccounts == ASSUME ImportConstantsFit PROVE ImportSpec => KeepsAccounts
  <1>1. OnboardingInv /\ [ImportNext]_importVars =>
           [\A n \in EmployeeNumbers : accounts[n].password = "own" /\ accounts'[n].password = "imported" =>
              \E r \in Requests : importing'[r] # importing[r] /\ n \notin importing[r].seen]_importVars
    BY AccountsStep
  <1> QED
    BY <1>1, OnboardingInvariant, PTL DEF ImportSpec, KeepsAccounts

----------------------------------------------------------------------------
(* Workbooks are stored as a whole. *)

\* A site that the validation saw is found, unless it is gone under its code.
LEMMA SiteFound ==
    ASSUME ImportConstantsFit, ImportTypeOK, NEW f \in Files, NEW seen, Validated(f, seen),
           NEW siteBy \in SitesBy(f), NEW employeeBy \in EmployeesBy(f),
           NEW c, SiteSeen(f, seen, c), Find(siteBy, c) = NoCode
    PROVE  \E d \in seen \ (sites \cup Employed) : Lower(d) = Lower(c)
  <1>1. \A d \in SitesAfter(f) : Lower(d) # Lower(c)
    BY FoundType
  <1>2. CASE \E row \in RowsOf(f, "Sites") : Lower(row.key) = Lower(c)
    <2>1. PICK row \in RowsOf(f, "Sites") : Lower(row.key) = Lower(c)
      BY <1>2
    <2>2. Lower(row.key) \in SitesAfter(f) /\ Lower(Lower(row.key)) = Lower(c)
      BY <2>1, LowerTwice DEF SitesAfter
    <2> QED
      BY <1>1, <2>2
  <1>3. CASE \E d \in seen \cap SiteCodes : Lower(d) = Lower(c)
    <2>1. PICK d \in seen \cap SiteCodes : Lower(d) = Lower(c)
      BY <1>3
    <2>2. d \notin sites
      BY <1>1, <2>1 DEF SitesAfter
    <2>3. d \notin Employed
      BY <2>1 DEF Employed, ImportConstantsFit
    <2> QED
      BY <2>1, <2>2, <2>3
  <1> QED
    BY <1>2, <1>3 DEF SiteSeen

\* A driver of the workbook is an employee after it.
LEMMA DriverStored ==
    ASSUME ImportConstantsFit, NEW f \in Files, NEW seen, Validated(f, seen), NEW row \in RowsOf(f, "Drivers")
    PROVE  /\ Lower(row.key) \in EmployeeNumbers
           /\ UsersAfter(f)[Lower(row.key)] = [role |-> row.role, password |-> "imported"]
  <1> DEFINE n == Lower(row.key)
             who == CHOOSE other \in RowsOf(f, "Drivers") : Lower(other.key) = n
  <1>1. "Drivers" \in Sheets /\ Needs["Drivers"] = {"key"}
    BY DEF Sheets, Needs
  <1>2. row["key"] # NoCode /\ row.key \in EmployeeNumbers \cup {NoCode}
    BY <1>1, RowsType DEF Validated, RowFits
  <1>3. n \in EmployeeNumbers
    BY <1>2, LowerType
  <1>4. who \in RowsOf(f, "Drivers") /\ Lower(who.key) = n
    OBVIOUS
  <1>5. who = row
    BY <1>4 DEF Validated, DriversFit
  <1>6. UsersAfter(f)[n] = [role |-> who.role, password |-> "imported"]
    BY <1>3 DEF UsersAfter
  <1> QED
    BY <1>3, <1>5, <1>6

\* So is an employee who still is one.
LEMMA EmployeeFound ==
    ASSUME ImportConstantsFit, ImportTypeOK, NEW f \in Files, NEW seen, Validated(f, seen),
           NEW siteBy \in SitesBy(f), NEW employeeBy \in EmployeesBy(f), NEW s,
           NEW c, EmployeeSeen(f, seen, s, c), Find(employeeBy, c) = NoCode
    PROVE  \E d \in seen \ (sites \cup Employed) : Lower(d) = Lower(c)
  <1>1. \A d \in EmployeeNumbers : UsersAfter(f)[d] # Absent => Lower(d) # Lower(c)
    BY FoundType
  <1>2. CASE \E row \in RowsOf(f, "Drivers") : Lower(row.key) = Lower(c)
    <2>1. PICK row \in RowsOf(f, "Drivers") : Lower(row.key) = Lower(c)
      BY <1>2
    <2>2. /\ Lower(row.key) \in EmployeeNumbers
          /\ UsersAfter(f)[Lower(row.key)] = [role |-> row.role, password |-> "imported"]
      BY DriverStored
    <2>3. UsersAfter(f)[Lower(row.key)] # Absent
      BY <2>2 DEF Absent
    <2>4. Lower(Lower(row.key)) = Lower(c)
      BY <2>1, LowerTwice
    <2> QED
      BY <1>1, <2>2, <2>3, <2>4
  <1>3. CASE \E d \in seen \cap EmployeeNumbers : Lower(d) = Lower(c)
    <2>1. PICK d \in seen \cap EmployeeNumbers : Lower(d) = Lower(c)
      BY <1>3
    <2>2. d \notin sites
      BY <2>1 DEF ImportConstantsFit, ImportTypeOK
    <2>3. d \notin Employed
      <3>1. UsersAfter(f)[d] = Absent
        BY <1>1, <2>1
      <3> QED
        BY <2>1, <3>1 DEF UsersAfter, Employed, Absent
    <2> QED
      BY <2>1, <2>2, <2>3
  <1> QED
    BY <1>2, <1>3 DEF EmployeeSeen

\* Whoever has the role is found by it, unless it was taken from somebody seen with it, or
\* somebody else has the number in other capitals.
LEMMA NoSupervisor ==
    ASSUME ImportConstantsFit, ImportTypeOK, NEW f \in Files, NEW seen, Validated(f, seen),
           NEW supervisors, SupervisorsFit(f, seen, supervisors),
           NEW siteBy \in SitesBy(f), NEW employeeBy \in EmployeesBy(f),
           NEW row \in RowsOf(f, "Supervisor_Sites"),
           NEW who, who = Find(employeeBy, row.number), who # NoCode,
           UsersAfter(f)[who].role # "SITE_SUPERVISOR"
    PROVE  \/ \E n \in supervisors \ Supervisors : Lower(n) = Lower(row.number)
           \/ \E m \in EmployeeNumbers :
                /\ Lower(m) = Lower(row.number) /\ UsersAfter(f)[m] # Absent /\ m # who
  <1>1. CASE \E driver \in RowsOf(f, "Drivers") :
               Lower(driver.key) = Lower(row.number) /\ driver.role = "SITE_SUPERVISOR"
    <2>1. PICK driver \in RowsOf(f, "Drivers") :
            Lower(driver.key) = Lower(row.number) /\ driver.role = "SITE_SUPERVISOR"
      BY <1>1
    <2>2. /\ Lower(driver.key) \in EmployeeNumbers
          /\ UsersAfter(f)[Lower(driver.key)] = [role |-> driver.role, password |-> "imported"]
      BY DriverStored
    <2>3. /\ Lower(Lower(driver.key)) = Lower(row.number)
          /\ UsersAfter(f)[Lower(driver.key)] # Absent /\ Lower(driver.key) # who
      BY <2>1, <2>2, LowerTwice DEF Absent
    <2> QED
      BY <2>2, <2>3
  <1>2. CASE \E n \in supervisors : Lower(n) = Lower(row.number)
    <2>1. PICK n \in supervisors : Lower(n) = Lower(row.number)
      BY <1>2
    <2>2. SUFFICES ASSUME n \in Supervisors
                   PROVE  \E m \in EmployeeNumbers :
                            /\ Lower(m) = Lower(row.number) /\ UsersAfter(f)[m] # Absent /\ m # who
      BY <2>1
    <2>3. n \in EmployeeNumbers /\ n \in seen /\ accounts[n] # Absent
          /\ accounts[n].role = "SITE_SUPERVISOR"
      BY <2>1, <2>2 DEF SupervisorsFit, Supervisors, Employed
    <2>4. ~\E driver \in RowsOf(f, "Drivers") : Lower(driver.key) = n
      <3>1. SUFFICES ASSUME NEW driver \in RowsOf(f, "Drivers"), Lower(driver.key) = n PROVE FALSE
        OBVIOUS
      <3>2. Lower(n) = Lower(driver.key)
        BY <3>1, LowerTwice
      <3> QED
        BY <2>3, <3>2 DEF Validated, DriversFit
    <2>5. UsersAfter(f)[n] = accounts[n]
      BY <2>3, <2>4 DEF UsersAfter
    <2> QED
      BY <2>1, <2>3, <2>5
  <1> QED
    BY <1>1, <1>2 DEF SupervisorsFit

LEMMA WholeStep == ImportConstantsFit /\ OnboardingInv => StoredWhole
  <1> USE DEF OnboardingInv
  <1> DEFINE Gone(seen, c) == \E old \in seen \ (sites \cup Employed) : Lower(old) = Lower(c)
             Demoted(sups, c) == \E n \in sups \ Supervisors : Lower(n) = Lower(c)
             Roles(f, c) == {<<n, UsersAfter(f)[n].role>> :
                               n \in {m \in EmployeeNumbers : Lower(m) = Lower(c) /\ UsersAfter(f)[m] # Absent}}
             Twins(f, c) == \E x, y \in Roles(f, c) : x[1] # y[1] /\ x[2] # "SITE_SUPERVISOR"
  <1> SUFFICES ASSUME ImportConstantsFit, OnboardingInv,
                      NEW r \in Requests, importing[r].stage = "commit",
                      NEW f, f = importing[r].file, NEW seen, seen = importing[r].seen,
                      NEW sups, sups = importing[r].supervisors,
                      NEW siteBy \in SitesBy(f), NEW employeeBy \in EmployeesBy(f), NEW x \in Referring(f),
                      NEW a, a = Become(f, x[1], x[2], siteBy, employeeBy),
                      a = PassedOver \/ (x[2].site # NoCode /\ a.at = NoCode)
               PROVE  \/ Gone(seen, x[2].site) \/ Gone(seen, x[2].number)
                      \/ /\ x[1] = "Supervisor_Sites"
                         /\ Demoted(sups, x[2].number) \/ Twins(f, x[2].number)
    BY DEF StoredWhole
  <1>0. PICK s \in Sheets \ {"Sites", "Drivers"} : x \in {<<s, row>> : row \in RowsOf(f, s)}
    BY DEF Referring
  <1>1. PICK row \in RowsOf(f, s) : x[1] = s /\ x[2] = row
    BY <1>0
  <1>2. f \in Files /\ Validated(f, seen) /\ SupervisorsFit(f, seen, sups)
    BY DEF CommitsValid, ImportTypeOK, Import, NoRequest
  <1>3. RowFits(f, seen, s, row)
    BY <1>2 DEF Validated
  <1>4. PICK site, who : site = Find(siteBy, row.site) /\ who = Find(employeeBy, row.number)
    OBVIOUS
  <1>5. row.site # NoCode /\ site = NoCode =>
            \E d \in seen \ (sites \cup Employed) : Lower(d) = Lower(row.site)
    <2> SUFFICES ASSUME row.site # NoCode, site = NoCode
                 PROVE  \E d \in seen \ (sites \cup Employed) : Lower(d) = Lower(row.site)
      OBVIOUS
    <2>1. SiteSeen(f, seen, row.site) /\ Find(siteBy, row.site) = NoCode
      BY <1>3, <1>4 DEF RowFits
    <2> QED
      BY <1>2, <2>1, SiteFound
  <1>6. row.number # NoCode /\ who = NoCode =>
            \E d \in seen \ (sites \cup Employed) : Lower(d) = Lower(row.number)
    <2> SUFFICES ASSUME row.number # NoCode, who = NoCode
                 PROVE  \E d \in seen \ (sites \cup Employed) : Lower(d) = Lower(row.number)
      OBVIOUS
    <2>1. EmployeeSeen(f, seen, s, row.number) /\ Find(employeeBy, row.number) = NoCode
      BY <1>3, <1>4 DEF RowFits
    <2> QED
      BY <1>2, <2>1, EmployeeFound
  <1>7. /\ s = "Tanks" \/ s = "Supervisor_Sites" => row["site"] # NoCode
        /\ s = "Driver_Compliance" \/ s = "Supervisor_Sites" => row["number"] # NoCode
    <2>1. /\ s = "Tanks" \/ s = "Supervisor_Sites" => "site" \in Needs[s]
          /\ s = "Driver_Compliance" \/ s = "Supervisor_Sites" => "number" \in Needs[s]
      BY DEF Needs, Sheets
    <2> QED
      BY <1>3, <2>1 DEF RowFits
  <1>8. CASE s \in {"Vehicles_Cards", "Equipment"}
    <2>0. a = Become(f, s, row, siteBy, employeeBy)
      BY <1>1
    <2>1. Become(f, s, row, siteBy, employeeBy) = [sheet |-> s, key |-> Lower(row.key), at |-> site]
      BY <1>4, <1>8, PlacedBecomes
    <2>2. a # PassedOver /\ a.at = site
      BY <1>8, <2>0, <2>1 DEF PassedOver
    <2> QED
      BY <1>1, <1>5, <2>2
  <1>9. CASE s = "Tanks"
    <2>1. a = IF site # NoCode THEN [sheet |-> s, key |-> row.key, at |-> site] ELSE PassedOver
      BY <1>1, <1>4, <1>9, TankBecomes
    <2>2. site = NoCode
      BY <1>9, <2>1 DEF PassedOver
    <2> QED
      BY <1>1, <1>5, <1>7, <1>9, <2>2
  <1>10. CASE s = "Driver_Compliance"
    <2>1. a = IF who # NoCode THEN [sheet |-> s, key |-> Lower(row.key), at |-> who] ELSE PassedOver
      BY <1>1, <1>4, <1>10, CredentialBecomes
    <2>2. who = NoCode
      BY <1>10, <2>1 DEF PassedOver
    <2> QED
      BY <1>1, <1>6, <1>7, <1>10, <2>2
  <1>11. CASE s = "Supervisor_Sites"
    <2>1. a = IF /\ NoCode \notin {site, who}
                 /\ UsersAfter(f)[who].role = "SITE_SUPERVISOR"
              THEN [sheet |-> s, key |-> site, at |-> who] ELSE PassedOver
      BY <1>1, <1>4, <1>11, SupervisedBecomes
    <2>2. site = NoCode \/ who = NoCode \/ UsersAfter(f)[who].role # "SITE_SUPERVISOR"
      BY <1>11, <2>1 DEF PassedOver
    <2>3. CASE site = NoCode
      BY <1>1, <1>5, <1>7, <1>11, <2>3
    <2>4. CASE who = NoCode
      BY <1>1, <1>6, <1>7, <1>11, <2>4
    <2>5. CASE who # NoCode /\ UsersAfter(f)[who].role # "SITE_SUPERVISOR"
      <3>1. /\ who \in EmployeeNumbers /\ UsersAfter(f)[who] # Absent
            /\ Lower(who) = Lower(row.number)
        BY <1>2, <1>4, <2>5, FoundType
      <3>2. CASE Demoted(sups, row.number)
        BY <1>1, <1>11, <3>2
      <3>3. ASSUME NEW m \in EmployeeNumbers, Lower(m) = Lower(row.number),
                   UsersAfter(f)[m] # Absent, m # who
            PROVE  Twins(f, row.number)
        <4>1. <<who, UsersAfter(f)[who].role>> \in Roles(f, row.number)
          BY <3>1
        <4>2. <<m, UsersAfter(f)[m].role>> \in Roles(f, row.number)
          BY <3>3
        <4> HIDE DEF Roles
        <4> QED
          BY <2>5, <3>3, <4>1, <4>2
      <3>4. \/ Demoted(sups, row.number)
            \/ \E m \in EmployeeNumbers :
                 /\ Lower(m) = Lower(row.number) /\ UsersAfter(f)[m] # Absent /\ m # who
        BY <1>2, <1>4, <1>11, <2>5, NoSupervisor
      <3> HIDE DEF Twins, Demoted
      <3> QED
        BY <1>1, <1>11, <3>2, <3>3, <3>4
    <2> QED
      BY <2>2, <2>3, <2>4, <2>5
  <1> QED
    BY <1>8, <1>9, <1>10, <1>11 DEF Sheets

\* Whatever is changed between the validation of a workbook and its transaction, a row about
\* a vehicle, equipment, a tank, a credential or a supervisor's site is passed over or put
\* nowhere only for a code that is gone, a role that was taken, or two numbers that differ in
\* capitals only (commitOnboardingPreview).
THEOREM WorkbooksStoredWhole == ASSUME ImportConstantsFit PROVE ImportSpec => []StoredWhole
  <1>1. OnboardingInv => StoredWhole
    BY WholeStep
  <1> QED
    BY <1>1, OnboardingInvariant, PTL
=============================================================================

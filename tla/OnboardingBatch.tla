-------------------------- MODULE OnboardingBatch --------------------------
(***************************************************************************)
(* Importing a company's master data from a workbook: a batch whose file   *)
(* is uploaded, previewed and committed by platform users, and the data of *)
(* the company, which its own users go on changing.                        *)
(*                                                                         *)
(* A commit reads the file and the data, validates the one against the     *)
(* other, and then writes in a transaction that looks at neither again.    *)
(***************************************************************************)
EXTENDS Integers, Sequences, FiniteSets

CONSTANTS
    Files,       \* workbooks, as they are parsed
    NoFile,      \* none of them
    Requests,    \* previews and commits that may be in flight together
    SiteCodes, EmployeeNumbers, OtherKeys   \* what is typed, by people or in workbooks

Typed == SiteCodes \cup EmployeeNumbers \cup OtherKeys

\* A code as it is typed: what it is, and whether it has capital letters.
NoCode == [name |-> "none", capital |-> FALSE]
Lower(c) == [c EXCEPT !.capital = FALSE]
IsCode(c) == DOMAIN c = {"name", "capital"} /\ c.capital \in BOOLEAN /\ c.name # "none"

Sheets == {"Sites", "Drivers", "Vehicles_Cards", "Driver_Compliance",
           "Supervisor_Sites", "Tanks", "Equipment"}
RequiredSheets == {"Sites", "Drivers", "Vehicles_Cards"}

\* A SAFETY_OFFICER is imported like a DRIVER, a plate is looked at like a fleet number.
\* A row: its key (a code, a credential type, a tank's name), its card, the site
\* and the employee it refers to, and whether its other cells are well formed.
Row == [key: Typed \cup {NoCode}, card: OtherKeys \cup {NoCode}, site: SiteCodes \cup {NoCode},
        number: EmployeeNumbers \cup {NoCode},
        role: {"DRIVER", "SITE_SUPERVISOR", "NONE"}, sound: BOOLEAN]

\* What the constants are like.
ImportConstantsFit ==
    /\ SiteCodes \cap EmployeeNumbers = {} /\ NoCode \notin Typed
    /\ \A codes \in {SiteCodes, EmployeeNumbers, OtherKeys} :
         \A c \in codes : IsCode(c) /\ Lower(c) \in codes
    /\ Files \subseteq [Sheets -> Seq(Row)]
    /\ \A f \in Files : /\ \A i \in DOMAIN f["Sites"] :
                              f["Sites"][i].key \in SiteCodes \cup {NoCode}
                        /\ \A i \in DOMAIN f["Drivers"] :
                              f["Drivers"][i].key \in EmployeeNumbers \cup {NoCode}
    /\ NoFile \notin Files

VARIABLES
    batch,      \* the batch and the file on disk
    importing,    \* previews and commits that have read, and not yet written
    sites,      \* site codes
    accounts,      \* users by employee number
    assets      \* everything else, by sheet and key, at a site or of an employee

importVars == <<batch, importing, sites, accounts, assets>>

Statuses == {"UPLOADED", "PREVIEWED", "COMMITTED", "FAILED"}
Batch == [status: Statuses, file: Files \cup {NoFile}, recorded: BOOLEAN]

\* password is whether it is the one the import gave.
Employee == [role: {"DRIVER", "SITE_SUPERVISOR"}, password: {"imported", "own"}]
Absent == [role |-> "NONE", password |-> "none"]

Asset == [sheet: Sheets \cup {"Cards"}, key: Typed \cup {NoCode}, at: Typed \cup {NoCode}]

\* seen is the site codes and employee numbers there were when the file was validated, and
\* supervisors those of supervisors: the commit itself looks at neither again.
Import == [stage: {"preview", "commit"}, file: Files, errors: BOOLEAN,
           seen: SUBSET (SiteCodes \cup EmployeeNumbers), supervisors: SUBSET EmployeeNumbers]
NoRequest ==
    [stage |-> "idle", file |-> NoFile, errors |-> FALSE, seen |-> {}, supervisors |-> {}]

ImportTypeOK ==
    /\ batch \in Batch
    /\ importing \in [Requests -> Import \cup {NoRequest}]
    /\ sites \subseteq SiteCodes
    /\ accounts \in [EmployeeNumbers -> Employee \cup {Absent}]
    /\ assets \subseteq Asset

ImportInit ==
    /\ batch = [status |-> "UPLOADED", file |-> NoFile, recorded |-> FALSE]
    /\ importing = [r \in Requests |-> NoRequest]
    /\ sites = {}
    /\ accounts = [n \in EmployeeNumbers |-> Absent]
    /\ assets = {}

Employed == {n \in EmployeeNumbers : accounts[n] # Absent}
Supervisors == {n \in Employed : accounts[n].role = "SITE_SUPERVISOR"}

----------------------------------------------------------------------------
(* Validation: what is wrong with a workbook, against the data as it is.   *)

Needs == [s \in Sheets |->
    CASE s = "Supervisor_Sites" -> {"number", "site"}
      [] s = "Driver_Compliance" -> {"number", "key"}
      [] s = "Tanks" -> {"site", "key"}
      [] OTHER -> {"key"}]

RowsOf(f, s) == {f[s][i] : i \in DOMAIN f[s]}

KnownSites(f) == {Lower(c) : c \in sites} \cup {Lower(row.key) : row \in RowsOf(f, "Sites")}

\* Mutation: the company's employees are not looked at.
TakenNot(s) ==
    CASE s = "Sites" -> {Lower(c) : c \in sites}
      [] s = "Vehicles_Cards" -> {Lower(a.key) : a \in {b \in assets : b.sheet = s}}
      [] OTHER -> {}

\* Keys of the company that a workbook must not have again.
Taken(s) ==
    CASE s = "Sites" -> {Lower(c) : c \in sites}
      [] s = "Drivers" -> {Lower(n) : n \in Employed}
      [] s = "Vehicles_Cards" -> {Lower(a.key) : a \in {b \in assets : b.sheet = s}}
      [] OTHER -> {}

TakenCards == {Lower(a.key) : a \in {b \in assets : b.sheet = "Cards"}}

\* The employees a row of this sheet may refer to, by number
Employees(f, s) ==
    LET Fit(role) == s = "Driver_Compliance" \/ role = "SITE_SUPERVISOR"
    IN  {Lower(n) : n \in {k \in Employed : Fit(accounts[k].role)}}
        \cup {Lower(row.key) : row \in {r \in RowsOf(f, "Drivers") : Fit(r.role)}}

Repeats(f, s, i) ==
    \E j \in 1..i-1 :
        \/ /\ s \in RequiredSheets \cup {"Equipment"} /\ f[s][i].key # NoCode
           /\ Lower(f[s][j].key) = Lower(f[s][i].key)
        \/ f[s][i].card # NoCode /\ Lower(f[s][j].card) = Lower(f[s][i].card)

RowIsWrong(f, s, i) ==
    LET row == f[s][i]
    IN  \/ \E field \in Needs[s] : row[field] = NoCode
        \/ ~row.sound
        \/ s = "Drivers" /\ row.role = "NONE"
        \/ Repeats(f, s, i)
        \/ row.key # NoCode /\ Lower(row.key) \in Taken(s)
        \/ row.card # NoCode /\ Lower(row.card) \in TakenCards
        \/ row.site # NoCode /\ Lower(row.site) \notin KnownSites(f)
        \/ row.number # NoCode /\ Lower(row.number) \notin Employees(f, s)

HasErrors(f) ==
    \/ \E s \in RequiredSheets : f[s] = <<>>
    \/ \E s \in Sheets : \E i \in DOMAIN f[s] : RowIsWrong(f, s, i)

----------------------------------------------------------------------------
(* The commit: what a workbook adds. *)

SitesAfter(f) == sites \cup {Lower(row.key) : row \in RowsOf(f, "Sites")}

UsersAfter(f) ==
    [n \in EmployeeNumbers |->
        IF \E row \in RowsOf(f, "Drivers") : Lower(row.key) = n
        THEN [role |-> (CHOOSE row \in RowsOf(f, "Drivers") : Lower(row.key) = n).role,
              password |-> "imported"]
        ELSE accounts[n]]

\* What codes are resolved by: the company's, in lower case. If two differ in capitals
\* only, it is either of them.
Resolutions(codes) ==
    {g \in [{Lower(c) : c \in codes} -> codes] : \A c \in DOMAIN g : Lower(g[c]) = c}

SitesBy(f) == Resolutions(SitesAfter(f))
EmployeesBy(f) == Resolutions({n \in EmployeeNumbers : UsersAfter(f)[n] # Absent})

\* Mutation: the code of a row is looked up as it is typed.
FindAsTyped(g, c) == IF c \in DOMAIN g THEN g[c] ELSE NoCode

Find(g, c) == IF Lower(c) \in DOMAIN g THEN g[Lower(c)] ELSE NoCode

\* What becomes of a row besides a site or a user. One that refers to a site or an
\* employee that is not found, or to one who is no supervisor where one is wanted, is
\* passed over; but a vehicle and equipment are then nowhere.
PassedOver == [sheet |-> "none", key |-> NoCode, at |-> NoCode]

Become(f, s, row, siteBy, employeeBy) ==
    LET site == Find(siteBy, row.site)
        who  == Find(employeeBy, row.number)
        Is(key, at) == [sheet |-> s, key |-> key, at |-> at]
    IN  CASE s \in {"Vehicles_Cards", "Equipment"} -> Is(Lower(row.key), site)
          [] s = "Tanks" /\ site # NoCode -> Is(row.key, site)
          [] s = "Driver_Compliance" /\ who # NoCode -> Is(Lower(row.key), who)
          [] /\ s = "Supervisor_Sites" /\ NoCode \notin {site, who}
             /\ UsersAfter(f)[who].role = "SITE_SUPERVISOR" -> Is(site, who)
          [] OTHER -> PassedOver

Cards(f) == {[sheet |-> "Cards", key |-> Lower(row.card), at |-> Lower(row.key)] :
                row \in {r \in RowsOf(f, "Vehicles_Cards") : r.card # NoCode}}

\* An upsert replaces what has the same key: for a tank, a credential or a
\* supervisor's site, that is all there is to it.
Replaces(a, b) ==
    /\ a.sheet = b.sheet /\ a.key = b.key
    /\ a.sheet \in {"Vehicles_Cards", "Equipment", "Cards"} \/ a.at = b.at

\* A driver's site code is validated like any other, and never written: rows of Drivers
\* put nobody anywhere.
Referring(f) ==
    UNION {{<<s, row>> : row \in RowsOf(f, s)} : s \in Sheets \ {"Sites", "Drivers"}}

AssetsAfter(f, siteBy, employeeBy) ==
    LET new == ({Become(f, x[1], x[2], siteBy, employeeBy) : x \in Referring(f)} \ {PassedOver})
               \cup Cards(f)
    IN  {a \in assets : ~\E b \in new : Replaces(a, b)} \cup new

----------------------------------------------------------------------------
(* Platform users. *)

\* The file is on disk, under a name made from the batch, before the batch is updated.
WriteFile(f) ==
    /\ batch' = [batch EXCEPT !.file = f]
    /\ UNCHANGED <<importing, sites, accounts, assets>>

SetUploadPath ==
    /\ batch.file # NoFile
    /\ batch' = [batch EXCEPT !.status = "UPLOADED", !.recorded = TRUE]
    /\ UNCHANGED <<importing, sites, accounts, assets>>

\* A commit whose file has errors ends here, as does either without an upload.
Read(r, stage) ==
    /\ importing[r] = NoRequest
    /\ batch.recorded
    /\ stage = "commit" => ~HasErrors(batch.file)
    /\ importing' = [importing EXCEPT ![r] = [stage |-> stage, file |-> batch.file,
                        errors |-> HasErrors(batch.file), seen |-> sites \cup Employed,
                        supervisors |-> Supervisors]]
    /\ UNCHANGED <<batch, sites, accounts, assets>>

StorePreview(r) ==
    /\ importing[r].stage = "preview"
    /\ batch' = [batch EXCEPT !.status = IF importing[r].errors THEN "FAILED" ELSE "PREVIEWED"]
    /\ importing' = [importing EXCEPT ![r] = NoRequest]
    /\ UNCHANGED <<sites, accounts, assets>>

Commit(r) ==
    LET f == importing[r].file
    IN  /\ importing[r].stage = "commit"
        /\ sites' = SitesAfter(f)
        /\ accounts' = UsersAfter(f)
        /\ \E siteBy \in SitesBy(f), employeeBy \in EmployeesBy(f) :
             assets' = AssetsAfter(f, siteBy, employeeBy)
        /\ batch' = [batch EXCEPT !.status = "COMMITTED"]
        /\ importing' = [importing EXCEPT ![r] = NoRequest]

\* A request fails or the process dies; a transaction that was open is rolled back.
Abort(r) ==
    /\ importing[r] # NoRequest
    /\ importing' = [importing EXCEPT ![r] = NoRequest]
    /\ UNCHANGED <<batch, sites, accounts, assets>>

----------------------------------------------------------------------------
(* The company's own users. *)

CreateSite(c) ==
    /\ sites' = sites \cup {c}
    /\ UNCHANGED <<batch, importing, accounts, assets>>

\* What is at a site, or of an employee, stays so under another code.
Recoded(old, new) ==
    LET Now(c) == IF c = old THEN new ELSE c
    IN  {[a EXCEPT !.key = Now(a.key), !.at = Now(a.at)] : a \in assets}

RecodeSite(c, d) ==
    /\ c \in sites /\ d \notin sites
    /\ sites' = (sites \ {c}) \cup {d}
    /\ assets' = Recoded(c, d)
    /\ UNCHANGED <<batch, importing, accounts>>

\* createMasterDriver and updateMasterDriver: numbers are unique as they are typed.
SaveUser(n, role) ==
    /\ accounts' = [accounts EXCEPT ![n] =
         IF @ = Absent THEN [role |-> role, password |-> "own"]
         ELSE [@ EXCEPT !.role = role]]
    /\ UNCHANGED <<batch, importing, sites, assets>>

ChangePassword(n) ==
    /\ accounts[n] # Absent
    /\ accounts' = [accounts EXCEPT ![n].password = "own"]
    /\ UNCHANGED <<batch, importing, sites, assets>>

Renumber(n, m) ==
    /\ accounts[n] # Absent /\ accounts[m] = Absent
    /\ accounts' = [accounts EXCEPT ![m] = accounts[n], ![n] = Absent]
    /\ assets' = Recoded(n, m)
    /\ UNCHANGED <<batch, importing, sites>>

----------------------------------------------------------------------------
Operate ==
    \/ \E f \in Files : WriteFile(f)
    \/ SetUploadPath
    \/ \E r \in Requests :
         \/ \E stage \in {"preview", "commit"} : Read(r, stage)
         \/ StorePreview(r) \/ Commit(r) \/ Abort(r)

Administer ==
    \/ \E c \in SiteCodes : CreateSite(c) \/ \E d \in SiteCodes : RecodeSite(c, d)
    \/ \E n \in EmployeeNumbers :
         \/ \E role \in {"DRIVER", "SITE_SUPERVISOR"} : SaveUser(n, role)
         \/ ChangePassword(n)
         \/ \E m \in EmployeeNumbers : Renumber(n, m)

ImportNext == Operate \/ Administer

ImportSpec == ImportInit /\ [][ImportNext]_importVars

----------------------------------------------------------------------------
(* Properties. *)

\* An import gives a password only to employee numbers that nobody had when its workbook
\* was validated, whatever capitals they are typed in: a workbook committed again, or
\* repeated after a lost answer, takes no password back from a number, unless the two
\* commits overlap; who was given another number since is outside it (previewing,
\* validateWorkbookRows).
KeepsAccounts ==
    [][\A n \in EmployeeNumbers : accounts[n].password = "own" /\ accounts'[n].password = "imported" =>
          \E r \in Requests : importing'[r] # importing[r] /\ n \notin importing[r].seen]_importVars

\* A workbook that passed the validation has its rows about vehicles, cards, equipment,
\* tanks, credentials and supervisors' sites stored as a whole: none is passed over or put
\* nowhere, unless a site or an employee of the company it refers to has been given
\* another code since, or the supervisor it refers to is none any more, or two employees
\* have that number but for capitals and one of them is no supervisor
\* (commitOnboardingPreview, which takes what it cannot find in silence).
StoredWhole ==
    \A r \in Requests : importing[r].stage = "commit" =>
        LET f == importing[r].file
            Gone(c) == \E old \in importing[r].seen \ (sites \cup Employed) : Lower(old) = Lower(c)
            Demoted(c) == \E n \in importing[r].supervisors \ Supervisors : Lower(n) = Lower(c)
            Roles(c) == {<<n, UsersAfter(f)[n].role>> :
                           n \in {m \in EmployeeNumbers : Lower(m) = Lower(c) /\ UsersAfter(f)[m] # Absent}}
            Twins(c) == \E x, y \in Roles(c) : x[1] # y[1] /\ x[2] # "SITE_SUPERVISOR"
        IN  \A siteBy \in SitesBy(f), employeeBy \in EmployeesBy(f), x \in Referring(f) :
              LET a == Become(f, x[1], x[2], siteBy, employeeBy)
                  row == x[2]
              IN  a = PassedOver \/ (row.site # NoCode /\ a.at = NoCode) =>
                     \/ Gone(row.site) \/ Gone(row.number)
                     \/ x[1] = "Supervisor_Sites" /\ (Demoted(row.number) \/ Twins(row.number))
=============================================================================

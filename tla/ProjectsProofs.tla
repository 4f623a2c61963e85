--------------------------- MODULE ProjectsProofs ---------------------------
(***************************************************************************)
(* What the unlocked load-check-write of ProjectService still guarantees,  *)
(* for every set of projects, codes, sites and requests.                   *)
(***************************************************************************)
EXTENDS Projects, TLAPS

InFlight(r) == pc[r] # "idle"

\* Methods that have loaded a project before they write.
Loaders == {"update", "transition", "delete", "site_create"}

\* A row has a status and a code, or it is not there.
RowInv ==
  \A p \in Project : status[p] = None <=> code[p] = None

\* What a request in flight has in its hands.
FlightInv ==
  \A r \in Request : InFlight(r) =>
    /\ op[r] \in Op
    /\ op[r] \in Loaders => proj[r] \in Project /\ status[proj[r]] # None
    /\ op[r] = "transition" => /\ arg[r] \in Status \ {"draft"}
                               /\ arg[r] # "active" => status[proj[r]] # "draft"
    /\ op[r] = "create" => arg[r] \in Code
    /\ op[r] \in {"create", "site_create"} => pc[r] # "write"
    /\ op[r] \in {"site_update", "site_delete"} => proj[r] = None /\ arg[r] \in Site
    /\ op[r] = "site_create" /\ pc[r] = "responded" => arg[r] \in Site

\* A pending project has an id and a code that no row has, and that no other
\* pending project has.
PendingInv ==
  \A r \in Request : pc[r] = "responded" /\ op[r] = "create" =>
    /\ proj[r] \in Project /\ status[proj[r]] = None
    /\ \A q \in Project : code[q] # arg[r]
    /\ \A s \in Request \ {r} :
         pc[s] = "responded" /\ op[s] = "create" =>
           arg[s] # arg[r] /\ proj[s] # proj[r]

\* Outside raced, whoever writes a project is alone with it.
AloneInv ==
  \A r, s \in Request :
    /\ r # s /\ InFlight(r) /\ InFlight(s)
    /\ proj[r] = proj[s] /\ proj[r] \in Project \ raced
    => op[r] \notin Writers

\* Outside raced, what a method has checked stays true.
GuardInv ==
  \A r \in Request :
    InFlight(r) /\ op[r] \in Loaders /\ proj[r] \notin raced
      => Guard(op[r], arg[r], proj[r])

PInv == TypeOK /\ RowInv /\ FlightInv /\ PendingInv /\ AloneInv /\ GuardInv
               /\ CodesUnique /\ ClosedHasEndDate

-----------------------------------------------------------------------------
\* There is no project and no request yet.
LEMMA PInvInit == Init => PInv
BY ProjectsAssumption
DEF Init, PInv, TypeOK, RowInv, FlightInv, PendingInv, AloneInv, GuardInv, InFlight,
    CodesUnique, ClosedHasEndDate, Steps, Status

\* No statement, commit or rollback leaves the types.
LEMMA TypeStep == TypeOK /\ FlightInv /\ PendingInv /\ [Next]_vars => TypeOK'
<1> SUFFICES ASSUME TypeOK, FlightInv, PendingInv, [Next]_vars PROVE TypeOK'
  OBVIOUS
<1> USE ProjectsAssumption DEF TypeOK, Steps, Op
<1>1. ASSUME NEW r \in Request, NEW c \in Code, StartCreate(r, c) PROVE TypeOK'
  BY <1>1 DEF StartCreate, Start, rows
<1>2. ASSUME NEW r \in Request, NEW o \in Op, NEW p \in Project,
             NEW a \in Status \union {None}, StartChange(r, o, p, a)
      PROVE  TypeOK'
  BY <1>2 DEF StartChange, Start, Race, rows
<1>3. ASSUME NEW r \in Request, NEW p \in Project, StartSiteCreate(r, p) PROVE TypeOK'
  BY <1>3 DEF StartSiteCreate, Start, Race, rows
<1>4. ASSUME NEW r \in Request, NEW o \in Op, NEW s \in Site, StartSiteChange(r, o, s)
      PROVE  TypeOK'
  BY <1>4 DEF StartSiteChange, Start, rows
<1>5. ASSUME NEW r \in Request, InsertProject(r) PROVE TypeOK'
  BY <1>5 DEF InsertProject, Goto, rows
<1>6. ASSUME NEW r \in Request, InsertSite(r) PROVE TypeOK'
  BY <1>6 DEF InsertSite, Goto, rows
<1>7. ASSUME NEW r \in Request, Write(r) PROVE TypeOK'
  BY <1>7 DEF Write, Goto, rows, locals
<1>8. ASSUME NEW r \in Request, Commit(r) PROVE TypeOK'
  <2>1. InFlight(r) BY <1>8 DEF Commit, InFlight
  <2>2. status' \in [Project -> Status \union {None}]
    BY <1>8, <2>1 DEF Commit, FlightInv, Status
  <2>3. code' \in [Project -> Code \union {None}]
    BY <1>8, <2>1 DEF Commit, FlightInv
  <2>4. deleted' \subseteq Project /\ ended' \subseteq Project
    BY <1>8, <2>1 DEF Commit, FlightInv, Loaders
  <2>5. siteOf' \in [Site -> Project \union {None}] /\ siteGone' \subseteq Site
    BY <1>8, <2>1 DEF Commit, FlightInv
  <2> QED BY <1>8, <2>2, <2>3, <2>4, <2>5 DEF Commit, Release
<1>9. ASSUME NEW r \in Request, Abort(r) PROVE TypeOK'
  BY <1>9 DEF Abort, Release, rows
<1>10. CASE UNCHANGED vars
  BY <1>10 DEF vars, rows, locals
<1> QED
  BY <1>1, <1>2, <1>3, <1>4, <1>5, <1>6, <1>7, <1>8, <1>9, <1>10 DEF Next, RequestStep

\* A load outside raced finds nobody else at work on its project, if one of the
\* two is a writer; so only a request's own commit changes what it has checked.
LEMMA PInvStep == PInv /\ [Next]_vars => PInv'
<1> SUFFICES ASSUME PInv, [Next]_vars PROVE PInv'
  OBVIOUS
<1> USE ProjectsAssumption DEF PInv, TypeOK, Steps, Op, Loaders, Writers, InFlight
<1>t. TypeOK'
  BY TypeStep
<1>1. ASSUME NEW r \in Request, NEW c \in Code, StartCreate(r, c) PROVE PInv'
  <2> USE <1>1 DEF StartCreate, Start, rows
  <2>1. RowInv' /\ CodesUnique' /\ ClosedHasEndDate'
    BY DEF RowInv, CodesUnique, ClosedHasEndDate
  <2>2. FlightInv'
    BY DEF FlightInv
  <2>3. PendingInv'
    BY DEF PendingInv
  <2>4. AloneInv'
    BY DEF AloneInv
  <2>5. GuardInv'
    BY DEF GuardInv, Guard, Live
  <2> QED BY <1>t, <2>1, <2>2, <2>3, <2>4, <2>5
<1>2. ASSUME NEW r \in Request, NEW o \in Op, NEW p \in Project,
             NEW a \in Status \union {None}, StartChange(r, o, p, a)
      PROVE  PInv'
  <2> USE <1>2 DEF StartChange, Start, rows
  <2>1. RowInv' /\ CodesUnique' /\ ClosedHasEndDate'
    BY DEF RowInv, CodesUnique, ClosedHasEndDate
  <2>2. FlightInv'
    BY DEF FlightInv, Guard, Live, CanTransition
  <2>3. PendingInv'
    BY DEF PendingInv
  <2>4. AloneInv'
    BY DEF AloneInv, Race
  <2>5. GuardInv'
    BY DEF GuardInv, Guard, Live, Race
  <2> QED BY <1>t, <2>1, <2>2, <2>3, <2>4, <2>5
<1>3. ASSUME NEW r \in Request, NEW p \in Project, StartSiteCreate(r, p) PROVE PInv'
  <2> USE <1>3 DEF StartSiteCreate, Start, rows
  <2>1. RowInv' /\ CodesUnique' /\ ClosedHasEndDate'
    BY DEF RowInv, CodesUnique, ClosedHasEndDate
  <2>2. FlightInv'
    BY DEF FlightInv, Guard, Live
  <2>3. PendingInv'
    BY DEF PendingInv
  <2>4. AloneInv'
    BY DEF AloneInv, Race
  <2>5. GuardInv'
    BY DEF GuardInv, Guard, Live, Race
  <2> QED BY <1>t, <2>1, <2>2, <2>3, <2>4, <2>5
<1>4. ASSUME NEW r \in Request, NEW o \in Op, NEW s \in Site, StartSiteChange(r, o, s)
      PROVE  PInv'
  <2> USE <1>4 DEF StartSiteChange, Start, rows
  <2>1. RowInv' /\ CodesUnique' /\ ClosedHasEndDate'
    BY DEF RowInv, CodesUnique, ClosedHasEndDate
  <2>2. FlightInv'
    BY DEF FlightInv
  <2>3. PendingInv'
    BY DEF PendingInv
  <2>4. AloneInv'
    BY DEF AloneInv
  <2>5. GuardInv'
    BY DEF GuardInv, Guard, Live
  <2> QED BY <1>t, <2>1, <2>2, <2>3, <2>4, <2>5
<1>5. ASSUME NEW r \in Request, InsertProject(r) PROVE PInv'
  <2> USE <1>5 DEF InsertProject, Goto, rows
  <2>1. RowInv' /\ CodesUnique' /\ ClosedHasEndDate'
    BY DEF RowInv, CodesUnique, ClosedHasEndDate
  <2>2. FlightInv'
    BY DEF FlightInv
  <2>3. PendingInv'
    BY DEF PendingInv
  <2>4. AloneInv'
    BY DEF AloneInv
  <2>5. GuardInv'
    BY DEF GuardInv, Guard, Live
  <2> QED BY <1>t, <2>1, <2>2, <2>3, <2>4, <2>5
<1>6. ASSUME NEW r \in Request, InsertSite(r) PROVE PInv'
  <2> USE <1>6 DEF InsertSite, Goto, rows
  <2>1. RowInv' /\ CodesUnique' /\ ClosedHasEndDate'
    BY DEF RowInv, CodesUnique, ClosedHasEndDate
  <2>2. FlightInv'
    BY DEF FlightInv
  <2>3. PendingInv'
    BY DEF PendingInv
  <2>4. AloneInv'
    BY DEF AloneInv
  <2>5. GuardInv'
    BY DEF GuardInv, Guard, Live
  <2> QED BY <1>t, <2>1, <2>2, <2>3, <2>4, <2>5
<1>7. ASSUME NEW r \in Request, Write(r) PROVE PInv'
  <2> USE <1>7 DEF Write, Goto, rows, locals
  <2>1. RowInv' /\ CodesUnique' /\ ClosedHasEndDate'
    BY DEF RowInv, CodesUnique, ClosedHasEndDate
  <2>2. FlightInv'
    BY DEF FlightInv
  <2>3. PendingInv'
    BY DEF PendingInv, FlightInv
  <2>4. AloneInv'
    BY DEF AloneInv
  <2>5. GuardInv'
    BY DEF GuardInv, Guard, Live
  <2> QED BY <1>t, <2>1, <2>2, <2>3, <2>4, <2>5
<1>8. ASSUME NEW r \in Request, Commit(r) PROVE PInv'
  <2> USE <1>8 DEF Commit, Release
  <2>1. RowInv'
    BY DEF RowInv, FlightInv, Status
  <2>2. CodesUnique'
    BY DEF CodesUnique, PendingInv
  <2>3. ClosedHasEndDate'
    BY DEF ClosedHasEndDate
  <2>4. FlightInv'
    BY DEF FlightInv, PendingInv
  <2>5. PendingInv'
    BY DEF PendingInv, FlightInv
  <2>6. AloneInv'
    BY DEF AloneInv
  <2>7. GuardInv'
    BY DEF GuardInv, Guard, Live, AloneInv, FlightInv, PendingInv
  <2> QED BY <1>t, <2>1, <2>2, <2>3, <2>4, <2>5, <2>6, <2>7
<1>9. ASSUME NEW r \in Request, Abort(r) PROVE PInv'
  <2> USE <1>9 DEF Abort, Release, rows
  <2>1. RowInv' /\ CodesUnique' /\ ClosedHasEndDate'
    BY DEF RowInv, CodesUnique, ClosedHasEndDate
  <2>2. FlightInv'
    BY DEF FlightInv
  <2>3. PendingInv'
    BY DEF PendingInv
  <2>4. AloneInv'
    BY DEF AloneInv
  <2>5. GuardInv'
    BY DEF GuardInv, Guard, Live
  <2> QED BY <1>t, <2>1, <2>2, <2>3, <2>4, <2>5
<1>10. CASE UNCHANGED vars
  <2> USE <1>10 DEF vars, rows, locals
  <2>1. RowInv' /\ CodesUnique' /\ ClosedHasEndDate'
    BY DEF RowInv, CodesUnique, ClosedHasEndDate
  <2>2. FlightInv' /\ PendingInv'
    BY DEF FlightInv, PendingInv
  <2>3. AloneInv' /\ GuardInv'
    BY DEF AloneInv, GuardInv, Guard, Live
  <2> QED BY <1>t, <2>1, <2>2, <2>3
<1> QED
  BY <1>1, <1>2, <1>3, <1>4, <1>5, <1>6, <1>7, <1>8, <1>9, <1>10 DEF Next, RequestStep

\* The inductive invariant of the project and site services holds in every
\* reachable state.
THEOREM ProjectsInvariant == Spec => []PInv
<1>1. Init => PInv
  BY PInvInit
<1>2. PInv /\ [Next]_vars => PInv'
  BY PInvStep
<1> QED
  BY <1>1, <1>2, PTL DEF Spec

-----------------------------------------------------------------------------
\* Type correctness, for every value of the constants.
THEOREM ProjectsTypeOK == Spec => []TypeOK
<1>1. PInv => TypeOK
  BY DEF PInv
<1> QED
  BY <1>1, ProjectsInvariant, PTL

\* Codes stay unique although code_exists races with the INSERT: the unique index
\* makes the second creation wait, and fail.
THEOREM ProjectCodesUnique == Spec => []CodesUnique
<1>1. PInv => CodesUnique
  BY DEF PInv
<1> QED
  BY <1>1, ProjectsInvariant, PTL

\* Whatever transitions overwrite one another, a closed project has its end date.
THEOREM ClosedHaveEndDate == Spec => []ClosedHasEndDate
<1>1. PInv => ClosedHasEndDate
  BY DEF PInv
<1> QED
  BY <1>1, ProjectsInvariant, PTL

\* transition_status never takes a draft anywhere but to active, nor back, even
\* when the status it writes over is not the one it has checked.
THEOREM DraftsOnlyActivate == Spec => DraftOnlyActivates
<1> DEFINE Step ==
      \A p \in Project :
        status'[p] # status[p] => /\ status[p] = "draft" => status'[p] = "active"
                                  /\ status'[p] = "draft" => status[p] = None
<1>1. ASSUME PInv, [Next]_vars PROVE [Step]_vars
  <2>1. CASE \E r \in Request : Commit(r)
    BY <1>1, <2>1, ProjectsAssumption
    DEF Commit, PInv, TypeOK, FlightInv, PendingInv, InFlight, Loaders, Op, Status
  <2>2. CASE ~(\E r \in Request : Commit(r))
    BY <1>1, <2>2
    DEF Next, RequestStep, vars, rows, locals, StartCreate, StartChange, StartSiteCreate,
        StartSiteChange, InsertProject, InsertSite, Write, Abort
  <2> QED BY <2>1, <2>2
<1> QED
  BY <1>1, ProjectsInvariant, PTL DEF Spec, DraftOnlyActivates

\* The load, the check and the write of a method act as one step unless a
\* transition or a delete of the same project is in flight with it.
THEOREM GuardsHoldAtCommit == Spec => GuardHoldsAtCommit
<1> DEFINE Step ==
      \A r \in Request :
        Commit(r) /\ op[r] # "create" /\ proj[r] \in Project \ raced
          => Guard(op[r], arg[r], proj[r])
<1>1. PInv => Step
  <2> SUFFICES ASSUME PInv, NEW r \in Request, Commit(r), op[r] # "create",
                      proj[r] \in Project \ raced
               PROVE  Guard(op[r], arg[r], proj[r])
    OBVIOUS
  <2>1. InFlight(r) /\ op[r] \in Loaders
    BY ProjectsAssumption DEF Commit, PInv, FlightInv, InFlight, Loaders, Op
  <2> QED BY <2>1 DEF PInv, GuardInv
<1> QED
  BY <1>1, ProjectsInvariant, PTL DEF Spec, GuardHoldsAtCommit

-----------------------------------------------------------------------------
(* The refinement of ProjectLedger *)

\* A pending site has an id that no row and no other pending site has; a site that
\* is being changed has a row.
SiteInv ==
  \A r \in Request :
    /\ pc[r] = "responded" /\ op[r] = "site_create" =>
         /\ siteOf[arg[r]] = None
         /\ \A s \in Request \ {r} :
              pc[s] = "responded" /\ op[s] = "site_create" => arg[s] # arg[r]
    /\ InFlight(r) /\ op[r] \in {"site_update", "site_delete"} => siteOf[arg[r]] # None

LEMMA SiteInvStep == PInv /\ SiteInv /\ [Next]_vars => SiteInv'
<1> SUFFICES ASSUME PInv, SiteInv, [Next]_vars PROVE SiteInv'
  OBVIOUS
<1> USE ProjectsAssumption DEF PInv, TypeOK, SiteInv, InFlight
<1>1. ASSUME NEW r \in Request, Commit(r) PROVE SiteInv'
  BY <1>1 DEF Commit, Release, FlightInv, PendingInv
<1>2. ASSUME NEW r \in Request, Abort(r) PROVE SiteInv'
  BY <1>2 DEF Abort, Release, rows
<1>3. ASSUME NEW r \in Request, InsertSite(r) PROVE SiteInv'
  BY <1>3 DEF InsertSite, Goto, rows
<1>4. ASSUME NEW r \in Request, Write(r) PROVE SiteInv'
  BY <1>4 DEF Write, Goto, rows, locals, FlightInv
<1>5. ASSUME NEW r \in Request, InsertProject(r) PROVE SiteInv'
  BY <1>5 DEF InsertProject, Goto, rows
<1>6. ASSUME NEW r \in Request, NEW o \in Op, NEW s \in Site, StartSiteChange(r, o, s)
      PROVE  SiteInv'
  BY <1>6 DEF StartSiteChange, SiteLive, Start, rows
<1>7. ASSUME NEW r \in Request, NEW p \in Project, StartSiteCreate(r, p) PROVE SiteInv'
  BY <1>7 DEF StartSiteCreate, Start, rows
<1>8. ASSUME NEW r \in Request, NEW o \in Op, NEW p \in Project,
             NEW a \in Status \union {None}, StartChange(r, o, p, a)
      PROVE  SiteInv'
  BY <1>8 DEF StartChange, Start, rows
<1>9. ASSUME NEW r \in Request, NEW c \in Code, StartCreate(r, c) PROVE SiteInv'
  BY <1>9 DEF StartCreate, Start, rows
<1>10. CASE UNCHANGED vars
  BY <1>10 DEF vars, rows, locals
<1> QED
  BY <1>1, <1>2, <1>3, <1>4, <1>5, <1>6, <1>7, <1>8, <1>9, <1>10 DEF Next, RequestStep

\* A commit is a step of the ledger, by what its method has checked (GuardInv) or,
\* on a raced project, by what no overlap can undo (FlightInv).
LEMMA CommitIsLedgerStep ==
  ASSUME PInv, SiteInv, NEW r \in Request, Commit(r)
  PROVE  Ledger!Next \/ UNCHANGED Ledger!vars
<1> DEFINE p == proj[r]
<1> USE ProjectsAssumption
<1>1. InFlight(r) /\ op[r] \in Op /\ pc[r] = "responded"
  BY DEF PInv, FlightInv, Commit, InFlight
<1>2. CASE op[r] = "create"
  <2>1. p \in Project /\ arg[r] \in Code /\ Ledger!Create(p, arg[r])
    BY <1>1, <1>2
    DEF Commit, PInv, PendingInv, FlightInv, Ledger!Create, Ledger!Exists
  <2> QED BY <2>1 DEF Ledger!Next
<1>3. CASE op[r] = "transition"
  <2>1. p \in Project /\ arg[r] \in {"active", "on_hold", "closed"}
    BY <1>1, <1>3 DEF PInv, FlightInv, Loaders, Status
  <2>2. status[p] # None /\ (status[p] = "draft" => arg[r] = "active")
    BY <1>1, <1>3 DEF PInv, FlightInv, Loaders
  <2>3. p \notin raced => Live(p) /\ CanTransition(status[p], arg[r])
    BY <1>1, <1>3 DEF PInv, GuardInv, Guard, Loaders
  <2>4. status' = [status EXCEPT ![p] = arg[r]] /\ UNCHANGED <<code, deleted, siteOf, siteGone, raced>>
    BY <1>3 DEF Commit
  <2>5. ended' = IF arg[r] = "closed" THEN ended \union {p} ELSE ended
    BY <1>3 DEF Commit
  <2>6. p \notin raced => Ledger!Live(p) /\ <<status[p], arg[r]>> \in Ledger!Allowed
    BY <2>3 DEF Live, Ledger!Live, Ledger!Exists, CanTransition, Ledger!Allowed
  <2>7. Ledger!Move(p, arg[r])
    BY <2>1, <2>2, <2>4, <2>5, <2>6 DEF Ledger!Move, Ledger!Exists
  <2> QED BY <2>1, <2>7 DEF Ledger!Next
<1>4. CASE op[r] = "delete"
  <2>1. p \in Project /\ status[p] # None
    BY <1>1, <1>4 DEF PInv, FlightInv, Loaders
  <2>2. p \notin raced => Live(p) /\ status[p] \in {"draft", "closed"}
    BY <1>1, <1>4 DEF PInv, GuardInv, Guard, Loaders
  <2>3. Ledger!Delete(p)
    BY <1>4, <2>1, <2>2 DEF Commit, Ledger!Delete, Ledger!Exists, Ledger!Live, Live
  <2> QED BY <2>1, <2>3 DEF Ledger!Next
<1>5. CASE op[r] = "site_create"
  <2>1. p \in Project /\ status[p] # None /\ arg[r] \in Site /\ siteOf[arg[r]] = None
    BY <1>1, <1>5 DEF PInv, FlightInv, Loaders, SiteInv
  <2>2. p \notin raced => Live(p) /\ status[p] # "closed"
    BY <1>1, <1>5 DEF PInv, GuardInv, Guard, Loaders
  <2>3. Ledger!AddSite(p, arg[r])
    BY <1>5, <2>1, <2>2 DEF Commit, Ledger!AddSite, Ledger!Exists, Ledger!Live, Live
  <2> QED BY <2>1, <2>3 DEF Ledger!Next
<1>6. CASE op[r] = "site_delete"
  <2>1. arg[r] \in Site /\ siteOf[arg[r]] # None
    BY <1>1, <1>6 DEF PInv, FlightInv, SiteInv
  <2>2. Ledger!RemoveSite(arg[r])
    BY <1>6, <2>1 DEF Commit, Ledger!RemoveSite
  <2> QED BY <2>1, <2>2 DEF Ledger!Next
<1>7. CASE op[r] \in {"update", "site_update"}
  BY <1>7 DEF Commit, Ledger!vars
<1> QED BY <1>1, <1>2, <1>3, <1>4, <1>5, <1>6, <1>7 DEF Op

\* Every other step leaves the rows alone; a load can show that a project is raced.
LEMMA LedgerStep == PInv /\ SiteInv /\ [Next]_vars => [Ledger!Next]_(Ledger!vars)
<1> SUFFICES ASSUME PInv, SiteInv, [Next]_vars
             PROVE  Ledger!Next \/ UNCHANGED Ledger!vars
  OBVIOUS
<1>1. ASSUME NEW r \in Request, Commit(r)
      PROVE  Ledger!Next \/ UNCHANGED Ledger!vars
  BY <1>1, CommitIsLedgerStep
<1>2. ASSUME NEW r \in Request, NEW o \in Op, NEW p \in Project, UNCHANGED rows, Race(r, o, p)
      PROVE  Ledger!Next \/ UNCHANGED Ledger!vars
  BY <1>2 DEF rows, Race, Ledger!Contend, Ledger!Next, Ledger!vars
<1>3. CASE UNCHANGED <<rows, raced>>
  BY <1>3 DEF rows, Ledger!vars
<1>4. ASSUME NEW r \in Request, NEW p \in Project, StartSiteCreate(r, p)
      PROVE  Ledger!Next \/ UNCHANGED Ledger!vars
  BY <1>2, <1>4 DEF StartSiteCreate, Op
<1>5. ASSUME NEW r \in Request, NEW o \in Op, NEW p \in Project,
             NEW a \in Status \union {None}, StartChange(r, o, p, a)
      PROVE  Ledger!Next \/ UNCHANGED Ledger!vars
  BY <1>2, <1>5 DEF StartChange
<1>6. ASSUME NEW r \in Request,
             \/ InsertProject(r) \/ InsertSite(r) \/ Write(r) \/ Abort(r)
             \/ \E c \in Code : StartCreate(r, c)
             \/ \E o \in Op, s \in Site : StartSiteChange(r, o, s)
      PROVE  UNCHANGED <<rows, raced>>
  BY <1>6 DEF InsertProject, InsertSite, Write, Abort, StartCreate, StartSiteChange
<1> QED
  BY <1>1, <1>3, <1>4, <1>5, <1>6 DEF Next, RequestStep, vars

\* The services implement the ledger: the unlocked load, check, write and commit
\* of every method are one atomic step of it.
THEOREM ProjectsImplementLedger == Spec => ImplementsLedger
<1>1. Init => Ledger!Init /\ SiteInv
  BY DEF Init, Ledger!Init, SiteInv, InFlight
<1>2. PInv /\ SiteInv /\ [Next]_vars => SiteInv'
  BY SiteInvStep
<1>3. PInv /\ SiteInv /\ [Next]_vars => [Ledger!Next]_(Ledger!vars)
  BY LedgerStep
<1> QED
  BY <1>1, <1>2, <1>3, ProjectsInvariant, PTL DEF Spec, Ledger!Spec, ImplementsLedger

\* ADR-010's "closed is a terminal state" is true of every project on which no
\* transition or delete has overlapped another request; the overlap is all that
\* reopens a project.
THEOREM ClosedStaysClosed ==
  Spec => [][\A p \in Project \ raced : status[p] = "closed" => status'[p] = "closed"]_vars
<1> DEFINE Step == \A p \in Project \ raced : status[p] = "closed" => status'[p] = "closed"
<1>1. ASSUME PInv, SiteInv, [Next]_vars PROVE [Step]_vars
  <2>1. CASE UNCHANGED Ledger!vars
    BY <2>1 DEF Ledger!vars
  <2>2. CASE Ledger!Next
    <3>1. ASSUME NEW p \in Project, NEW s \in {"active", "on_hold", "closed"},
                 Ledger!Move(p, s)
          PROVE  Step
      <4>1. /\ p \notin raced /\ status[p] = "closed" => FALSE
            /\ \A q \in Project \ {p} : status'[q] = status[q]
        BY <1>1, <3>1 DEF PInv, TypeOK, Ledger!Move, Ledger!Allowed
      <4> QED BY <4>1
    <3>2. ASSUME NEW p \in Project, NEW c \in Code, Ledger!Create(p, c)
          PROVE  Step
      BY <1>1, <3>2, ProjectsAssumption DEF PInv, TypeOK, Status, Ledger!Create, Ledger!Exists
    <3>3. CASE status' = status
      BY <3>3
    <3> QED
      BY <2>2, <3>1, <3>2, <3>3
      DEF Ledger!Next, Ledger!Delete, Ledger!Contend, Ledger!AddSite, Ledger!RemoveSite
  <2> QED
    BY <1>1, <2>1, <2>2, LedgerStep
<1>2. Init => SiteInv
  BY DEF Init, SiteInv, InFlight
<1>3. PInv /\ SiteInv /\ [Next]_vars => SiteInv'
  BY SiteInvStep
<1> QED
  BY <1>1, <1>2, <1>3, ProjectsInvariant, PTL DEF Spec

=============================================================================

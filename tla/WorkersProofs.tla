--------------------------- MODULE WorkersProofs ----------------------------
(***************************************************************************)
(* What the unlocked load-check-write of WorkerService and of              *)
(* WorkerDocumentService still guarantees, for every set of workers,       *)
(* documents and requests.                                                 *)
(***************************************************************************)
EXTENDS Workers, TLAPS

InFlight(r) == pc[r] # "idle"

\* What a request in flight has in its hands.
FlightInv ==
  \A r \in Request : InFlight(r) =>
    /\ op[r] \in Op
    /\ op[r] \in {"update", "delete", "add"} => row[r] \in Worker /\ code[row[r]] # None
    /\ op[r] \in DocOp => row[r] \in Doc /\ docOf[row[r]] # None
    /\ op[r] = "doc_update" => arg[r] \in Content
    /\ op[r] = "verify" => arg[r] \in User
    /\ op[r] = "create" => arg[r] \in Code
    /\ op[r] \in {"create", "add"} => pc[r] # "write"
    /\ op[r] = "add" /\ pc[r] = "responded" => arg[r] \in Doc

\* A pending worker has an id and a code that no row has, and that no other
\* pending worker has.
PendingInv ==
  \A r \in Request : pc[r] = "responded" /\ op[r] = "create" =>
    /\ row[r] \in Worker /\ code[row[r]] = None
    /\ \A w \in Worker : code[w] # arg[r]
    /\ \A s \in Request \ {r} :
         pc[s] = "responded" /\ op[s] = "create" =>
           arg[s] # arg[r] /\ row[s] # row[r]

\* Outside raced, whoever writes a row is alone with it.
AloneInv ==
  \A r, s \in Request :
    /\ r # s /\ InFlight(r) /\ InFlight(s)
    /\ row[r] = row[s] /\ row[r] \in (Worker \union Doc) \ raced
    => op[r] \notin Writers

\* Outside raced, what a method has checked and seen stays true.
GuardInv ==
  \A r \in Request : InFlight(r) /\ row[r] \notin raced =>
    /\ op[r] \in {"update", "delete", "add"} => Live(row[r])
    /\ op[r] \in DocOp => DocGuard(op[r], arg[r], row[r]) /\ content[row[r]] = seen[r]

WInv == TypeOK /\ FlightInv /\ PendingInv /\ AloneInv /\ GuardInv /\ EmployeeCodesUnique

-----------------------------------------------------------------------------
\* There is no row and no request yet.
LEMMA WInvInit == Init => WInv
BY WorkersAssumption
DEF Init, WInv, TypeOK, FlightInv, PendingInv, AloneInv, GuardInv, InFlight,
    EmployeeCodesUnique, Steps

\* No statement, commit or rollback leaves the types.
LEMMA TypeStep == TypeOK /\ FlightInv /\ [Next]_vars => TypeOK'
<1> SUFFICES ASSUME TypeOK, FlightInv, [Next]_vars PROVE TypeOK'
  OBVIOUS
<1> USE WorkersAssumption DEF TypeOK, Steps, Op, DocOp
<1>1. ASSUME NEW r \in Request, NEW c \in Code, StartCreate(r, c) PROVE TypeOK'
  BY <1>1 DEF StartCreate, Start, rows
<1>2. ASSUME NEW r \in Request, NEW o \in Op, NEW w \in Worker,
             StartWorkerChange(r, o, w)
     PROVE  TypeOK'
  BY <1>2 DEF StartWorkerChange, Start, rows, Race
<1>3. ASSUME NEW r \in Request, NEW w \in Worker, StartAdd(r, w) PROVE TypeOK'
  BY <1>3 DEF StartAdd, Start, rows, Race
<1>4. ASSUME NEW r \in Request, NEW o \in DocOp, NEW d \in Doc,
             NEW a \in Content \union User \union {None},
             StartDocChange(r, o, d, a)
     PROVE  TypeOK'
  BY <1>4 DEF StartDocChange, Start, rows, Race, DocGuard
<1>5. ASSUME NEW r \in Request, InsertWorker(r) PROVE TypeOK'
  BY <1>5 DEF InsertWorker, Goto, rows
<1>6. ASSUME NEW r \in Request, InsertDoc(r) PROVE TypeOK'
  BY <1>6 DEF InsertDoc, Goto, rows
<1>7. ASSUME NEW r \in Request, Write(r) PROVE TypeOK'
  BY <1>7 DEF Write, Goto, rows, locals
<1>8. ASSUME NEW r \in Request, Commit(r) PROVE TypeOK'
  <2>1. InFlight(r) BY <1>8 DEF Commit, InFlight
  <2>2. code' \in [Worker -> Code \union {None}] /\ gone' \subseteq Worker
    BY <1>8, <2>1 DEF Commit, FlightInv
  <2>3. docOf' \in [Doc -> Worker \union {None}] /\ docGone' \subseteq Doc
    BY <1>8, <2>1 DEF Commit, FlightInv
  <2>4. content' \in [Doc -> Content \union {None}]
    BY <1>8, <2>1 DEF Commit, FlightInv
  <2>5. verifier' \in [Doc -> User \union {None}]
    BY <1>8, <2>1 DEF Commit, FlightInv
  <2> QED BY <1>8, <2>2, <2>3, <2>4, <2>5 DEF Commit, Release
<1>9. ASSUME NEW r \in Request, Abort(r) PROVE TypeOK'
  BY <1>9 DEF Abort, Release, rows
<1>10. CASE UNCHANGED vars
  BY <1>10 DEF vars, rows, locals
<1> QED
  BY <1>1, <1>2, <1>3, <1>4, <1>5, <1>6, <1>7, <1>8, <1>9, <1>10
  DEF Next, RequestStep

\* A load outside raced finds nobody else at work on its row, if one of the two
\* is a writer; so only a request's own commit changes what it has checked.
LEMMA WInvStep == WInv /\ [Next]_vars => WInv'
<1> SUFFICES ASSUME WInv, [Next]_vars PROVE WInv'
  OBVIOUS
<1> USE WorkersAssumption DEF WInv, TypeOK, Steps, Op, DocOp, Writers, InFlight
<1>t. TypeOK'
  BY TypeStep
<1>1. ASSUME NEW r \in Request, NEW c \in Code, StartCreate(r, c) PROVE WInv'
  <2> USE <1>1 DEF StartCreate, Start, rows
  <2>1. EmployeeCodesUnique'
    BY DEF EmployeeCodesUnique
  <2>2. FlightInv'
    BY DEF FlightInv
  <2>3. PendingInv'
    BY DEF PendingInv
  <2>4. AloneInv'
    BY DEF AloneInv
  <2>5. GuardInv'
    BY DEF GuardInv, Live, DocGuard, DocLive
  <2> QED BY <1>t, <2>1, <2>2, <2>3, <2>4, <2>5
<1>2. ASSUME NEW r \in Request, NEW o \in Op, NEW w \in Worker,
             StartWorkerChange(r, o, w)
     PROVE  WInv'
  <2> USE <1>2 DEF StartWorkerChange, Start, rows
  <2>1. EmployeeCodesUnique'
    BY DEF EmployeeCodesUnique
  <2>2. FlightInv'
    BY DEF FlightInv, Live
  <2>3. PendingInv'
    BY DEF PendingInv
  <2>4. AloneInv'
    BY DEF AloneInv, Race
  <2>5. GuardInv'
    BY DEF GuardInv, Live, DocGuard, DocLive, Race
  <2> QED BY <1>t, <2>1, <2>2, <2>3, <2>4, <2>5
<1>3. ASSUME NEW r \in Request, NEW w \in Worker, StartAdd(r, w) PROVE WInv'
  <2> USE <1>3 DEF StartAdd, Start, rows
  <2>1. EmployeeCodesUnique'
    BY DEF EmployeeCodesUnique
  <2>2. FlightInv'
    BY DEF FlightInv, Live
  <2>3. PendingInv'
    BY DEF PendingInv
  <2>4. AloneInv'
    BY DEF AloneInv, Race
  <2>5. GuardInv'
    BY DEF GuardInv, Live, DocGuard, DocLive, Race
  <2> QED BY <1>t, <2>1, <2>2, <2>3, <2>4, <2>5
<1>4. ASSUME NEW r \in Request, NEW o \in DocOp, NEW d \in Doc,
             NEW a \in Content \union User \union {None},
             StartDocChange(r, o, d, a)
     PROVE  WInv'
  <2> USE <1>4 DEF StartDocChange, Start, rows
  <2>1. EmployeeCodesUnique'
    BY DEF EmployeeCodesUnique
  <2>2. FlightInv'
    BY DEF FlightInv, DocGuard, DocLive
  <2>3. PendingInv'
    BY DEF PendingInv
  <2>4. AloneInv'
    BY DEF AloneInv, Race
  <2>5. GuardInv'
    BY DEF GuardInv, Live, DocGuard, DocLive, Race
  <2> QED BY <1>t, <2>1, <2>2, <2>3, <2>4, <2>5
<1>5. ASSUME NEW r \in Request, InsertWorker(r) PROVE WInv'
  <2> USE <1>5 DEF InsertWorker, Goto, rows
  <2>1. EmployeeCodesUnique'
    BY DEF EmployeeCodesUnique
  <2>2. FlightInv'
    BY DEF FlightInv
  <2>3. PendingInv'
    BY DEF PendingInv
  <2>4. AloneInv'
    BY DEF AloneInv
  <2>5. GuardInv'
    BY DEF GuardInv, Live, DocGuard, DocLive
  <2> QED BY <1>t, <2>1, <2>2, <2>3, <2>4, <2>5
<1>6. ASSUME NEW r \in Request, InsertDoc(r) PROVE WInv'
  <2> USE <1>6 DEF InsertDoc, Goto, rows
  <2>1. EmployeeCodesUnique'
    BY DEF EmployeeCodesUnique
  <2>2. FlightInv'
    BY DEF FlightInv
  <2>3. PendingInv'
    BY DEF PendingInv
  <2>4. AloneInv'
    BY DEF AloneInv
  <2>5. GuardInv'
    BY DEF GuardInv, Live, DocGuard, DocLive
  <2> QED BY <1>t, <2>1, <2>2, <2>3, <2>4, <2>5
<1>7. ASSUME NEW r \in Request, Write(r) PROVE WInv'
  <2> USE <1>7 DEF Write, Goto, rows, locals
  <2>1. EmployeeCodesUnique'
    BY DEF EmployeeCodesUnique
  <2>2. FlightInv'
    BY DEF FlightInv
  <2>3. PendingInv'
    BY DEF PendingInv, FlightInv
  <2>4. AloneInv'
    BY DEF AloneInv
  <2>5. GuardInv'
    BY DEF GuardInv, Live, DocGuard, DocLive
  <2> QED BY <1>t, <2>1, <2>2, <2>3, <2>4, <2>5
<1>8. ASSUME NEW r \in Request, Commit(r) PROVE WInv'
  <2> USE <1>8 DEF Commit, Release
  <2>1. EmployeeCodesUnique'
    BY DEF EmployeeCodesUnique, PendingInv
  <2>2. FlightInv'
    BY DEF FlightInv
  <2>3. PendingInv'
    BY DEF PendingInv
  <2>4. AloneInv'
    BY DEF AloneInv
  <2>5. GuardInv'
    BY DEF GuardInv, Live, DocGuard, DocLive, AloneInv, FlightInv
  <2> QED BY <1>t, <2>1, <2>2, <2>3, <2>4, <2>5
<1>9. ASSUME NEW r \in Request, Abort(r) PROVE WInv'
  <2> USE <1>9 DEF Abort, Release, rows
  <2>1. EmployeeCodesUnique'
    BY DEF EmployeeCodesUnique
  <2>2. FlightInv'
    BY DEF FlightInv
  <2>3. PendingInv'
    BY DEF PendingInv
  <2>4. AloneInv'
    BY DEF AloneInv
  <2>5. GuardInv'
    BY DEF GuardInv, Live, DocGuard, DocLive
  <2> QED BY <1>t, <2>1, <2>2, <2>3, <2>4, <2>5
<1>10. CASE UNCHANGED vars
  <2> USE <1>10 DEF vars, rows, locals
  <2>1. EmployeeCodesUnique' /\ FlightInv' /\ PendingInv'
    BY DEF EmployeeCodesUnique, FlightInv, PendingInv
  <2>2. AloneInv' /\ GuardInv'
    BY DEF AloneInv, GuardInv, Live, DocGuard, DocLive
  <2> QED BY <1>t, <2>1, <2>2
<1> QED
  BY <1>1, <1>2, <1>3, <1>4, <1>5, <1>6, <1>7, <1>8, <1>9, <1>10
  DEF Next, RequestStep

\* The inductive invariant of the worker and document services holds in every
\* reachable state.
THEOREM WorkersInvariant == Spec => []WInv
<1>1. Init => WInv
  BY WInvInit
<1>2. WInv /\ [Next]_vars => WInv'
  BY WInvStep
<1> QED
  BY <1>1, <1>2, PTL DEF Spec

-----------------------------------------------------------------------------
\* Type correctness, for every value of the constants.
THEOREM WorkersTypeOK == Spec => []TypeOK
<1>1. WInv => TypeOK
  BY DEF WInv
<1> QED
  BY <1>1, WorkersInvariant, PTL

\* Employee codes stay unique although code_exists races with the INSERT and
\* skips deleted workers: the unique index stops the second creation.
THEOREM WorkerCodesUnique == Spec => []EmployeeCodesUnique
<1>1. WInv => EmployeeCodesUnique
  BY DEF WInv
<1> QED
  BY <1>1, WorkersInvariant, PTL

\* A verification is never undone, whatever update or delete overwrites the row
\* after it, and keeps its verifier outside raced.
THEOREM VerifiedOnlyOnce == Spec => VerifiedOnce
<1> DEFINE Step ==
      \A d \in Doc : verifier[d] # None =>
        /\ verifier'[d] # None
        /\ d \notin raced => verifier'[d] = verifier[d]
<1>1. ASSUME WInv, [Next]_vars PROVE [Step]_vars
  <2>1. ASSUME NEW r \in Request, Commit(r) PROVE Step
    BY <1>1, <2>1, WorkersAssumption
    DEF Commit, WInv, TypeOK, FlightInv, GuardInv, DocGuard, InFlight, DocOp
  <2>2. CASE ~(\E r \in Request : Commit(r))
    BY <1>1, <2>2
    DEF Next, RequestStep, vars, rows, locals, StartCreate, StartWorkerChange, StartAdd,
        StartDocChange, InsertWorker, InsertDoc, Write, Abort
  <2> QED BY <2>1, <2>2
<1> QED
  BY <1>1, WorkersInvariant, PTL DEF Spec, VerifiedOnce

\* A request changes, verifies or deletes the document as it has seen it, unless
\* another request on it was in flight.
THEOREM SeenHolds == Spec => SeenHoldsAtCommit
<1> DEFINE Step ==
      \A r \in Request :
        Commit(r) /\ op[r] \in DocOp /\ row[r] \notin raced =>
          DocGuard(op[r], arg[r], row[r]) /\ content[row[r]] = seen[r]
<1>1. WInv => Step
  BY DEF WInv, GuardInv, InFlight, Commit
<1> QED
  BY <1>1, WorkersInvariant, PTL DEF Spec, SeenHoldsAtCommit

\* No document comes to a deleted worker, unless the deletion was in flight with
\* the upload.
THEOREM DocumentsOfLiveWorkers == Spec => AddedToLiveWorker
<1> DEFINE Step ==
      \A d \in Doc :
        docOf'[d] # docOf[d] /\ docOf'[d] \notin raced => Live(docOf'[d])
<1>1. ASSUME WInv, [Next]_vars PROVE [Step]_vars
  <2>1. ASSUME NEW r \in Request, Commit(r) PROVE Step
    BY <1>1, <2>1, WorkersAssumption
    DEF Commit, WInv, TypeOK, FlightInv, GuardInv, InFlight
  <2>2. CASE ~(\E r \in Request : Commit(r))
    BY <1>1, <2>2
    DEF Next, RequestStep, vars, rows, locals, StartCreate, StartWorkerChange, StartAdd,
        StartDocChange, InsertWorker, InsertDoc, Write, Abort
  <2> QED BY <2>1, <2>2
<1> QED
  BY <1>1, WorkersInvariant, PTL DEF Spec, AddedToLiveWorker

-----------------------------------------------------------------------------
(* The refinement of WorkerLedger *)

\* A pending document has an id that no row and no other pending document has.
DocInv ==
  \A r \in Request : pc[r] = "responded" /\ op[r] = "add" =>
    /\ docOf[arg[r]] = None
    /\ \A s \in Request \ {r} :
         pc[s] = "responded" /\ op[s] = "add" => arg[s] # arg[r]

LEMMA DocInvStep == WInv /\ DocInv /\ [Next]_vars => DocInv'
<1> SUFFICES ASSUME WInv, DocInv, [Next]_vars PROVE DocInv'
  OBVIOUS
<1> USE WorkersAssumption DEF WInv, TypeOK, DocInv, InFlight
<1>1. ASSUME NEW r \in Request, Commit(r) PROVE DocInv'
  BY <1>1 DEF Commit, Release, FlightInv
<1>2. ASSUME NEW r \in Request, Abort(r) PROVE DocInv'
  BY <1>2 DEF Abort, Release, rows
<1>3. ASSUME NEW r \in Request, InsertDoc(r) PROVE DocInv'
  BY <1>3 DEF InsertDoc, Goto, rows
<1>4. ASSUME NEW r \in Request, Write(r) PROVE DocInv'
  BY <1>4 DEF Write, Goto, rows, locals, FlightInv
<1>5. ASSUME NEW r \in Request, InsertWorker(r) PROVE DocInv'
  BY <1>5 DEF InsertWorker, Goto, rows
<1>6. ASSUME NEW r \in Request, NEW o \in DocOp, NEW d \in Doc,
             NEW a \in Content \union User \union {None}, StartDocChange(r, o, d, a)
      PROVE  DocInv'
  BY <1>6 DEF StartDocChange, Start, rows
<1>7. ASSUME NEW r \in Request, NEW w \in Worker, StartAdd(r, w) PROVE DocInv'
  BY <1>7 DEF StartAdd, Start, rows
<1>8. ASSUME NEW r \in Request, NEW o \in Op, NEW w \in Worker, StartWorkerChange(r, o, w)
      PROVE  DocInv'
  BY <1>8 DEF StartWorkerChange, Start, rows
<1>9. ASSUME NEW r \in Request, NEW c \in Code, StartCreate(r, c) PROVE DocInv'
  BY <1>9 DEF StartCreate, Start, rows
<1>10. CASE UNCHANGED vars
  BY <1>10 DEF vars, rows, locals
<1> QED
  BY <1>1, <1>2, <1>3, <1>4, <1>5, <1>6, <1>7, <1>8, <1>9, <1>10 DEF Next, RequestStep

\* A commit of WorkerService is a step of the ledger.
LEMMA WorkerCommitIsLedgerStep ==
  ASSUME WInv, NEW r \in Request, Commit(r), op[r] \in {"create", "update", "delete"}
  PROVE  Ledger!Next \/ UNCHANGED Ledger!vars
<1>0. InFlight(r) /\ pc[r] = "responded"
  BY DEF Commit, InFlight
<1>1. CASE op[r] = "create"
  <2>1. PICK w \in Worker, c \in Code : w = row[r] /\ c = arg[r]
    BY <1>0, <1>1 DEF WInv, FlightInv, PendingInv
  <2>2. code[w] = None /\ \A v \in Worker : code[v] # c
    BY <1>0, <1>1, <2>1 DEF WInv, PendingInv
  <2>3. Ledger!Hire(w, c)
    BY <1>1, <2>1, <2>2 DEF Commit, Ledger!Hire
  <2> QED BY <2>3 DEF Ledger!Next
<1>2. CASE op[r] = "delete"
  <2>1. PICK w \in Worker : w = row[r] /\ code[w] # None
    BY <1>0, <1>2 DEF WInv, FlightInv
  <2>2. w \in gone => w \in raced
    BY <1>0, <1>2, <2>1 DEF WInv, GuardInv, Live
  <2>3. Ledger!Dismiss(w)
    BY <1>2, <2>1, <2>2 DEF Commit, Ledger!Dismiss, Ledger!Employed, DocOp
  <2> QED BY <2>3 DEF Ledger!Next
<1>3. CASE op[r] = "update"
  BY <1>3 DEF Commit, Ledger!vars, DocOp
<1> QED BY <1>1, <1>2, <1>3

\* A commit of WorkerDocumentService is a step of the ledger, by what it has checked
\* (GuardInv) or, on a contended row, by what no overlap can undo (FlightInv).
LEMMA DocCommitIsLedgerStep ==
  ASSUME WInv, DocInv, NEW r \in Request, Commit(r), op[r] \in {"add"} \union DocOp
  PROVE  Ledger!Next \/ UNCHANGED Ledger!vars
<1> USE DEF DocOp
<1>0. InFlight(r) /\ pc[r] = "responded"
  BY DEF Commit, InFlight
<1>1. CASE op[r] = "add"
  <2>1. PICK w \in Worker, d \in Doc :
          w = row[r] /\ d = arg[r] /\ code[w] # None /\ docOf[d] = None
    BY <1>0, <1>1 DEF WInv, FlightInv, DocInv
  <2>2. w \in gone => w \in raced
    BY <1>0, <1>1, <2>1 DEF WInv, GuardInv, Live
  <2>3. Ledger!AddDoc(d, w)
    BY <1>1, <2>1, <2>2 DEF Commit, Ledger!AddDoc, Ledger!Employed
  <2> QED BY <2>3 DEF Ledger!Next
<1>2. CASE op[r] \in DocOp
  <2>1. PICK d \in Doc : d = row[r]
    BY <1>0, <1>2 DEF WInv, FlightInv
  <2>2. Ledger!OnFile(d)
    BY <1>0, <1>2, <2>1 DEF WInv, FlightInv, GuardInv, DocGuard, DocLive, Ledger!OnFile
  <2>3. CASE op[r] = "doc_update" /\ arg[r] # seen[r]
    <3>1. PICK x \in Content : x = arg[r]
      BY <1>0, <2>3 DEF WInv, FlightInv
    <3>2. Ledger!Rewrite(d, x)
      BY <2>1, <2>2, <2>3, <3>1 DEF Commit, Ledger!Rewrite
    <3> QED BY <3>2 DEF Ledger!Next
  <2>4. CASE op[r] = "doc_update" /\ arg[r] = seen[r]
    BY <2>4 DEF Commit, Ledger!vars
  <2>5. CASE op[r] = "verify"
    <3>1. PICK u \in User : u = arg[r]
      BY <1>0, <2>5 DEF WInv, FlightInv
    <3>2. verifier[d] # None => d \in raced
      BY <1>0, <2>1, <2>5 DEF WInv, GuardInv, DocGuard
    <3>3. Ledger!Verify(d, u)
      BY <2>1, <2>2, <2>5, <3>1, <3>2 DEF Commit, Ledger!Verify
    <3> QED BY <3>3 DEF Ledger!Next
  <2>6. CASE op[r] = "doc_delete"
    <3>1. Ledger!RemoveDoc(d)
      BY <2>1, <2>2, <2>6 DEF Commit, Ledger!RemoveDoc
    <3> QED BY <3>1 DEF Ledger!Next
  <2> QED BY <1>2, <2>3, <2>4, <2>5, <2>6
<1> QED BY <1>1, <1>2

\* Every other step leaves the rows alone; a load can show that a row is contended.
LEMMA LedgerStep == WInv /\ DocInv /\ [Next]_vars => [Ledger!Next]_(Ledger!vars)
<1> SUFFICES ASSUME WInv, DocInv, [Next]_vars
             PROVE  Ledger!Next \/ UNCHANGED Ledger!vars
  OBVIOUS
<1>1. ASSUME NEW r \in Request, Commit(r)
      PROVE  Ledger!Next \/ UNCHANGED Ledger!vars
  <2>1. op[r] \in Op
    BY <1>1 DEF WInv, FlightInv, Commit, InFlight
  <2> QED
    BY <1>1, <2>1, WorkerCommitIsLedgerStep, DocCommitIsLedgerStep DEF Op
<1>2. ASSUME NEW r \in Request, NEW o \in Op, NEW x \in Worker \union Doc, UNCHANGED rows,
             Race(r, o, x)
      PROVE  Ledger!Next \/ UNCHANGED Ledger!vars
  BY <1>2 DEF rows, Race, Ledger!Contend, Ledger!Next, Ledger!vars
<1>3. CASE UNCHANGED <<rows, raced>>
  BY <1>3 DEF rows, Ledger!vars
<1>4. ASSUME NEW r \in Request, NEW w \in Worker, StartAdd(r, w)
      PROVE  Ledger!Next \/ UNCHANGED Ledger!vars
  BY <1>2, <1>4 DEF StartAdd, Op
<1>5. ASSUME NEW r \in Request, NEW o \in Op, NEW w \in Worker, StartWorkerChange(r, o, w)
      PROVE  Ledger!Next \/ UNCHANGED Ledger!vars
  BY <1>2, <1>5 DEF StartWorkerChange
<1>6. ASSUME NEW r \in Request, NEW o \in DocOp, NEW d \in Doc,
             NEW a \in Content \union User \union {None}, StartDocChange(r, o, d, a)
      PROVE  Ledger!Next \/ UNCHANGED Ledger!vars
  BY <1>2, <1>6 DEF StartDocChange, Op
<1>7. ASSUME NEW r \in Request,
             \/ InsertWorker(r) \/ InsertDoc(r) \/ Write(r) \/ Abort(r)
             \/ \E c \in Code : StartCreate(r, c)
      PROVE  UNCHANGED <<rows, raced>>
  BY <1>7 DEF InsertWorker, InsertDoc, Write, Abort, StartCreate
<1> QED
  BY <1>1, <1>3, <1>4, <1>5, <1>6, <1>7 DEF Next, RequestStep, vars

\* The two services implement the ledger: the unlocked load, check, write and
\* commit of every method are one atomic step of it.
THEOREM WorkersImplementLedger == Spec => ImplementsLedger
<1>1. Init => Ledger!Init /\ DocInv
  BY DEF Init, Ledger!Init, DocInv
<1>2. WInv /\ DocInv /\ [Next]_vars => DocInv'
  BY DocInvStep
<1>3. WInv /\ DocInv /\ [Next]_vars => [Ledger!Next]_(Ledger!vars)
  BY LedgerStep
<1> QED
  BY <1>1, <1>2, <1>3, WorkersInvariant, PTL DEF Spec, Ledger!Spec, ImplementsLedger

=============================================================================

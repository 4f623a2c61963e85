------------------------------- MODULE Workers ------------------------------
(***************************************************************************)
(* Workers and their compliance documents: WorkerService,                  *)
(* WorkerDocumentService and the tables workers and worker_documents.      *)
(*                                                                         *)
(* A request runs SQL statements in one READ COMMITTED transaction; every  *)
(* awaited statement is a step and sees committed rows only.  It loads a   *)
(* row, checks it, and writes it later: an UPDATE of the ORM goes by       *)
(* primary key, writes the changed columns only, and holds the row until   *)
(* the transaction ends.  The answer is sent before get_db commits         *)
(* ("responded"), and any transaction may abort.                           *)
(***************************************************************************)
CONSTANTS Worker,   \* ids of workers rows
          Code,     \* (organization_id, upper-cased employee_code) pairs
          Doc,      \* ids of worker_documents rows
          Content,  \* what a document may say: its number, file and notes
          User,     \* admins and project managers
          Request,  \* concurrent HTTP requests
          None      \* SQL NULL, and "not set" in a local variable

ASSUME WorkersAssumption ==
  /\ None \notin Worker \union Code \union Doc \union Content \union User
  /\ Worker \intersect Doc = {}

VARIABLES
  code,      \* code[w]: the key of the row in ix_workers_org_code, None if no row
  gone,      \* workers whose row is soft-deleted
  docOf,     \* docOf[d]: worker_id of a document, None if there is no row
  docGone,   \* documents whose row is soft-deleted
  content,   \* content[d]: None is a document as it was added
  verifier,  \* verifier[d]: verified_by, None if not verified
  pc,        \* next statement of a request
  op,        \* the service method it runs
  row,       \* the worker or document it has loaded
  arg,       \* the code, content or user it writes, or the document it adds
  seen,      \* content of the document when the request loaded it
  raced      \* history: rows that a writer had in flight with another request

rows == <<code, gone, docOf, docGone, content, verifier>>
locals == <<op, row, arg, seen>>
vars == <<rows, pc, locals, raced>>

DocOp == {"doc_update", "verify", "doc_delete"}
Op == {"create", "update", "delete", "add"} \union DocOp
Steps == {"idle", "insert", "write", "responded"}

-----------------------------------------------------------------------------
Init ==
  /\ code = [w \in Worker |-> None]
  /\ docOf = [d \in Doc |-> None]
  /\ content = [d \in Doc |-> None]
  /\ verifier = [d \in Doc |-> None]
  /\ gone = {} /\ docGone = {} /\ raced = {}
  /\ pc = [r \in Request |-> "idle"]
  /\ op = [r \in Request |-> None]
  /\ row = [r \in Request |-> None]
  /\ arg = [r \in Request |-> None]
  /\ seen = [r \in Request |-> None]

\* A request starts: method o with argument a on row x, if it has one.
Start(r, o, x, a, next) ==
  /\ pc[r] = "idle"
  /\ pc' = [pc EXCEPT ![r] = next]
  /\ op' = [op EXCEPT ![r] = o]
  /\ row' = [row EXCEPT ![r] = x]
  /\ arg' = [arg EXCEPT ![r] = a]

Goto(r, from, to) == pc[r] = from /\ pc' = [pc EXCEPT ![r] = to]

Release(r) ==
  /\ pc' = [pc EXCEPT ![r] = "idle"]
  /\ op' = [op EXCEPT ![r] = None]
  /\ row' = [row EXCEPT ![r] = None]
  /\ arg' = [arg EXCEPT ![r] = None]
  /\ seen' = [seen EXCEPT ![r] = None]

Live(w) == code[w] # None /\ w \notin gone

DocLive(d) == docOf[d] # None /\ d \notin docGone

\* Methods that change what other methods check or overwrite.
Writers == {"delete"} \union DocOp

\* History: r loads row x while another request works on it, and one of them writes.
Race(r, o, x) ==
  raced' = IF \E s \in Request : /\ pc[s] # "idle" /\ row[s] = x
                                 /\ {o, op[s]} \intersect Writers # {}
           THEN raced \union {x} ELSE raced

-----------------------------------------------------------------------------
(* WorkerService *)

\* code_exists looks at live workers only (409).
StartCreate(r, c) ==
  /\ \A w \in Worker : Live(w) => code[w] # c
  /\ Start(r, "create", None, c, "insert")
  /\ UNCHANGED <<rows, seen, raced>>

\* Mutation: no unique index behind code_exists.
InsertWorkerUnindexed(r) ==
  /\ Goto(r, "insert", "responded")
  /\ op[r] = "create"
  /\ \E w \in Worker :
       /\ code[w] = None
       /\ \A s \in Request : row[s] # w
       /\ row' = [row EXCEPT ![r] = w]
  /\ UNCHANGED <<rows, op, arg, seen, raced>>

\* The unique index holds deleted workers too; the INSERT waits for another one
\* of the same code, and a clash aborts the request.
InsertWorker(r) ==
  /\ Goto(r, "insert", "responded")
  /\ op[r] = "create"
  /\ \A w \in Worker : code[w] # arg[r]
  /\ \A s \in Request \ {r} : ~(pc[s] = "responded" /\ op[s] = "create" /\ arg[s] = arg[r])
  /\ \E w \in Worker :
       /\ code[w] = None
       /\ \A s \in Request : row[s] # w
       /\ row' = [row EXCEPT ![r] = w]
  /\ UNCHANGED <<rows, op, arg, seen, raced>>

\* update, also of is_active, and soft_delete; nothing is said about documents.
StartWorkerChange(r, o, w) ==
  /\ o \in {"update", "delete"}
  /\ Live(w)
  /\ Start(r, o, w, None, "write")
  /\ Race(r, o, w)
  /\ UNCHANGED <<rows, seen>>

-----------------------------------------------------------------------------
(* WorkerDocumentService *)

\* Mutation: the worker is looked up with its deleted rows.
StartAddToAny(r, w) ==
  /\ code[w] # None
  /\ Start(r, "add", w, None, "insert")
  /\ Race(r, "add", w)
  /\ UNCHANGED <<rows, seen>>

StartAdd(r, w) ==
  /\ Live(w)
  /\ Start(r, "add", w, None, "insert")
  /\ Race(r, "add", w)
  /\ UNCHANGED <<rows, seen>>

\* The foreign key needs the worker's row only, which is never deleted.
InsertDoc(r) ==
  /\ Goto(r, "insert", "responded")
  /\ op[r] = "add"
  /\ \E d \in Doc : /\ docOf[d] = None
                    /\ \A s \in Request : arg[s] # d
                    /\ arg' = [arg EXCEPT ![r] = d]
  /\ UNCHANGED <<rows, op, row, seen, raced>>

\* What update_document, verify_document and soft_delete_document take, and what
\* they require of the document; its worker may have been deleted.
DocGuard(o, a, d) ==
  /\ DocLive(d)
  /\ \/ o = "doc_update" /\ a \in Content
     \/ o = "verify" /\ a \in User /\ verifier[d] = None
     \/ o = "doc_delete" /\ a = None

\* Mutation: verify_document does not ask whether the document is verified.
StartDocChangeAgain(r, o, d, a) ==
  /\ DocLive(d)
  /\ \/ o = "doc_update" /\ a \in Content
     \/ o = "verify" /\ a \in User
     \/ o = "doc_delete" /\ a = None
  /\ Start(r, o, d, a, "write")
  /\ seen' = [seen EXCEPT ![r] = content[d]]
  /\ Race(r, o, d)
  /\ UNCHANGED rows

\* Mutation: the document is loaded by session.get, with its deleted rows.
StartDocChangeDeleted(r, o, d, a) ==
  /\ docOf[d] # None
  /\ \/ o = "doc_update" /\ a \in Content
     \/ o = "verify" /\ a \in User /\ verifier[d] = None
     \/ o = "doc_delete" /\ a = None
  /\ Start(r, o, d, a, "write")
  /\ seen' = [seen EXCEPT ![r] = content[d]]
  /\ Race(r, o, d)
  /\ UNCHANGED rows

StartDocChange(r, o, d, a) ==
  /\ DocGuard(o, a, d)
  /\ Start(r, o, d, a, "write")
  /\ seen' = [seen EXCEPT ![r] = content[d]]
  /\ Race(r, o, d)
  /\ UNCHANGED rows

-----------------------------------------------------------------------------
(* Flush, and the end of a transaction *)

\* The UPDATE waits for another transaction that has updated the row.
Write(r) ==
  /\ Goto(r, "write", "responded")
  /\ \A s \in Request \ {r} :
       ~(pc[s] = "responded" /\ op[s] \notin {"create", "add"} /\ row[s] = row[r])
  /\ UNCHANGED <<rows, locals, raced>>

\* Mutation: verified_by is taken from any body, as a role or a content would be.
CommitAnyVerifier(r) ==
  LET x == row[r] IN
  /\ pc[r] = "responded"
  /\ code' = IF op[r] = "create" THEN [code EXCEPT ![x] = arg[r]] ELSE code
  /\ gone' = IF op[r] = "delete" THEN gone \union {x} ELSE gone
  /\ docOf' = IF op[r] = "add" THEN [docOf EXCEPT ![arg[r]] = x] ELSE docOf
  /\ docGone' = IF op[r] = "doc_delete" THEN docGone \union {x} ELSE docGone
  /\ content' = IF op[r] = "doc_update" /\ arg[r] # seen[r]
                THEN [content EXCEPT ![x] = arg[r]] ELSE content
  /\ verifier' = IF op[r] \in DocOp THEN [verifier EXCEPT ![x] = arg[r]] ELSE verifier
  /\ Release(r)
  /\ UNCHANGED raced

\* Mutation: an UPDATE of a worker writes every column, is_deleted as it was loaded.
CommitAllColumns(r) ==
  LET x == row[r] IN
  /\ pc[r] = "responded"
  /\ code' = IF op[r] = "create" THEN [code EXCEPT ![x] = arg[r]] ELSE code
  /\ gone' = IF op[r] = "delete" THEN gone \union {x}
             ELSE IF op[r] = "update" THEN gone \ {x} ELSE gone
  /\ docOf' = IF op[r] = "add" THEN [docOf EXCEPT ![arg[r]] = x] ELSE docOf
  /\ docGone' = IF op[r] = "doc_delete" THEN docGone \union {x} ELSE docGone
  /\ content' = IF op[r] = "doc_update" /\ arg[r] # seen[r]
                THEN [content EXCEPT ![x] = arg[r]] ELSE content
  /\ verifier' = IF op[r] = "verify" THEN [verifier EXCEPT ![x] = arg[r]] ELSE verifier
  /\ Release(r)
  /\ UNCHANGED raced

\* The three columns of a verification are written together, a content that
\* equals the loaded one is not written at all.
Commit(r) ==
  LET x == row[r] IN
  /\ pc[r] = "responded"
  /\ code' = IF op[r] = "create" THEN [code EXCEPT ![x] = arg[r]] ELSE code
  /\ gone' = IF op[r] = "delete" THEN gone \union {x} ELSE gone
  /\ docOf' = IF op[r] = "add" THEN [docOf EXCEPT ![arg[r]] = x] ELSE docOf
  /\ docGone' = IF op[r] = "doc_delete" THEN docGone \union {x} ELSE docGone
  /\ content' = IF op[r] = "doc_update" /\ arg[r] # seen[r]
                THEN [content EXCEPT ![x] = arg[r]] ELSE content
  /\ verifier' = IF op[r] = "verify" THEN [verifier EXCEPT ![x] = arg[r]] ELSE verifier
  /\ Release(r)
  /\ UNCHANGED raced

\* A rejected request, an exception, a lost connection or a crash.
Abort(r) ==
  /\ pc[r] # "idle"
  /\ Release(r)
  /\ UNCHANGED <<rows, raced>>

-----------------------------------------------------------------------------
RequestStep(r) ==
  \/ \E c \in Code : StartCreate(r, c)
  \/ \E w \in Worker : StartAdd(r, w) \/ \E o \in Op : StartWorkerChange(r, o, w)
  \/ \E d \in Doc, o \in DocOp, a \in Content \union User \union {None} :
       StartDocChange(r, o, d, a)
  \/ InsertWorker(r) \/ InsertDoc(r) \/ Write(r) \/ Commit(r) \/ Abort(r)

Next == \E r \in Request : RequestStep(r)

Spec == Init /\ [][Next]_vars

-----------------------------------------------------------------------------
(* Properties *)

TypeOK ==
  /\ code \in [Worker -> Code \union {None}]
  /\ gone \subseteq Worker /\ docGone \subseteq Doc /\ raced \subseteq Worker \union Doc
  /\ docOf \in [Doc -> Worker \union {None}]
  /\ content \in [Doc -> Content \union {None}]
  /\ verifier \in [Doc -> User \union {None}]
  /\ pc \in [Request -> Steps]
  /\ op \in [Request -> Op \union {None}]
  /\ row \in [Request -> Worker \union Doc \union {None}]
  /\ arg \in [Request -> Code \union Doc \union Content \union User \union {None}]
  /\ seen \in [Request -> Content \union {None}]

\* ADR-011: employee codes are unique per organization, whichever creations run
\* between code_exists and the INSERT, and whichever workers are deleted.
EmployeeCodesUnique ==
  \A v, w \in Worker : v # w /\ code[v] # None => code[v] # code[w]

\* Verification is one-way whatever updates and deletes of the document were
\* loaded before it, and the name of the verifier is replaced only if requests on
\* the document overlapped.
VerifiedOnce ==
  [][\A d \in Doc : verifier[d] # None =>
       /\ verifier'[d] # None
       /\ d \notin raced => verifier'[d] = verifier[d]]_vars

\* What a request has seen of a document is what it changes, verifies or deletes,
\* as long as no other request on the document was in flight with it.
SeenHoldsAtCommit ==
  [][\A r \in Request :
       Commit(r) /\ op[r] \in DocOp /\ row[r] \notin raced =>
         DocGuard(op[r], arg[r], row[r]) /\ content[row[r]] = seen[r]]_vars

\* A document is only added to a worker who is not deleted, as long as the
\* deletion was not in flight with the upload.
AddedToLiveWorker ==
  [][\A d \in Doc :
       docOf'[d] # docOf[d] /\ docOf'[d] \notin raced => Live(docOf'[d])]_vars

Ledger == INSTANCE WorkerLedger WITH contended <- raced

\* Every method, for all its statements, its unlocked check and its late commit,
\* is one step of the ledger.
ImplementsLedger == Ledger!Spec

=============================================================================

---------------------------- MODULE WorkerLedger ----------------------------
(***************************************************************************)
(* What WorkerService and WorkerDocumentService promise their callers: a   *)
(* method is one step on the committed rows.  Employee codes are unique    *)
(* whoever is at work, and a verification is never taken back; that a      *)
(* worker or document is still there, and not yet verified, is promised    *)
(* for the rows that no writer has had in flight with another request.     *)
(***************************************************************************)
CONSTANTS Worker, Code, Doc, Content, User, None

VARIABLES
  code,      \* code[w]: the organization's code for a worker, None if no row
  gone,      \* soft-deleted workers
  docOf,     \* docOf[d]: the worker a document belongs to
  docGone,   \* soft-deleted documents
  content,   \* content[d]: what the document says
  verifier,  \* verifier[d]: who has verified it
  contended  \* rows on which requests have overlapped, one of them a writer

vars == <<code, gone, docOf, docGone, content, verifier, contended>>

Init ==
  /\ code = [w \in Worker |-> None]
  /\ docOf = [d \in Doc |-> None]
  /\ content = [d \in Doc |-> None]
  /\ verifier = [d \in Doc |-> None]
  /\ gone = {} /\ docGone = {} /\ contended = {}

Hire(w, c) ==
  /\ code[w] = None
  /\ \A v \in Worker : code[v] # c
  /\ code' = [code EXCEPT ![w] = c]
  /\ UNCHANGED <<gone, docOf, docGone, content, verifier, contended>>

\* The worker has a row and, unless contended, is not deleted.
Employed(w) == code[w] # None /\ (w \in gone => w \in contended)

Dismiss(w) ==
  /\ Employed(w)
  /\ gone' = gone \union {w}
  /\ UNCHANGED <<code, docOf, docGone, content, verifier, contended>>

AddDoc(d, w) ==
  /\ docOf[d] = None /\ Employed(w)
  /\ docOf' = [docOf EXCEPT ![d] = w]
  /\ UNCHANGED <<code, gone, docGone, content, verifier, contended>>

\* Whatever has become of its worker.
OnFile(d) == docOf[d] # None /\ (d \in docGone => d \in contended)

\* A verification stays with what is rewritten.
Rewrite(d, x) ==
  /\ OnFile(d)
  /\ content' = [content EXCEPT ![d] = x]
  /\ UNCHANGED <<code, gone, docOf, docGone, verifier, contended>>

Verify(d, u) ==
  /\ OnFile(d)
  /\ verifier[d] # None => d \in contended
  /\ verifier' = [verifier EXCEPT ![d] = u]
  /\ UNCHANGED <<code, gone, docOf, docGone, content, contended>>

RemoveDoc(d) ==
  /\ OnFile(d)
  /\ docGone' = docGone \union {d}
  /\ UNCHANGED <<code, gone, docOf, content, verifier, contended>>

Contend(x) ==
  /\ contended' = contended \union {x}
  /\ UNCHANGED <<code, gone, docOf, docGone, content, verifier>>

Next ==
  \/ \E w \in Worker : Dismiss(w) \/ \E c \in Code : Hire(w, c)
  \/ \E d \in Doc :
       \/ \E w \in Worker : AddDoc(d, w)
       \/ \E x \in Content : Rewrite(d, x)
       \/ \E u \in User : Verify(d, u)
       \/ RemoveDoc(d)
  \/ \E x \in Worker \union Doc : Contend(x)

Spec == Init /\ [][Next]_vars

=============================================================================

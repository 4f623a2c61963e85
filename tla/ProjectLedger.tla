---------------------------- MODULE ProjectLedger ---------------------------
(***************************************************************************)
(* What the methods of ProjectService and SiteService amount to, without   *)
(* requests, statements or transactions: every method is one step on the   *)
(* committed rows, and it finds true what its code requires (which is less *)
(* than ADR-010 asks of a new site, see AddSite).  The services lock       *)
(* nothing between loading a project and writing it, so the promise has a  *)
(* second half for the projects that a transition or delete was in flight  *)
(* with: they keep only what the write itself guarantees.                  *)
(***************************************************************************)
CONSTANTS Project, Code, Site, None

VARIABLES
  status,    \* status[p]: draft, active, on_hold or closed; None if there is no row
  code,      \* code[p]: the organization's code for it
  deleted,   \* soft-deleted projects
  ended,     \* projects with an actual_end_date
  siteOf,    \* siteOf[s]: the project a site belongs to
  siteGone,  \* soft-deleted sites
  contended  \* projects on which requests have overlapped, one of them a writer

vars == <<status, code, deleted, ended, siteOf, siteGone, contended>>

Allowed == {<<"draft", "active">>, <<"active", "on_hold">>, <<"active", "closed">>,
            <<"on_hold", "active">>, <<"on_hold", "closed">>}

Init ==
  /\ status = [p \in Project |-> None]
  /\ code = [p \in Project |-> None]
  /\ siteOf = [s \in Site |-> None]
  /\ deleted = {} /\ ended = {} /\ siteGone = {} /\ contended = {}

Exists(p) == status[p] # None
Live(p) == Exists(p) /\ p \notin deleted

Create(p, c) ==
  /\ ~Exists(p)
  /\ \A q \in Project : code[q] # c
  /\ status' = [status EXCEPT ![p] = "draft"]
  /\ code' = [code EXCEPT ![p] = c]
  /\ UNCHANGED <<deleted, ended, siteOf, siteGone, contended>>

Move(p, s) ==
  /\ Exists(p)
  /\ p \notin contended => Live(p) /\ <<status[p], s>> \in Allowed
  /\ s # "draft" /\ (status[p] = "draft" => s = "active")
  /\ status' = [status EXCEPT ![p] = s]
  /\ ended' = IF s = "closed" THEN ended \union {p} ELSE ended
  /\ UNCHANGED <<code, deleted, siteOf, siteGone, contended>>

Delete(p) ==
  /\ Exists(p)
  /\ p \notin contended => Live(p) /\ status[p] \in {"draft", "closed"}
  /\ deleted' = deleted \union {p}
  /\ UNCHANGED <<status, code, ended, siteOf, siteGone, contended>>

\* As SiteService.create has it: any project that is not closed.  ADR-010 says
\* "draft or active" of the same operation, so a site of a project on hold is a
\* step here and against the ADR.
AddSite(p, s) ==
  /\ Exists(p) /\ siteOf[s] = None
  /\ p \notin contended => Live(p) /\ status[p] # "closed"
  /\ siteOf' = [siteOf EXCEPT ![s] = p]
  /\ UNCHANGED <<status, code, deleted, ended, siteGone, contended>>

\* Whatever has become of its project.
RemoveSite(s) ==
  /\ siteOf[s] # None
  /\ siteGone' = siteGone \union {s}
  /\ UNCHANGED <<status, code, deleted, ended, siteOf, contended>>

Contend(p) ==
  /\ contended' = contended \union {p}
  /\ UNCHANGED <<status, code, deleted, ended, siteOf, siteGone>>

Next ==
  \/ \E p \in Project :
       \/ \E c \in Code : Create(p, c)
       \/ \E s \in {"active", "on_hold", "closed"} : Move(p, s)
       \/ Delete(p) \/ Contend(p)
       \/ \E s \in Site : AddSite(p, s)
  \/ \E s \in Site : RemoveSite(s)

Spec == Init /\ [][Next]_vars

=============================================================================

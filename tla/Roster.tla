------------------------------- MODULE Roster -------------------------------
(***************************************************************************)
(* What UserService promises about an organization's people, without       *)
(* requests, statements or transactions: changing a role and deactivating  *)
(* are one step each on the committed rows, and whoever gets a role other  *)
(* than admin, or leaves, leaves an admin behind.  For organizations in    *)
(* which requests that can take admin rights away have overlapped the last *)
(* part is not promised.                                                   *)
(***************************************************************************)
CONSTANTS User, Org, OrgOf, Founder, OtherRole, None

VARIABLES
  status,    \* status[u]: "absent", "active" or "deleted"
  role,      \* role[u]: "admin", one of OtherRole, or None
  contended  \* organizations in which two removals have overlapped

vars == <<status, role, contended>>

Init ==
  /\ status = [u \in User |-> IF u = Founder[OrgOf[u]] THEN "active" ELSE "absent"]
  /\ role = [u \in User |-> IF u = Founder[OrgOf[u]] THEN "admin" ELSE None]
  /\ contended = {}

Admin(u) == status[u] = "active" /\ role[u] = "admin"

\* The organization does not depend on u.
Spare(u) ==
  OrgOf[u] \notin contended =>
    \E a \in User \ {u} : OrgOf[a] = OrgOf[u] /\ Admin(a)

Join(u, w) ==
  /\ status[u] = "absent"
  /\ status' = [status EXCEPT ![u] = "active"]
  /\ role' = [role EXCEPT ![u] = w]
  /\ UNCHANGED contended

\* Also of somebody who has been deactivated since the request loaded the row.
Promote(u) ==
  /\ status[u] # "absent"
  /\ role' = [role EXCEPT ![u] = "admin"]
  /\ UNCHANGED <<status, contended>>

\* Of an admin or of somebody with another role.
SetOther(u, w) ==
  /\ status[u] # "absent"
  /\ OrgOf[u] \notin contended => status[u] = "active" /\ role[u] # w
  /\ Spare(u)
  /\ role' = [role EXCEPT ![u] = w]
  /\ UNCHANGED <<status, contended>>

Deactivate(u) ==
  /\ status[u] # "absent"
  /\ OrgOf[u] \notin contended => status[u] = "active"
  /\ Spare(u)
  /\ status' = [status EXCEPT ![u] = "deleted"]
  /\ UNCHANGED <<role, contended>>

Contend(o) ==
  /\ contended' = contended \union {o}
  /\ UNCHANGED <<status, role>>

Next ==
  \/ \E u \in User :
       \/ \E w \in {"admin"} \union OtherRole : Join(u, w)
       \/ \E w \in OtherRole : SetOther(u, w)
       \/ Promote(u) \/ Deactivate(u)
  \/ \E o \in Org : Contend(o)

Spec == Init /\ [][Next]_vars

=============================================================================

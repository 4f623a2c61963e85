--------------------------- MODULE UserAdminProofs --------------------------
(***************************************************************************)
(* The last-admin guard, for every set of users, organizations and         *)
(* requests: it can only be defeated by two removals in flight together.   *)
(***************************************************************************)
EXTENDS UserAdmin, TLAPS

InFlight(r) == pc[r] # "idle"

\* What a request in flight has loaded and been told.
FlightInv ==
  \A r \in Request :
    /\ InFlight(r) => /\ target[r] \in User /\ op[r] # None
                      /\ status[target[r]] # "absent"
    /\ ~InFlight(r) \/ op[r] = "deactivate" => want[r] = None

\* Outside overlap, removals in one organization are in flight one at a time.
AloneInv ==
  \A r, s \in Request :
    /\ InFlight(r) /\ InFlight(s) /\ Removal(r) /\ Removal(s)
    /\ OrgOf[target[r]] = OrgOf[target[s]]
    /\ OrgOf[target[r]] \notin overlap
    => r = s

\* A removal that has passed its guard leaves another admin behind.
SpareInv ==
  \A r \in Request :
    /\ InFlight(r) /\ pc[r] # "count" /\ Removal(r)
    /\ OrgOf[target[r]] \notin overlap
    => \E b \in Admins(OrgOf[target[r]]) : b # target[r]

UInv == TypeOK /\ FlightInv /\ AloneInv /\ SpareInv /\ LastAdminKept

-----------------------------------------------------------------------------
\* Every organization begins with its founder as its admin.
LEMMA UInvInit == Init => UInv
<1> SUFFICES ASSUME Init PROVE UInv
  OBVIOUS
<1> USE UserAdminAssumption DEF Init
<1>1. TypeOK
  BY DEF TypeOK, Role, Op, Steps
<1>2. FlightInv /\ AloneInv /\ SpareInv
  BY DEF FlightInv, AloneInv, SpareInv, InFlight
<1>3. LastAdminKept
  <2> SUFFICES ASSUME NEW o \in Org PROVE Admins(o) # {}
    BY DEF LastAdminKept
  <2>1. Founder[o] \in Admins(o)
    BY DEF Admins
  <2> QED
    BY <2>1
<1> QED
  BY <1>1, <1>2, <1>3 DEF UInv

\* No step of a request, nor of the accounts around it, leaves the types; a
\* commit writes a role into a row that is there.
LEMMA TypeStep == TypeOK /\ FlightInv /\ [Next]_vars => TypeOK'
<1> SUFFICES ASSUME TypeOK, FlightInv, [Next]_vars PROVE TypeOK'
  OBVIOUS
<1> USE UserAdminAssumption DEF TypeOK, rows, locals, vars, Steps, Role, Op
<1>1. ASSUME NEW r \in Request, NEW a \in User, NEW u \in User,
             NEW w \in Role \union {None}, StartUpdate(r, a, u, w)
      PROVE  TypeOK'
  BY <1>1 DEF StartUpdate, Load, Goto
<1>2. ASSUME NEW r \in Request, NEW a \in User, NEW u \in User,
             StartDeactivate(r, a, u)
      PROVE  TypeOK'
  BY <1>2 DEF StartDeactivate, Load, Goto
<1>3. ASSUME NEW r \in Request, CountAdmins(r) \/ Write(r) PROVE TypeOK'
  BY <1>3 DEF CountAdmins, Write, Goto
<1>4. ASSUME NEW r \in Request, Commit(r) PROVE TypeOK'
  BY <1>4 DEF Commit, Release, FlightInv, InFlight
<1>5. ASSUME NEW r \in Request, Abort(r) PROVE TypeOK'
  BY <1>5 DEF Abort, Release
<1>6. ASSUME NEW u \in User, IssueToken(u) \/ TokenExpires(u) PROVE TypeOK'
  BY <1>6 DEF IssueToken, TokenExpires
<1>7. ASSUME NEW u \in User, NEW w \in Role, Join(u, w) PROVE TypeOK'
  BY <1>7 DEF Join
<1>8. CASE UNCHANGED vars
  BY <1>8
<1> QED
  BY <1>1, <1>2, <1>3, <1>4, <1>5, <1>6, <1>7, <1>8 DEF Next, RequestStep

\* Starting a removal finds an admin other than a target that is none; the
\* guard finds two, and one of them is not the target.
LEMMA UInvStep == UInv /\ [Next]_vars => UInv'
<1> SUFFICES ASSUME UInv, [Next]_vars PROVE UInv'
  OBVIOUS
<1>t. TypeOK /\ TypeOK'
  BY TypeStep DEF UInv
<1> USE UserAdminAssumption
    DEF UInv, TypeOK, FlightInv, AloneInv, SpareInv, LastAdminKept, InFlight, Removal,
        Admins, rows, locals, vars, Steps, Role, Op
<1>1. ASSUME NEW r \in Request, NEW a \in User, NEW u \in User,
             NEW w \in Role \union {None}, StartUpdate(r, a, u, w)
      PROVE  UInv'
  <2>1. /\ status' = status /\ role' = role /\ overlap \subseteq overlap'
        /\ target' = [target EXCEPT ![r] = u] /\ OrgOf[u] \in Org
    BY <1>1, <1>t DEF StartUpdate, Load
  <2>2. FlightInv'
    BY <1>1, <1>t DEF StartUpdate, Load, Goto
  <2>5. LastAdminKept'
    BY <2>1
  <2>3. AloneInv'
    <3> SUFFICES ASSUME NEW p \in Request, NEW q \in Request,
                        (InFlight(p) /\ InFlight(q) /\ Removal(p) /\ Removal(q))',
                        OrgOf[target'[p]] = OrgOf[target'[q]],
                        OrgOf[target'[p]] \notin overlap'
                 PROVE  p = q
      OBVIOUS
    <3>1. CASE p # r /\ q # r
      BY <1>1, <1>t, <3>1 DEF StartUpdate, Load, Goto
    <3>2. CASE p = r /\ q # r
      BY <1>1, <1>t, <3>2 DEF StartUpdate, Load, Goto, RemovalInFlight
    <3>3. CASE p # r /\ q = r
      BY <1>1, <1>t, <3>3 DEF StartUpdate, Load, Goto, RemovalInFlight
    <3> QED
      BY <3>1, <3>2, <3>3
  <2>4. SpareInv'
    <3> SUFFICES ASSUME NEW p \in Request, (InFlight(p) /\ Removal(p))',
                        pc'[p] # "count", OrgOf[target'[p]] \notin overlap'
                 PROVE  (\E b \in Admins(OrgOf[target[p]]) : b # target[p])'
      OBVIOUS
    <3>1. CASE p # r
      BY <1>1, <1>t, <2>1, <3>1 DEF StartUpdate, Load, Goto
    <3>2. CASE p = r
      <4>1. u \notin Admins(OrgOf[u])
        BY <1>1, <1>t, <3>2 DEF StartUpdate, Load, Goto
      <4>2. \E b \in Admins(OrgOf[u]) : b # u
        BY <1>1, <1>t, <3>2, <4>1 DEF StartUpdate, Load
      <4> QED
        BY <1>1, <1>t, <2>1, <3>2, <4>2 DEF StartUpdate, Load
    <3> QED
      BY <3>1, <3>2
  <2> QED
    BY <1>t, <2>2, <2>3, <2>4, <2>5
<1>2. ASSUME NEW r \in Request, NEW a \in User, NEW u \in User,
             StartDeactivate(r, a, u)
      PROVE  UInv'
  <2>1. /\ status' = status /\ role' = role /\ overlap \subseteq overlap'
        /\ target' = [target EXCEPT ![r] = u] /\ OrgOf[u] \in Org
    BY <1>2, <1>t DEF StartDeactivate, Load
  <2>2. FlightInv'
    BY <1>2, <1>t DEF StartDeactivate, Load, Goto
  <2>5. LastAdminKept'
    BY <2>1
  <2>3. AloneInv'
    <3> SUFFICES ASSUME NEW p \in Request, NEW q \in Request,
                        (InFlight(p) /\ InFlight(q) /\ Removal(p) /\ Removal(q))',
                        OrgOf[target'[p]] = OrgOf[target'[q]],
                        OrgOf[target'[p]] \notin overlap'
                 PROVE  p = q
      OBVIOUS
    <3>1. CASE p # r /\ q # r
      BY <1>2, <1>t, <3>1 DEF StartDeactivate, Load, Goto
    <3>2. CASE p = r /\ q # r
      BY <1>2, <1>t, <3>2 DEF StartDeactivate, Load, Goto, RemovalInFlight
    <3>3. CASE p # r /\ q = r
      BY <1>2, <1>t, <3>3 DEF StartDeactivate, Load, Goto, RemovalInFlight
    <3> QED
      BY <3>1, <3>2, <3>3
  <2>4. SpareInv'
    <3> SUFFICES ASSUME NEW p \in Request, (InFlight(p) /\ Removal(p))',
                        pc'[p] # "count", OrgOf[target'[p]] \notin overlap'
                 PROVE  (\E b \in Admins(OrgOf[target[p]]) : b # target[p])'
      OBVIOUS
    <3>1. CASE p # r
      BY <1>2, <1>t, <2>1, <3>1 DEF StartDeactivate, Load, Goto
    <3>2. CASE p = r
      <4>1. u \notin Admins(OrgOf[u])
        BY <1>2, <1>t, <3>2 DEF StartDeactivate, Load, Goto
      <4>2. \E b \in Admins(OrgOf[u]) : b # u
        BY <1>2, <1>t, <3>2, <4>1 DEF StartDeactivate, Load
      <4> QED
        BY <1>2, <1>t, <2>1, <3>2, <4>2 DEF StartDeactivate, Load
    <3> QED
      BY <3>1, <3>2
  <2> QED
    BY <1>t, <2>2, <2>3, <2>4, <2>5
<1>3. ASSUME NEW r \in Request, CountAdmins(r) PROVE UInv'
  BY <1>3, <1>t DEF CountAdmins, LastAdmin, Goto
<1>4. ASSUME NEW r \in Request, Write(r) PROVE UInv'
  BY <1>4, <1>t DEF Write, Goto
<1>5. ASSUME NEW r \in Request, Commit(r) PROVE UInv'
  BY <1>5, <1>t DEF Commit, Release
<1>6. ASSUME NEW r \in Request, Abort(r) PROVE UInv'
  BY <1>6, <1>t DEF Abort, Release
<1>7. ASSUME NEW u \in User, IssueToken(u) \/ TokenExpires(u) PROVE UInv'
  BY <1>7, <1>t DEF IssueToken, TokenExpires
<1>8. ASSUME NEW u \in User, NEW w \in Role, Join(u, w) PROVE UInv'
  BY <1>8, <1>t DEF Join
<1>9. CASE UNCHANGED vars
  BY <1>9
<1> QED
  BY <1>1, <1>2, <1>3, <1>4, <1>5, <1>6, <1>7, <1>8, <1>9 DEF Next, RequestStep

\* The inductive invariant of update_user and deactivate_user holds in every
\* reachable state.
THEOREM UserAdminInvariant == Spec => []UInv
<1>1. Init => UInv
  BY UInvInit
<1>2. UInv /\ [Next]_vars => UInv'
  BY UInvStep
<1> QED
  BY <1>1, <1>2, PTL DEF Spec

-----------------------------------------------------------------------------
\* Type correctness, for every value of the constants.
THEOREM UserAdminTypeOK == Spec => []TypeOK
<1>1. UInv => TypeOK
  BY DEF UInv
<1> QED
  BY <1>1, UserAdminInvariant, PTL

\* The admin_count guards of update_user and deactivate_user keep an active admin
\* in every organization whose removals never were in flight together.
THEOREM LastAdminIsKept == Spec => []LastAdminKept
<1>1. UInv => LastAdminKept
  BY DEF UInv
<1> QED
  BY <1>1, UserAdminInvariant, PTL

\* A request writes the role column only if its own body asks for another role
\* than it loaded, so no PATCH reverts a concurrent change of role.
THEOREM RolesChangeAsAsked == Spec => RoleChangesAsAsked
<1> DEFINE Asked == \A u \in User :
             status[u] # "absent" /\ role'[u] # role[u] =>
               \E r \in Request : Commit(r) /\ target[r] = u /\ want[r] = role'[u]
<1>1. UInv /\ [Next]_vars => [Asked]_vars
  <2> SUFFICES ASSUME UInv, Next, NEW u \in User,
                      status[u] # "absent", role'[u] # role[u]
               PROVE  \E r \in Request : Commit(r) /\ target[r] = u /\ want[r] = role'[u]
    OBVIOUS
  <2>1. PICK r \in Request : Commit(r)
    BY DEF Next, RequestStep, StartUpdate, StartDeactivate, CountAdmins, Write, Abort,
           IssueToken, TokenExpires, Join, UInv, TypeOK, rows
  <2>2. target[r] = u /\ want[r] = role'[u]
    BY <2>1 DEF Commit, UInv, TypeOK
  <2> QED
    BY <2>1, <2>2
<1> QED
  BY <1>1, UserAdminInvariant, PTL DEF Spec, RoleChangesAsAsked

-----------------------------------------------------------------------------
(* The refinement of Roster *)

\* Outside overlap, whom a removal has found active still is so, and has the role
\* that it has found or been promoted: only another removal could change that.
TargetInv ==
  \A r \in Request : InFlight(r) =>
    /\ seen[r] \in Role
    /\ Removal(r) /\ OrgOf[target[r]] \notin overlap =>
         /\ status[target[r]] = "active"
         /\ role[target[r]] \in {seen[r], "admin"}

LEMMA TargetInvStep == UInv /\ TargetInv /\ [Next]_vars => TargetInv'
<1> SUFFICES ASSUME UInv, TargetInv, [Next]_vars PROVE TargetInv'
  OBVIOUS
<1>t. TypeOK
  BY DEF UInv
<1> USE UserAdminAssumption DEF TypeOK, TargetInv, InFlight, Removal, Role, Op, rows, locals
<1>1. ASSUME NEW r \in Request, NEW a \in User, NEW u \in User,
             NEW w \in Role \union {None}, StartUpdate(r, a, u, w)
      PROVE  TargetInv'
  BY <1>1, <1>t DEF StartUpdate, Load, Goto
<1>2. ASSUME NEW r \in Request, NEW a \in User, NEW u \in User,
             StartDeactivate(r, a, u)
      PROVE  TargetInv'
  BY <1>2, <1>t DEF StartDeactivate, Load, Goto
<1>3. ASSUME NEW r \in Request, CountAdmins(r) \/ Write(r) PROVE TargetInv'
  BY <1>3, <1>t DEF CountAdmins, Write, Goto
<1>4. ASSUME NEW r \in Request, Commit(r) PROVE TargetInv'
  BY <1>4, <1>t DEF Commit, Release, UInv, FlightInv, AloneInv
<1>5. ASSUME NEW r \in Request, Abort(r) PROVE TargetInv'
  BY <1>5, <1>t DEF Abort, Release
<1>6. ASSUME NEW u \in User, IssueToken(u) \/ TokenExpires(u) PROVE TargetInv'
  BY <1>6, <1>t DEF IssueToken, TokenExpires
<1>7. ASSUME NEW u \in User, NEW w \in Role, Join(u, w) PROVE TargetInv'
  BY <1>7, <1>t DEF Join, UInv, FlightInv
<1>8. CASE UNCHANGED vars
  BY <1>8 DEF vars
<1> QED
  BY <1>1, <1>2, <1>3, <1>4, <1>5, <1>6, <1>7, <1>8 DEF Next, RequestStep

\* A removal commits while its target is still active (TargetInv) and another
\* admin is still there (SpareInv), whether the guard has counted or not.
LEMMA CommitIsRosterStep ==
  ASSUME UInv, TargetInv, NEW r \in Request, Commit(r)
  PROVE  People!Next \/ UNCHANGED People!vars
<1> USE UserAdminAssumption DEF Role
<1>1. PICK u \in User : u = target[r] /\ status[u] # "absent"
  BY DEF UInv, FlightInv, InFlight, Commit
<1>2. InFlight(r) /\ pc[r] = "responded" /\ op[r] \in Op
  BY DEF UInv, TypeOK, FlightInv, InFlight, Commit
<1>3. ASSUME Removal(r), OrgOf[u] \notin overlap
      PROVE  /\ status[u] = "active" /\ role[u] \in {seen[r], "admin"}
             /\ \E a \in User \ {u} : OrgOf[a] = OrgOf[u] /\ People!Admin(a)
  <2>1. status[u] = "active" /\ role[u] \in {seen[r], "admin"}
    BY <1>1, <1>2, <1>3 DEF TargetInv
  <2>2. \E a \in Admins(OrgOf[u]) : a # u
    BY <1>1, <1>2, <1>3 DEF UInv, SpareInv
  <2> QED BY <2>1, <2>2 DEF Admins, People!Admin
<1>4. CASE op[r] = "deactivate"
  <2>1. want[r] = None /\ Removal(r)
    BY <1>4 DEF UInv, FlightInv, Removal
  <2>2. People!Deactivate(u)
    BY <1>1, <1>3, <1>4, <2>1 DEF Commit, People!Deactivate, People!Spare
  <2> QED BY <2>2 DEF People!Next
<1>5. CASE op[r] = "update" /\ want[r] \notin {None, seen[r]}
  <2>1. /\ want[r] \in Role /\ seen[r] \in Role /\ UNCHANGED <<status, overlap>>
        /\ role' = [role EXCEPT ![u] = want[r]]
    BY <1>1, <1>2, <1>5 DEF Commit, UInv, TypeOK, TargetInv
  <2>2. CASE want[r] = "admin"
    <3>1. People!Promote(u)
      BY <1>1, <2>1, <2>2 DEF People!Promote
    <3> QED BY <3>1 DEF People!Next
  <2>3. CASE want[r] \in OtherRole
    <3>1. Removal(r) /\ want[r] # "admin"
      BY <1>5, <2>3 DEF Removal
    <3>2. PICK w \in OtherRole : w = want[r]
      BY <2>3
    <3>3. People!SetOther(u, w)
      BY <1>1, <1>3, <1>5, <2>1, <3>1, <3>2 DEF People!SetOther, People!Spare
    <3> QED BY <3>3 DEF People!Next
  <2> QED BY <2>1, <2>2, <2>3
<1>6. CASE op[r] = "update" /\ want[r] \in {None, seen[r]}
  BY <1>6 DEF Commit, People!vars
<1> QED BY <1>2, <1>4, <1>5, <1>6 DEF Op

\* Every other step of a request leaves the rows alone; a load can show that an
\* organization is contended.
LEMMA RosterStep == UInv /\ TargetInv /\ [Next]_vars => [People!Next]_(People!vars)
<1> SUFFICES ASSUME UInv, TargetInv, [Next]_vars
             PROVE  People!Next \/ UNCHANGED People!vars
  OBVIOUS
<1>1. ASSUME NEW r \in Request, Commit(r)
      PROVE  People!Next \/ UNCHANGED People!vars
  BY <1>1, CommitIsRosterStep
<1>2. ASSUME NEW r \in Request, NEW u \in User, UNCHANGED <<status, role>>,
             overlap' \in {overlap, overlap \union {OrgOf[u]}}
      PROVE  People!Next \/ UNCHANGED People!vars
  <2>1. OrgOf[u] \in Org
    BY UserAdminAssumption
  <2> QED BY <1>2, <2>1 DEF People!Contend, People!Next, People!vars
<1>3. ASSUME NEW r \in Request, NEW a \in User, NEW u \in User,
             \/ StartDeactivate(r, a, u)
             \/ \E w \in Role \union {None} : StartUpdate(r, a, u, w)
      PROVE  People!Next \/ UNCHANGED People!vars
  BY <1>2, <1>3 DEF StartDeactivate, StartUpdate, rows
<1>4. ASSUME NEW u \in User, NEW w \in Role, Join(u, w)
      PROVE  People!Next \/ UNCHANGED People!vars
  <2>1. People!Join(u, w)
    BY <1>4 DEF Join, People!Join
  <2> QED BY <2>1 DEF People!Next, Role
<1>5. ASSUME \/ \E r \in Request : CountAdmins(r) \/ Write(r) \/ Abort(r)
             \/ \E u \in User : IssueToken(u) \/ TokenExpires(u)
      PROVE  UNCHANGED People!vars
  BY <1>5 DEF CountAdmins, Write, Abort, IssueToken, TokenExpires, rows, People!vars
<1>6. CASE UNCHANGED vars
  BY <1>6 DEF vars, rows, People!vars
<1> QED
  BY <1>1, <1>3, <1>4, <1>5, <1>6 DEF Next, RequestStep

\* The service implements the roster: the guard that counts admins, or the check
\* that finds it unnecessary, and the write that follows it later are one atomic
\* step that leaves another admin, unless removals overlap.
THEOREM UserAdminImplementsRoster == Spec => ImplementsRoster
<1>1. Init => People!Init /\ TargetInv
  BY DEF Init, People!Init, TargetInv, InFlight
<1>2. UInv /\ TargetInv /\ [Next]_vars => TargetInv'
  BY TargetInvStep
<1>3. UInv /\ TargetInv /\ [Next]_vars => [People!Next]_(People!vars)
  BY RosterStep
<1> QED
  BY <1>1, <1>2, <1>3, UserAdminInvariant, PTL DEF Spec, People!Spec, ImplementsRoster

=============================================================================

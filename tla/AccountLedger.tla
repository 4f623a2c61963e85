---------------------------- MODULE AccountLedger ---------------------------
(***************************************************************************)
(* What registration, invitations and deactivation promise together,       *)
(* without calls, statements or waits: each is one step on the committed   *)
(* rows, and the conditions below are true when it commits, whoever else   *)
(* is at work, because a unique index or a row lock stands behind each.    *)
(* What nothing of the kind stands behind is not here: that an address     *)
(* sent an invitation has no account and no pending invitation was true    *)
(* when it was checked, and need not be any more.                          *)
(***************************************************************************)
CONSTANTS Org, Slug, Gstin, Email, Invite, None

VARIABLES
  slug,       \* slug[o], None if the organization has no row
  gstin,      \* gstin[o], or None
  founder,    \* founder[o]: the address it was registered with
  member,     \* member[e]: the organization of the account with address e
  gone,       \* deactivated accounts
  sender,     \* sender[i]: the organization of an invitation on record
  addressee,  \* addressee[i]: the address it is for
  accepted    \* invitations that have been accepted

vars == <<slug, gstin, founder, member, gone, sender, addressee, accepted>>

Init ==
  /\ slug = [o \in Org |-> None]
  /\ gstin = [o \in Org |-> None]
  /\ founder = [o \in Org |-> None]
  /\ member = [e \in Email |-> None]
  /\ sender = [i \in Invite |-> None]
  /\ addressee = [i \in Invite |-> None]
  /\ gone = {} /\ accepted = {}

\* An organization comes with its first admin, who has never had an account.
Register(o, s, e) ==
  /\ slug[o] = None /\ member[e] = None
  /\ \A p \in Org : slug[p] # s
  /\ slug' = [slug EXCEPT ![o] = s]
  /\ founder' = [founder EXCEPT ![o] = e]
  /\ member' = [member EXCEPT ![e] = o]
  /\ UNCHANGED <<gstin, gone, sender, addressee, accepted>>

TakeGstin(o, g) ==
  /\ slug[o] # None
  /\ \A p \in Org \ {o} : gstin[p] # g
  /\ gstin' = [gstin EXCEPT ![o] = g]
  /\ UNCHANGED <<slug, founder, member, gone, sender, addressee, accepted>>

\* The member and pending checks of invite are left out, as said above.
Send(i, o, e) ==
  /\ sender[i] = None /\ slug[o] # None
  /\ sender' = [sender EXCEPT ![i] = o]
  /\ addressee' = [addressee EXCEPT ![i] = e]
  /\ UNCHANGED <<slug, gstin, founder, member, gone, accepted>>

\* Whether it has expired is looked at when the request starts, and may change.
Accept(i) ==
  /\ sender[i] # None /\ i \notin accepted
  /\ member[addressee[i]] = None
  /\ member' = [member EXCEPT ![addressee[i]] = sender[i]]
  /\ accepted' = accepted \union {i}
  /\ UNCHANGED <<slug, gstin, founder, gone, sender, addressee>>

Withdraw(i) ==
  /\ sender[i] # None /\ i \notin accepted
  /\ sender' = [sender EXCEPT ![i] = None]
  /\ addressee' = [addressee EXCEPT ![i] = None]
  /\ UNCHANGED <<slug, gstin, founder, member, gone, accepted>>

Deactivate(e) ==
  /\ member[e] # None /\ e \notin gone
  /\ gone' = gone \union {e}
  /\ UNCHANGED <<slug, gstin, founder, member, sender, addressee, accepted>>

Next ==
  \/ \E o \in Org, e \in Email :
       \/ \E s \in Slug : Register(o, s, e)
       \/ \E i \in Invite : Send(i, o, e)
  \/ \E o \in Org, g \in Gstin : TakeGstin(o, g)
  \/ \E i \in Invite : Accept(i) \/ Withdraw(i)
  \/ \E e \in Email : Deactivate(e)

Spec == Init /\ [][Next]_vars

=============================================================================

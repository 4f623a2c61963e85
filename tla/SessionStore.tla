---------------------------- MODULE SessionStore ----------------------------
(***************************************************************************)
(* What the session service promises about the table refresh_tokens,       *)
(* without requests, statements or locks: each change of the table is one  *)
(* session opened, one session exchanged for another, or some sessions     *)
(* revoked, and a token that has left the table never comes back.          *)
(***************************************************************************)

CONSTANT Token

VARIABLES live,   \* tokens a refresh would find
          ever    \* tokens that have been handed out for good or for nothing

Init == live = {} /\ ever = {}

Open(t) ==
  /\ t \notin ever
  /\ live' = live \union {t}
  /\ ever' = ever \union {t}

\* The old token may have been revoked in the meantime; then nothing is left to
\* take away, and this is no more than opening a session.
Exchange(old, t) ==
  /\ old \in ever /\ t \notin ever
  /\ live' = (live \ {old}) \union {t}
  /\ ever' = ever \union {t}

Revoke(S) ==
  /\ S \subseteq live
  /\ live' = live \ S
  /\ UNCHANGED ever

\* The transaction that drew t is rolled back; its client may hold t already.
Lose(t) ==
  /\ t \notin ever
  /\ ever' = ever \union {t}
  /\ UNCHANGED live

Next ==
  \/ \E t \in Token : Open(t) \/ Lose(t) \/ \E old \in ever : Exchange(old, t)
  \/ \E S \in SUBSET live : Revoke(S)

Spec == Init /\ [][Next]_<<live, ever>>

=============================================================================

----------------------------- MODULE PatRegistry -----------------------------
(***************************************************************************)
(* What every TokenRegistryBackend promises, as its in-memory backend does *)
(* it: add, revoke, touch and sweep are atomic under one lock.  The        *)
(* identity fields of a PAT (pat) are chosen by its mint and never change. *)
(***************************************************************************)
EXTENDS Naturals

CONSTANTS Principals, Tokens, Names, None

VARIABLES
  now,
  pat,      \* identity of each lookup id
  held,     \* the records of each principal
  revoked   \* those with revoked_at set

vars == <<now, pat, held, revoked>>

Unminted == [owner |-> None, name |-> None, exp |-> None]

Live(p, t) ==
  /\ t \in held[p]
  /\ t \notin revoked[p]
  /\ ~(pat[t].exp # None /\ pat[t].exp <= now)

Pats == [owner : Principals, name : Names, exp : Nat \cup {None}]

\* The caller has settled on owner, name and expiry; nothing is stored yet.
Choose(t) ==
  /\ pat[t] = Unminted
  /\ pat'[t] \in Pats
  /\ pat' = [pat EXCEPT ![t] = pat'[t]]
  /\ UNCHANGED <<now, held, revoked>>

Add(p, t) ==
  /\ pat[t].owner = p
  /\ t \notin held[p]
  /\ \A u \in held[p] : Live(p, u) => pat[u].name # pat[t].name
  /\ held' = [held EXCEPT ![p] = @ \cup {t}]
  /\ UNCHANGED <<now, pat, revoked>>

Revoke(p, t) ==
  /\ t \in held[p]
  /\ revoked' = [revoked EXCEPT ![p] = @ \cup {t}]
  /\ UNCHANGED <<now, pat, held>>

\* Only records whose expiry has passed are ever removed.
Sweep(gone) ==
  /\ \A t \in gone : pat[t].exp # None /\ pat[t].exp <= now
  /\ held'    = [p \in Principals |-> held[p] \ gone]
  /\ revoked' = [p \in Principals |-> revoked[p] \ gone]
  /\ UNCHANGED <<now, pat>>

Tick == now' > now /\ UNCHANGED <<pat, held, revoked>>

Init ==
  /\ now = 0
  /\ pat = [t \in Tokens |-> Unminted]
  /\ held = [p \in Principals |-> {}]
  /\ revoked = [p \in Principals |-> {}]

Next ==
  \/ \E t \in Tokens :
       \/ Choose(t)
       \/ \E p \in Principals : Add(p, t) \/ Revoke(p, t)
  \/ \E gone \in SUBSET Tokens : Sweep(gone)
  \/ Tick

Spec == Init /\ [][Next]_vars
=============================================================================

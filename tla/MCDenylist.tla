------------------------------ MODULE MCDenylist ------------------------------
(***************************************************************************)
(* The registry with a watch on revoked-lookup-ids: one tick of the clock  *)
(* is at least one refresh interval of RevokedJtiCache, so a PAT that was  *)
(* in the index at two ticks has been there for a whole interval.          *)
(***************************************************************************)
EXTENDS TokenRegistry

VARIABLES
  seen,    \* the index at the last tick
  full,    \* PATs that have been in the index for a whole tick
  overdue  \* requests that presented one of them

InitWatch == Init /\ seen = {} /\ full = {} /\ overdue = {}

Watch ==
  /\ seen' = IF now' # now THEN index.ids ELSE seen
  /\ full' = IF now' # now THEN seen \cap index.ids ELSE full
  /\ overdue' = overdue \cup {c \in Requests : /\ pc[c] = "idle"
                                               /\ req'[c].op = "auth"
                                               /\ req'[c].tok \in full \cap index.ids}

WatchSpec == InitWatch /\ [][Next /\ Watch]_<<vars, seen, full, overdue>>

\* A PAT is refused once it has been in revoked-lookup-ids for a refresh
\* interval, as the module docstring of token_registry.py and docs/auth.md
\* say: that index is what PAT validation enforces against.
DenylistEnforced == \A c \in overdue : res[c] # "principal"
=============================================================================

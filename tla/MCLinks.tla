------------------------------ MODULE MCLinks ------------------------------
(***************************************************************************)
(* The two identities the broker keeps itself, and what a service lists    *)
(* for the one or the other, for TLC.  The identities live in different    *)
(* Vault records and share nothing, and a listing only depends on whether  *)
(* there is one, so that each is explored alone: the others stay as they   *)
(* started.                                                                *)
(***************************************************************************)
EXTENDS ServiceXLink, OAuthGrant, ListCache

VARIABLE explored

links == <<explored, vars, grantVars, listVars>>

MCInit ==
  /\ explored \in {"servicex", "oauth21", "listing"}
  /\ Init /\ (explored # "servicex" => record = Null)
  /\ GrantInit /\ (explored # "oauth21" => entry = None /\ ~rotates)
  /\ ListInit /\ (explored # "listing" => ~linked)

MCNext ==
  /\ UNCHANGED explored
  /\ \/ explored = "servicex" /\ Next /\ UNCHANGED <<grantVars, listVars>>
     \/ explored = "oauth21" /\ GrantNext /\ UNCHANGED <<vars, listVars>>
     \/ explored = "listing" /\ ListNext /\ UNCHANGED <<vars, grantVars>>

MCSpec == MCInit /\ [][MCNext]_links /\ Fairness

=============================================================================

----------------------------- MODULE OAuthGrant -----------------------------
(***************************************************************************)
(* One user's OAuth 2.1 grant for one alias: the Vault entry of            *)
(* oauth21.py's token store, the provider's issue() and revoke(), and the  *)
(* callback that links the account.                                        *)
(*                                                                         *)
(* The authorization server numbers the refresh tokens it gives.  It       *)
(* accepts each until it is revoked, withdrawn or, where the server rotates*)
(* them, used.  Requests run on any replica; every call to Vault or to the *)
(* server is a step.  A write names the version it read (none: "create"),  *)
(* and Vault numbers an entry from 1 again once its metadata is deleted.   *)
(*                                                                         *)
(* "fresh" stands for more usable seconds than the caller needs.           *)
(***************************************************************************)
EXTENDS Naturals, FiniteSets

CONSTANTS
  Request,     \* request slots, a set of numbers
  MaxDrawn,    \* bound: refresh tokens and grants the server gives
  None,        \* no value
  Gone,        \* what the user is told of an unlinked account
  MaxTurns     \* bound: requests, expiries, withdrawals and failures

ASSUME RequestAssumption == Request \subseteq Nat
ASSUME BoundsAssumption == MaxDrawn \in Nat \ {0} /\ MaxTurns \in Nat
ASSUME NoneAssumption == None \notin Nat
ASSUME GoneAssumption == Gone \notin Nat \cup {None}

VARIABLES
  entry,     \* Vault: [ver, ref, of, fresh, odd], or None
  rotates,   \* the server gives a new refresh token at every use of one
  valid,     \* the refresh tokens the server accepts
  drawn,     \* how many numbers the server has given
  req,       \* the requests
  said,      \* history: what the user was last told, a grant or Gone
  spoilt,    \* history: the stored refresh token may be dead: withdrawn at the
             \* server, or a request failed between the server and Vault
  turns

grantVars == <<entry, rotates, valid, drawn, req, said, spoilt, turns>>

Number == 1 .. MaxDrawn
Uses == {"issue", "link", "revoke"}
Stages == {"idle", "get", "refresh", "put", "reread", "exchange", "create", "look", "replace",
           "post", "delete"}
Entries == [ver : Nat \ {0}, ref : Number \cup {None}, of : Number, fresh : BOOLEAN, odd : BOOLEAN]
ASSUME EntryAssumption == None \notin Entries

(* had is the entry read, got the one to write.  History of a request:     *)
(* past, since it began the entry was deleted or linked anew; stale, the   *)
(* entry it has read was deleted.  odd is history of an entry: a stale     *)
(* request found the version number it had read, on an entry made since.   *)
Free == [use |-> "issue", at |-> "idle", had |-> None, got |-> None, past |-> FALSE, stale |-> FALSE]

Requests ==
  [use : Uses, at : Stages, had : Entries \cup {None}, got : Entries \cup {None},
   past : BOOLEAN, stale : BOOLEAN]

Busy(q) == req[q].at # "idle"
Asserting(q) == Busy(q) /\ req[q].use \in {"link", "revoke"}
Only(q) == \A o \in Request \ {q} : ~Asserting(o)

Turn == turns < MaxTurns /\ turns' = turns + 1
Stage(q, s) == req[q].at = s /\ UNCHANGED turns
Go(q, s) == req' = [req EXCEPT ![q].at = s]
Done(q) == req' = [req EXCEPT ![q] = Free]

Passing(q, after) ==
  [o \in Request |-> IF o = q THEN after
                     ELSE IF Busy(o) THEN [req[o] EXCEPT !.past = TRUE] ELSE req[o]]

---------------------------------------------------------------------------
Begin(q, use) ==
  /\ Turn /\ ~Busy(q) /\ \A o \in Request : o < q => Busy(o)
  /\ req' = [req EXCEPT ![q] = [Free EXCEPT !.use = use, !.at = IF use = "link" THEN "exchange" ELSE "get"]]
  /\ said' = IF use = "issue" THEN said ELSE None
  /\ UNCHANGED <<entry, rotates, valid, drawn, spoilt>>

(* issue() answers 404 without an entry, serves a fresh token, answers 401 *)
(* for one it has no refresh token for, and else refreshes.                *)
GetEntry(q) ==
  /\ Stage(q, "get") /\ req[q].use = "issue"
  /\ IF entry = None \/ entry.fresh \/ entry.ref = None
     THEN Done(q)
     ELSE req' = [req EXCEPT ![q].at = "refresh", ![q].had = entry]
  /\ UNCHANGED <<entry, rotates, valid, drawn, said, spoilt>>

(* A rejection is a 401.                                                   *)
RefreshRejected(q) ==
  /\ Stage(q, "refresh") /\ req[q].had.ref \notin valid
  /\ Done(q)
  /\ UNCHANGED <<entry, rotates, valid, drawn, said, spoilt>>

(* Mutant of Renewed: the refresh token of the answer is not kept.         *)
RenewedAccessOnly(had, ref) == [had EXCEPT !.fresh = TRUE]

Renewed(had, ref) == [had EXCEPT !.ref = ref, !.fresh = TRUE]

(* A new refresh token in the answer voids the old one; without one the    *)
(* old one is kept.                                                        *)
Refreshed(q, ref) ==
  /\ Stage(q, "refresh") /\ req[q].had.ref \in valid
  /\ IF rotates
     THEN /\ drawn < MaxDrawn /\ ref = drawn + 1
          /\ drawn' = ref
          /\ valid' = (valid \ {req[q].had.ref}) \cup {ref}
     ELSE ref = req[q].had.ref /\ UNCHANGED <<valid, drawn>>
  /\ req' = [req EXCEPT ![q].at = "put", ![q].got = Renewed(req[q].had, ref)]
  /\ UNCHANGED <<entry, rotates, said, spoilt>>

Version(e) == IF e = None THEN 0 ELSE e.ver
NextVersion == Version(entry) + 1

(* Mutants of Accepts: an entry that is gone is written anew; a write      *)
(* that looks only whether there is one.                                   *)
AcceptsGone(q) == entry = None \/ Version(entry) = Version(req[q].had)
AcceptsPresent(q) == (entry = None) <=> (req[q].had = None)

(* Vault's check-and-set: version 0 is "there is none".                    *)
Accepts(q) == Version(entry) = Version(req[q].had)

Stored(q) ==
  entry' = [req[q].got EXCEPT !.ver = NextVersion, !.odd = @ \/ req[q].stale]

PutRefreshed(q) ==
  /\ Stage(q, "put")
  /\ IF Accepts(q) THEN Stored(q) /\ Done(q)
     ELSE req' = [req EXCEPT ![q] = [Free EXCEPT !.at = "reread", !.past = req[q].past]] /\ UNCHANGED entry
  /\ UNCHANGED <<rotates, valid, drawn, said, spoilt>>

(* Whatever the winner stored is served; without an entry, 404.            *)
ServeRaced(q) ==
  /\ Stage(q, "reread")
  /\ Done(q)
  /\ UNCHANGED <<entry, rotates, valid, drawn, said, spoilt>>

---------------------------------------------------------------------------
(* The callback: exchange the code, create the entry, or replace the one   *)
(* found, once.                                                            *)

Exchange(q, refreshable) ==
  /\ Stage(q, "exchange") /\ drawn < MaxDrawn
  /\ drawn' = drawn + 1
  /\ valid' = IF refreshable THEN valid \cup {drawn'} ELSE valid
  /\ req' = [req EXCEPT ![q].at = "create",
               ![q].got = [ver |-> 1, ref |-> IF refreshable THEN drawn' ELSE None, of |-> drawn',
                           fresh |-> TRUE, odd |-> FALSE]]
  /\ UNCHANGED <<entry, rotates, said, spoilt>>

(* The entry is the new grant's, whoever was on the way with the old one.  *)
StoreLink(q) ==
  /\ entry' = [req[q].got EXCEPT !.ver = NextVersion]
  /\ said' = IF Only(q) /\ ~req[q].past THEN req[q].got.of ELSE said
  /\ req' = Passing(q, Free)

CreateEntry(q) ==
  /\ Stage(q, "create")
  /\ IF entry = None THEN StoreLink(q) ELSE Go(q, "look") /\ UNCHANGED <<entry, said>>
  /\ UNCHANGED <<rotates, valid, drawn, spoilt>>

LookEntry(q) ==
  /\ Stage(q, "look")
  /\ req' = [req EXCEPT ![q].at = "replace", ![q].had = entry]
  /\ UNCHANGED <<entry, rotates, valid, drawn, said, spoilt>>

(* A second conflict is not retried: the callback answers 500.             *)
ReplaceEntry(q) ==
  /\ Stage(q, "replace")
  /\ IF Accepts(q) THEN StoreLink(q) ELSE Done(q) /\ UNCHANGED <<entry, said>>
  /\ UNCHANGED <<rotates, valid, drawn, spoilt>>

---------------------------------------------------------------------------
(* revoke(): revoke what the entry holds at the server, best effort, and   *)
(* delete the entry.                                                       *)

(* Mutant of GetRevoked: an entry is taken for granted.                    *)
GetRevokedUnasked(q) ==
  /\ Stage(q, "get") /\ req[q].use = "revoke"
  /\ req' = [req EXCEPT ![q].at = "post", ![q].had = entry]
  /\ UNCHANGED <<entry, rotates, valid, drawn, said, spoilt>>

GetRevoked(q) ==
  /\ Stage(q, "get") /\ req[q].use = "revoke"
  /\ req' = [req EXCEPT ![q].at = IF entry = None THEN "delete" ELSE "post", ![q].had = entry]
  /\ UNCHANGED <<entry, rotates, valid, drawn, said, spoilt>>

PostRevocation(q, heard) ==
  /\ Stage(q, "post")
  /\ valid' = IF heard THEN valid \ {req[q].had.ref} ELSE valid
  /\ req' = [req EXCEPT ![q].at = "delete", ![q].had = None, ![q].stale = FALSE]
  /\ UNCHANGED <<entry, rotates, drawn, said, spoilt>>

DeleteEntry(q) ==
  /\ Stage(q, "delete")
  /\ entry' = None
  /\ said' = IF Only(q) THEN Gone ELSE said
  /\ req' = [o \in Request |-> [Passing(q, Free)[o] EXCEPT !.stale = o # q /\ req[o].had # None]]
  /\ UNCHANGED <<rotates, valid, drawn, spoilt>>

---------------------------------------------------------------------------
(* The server or Vault fails or is unreachable (502, 500), or the replica  *)
(* goes down.                                                              *)
Break(q) ==
  /\ Turn /\ Busy(q)
  /\ Done(q)
  /\ spoilt' = (spoilt \/ req[q].at \in {"put", "delete"})
  /\ UNCHANGED <<entry, rotates, valid, drawn, said>>

GrantAges ==
  /\ Turn /\ entry # None /\ entry.fresh
  /\ entry' = [entry EXCEPT !.fresh = FALSE]
  /\ UNCHANGED <<rotates, valid, drawn, req, said, spoilt>>

(* The user withdraws the grant at the server.                             *)
WithdrawGrant(n) ==
  /\ Turn /\ n \in valid
  /\ valid' = valid \ {n}
  /\ spoilt' = TRUE
  /\ UNCHANGED <<entry, rotates, drawn, req, said>>

---------------------------------------------------------------------------
GrantInit ==
  /\ \/ entry = None
     \/ entry \in [ver : {1}, ref : {1, None}, of : {1}, fresh : BOOLEAN, odd : {FALSE}]
  /\ rotates \in BOOLEAN
  /\ valid = IF entry # None /\ entry.ref = 1 THEN {1} ELSE {}
  /\ drawn = IF entry = None THEN 0 ELSE 1
  /\ req = [q \in Request |-> Free]
  /\ said = IF entry = None THEN Gone ELSE 1
  /\ spoilt = FALSE
  /\ turns = 0

GrantStep(q) ==
  \/ GetEntry(q) \/ RefreshRejected(q) \/ PutRefreshed(q) \/ ServeRaced(q)
  \/ \E ref \in Number : Refreshed(q, ref)
  \/ \E refreshable \in BOOLEAN : Exchange(q, refreshable)
  \/ CreateEntry(q) \/ LookEntry(q) \/ ReplaceEntry(q)
  \/ GetRevoked(q) \/ DeleteEntry(q)
  \/ \E heard \in BOOLEAN : PostRevocation(q, heard)

GrantNext ==
  \/ \E q \in Request : GrantStep(q) \/ Break(q) \/ \E use \in Uses : Begin(q, use)
  \/ GrantAges
  \/ \E n \in Number : WithdrawGrant(n)

GrantSpec == GrantInit /\ [][GrantNext]_grantVars

---------------------------------------------------------------------------
(* The shape of every variable; a stage has the entries it works with.     *)
GrantTypeOK ==
  /\ entry \in Entries \cup {None}
  /\ rotates \in BOOLEAN
  /\ valid \subseteq Number
  /\ drawn \in 0 .. MaxDrawn
  /\ req \in [Request -> Requests]
  /\ said \in Number \cup {None, Gone}
  /\ spoilt \in BOOLEAN
  /\ turns \in 0 .. MaxTurns
  /\ \A q \in Request :
       /\ req[q].at \in {"refresh", "put", "post"} => req[q].had # None
       /\ req[q].at \in {"put", "create", "look", "replace"} => req[q].got # None

(* Once DELETE /v1/identities/link/{alias} has answered and no link has    *)
(* begun since, no refresh that was under way brings the entry back: its   *)
(* write names a version, and the conflict is answered from what is there. *)
GrantUnlinkSticks == said = Gone => entry = None

(* A linked account stays that account: a refresh of the grant it replaced *)
(* loses against it.  The exception is a refresh that began before an      *)
(* unlink which the link followed, and finds the same version number.      *)
GrantLinkKept == said \in Number => entry # None /\ (entry.of = said \/ entry.odd)

(* While no request is under way, and none has failed between the server   *)
(* and Vault, the stored refresh token is one the server accepts: of two   *)
(* concurrent refreshes the stored one is the one that counted.  The same  *)
(* exception.                                                              *)
StoredUsable ==
  /\ \A q \in Request : ~Busy(q)
  /\ ~spoilt
  /\ entry # None /\ ~entry.odd /\ entry.ref # None
  => entry.ref \in valid

=============================================================================

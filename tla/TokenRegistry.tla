---------------------------- MODULE TokenRegistry ----------------------------
(***************************************************************************)
(* The Vault-backed PAT registry (token_registry.py), the routes that      *)
(* drive it (api/tokens.py, pat_auth.py) and the sweep job that prunes it  *)
(* (token_sweep.py).                                                       *)
(*                                                                         *)
(* Every coroutine is a call.  A call is cut at its awaits: one action per *)
(* Vault round trip, so the calls of all broker replicas and of the sweep  *)
(* job interleave exactly where the event loop and the network let them.   *)
(* A PAT record's identity (owner, name, expiry) never changes once minted *)
(* and is kept in pat; what a KV entry adds is which records it holds and  *)
(* which of them are revoked.  last_used_at is display-only: touching a    *)
(* record is a write that moves the version and nothing else.              *)
(***************************************************************************)
EXTENDS Naturals, FiniteSets

CONSTANTS
  Principals,  \* Keycloak subjects
  Tokens,      \* lookup ids
  Names,       \* PAT names, up to case
  Requests,    \* HTTP requests; each mints, revokes or presents one PAT
  Sweeps,      \* runs of the sweep job
  Faulty,      \* the calls a VaultError or a dying process may cut short
  Lifetimes,   \* the lifetimes, in ticks, a mint may ask for
  Grace,       \* token_sweep_grace_seconds
  MaxRetries,  \* _MAX_CAS_RETRIES
  MaxTime,     \* bound of the clock
  None

ASSUME NoneAssumption == None \notin Principals \cup Tokens \cup Names \cup Nat
ASSUME CallAssumption ==
  /\ Requests \cap Sweeps = {}
  /\ Faulty \subseteq Requests \cup Sweeps
ASSUME NumberAssumption ==
  /\ Lifetimes \subseteq Nat \ {0}
  /\ Grace \in Nat
  /\ MaxTime \in Nat
  /\ MaxRetries \in Nat \ {0}

VARIABLES
  now,    \* time.time(), the same on every replica
  pat,    \* the identity fields each lookup id was minted with
  entry,  \* by-principal/{principal_id}: KV version, records, revoked ones
  owner,  \* lookup-owner/{lookup_id}
  index,  \* revoked-lookup-ids: KV version and ids
  pc,     \* the await each call is suspended at
  req,    \* what each call was asked
  snap,   \* the by-principal entry the call read last
  isnap,  \* the revoked-lookup-ids entry the call read last
  tries,  \* CAS conflicts in the call's current retry loop
  res,    \* what the call returned
  job     \* the local variables of a sweep

store == <<entry, owner, index>>
vars  == <<now, pat, entry, owner, index, pc, req, snap, isnap, tries, res, job>>

-----------------------------------------------------------------------------

Calls == Requests \cup Sweeps

Unminted == [owner |-> None, name |-> None, exp |-> None]
Absent   == [ver |-> 0, has |-> {}, revoked |-> {}]
NoIndex  == [ver |-> 0, ids |-> {}]
NoReq    == [op |-> "none", who |-> None, tok |-> None, at |-> 0, late |-> FALSE]
NoJob    == [todo |-> {}, cur |-> None, gone |-> {}, before |-> {}, prune |-> {}]

Pats    == [owner : Principals, name : Names, exp : Nat \cup {None}] \cup {Unminted}
Entries == [ver : Nat, has : SUBSET Tokens, revoked : SUBSET Tokens]
Indexes == [ver : Nat, ids : SUBSET Tokens]
Reqs    == [op : {"none", "mint", "revoke", "auth", "sweep"},
            who : Principals \cup {None}, tok : Tokens \cup {None},
            at : Nat, late : BOOLEAN]
Jobs    == [todo : SUBSET Principals, cur : Principals \cup {None},
            gone : SUBSET Tokens, before : SUBSET Tokens, prune : SUBSET Tokens]

Labels  == {"idle", "done",
            "add.read", "add.write", "add.owner",
            "revoke.get", "index.read", "index.write", "revoke.read", "revoke.write",
            "auth.get", "touch.read", "touch.write",
            "sweep.list", "sweep.read", "sweep.write", "sweep.owner",
            "prune.read", "prune.write"}
Results == {"none", "error", "minted", "duplicate", "revoked", "unknown",
            "forbidden", "principal", "unauthorized", "swept"}

\* Past its own expires_at at time x; a PAT without one never is.
Expired(t, x) == pat[t].exp # None /\ pat[t].exp <= x

\* Past expires_at by more than the grace window, for a sweep started at x.
PastGrace(t, x) == pat[t].exp # None /\ pat[t].exp + Grace <= x

\* Record u of entry e is live at x and blocks the name of t.
Collides(e, u, t, x) ==
  /\ u # t
  /\ u \notin e.revoked
  /\ ~Expired(u, x)
  /\ pat[u].name = pat[t].name

NameTaken(e, t, x) == \E u \in e.has : Collides(e, u, t, x)

\* Some caller has been told that t is revoked.
RevokeAcked(t) ==
  \E c \in Requests : req[c].op = "revoke" /\ req[c].tok = t /\ res[c] = "revoked"

-----------------------------------------------------------------------------
\* What a call does with its own locals.

Goto(c, label) == pc' = [pc EXCEPT ![c] = label]

Return(c, r) ==
  /\ pc'    = [pc EXCEPT ![c] = "done"]
  /\ res'   = [res EXCEPT ![c] = r]
  /\ snap'  = [snap EXCEPT ![c] = Absent]
  /\ isnap' = [isnap EXCEPT ![c] = NoIndex]
  /\ tries' = [tries EXCEPT ![c] = 0]
  /\ job'   = [job EXCEPT ![c] = NoJob]
  /\ UNCHANGED req

\* Leave one await for the next with nothing remembered but the request.
Proceed(c, label) ==
  /\ Goto(c, label)
  /\ snap'  = [snap EXCEPT ![c] = Absent]
  /\ isnap' = [isnap EXCEPT ![c] = NoIndex]
  /\ tries' = [tries EXCEPT ![c] = 0]
  /\ UNCHANGED <<req, res, job>>

Begin(c, label, r) ==
  /\ pc[c] = "idle"
  /\ Goto(c, label)
  /\ req' = [req EXCEPT ![c] = r]
  /\ UNCHANGED <<snap, isnap, tries, res, job>>

\* A request answered after its first Vault read.
Answer(c, r, answer) ==
  /\ pc[c] = "idle"
  /\ Goto(c, "done")
  /\ req' = [req EXCEPT ![c] = r]
  /\ res' = [res EXCEPT ![c] = answer]
  /\ UNCHANGED <<snap, isnap, tries, job>>

ReadEntry(c, p, label) ==
  /\ Goto(c, label)
  /\ snap' = [snap EXCEPT ![c] = entry[p]]
  /\ UNCHANGED <<req, isnap, tries, res, job>>

ReadIndex(c, label) ==
  /\ Goto(c, label)
  /\ isnap' = [isnap EXCEPT ![c] = index]
  /\ UNCHANGED <<req, snap, tries, res, job>>

\* write_cas raised CasConflict: read again while the budget lasts, give up
\* with the result r when it is spent.
Conflict(c, retry, r) ==
  \/ /\ tries[c] + 1 < MaxRetries
     /\ Goto(c, retry)
     /\ tries' = [tries EXCEPT ![c] = @ + 1]
     /\ snap'  = [snap EXCEPT ![c] = Absent]
     /\ isnap' = [isnap EXCEPT ![c] = NoIndex]
     /\ UNCHANGED <<req, res, job>>
  \/ /\ tries[c] + 1 >= MaxRetries
     /\ Return(c, r)

\* The KV-v2 check-and-set: the write lands exactly when the version is the
\* one read.  An absent entry has version 0, which is what cas=0 demands.
EntryUnmoved(p, c) == entry[p].ver = snap[c].ver
IndexUnmoved(c)    == index.ver = isnap[c].ver

WriteEntry(p, c, has, revoked) ==
  entry' = [entry EXCEPT ![p] =
              [ver |-> snap[c].ver + 1, has |-> has, revoked |-> revoked]]
WriteIndex(c, ids) == index' = [ver |-> isnap[c].ver + 1, ids |-> ids]

\* The last write of a call landed, but its caller may never hear of it.
ReturnOrLose(c, r) ==
  \/ Return(c, r)
  \/ c \in Faulty /\ Return(c, "error")

-----------------------------------------------------------------------------
\* POST /v1/tokens: mint_token() and VaultTokenRegistryBackend.add().

StartMint(c, p, t, n, life) ==
  /\ pat[t] = Unminted
  /\ pat' = [pat EXCEPT ![t] =
               [owner |-> p, name |-> n,
                exp |-> IF life = None THEN None ELSE now + life]]
  /\ Begin(c, "add.read",
           [op |-> "mint", who |-> p, tok |-> t, at |-> now, late |-> FALSE])
  /\ UNCHANGED <<now, store>>

\* Mutant of AddRead: the name is checked on the first attempt only.
AddReadOnce(c) ==
  LET p == req[c].who
      taken == tries[c] = 0 /\ NameTaken(entry[p], req[c].tok, req[c].at) IN
  /\ pc[c] = "add.read"
  /\ \/ taken  /\ Return(c, "duplicate")
     \/ ~taken /\ ReadEntry(c, p, "add.write")
  /\ UNCHANGED <<now, pat, store>>

AddRead(c) ==
  LET p == req[c].who
      t == req[c].tok IN
  /\ pc[c] = "add.read"
  /\ \/ NameTaken(entry[p], t, req[c].at)  /\ Return(c, "duplicate")
     \/ ~NameTaken(entry[p], t, req[c].at) /\ ReadEntry(c, p, "add.write")
  /\ UNCHANGED <<now, pat, store>>

\* Mutants of AddWrite: a plain write instead of a check-and-set, a retry
\* that does not read again, and no owner index entry.
AddWriteBlind(c) ==
  /\ pc[c] = "add.write"
  /\ WriteEntry(req[c].who, c, snap[c].has \cup {req[c].tok}, snap[c].revoked)
  /\ Proceed(c, "add.owner")
  /\ UNCHANGED <<now, pat, owner, index>>

AddWriteStale(c) ==
  LET p == req[c].who IN
  /\ pc[c] = "add.write"
  /\ \/ /\ EntryUnmoved(p, c)
        /\ WriteEntry(p, c, snap[c].has \cup {req[c].tok}, snap[c].revoked)
        /\ Proceed(c, "add.owner")
     \/ /\ ~EntryUnmoved(p, c)
        /\ Conflict(c, "add.write", "error")
        /\ UNCHANGED entry
  /\ UNCHANGED <<now, pat, owner, index>>

AddWriteOnly(c) ==
  /\ pc[c] = "add.write"
  /\ EntryUnmoved(req[c].who, c)
  /\ WriteEntry(req[c].who, c, snap[c].has \cup {req[c].tok}, snap[c].revoked)
  /\ Return(c, "minted")
  /\ UNCHANGED <<now, pat, owner, index>>

AddWrite(c) ==
  LET p == req[c].who
      t == req[c].tok IN
  /\ pc[c] = "add.write"
  /\ \/ /\ EntryUnmoved(p, c)
        /\ WriteEntry(p, c, snap[c].has \cup {t}, snap[c].revoked)
        /\ Proceed(c, "add.owner")
     \/ /\ ~EntryUnmoved(p, c)
        /\ Conflict(c, "add.read", "error")
        /\ UNCHANGED entry
  /\ UNCHANGED <<now, pat, owner, index>>

\* Mutant of AddOwner: the index entry maps the token to itself.
AddOwnerSwapped(c) ==
  /\ pc[c] = "add.owner"
  /\ owner' = [owner EXCEPT ![req[c].tok] = req[c].tok]
  /\ ReturnOrLose(c, "minted")
  /\ UNCHANGED <<now, pat, entry, index>>

AddOwner(c) ==
  LET t == req[c].tok IN
  /\ pc[c] = "add.owner"
  /\ owner' = [owner EXCEPT ![t] = IF @ = None THEN req[c].who ELSE @]
  /\ ReturnOrLose(c, "minted")
  /\ UNCHANGED <<now, pat, entry, index>>

-----------------------------------------------------------------------------
\* DELETE /v1/tokens/{lookup_id}: revoke_token() and revoke().

\* Mutant of StartRevoke: the index is written before anything is checked.
StartRevokeUnchecked(c, p, t) ==
  /\ owner[t] # None
  /\ Begin(c, "index.read",
           [op |-> "revoke", who |-> p, tok |-> t, at |-> 0, late |-> FALSE])
  /\ UNCHANGED <<now, pat, store>>

StartRevoke(c, p, t) ==
  LET r == [op |-> "revoke", who |-> p, tok |-> t, at |-> 0, late |-> FALSE] IN
  /\ \/ owner[t] = None          /\ Answer(c, r, "unknown")
     \/ owner[t] \notin {p, None} /\ Answer(c, r, "forbidden")
     \/ owner[t] = p             /\ Begin(c, "revoke.get", r)
  /\ UNCHANGED <<now, pat, store>>

\* Mutant of RevokeGet: the record is marked and the index never written.
RevokeGetRecordOnly(c) ==
  /\ pc[c] = "revoke.get"
  /\ Proceed(c, "revoke.read")
  /\ UNCHANGED <<now, pat, store>>

RevokeGet(c) ==
  LET held == req[c].tok \in entry[req[c].who].has IN
  /\ pc[c] = "revoke.get"
  /\ \/ held  /\ Proceed(c, "index.read")
     \/ ~held /\ Return(c, "unknown")
  /\ UNCHANGED <<now, pat, store>>

\* _add_to_revoked_index(), before the record itself is touched.
IndexRead(c) ==
  /\ pc[c] = "index.read"
  /\ \/ req[c].tok \in index.ids    /\ Proceed(c, "revoke.read")
     \/ req[c].tok \notin index.ids /\ ReadIndex(c, "index.write")
  /\ UNCHANGED <<now, pat, store>>

IndexWrite(c) ==
  /\ pc[c] = "index.write"
  /\ \/ /\ IndexUnmoved(c)
        /\ WriteIndex(c, isnap[c].ids \cup {req[c].tok})
        /\ Proceed(c, "revoke.read")
     \/ /\ ~IndexUnmoved(c)
        /\ Conflict(c, "index.read", "error")
        /\ UNCHANGED index
  /\ UNCHANGED <<now, pat, entry, owner>>

RevokeRead(c) ==
  LET p == req[c].who IN
  /\ pc[c] = "revoke.read"
  /\ \/ req[c].tok \in entry[p].has    /\ ReadEntry(c, p, "revoke.write")
     \/ req[c].tok \notin entry[p].has /\ Return(c, "unknown")
  /\ UNCHANGED <<now, pat, store>>

RevokeWrite(c) ==
  LET p == req[c].who IN
  /\ pc[c] = "revoke.write"
  /\ \/ /\ EntryUnmoved(p, c)
        /\ WriteEntry(p, c, snap[c].has, snap[c].revoked \cup {req[c].tok})
        /\ ReturnOrLose(c, "revoked")
     \/ /\ ~EntryUnmoved(p, c)
        /\ Conflict(c, "revoke.read", "error")
        /\ UNCHANGED entry
  /\ UNCHANGED <<now, pat, owner, index>>

-----------------------------------------------------------------------------
\* A bearer PAT on /mcp: resolve_pat_principal() and touch_last_used().  The
\* principal cache answers at the end of the call, or is unavailable (401).

StartAuth(c, t) ==
  LET r == [op |-> "auth", who |-> owner[t], tok |-> t, at |-> 0,
            late |-> RevokeAcked(t)] IN
  /\ \/ owner[t] = None /\ Answer(c, r, "unauthorized")
     \/ owner[t] # None /\ Begin(c, "auth.get", r)
  /\ UNCHANGED <<now, pat, store>>

Authority(c) == \E r \in {"principal", "unauthorized"} : Return(c, r)

\* Mutant of Accepted: revoked_at is not looked at.
AcceptedRevoked(c) ==
  /\ req[c].tok \in entry[req[c].who].has
  /\ ~Expired(req[c].tok, now)

\* The record as get() returns it passes every check of question 1.
Accepted(c) ==
  LET e == entry[req[c].who] IN
  /\ req[c].tok \in e.has
  /\ req[c].tok \notin e.revoked
  /\ ~Expired(req[c].tok, now)

\* A record that fails a check, or a secret that does not match, is a 401.
\* LastUsedTracker.due() decides whether the record is touched.
AuthGet(c) ==
  /\ pc[c] = "auth.get"
  /\ \/ Return(c, "unauthorized")
     \/ Accepted(c) /\ (Authority(c) \/ Proceed(c, "touch.read"))
  /\ UNCHANGED <<now, pat, store>>

TouchRead(c) ==
  LET p == req[c].who IN
  /\ pc[c] = "touch.read"
  /\ \/ req[c].tok \in entry[p].has    /\ ReadEntry(c, p, "touch.write")
     \/ req[c].tok \notin entry[p].has /\ Authority(c)
  /\ UNCHANGED <<now, pat, store>>

\* Mutant of TouchWrite: a plain write instead of a check-and-set.
TouchWriteBlind(c) ==
  /\ pc[c] = "touch.write"
  /\ WriteEntry(req[c].who, c, snap[c].has, snap[c].revoked)
  /\ Authority(c)
  /\ UNCHANGED <<now, pat, owner, index>>

\* A spent retry budget is logged, not raised.
TouchWrite(c) ==
  LET p == req[c].who IN
  /\ pc[c] = "touch.write"
  /\ \/ /\ EntryUnmoved(p, c)
        /\ WriteEntry(p, c, snap[c].has, snap[c].revoked)
        /\ \/ Authority(c)
           \/ c \in Faulty /\ Return(c, "error")
     \/ /\ ~EntryUnmoved(p, c)
        /\ \E r \in {"principal", "unauthorized"} : Conflict(c, "touch.read", r)
        /\ UNCHANGED entry
  /\ UNCHANGED <<now, pat, owner, index>>

-----------------------------------------------------------------------------
\* One run of the sweep job: sweep_expired().  It reads the clock and the
\* revoked index once, up front.

StartSweep(c) ==
  /\ pc[c] = "idle"
  /\ Goto(c, "sweep.list")
  /\ req' = [req EXCEPT ![c] = [NoReq EXCEPT !.op = "sweep", !.at = now]]
  /\ job' = [job EXCEPT ![c].before = index.ids]
  /\ UNCHANGED <<now, pat, store, snap, isnap, tries, res>>

SweepList(c) ==
  /\ pc[c] = "sweep.list"
  /\ Goto(c, "sweep.read")
  /\ job' = [job EXCEPT ![c].todo = {p \in Principals : entry[p].ver # 0}]
  /\ UNCHANGED <<now, pat, store, req, snap, isnap, tries, res>>

\* Mutant of Dead: the grace window is forgotten.
DeadAtOnce(c, e) == {t \in e.has : Expired(t, req[c].at)}
Dead(c, e) == {t \in e.has : PastGrace(t, req[c].at)}

SweepRead(c, p) ==
  /\ pc[c] = "sweep.read"
  /\ p \in job[c].todo
  /\ job[c].cur \in {None, p}
  /\ \/ /\ Dead(c, entry[p]) = {}
        /\ job' = [job EXCEPT ![c] = [job[c] EXCEPT !.todo = @ \ {p}, !.cur = None]]
        /\ tries' = [tries EXCEPT ![c] = 0]
        /\ UNCHANGED <<pc, snap>>
     \/ /\ Dead(c, entry[p]) # {}
        /\ Goto(c, "sweep.write")
        /\ snap' = [snap EXCEPT ![c] = entry[p]]
        /\ job' = [job EXCEPT ![c].cur = p]
        /\ UNCHANGED tries
  /\ UNCHANGED <<now, pat, store, req, isnap, res>>

\* What is left is written back with CAS; when nothing is left the entry and
\* its version counter are destroyed, whatever version it has by then.
SweepWrite(c) ==
  LET p    == job[c].cur
      dead == Dead(c, snap[c])
      removed ==
        /\ Goto(c, "sweep.owner")
        /\ job'   = [job EXCEPT ![c].gone = dead]
        /\ snap'  = [snap EXCEPT ![c] = Absent]
        /\ tries' = [tries EXCEPT ![c] = 0]
        /\ UNCHANGED <<req, isnap, res>> IN
  /\ pc[c] = "sweep.write"
  /\ \/ /\ dead # snap[c].has
        /\ EntryUnmoved(p, c)
        /\ WriteEntry(p, c, snap[c].has \ dead, snap[c].revoked \ dead)
        /\ removed
     \/ /\ dead # snap[c].has
        /\ ~EntryUnmoved(p, c)
        /\ Conflict(c, "sweep.read", "error")
        /\ UNCHANGED entry
     \/ /\ dead = snap[c].has
        /\ entry' = [entry EXCEPT ![p] = Absent]
        /\ removed
  /\ UNCHANGED <<now, pat, owner, index>>

SweepOwner(c, t) ==
  LET mine == job[c]
      left == mine.gone \ {t} IN
  /\ pc[c] = "sweep.owner"
  /\ t \in job[c].gone
  /\ owner' = [owner EXCEPT ![t] = None]
  /\ job' = [job EXCEPT ![c] =
               [mine EXCEPT !.gone  = left,
                            !.prune = @ \cup ({t} \cap mine.before),
                            !.todo  = IF left = {} THEN @ \ {mine.cur} ELSE @,
                            !.cur   = IF left = {} THEN None ELSE @]]
  /\ Goto(c, IF left = {} THEN "sweep.read" ELSE "sweep.owner")
  /\ UNCHANGED <<now, pat, entry, index, req, snap, isnap, tries, res>>

SweepListed(c) ==
  /\ pc[c] = "sweep.read"
  /\ job[c].todo = {}
  /\ \/ job[c].prune = {} /\ Return(c, "swept")
     \/ job[c].prune # {} /\ Proceed(c, "prune.read")
  /\ UNCHANGED <<now, pat, store>>

PruneRead(c) ==
  LET found == index.ids \cap job[c].prune IN
  /\ pc[c] = "prune.read"
  /\ \/ found = {} /\ Return(c, "swept")
     \/ found # {} /\ ReadIndex(c, "prune.write")
  /\ UNCHANGED <<now, pat, store>>

PruneWrite(c) ==
  /\ pc[c] = "prune.write"
  /\ \/ /\ IndexUnmoved(c)
        /\ WriteIndex(c, isnap[c].ids \ job[c].prune)
        /\ ReturnOrLose(c, "swept")
     \/ /\ ~IndexUnmoved(c)
        /\ Conflict(c, "prune.read", "error")
        /\ UNCHANGED index
  /\ UNCHANGED <<now, pat, entry, owner>>

-----------------------------------------------------------------------------

\* A VaultError out of any round trip, or the process dying between two.
Fault(c) ==
  /\ c \in Faulty
  /\ pc[c] \notin {"idle", "done"}
  /\ Return(c, "error")
  /\ UNCHANGED <<now, pat, store>>

Tick ==
  /\ now < MaxTime
  /\ now' = now + 1
  /\ UNCHANGED <<pat, store, pc, req, snap, isnap, tries, res, job>>

Init ==
  /\ now   = 0
  /\ pat   = [t \in Tokens |-> Unminted]
  /\ entry = [p \in Principals |-> Absent]
  /\ owner = [t \in Tokens |-> None]
  /\ index = NoIndex
  /\ pc    = [c \in Calls |-> "idle"]
  /\ req   = [c \in Calls |-> NoReq]
  /\ snap  = [c \in Calls |-> Absent]
  /\ isnap = [c \in Calls |-> NoIndex]
  /\ tries = [c \in Calls |-> 0]
  /\ res   = [c \in Calls |-> "none"]
  /\ job   = [c \in Calls |-> NoJob]

Start(c) ==
  \E t \in Tokens :
    \/ StartAuth(c, t)
    \/ \E p \in Principals :
         \/ StartRevoke(c, p, t)
         \/ \E n \in Names, life \in Lifetimes \cup {None} : StartMint(c, p, t, n, life)

\* The next step of a request already started.
Step(c) ==
  \/ AddRead(c) \/ AddWrite(c) \/ AddOwner(c)
  \/ RevokeGet(c) \/ IndexRead(c) \/ IndexWrite(c) \/ RevokeRead(c) \/ RevokeWrite(c)
  \/ AuthGet(c) \/ TouchRead(c) \/ TouchWrite(c)

SweepStep(c) ==
  \/ SweepList(c)
  \/ \E p \in Principals : SweepRead(c, p)
  \/ SweepWrite(c)
  \/ \E t \in Tokens : SweepOwner(c, t)
  \/ SweepListed(c) \/ PruneRead(c) \/ PruneWrite(c)

Next ==
  \/ \E c \in Requests : Start(c) \/ Step(c)
  \/ \E c \in Sweeps : StartSweep(c) \/ SweepStep(c)
  \/ \E c \in Calls : Fault(c)
  \/ Tick

Spec == Init /\ [][Next]_vars

-----------------------------------------------------------------------------
\* Every variable has its type.
TypeOK ==
  /\ now \in Nat
  /\ pat \in [Tokens -> Pats]
  /\ entry \in [Principals -> Entries]
  /\ owner \in [Tokens -> Principals \cup {None}]
  /\ index \in Indexes
  /\ pc \in [Calls -> Labels]
  /\ req \in [Calls -> Reqs]
  /\ snap \in [Calls -> Entries]
  /\ isnap \in [Calls -> Indexes]
  /\ tries \in [Calls -> Nat]
  /\ res \in [Calls -> Results]
  /\ job \in [Calls -> Jobs]

\* No two live records of one principal ever carry the same name, whatever
\* mints, revokes, touches and sweeps race: add()'s check and its write are
\* two round trips, held together only by CAS and the re-check on retry.
LiveNamesUnique ==
  \A p \in Principals : \A t \in entry[p].has :
    ~Expired(t, now) /\ t \notin entry[p].revoked => ~NameTaken(entry[p], t, now)

\* The revoked index never lags behind the by-principal entry: a record
\* shown as revoked is in revoked-lookup-ids as long as it could still be
\* presented, even while a sweep prunes that set.
RevokedIsIndexed ==
  \A p \in Principals : \A t \in entry[p].revoked :
    t \in index.ids \/ Expired(t, now)

\* A revocation the user was told about is never undone by a concurrent
\* touch, mint or revoke that read the entry before it.
AckedRevokeSticks ==
  \A t \in Tokens : RevokeAcked(t) => t \in entry[pat[t].owner].revoked

\* A request that arrives after its PAT's revocation was acknowledged, on
\* any replica, is never given a principal.
NoAuthAfterRevoke ==
  \A c \in Requests :
    req[c].op = "auth" /\ req[c].late => res[c] # "principal"

\* A PAT handed to its user has its record and its owner index entry for as
\* long as it lives: no other write to the same entry loses it.
AckedMintKept ==
  \A c \in Requests :
    res[c] = "minted" /\ ~PastGrace(req[c].tok, now) =>
      /\ req[c].tok \in entry[req[c].who].has
      /\ owner[req[c].tok] = req[c].who

\* A record without an owner index entry (one that can be neither presented
\* nor revoked) comes only from a mint that is under way or that failed,
\* or is an expired one that a sweep is taking away.
OrphanOnlyFromMint ==
  \A p \in Principals : \A t \in entry[p].has :
    \/ owner[t] = p
    \/ Expired(t, now)
    \/ \E c \in Requests : /\ req[c].op = "mint" /\ req[c].tok = t
                           /\ pc[c] = "add.owner" \/ res[c] = "error"

\* With no more calls in flight than retries, none runs out of them: each
\* writes an entry at most once, so a call without a fault never
\* ends in "exceeded retry budget".
BudgetSuffices ==
  Cardinality(Calls) <= MaxRetries =>
    \A c \in Calls \ Faulty : res[c] # "error"

\* Only its owner can put a PAT into the revoked index.
OnlyOwnerDenies ==
  \A t \in index.ids : \E c \in Requests :
    req[c].op = "revoke" /\ req[c].tok = t /\ req[c].who = pat[t].owner

\* A sweep takes a PAT out of the revoked index, or drops its owner entry,
\* only once the PAT is past its grace window, however stale what it read.
SweepSparesLive ==
  [][\A t \in Tokens :
       \/ t \in index.ids /\ t \notin index'.ids
       \/ owner[t] # None /\ owner'[t] = None
       => PastGrace(t, now)]_<<index, owner>>

\* The registry keeps the contract of TokenRegistryBackend.
Held    == [p \in Principals |-> entry[p].has]
Revoked == [p \in Principals |-> entry[p].revoked]
Contract == INSTANCE PatRegistry WITH held <- Held, revoked <- Revoked
ContractSpec == Contract!Spec
=============================================================================

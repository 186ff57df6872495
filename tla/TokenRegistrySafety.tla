------------------------- MODULE TokenRegistrySafety -------------------------
(***************************************************************************)
(* Safety of the PAT registry under any interleaving of requests, sweeps   *)
(* and faults.  The argument is made on pictures: the by-principal entries *)
(* and the copies of them that suspended calls hold.  Every step replaces  *)
(* a picture by another one, by nothing, or by one derived from a copy.    *)
(***************************************************************************)
EXTENDS TokenRegistryProofs, FiniteSetTheorems

-----------------------------------------------------------------------------
\* A sweep spares what is live.

\* Whatever a sweep holds for removal is past its grace window already.
PruneInv ==
  /\ \A c \in Calls : req[c].at <= now
  /\ \A c \in Calls : \A t \in job[c].gone \cup job[c].prune : PastGrace(t, now)

\* The check-and-set discipline of the revoked index: a copy with the
\* current version is the current set.
IndexInv ==
  /\ index.ver = 0 => index.ids = {}
  /\ \A c \in Calls :
       /\ isnap[c].ver <= index.ver
       /\ isnap[c].ver = index.ver => isnap[c].ids = index.ids

SweepInv == TypeInv /\ PruneInv /\ IndexInv

LEMMA PastGraceStable ==
  ASSUME TypeInv, [Next]_vars, NEW t \in Tokens, NEW x \in Nat, x <= now, PastGrace(t, x)
  PROVE  PastGrace(t, now)'
  <1>1. pat[t] # Unminted
    BY DEF PastGrace, Unminted
  <1>2. pat[t].exp \in Nat /\ now \in Nat /\ Grace \in Nat
    BY <1>1, NumberAssumption DEF PastGrace, TypeInv, TypeOK, Pats
  <1>3. pat'[t] = pat[t] /\ now <= now' /\ now' \in Nat
    BY <1>1, PatStep
  <1>4. QED
    BY <1>2, <1>3 DEF PastGrace

LEMMA InitSweep == Init => SweepInv
  BY InitType DEF Init, SweepInv, PruneInv, IndexInv, NoReq, NoJob, NoIndex

LEMMA NextSweep == SweepInv /\ [Next]_vars => SweepInv'
  <1> SUFFICES ASSUME SweepInv, [Next]_vars PROVE SweepInv'
    OBVIOUS
  <1>1. TypeInv /\ TypeInv'
    BY NextType DEF SweepInv
  <1>2. now \in Nat /\ now' \in Nat /\ now <= now'
    BY <1>1, PatStep DEF TypeInv, TypeOK
  <1>3. ASSUME NEW c \in Calls PROVE (req[c].at <= now)'
    <2>1. req[c].at \in Nat /\ req[c].at <= now
      BY <1>1 DEF SweepInv, PruneInv, TypeInv, TypeOK, Reqs
    <2>2. req'[c] = req[c] \/ req'[c].at \in {0, now}
      BY <1>1, ReqStep
    <2>3. QED
      BY <1>2, <2>1, <2>2
  <1>4. ASSUME NEW c \in Calls, NEW t \in (job[c].gone \cup job[c].prune)'
        PROVE  PastGrace(t, now)'
    <2>1. t \in Tokens
      BY <1>1 DEF TypeInv, TypeOK, Jobs
    <2>2. t \in job[c].gone \cup job[c].prune \cup Dead(c, snap[c])
      BY <1>1, JobStep
    <2>3. CASE t \in job[c].gone \cup job[c].prune
      BY <1>1, <1>2, <2>1, <2>3, PastGraceStable DEF SweepInv, PruneInv
    <2>4. CASE t \in Dead(c, snap[c])
      <3>1. req[c].at \in Nat /\ req[c].at <= now /\ PastGrace(t, req[c].at)
        BY <1>1, <2>4 DEF Dead, SweepInv, PruneInv, TypeInv, TypeOK, Reqs
      <3>2. QED
        BY <1>1, <2>1, <3>1, PastGraceStable
    <2>5. QED
      BY <2>2, <2>3, <2>4
  <1>5. IndexInv'
    <2>1. index \in Indexes /\ index' \in Indexes
          /\ \A c \in Calls : isnap[c] \in Indexes /\ isnap'[c] \in Indexes
      BY <1>1 DEF TypeInv, TypeOK
    <2>2. UNCHANGED index \/ index'.ver = index.ver + 1
      BY <1>1, IndexStep DEF IndexMoved
    <2>3. (index.ver = 0 => index.ids = {})'
      BY <2>1, <2>2 DEF SweepInv, IndexInv, Indexes
    <2>4. ASSUME NEW c \in Calls
          PROVE  (isnap[c].ver <= index.ver
                    /\ (isnap[c].ver = index.ver => isnap[c].ids = index.ids))'
      <3>1. /\ index.ver \in Nat /\ isnap[c].ver \in Nat
            /\ isnap[c].ver <= index.ver
            /\ isnap[c].ver = index.ver => isnap[c].ids = index.ids
            /\ index.ver = 0 => index.ids = {}
        BY <2>1 DEF SweepInv, IndexInv, Indexes
      <3>2. isnap'[c] \in {isnap[c], NoIndex, index}
        BY <1>1, IsnapStep
      <3>3. CASE UNCHANGED index
        BY <3>1, <3>2, <3>3 DEF NoIndex
      <3>4. CASE index'.ver = index.ver + 1
        BY <3>1, <3>2, <3>4 DEF NoIndex
      <3>5. QED
        BY <2>2, <3>3, <3>4
    <2>5. QED
      BY <2>3, <2>4 DEF IndexInv
  <1>6. QED
    BY <1>1, <1>3, <1>4, <1>5 DEF SweepInv, PruneInv

LEMMA SweepStepSpares ==
  ASSUME SweepInv, [Next]_vars, NEW t \in Tokens,
         \/ t \in index.ids /\ t \notin index'.ids
         \/ owner[t] # None /\ owner'[t] = None
  PROVE  PastGrace(t, now)
  <1>1. CASE t \in index.ids /\ t \notin index'.ids
    <2>1. PICK c \in Calls : IndexMoved(c)
      BY <1>1, IndexStep DEF SweepInv
    <2>2. isnap[c].ids = index.ids
      BY <2>1 DEF SweepInv, IndexInv, IndexMoved
    <2>3. QED
      BY <1>1, <2>1, <2>2 DEF SweepInv, PruneInv, IndexMoved
  <1>2. CASE owner[t] # None /\ owner'[t] = None
    BY <1>2, OwnerStep DEF SweepInv, PruneInv
  <1>3. QED
    BY <1>1, <1>2

\* A sweep takes a PAT out of the revoked index, or drops its owner entry,
\* only once the PAT is past its grace window, however stale what it read
\* and whatever mints, revokes, touches and other sweeps run beside it.
THEOREM SweepsSpareLive == Spec => SweepSparesLive
  <1>1. Init => SweepInv
    BY InitSweep
  <1>2. SweepInv /\ [Next]_vars => SweepInv'
    BY NextSweep
  <1>3. SweepInv /\ [Next]_vars
          => [\A t \in Tokens :
                \/ t \in index.ids /\ t \notin index'.ids
                \/ owner[t] # None /\ owner'[t] = None
                => PastGrace(t, now)]_<<index, owner>>
    BY SweepStepSpares
  <1>4. QED
    BY <1>1, <1>2, <1>3, PTL DEF Spec, SweepSparesLive
-----------------------------------------------------------------------------
\* The revoked index never lags behind the records.

Denied(t) == t \in index.ids \/ Expired(t, now)

\* Every picture of an entry shows as revoked only what is denied already,
\* and so does the PAT a revoke is about to mark.
DeniedInv ==
  /\ \A p \in Principals : \A t \in entry[p].revoked : Denied(t)
  /\ \A c \in Calls : \A t \in snap[c].revoked : Denied(t)
  /\ \A c \in Calls : pc[c] \in {"revoke.read", "revoke.write"} => Denied(req[c].tok)

LEMMA ExpiredStable ==
  ASSUME TypeInv, [Next]_vars, NEW t \in Tokens, Expired(t, now)
  PROVE  Expired(t, now)'
  <1>1. pat[t] # Unminted
    BY DEF Expired, Unminted
  <1>2. pat[t].exp \in Nat /\ now \in Nat
    BY <1>1 DEF Expired, TypeInv, TypeOK, Pats
  <1>3. pat'[t] = pat[t] /\ now <= now' /\ now' \in Nat
    BY <1>1, PatStep
  <1>4. QED
    BY <1>2, <1>3 DEF Expired

LEMMA DeniedStable ==
  ASSUME SweepInv, [Next]_vars, NEW t \in Tokens, Denied(t)
  PROVE  Denied(t)'
  <1>1. TypeInv
    BY DEF SweepInv
  <1>2. CASE Expired(t, now)
    BY <1>1, <1>2, ExpiredStable DEF Denied
  <1>3. CASE t \in index.ids /\ t \notin index'.ids
    <2>1. PastGrace(t, now)
      BY <1>3, SweepStepSpares
    <2>2. pat[t] # Unminted
      BY <2>1 DEF PastGrace, Unminted
    <2>3. pat[t].exp \in Nat /\ now \in Nat /\ Grace \in Nat
      BY <1>1, <2>1, <2>2, NumberAssumption DEF PastGrace, TypeInv, TypeOK, Pats
    <2>4. Expired(t, now)
      BY <2>1, <2>3 DEF PastGrace, Expired
    <2>5. QED
      BY <1>1, <2>4, ExpiredStable DEF Denied
  <1>4. CASE t \in index'.ids
    BY <1>4 DEF Denied
  <1>5. QED
    BY <1>2, <1>3, <1>4 DEF Denied

\* A revoke comes to the record only when its PAT is in the index.
LEMMA MarkStep ==
  ASSUME TypeInv, [Next]_vars, NEW d \in Calls,
         pc'[d] \in {"revoke.read", "revoke.write"}
  PROVE  /\ req'[d] = req[d]
         /\ pc[d] \in {"revoke.read", "revoke.write"} \/ req[d].tok \in index'.ids
  <1> DEFINE G == /\ req'[d] = req[d]
                  /\ pc[d] \in {"revoke.read", "revoke.write"} \/ req[d].tok \in index'.ids
  <1>1. ASSUME NEW c \in Requests, Start(c) PROVE G
    BY <1>1
    DEF Start, StartAuth, StartRevoke, StartMint, Begin, Answer, Goto, TypeInv, TypeOK
  <1>2. ASSUME NEW c \in Requests, IndexRead(c) \/ IndexWrite(c) PROVE G
    BY <1>2
    DEF IndexRead, IndexWrite, Proceed, ReadIndex, Conflict, Return, Goto, WriteIndex,
        store, TypeInv, TypeOK, Calls
  <1>3. ASSUME NEW c \in Requests, Step(c), ~IndexRead(c), ~IndexWrite(c) PROVE G
    BY <1>3
    DEF Step, AddRead, AddWrite, AddOwner, RevokeGet, RevokeRead, RevokeWrite,
        AuthGet, TouchRead, TouchWrite, Return, Proceed, ReadEntry, Conflict,
        Authority, ReturnOrLose, Goto, TypeInv, TypeOK, Calls
  <1>4. ASSUME NEW c \in Sweeps, StartSweep(c) PROVE G
    BY <1>4 DEF StartSweep, Goto, TypeInv, TypeOK, Calls
  <1>5. ASSUME NEW c \in Sweeps, SweepStep(c) PROVE G
    BY <1>5
    DEF SweepStep, SweepList, SweepRead, SweepWrite, SweepOwner, SweepListed,
        PruneRead, PruneWrite, Return, Proceed, ReadIndex, Conflict, ReturnOrLose,
        Goto, TypeInv, TypeOK, Calls
  <1>6. CASE (\E c \in Calls : Fault(c)) \/ Tick \/ UNCHANGED vars
    BY <1>6 DEF Fault, Tick, vars, Return, TypeInv, TypeOK
  <1>7. QED
    BY <1>1, <1>2, <1>3, <1>4, <1>5, <1>6 DEF Next

LEMMA InitDenied == Init => DeniedInv
  BY DEF Init, DeniedInv, Absent

LEMMA NextDenied == SweepInv /\ DeniedInv /\ [Next]_vars => DeniedInv'
  <1> SUFFICES ASSUME SweepInv, DeniedInv, [Next]_vars PROVE DeniedInv'
    OBVIOUS
  <1>1. TypeInv /\ TypeInv'
    BY NextType DEF SweepInv
  <1>2. ASSUME NEW p \in Principals, NEW t \in entry'[p].revoked PROVE Denied(t)'
    <2>1. t \in Tokens
      BY <1>1 DEF TypeInv, TypeOK, Entries
    <2>2. CASE entry'[p] = entry[p] \/ entry'[p] = Absent
      BY <2>1, <2>2, DeniedStable DEF DeniedInv, Absent
    <2>3. ASSUME NEW c \in Calls, Added(p, c) \/ Marked(p, c) \/ Shrunk(p, c)
          PROVE  Denied(t)
      BY <2>3 DEF Added, Marked, Shrunk, DeniedInv
    <2>4. QED
      BY <1>1, <2>1, <2>2, <2>3, EntryStep, DeniedStable
  <1>3. ASSUME NEW c \in Calls, NEW t \in snap'[c].revoked PROVE Denied(t)'
    <2>1. t \in Tokens
      BY <1>1 DEF TypeInv, TypeOK, Entries
    <2>2. Denied(t)
      BY <1>1, <1>3, SnapStep DEF DeniedInv, Absent
    <2>3. QED
      BY <2>1, <2>2, DeniedStable
  <1>4. ASSUME NEW c \in Calls, pc'[c] \in {"revoke.read", "revoke.write"}
        PROVE  Denied(req[c].tok)'
    <2>1. /\ req'[c] = req[c]
          /\ pc[c] \in {"revoke.read", "revoke.write"} \/ req[c].tok \in index'.ids
      BY <1>1, <1>4, MarkStep
    <2>2. req'[c].tok \in Tokens
      BY <1>1, <1>4 DEF TypeInv, ArgsOK, RequestLabels
    <2>3. PICK t \in Tokens : t = req'[c].tok
      BY <2>2
    <2>4. Denied(t)'
      BY <2>1, <2>3, DeniedStable DEF Denied, DeniedInv
    <2>5. QED
      BY <2>3, <2>4 DEF Denied, Expired
  <1>5. QED
    BY <1>2, <1>3, <1>4 DEF DeniedInv

\* The revoked index never lags behind the records: what an entry shows as
\* revoked is in revoked-lookup-ids for as long as it could be presented,
\* even while sweeps prune that set and every call can fail half way.
THEOREM RevokedStaysIndexed == Spec => []RevokedIsIndexed
  <1>1. Init => SweepInv /\ DeniedInv
    BY InitSweep, InitDenied
  <1>2. SweepInv /\ DeniedInv /\ [Next]_vars => SweepInv' /\ DeniedInv'
    BY NextSweep, NextDenied
  <1>3. DeniedInv => RevokedIsIndexed
    BY DEF DeniedInv, Denied, RevokedIsIndexed
  <1>4. QED
    BY <1>1, <1>2, <1>3, PTL DEF Spec

-----------------------------------------------------------------------------
\* Names of live PATs stay unique.

Clean(e) ==
  /\ \A t \in e.has : pat[t] # Unminted
  /\ \A t \in e.has : ~Expired(t, now) /\ t \notin e.revoked => ~NameTaken(e, t, now)

\* Every picture of an entry is free of name clashes, and a mint about to
\* write has found its name free in the copy it will write from.
NamesInv ==
  /\ \A p \in Principals : Clean(entry[p])
  /\ \A c \in Calls : Clean(snap[c])
  /\ \A c \in Calls : pc[c] \in {"add.read", "add.write"} => pat[req[c].tok] # Unminted
  /\ \A c \in Calls : pc[c] = "add.write" => ~NameTaken(snap[c], req[c].tok, now)

\* Time and other people's mints only ever free a name.
LEMMA TakenStable ==
  ASSUME TypeInv, [Next]_vars, NEW e \in Entries, NEW t \in Tokens, NEW x \in Nat,
         \A u \in e.has : pat[u] # Unminted, pat[t] # Unminted,
         ~NameTaken(e, t, x), x <= now
  PROVE  ~NameTaken(e, t, now)'
  <1>1. pat'[t] = pat[t] /\ now <= now' /\ now' \in Nat /\ now \in Nat
    BY PatStep DEF TypeInv, TypeOK
  <1>2. ASSUME NEW u \in e.has, Collides(e, u, t, now)' PROVE Collides(e, u, t, x)
    <2>1. u \in Tokens /\ pat'[u] = pat[u]
      BY PatStep DEF Entries
    <2>2. pat[u].exp \in Nat \cup {None}
      BY <2>1 DEF TypeInv, TypeOK, Pats, Unminted
    <2>3. Expired(u, x) => Expired(u, now)'
      BY <1>1, <2>1, <2>2 DEF Expired
    <2>4. QED
      BY <1>1, <1>2, <2>1, <2>3 DEF Collides
  <1>3. QED
    BY <1>2 DEF NameTaken

LEMMA CleanStable ==
  ASSUME TypeInv, [Next]_vars, NEW e \in Entries, Clean(e)
  PROVE  Clean(e)'
  <1>1. now \in Nat
    BY DEF TypeInv, TypeOK
  <1>2. ASSUME NEW t \in e.has PROVE t \in Tokens /\ pat[t] # Unminted /\ pat'[t] = pat[t]
    BY PatStep DEF Clean, Entries
  <1>3. ASSUME NEW t \in e.has, ~Expired(t, now)', t \notin e.revoked
        PROVE  ~NameTaken(e, t, now)'
    <2>1. ~Expired(t, now)
      BY <1>2, <1>3, ExpiredStable
    <2>2. ~NameTaken(e, t, now)
      BY <1>3, <2>1 DEF Clean
    <2>3. QED
      BY <1>1, <1>2, <2>2, TakenStable
  <1>4. QED
    BY <1>2, <1>3 DEF Clean

LEMMA CleanSmaller ==
  ASSUME NEW e \in Entries, NEW f \in Entries, Clean(e),
         f.has \subseteq e.has, e.revoked \cap f.has \subseteq f.revoked
  PROVE  Clean(f)
  BY DEF Clean, NameTaken, Collides

LEMMA CleanLarger ==
  ASSUME NEW e \in Entries, NEW f \in Entries, NEW t \in Tokens, Clean(e),
         f.has = e.has \cup {t}, f.revoked = e.revoked,
         pat[t] # Unminted, ~NameTaken(e, t, now)
  PROVE  Clean(f)
  <1>1. \A u \in f.has : pat[u] # Unminted
    BY DEF Clean
  <1>2. ASSUME NEW u \in f.has, ~Expired(u, now), u \notin f.revoked, NameTaken(f, u, now)
        PROVE  FALSE
    <2>1. PICK v \in f.has : Collides(f, v, u, now)
      BY <1>2 DEF NameTaken
    <2>2. CASE u = t
      BY <2>1, <2>2 DEF NameTaken, Collides
    <2>3. CASE u # t /\ v = t
      BY <1>2, <2>1, <2>3 DEF NameTaken, Collides
    <2>4. CASE u # t /\ v # t
      BY <1>2, <2>1, <2>4 DEF NameTaken, Collides, Clean
    <2>5. QED
      BY <2>2, <2>3, <2>4
  <1>3. QED
    BY <1>1, <1>2 DEF Clean

\* A mint comes to its write only from a read that found the name free.
LEMMA MintStep ==
  ASSUME TypeInv, [Next]_vars, NEW d \in Calls, pc'[d] \in {"add.read", "add.write"}
  PROVE  /\ \/ pat'[req'[d].tok] # Unminted
            \/ pc[d] \in {"add.read", "add.write"} /\ req'[d] = req[d]
         /\ pc'[d] = "add.write" =>
              \/ pc[d] = "add.write" /\ snap'[d] = snap[d] /\ req'[d] = req[d]
              \/ /\ pc[d] = "add.read" /\ req'[d] = req[d]
                 /\ req[d].who \in Principals
                 /\ snap'[d] = entry[req[d].who]
                 /\ ~NameTaken(entry[req[d].who], req[d].tok, req[d].at)
  <1> DEFINE G ==
        /\ \/ pat'[req'[d].tok] # Unminted
           \/ pc[d] \in {"add.read", "add.write"} /\ req'[d] = req[d]
        /\ pc'[d] = "add.write" =>
             \/ pc[d] = "add.write" /\ snap'[d] = snap[d] /\ req'[d] = req[d]
             \/ /\ pc[d] = "add.read" /\ req'[d] = req[d]
                /\ req[d].who \in Principals
                /\ snap'[d] = entry[req[d].who]
                /\ ~NameTaken(entry[req[d].who], req[d].tok, req[d].at)
  <1>1. CASE pc'[d] = pc[d] /\ snap'[d] = snap[d] /\ req'[d] = req[d]
    BY <1>1
  <1>2. ASSUME NEW c \in Requests, NEW t \in Tokens, NEW p \in Principals, NEW n \in Names,
               NEW life \in Lifetimes \cup {None}, StartMint(c, p, t, n, life)
        PROVE  G
    <2>1. CASE d = c
      <3>1. req'[d].tok = t /\ pc'[d] = "add.read"
        BY <1>2, <2>1 DEF StartMint, Begin, Goto, TypeInv, TypeOK
      <3>2. pat'[t].owner = p
        BY <1>2 DEF StartMint, TypeInv, TypeOK
      <3>3. p # None
        BY NoneAssumption
      <3>4. QED
        BY <3>1, <3>2, <3>3 DEF Unminted
    <2>2. CASE d # c
      BY <1>1, <1>2, <2>2 DEF StartMint, Begin, Goto, TypeInv, TypeOK
    <2>3. QED
      BY <2>1, <2>2
  <1>3. ASSUME NEW c \in Requests, NEW t \in Tokens,
               StartAuth(c, t) \/ \E p \in Principals : StartRevoke(c, p, t)
        PROVE  G
    BY <1>1, <1>3 DEF StartAuth, StartRevoke, Begin, Answer, Goto, TypeInv, TypeOK
  <1>4. ASSUME NEW c \in Requests, AddRead(c) \/ AddWrite(c) PROVE G
    <2>1. CASE d # c
      BY <1>1, <1>4, <2>1
      DEF AddRead, AddWrite, Return, ReadEntry, Proceed, Conflict, Goto, TypeInv, TypeOK
    <2>2. CASE d = c
      BY <1>4, <2>2
      DEF AddRead, AddWrite, Return, ReadEntry, Proceed, Conflict, Goto, TypeInv, TypeOK,
          ArgsOK, RequestLabels
    <2>3. QED
      BY <2>1, <2>2
  <1>5. ASSUME NEW c \in Requests, Step(c), ~AddRead(c), ~AddWrite(c) PROVE G
    BY <1>1, <1>5
    DEF Step, AddOwner, RevokeGet, IndexRead, IndexWrite, RevokeRead, RevokeWrite,
        AuthGet, TouchRead, TouchWrite, Return, Proceed, ReadEntry, ReadIndex, Conflict,
        Authority, ReturnOrLose, Goto, TypeInv, TypeOK, Calls
  <1>6. ASSUME NEW c \in Sweeps, StartSweep(c) \/ SweepStep(c) PROVE G
    <2>1. CASE d # c
      BY <1>1, <1>6, <2>1
      DEF StartSweep, SweepStep, SweepList, SweepRead, SweepWrite, SweepOwner,
          SweepListed, PruneRead, PruneWrite, Return, Proceed, ReadIndex, Conflict,
          ReturnOrLose, Goto, TypeInv, TypeOK, Calls
    <2>2. CASE d = c
      BY <1>6, <2>2
      DEF StartSweep, SweepStep, SweepList, SweepRead, SweepWrite, SweepOwner,
          SweepListed, PruneRead, PruneWrite, Return, Proceed, ReadIndex, Conflict,
          ReturnOrLose, Goto, TypeInv, TypeOK, Calls
    <2>3. QED
      BY <2>1, <2>2
  <1>7. CASE (\E c \in Calls : Fault(c)) \/ Tick \/ UNCHANGED vars
    BY <1>1, <1>7 DEF Fault, Tick, vars, Return, TypeInv, TypeOK
  <1>8. ASSUME NEW c \in Requests, Start(c) PROVE G
    <2> HIDE DEF G
    <2>1. QED
      BY <1>2, <1>3, <1>8 DEF Start
  <1>9. ASSUME NEW c \in Requests, Step(c) PROVE G
    <2>1. CASE AddRead(c) \/ AddWrite(c)
      BY <1>4, <2>1
    <2>2. CASE ~AddRead(c) /\ ~AddWrite(c)
      BY <1>5, <1>9, <2>2
    <2>3. QED
      BY <2>1, <2>2
  <1>10. QED
    BY <1>6, <1>7, <1>8, <1>9 DEF Next

LEMMA InitNames == Init => NamesInv
  BY DEF Init, NamesInv, Clean, Absent

LEMMA NextNames == SweepInv /\ NamesInv /\ [Next]_vars => NamesInv'
  <1> SUFFICES ASSUME SweepInv, NamesInv, [Next]_vars PROVE NamesInv'
    OBVIOUS
  <1>1. TypeInv /\ TypeInv'
    BY NextType DEF SweepInv
  <1>2. now \in Nat
    BY <1>1 DEF TypeInv, TypeOK
  <1>3. /\ \A p \in Principals : entry[p] \in Entries /\ entry'[p] \in Entries
        /\ \A c \in Calls : snap[c] \in Entries
      BY <1>1 DEF TypeInv, TypeOK
  <1>a. Clean(Absent) /\ Absent \in Entries
    BY Blanks DEF Clean, Absent
  <1>b. ASSUME NEW e \in Entries, Clean(e) PROVE Clean(e)'
    BY <1>1, <1>b, CleanStable
  <1>4. ASSUME NEW p \in Principals PROVE Clean(entry[p])'
    <2>1. ASSUME NEW c \in Calls, Added(p, c) PROVE Clean(entry'[p])
      <3>1. /\ req[c].tok \in Tokens /\ pat[req[c].tok] # Unminted
            /\ ~NameTaken(snap[c], req[c].tok, now)
        BY <1>1, <2>1 DEF Added, NamesInv, TypeInv, ArgsOK, RequestLabels
      <3>2. QED
        BY <1>3, <2>1, <3>1, CleanLarger DEF Added, NamesInv
    <2>2. ASSUME NEW c \in Calls, Marked(p, c) \/ Shrunk(p, c) PROVE Clean(entry'[p])
      <3>1. entry'[p].has \subseteq snap[c].has
            /\ snap[c].revoked \cap entry'[p].has \subseteq entry'[p].revoked
        BY <2>2 DEF Marked, Shrunk
      <3>2. QED
        BY <1>3, <3>1, CleanSmaller DEF NamesInv
    <2>3. Clean(entry'[p])
      <3>1. CASE entry'[p] = entry[p] \/ entry'[p] = Absent
        BY <1>a, <3>1 DEF NamesInv
      <3>2. QED
        BY <1>1, <2>1, <2>2, <3>1, EntryStep
    <2>4. PICK e \in Entries : e = entry'[p]
      BY <1>3
    <2>5. Clean(e)'
      BY <1>b, <2>3, <2>4
    <2>6. QED
      BY <2>4, <2>5 DEF Clean, NameTaken, Collides, Expired
  <1>5. ASSUME NEW c \in Calls PROVE Clean(snap[c])'
    <2>1. PICK e \in Entries : e = snap'[c]
      BY <1>1, <1>3, <1>a, SnapStep
    <2>2. Clean(e)
      BY <1>1, <1>a, <2>1, SnapStep DEF NamesInv
    <2>3. Clean(e)'
      BY <1>b, <2>2
    <2>4. QED
      BY <2>1, <2>3 DEF Clean, NameTaken, Collides, Expired
  <1>6. ASSUME NEW c \in Calls, pc'[c] \in {"add.read", "add.write"}
        PROVE  pat'[req'[c].tok] # Unminted
    <2>1. req'[c].tok \in Tokens
      BY <1>1, <1>6 DEF TypeInv, ArgsOK, RequestLabels
    <2>2. QED
      BY <1>1, <1>6, <2>1, MintStep, PatStep DEF NamesInv
  <1>7. ASSUME NEW c \in Calls, pc'[c] = "add.write"
        PROVE  ~NameTaken(snap[c], req[c].tok, now)'
    <2>t. PICK t : t = req[c].tok
      OBVIOUS
    <2>1. \/ pc[c] = "add.write" /\ snap'[c] = snap[c] /\ req'[c] = req[c]
          \/ /\ pc[c] = "add.read" /\ req'[c] = req[c]
             /\ req[c].who \in Principals
             /\ snap'[c] = entry[req[c].who]
             /\ ~NameTaken(entry[req[c].who], t, req[c].at)
      BY <1>1, <1>7, <2>t, MintStep
    <2>2. t \in Tokens /\ pat[t] # Unminted
      BY <1>1, <2>t, <2>1 DEF TypeInv, ArgsOK, RequestLabels, NamesInv
    <2>3. req[c].at \in Nat /\ req[c].at <= now
      BY <1>1 DEF SweepInv, PruneInv, TypeInv, TypeOK, Reqs
    <2>4. PICK e \in Entries : e = snap'[c]
      BY <1>3, <2>1
    <2>5. \A u \in e.has : pat[u] # Unminted
      BY <2>1, <2>4 DEF NamesInv, Clean
    <2>6. \E x \in Nat : x <= now /\ ~NameTaken(e, t, x)
      <3>1. CASE pc[c] = "add.write" /\ snap'[c] = snap[c]
        BY <1>2, <2>t, <2>4, <3>1 DEF NamesInv
      <3>2. CASE ~NameTaken(snap'[c], t, req[c].at)
        BY <2>3, <2>4, <3>2
      <3>3. QED
        BY <2>1, <3>1, <3>2
    <2>7. ~NameTaken(e, t, now)'
      BY <1>1, <2>2, <2>5, <2>6, TakenStable
    <2>8. req'[c].tok = t
      BY <2>t, <2>1
    <2>9. QED
      BY <2>4, <2>7, <2>8 DEF NameTaken, Collides, Expired
  <1>8. QED
    BY <1>4, <1>5, <1>6, <1>7 DEF NamesInv

\* No two live PATs of one principal ever carry the same name: add() checks
\* and writes in two round trips, and nothing another call does in between
\* can make it write what it did not check.
THEOREM NamesStayUnique == Spec => []LiveNamesUnique
  <1>1. Init => SweepInv /\ NamesInv
    BY InitSweep, InitNames
  <1>2. SweepInv /\ NamesInv /\ [Next]_vars => SweepInv' /\ NamesInv'
    BY NextSweep, NextNames
  <1>3. NamesInv => LiveNamesUnique
    BY DEF NamesInv, Clean, LiveNamesUnique
  <1>4. QED
    BY <1>1, <1>2, <1>3, PTL DEF Spec

-----------------------------------------------------------------------------
\* What holds of every call and every entry, sweeps or not.

\* A call has started before it does anything and is over once it has an
\* answer; where it is suspended and what it answered tell what it was asked.
AskInv ==
  \A c \in Calls :
    /\ pc[c] = "idle" => req[c].op = "none"
    /\ pc[c] # "done" => res[c] = "none"
    /\ pc[c] \in Minting \/ res[c] = "minted" => req[c].op = "mint"
    /\ pc[c] \in Revoking \/ res[c] = "revoked" => req[c].op = "revoke"
    /\ pc[c] \in Presenting \/ res[c] = "principal" => req[c].op = "auth"
    /\ req[c].op \in {"mint", "revoke", "auth"} => c \in Requests /\ req[c].tok \in Tokens

\* Whoever the entries, the copies, the owner index and the calls name as
\* the owner of a PAT is the one it was minted for.
OwnedInv ==
  /\ \A t \in Tokens : owner[t] \in {None, pat[t].owner}
  /\ \A p \in Principals : \A t \in entry[p].has : pat[t].owner = p
  /\ \A c \in Calls : pc[c] \in Writing => \A t \in snap[c].has : pat[t].owner = Place(c)
  /\ \A c \in Calls :
       pc[c] \in RequestLabels \/ req[c].op = "mint" \/ res[c] = "revoked"
         => req[c].who \in Principals /\ pat[req[c].tok].owner = req[c].who

\* Each PAT has one mint; until that is over nobody can find the PAT, and
\* until its write no entry and no copy holds it.
MintInv ==
  /\ \A c, d \in Calls :
       req[c].op = "mint" /\ req[d].op = "mint" /\ req[c].tok = req[d].tok => c = d
  /\ \A c \in Calls : pc[c] \in Minting => owner[req[c].tok] = None
  /\ \A c \in Calls : pc[c] \in {"add.read", "add.write"} =>
       /\ \A p \in Principals : req[c].tok \notin entry[p].has
       /\ \A d \in Calls : pc[d] \in Writing => req[c].tok \notin snap[d].has
  /\ \A c, d \in Calls :
       (pc[c] \in Revoking \/ res[c] = "revoked") /\ pc[d] \in Minting => req[c].tok # req[d].tok

\* Only records are ever marked as revoked.
SubInv ==
  /\ \A p \in Principals : entry[p].revoked \subseteq entry[p].has
  /\ \A c \in Calls : snap[c].revoked \subseteq snap[c].has
  /\ \A c \in Calls : pc[c] = "revoke.write" => req[c].tok \in snap[c].has

LEMMA InitAsk == Init => AskInv
  BY DEF Init, AskInv, NoReq, Minting, Revoking, Presenting

LEMMA NextAsk == TypeInv /\ AskInv /\ [Next]_vars => AskInv'
  <1> SUFFICES ASSUME TypeInv, AskInv, [Next]_vars, NEW c \in Calls
               PROVE  (/\ pc[c] = "idle" => req[c].op = "none"
                       /\ pc[c] # "done" => res[c] = "none"
                       /\ pc[c] \in Minting \/ res[c] = "minted" => req[c].op = "mint"
                       /\ pc[c] \in Revoking \/ res[c] = "revoked" => req[c].op = "revoke"
                       /\ pc[c] \in Presenting \/ res[c] = "principal" => req[c].op = "auth"
                       /\ req[c].op \in {"mint", "revoke", "auth"}
                            => c \in Requests /\ req[c].tok \in Tokens)'
    BY DEF AskInv
  <1> USE DEF Minting, Revoking, Presenting
  <1>1. CASE pc'[c] = "idle"
    BY <1>1, CallStep DEF AskInv
  <1>2. CASE pc[c] = "idle" /\ pc'[c] # "idle"
    <2>1. res[c] = "none"
      BY <1>2 DEF AskInv
    <2>2. QED
      BY <1>2, <2>1, BeginStep DEF Mints, Revokes, Presents, Asked
  <1>3. CASE pc[c] # "idle"
    BY <1>3, CallStep, WorkStep DEF AskInv
  <1>4. QED
    BY <1>1, <1>2, <1>3

LEMMA InitOwned == Init => OwnedInv
  BY DEF Init, OwnedInv, NoReq, Absent, Unminted, Writing, RequestLabels

\* A record that is somebody's stays theirs.
LEMMA OwnerStable ==
  ASSUME TypeInv, [Next]_vars, NEW t \in Tokens, pat[t].owner # None
  PROVE  pat'[t] = pat[t]
  BY PatStep DEF Unminted

LEMMA NextOwned == TypeInv /\ AskInv /\ OwnedInv /\ [Next]_vars => OwnedInv'
  <1> SUFFICES ASSUME TypeInv, AskInv, OwnedInv, [Next]_vars PROVE OwnedInv'
    OBVIOUS
  <1>t. TypeInv' /\ None \notin Principals
    BY NextType, NoneAssumption
  <1>s. ASSUME NEW t \in Tokens, NEW p \in Principals, pat[t].owner = p
        PROVE  pat'[t] = pat[t]
    BY <1>s, <1>t, OwnerStable
  <1>1. ASSUME NEW t \in Tokens PROVE owner'[t] \in {None, pat'[t].owner}
    <2>1. CASE owner'[t] = None
      BY <2>1
    <2>2. CASE owner'[t] = owner[t] /\ owner[t] # None
      <3>1. owner[t] \in Principals /\ pat[t].owner = owner[t]
        BY <2>2 DEF OwnedInv, TypeInv, TypeOK
      <3>2. QED
        BY <2>2, <3>1, <1>s
    <2>3. CASE owner'[t] # owner[t] /\ owner'[t] # None
      <3>1. PICK c \in Requests : pc[c] = "add.owner" /\ req[c].tok = t /\ owner'[t] = req[c].who
        BY <2>3, OwnerWritten
      <3>2. req[c].who \in Principals /\ pat[t].owner = req[c].who
        BY <3>1 DEF OwnedInv, Calls, RequestLabels
      <3>3. QED
        BY <3>1, <3>2, <1>s
    <2>4. QED
      BY <2>1, <2>2, <2>3
  <1>2. ASSUME NEW p \in Principals, NEW t \in entry'[p].has PROVE pat'[t].owner = p
    <2>t. t \in Tokens
      BY <1>t DEF TypeInv, TypeOK, Entries
    <2>1. pat[t].owner = p
      <3>1. CASE t \in entry[p].has
        BY <3>1 DEF OwnedInv
      <3>2. CASE t \notin entry[p].has
        <4>1. PICK c \in Calls : Wrote(c) /\ Place(c) \in Principals
          BY <3>2, WriteStep
        <4>2. p = Place(c) /\ (t \in snap[c].has \/ (pc[c] = "add.write" /\ t = req[c].tok))
          BY <3>2, <4>1 DEF Wrote, Written, Absent, TypeInv, TypeOK
        <4>3. QED
          BY <4>1, <4>2 DEF OwnedInv, Writing, Wrote, Place, RequestLabels
      <3>3. QED
        BY <3>1, <3>2
    <2>2. QED
      BY <2>t, <2>1, <1>s
  <1>3. ASSUME NEW c \in Calls, pc'[c] \in Writing, NEW t \in snap'[c].has
        PROVE  pat'[t].owner = Place(c)'
    <2>t. t \in Tokens
      BY <1>t DEF TypeInv, TypeOK, Entries
    <2>1. Place(c)' \in Principals
      BY <1>t, <1>3 DEF Place, TypeInv, ArgsOK, RequestLabels, Writing
    <2>2. pat[t].owner = Place(c)'
      BY <1>3, <2>1, CopyStep DEF OwnedInv
    <2>3. QED
      BY <2>t, <2>1, <2>2, <1>s
  <1>4. ASSUME NEW c \in Calls,
               (pc[c] \in RequestLabels \/ req[c].op = "mint" \/ res[c] = "revoked")'
        PROVE  req'[c].who \in Principals /\ pat'[req'[c].tok].owner = req'[c].who
    <2>1. CASE pc[c] = "idle" /\ pc'[c] # "idle"
      <3>0. res[c] = "none"
        BY <2>1 DEF AskInv
      <3>1. c \in Requests /\ \E t \in Tokens :
              \/ Presents(c, t) /\ owner[t] # None
              \/ \E p \in Principals : Mints(c, p, t) \/ (Revokes(c, p, t) /\ owner[t] = p)
        BY <1>4, <2>1, <3>0, BeginStep DEF RequestLabels, Mints, Revokes, Presents, Asked
      <3>2. PICK t \in Tokens :
              \/ Presents(c, t) /\ owner[t] # None
              \/ \E p \in Principals : Mints(c, p, t) \/ (Revokes(c, p, t) /\ owner[t] = p)
        BY <3>1
      <3>3. CASE owner[t] # None /\ req'[c].tok = t /\ req'[c].who = owner[t]
        <4>1. owner[t] \in Principals /\ pat[t].owner = owner[t]
          BY <3>3 DEF OwnedInv, TypeInv, TypeOK
        <4>2. QED
          BY <3>3, <4>1, <1>s
      <3>4. QED
        BY <1>t, <3>2, <3>3 DEF Mints, Revokes, Presents, Asked
    <2>2. CASE pc'[c] = "idle" \/ pc[c] # "idle"
      <3>1. req'[c] = req[c]
        BY <2>2, CallStep
      <3>2. pc[c] \in RequestLabels \/ req[c].op = "mint" \/ res[c] = "revoked"
        BY <1>4, <2>2, <3>1, CallStep, WorkStep
        DEF AskInv, RequestLabels, Minting, Revoking, Presenting
      <3>3. req[c].tok \in Tokens
        BY <3>2 DEF AskInv, RequestLabels, Minting, Revoking, Presenting
      <3>4. QED
        BY <3>1, <3>2, <3>3, <1>s DEF OwnedInv
    <2>3. QED
      BY <2>1, <2>2
  <1>5. QED
    BY <1>1, <1>2, <1>3, <1>4 DEF OwnedInv

LEMMA InitMint == Init => MintInv
  BY DEF Init, MintInv, NoReq, Absent, Minting, Revoking, Writing

LEMMA NextMint == TypeInv /\ AskInv /\ OwnedInv /\ MintInv /\ [Next]_vars => MintInv'
  <1> SUFFICES ASSUME TypeInv, AskInv, OwnedInv, MintInv, [Next]_vars PROVE MintInv'
    OBVIOUS
  <1>t. TypeInv' /\ AskInv' /\ None \notin Principals
    BY NextType, NextAsk, NoneAssumption
  <1>u. ASSUME NEW c \in Calls, req[c].op = "mint" \/ pc[c] \in Revoking \/ res[c] = "revoked"
        PROVE  pat[req[c].tok] # Unminted
    BY <1>t, <1>u DEF OwnedInv, Revoking, RequestLabels, Unminted
  <1>1. ASSUME NEW c \in Calls, NEW d \in Calls,
               req'[c].op = "mint", req'[d].op = "mint", req'[c].tok = req'[d].tok, c # d
        PROVE  FALSE
    <2>1. ASSUME NEW a \in Calls, NEW b \in Calls, a # b, req'[a].op = "mint", req'[b].op = "mint",
                 req'[a].tok = req'[b].tok, req'[a] # req[a]
          PROVE  FALSE
      <3>1. pc[a] = "idle" /\ pc'[a] # "idle"
        BY <2>1, CallStep
      <3>2. req'[b] = req[b] /\ \E p \in Principals, t \in Tokens : Mints(a, p, t)
        BY <2>1, <3>1, BeginStep DEF Revokes, Presents, Asked
      <3>3. QED
        BY <1>u, <2>1, <3>2 DEF Mints, Asked
    <2>2. req'[c] = req[c] /\ req'[d] = req[d]
      BY <1>1, <2>1
    <2>3. QED
      BY <1>1, <2>2 DEF MintInv
  <1>b. ASSUME NEW c \in Calls, pc[c] = "idle", pc'[c] \in Minting
        PROVE  /\ UNCHANGED <<entry, owner>> /\ pat[req'[c].tok] = Unminted /\ req'[c].tok \in Tokens
               /\ \A d \in Calls \ {c} : req'[d] = req[d] /\ pc'[d] = pc[d] /\ res'[d] = res[d]
    BY <1>b, BeginStep DEF Mints, Revokes, Presents, Asked, Minting
  <1>2. ASSUME NEW c \in Calls, pc'[c] \in Minting, owner'[req'[c].tok] # None PROVE FALSE
    <2>1. CASE pc[c] = "idle"
      <3>1. owner[req'[c].tok] = None
        BY <1>2, <1>b, <2>1 DEF OwnedInv, Unminted
      <3>2. QED
        BY <1>2, <1>b, <2>1, <3>1
    <2>2. CASE pc[c] # "idle"
      <3>1. /\ pc[c] \in Minting /\ req'[c] = req[c] /\ req[c].op = "mint"
            /\ owner[req[c].tok] = None /\ req[c].tok \in Tokens
        BY <1>2, <2>2, CallStep, WorkStep DEF MintInv, AskInv
      <3>2. PICK d \in Requests : /\ pc[d] = "add.owner" /\ req[d].tok = req[c].tok
                                  /\ res'[d] \in {"minted", "error"}
        BY <1>2, <3>1, OwnerWritten
      <3>3. d = c
        BY <3>1, <3>2 DEF MintInv, AskInv, Calls, Minting
      <3>4. QED
        BY <1>t, <1>2, <3>2, <3>3 DEF AskInv, Minting
    <2>3. QED
      BY <2>1, <2>2
  <1>3. ASSUME NEW c \in Calls, pc'[c] \in {"add.read", "add.write"}
        PROVE  /\ \A p \in Principals : req'[c].tok \notin entry'[p].has
               /\ \A d \in Calls : pc'[d] \in Writing => req'[c].tok \notin snap'[d].has
    <2> DEFINE t == req'[c].tok
    <2>1. /\ \A p \in Principals : t \notin entry[p].has
          /\ \A d \in Calls : pc[d] \in Writing => t \notin snap[d].has
      <3>1. CASE pc[c] = "idle"
        <4>1. pat[t].owner = None
          BY <1>3, <1>b, <3>1 DEF Minting, Unminted
        <4>2. QED
          BY <4>1, <1>t DEF OwnedInv, Place, TypeInv, ArgsOK, Writing, RequestLabels
      <3>2. CASE pc[c] # "idle"
        BY <1>3, <3>2, CallStep, WorkStep DEF MintInv
      <3>3. QED
        BY <3>1, <3>2
    <2>2. ASSUME NEW p \in Principals, t \in entry'[p].has PROVE FALSE
      <3>1. PICK d \in Calls : Wrote(d) /\ Place(d) \in Principals
        BY <2>1, <2>2, WriteStep
      <3>2. pc[d] = "add.write" /\ t = req[d].tok /\ pc'[d] = "add.owner"
        BY <2>1, <2>2, <3>1 DEF Wrote, Written, Absent, TypeInv, TypeOK, Writing
      <3>3. req[d].op = "mint" /\ req'[d].op = "mint" /\ req'[d].tok = t
        BY <3>2, CallStep DEF AskInv, Minting
      <3>4. req'[c].op = "mint"
        BY <1>t, <1>3 DEF AskInv, Minting
      <3>5. d = c
        BY <1>1, <3>3, <3>4
      <3>6. QED
        BY <1>3, <3>2, <3>5
    <2>3. ASSUME NEW d \in Calls, pc'[d] \in Writing PROVE t \notin snap'[d].has
      BY <2>1, <2>3, CopyStep
    <2>4. QED
      BY <2>2, <2>3
  <1>4. ASSUME NEW c \in Calls, NEW d \in Calls, pc'[c] \in Revoking \/ res'[c] = "revoked",
               pc'[d] \in Minting, req'[c].tok = req'[d].tok
        PROVE  FALSE
    <2>1. c # d
      BY <1>t, <1>4 DEF AskInv, Minting, Revoking
    <2>2. CASE pc[c] = "idle"
      <3>1. req'[d] = req[d] /\ pc'[d] = pc[d] /\ \E p \in Principals, t \in Tokens :
              Asked(c, "revoke", p, t) /\ owner[t] = p
        <4>1. res[c] = "none" /\ pc'[c] # "idle"
          BY <2>2, <1>t, <1>4 DEF AskInv, Revoking
        <4>2. QED
          BY <1>4, <2>1, <2>2, <4>1, BeginStep DEF Mints, Revokes, Presents, Revoking, Asked
      <3>2. QED
        BY <1>t, <1>4, <3>1 DEF MintInv, Asked
    <2>3. CASE pc[c] # "idle"
      <3>1. /\ req'[c] = req[c]
            /\ pc[c] \in Revoking \/ res[c] = "revoked"
        BY <1>4, <2>3, CallStep, WorkStep DEF Revoking
      <3>2. CASE pc[d] = "idle"
        BY <1>4, <1>b, <1>u, <3>1, <3>2
      <3>3. CASE pc[d] # "idle"
        BY <1>4, <3>1, <3>3, CallStep, WorkStep DEF MintInv
      <3>4. QED
        BY <3>2, <3>3
    <2>4. QED
      BY <2>2, <2>3
  <1>5. QED
    BY <1>1, <1>2, <1>3, <1>4 DEF MintInv

LEMMA InitSub == Init => SubInv
  BY DEF Init, SubInv, Absent

LEMMA NextSub == TypeInv /\ SubInv /\ [Next]_vars => SubInv'
  <1> SUFFICES ASSUME TypeInv, SubInv, [Next]_vars PROVE SubInv'
    OBVIOUS
  <1>1. ASSUME NEW p \in Principals PROVE entry'[p].revoked \subseteq entry'[p].has
    <2>1. CASE entry' # entry
      <3>1. PICK c \in Calls : Wrote(c) /\ Place(c) \in Principals
        BY <2>1, WriteStep
      <3>2. snap[c].revoked \subseteq snap[c].has /\ (pc[c] = "revoke.write" => req[c].tok \in snap[c].has)
        BY DEF SubInv
      <3>3. QED
        BY <3>1, <3>2 DEF Wrote, Written, Absent, TypeInv, TypeOK, SubInv
    <2>2. QED
      BY <2>1 DEF SubInv
  <1>2. ASSUME NEW c \in Calls PROVE snap'[c].revoked \subseteq snap'[c].has
    BY SnapStep DEF SubInv, Absent
  <1>3. ASSUME NEW c \in Calls, pc'[c] = "revoke.write" PROVE req'[c].tok \in snap'[c].has
    BY <1>3, CopyStep DEF SubInv, Writing
  <1>4. QED
    BY <1>1, <1>2, <1>3 DEF SubInv

\* The conjunction that the rest builds on.
CallInv == SweepInv /\ AskInv /\ OwnedInv /\ MintInv /\ SubInv

LEMMA InitCall == Init => CallInv
  BY InitSweep, InitAsk, InitOwned, InitMint, InitSub DEF CallInv

LEMMA NextCall == CallInv /\ [Next]_vars => CallInv'
  BY NextSweep, NextAsk, NextOwned, NextMint, NextSub DEF CallInv, SweepInv

-----------------------------------------------------------------------------
\* Records without an owner index entry.

\* Why a record may be without one.
Accounted(t) ==
  \/ owner[t] = pat[t].owner
  \/ Expired(t, now)
  \/ \E c \in Requests :
       req[c].op = "mint" /\ req[c].tok = t /\ (pc[c] = "add.owner" \/ res[c] = "error")

\* A write puts back only records that are accounted for.
AccountedInv ==
  /\ \A p \in Principals : \A t \in entry[p].has : Accounted(t)
  /\ \A c \in Calls : pc[c] \in Writing => \A t \in snap[c].has : Accounted(t)

LEMMA AccountedStable ==
  ASSUME CallInv, CallInv', [Next]_vars, NEW t \in Tokens, pat[t].owner \in Principals, Accounted(t)
  PROVE  Accounted(t)'
  <1>0. TypeInv /\ SweepInv /\ pat'[t] = pat[t] /\ None \notin Principals
        /\ pat[t].owner # None /\ pat[t] # Unminted
    BY NoneAssumption, OwnerStable DEF CallInv, SweepInv, Unminted
  <1>1. CASE owner[t] = pat[t].owner
    <2>1. CASE owner'[t] # None
      BY <1>0, <2>1 DEF CallInv, OwnedInv, Accounted
    <2>2. CASE owner'[t] = None
      <3>1. PastGrace(t, now)
        BY <1>0, <1>1, <2>2, OwnerStep DEF SweepInv, PruneInv
      <3>2. pat[t].exp \in Nat /\ now \in Nat /\ Grace \in Nat
        BY <1>0, <3>1, NumberAssumption DEF PastGrace, TypeInv, TypeOK, Pats
      <3>3. Expired(t, now)
        BY <3>1, <3>2 DEF PastGrace, Expired
      <3>4. QED
        BY <1>0, <3>3, ExpiredStable DEF Accounted
    <2>3. QED
      BY <2>1, <2>2
  <1>2. CASE Expired(t, now)
    BY <1>0, <1>2, ExpiredStable DEF Accounted
  <1>3. ASSUME NEW c \in Requests, req[c].op = "mint", req[c].tok = t,
               pc[c] = "add.owner" \/ res[c] = "error"
        PROVE  Accounted(t)'
    <2>0. c \in Calls /\ pc[c] # "idle" /\ req'[c] = req[c]
      BY <1>0, <1>3, CallStep DEF CallInv, AskInv, Calls
    <2>1. CASE res[c] = "error"
      <3>1. res'[c] = "error"
        BY <1>0, <2>0, <2>1, CallStep DEF CallInv, AskInv
      <3>2. QED
        BY <1>3, <2>0, <3>1 DEF Accounted
    <2>2. CASE pc[c] = "add.owner"
      <3>1. pc'[c] = "add.owner" \/ res'[c] = "error" \/ owner'[t] # None
        BY <1>0, <1>3, <2>0, <2>2, MintEnds
      <3>2. owner'[t] \in {None, pat'[t].owner}
        BY DEF CallInv, OwnedInv
      <3>3. QED
        BY <1>3, <2>0, <3>1, <3>2 DEF Accounted
    <2>3. QED
      BY <1>3, <2>1, <2>2
  <1>4. QED
    BY <1>1, <1>2, <1>3 DEF Accounted

LEMMA InitAccounted == Init => AccountedInv
  BY DEF Init, AccountedInv, Absent, Writing

LEMMA NextAccounted == CallInv /\ AccountedInv /\ [Next]_vars => AccountedInv'
  <1> SUFFICES ASSUME CallInv, AccountedInv, [Next]_vars PROVE AccountedInv'
    OBVIOUS
  <1>0. CallInv' /\ TypeInv /\ TypeInv'
    BY NextCall DEF CallInv, SweepInv
  <1>1. ASSUME NEW p \in Principals, NEW t \in entry'[p].has PROVE Accounted(t)'
    <2>t. t \in Tokens
      BY <1>0 DEF TypeInv, TypeOK, Entries
    <2>1. CASE t \in entry[p].has
      BY <1>0, <2>t, <2>1, AccountedStable DEF AccountedInv, CallInv, OwnedInv
    <2>2. CASE t \notin entry[p].has
      <3>1. PICK c \in Calls : Wrote(c) /\ Place(c) \in Principals
        BY <1>0, <2>2, WriteStep
      <3>2. \/ pc[c] \in Writing /\ t \in snap[c].has
            \/ c \in Requests /\ pc[c] = "add.write" /\ t = req[c].tok /\ pc'[c] = "add.owner"
        BY <1>0, <2>2, <3>1 DEF Wrote, Written, Absent, TypeInv, TypeOK, Writing
      <3>3. CASE pc[c] \in Writing /\ t \in snap[c].has
        BY <1>0, <2>t, <3>1, <3>3, AccountedStable DEF AccountedInv, CallInv, OwnedInv
      <3>4. CASE c \in Requests /\ pc[c] = "add.write" /\ t = req[c].tok /\ pc'[c] = "add.owner"
        <4>1. req'[c] = req[c] /\ req'[c].op = "mint"
          BY <1>0, <3>4, CallStep DEF CallInv, AskInv, Minting
        <4>2. QED
          BY <3>4, <4>1 DEF Accounted
      <3>5. QED
        BY <3>2, <3>3, <3>4
    <2>3. QED
      BY <2>1, <2>2
  <1>2. ASSUME NEW c \in Calls, pc'[c] \in Writing, NEW t \in snap'[c].has PROVE Accounted(t)'
    <2>t. t \in Tokens
      BY <1>0 DEF TypeInv, TypeOK, Entries
    <2>1. CASE pc'[c] = pc[c] /\ snap'[c] = snap[c] /\ Place(c)' = Place(c)
      <3>1. Place(c) \in Principals
        BY <1>0, <1>2, <2>1 DEF Place, TypeInv, ArgsOK, Writing, RequestLabels
      <3>2. Accounted(t) /\ pat[t].owner \in Principals
        BY <1>2, <2>1, <3>1 DEF AccountedInv, CallInv, OwnedInv
      <3>3. QED
        BY <1>0, <2>t, <3>2, AccountedStable
    <2>2. CASE snap'[c] = entry[Place(c)'] /\ Place(c)' \in Principals
      <3>1. Accounted(t) /\ pat[t].owner \in Principals
        BY <1>2, <2>2 DEF AccountedInv, CallInv, OwnedInv
      <3>2. QED
        BY <1>0, <2>t, <3>1, AccountedStable
    <2>3. QED
      BY <1>0, <1>2, <2>1, <2>2, CopyStep
  <1>3. QED
    BY <1>1, <1>2 DEF AccountedInv

\* A record that can be neither presented nor revoked, for want of an owner
\* index entry, comes only from a mint that is under way or has failed, or
\* has expired and is being swept.
THEOREM OrphansOnlyFromMints == Spec => []OrphanOnlyFromMint
  <1>1. Init => CallInv /\ AccountedInv
    BY InitCall, InitAccounted
  <1>2. CallInv /\ AccountedInv /\ [Next]_vars => CallInv' /\ AccountedInv'
    BY NextCall, NextAccounted
  <1>3. CallInv /\ AccountedInv => OrphanOnlyFromMint
    BY DEF CallInv, OwnedInv, AccountedInv, Accounted, OrphanOnlyFromMint
  <1>4. QED
    BY <1>1, <1>2, <1>3, PTL DEF Spec

-----------------------------------------------------------------------------
\* Who puts a PAT into the revoked index.

AskedByOwner(t) ==
  /\ pat[t] # Unminted
  /\ \E c \in Requests : req[c].op = "revoke" /\ req[c].tok = t /\ req[c].who = pat[t].owner

\* A sweep writes back only what was there, so the copies count too.
DenierInv ==
  /\ \A t \in index.ids : AskedByOwner(t)
  /\ \A c \in Calls : \A t \in isnap[c].ids : AskedByOwner(t)

LEMMA InitDenier == Init => DenierInv
  BY DEF Init, DenierInv, NoIndex

LEMMA NextDenier == CallInv /\ DenierInv /\ [Next]_vars => DenierInv'
  <1> SUFFICES ASSUME CallInv, DenierInv, [Next]_vars PROVE DenierInv'
    OBVIOUS
  <1>0. TypeInv /\ TypeInv' /\ AskInv
    BY NextCall DEF CallInv, SweepInv
  <1>1. ASSUME NEW t \in Tokens, AskedByOwner(t) PROVE AskedByOwner(t)'
    <2>1. pat'[t] = pat[t]
      BY <1>0, <1>1, PatStep DEF AskedByOwner
    <2>2. PICK c \in Requests : req[c].op = "revoke" /\ req[c].tok = t /\ req[c].who = pat[t].owner
      BY <1>1 DEF AskedByOwner
    <2>3. req'[c] = req[c]
      BY <1>0, <2>2, CallStep DEF AskInv, Calls
    <2>4. QED
      BY <1>1, <2>1, <2>2, <2>3 DEF AskedByOwner
  <1>2. ASSUME NEW c \in Calls, NEW t \in isnap'[c].ids PROVE AskedByOwner(t)'
    <2>1. t \in Tokens
      BY <1>0 DEF TypeInv, TypeOK, Indexes
    <2>2. AskedByOwner(t)
      BY <1>0, <1>2, IsnapStep DEF DenierInv, NoIndex
    <2>3. QED
      BY <1>1, <2>1, <2>2
  <1>3. ASSUME NEW t \in index'.ids PROVE AskedByOwner(t)'
    <2>1. t \in Tokens
      BY <1>0 DEF TypeInv, TypeOK, Indexes
    <2>2. AskedByOwner(t)
      <3>1. CASE t \in index.ids
        BY <3>1 DEF DenierInv
      <3>2. CASE t \notin index.ids
        <4>1. PICK c \in Calls : \/ t \in isnap[c].ids
                                 \/ c \in Requests /\ pc[c] = "index.write" /\ t = req[c].tok
          BY <1>0, <3>2, DenyStep
        <4>2. CASE t \in isnap[c].ids
          BY <4>2 DEF DenierInv
        <4>3. CASE c \in Requests /\ pc[c] = "index.write" /\ t = req[c].tok
          <5>1. req[c].op = "revoke" /\ req[c].who \in Principals /\ pat[t].owner = req[c].who
            BY <1>0, <4>3 DEF AskInv, Revoking, CallInv, OwnedInv, RequestLabels
          <5>2. pat[t] # Unminted
            BY <5>1, NoneAssumption DEF Unminted
          <5>3. QED
            BY <4>3, <5>1, <5>2 DEF AskedByOwner
        <4>4. QED
          BY <4>1, <4>2, <4>3
      <3>3. QED
        BY <3>1, <3>2
    <2>3. QED
      BY <1>1, <2>1, <2>2
  <1>4. QED
    BY <1>2, <1>3 DEF DenierInv

\* Only the owner of a PAT can put it into the revoked index.
THEOREM OnlyOwnersDeny == Spec => []OnlyOwnerDenies
  <1>1. Init => CallInv /\ DenierInv
    BY InitCall, InitDenier
  <1>2. CallInv /\ DenierInv /\ [Next]_vars => CallInv' /\ DenierInv'
    BY NextCall, NextDenier
  <1>3. DenierInv => OnlyOwnerDenies
    BY DEF DenierInv, AskedByOwner, OnlyOwnerDenies
  <1>4. QED
    BY <1>1, <1>2, <1>3, PTL DEF Spec

-----------------------------------------------------------------------------
\* What check-and-set is worth, as long as no entry is destroyed under it.

\* No entry is destroyed: what has a version keeps one.  A sweep that finds
\* every record of an entry dead destroys it and its version count, and the
\* next mint starts again from version 1: a copy from before may then pass
\* for current.  That is what breaks the properties below in the run
\* registry_lost_mint, and nothing else does.
Survive == \A p \in Principals : entry[p].ver # 0 => entry'[p].ver # 0
NoEntryDestroyed == [][Survive]_entry

\* Check-and-set: a copy with the current version is the current entry.
CasInv ==
  /\ \A p \in Principals : entry[p].ver = 0 => entry[p] = Absent
  /\ \A c \in Calls : pc[c] \in Writing =>
       /\ snap[c].ver <= entry[Place(c)].ver
       /\ snap[c].ver = entry[Place(c)].ver => snap[c] = entry[Place(c)]

\* A write that lands makes its change to the entry as it is.
LEMMA MoveStep ==
  ASSUME TypeInv, CasInv, [Next]_vars, Survive \/ UNCHANGED entry, NEW p \in Principals
  PROVE  \/ entry'[p] = entry[p]
         \/ /\ entry'[p].ver = entry[p].ver + 1
            /\ \E c \in Calls :
                 \/ /\ c \in Requests /\ pc[c] = "add.write" /\ pc'[c] = "add.owner"
                    /\ entry'[p].has = entry[p].has \cup {req[c].tok}
                    /\ entry'[p].revoked = entry[p].revoked
                 \/ /\ c \in Requests /\ pc[c] = "revoke.write"
                    /\ entry'[p].has = entry[p].has
                    /\ entry'[p].revoked = entry[p].revoked \cup {req[c].tok}
                 \/ /\ c \in Requests /\ pc[c] = "touch.write"
                    /\ entry'[p].has = entry[p].has
                    /\ entry'[p].revoked = entry[p].revoked
                 \/ /\ c \in Sweeps /\ pc[c] = "sweep.write"
                    /\ entry'[p].has = entry[p].has \ Dead(c, entry[p])
                    /\ entry'[p].revoked = entry[p].revoked \ Dead(c, entry[p])
  <1> DEFINE G ==
        \/ entry'[p] = entry[p]
        \/ /\ entry'[p].ver = entry[p].ver + 1
           /\ \E c \in Calls :
                \/ /\ c \in Requests /\ pc[c] = "add.write" /\ pc'[c] = "add.owner"
                   /\ entry'[p].has = entry[p].has \cup {req[c].tok}
                   /\ entry'[p].revoked = entry[p].revoked
                \/ /\ c \in Requests /\ pc[c] = "revoke.write"
                   /\ entry'[p].has = entry[p].has
                   /\ entry'[p].revoked = entry[p].revoked \cup {req[c].tok}
                \/ /\ c \in Requests /\ pc[c] = "touch.write"
                   /\ entry'[p].has = entry[p].has
                   /\ entry'[p].revoked = entry[p].revoked
                \/ /\ c \in Sweeps /\ pc[c] = "sweep.write"
                   /\ entry'[p].has = entry[p].has \ Dead(c, entry[p])
                   /\ entry'[p].revoked = entry[p].revoked \ Dead(c, entry[p])
  <1>1. CASE entry'[p] # entry[p]
    <2>1. PICK c \in Calls : Wrote(c) /\ Place(c) \in Principals
      BY <1>1, WriteStep
    <2>2. Place(c) = p
      BY <1>1, <2>1 DEF Wrote, Written, TypeInv, TypeOK
    <2>3. CASE entry' = [entry EXCEPT ![p] = Absent]
      <3>1. entry'[p] = Absent /\ entry'[p].ver = 0
        BY <2>3 DEF TypeInv, TypeOK, Absent
      <3>2. QED
        BY <1>1, <3>1 DEF Survive, CasInv
    <2>4. CASE ~(entry' = [entry EXCEPT ![p] = Absent])
      <3>1. snap[c].ver = entry[p].ver /\ pc[c] \in Writing
        BY <2>1, <2>2, <2>4 DEF Wrote, Written, Writing
      <3>2. snap[c] = entry[p]
        BY <2>2, <3>1 DEF CasInv
      <3>3. QED
        BY <2>1, <2>2, <2>4, <3>2 DEF Wrote, Written, TypeInv, TypeOK
    <2>5. QED
      BY <2>3, <2>4
  <1>2. QED
    BY <1>1

LEMMA InitCas == Init => CasInv
  BY DEF Init, CasInv, Absent, Writing

LEMMA NextCas ==
  ASSUME TypeInv, CasInv, [Next]_vars, Survive \/ UNCHANGED entry
  PROVE  CasInv'
  <1>0. TypeInv'
    BY NextType
  <1>1. \A p \in Principals : /\ entry[p].ver \in Nat
                              /\ entry'[p] = entry[p] \/ entry'[p].ver = entry[p].ver + 1
    BY MoveStep DEF TypeInv, TypeOK, Entries
  <1>2. ASSUME NEW p \in Principals, entry'[p].ver = 0 PROVE entry'[p] = Absent
    BY <1>1, <1>2 DEF CasInv
  <1>3. ASSUME NEW c \in Calls, pc'[c] \in Writing
        PROVE  /\ snap'[c].ver <= entry'[Place(c)'].ver
               /\ snap'[c].ver = entry'[Place(c)'].ver => snap'[c] = entry'[Place(c)']
    <2>1. CASE pc'[c] = pc[c] /\ snap'[c] = snap[c] /\ Place(c)' = Place(c)
      <3>1. Place(c) \in Principals /\ snap[c].ver \in Nat
        BY <1>3, <2>1 DEF Place, TypeInv, TypeOK, Entries, ArgsOK, Writing, RequestLabels
      <3>2. /\ snap[c].ver <= entry[Place(c)].ver
            /\ snap[c].ver = entry[Place(c)].ver => snap[c] = entry[Place(c)]
        BY <1>3, <2>1 DEF CasInv
      <3>3. QED
        BY <1>1, <2>1, <3>1, <3>2
    <2>2. CASE snap'[c] = entry[Place(c)'] /\ Place(c)' \in Principals /\ UNCHANGED entry
      BY <1>1, <2>2
    <2>3. QED
      BY <1>3, <2>1, <2>2, CopyStep
  <1>4. QED
    BY <1>2, <1>3 DEF CasInv

\* Without a sweep no entry is ever destroyed.
LEMMA WithoutSweepsStep ==
  ASSUME TypeInv, [Next]_vars, Sweeps = {}
  PROVE  Survive \/ UNCHANGED entry
  <1>1. CASE entry' # entry
    <2>1. PICK c \in Calls : Wrote(c) /\ Place(c) \in Principals
      BY <1>1, WriteStep
    <2>2. \E has, revoked : Written(c, has, revoked)
      BY <2>1 DEF Wrote
    <2>3. snap[c].ver \in Nat
      BY DEF TypeInv, TypeOK, Entries
    <2>4. QED
      BY <2>1, <2>2, <2>3 DEF Written, Survive, TypeInv, TypeOK
  <1>2. QED
    BY <1>1

\* What is promised to a caller holds from the moment its last write lands:
\* a revoked PAT stays revoked until a sweep removes it, a minted one keeps
\* its record and its owner until it is past its grace window, and a PAT
\* presented late gets no further than the first look at its record.
KeptInv ==
  /\ \A t \in Tokens : RevokeAcked(t) =>
       \/ t \in entry[pat[t].owner].revoked
       \/ t \notin entry[pat[t].owner].has /\ Sweeps # {}
  /\ \A c \in Requests : pc[c] = "add.owner" \/ res[c] = "minted" =>
       req[c].tok \in entry[req[c].who].has \/ PastGrace(req[c].tok, now)
  /\ \A c \in Requests : res[c] = "minted" =>
       owner[req[c].tok] = req[c].who \/ PastGrace(req[c].tok, now)
  /\ \A c \in Requests : req[c].op = "auth" /\ req[c].late =>
       /\ RevokeAcked(req[c].tok)
       /\ res[c] # "principal"
       /\ pc[c] \notin {"touch.read", "touch.write"}

\* An acknowledged revocation stays acknowledged.
LEMMA AckStable ==
  ASSUME TypeInv, AskInv, [Next]_vars, NEW t, RevokeAcked(t)
  PROVE  RevokeAcked(t)'
  <1>1. PICK c \in Requests : req[c].op = "revoke" /\ req[c].tok = t /\ res[c] = "revoked"
    BY DEF RevokeAcked
  <1>2. req'[c] = req[c] /\ res'[c] = res[c]
    BY <1>1, CallStep DEF AskInv, Calls
  <1>3. QED
    BY <1>1, <1>2 DEF RevokeAcked

LEMMA InitKept == Init => KeptInv
  BY DEF Init, KeptInv, RevokeAcked, NoReq, Calls

\* The records an acknowledged revoke or a mint has changed.
LEMMA MarkedStays ==
  ASSUME CallInv, CasInv, [Next]_vars, Survive \/ UNCHANGED entry,
         NEW c \in Requests, req[c].op = "revoke", res[c] = "revoked",
         NEW p \in Principals, p = req[c].who, NEW t \in Tokens, t = req[c].tok,
         t \in entry[p].revoked \/ (t \notin entry[p].has /\ Sweeps # {})
  PROVE  t \in entry'[p].revoked \/ (t \notin entry'[p].has /\ Sweeps # {})
  <1>1. ASSUME NEW d \in Calls, d \in Requests, pc[d] = "add.write" PROVE req[d].tok # t
    BY <1>1 DEF CallInv, MintInv, Minting, Calls
  <1>2. QED
    BY <1>1, MoveStep DEF CallInv, SweepInv

LEMMA RecordStays ==
  ASSUME CallInv, CallInv', CasInv, [Next]_vars, Survive \/ UNCHANGED entry,
         NEW p \in Principals, NEW t \in Tokens,
         t \in entry[p].has
  PROVE  t \in entry'[p].has \/ PastGrace(t, now)'
  <1>0. TypeInv /\ SweepInv
    BY DEF CallInv, SweepInv
  <1>1. ASSUME NEW c \in Calls, t \in Dead(c, entry[p]) PROVE PastGrace(t, now)'
    <2>1. PastGrace(t, req[c].at) /\ req[c].at \in Nat /\ req[c].at <= now
      BY <1>0, <1>1 DEF Dead, SweepInv, PruneInv, TypeInv, TypeOK, Reqs
    <2>2. QED
      BY <1>0, <2>1, PastGraceStable
  <1>2. QED
    BY <1>0, <1>1, MoveStep

LEMMA NextKept ==
  ASSUME CallInv, CasInv, KeptInv, [Next]_vars, Survive \/ UNCHANGED entry
  PROVE  KeptInv'
  <1>0. /\ CallInv' /\ TypeInv /\ TypeInv' /\ AskInv /\ AskInv' /\ SweepInv
        /\ OwnedInv /\ OwnedInv' /\ None \notin Principals
    BY NextCall, NoneAssumption DEF CallInv, SweepInv
  <1>p. ASSUME NEW c \in Calls,
               pc[c] \in RequestLabels \/ req[c].op = "mint" \/ res[c] = "revoked"
        PROVE  /\ req[c].who \in Principals /\ req[c].tok \in Tokens
               /\ pat[req[c].tok].owner = req[c].who
               /\ pat'[req[c].tok] = pat[req[c].tok]
    <2>1. req[c].who \in Principals /\ pat[req[c].tok].owner = req[c].who
      BY <1>0, <1>p DEF OwnedInv
    <2>2. req[c].tok \in Tokens
      BY <1>0, <1>p DEF AskInv, TypeInv, ArgsOK
    <2>3. QED
      BY <1>0, <2>1, <2>2, OwnerStable
  <1>g. ASSUME NEW t \in Tokens, PastGrace(t, now) PROVE PastGrace(t, now)'
    BY <1>0, <1>g, PastGraceStable DEF TypeInv, TypeOK
  <1>1. ASSUME NEW t \in Tokens, RevokeAcked(t)'
        PROVE  \/ t \in entry'[pat'[t].owner].revoked
               \/ t \notin entry'[pat'[t].owner].has /\ Sweeps # {}
    <2>1. PICK c \in Requests : req'[c].op = "revoke" /\ req'[c].tok = t /\ res'[c] = "revoked"
      BY <1>1 DEF RevokeAcked
    <2>2. pc[c] # "idle" /\ req'[c] = req[c] /\ c \in Calls
      <3>1. CASE pc[c] = "idle"
        <4>1. res[c] = "none"
          BY <1>0, <3>1 DEF AskInv, Calls
        <4>2. pc'[c] # "idle"
          BY <1>0, <2>1 DEF AskInv, Calls
        <4>3. QED
          BY <1>0, <2>1, <3>1, <4>1, <4>2, BeginStep DEF Calls, Presents, Mints, Revokes
      <3>2. CASE pc[c] # "idle"
        BY <1>0, <3>2, CallStep DEF Calls
      <3>3. QED
        BY <3>1, <3>2
    <2>3. CASE res[c] = "revoked"
      <3>1. PICK p \in Principals : p = req[c].who /\ pat[t].owner = p /\ pat'[t].owner = p
        BY <1>p, <2>1, <2>2, <2>3
      <3>2. RevokeAcked(t)
        BY <2>1, <2>2, <2>3 DEF RevokeAcked
      <3>3. t \in entry[p].revoked \/ (t \notin entry[p].has /\ Sweeps # {})
        BY <3>1, <3>2 DEF KeptInv
      <3>4. QED
        BY <2>1, <2>2, <2>3, <3>1, <3>3, MarkedStays
    <2>4. CASE res[c] # "revoked"
      <3>1. pc[c] = "revoke.write"
        BY <1>0, <2>1, <2>2, <2>4, WorkStep
      <3>2. /\ req[c].who \in Principals /\ pat[t].owner = req[c].who
            /\ pat'[t].owner = req[c].who
        BY <1>p, <2>1, <2>2, <3>1 DEF RequestLabels
      <3>3. Written(c, snap[c].has, snap[c].revoked \cup {req[c].tok})
        BY <1>0, <2>1, <2>2, <2>4, <3>1, RevokeEnds
      <3>4. QED
        BY <1>0, <2>1, <2>2, <3>1, <3>2, <3>3 DEF Written, Place, TypeInv, TypeOK
    <2>5. QED
      BY <2>3, <2>4
  <1>m. ASSUME NEW c \in Requests, pc'[c] = "add.owner" \/ res'[c] = "minted"
        PROVE  /\ c \in Calls /\ pc[c] # "idle" /\ req'[c] = req[c] /\ req[c].op = "mint"
               /\ pc[c] = "add.write" \/ pc[c] = "add.owner" \/ res[c] = "minted"
               /\ pc[c] = "add.write" => pc'[c] = "add.owner"
    <2>1. pc[c] # "idle"
      <3>1. CASE pc[c] = "idle"
        <4>1. res[c] = "none"
          BY <1>0, <3>1 DEF AskInv, Calls
        <4>2. pc'[c] # "idle"
          BY <1>0, <1>m DEF AskInv, Calls
        <4>3. QED
          BY <1>0, <1>m, <3>1, <4>1, <4>2, BeginStep DEF Calls, Presents, Mints, Revokes
      <3>2. QED
        BY <3>1
    <2>2. pc[c] = "add.write" \/ pc[c] = "add.owner" \/ res[c] = "minted"
      BY <1>0, <1>m, <2>1, WorkStep DEF Calls
    <2>3. req'[c] = req[c] /\ req[c].op = "mint"
      BY <1>0, <2>1, <2>2, CallStep DEF Calls, AskInv, Minting
    <2>4. pc[c] = "add.write" => res[c] # "minted"
      BY <1>0 DEF AskInv, Calls
    <2>5. QED
      BY <1>0, <1>m, <2>1, <2>2, <2>3, <2>4, WorkStep DEF Calls
  <1>2. ASSUME NEW c \in Requests, pc'[c] = "add.owner" \/ res'[c] = "minted"
        PROVE  req'[c].tok \in entry'[req'[c].who].has \/ PastGrace(req[c].tok, now)'
    <2>1. /\ c \in Calls /\ req'[c] = req[c]
          /\ req[c].who \in Principals /\ req[c].tok \in Tokens
      BY <1>2, <1>m, <1>p
    <2>2. CASE pc[c] = "add.owner" \/ res[c] = "minted"
      <3>1. req[c].tok \in entry[req[c].who].has \/ PastGrace(req[c].tok, now)
        BY <2>2 DEF KeptInv
      <3>2. QED
        BY <1>0, <1>g, <2>1, <3>1, RecordStays DEF PastGrace
    <2>3. CASE pc[c] = "add.write" /\ pc'[c] = "add.owner"
      <3>1. Written(c, snap[c].has \cup {req[c].tok}, snap[c].revoked)
        BY <1>0, <2>1, <2>3, AddEnds
      <3>2. QED
        BY <1>0, <2>1, <2>3, <3>1 DEF Written, Place, TypeInv, TypeOK
    <2>4. QED
      BY <1>2, <1>m, <2>2, <2>3
  <1>3. ASSUME NEW c \in Requests, res'[c] = "minted"
        PROVE  owner'[req'[c].tok] = req'[c].who \/ PastGrace(req[c].tok, now)'
    <2>1. /\ c \in Calls /\ req'[c] = req[c]
          /\ req[c].who \in Principals /\ req[c].tok \in Tokens
          /\ pat'[req[c].tok].owner = req[c].who
      BY <1>3, <1>m, <1>p
    <2>2. owner'[req[c].tok] \in {None, req[c].who}
      BY <1>0, <2>1 DEF OwnedInv
    <2>3. CASE res[c] = "minted"
      <3>1. owner[req[c].tok] = req[c].who \/ PastGrace(req[c].tok, now)
        BY <2>3 DEF KeptInv
      <3>2. CASE owner[req[c].tok] = req[c].who /\ owner'[req[c].tok] # req[c].who
        BY <1>0, <1>g, <2>1, <3>2, OwnerStep DEF SweepInv, PruneInv
      <3>3. QED
        BY <1>g, <2>1, <3>1, <3>2
    <2>4. CASE res[c] # "minted"
      <3>1. pc[c] = "add.owner" /\ pc'[c] # "add.owner"
        BY <1>0, <1>3, <1>m, <2>4, WorkStep DEF AskInv, Calls
      <3>2. owner'[req[c].tok] # None
        BY <1>0, <1>3, <2>1, <3>1, MintEnds
      <3>3. QED
        BY <2>1, <2>2, <3>2
    <2>5. QED
      BY <2>3, <2>4
  <1>4. ASSUME NEW c \in Requests, req'[c].op = "auth", req'[c].late
        PROVE  /\ RevokeAcked(req[c].tok)'
               /\ res'[c] # "principal"
               /\ pc'[c] \notin {"touch.read", "touch.write"}
    <2>1. CASE pc[c] = "idle"
      <3>1. c \in Calls /\ pc'[c] # "idle" /\ res[c] = "none"
        BY <1>0, <1>4, <2>1 DEF AskInv, Calls
      <3>2. PICK t \in Tokens : Presents(c, t)
        BY <1>0, <1>4, <2>1, <3>1, BeginStep DEF Mints, Revokes, Asked, Calls
      <3>3. RevokeAcked(t) /\ req'[c].tok = t
        BY <1>4, <3>2 DEF Presents, Asked
      <3>4. RevokeAcked(t)'
        BY <1>0, <3>3, AckStable
      <3>5. QED
        BY <3>1, <3>2, <3>3, <3>4 DEF Presents, RevokeAcked
    <2>2. CASE pc[c] # "idle"
      <3>1. c \in Calls /\ req'[c] = req[c]
        BY <1>0, <2>2, CallStep DEF Calls
      <3>2. /\ RevokeAcked(req[c].tok) /\ res[c] # "principal"
            /\ pc[c] \notin {"touch.read", "touch.write"}
        BY <1>4, <3>1 DEF KeptInv
      <3>3. PICK t : t = req[c].tok
        OBVIOUS
      <3>4. RevokeAcked(t)'
        BY <1>0, <3>2, <3>3, AckStable
      <3>5. CASE pc[c] = "auth.get" /\ Accepted(c)
        <4>1. t \in Tokens /\ pat[t].owner = req[c].who
          BY <1>p, <3>1, <3>3, <3>5 DEF RequestLabels
        <4>2. t \in entry[pat[t].owner].has /\ t \notin entry[pat[t].owner].revoked
          BY <3>3, <3>5, <4>1 DEF Accepted
        <4>3. QED
          BY <3>2, <3>3, <4>1, <4>2 DEF KeptInv
      <3>6. QED
        BY <1>0, <2>2, <3>1, <3>2, <3>3, <3>4, <3>5, AuthStep DEF RevokeAcked
    <2>3. QED
      BY <2>1, <2>2
  <1>5. QED
    BY <1>1, <1>2, <1>3, <1>4 DEF KeptInv, PastGrace

\* Nothing but a sweep destroys an entry.
LEMMA WithoutSweeps == Sweeps = {} => (Spec => NoEntryDestroyed)
  <1> SUFFICES ASSUME Sweeps = {} PROVE Spec => NoEntryDestroyed
    OBVIOUS
  <1>1. TypeInv /\ [Next]_vars => [Survive]_entry
    BY WithoutSweepsStep
  <1>2. QED
    BY <1>1, InitType, NextType, PTL DEF Spec, NoEntryDestroyed

LEMMA KeptAlways == Spec /\ NoEntryDestroyed => [](CallInv /\ CasInv /\ KeptInv)
  <1>1. Init => CallInv /\ CasInv /\ KeptInv
    BY InitCall, InitCas, InitKept
  <1>2. CallInv /\ CasInv /\ KeptInv /\ [Next]_vars /\ [Survive]_entry
          => (CallInv /\ CasInv /\ KeptInv)'
    BY NextCall, NextCas, NextKept DEF CallInv, SweepInv
  <1>3. QED
    BY <1>1, <1>2, PTL DEF Spec, NoEntryDestroyed

\* A PAT handed to its user has its record and its owner index entry for as
\* long as it lives, whatever writes to the same entry it raced with, unless
\* a sweep destroys the entry and its version count.
THEOREM AckedMintsAreKept == Spec /\ NoEntryDestroyed => []AckedMintKept
  <1>1. KeptInv => AckedMintKept
    BY DEF KeptInv, AckedMintKept
  <1>2. QED
    BY <1>1, KeptAlways, PTL

\* A PAT presented after its revocation was acknowledged gets no principal,
\* even if a touch, mint or revoke that had read the entry before the
\* revocation writes after it.
THEOREM LateAuthRefused == Spec /\ NoEntryDestroyed => []NoAuthAfterRevoke
  <1>1. KeptInv => NoAuthAfterRevoke
    BY DEF KeptInv, NoAuthAfterRevoke
  <1>2. QED
    BY <1>1, KeptAlways, PTL

\* Without sweeps, an acknowledged revocation is never undone.
THEOREM AckedRevokesStick == Sweeps = {} => (Spec => []AckedRevokeSticks)
  <1> SUFFICES ASSUME Sweeps = {} PROVE Spec => []AckedRevokeSticks
    OBVIOUS
  <1>1. KeptInv => AckedRevokeSticks
    BY DEF KeptInv, AckedRevokeSticks
  <1>2. QED
    BY <1>1, KeptAlways, WithoutSweeps, PTL

-----------------------------------------------------------------------------
\* The registry implements the atomic one of PatRegistry.

LEMMA InitContract == Init => Contract!Init
  BY DEF Init, Contract!Init, Held, Revoked, Absent, Unminted, Contract!Unminted

\* A step that writes no entry is the clock's, the choice of a new PAT, or
\* nothing the contract can see.
LEMMA QuietStep ==
  ASSUME TypeInv, [Next]_vars, UNCHANGED entry
  PROVE  [Contract!Next]_(Contract!vars)
  <1> DEFINE G == [Contract!Next]_(Contract!vars)
  <1>h. UNCHANGED <<Held, Revoked>>
    BY DEF Held, Revoked
  <1>q. ASSUME UNCHANGED <<now, pat>> PROVE G
    BY <1>h, <1>q DEF Contract!vars
  <1>1. CASE Tick
    <2>1. Contract!Tick
      BY <1>1, <1>h DEF Tick, Contract!Tick, TypeInv, TypeOK
    <2>2. QED
      BY <2>1 DEF Contract!Next
  <1>2. ASSUME NEW c \in Requests, NEW t \in Tokens, NEW p \in Principals, NEW n \in Names,
               NEW life \in Lifetimes \cup {None}, StartMint(c, p, t, n, life)
        PROVE  G
    <2> DEFINE x == [owner |-> p, name |-> n, exp |-> IF life = None THEN None ELSE now + life]
    <2>1. x \in Contract!Pats
      BY NumberAssumption DEF TypeInv, TypeOK, Contract!Pats
    <2>2. pat[t] = Unminted /\ pat' = [pat EXCEPT ![t] = x] /\ UNCHANGED now
      BY <1>2 DEF StartMint
    <2> HIDE DEF x
    <2>3. Contract!Choose(t)
      BY <1>h, <2>1, <2>2
      DEF Contract!Choose, TypeInv, TypeOK, Unminted, Contract!Unminted
    <2>4. QED
      BY <2>3 DEF Contract!Next
  <1>3. ASSUME NEW c \in Requests, NEW t \in Tokens,
               StartAuth(c, t) \/ \E p \in Principals : StartRevoke(c, p, t)
        PROVE  G
    BY <1>3, <1>q DEF StartAuth, StartRevoke
  <1>4. ASSUME NEW c \in Requests, Step(c) PROVE G
    BY <1>4, <1>q
    DEF Step, AddRead, AddWrite, AddOwner, RevokeGet, IndexRead, IndexWrite,
        RevokeRead, RevokeWrite, AuthGet, TouchRead, TouchWrite
  <1>5. ASSUME NEW c \in Sweeps, StartSweep(c) \/ SweepStep(c) PROVE G
    BY <1>5, <1>q
    DEF StartSweep, SweepStep, SweepList, SweepRead, SweepWrite, SweepOwner,
        SweepListed, PruneRead, PruneWrite
  <1>6. CASE (\E c \in Calls : Fault(c)) \/ UNCHANGED vars
    BY <1>6, <1>q DEF Fault, vars
  <1> HIDE DEF G
  <1>7. ASSUME NEW c \in Requests, Start(c) PROVE G
    BY <1>2, <1>3, <1>7 DEF Start
  <1>8. QED
    BY <1>1, <1>4, <1>5, <1>6, <1>7 DEF Next, G

\* A write that passed its check-and-set acts on the entry as it is.
LEMMA WriteRefines ==
  ASSUME CallInv, CasInv, NamesInv, [Next]_vars, Survive, entry' # entry
  PROVE  [Contract!Next]_(Contract!vars)
  <1>0. TypeInv /\ SweepInv
    BY DEF CallInv, SweepInv
  <1>1. PICK c \in Calls : /\ Wrote(c) /\ Place(c) \in Principals
                           /\ UNCHANGED <<now, pat, owner, index, req>>
    BY <1>0, WriteStep
  <1>2. PICK p \in Principals : p = Place(c)
    BY <1>1
  <1>3. ~(entry' = [entry EXCEPT ![p] = Absent])
    <2>1. ASSUME entry' = [entry EXCEPT ![p] = Absent] PROVE entry' = entry
      <3>1. entry'[p] = Absent /\ entry'[p].ver = 0
        BY <1>0, <2>1 DEF TypeInv, TypeOK, Absent
      <3>2. entry[p] = Absent
        BY <3>1 DEF Survive, CasInv
      <3>3. QED
        BY <1>0, <2>1, <3>2 DEF TypeInv, TypeOK
    <2>2. QED
      BY <2>1
  <1>4. snap[c] = entry[p] /\ pc[c] \in Writing
    BY <1>1, <1>2, <1>3 DEF Wrote, Written, Writing, CasInv
  <1>t. /\ req[c].tok \in Tokens \/ pc[c] = "sweep.write"
        /\ pc[c] # "sweep.write" => p = req[c].who
    BY <1>0, <1>2, <1>4 DEF TypeInv, ArgsOK, Writing, RequestLabels, Place
  <1>e. ASSUME NEW has, NEW revoked, Written(c, has, revoked)
        PROVE  /\ Held' = [Held EXCEPT ![p] = has]
               /\ Revoked' = [Revoked EXCEPT ![p] = revoked]
    BY <1>0, <1>2, <1>e DEF Written, Held, Revoked, TypeInv, TypeOK
  <1>f. /\ Held[p] = entry[p].has /\ [Held EXCEPT ![p] = entry[p].has] = Held
        /\ Revoked[p] = entry[p].revoked /\ [Revoked EXCEPT ![p] = entry[p].revoked] = Revoked
    BY DEF Held, Revoked
  <1>5. CASE pc[c] = "add.write" /\ Written(c, snap[c].has \cup {req[c].tok}, snap[c].revoked)
    <2> DEFINE t == req[c].tok
    <2>1. /\ pat[t].owner = p /\ t \notin entry[p].has /\ t \in Tokens
          /\ ~NameTaken(entry[p], t, now)
      BY <1>4, <1>5, <1>t, <1>2 DEF CallInv, OwnedInv, MintInv, RequestLabels, NamesInv
    <2>2. \A u \in Held[p] : Contract!Live(p, u) => pat[u].name # pat[t].name
      BY <2>1 DEF NameTaken, Collides, Expired, Contract!Live, Held, Revoked
    <2>3. Held' = [Held EXCEPT ![p] = @ \cup {t}] /\ UNCHANGED Revoked
      BY <1>e, <1>f, <1>4, <1>5
    <2>4. Contract!Add(p, t)
      BY <1>1, <2>1, <2>2, <2>3 DEF Contract!Add, Held
    <2>5. QED
      BY <2>1, <2>4 DEF Contract!Next
  <1>6. CASE pc[c] = "revoke.write" /\ Written(c, snap[c].has, snap[c].revoked \cup {req[c].tok})
    <2> DEFINE t == req[c].tok
    <2>1. t \in entry[p].has /\ t \in Tokens
      BY <1>4, <1>6, <1>t DEF CallInv, SubInv
    <2>2. Revoked' = [Revoked EXCEPT ![p] = @ \cup {t}] /\ UNCHANGED Held
      BY <1>e, <1>f, <1>4, <1>6
    <2>3. Contract!Revoke(p, t)
      BY <1>1, <2>1, <2>2 DEF Contract!Revoke, Held
    <2>4. QED
      BY <2>1, <2>3 DEF Contract!Next
  <1>7. CASE pc[c] = "touch.write" /\ Written(c, snap[c].has, snap[c].revoked)
    BY <1>1, <1>e, <1>f, <1>4, <1>7 DEF Contract!vars
  <1>8. CASE Written(c, snap[c].has \ Dead(c, snap[c]), snap[c].revoked \ Dead(c, snap[c]))
    <2> DEFINE gone == Dead(c, entry[p])
    <2>1. gone \in SUBSET Tokens /\ gone \subseteq entry[p].has
      BY <1>0 DEF Dead, TypeInv, TypeOK, Entries
    <2>2. ASSUME NEW t \in gone PROVE pat[t].exp # None /\ pat[t].exp <= now
      <3>1. PastGrace(t, req[c].at) /\ t \in Tokens
        BY <2>1, <2>2 DEF Dead
      <3>2. req[c].at <= now /\ req[c].at \in Nat /\ now \in Nat /\ Grace \in Nat /\ pat[t] \in Pats
        BY <1>0, <3>1, NumberAssumption DEF SweepInv, PruneInv, TypeInv, TypeOK, Reqs
      <3>3. pat[t].exp # None /\ pat[t].exp \in Nat /\ pat[t].exp + Grace <= req[c].at
        BY <3>1, <3>2 DEF PastGrace, Pats, Unminted
      <3>4. QED
        BY <3>2, <3>3
    <2>3. ASSUME NEW q \in Principals, q # p
          PROVE  entry[q].has \ gone = entry[q].has /\ entry[q].revoked \ gone = entry[q].revoked
      BY <2>1, <2>3 DEF CallInv, OwnedInv, SubInv
    <2>4. /\ Held' = [Held EXCEPT ![p] = entry[p].has \ gone]
          /\ Revoked' = [Revoked EXCEPT ![p] = entry[p].revoked \ gone]
      BY <1>e, <1>4, <1>8
    <2>5. /\ Held' = [q \in Principals |-> Held[q] \ gone]
          /\ Revoked' = [q \in Principals |-> Revoked[q] \ gone]
      <3> HIDE DEF gone
      <3>1. QED
        BY <2>3, <2>4 DEF Held, Revoked
    <2>6. Contract!Sweep(gone)
      BY <1>1, <2>2, <2>5 DEF Contract!Sweep
    <2>7. QED
      BY <2>1, <2>6 DEF Contract!Next
  <1>9. QED
    BY <1>1, <1>2, <1>3, <1>5, <1>6, <1>7, <1>8 DEF Wrote

\* While no entry is destroyed, every run of the registry is a run of the
\* atomic one: the two round trips of a mint, a revoke, a touch and a sweep
\* act as one step at the moment their check-and-set succeeds.
THEOREM RegistryImplementsContract == Spec /\ NoEntryDestroyed => ContractSpec
  <1>1. Init => CallInv /\ CasInv /\ NamesInv
    BY InitCall, InitCas, InitNames
  <1>2. CallInv /\ CasInv /\ NamesInv /\ [Next]_vars /\ [Survive]_entry
          => (CallInv /\ CasInv /\ NamesInv)'
    BY NextCall, NextCas, NextNames DEF CallInv, SweepInv
  <1>3. CallInv /\ CasInv /\ NamesInv /\ [Next]_vars /\ [Survive]_entry
          => [Contract!Next]_(Contract!vars)
    <2>1. CASE UNCHANGED entry
      BY <2>1, QuietStep DEF CallInv, SweepInv
    <2>2. CASE entry' # entry
      BY <2>2, WriteRefines
    <2>3. QED
      BY <2>1, <2>2
  <1>4. QED
    BY <1>1, <1>2, <1>3, InitContract, PTL DEF Spec, NoEntryDestroyed, ContractSpec, Contract!Spec

-----------------------------------------------------------------------------
\* Retry budgets.  Without sweeps an entry's version counts the calls that
\* have written it, and every conflict a call has met is one of those.

\* The calls past their write of an entry, and past that of the index.
Settled == {c \in Calls : pc[c] \in {"add.owner", "done"}}
Listed  == {c \in Calls : pc[c] \in {"revoke.read", "revoke.write", "done"}}

\* A call has met no more conflicts than there were writes to what it reads.
TriesInv ==
  \A c \in Calls :
    /\ pc[c] = "idle" => tries[c] = 0
    /\ pc[c] \in {"add.read", "revoke.read"} => tries[c] <= entry[req[c].who].ver
    /\ pc[c] \in {"add.write", "revoke.write"} => tries[c] <= snap[c].ver
    /\ pc[c] = "index.read" => tries[c] <= index.ver
    /\ pc[c] = "index.write" => tries[c] <= isnap[c].ver

\* Each call writes an entry, or the revoked index, at most once.
CountInv ==
  /\ \A p \in Principals : entry[p].ver <= Cardinality(Settled)
  /\ index.ver <= Cardinality(Listed)

\* What a step does to the tries of a call, and when it gives up.
LEMMA TryStep ==
  ASSUME TypeInv, [Next]_vars, Sweeps = {}, NEW d \in Calls
  PROVE  /\ pc'[d] = "idle" => pc[d] = "idle" /\ tries'[d] = tries[d]
         /\ pc'[d] \in {"add.read", "revoke.read"} =>
              \/ tries'[d] = 0
              \/ pc[d] = "idle" /\ tries'[d] = tries[d]
              \/ pc'[d] = pc[d] /\ tries'[d] = tries[d] /\ req'[d] = req[d]
              \/ /\ pc[d] \in {"add.write", "revoke.write"}
                 /\ entry[req[d].who].ver # snap[d].ver
                 /\ tries'[d] = tries[d] + 1 /\ req'[d] = req[d] /\ UNCHANGED entry
         /\ pc'[d] \in {"add.write", "revoke.write"} =>
              \/ pc'[d] = pc[d] /\ tries'[d] = tries[d] /\ snap'[d] = snap[d]
              \/ /\ pc[d] \in {"add.read", "revoke.read"}
                 /\ tries'[d] = tries[d] /\ snap'[d] = entry[req[d].who]
         /\ pc'[d] = "index.read" =>
              \/ tries'[d] = 0
              \/ pc[d] = "index.read" /\ tries'[d] = tries[d]
              \/ /\ pc[d] = "index.write" /\ index.ver # isnap[d].ver
                 /\ tries'[d] = tries[d] + 1 /\ UNCHANGED index
         /\ pc'[d] = "index.write" =>
              \/ pc[d] = "index.write" /\ tries'[d] = tries[d] /\ isnap'[d] = isnap[d]
              \/ pc[d] = "index.read" /\ tries'[d] = tries[d] /\ isnap'[d] = index
         /\ res'[d] = "error" =>
              \/ res[d] = "error" \/ d \in Faulty
              \/ /\ pc[d] \in {"add.write", "revoke.write"}
                 /\ tries[d] + 1 >= MaxRetries /\ entry[req[d].who].ver # snap[d].ver
              \/ /\ pc[d] = "index.write"
                 /\ tries[d] + 1 >= MaxRetries /\ index.ver # isnap[d].ver
  <1> DEFINE G ==
         /\ pc'[d] = "idle" => pc[d] = "idle" /\ tries'[d] = tries[d]
         /\ pc'[d] \in {"add.read", "revoke.read"} =>
              \/ tries'[d] = 0
              \/ pc[d] = "idle" /\ tries'[d] = tries[d]
              \/ pc'[d] = pc[d] /\ tries'[d] = tries[d] /\ req'[d] = req[d]
              \/ /\ pc[d] \in {"add.write", "revoke.write"}
                 /\ entry[req[d].who].ver # snap[d].ver
                 /\ tries'[d] = tries[d] + 1 /\ req'[d] = req[d] /\ UNCHANGED entry
         /\ pc'[d] \in {"add.write", "revoke.write"} =>
              \/ pc'[d] = pc[d] /\ tries'[d] = tries[d] /\ snap'[d] = snap[d]
              \/ /\ pc[d] \in {"add.read", "revoke.read"}
                 /\ tries'[d] = tries[d] /\ snap'[d] = entry[req[d].who]
         /\ pc'[d] = "index.read" =>
              \/ tries'[d] = 0
              \/ pc[d] = "index.read" /\ tries'[d] = tries[d]
              \/ /\ pc[d] = "index.write" /\ index.ver # isnap[d].ver
                 /\ tries'[d] = tries[d] + 1 /\ UNCHANGED index
         /\ pc'[d] = "index.write" =>
              \/ pc[d] = "index.write" /\ tries'[d] = tries[d] /\ isnap'[d] = isnap[d]
              \/ pc[d] = "index.read" /\ tries'[d] = tries[d] /\ isnap'[d] = index
         /\ res'[d] = "error" =>
              \/ res[d] = "error" \/ d \in Faulty
              \/ /\ pc[d] \in {"add.write", "revoke.write"}
                 /\ tries[d] + 1 >= MaxRetries /\ entry[req[d].who].ver # snap[d].ver
              \/ /\ pc[d] = "index.write"
                 /\ tries[d] + 1 >= MaxRetries /\ index.ver # isnap[d].ver
  <1>0. CASE /\ pc'[d] = pc[d] /\ tries'[d] = tries[d] /\ req'[d] = req[d]
             /\ snap'[d] = snap[d] /\ isnap'[d] = isnap[d] /\ res'[d] = res[d]
    BY <1>0
  <1>1. ASSUME NEW c \in Requests, Start(c) PROVE G
    <2>1. CASE d # c
      BY <1>0, <1>1, <2>1 DEF Start, StartAuth, StartRevoke, StartMint, Begin, Answer, Goto, TypeInv, TypeOK
    <2>2. CASE d = c
      BY <1>1, <2>2 DEF Start, StartAuth, StartRevoke, StartMint, Begin, Answer, Goto, TypeInv, TypeOK
    <2>3. QED
      BY <2>1, <2>2
  <1>2. ASSUME NEW c \in Requests, Step(c), d # c PROVE G
    BY <1>0, <1>2
    DEF Step, AddRead, AddWrite, AddOwner, RevokeGet, IndexRead, IndexWrite,
        RevokeRead, RevokeWrite, AuthGet, TouchRead, TouchWrite, Return, Proceed,
        ReadEntry, ReadIndex, Conflict, Authority, ReturnOrLose, Goto, TypeInv, TypeOK, Calls
  <1>3. CASE d \in Requests /\ (AddRead(d) \/ AddWrite(d) \/ AddOwner(d))
    BY <1>3
    DEF AddRead, AddWrite, AddOwner, Return, Proceed, EntryUnmoved,
        ReadEntry, Conflict, ReturnOrLose, Goto, TypeInv, TypeOK, store
  <1>4. CASE d \in Requests /\ (RevokeGet(d) \/ RevokeRead(d) \/ RevokeWrite(d))
    BY <1>4
    DEF RevokeGet, RevokeRead, RevokeWrite, Return, Proceed, EntryUnmoved,
        ReadEntry, Conflict, ReturnOrLose, Goto, TypeInv, TypeOK, store
  <1>5. CASE d \in Requests /\ (IndexRead(d) \/ IndexWrite(d))
    BY <1>5
    DEF IndexRead, IndexWrite, Return, Proceed, IndexUnmoved,
        ReadIndex, Conflict, Goto, TypeInv, TypeOK, store
  <1>6. CASE d \in Requests /\ (AuthGet(d) \/ TouchRead(d) \/ TouchWrite(d))
    BY <1>6
    DEF AuthGet, TouchRead, TouchWrite, Authority, Return, Proceed, EntryUnmoved,
        ReadEntry, Conflict, Goto, TypeInv, TypeOK, store
  <1>7. ASSUME NEW c \in Calls, Fault(c) PROVE G
    <2>1. CASE d # c
      BY <1>0, <1>7, <2>1 DEF Fault, Return, TypeInv, TypeOK
    <2>2. CASE d = c
      BY <1>7, <2>2 DEF Fault, Return, TypeInv, TypeOK
    <2>3. QED
      BY <2>1, <2>2
  <1>8. CASE Tick \/ UNCHANGED vars
    BY <1>0, <1>8 DEF Tick, vars
  <1> HIDE DEF G
  <1>9. ASSUME NEW c \in Requests, Step(c) PROVE G
    BY <1>2, <1>3, <1>4, <1>5, <1>6, <1>9 DEF Step, G
  <1>10. QED
    BY <1>1, <1>7, <1>8, <1>9 DEF Next, G

\* A call that has settled or listed stays so, and each write to an entry or
\* to the revoked index is the settling or listing of one more call.
LEMMA CountStep ==
  ASSUME TypeInv, [Next]_vars, Sweeps = {}
  PROVE  /\ Settled \subseteq Settled'
         /\ Listed \subseteq Listed'
         /\ entry' # entry => \E c \in Calls : c \notin Settled /\ c \in Settled'
         /\ \/ index'.ver = index.ver
            \/ index'.ver = index.ver + 1 /\ \E c \in Calls : c \notin Listed /\ c \in Listed'
  <1> DEFINE G ==
         /\ Settled \subseteq Settled'
         /\ Listed \subseteq Listed'
  <1>1. ASSUME NEW c \in Requests, Start(c) PROVE G
    BY <1>1
    DEF Start, StartAuth, StartRevoke, StartMint, Begin, Answer, Goto, TypeInv, TypeOK,
        Settled, Listed
  <1>2. ASSUME NEW c \in Requests, Step(c) PROVE G
    BY <1>2
    DEF Step, AddRead, AddWrite, AddOwner, RevokeGet, IndexRead, IndexWrite,
        RevokeRead, RevokeWrite, AuthGet, TouchRead, TouchWrite, Return, Proceed,
        ReadEntry, ReadIndex, Conflict, Authority, ReturnOrLose, Goto, TypeInv, TypeOK,
        Settled, Listed
  <1>3. ASSUME (\E c \in Calls : Fault(c)) \/ Tick \/ UNCHANGED vars PROVE G
    BY <1>3 DEF Fault, Tick, vars, Return, TypeInv, TypeOK, Settled, Listed
  <1>4. G
    BY <1>1, <1>2, <1>3 DEF Next
  <1>5. ASSUME entry' # entry PROVE \E c \in Calls : c \notin Settled /\ c \in Settled'
    <2>1. PICK c \in Calls : Wrote(c)
      BY <1>5, WriteStep
    <2>2. QED
      BY <2>1 DEF Wrote, Settled
  <1>6. ASSUME index'.ver # index.ver
        PROVE  index'.ver = index.ver + 1 /\ \E c \in Calls : c \notin Listed /\ c \in Listed'
    <2>1. ASSUME NEW c \in Requests, Start(c) PROVE FALSE
      BY <1>6, <2>1 DEF Start, StartAuth, StartRevoke, StartMint, store
    <2>2. ASSUME NEW c \in Requests, Step(c), ~IndexWrite(c) PROVE FALSE
      BY <1>6, <2>2
      DEF Step, AddRead, AddWrite, AddOwner, RevokeGet, IndexRead,
          RevokeRead, RevokeWrite, AuthGet, TouchRead, TouchWrite, store
    <2>3. ASSUME (\E c \in Calls : Fault(c)) \/ Tick \/ UNCHANGED vars PROVE FALSE
      BY <1>6, <2>3 DEF Fault, Tick, vars, store
    <2>4. PICK c \in Requests : IndexWrite(c)
      BY <2>1, <2>2, <2>3 DEF Next
    <2>5. QED
      BY <1>6, <2>4
      DEF IndexWrite, IndexUnmoved, WriteIndex, Proceed, Goto, Listed, TypeInv, TypeOK, Calls
  <1>7. QED
    BY <1>4, <1>5, <1>6

LEMMA InitCount == Init => TriesInv /\ (IsFiniteSet(Calls) => CountInv)
  <1> SUFFICES ASSUME Init PROVE TriesInv /\ (IsFiniteSet(Calls) => CountInv)
    OBVIOUS
  <1>1. TriesInv
    BY DEF Init, TriesInv
  <1>2. ASSUME IsFiniteSet(Calls) PROVE CountInv
    <2>1. Settled = {} /\ Listed = {}
      BY DEF Init, Settled, Listed
    <2>2. Cardinality(Settled) = 0 /\ Cardinality(Listed) = 0
      BY <2>1, FS_EmptySet
    <2>3. QED
      BY <2>2 DEF Init, CountInv, Absent, NoIndex
  <1>3. QED
    BY <1>1, <1>2

LEMMA NextCount ==
  ASSUME TypeInv, CasInv, CountInv, [Next]_vars, Sweeps = {}, IsFiniteSet(Calls)
  PROVE  CountInv'
  <1>0. TypeInv' /\ (Survive \/ UNCHANGED entry)
    BY NextType, WithoutSweepsStep
  <1>f. ASSUME NEW S \in SUBSET Calls, NEW T \in SUBSET Calls, S \subseteq T
        PROVE  /\ Cardinality(S) \in Nat /\ Cardinality(T) \in Nat
               /\ Cardinality(S) <= Cardinality(T)
               /\ (\E c \in Calls : c \notin S /\ c \in T) => Cardinality(S) + 1 <= Cardinality(T)
    <2>1. IsFiniteSet(S) /\ IsFiniteSet(T)
      BY <1>f, FS_Subset
    <2>2. Cardinality(S) \in Nat /\ Cardinality(T) \in Nat /\ Cardinality(S) <= Cardinality(T)
      BY <1>f, <2>1, FS_CardinalityType, FS_Subset
    <2>3. ASSUME NEW c \in Calls, c \notin S, c \in T PROVE Cardinality(S) + 1 <= Cardinality(T)
      <3>1. Cardinality(S \cup {c}) = Cardinality(S) + 1
        BY <2>1, <2>3, FS_AddElement
      <3>2. Cardinality(S \cup {c}) <= Cardinality(T)
        BY <1>f, <2>1, <2>3, FS_Subset
      <3>3. QED
        BY <3>1, <3>2
    <2>4. QED
      BY <2>2, <2>3
  <1>1. /\ Settled \in SUBSET Calls /\ Settled' \in SUBSET Calls /\ Settled \subseteq Settled'
        /\ Listed \in SUBSET Calls /\ Listed' \in SUBSET Calls /\ Listed \subseteq Listed'
    BY CountStep DEF Settled, Listed
  <1>2. ASSUME NEW p \in Principals PROVE entry'[p].ver <= Cardinality(Settled')
    <2>1. entry[p].ver \in Nat /\ entry[p].ver <= Cardinality(Settled)
      BY DEF TypeInv, TypeOK, Entries, CountInv
    <2>2. CASE entry'[p] = entry[p]
      BY <1>f, <1>1, <2>1, <2>2
    <2>3. CASE entry'[p] # entry[p]
      <3>1. entry'[p].ver = entry[p].ver + 1
        BY <1>0, <2>3, MoveStep
      <3>2. Cardinality(Settled) + 1 <= Cardinality(Settled')
        BY <1>f, <1>1, <2>3, CountStep
      <3>3. QED
        BY <1>f, <1>1, <2>1, <3>1, <3>2
    <2>4. QED
      BY <2>2, <2>3
  <1>3. index'.ver <= Cardinality(Listed')
    <2>1. index.ver \in Nat /\ index.ver <= Cardinality(Listed)
      BY DEF TypeInv, TypeOK, Indexes, CountInv
    <2>2. QED
      BY <1>f, <1>1, <2>1, CountStep
  <1>4. QED
    BY <1>2, <1>3 DEF CountInv

LEMMA NextTries ==
  ASSUME CallInv, CasInv, TriesInv, [Next]_vars, Sweeps = {}
  PROVE  TriesInv'
  <1>0. TypeInv /\ TypeInv' /\ IndexInv /\ AskInv /\ (Survive \/ UNCHANGED entry)
    BY NextType, WithoutSweepsStep DEF CallInv, SweepInv
  <1>1. \A p \in Principals : /\ entry[p].ver \in Nat /\ entry'[p].ver \in Nat
                              /\ entry[p].ver <= entry'[p].ver
    <2>1. ASSUME NEW p \in Principals
          PROVE  entry[p].ver \in Nat /\ (entry'[p] = entry[p] \/ entry'[p].ver = entry[p].ver + 1)
      BY <1>0, MoveStep DEF TypeInv, TypeOK, Entries
    <2>2. QED
      BY <2>1
  <1>2. index.ver \in Nat /\ index.ver <= index'.ver /\ index'.ver \in Nat
    BY <1>0, CountStep DEF TypeInv, TypeOK, Indexes
  <1>3. ASSUME NEW c \in Calls
        PROVE  /\ tries[c] \in Nat /\ snap[c].ver \in Nat /\ isnap[c].ver \in Nat
               /\ isnap[c].ver <= index.ver
    BY <1>0 DEF TypeInv, TypeOK, Entries, Indexes, IndexInv
  <1>4. ASSUME NEW c \in Calls, pc'[c] \in {"add.read", "revoke.read"}
        PROVE  tries'[c] <= entry'[req'[c].who].ver
    <2>1. req'[c].who \in Principals
      BY <1>0, <1>4 DEF TypeInv, ArgsOK, RequestLabels
    <2>2. CASE tries'[c] = 0
      BY <1>1, <2>1, <2>2
    <2>3. CASE pc'[c] = pc[c] /\ tries'[c] = tries[c] /\ req'[c] = req[c]
      <3>1. tries[c] <= entry[req[c].who].ver
        BY <1>4, <2>3 DEF TriesInv
      <3>2. QED
        BY <1>1, <1>3, <2>1, <2>3, <3>1
    <2>4. CASE /\ pc[c] \in {"add.write", "revoke.write"}
               /\ entry[req[c].who].ver # snap[c].ver
               /\ tries'[c] = tries[c] + 1 /\ req'[c] = req[c] /\ UNCHANGED entry
      <3>1. tries[c] <= snap[c].ver /\ snap[c].ver <= entry[req[c].who].ver
        BY <2>4 DEF TriesInv, CasInv, Writing, Place
      <3>2. QED
        BY <1>1, <1>3, <2>1, <2>4, <3>1
    <2>5. QED
      BY <1>0, <1>4, <2>2, <2>3, <2>4, TryStep DEF TriesInv
  <1>5. ASSUME NEW c \in Calls, pc'[c] \in {"add.write", "revoke.write"}
        PROVE  tries'[c] <= snap'[c].ver
    BY <1>0, <1>5, TryStep DEF TriesInv
  <1>6. ASSUME NEW c \in Calls, pc'[c] = "index.read"
        PROVE  tries'[c] <= index'.ver
    BY <1>0, <1>2, <1>3, <1>6, TryStep DEF TriesInv
  <1>7. ASSUME NEW c \in Calls, pc'[c] = "index.write"
        PROVE  tries'[c] <= isnap'[c].ver
    BY <1>0, <1>7, TryStep DEF TriesInv
  <1>8. ASSUME NEW c \in Calls, pc'[c] = "idle" PROVE tries'[c] = 0
    BY <1>0, <1>8, TryStep DEF TriesInv
  <1>9. QED
    BY <1>4, <1>5, <1>6, <1>7, <1>8 DEF TriesInv

LEMMA NextBudget ==
  ASSUME CallInv, CasInv, TriesInv, CountInv, BudgetSuffices, [Next]_vars,
         Sweeps = {}, IsFiniteSet(Calls)
  PROVE  BudgetSuffices'
  <1>0. TypeInv /\ IndexInv
    BY DEF CallInv, SweepInv
  <1>1. SUFFICES ASSUME Cardinality(Calls) <= MaxRetries, NEW c \in Calls \ Faulty,
                        res'[c] = "error"
                 PROVE  FALSE
    BY DEF BudgetSuffices
  <1>2. /\ tries[c] \in Nat /\ snap[c].ver \in Nat /\ isnap[c].ver \in Nat
        /\ index.ver \in Nat /\ MaxRetries \in Nat
        /\ \A p \in Principals : entry[p].ver \in Nat
    BY <1>0, NumberAssumption DEF TypeInv, TypeOK, Entries, Indexes
  <1>3. ASSUME NEW S \in SUBSET Calls, c \notin S PROVE Cardinality(S) \in Nat /\ Cardinality(S) + 1 <= MaxRetries
    <2>1. IsFiniteSet(S) /\ IsFiniteSet(S \cup {c})
      BY FS_Subset
    <2>2. Cardinality(S \cup {c}) = Cardinality(S) + 1
      BY <1>3, <2>1, FS_AddElement
    <2>3. Cardinality(S \cup {c}) <= Cardinality(Calls)
      BY FS_Subset
    <2>4. QED
      BY <1>1, <1>2, <2>1, <2>2, <2>3, FS_CardinalityType
  <1>4. CASE /\ pc[c] \in {"add.write", "revoke.write"}
             /\ tries[c] + 1 >= MaxRetries /\ entry[req[c].who].ver # snap[c].ver
    <2>1. req[c].who \in Principals /\ c \notin Settled /\ Settled \in SUBSET Calls
      BY <1>0, <1>4 DEF TypeInv, ArgsOK, RequestLabels, Settled
    <2>2. /\ tries[c] <= snap[c].ver /\ snap[c].ver <= entry[req[c].who].ver
          /\ entry[req[c].who].ver <= Cardinality(Settled)
      BY <1>4, <2>1 DEF TriesInv, CasInv, CountInv, Writing, Place
    <2>3. QED
      BY <1>2, <1>3, <1>4, <2>1, <2>2
  <1>5. CASE pc[c] = "index.write" /\ tries[c] + 1 >= MaxRetries /\ index.ver # isnap[c].ver
    <2>1. c \notin Listed /\ Listed \in SUBSET Calls
      BY <1>5 DEF Listed
    <2>2. /\ tries[c] <= isnap[c].ver /\ isnap[c].ver <= index.ver
          /\ index.ver <= Cardinality(Listed)
      BY <1>0, <1>5 DEF TriesInv, IndexInv, CountInv
    <2>3. QED
      BY <1>2, <1>3, <1>5, <2>1, <2>2
  <1>6. res[c] # "error"
    BY <1>1 DEF BudgetSuffices
  <1>7. QED
    BY <1>0, <1>1, <1>4, <1>5, <1>6, TryStep

\* Among requests no more numerous than _MAX_CAS_RETRIES, none that is not
\* cut short by a fault ends in "exceeded retry budget": whatever the
\* interleaving, each conflict is with the one write of another call.
THEOREM BudgetsSuffice ==
  Sweeps = {} /\ IsFiniteSet(Requests) => (Spec => []BudgetSuffices)
  <1> SUFFICES ASSUME Sweeps = {}, IsFiniteSet(Requests) PROVE Spec => []BudgetSuffices
    OBVIOUS
  <1>0. IsFiniteSet(Calls)
    BY DEF Calls
  <1>1. Init => TriesInv /\ CountInv /\ BudgetSuffices
    BY <1>0, InitCount DEF Init, BudgetSuffices
  <1>2. CallInv /\ CasInv /\ TriesInv /\ CountInv /\ BudgetSuffices /\ [Next]_vars
          => (TriesInv /\ CountInv /\ BudgetSuffices)'
    BY <1>0, NextTries, NextCount, NextBudget DEF CallInv, SweepInv
  <1>3. Spec => [](CallInv /\ CasInv /\ KeptInv)
    BY KeptAlways, WithoutSweeps, PTL
  <1>4. QED
    BY <1>1, <1>2, <1>3, PTL DEF Spec
=============================================================================

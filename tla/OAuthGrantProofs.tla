-------------------------- MODULE OAuthGrantProofs --------------------------
(***************************************************************************)
(* Proofs about OAuthGrant, for any number of requests and of refresh      *)
(* tokens.                                                                 *)
(***************************************************************************)
EXTENDS OAuthGrant, TLAPS

---------------------------------------------------------------------------
(* Type correctness                                                        *)

LEMMA FreeType == Free \in Requests /\ Free.at = "idle" /\ Free.had = None /\ ~Free.stale
  BY DEF Free, Requests, Uses, Stages

(* A request that ends, or goes on, keeps the type of them all.            *)
LEMMA ReqUpdate ==
  ASSUME GrantTypeOK, NEW q \in Request, NEW x \in Requests,
         req' = [req EXCEPT ![q] = x],
         x.at \in {"refresh", "put", "post"} => x.had # None,
         x.at \in {"put", "create", "look", "replace"} => x.got # None
  PROVE  /\ req' \in [Request -> Requests]
         /\ \A o \in Request :
              /\ req'[o].at \in {"refresh", "put", "post"} => req'[o].had # None
              /\ req'[o].at \in {"put", "create", "look", "replace"} => req'[o].got # None
  BY DEF GrantTypeOK

LEMMA DoneType ==
  ASSUME GrantTypeOK, NEW q \in Request, Done(q),
         entry' \in Entries \cup {None}, rotates' \in BOOLEAN, valid' \subseteq Number,
         drawn' \in 0 .. MaxDrawn, said' \in Number \cup {None, Gone}, spoilt' \in BOOLEAN,
         turns' \in 0 .. MaxTurns
  PROVE  GrantTypeOK'
  <1>1. Free.at \notin {"refresh", "put", "post", "create", "look", "replace"}
    BY FreeType
  <1>2. QED
    BY <1>1, FreeType, ReqUpdate DEF Done, GrantTypeOK

LEMMA TurnType == ASSUME GrantTypeOK, Turn PROVE turns' \in 0 .. MaxTurns
  BY BoundsAssumption DEF GrantTypeOK, Turn

LEMMA PassingType ==
  ASSUME GrantTypeOK, NEW q \in Request
  PROVE  Passing(q, Free) \in [Request -> Requests]
  BY FreeType DEF Passing, GrantTypeOK, Requests

LEMMA StoreLinkType ==
  ASSUME GrantTypeOK, NEW q \in Request, StoreLink(q), req[q].got # None,
         UNCHANGED <<rotates, valid, drawn, spoilt, turns>>
  PROVE  GrantTypeOK' /\ entry' \in Entries
  <1>1. req[q].got \in Entries
    BY DEF GrantTypeOK, Requests
  <1>2. NextVersion \in Nat \ {0}
    BY DEF GrantTypeOK, NextVersion, Version, Entries
  <1>3. entry' \in Entries
    BY <1>1, <1>2 DEF StoreLink, Entries
  <1>4. said' \in Number \cup {None, Gone}
    BY <1>1 DEF StoreLink, GrantTypeOK, Entries
  <1>5. req' \in [Request -> Requests]
    BY PassingType DEF StoreLink
  <1>6. \A o \in Request :
          /\ req'[o].at \in {"refresh", "put", "post"} => req'[o].had # None
          /\ req'[o].at \in {"put", "create", "look", "replace"} => req'[o].got # None
    BY FreeType DEF StoreLink, Passing, GrantTypeOK, Requests
  <1>7. QED
    BY <1>3, <1>4, <1>5, <1>6 DEF GrantTypeOK

LEMMA StoredType ==
  ASSUME GrantTypeOK, NEW q \in Request, Stored(q), req[q].got # None
  PROVE  entry' \in Entries
  <1>1. req[q].got \in Entries /\ req[q].stale \in BOOLEAN
    BY DEF GrantTypeOK, Requests
  <1>2. NextVersion \in Nat \ {0}
    BY DEF GrantTypeOK, NextVersion, Version, Entries
  <1>3. QED
    BY <1>1, <1>2 DEF Stored, Entries

LEMMA StepType ==
  ASSUME GrantTypeOK, NEW q \in Request, GrantStep(q)
  PROVE  GrantTypeOK'
  <1> USE DEF Stage
  <1>1. CASE GetEntry(q)
    <2>1. CASE Done(q)
      BY <1>1, <2>1, DoneType DEF GetEntry, GrantTypeOK
    <2>2. CASE entry # None /\ req' = [req EXCEPT ![q].at = "refresh", ![q].had = entry]
      <3> DEFINE x == [req[q] EXCEPT !.at = "refresh", !.had = entry]
      <3>1. x \in Requests /\ x.at = "refresh" /\ x.had # None
        BY <2>2 DEF GrantTypeOK, Requests, Stages
      <3>2. req' = [req EXCEPT ![q] = x]
        BY <2>2 DEF GrantTypeOK
      <3>3. QED
        BY <1>1, <3>1, <3>2, ReqUpdate DEF GetEntry, GrantTypeOK
    <2>3. QED
      BY <1>1, <2>1, <2>2 DEF GetEntry
  <1>2. CASE RefreshRejected(q)
    BY <1>2, DoneType DEF RefreshRejected, GrantTypeOK
  <1>3. CASE PutRefreshed(q)
    <2>1. CASE Stored(q) /\ Done(q)
      BY <1>3, <2>1, DoneType, StoredType DEF PutRefreshed, GrantTypeOK
    <2>2. CASE req' = [req EXCEPT ![q] = [Free EXCEPT !.at = "reread", !.past = req[q].past]] /\ UNCHANGED entry
      <3> DEFINE x == [Free EXCEPT !.at = "reread", !.past = req[q].past]
      <3>1. x \in Requests /\ x.at = "reread"
        BY FreeType DEF GrantTypeOK, Requests, Stages
      <3>2. QED
        BY <1>3, <2>2, <3>1, ReqUpdate DEF PutRefreshed, GrantTypeOK
    <2>3. QED
      BY <1>3, <2>1, <2>2 DEF PutRefreshed
  <1>4. CASE ServeRaced(q)
    BY <1>4, DoneType DEF ServeRaced, GrantTypeOK
  <1>5. ASSUME NEW ref \in Number, Refreshed(q, ref) PROVE GrantTypeOK'
    <2> DEFINE x == [req[q] EXCEPT !.at = "put", !.got = Renewed(req[q].had, ref)]
    <2>1. req[q].had \in Entries
      BY <1>5 DEF Refreshed, GrantTypeOK, Requests
    <2>2. Renewed(req[q].had, ref) \in Entries
      BY <2>1 DEF Renewed, Entries
    <2>3. x \in Requests /\ x.at = "put" /\ x.had # None /\ x.got # None
      BY <2>1, <2>2, EntryAssumption DEF GrantTypeOK, Requests, Stages
    <2>4. req' = [req EXCEPT ![q] = x]
      BY <1>5 DEF Refreshed, GrantTypeOK
    <2>5. drawn' \in 0 .. MaxDrawn /\ valid' \subseteq Number
      BY <1>5, BoundsAssumption DEF Refreshed, GrantTypeOK, Number
    <2>6. QED
      BY <1>5, <2>3, <2>4, <2>5, ReqUpdate DEF Refreshed, GrantTypeOK
  <1>6. ASSUME NEW refreshable \in BOOLEAN, Exchange(q, refreshable) PROVE GrantTypeOK'
    <2> DEFINE e == [ver |-> 1, ref |-> IF refreshable THEN drawn' ELSE None, of |-> drawn',
                     fresh |-> TRUE, odd |-> FALSE]
               x == [req[q] EXCEPT !.at = "create", !.got = e]
    <2>1. drawn' \in Number /\ drawn' \in 0 .. MaxDrawn /\ valid' \subseteq Number
      BY <1>6, BoundsAssumption DEF Exchange, GrantTypeOK, Number
    <2>2. e \in Entries
      BY <2>1 DEF Entries
    <2>3. x \in Requests /\ x.at = "create" /\ x.got # None
      BY <2>2, EntryAssumption DEF GrantTypeOK, Requests, Stages
    <2>4. req' = [req EXCEPT ![q] = x]
      BY <1>6 DEF Exchange, GrantTypeOK
    <2>5. QED
      BY <1>6, <2>1, <2>3, <2>4, ReqUpdate DEF Exchange, GrantTypeOK
  <1>7. CASE CreateEntry(q)
    <2>1. req[q].got # None
      BY <1>7 DEF CreateEntry, GrantTypeOK
    <2>2. CASE StoreLink(q)
      BY <1>7, <2>1, <2>2, StoreLinkType DEF CreateEntry
    <2>3. CASE Go(q, "look") /\ UNCHANGED <<entry, said>>
      <3> DEFINE x == [req[q] EXCEPT !.at = "look"]
      <3>1. x \in Requests /\ x.at = "look" /\ x.got # None
        BY <2>1 DEF GrantTypeOK, Requests, Stages
      <3>2. req' = [req EXCEPT ![q] = x]
        BY <2>3 DEF Go, GrantTypeOK
      <3>3. QED
        BY <1>7, <2>3, <3>1, <3>2, ReqUpdate DEF CreateEntry, GrantTypeOK
    <2>4. QED
      BY <1>7, <2>2, <2>3 DEF CreateEntry
  <1>8. CASE LookEntry(q)
    <2> DEFINE x == [req[q] EXCEPT !.at = "replace", !.had = entry]
    <2>1. x \in Requests /\ x.at = "replace" /\ x.got # None
      BY <1>8 DEF LookEntry, GrantTypeOK, Requests, Stages
    <2>2. req' = [req EXCEPT ![q] = x]
      BY <1>8 DEF LookEntry, GrantTypeOK
    <2>3. QED
      BY <1>8, <2>1, <2>2, ReqUpdate DEF LookEntry, GrantTypeOK
  <1>9. CASE ReplaceEntry(q)
    <2>1. CASE StoreLink(q)
      BY <1>9, <2>1, StoreLinkType DEF ReplaceEntry, GrantTypeOK
    <2>2. CASE Done(q) /\ UNCHANGED <<entry, said>>
      BY <1>9, <2>2, DoneType DEF ReplaceEntry, GrantTypeOK
    <2>3. QED
      BY <1>9, <2>1, <2>2 DEF ReplaceEntry
  <1>10. CASE GetRevoked(q)
    <2> DEFINE x == [req[q] EXCEPT !.at = IF entry = None THEN "delete" ELSE "post", !.had = entry]
    <2>1. x \in Requests /\ x.at \in {"delete", "post"} /\ (x.at = "post" => x.had # None)
      BY DEF GrantTypeOK, Requests, Stages
    <2>2. req' = [req EXCEPT ![q] = x]
      BY <1>10 DEF GetRevoked, GrantTypeOK
    <2>3. QED
      BY <1>10, <2>1, <2>2, ReqUpdate DEF GetRevoked, GrantTypeOK
  <1>11. CASE DeleteEntry(q)
    <2>1. req' \in [Request -> Requests]
      <3> DEFINE late(o) == o # q /\ req[o].had # None
      <3>1. \A o \in Request : [Passing(q, Free)[o] EXCEPT !.stale = late(o)] \in Requests
        BY PassingType DEF Requests
      <3>2. req' = [o \in Request |-> [Passing(q, Free)[o] EXCEPT !.stale = late(o)]]
        BY <1>11 DEF DeleteEntry
      <3> HIDE DEF late
      <3>3. QED
        BY <3>1, <3>2
    <2>2. \A o \in Request :
            /\ req'[o].at \in {"refresh", "put", "post"} => req'[o].had # None
            /\ req'[o].at \in {"put", "create", "look", "replace"} => req'[o].got # None
      BY <1>11, FreeType DEF DeleteEntry, Passing, GrantTypeOK, Requests
    <2>3. QED
      BY <1>11, <2>1, <2>2 DEF DeleteEntry, GrantTypeOK
  <1>12. ASSUME NEW heard \in BOOLEAN, PostRevocation(q, heard) PROVE GrantTypeOK'
    <2> DEFINE x == [req[q] EXCEPT !.at = "delete", !.had = None, !.stale = FALSE]
    <2>1. x \in Requests /\ x.at = "delete"
      BY DEF GrantTypeOK, Requests, Stages
    <2>2. req' = [req EXCEPT ![q] = x]
      BY <1>12 DEF PostRevocation, GrantTypeOK
    <2>3. valid' \subseteq Number
      BY <1>12 DEF PostRevocation, GrantTypeOK
    <2>4. QED
      BY <1>12, <2>1, <2>2, <2>3, ReqUpdate DEF PostRevocation, GrantTypeOK
  <1>13. QED
    BY <1>1, <1>2, <1>3, <1>4, <1>5, <1>6, <1>7, <1>8, <1>9, <1>10, <1>11, <1>12 DEF GrantStep

LEMMA NextType ==
  ASSUME GrantTypeOK, [GrantNext]_grantVars
  PROVE  GrantTypeOK'
  <1>1. ASSUME NEW q \in Request, GrantStep(q) PROVE GrantTypeOK'
    BY <1>1, StepType
  <1>2. ASSUME NEW q \in Request, Break(q) PROVE GrantTypeOK'
    BY <1>2, TurnType, DoneType DEF Break, GrantTypeOK
  <1>3. ASSUME NEW q \in Request, NEW use \in Uses, Begin(q, use) PROVE GrantTypeOK'
    <2> DEFINE x == [Free EXCEPT !.use = use, !.at = IF use = "link" THEN "exchange" ELSE "get"]
    <2>1. x \in Requests /\ x.at \in {"exchange", "get"}
      BY FreeType DEF Requests, Stages
    <2>2. turns' \in 0 .. MaxTurns /\ said' \in Number \cup {None, Gone}
      BY <1>3, TurnType DEF Begin, GrantTypeOK
    <2>3. QED
      BY <1>3, <2>1, <2>2, ReqUpdate DEF Begin, GrantTypeOK
  <1>4. CASE GrantAges
    BY <1>4, TurnType DEF GrantAges, GrantTypeOK, Entries
  <1>5. ASSUME NEW n \in Number, WithdrawGrant(n) PROVE GrantTypeOK'
    BY <1>5, TurnType DEF WithdrawGrant, GrantTypeOK
  <1>6. CASE UNCHANGED grantVars
    BY <1>6 DEF grantVars, GrantTypeOK
  <1>7. QED
    BY <1>1, <1>2, <1>3, <1>4, <1>5, <1>6 DEF GrantNext

LEMMA InitType == GrantInit => GrantTypeOK
  <1> SUFFICES ASSUME GrantInit PROVE GrantTypeOK
    OBVIOUS
  <1>1. 1 \in Number
    BY BoundsAssumption DEF Number
  <1>2. entry \in Entries \cup {None}
    <2>1. \/ entry = None
          \/ entry \in [ver : {1}, ref : {1, None}, of : {1}, fresh : BOOLEAN, odd : {FALSE}]
      BY Zenon DEF GrantInit
    <2>2. {1} \subseteq Nat \ {0} /\ {1, None} \subseteq Number \cup {None} /\ {1} \subseteq Number
      BY <1>1
    <2>3. {FALSE} \subseteq BOOLEAN
      BY Zenon
    <2>4. [ver : {1}, ref : {1, None}, of : {1}, fresh : BOOLEAN, odd : {FALSE}] \subseteq Entries
      BY <2>2, <2>3 DEF Entries
    <2>5. QED
      BY <2>1, <2>4
  <1>3. req \in [Request -> Requests]
    BY FreeType DEF GrantInit
  <1>4. \A q \in Request : req[q].at = "idle"
    BY FreeType DEF GrantInit
  <1>5. valid \subseteq Number /\ drawn \in 0 .. MaxDrawn /\ said \in Number \cup {None, Gone}
    <2>1. valid \subseteq Number
      BY <1>1 DEF GrantInit
    <2>2. drawn \in 0 .. MaxDrawn
      BY BoundsAssumption DEF GrantInit
    <2>3. said \in Number \cup {None, Gone}
      BY <1>1 DEF GrantInit
    <2>4. QED
      BY <2>1, <2>2, <2>3
  <1>6. turns \in 0 .. MaxTurns /\ rotates \in BOOLEAN /\ spoilt \in BOOLEAN
    <2>1. turns \in 0 .. MaxTurns
      BY BoundsAssumption DEF GrantInit
    <2>2. rotates \in BOOLEAN /\ spoilt \in BOOLEAN
      BY Zenon DEF GrantInit
    <2>3. QED
      BY <2>1, <2>2
  <1>7. QED
    BY <1>2, <1>3, <1>4, <1>5, <1>6 DEF GrantTypeOK

(* Every state has the shape GrantTypeOK gives it; in particular a request *)
(* that writes an entry has one to write, and one that names the version of*)
(* an entry has read one.                                                  *)
THEOREM GrantTypeCorrect == GrantSpec => []GrantTypeOK
  BY InitType, NextType, PTL DEF GrantSpec

---------------------------------------------------------------------------
(* The inductive invariant                                                 *)

(* A stage belongs to one route, and a request has read nothing before its *)
(* first answer.                                                           *)
StageOK ==
  \A q \in Request :
    /\ req[q].at \in {"refresh", "put", "reread"} => req[q].use = "issue"
    /\ req[q].at \in {"exchange", "create", "look", "replace"} => req[q].use = "link"
    /\ req[q].at \in {"post", "delete"} => req[q].use = "revoke"
    /\ req[q].at \in {"idle", "get"} => req[q].had = None /\ ~req[q].stale

(* The user has been told something only while nobody is about to change   *)
(* it.                                                                     *)
SaidOK == said # None => \A q \in Request : ~Asserting(q)

(* What a refresh has read is an earlier version of the entry, or the same *)
(* one, unless the entry has been deleted since.                           *)
HadOK ==
  \A q \in Request :
    req[q].at \in {"refresh", "put"} /\ ~req[q].stale =>
      /\ entry # None
      /\ req[q].had.ver <= entry.ver
      /\ req[q].had.ver = entry.ver => req[q].had.of = entry.of /\ req[q].had.odd = entry.odd

(* A refresh does not change whose grant it is.                            *)
GotOK ==
  \A q \in Request :
    req[q].at = "put" => req[q].got.of = req[q].had.of /\ req[q].got.odd = req[q].had.odd

GrantInv ==
  /\ GrantTypeOK /\ StageOK /\ SaidOK /\ HadOK /\ GotOK
  /\ GrantUnlinkSticks /\ GrantLinkKept

(* What the invariants say of the requests alone.                          *)
Calm(e, x) ==
  /\ x.at \in {"refresh", "put", "reread"} => x.use = "issue"
  /\ x.at \in {"exchange", "create", "look", "replace"} => x.use = "link"
  /\ x.at \in {"post", "delete"} => x.use = "revoke"
  /\ x.at \in {"idle", "get"} => x.had = None /\ ~x.stale
  /\ x.at \in {"refresh", "put"} /\ ~x.stale =>
       /\ e # None
       /\ x.had.ver <= e.ver
       /\ x.had.ver = e.ver => x.had.of = e.of /\ x.had.odd = e.odd
  /\ x.at = "put" => x.got.of = x.had.of /\ x.got.odd = x.had.odd

LEMMA CalmAll == StageOK /\ HadOK /\ GotOK <=> \A q \in Request : Calm(entry, req[q])
  BY DEF StageOK, HadOK, GotOK, Calm

LEMMA CalmAllNext == (StageOK /\ HadOK /\ GotOK)' <=> \A q \in Request : Calm(entry', req'[q])
  BY DEF StageOK, HadOK, GotOK, Calm

LEMMA FreeCalm == ASSUME NEW e PROVE Calm(e, Free)
  BY DEF Free, Calm

(* The entry stays and one request moves.                                  *)
LEMMA OneMoves ==
  ASSUME GrantInv, NEW q \in Request, NEW x, req' = [req EXCEPT ![q] = x], entry' = entry, said' = said,
         Calm(entry, x), x.at = "idle" \/ (x.use = req[q].use /\ Busy(q)),
         GrantTypeOK'
  PROVE  GrantInv'
  <1>1. \A o \in Request : req'[o] = IF o = q THEN x ELSE req[o]
    BY DEF GrantInv, GrantTypeOK
  <1>2. (StageOK /\ HadOK /\ GotOK)'
    BY <1>1, CalmAll, CalmAllNext DEF GrantInv
  <1>3. SaidOK'
    BY <1>1 DEF GrantInv, SaidOK, Asserting, Busy
  <1>4. QED
    BY <1>2, <1>3 DEF GrantInv, GrantUnlinkSticks, GrantLinkKept

LEMMA OneEnds ==
  ASSUME GrantInv, NEW q \in Request, Done(q), entry' = entry, said' = said, GrantTypeOK'
  PROVE  GrantInv'
  BY OneMoves, FreeCalm, FreeType DEF Done

(* The entry gets a higher version: what the others have read is an earlier*)
(* one.                                                                    *)
LEMMA CalmAfterWrite ==
  ASSUME GrantInv, NEW o \in Request, NEW e \in Entries, e.ver = Version(entry) + 1
  PROVE  Calm(e, req[o])
  <1>1. Calm(entry, req[o])
    BY CalmAll DEF GrantInv
  <1>2. CASE req[o].at \in {"refresh", "put"} /\ ~req[o].stale
    <2>1. entry # None /\ entry \in Entries /\ req[o].had.ver <= entry.ver
      BY <1>1, <1>2 DEF Calm, GrantInv, GrantTypeOK
    <2>2. req[o].had \in Entries
      BY <1>2 DEF GrantInv, GrantTypeOK, Requests
    <2>3. req[o].had.ver < e.ver /\ e # None
      BY <2>1, <2>2, EntryAssumption DEF Version, Entries
    <2>4. req[o].had.ver \in Nat /\ e.ver \in Nat
      BY <2>2 DEF Entries
    <2>5. QED
      BY <1>1, <2>3, <2>4 DEF Calm
  <1>3. QED
    BY <1>1, <1>2 DEF Calm

(* A refresh writes: it changes nothing of whose grant the entry is.       *)
LEMMA StoredInv ==
  ASSUME GrantInv, NEW q \in Request, req[q].at = "put", Accepts(q), Stored(q), Done(q), said' = said,
         GrantTypeOK'
  PROVE  GrantInv'
  <1>1. req[q].had \in Entries /\ req[q].got \in Entries /\ req[q].stale \in BOOLEAN
    BY DEF GrantInv, GrantTypeOK, Requests
  <1>2. entry # None /\ entry \in Entries /\ entry.ver = req[q].had.ver
    BY <1>1, EntryAssumption DEF Accepts, Version, Entries, GrantInv, GrantTypeOK
  <1>3. NextVersion = entry.ver + 1 /\ NextVersion \in Nat \ {0}
    BY <1>2 DEF NextVersion, Version, Entries
  <1>4. /\ entry' \in Entries
        /\ entry'.ver = Version(entry) + 1
        /\ entry'.of = req[q].got.of
        /\ entry'.odd = (req[q].got.odd \/ req[q].stale)
    BY <1>1, <1>3 DEF Stored, Entries, NextVersion
  <1>5. Calm(entry, req[q])
    BY CalmAll DEF GrantInv
  <1>6. entry'.odd \/ (entry'.of = entry.of /\ ~entry.odd)
    <2>1. CASE req[q].stale
      BY <1>4, <2>1
    <2>2. CASE ~req[q].stale
      <3>1. req[q].got.of = entry.of /\ req[q].got.odd = entry.odd
        BY <1>2, <1>5, <2>2 DEF Calm
      <3>2. QED
        BY <1>4, <3>1
    <2>3. QED
      BY <2>1, <2>2
  <1>7. \A o \in Request : req'[o] = IF o = q THEN Free ELSE req[o]
    BY DEF Done, GrantInv, GrantTypeOK
  <1>8. (StageOK /\ HadOK /\ GotOK)'
    BY <1>4, <1>7, CalmAfterWrite, FreeCalm, CalmAllNext
  <1>9. SaidOK'
    BY <1>7, FreeType DEF GrantInv, SaidOK, Asserting, Busy
  <1>10. GrantUnlinkSticks'
    BY <1>2 DEF GrantInv, GrantUnlinkSticks
  <1>11. GrantLinkKept'
    BY <1>4, <1>6, EntryAssumption DEF GrantInv, GrantLinkKept
  <1>12. QED
    BY <1>8, <1>9, <1>10, <1>11 DEF GrantInv

(* A link writes.  What was said before it is not said any more, unless    *)
(* nobody else is about to change the entry.                               *)
LEMMA StoreLinkInv ==
  ASSUME GrantInv, NEW q \in Request, req[q].use = "link", Busy(q), req[q].got # None, StoreLink(q),
         entry' \in Entries, GrantTypeOK'
  PROVE  GrantInv'
  <1>1. said = None
    BY DEF GrantInv, SaidOK, Asserting
  <1>2. /\ req[q].got \in Entries
        /\ entry'.ver = Version(entry) + 1 /\ entry'.of = req[q].got.of
    BY DEF StoreLink, NextVersion, GrantInv, GrantTypeOK, Requests, Entries
  <1>3. \A o \in Request \ {q} :
          req'[o] = req[o] \/ req'[o] = [req[o] EXCEPT !.past = TRUE]
    BY DEF StoreLink, Passing
  <1>4. req'[q] = Free
    BY DEF StoreLink, Passing
  <1>5. \A o \in Request \ {q} :
          /\ req'[o].use = req[o].use /\ req'[o].at = req[o].at /\ req'[o].had = req[o].had
          /\ req'[o].got = req[o].got /\ req'[o].stale = req[o].stale
    BY <1>3 DEF GrantInv, GrantTypeOK, Requests
  <1>6. \A o \in Request : Calm(entry', req'[o])
    <2>1. \A o \in Request \ {q} : Calm(entry', req[o])
      BY <1>2, CalmAfterWrite
    <2>2. QED
      BY <2>1, <1>4, <1>5, FreeCalm DEF Calm
  <1>7. said' = None \/ (said' = req[q].got.of /\ Only(q))
    BY <1>1 DEF StoreLink
  <1>8. SaidOK'
    BY <1>4, <1>5, <1>7, FreeType DEF SaidOK, Only, Asserting, Busy
  <1>9. said' # Gone
    BY <1>2, <1>7, GoneAssumption DEF Entries, Number
  <1>10. GrantLinkKept'
    BY <1>2, <1>7, EntryAssumption, NoneAssumption DEF GrantLinkKept, Number
  <1>11. QED
    BY <1>6, CalmAllNext, <1>8, <1>9, <1>10 DEF GrantInv, GrantUnlinkSticks

LEMMA DeletedInv ==
  ASSUME GrantInv, NEW q \in Request, DeleteEntry(q), GrantTypeOK'
  PROVE  GrantInv'
  <1>1. said = None
    BY DEF GrantInv, SaidOK, Asserting, Busy, StageOK, DeleteEntry, Stage
  <1>2. /\ req'[q].use = "issue" /\ req'[q].at = "idle" /\ req'[q].had = None /\ ~req'[q].stale
    BY DEF DeleteEntry, Passing, Free
  <1>3. \A o \in Request \ {q} :
          /\ req'[o].use = req[o].use /\ req'[o].at = req[o].at /\ req'[o].had = req[o].had
          /\ req'[o].got = req[o].got /\ req'[o].stale = (req[o].had # None)
    BY DEF DeleteEntry, Passing, GrantInv, GrantTypeOK, Requests
  <1>4. \A o \in Request : Calm(entry', req'[o])
    <2>1. Calm(entry', req'[q])
      BY <1>2 DEF Calm
    <2>2. ASSUME NEW o \in Request \ {q} PROVE Calm(entry', req'[o])
      <3>1. req[o].at \in {"refresh", "put"} => req[o].had # None
        BY DEF GrantInv, GrantTypeOK
      <3>2. Calm(entry, req[o])
        BY CalmAll DEF GrantInv
      <3>3. QED
        BY <1>3, <3>1, <3>2 DEF Calm
    <2>3. QED
      BY <2>1, <2>2
  <1>5. said' = None \/ (said' = Gone /\ Only(q))
    BY <1>1 DEF DeleteEntry
  <1>6. SaidOK'
    BY <1>2, <1>3, <1>5 DEF SaidOK, Only, Asserting, Busy
  <1>7. GrantUnlinkSticks' /\ GrantLinkKept'
    BY <1>5, NoneAssumption, GoneAssumption DEF DeleteEntry, GrantUnlinkSticks, GrantLinkKept, Number
  <1>8. QED
    BY <1>4, CalmAllNext, <1>6, <1>7 DEF GrantInv

LEMMA StepInv ==
  ASSUME GrantInv, NEW q \in Request, GrantStep(q)
  PROVE  GrantInv'
  <1> USE DEF Stage
  <1>0. /\ GrantTypeOK /\ GrantTypeOK'
        /\ req[q] \in Requests /\ Calm(entry, req[q])
    BY StepType, CalmAll DEF GrantInv, GrantTypeOK
  <1>1. CASE GetEntry(q)
    <2>1. CASE Done(q)
      BY <1>0, <1>1, <2>1, OneEnds DEF GetEntry
    <2>2. CASE entry # None /\ req' = [req EXCEPT ![q].at = "refresh", ![q].had = entry]
      <3> DEFINE x == [req[q] EXCEPT !.at = "refresh", !.had = entry]
      <3>1. x.at = "refresh" /\ x.had = entry /\ x.use = req[q].use /\ x.stale = req[q].stale
        BY <1>0 DEF Requests
      <3>2. entry \in Entries
        BY <1>0, <2>2 DEF GrantTypeOK
      <3>3. Calm(entry, x)
        BY <1>0, <1>1, <2>2, <3>1, <3>2 DEF Calm, GetEntry, Entries
      <3>4. req' = [req EXCEPT ![q] = x]
        BY <2>2 DEF GrantInv, GrantTypeOK
      <3>5. QED
        BY <1>0, <1>1, <3>1, <3>3, <3>4, OneMoves DEF GetEntry, Busy
    <2>3. QED
      BY <1>1, <2>1, <2>2 DEF GetEntry
  <1>2. CASE RefreshRejected(q)
    BY <1>0, <1>2, OneEnds DEF RefreshRejected
  <1>3. CASE PutRefreshed(q)
    <2>1. CASE Accepts(q) /\ Stored(q) /\ Done(q)
      BY <1>0, <1>3, <2>1, StoredInv DEF PutRefreshed
    <2>2. CASE /\ req' = [req EXCEPT ![q] = [Free EXCEPT !.at = "reread", !.past = req[q].past]]
               /\ UNCHANGED entry
      <3> DEFINE x == [Free EXCEPT !.at = "reread", !.past = req[q].past]
      <3>1. x.at = "reread" /\ x.use = "issue" /\ req[q].use = "issue"
        BY <1>0, <1>3 DEF Free, Calm, PutRefreshed
      <3>2. Calm(entry, x)
        BY <3>1 DEF Calm
      <3>3. QED
        BY <1>0, <1>3, <2>2, <3>1, <3>2, OneMoves DEF PutRefreshed, Busy
    <2>3. QED
      BY <1>3, <2>1, <2>2 DEF PutRefreshed
  <1>4. CASE ServeRaced(q)
    BY <1>0, <1>4, OneEnds DEF ServeRaced
  <1>5. ASSUME NEW ref \in Number, Refreshed(q, ref) PROVE GrantInv'
    <2> DEFINE x == [req[q] EXCEPT !.at = "put", !.got = Renewed(req[q].had, ref)]
    <2>1. req[q].had \in Entries
      BY <1>0, <1>5 DEF Refreshed, GrantTypeOK, Requests
    <2>2. Renewed(req[q].had, ref).of = req[q].had.of /\ Renewed(req[q].had, ref).odd = req[q].had.odd
      BY <2>1 DEF Renewed, Entries
    <2>3. /\ x.at = "put" /\ x.had = req[q].had /\ x.use = req[q].use /\ x.stale = req[q].stale
          /\ x.got = Renewed(req[q].had, ref)
      BY <1>0 DEF Requests
    <2>4. Calm(entry, x)
      BY <1>0, <1>5, <2>2, <2>3 DEF Calm, Refreshed
    <2>5. req' = [req EXCEPT ![q] = x]
      BY <1>5 DEF Refreshed, GrantInv, GrantTypeOK
    <2>6. QED
      BY <1>0, <1>5, <2>3, <2>4, <2>5, OneMoves DEF Refreshed, Busy
  <1>6. ASSUME NEW refreshable \in BOOLEAN, Exchange(q, refreshable) PROVE GrantInv'
    <2> DEFINE e == [ver |-> 1, ref |-> IF refreshable THEN drawn' ELSE None, of |-> drawn',
                     fresh |-> TRUE, odd |-> FALSE]
               x == [req[q] EXCEPT !.at = "create", !.got = e]
    <2>1. x.at = "create" /\ x.use = req[q].use
      BY <1>0 DEF Requests
    <2>2. Calm(entry, x)
      BY <1>0, <1>6, <2>1 DEF Calm, Exchange
    <2>3. req' = [req EXCEPT ![q] = x]
      BY <1>6 DEF Exchange, GrantInv, GrantTypeOK
    <2>4. QED
      BY <1>0, <1>6, <2>1, <2>2, <2>3, OneMoves DEF Exchange, Busy
  <1>7. CASE CreateEntry(q)
    <2>1. req[q].got # None /\ req[q].use = "link" /\ Busy(q)
      BY <1>0, <1>7 DEF CreateEntry, GrantTypeOK, Calm, Busy
    <2>2. CASE StoreLink(q)
      BY <1>0, <1>7, <2>1, <2>2, StoreLinkType, StoreLinkInv DEF CreateEntry
    <2>3. CASE Go(q, "look") /\ UNCHANGED <<entry, said>>
      <3> DEFINE x == [req[q] EXCEPT !.at = "look"]
      <3>1. x.at = "look" /\ x.use = req[q].use
        BY <1>0 DEF Requests
      <3>2. Calm(entry, x)
        BY <2>1, <3>1 DEF Calm
      <3>3. req' = [req EXCEPT ![q] = x]
        BY <2>3 DEF Go, GrantInv, GrantTypeOK
      <3>4. QED
        BY <1>0, <2>1, <2>3, <3>1, <3>2, <3>3, OneMoves
    <2>4. QED
      BY <1>7, <2>2, <2>3 DEF CreateEntry
  <1>8. CASE LookEntry(q)
    <2> DEFINE x == [req[q] EXCEPT !.at = "replace", !.had = entry]
    <2>1. x.at = "replace" /\ x.use = req[q].use
      BY <1>0 DEF Requests
    <2>2. Calm(entry, x)
      BY <1>0, <1>8, <2>1 DEF Calm, LookEntry
    <2>3. req' = [req EXCEPT ![q] = x]
      BY <1>8 DEF LookEntry, GrantInv, GrantTypeOK
    <2>4. QED
      BY <1>0, <1>8, <2>1, <2>2, <2>3, OneMoves DEF LookEntry, Busy
  <1>9. CASE ReplaceEntry(q)
    <2>1. req[q].got # None /\ req[q].use = "link" /\ Busy(q)
      BY <1>0, <1>9 DEF ReplaceEntry, GrantTypeOK, Calm, Busy
    <2>2. CASE StoreLink(q)
      BY <1>0, <1>9, <2>1, <2>2, StoreLinkType, StoreLinkInv DEF ReplaceEntry
    <2>3. CASE Done(q) /\ UNCHANGED <<entry, said>>
      BY <1>0, <2>3, OneEnds
    <2>4. QED
      BY <1>9, <2>2, <2>3 DEF ReplaceEntry
  <1>10. CASE GetRevoked(q)
    <2> DEFINE x == [req[q] EXCEPT !.at = IF entry = None THEN "delete" ELSE "post", !.had = entry]
    <2>1. x.at \in {"delete", "post"} /\ x.use = req[q].use
      BY <1>0 DEF Requests
    <2>2. Calm(entry, x)
      BY <1>10, <2>1 DEF Calm, GetRevoked
    <2>3. req' = [req EXCEPT ![q] = x]
      BY <1>10 DEF GetRevoked, GrantInv, GrantTypeOK
    <2>4. QED
      BY <1>0, <1>10, <2>1, <2>2, <2>3, OneMoves DEF GetRevoked, Busy
  <1>11. CASE DeleteEntry(q)
    BY <1>0, <1>11, DeletedInv
  <1>12. ASSUME NEW heard \in BOOLEAN, PostRevocation(q, heard) PROVE GrantInv'
    <2> DEFINE x == [req[q] EXCEPT !.at = "delete", !.had = None, !.stale = FALSE]
    <2>1. x.at = "delete" /\ x.use = req[q].use
      BY <1>0 DEF Requests
    <2>2. Calm(entry, x)
      BY <1>0, <1>12, <2>1 DEF Calm, PostRevocation
    <2>3. req' = [req EXCEPT ![q] = x]
      BY <1>12 DEF PostRevocation, GrantInv, GrantTypeOK
    <2>4. QED
      BY <1>0, <1>12, <2>1, <2>2, <2>3, OneMoves DEF PostRevocation, Busy
  <1>13. QED
    BY <1>1, <1>2, <1>3, <1>4, <1>5, <1>6, <1>7, <1>8, <1>9, <1>10, <1>11, <1>12 DEF GrantStep

LEMMA NextInv ==
  ASSUME GrantInv, [GrantNext]_grantVars
  PROVE  GrantInv'
  <1>0. GrantTypeOK'
    BY NextType DEF GrantInv
  <1>1. ASSUME NEW q \in Request, GrantStep(q) PROVE GrantInv'
    BY <1>1, StepInv
  <1>2. ASSUME NEW q \in Request, Break(q) PROVE GrantInv'
    BY <1>0, <1>2, OneEnds DEF Break
  <1>3. ASSUME NEW q \in Request, NEW use \in Uses, Begin(q, use) PROVE GrantInv'
    <2> DEFINE x == [Free EXCEPT !.use = use, !.at = IF use = "link" THEN "exchange" ELSE "get"]
    <2>1. /\ x.use = use /\ x.had = None /\ ~x.stale
          /\ x.at = IF use = "link" THEN "exchange" ELSE "get"
      BY DEF Free
    <2>2. Calm(entry, x)
      BY <2>1 DEF Calm
    <2>3. \A o \in Request : req'[o] = IF o = q THEN x ELSE req[o]
      BY <1>3 DEF Begin, GrantInv, GrantTypeOK
    <2>4. (StageOK /\ HadOK /\ GotOK)'
      BY <1>3, <2>2, <2>3, CalmAll, CalmAllNext DEF GrantInv, Begin
    <2>5. SaidOK'
      BY <1>3, <2>1, <2>3 DEF Begin, SaidOK, Asserting, Busy, GrantInv, Uses
    <2>6. GrantUnlinkSticks' /\ GrantLinkKept'
      BY <1>3, NoneAssumption, GoneAssumption DEF Begin, GrantUnlinkSticks, GrantLinkKept, GrantInv, Number
    <2>7. QED
      BY <1>0, <2>4, <2>5, <2>6 DEF GrantInv
  <1>4. CASE GrantAges
    <2>1. /\ entry \in Entries /\ entry' # None
          /\ entry'.ver = entry.ver /\ entry'.of = entry.of /\ entry'.odd = entry.odd
      BY <1>0, <1>4, EntryAssumption DEF GrantAges, GrantInv, GrantTypeOK, Entries
    <2>2. \A o \in Request : Calm(entry', req'[o])
      BY <1>4, <2>1, CalmAll DEF GrantInv, GrantAges, Calm
    <2>3. SaidOK'
      BY <1>4 DEF GrantAges, GrantInv, SaidOK, Asserting, Busy
    <2>4. GrantUnlinkSticks' /\ GrantLinkKept'
      BY <1>4, <2>1 DEF GrantAges, GrantInv, GrantUnlinkSticks, GrantLinkKept
    <2>5. QED
      BY <1>0, <2>2, <2>3, <2>4, CalmAllNext DEF GrantInv
  <1>5. CASE (\E n \in Number : WithdrawGrant(n)) \/ UNCHANGED grantVars
    <2>1. UNCHANGED <<entry, req, said>>
      BY <1>5 DEF WithdrawGrant, grantVars
    <2>2. QED
      BY <1>0, <2>1 DEF GrantInv, StageOK, SaidOK, HadOK, GotOK, Asserting, Busy,
                        GrantUnlinkSticks, GrantLinkKept
  <1>6. QED
    BY <1>1, <1>2, <1>3, <1>4, <1>5 DEF GrantNext

LEMMA InitInv == GrantInit => GrantInv
  <1> SUFFICES ASSUME GrantInit PROVE GrantInv
    OBVIOUS
  <1>1. \A q \in Request : req[q] = Free
    BY DEF GrantInit
  <1>2. StageOK /\ HadOK /\ GotOK
    BY <1>1, FreeCalm, CalmAll
  <1>3. SaidOK
    BY <1>1, FreeType DEF SaidOK, Asserting, Busy
  <1>4. GrantUnlinkSticks /\ GrantLinkKept
    <2>1. CASE entry = None
      BY <2>1, GoneAssumption DEF GrantInit, GrantUnlinkSticks, GrantLinkKept, Number
    <2>2. CASE entry # None
      <3>1. entry \in [ver : {1}, ref : {1, None}, of : {1}, fresh : BOOLEAN, odd : {FALSE}]
        BY <2>2, Zenon DEF GrantInit
      <3>2. entry.of = 1
        BY <3>1
      <3>3. said = 1
        BY <2>2, Zenon DEF GrantInit
      <3>4. QED
        BY <2>2, <3>2, <3>3, GoneAssumption DEF GrantUnlinkSticks, GrantLinkKept
    <2>3. QED
      BY <2>1, <2>2
  <1>5. QED
    BY <1>2, <1>3, <1>4, InitType DEF GrantInv

LEMMA GrantInvariant == GrantSpec => []GrantInv
  BY InitInv, NextInv, PTL DEF GrantSpec

(* An answered unlink stays: whatever refresh was under way, no write of   *)
(* oauth21.py's issue() creates an entry.                                  *)
THEOREM GrantStaysUnlinked == GrantSpec => []GrantUnlinkSticks
  <1>1. GrantInv => GrantUnlinkSticks
    BY DEF GrantInv
  <1>2. QED
    BY <1>1, GrantInvariant, PTL

(* A linked account is still that account, however many refreshes and      *)
(* retries run on however many replicas, or its entry was written by a     *)
(* refresh that began before an unlink the link came after.                *)
THEOREM GrantStaysLinked == GrantSpec => []GrantLinkKept
  <1>1. GrantInv => GrantLinkKept
    BY DEF GrantInv
  <1>2. QED
    BY <1>1, GrantInvariant, PTL

---------------------------------------------------------------------------
(* The stored refresh token                                                *)

Holds(e, n) == e # None /\ e.ref = n

Linking(q) == req[q].at \in {"create", "look", "replace"}
Writing(q) == req[q].at = "put"

(* Numbers are given once: everything seen so far was drawn.               *)
Seen(n) ==
  \/ Holds(entry, n) \/ n \in valid
  \/ \E q \in Request : Holds(req[q].had, n) \/ Holds(req[q].got, n)

DrawnInv == \A n \in Number : Seen(n) => n <= drawn

(* A token the server gave for the first time is known to the request that *)
(* got it, and to nobody else before it is stored.                         *)
Secret(q) == Linking(q) \/ (rotates /\ Writing(q))

SecretInv ==
  \A q \in Request : \A n \in Number :
    Secret(q) /\ Holds(req[q].got, n) =>
      /\ ~Holds(entry, n)
      /\ \A o \in Request : ~Holds(req[o].had, n) /\ (o # q => ~Holds(req[o].got, n))

(* A server that does not rotate leaves the refresh token as it is.        *)
SameInv == \A q \in Request : Writing(q) /\ ~rotates => req[q].got.ref = req[q].had.ref

(* A request about to use up the stored token has read the entry as it is. *)
ReadInv ==
  rotates /\ entry # None /\ ~entry.odd /\ entry.ref # None =>
    \A q \in Request :
      req[q].at = "refresh" /\ req[q].had.ref = entry.ref =>
        ~req[q].stale /\ req[q].had.ver = entry.ver

(* The entry is about to be deleted, or to be replaced by what a refresh   *)
(* has got for it.                                                         *)
Doomed == \E q \in Request : req[q].at = "delete"
Rescued == \E q \in Request : Writing(q) /\ ~req[q].stale /\ req[q].had.ver = entry.ver

(* A linked token works until it is stored; so does a refreshed one, unless*)
(* it goes with the entry; and the stored one works unless a refresh holds *)
(* the one that counts.                                                    *)
LinkedInv == \A q \in Request : Linking(q) => req[q].got.ref \in valid \cup {None}
WrittenInv == \A q \in Request : Writing(q) /\ ~req[q].stale => req[q].got.ref \in valid
EntryInv ==
  entry # None /\ ~entry.odd /\ entry.ref # None => entry.ref \in valid \/ Rescued

UsableInv == ~spoilt => LinkedInv /\ (Doomed \/ (WrittenInv /\ EntryInv))

TokenInv == DrawnInv /\ SecretInv /\ SameInv /\ ReadInv /\ UsableInv

LEMMA Shapes ==
  ASSUME GrantTypeOK, NEW q \in Request
  PROVE  /\ req[q] \in Requests
         /\ req[q].had \in Entries \cup {None} /\ req[q].got \in Entries \cup {None}
         /\ req[q].had # None => req[q].had.ref \in Number \cup {None} /\ req[q].had.ver \in Nat
         /\ req[q].got # None => req[q].got.ref \in Number \cup {None}
         /\ entry # None => entry \in Entries /\ entry.ref \in Number \cup {None} /\ entry.ver \in Nat
         /\ req[q].at \in {"refresh", "put", "post"} => req[q].had # None
         /\ Linking(q) \/ Writing(q) => req[q].got # None
         /\ None \notin Number /\ valid \subseteq Number /\ Number \subseteq Nat
         /\ drawn \in Nat
  BY NoneAssumption DEF GrantTypeOK, Requests, Entries, Linking, Writing, Number

LEMMA FreeHoldsNothing ==
  /\ Free.had = None /\ Free.got = None /\ Free.at = "idle" /\ ~Free.stale
  BY DEF Free

(* One request moves on without a new token: it may have read the entry,   *)
(* or have lost what it knew.                                              *)
LEMMA MovesToken ==
  ASSUME GrantTypeOK, TokenInv, NEW q \in Request, NEW x,
         req' = [req EXCEPT ![q] = x], UNCHANGED <<entry, rotates, valid, drawn>>,
         x.had \in {None, entry, req[q].had}, x.got \in {None, req[q].got},
         x.at \in {"create", "look", "replace"} => Linking(q) /\ x.got = req[q].got,
         x.at # "put",
         x.at = "refresh" => x.had = entry /\ ~x.stale,
         ~spoilt' => /\ ~spoilt /\ req[q].at # "delete"
                     /\ Writing(q) /\ entry # None /\ ~req[q].stale => req[q].had.ver # entry.ver
  PROVE  TokenInv'
  <1>1. \A o \in Request : req'[o] = IF o = q THEN x ELSE req[o]
    BY DEF GrantTypeOK
  <1>2. DrawnInv'
    BY <1>1 DEF TokenInv, DrawnInv, Seen, Holds
  <1>3. SecretInv'
    <2> SUFFICES ASSUME NEW p \in Request, NEW n \in Number, Secret(p)', Holds(req[p].got, n)'
                 PROVE  /\ ~Holds(entry, n)'
                        /\ \A o \in Request : ~Holds(req[o].had, n)' /\ (o # p => ~Holds(req[o].got, n)')
      BY DEF SecretInv
    <2>1. Secret(p) /\ Holds(req[p].got, n)
      BY <1>1 DEF Secret, Linking, Writing, Holds
    <2>2. /\ ~Holds(entry, n)
          /\ \A o \in Request : ~Holds(req[o].had, n) /\ (o # p => ~Holds(req[o].got, n))
      BY <2>1 DEF TokenInv, SecretInv
    <2>3. QED
      BY <1>1, <2>2 DEF Holds
  <1>4. SameInv'
    BY <1>1 DEF TokenInv, SameInv, Writing
  <1>5. ReadInv'
    BY <1>1 DEF TokenInv, ReadInv
  <1>6. UsableInv'
    <2> SUFFICES ASSUME ~spoilt' PROVE LinkedInv' /\ (Doomed' \/ (WrittenInv' /\ EntryInv'))
      BY DEF UsableInv
    <2>1. LinkedInv'
      BY <1>1 DEF TokenInv, UsableInv, LinkedInv, Linking
    <2>2. CASE Doomed
      <3>1. Doomed'
        BY <1>1, <2>2 DEF Doomed
      <3>2. QED
        BY <2>1, <3>1
    <2>3. CASE WrittenInv /\ EntryInv
      <3>1. WrittenInv'
        BY <1>1, <2>3 DEF WrittenInv, Writing
      <3>2. EntryInv'
        <4>1. entry # None /\ Rescued => Rescued'
          BY <1>1 DEF Rescued, Writing
        <4>2. QED
          BY <2>3, <4>1 DEF EntryInv
      <3>3. QED
        BY <2>1, <3>1, <3>2
    <2>4. QED
      BY <2>2, <2>3 DEF TokenInv, UsableInv
  <1>7. QED
    BY <1>2, <1>3, <1>4, <1>5, <1>6 DEF TokenInv

LEMMA EndsToken ==
  ASSUME GrantTypeOK, TokenInv, NEW q \in Request, Done(q), UNCHANGED <<entry, rotates, valid, drawn>>,
         ~spoilt' => /\ ~spoilt /\ req[q].at # "delete"
                     /\ Writing(q) /\ entry # None /\ ~req[q].stale => req[q].had.ver # entry.ver
  PROVE  TokenInv'
  BY FreeHoldsNothing, MovesToken DEF Done

(* A request writes what it has got: a secret of its own, or the token the *)
(* server left as it was.                                                  *)
LEMMA StoresToken ==
  ASSUME GrantTypeOK, TokenInv, NEW q \in Request, Linking(q) \/ Writing(q),
         entry' \in Entries, entry'.ref = req[q].got.ref,
         Writing(q) /\ req[q].stale => entry'.odd,
         req'[q] = Free,
         \A o \in Request \ {q} :
            /\ req'[o].at = req[o].at /\ req'[o].had = req[o].had
            /\ req'[o].got = req[o].got /\ req'[o].stale = req[o].stale,
         UNCHANGED <<rotates, valid, drawn, spoilt>>
  PROVE  TokenInv'
  <1>1. entry' # None /\ req[q].got # None /\ \A n : Holds(entry', n) <=> Holds(req[q].got, n)
    BY Shapes, EntryAssumption DEF Holds
  <1>2. DrawnInv'
    <2> SUFFICES ASSUME NEW n \in Number, Seen(n)' PROVE n <= drawn
      BY DEF DrawnInv
    <2>1. \A o \in Request : Holds(req'[o].had, n) \/ Holds(req'[o].got, n) =>
                              Holds(req[o].had, n) \/ Holds(req[o].got, n)
      BY FreeHoldsNothing DEF Holds
    <2>2. QED
      BY <1>1, <2>1 DEF TokenInv, DrawnInv, Seen, Holds
  <1>3. SecretInv'
    <2> SUFFICES ASSUME NEW p \in Request, NEW n \in Number, Secret(p)', Holds(req[p].got, n)'
                 PROVE  /\ ~Holds(entry, n)'
                        /\ \A o \in Request : ~Holds(req[o].had, n)' /\ (o # p => ~Holds(req[o].got, n)')
      BY DEF SecretInv
    <2>1. p # q /\ Secret(p) /\ Holds(req[p].got, n)
      BY FreeHoldsNothing DEF Secret, Linking, Writing, Holds
    <2>2. \A o \in Request : ~Holds(req[o].had, n) /\ (o # p => ~Holds(req[o].got, n))
      BY <2>1 DEF TokenInv, SecretInv
    <2>3. ~Holds(entry', n)
      BY <1>1, <2>1, <2>2
    <2>4. QED
      BY <2>2, <2>3, FreeHoldsNothing DEF Holds
  <1>4. SameInv'
    BY FreeHoldsNothing DEF TokenInv, SameInv, Writing
  <1>5. ReadInv'
    <2> SUFFICES ASSUME rotates, entry'.ref # None,
                        NEW o \in Request, req'[o].at = "refresh", req'[o].had.ref = entry'.ref
                 PROVE  FALSE
      BY DEF ReadInv
    <2>1. o # q /\ req[o].had # None /\ req[o].had.ref = req[q].got.ref /\ req[q].got.ref \in Number
      BY Shapes, FreeHoldsNothing
    <2>2. Secret(q) /\ Holds(req[q].got, req[q].got.ref)
      BY <1>1 DEF Secret, Holds
    <2>3. QED
      BY <2>1, <2>2 DEF TokenInv, SecretInv, Holds
  <1>6. UsableInv'
    <2> SUFFICES ASSUME ~spoilt PROVE LinkedInv' /\ (Doomed' \/ (WrittenInv' /\ EntryInv'))
      BY DEF UsableInv
    <2>1. LinkedInv'
      BY FreeHoldsNothing DEF TokenInv, UsableInv, LinkedInv, Linking
    <2>2. CASE Doomed
      <3>1. Doomed'
        BY <2>2 DEF Doomed, Linking, Writing
      <3>2. QED
        BY <2>1, <3>1
    <2>3. CASE WrittenInv
      <3>1. WrittenInv'
        BY <2>3, FreeHoldsNothing DEF WrittenInv, Writing
      <3>2. ~entry'.odd => entry'.ref \in valid \cup {None}
        BY <2>3 DEF TokenInv, UsableInv, LinkedInv, WrittenInv
      <3>3. QED
        BY <2>1, <3>1, <3>2 DEF EntryInv
    <2>4. QED
      BY <2>2, <2>3 DEF TokenInv, UsableInv
  <1>7. QED
    BY <1>2, <1>3, <1>4, <1>5, <1>6 DEF TokenInv

(* The server takes the token back for a new one, or leaves it as it is.   *)
LEMMA RefreshedToken ==
  ASSUME GrantTypeOK, TokenInv, NEW q \in Request, NEW ref \in Number, Refreshed(q, ref)
  PROVE  TokenInv'
  <1> DEFINE x == [req[q] EXCEPT !.at = "put", !.got = Renewed(req[q].had, ref)]
  <1>1. /\ req[q].at = "refresh" /\ req[q].had # None /\ req[q].had \in Entries
        /\ req[q].had.ref \in valid /\ req[q].had.ref \in Number
        /\ Renewed(req[q].had, ref).ref = ref /\ Renewed(req[q].had, ref) # None
    BY Shapes, EntryAssumption DEF Refreshed, Stage, Renewed, Entries
  <1>2. /\ x.at = "put" /\ x.had = req[q].had /\ x.got = Renewed(req[q].had, ref)
        /\ x.stale = req[q].stale
    BY Shapes DEF Requests
  <1>3. req' = [req EXCEPT ![q] = x]
    BY DEF Refreshed, GrantTypeOK
  <1> HIDE DEF x
  <1>4. /\ \A o \in Request \ {q} : req'[o] = req[o]
        /\ req'[q].at = "put" /\ req'[q].had = req[q].had /\ req'[q].stale = req[q].stale
        /\ req'[q].got # None /\ req'[q].got.ref = ref
    BY <1>1, <1>2, <1>3 DEF GrantTypeOK
  <1>5. /\ entry' = entry /\ rotates' = rotates /\ spoilt' = spoilt
        /\ rotates => /\ ref = drawn + 1 /\ drawn' = ref
                      /\ valid' = (valid \ {req[q].had.ref}) \cup {ref}
        /\ ~rotates => ref = req[q].had.ref /\ valid' = valid /\ drawn' = drawn
    BY DEF Refreshed
  <1>6. rotates => ~Holds(entry, ref) /\ \A o \in Request : ~Holds(req[o].had, ref) /\ ~Holds(req[o].got, ref)
    BY <1>5, Shapes DEF TokenInv, DrawnInv, Seen
  <1>7. DrawnInv'
    <2>1. \A n \in Number : Seen(n) => n <= drawn
      BY DEF TokenInv, DrawnInv
    <2>2. drawn \in Nat /\ drawn <= drawn' /\ drawn' \in Nat /\ ref <= drawn' /\ Number \subseteq Nat
      BY <1>1, <1>5, <2>1, Shapes DEF Seen
    <2>3. ASSUME NEW n \in Number, Seen(n)' PROVE n = ref \/ Seen(n)
      BY <1>4, <1>5, <2>3 DEF Seen, Holds
    <2>4. QED
      BY <2>1, <2>2, <2>3 DEF DrawnInv
  <1>8. SecretInv'
    <2> SUFFICES ASSUME NEW p \in Request, NEW n \in Number, Secret(p)', Holds(req[p].got, n)'
                 PROVE  /\ ~Holds(entry, n)'
                        /\ \A o \in Request : ~Holds(req[o].had, n)' /\ (o # p => ~Holds(req[o].got, n)')
      BY DEF SecretInv
    <2>1. CASE p = q
      <3>1. rotates /\ n = ref
        BY <1>4, <1>5, <2>1 DEF Secret, Linking, Writing, Holds
      <3>2. QED
        BY <1>4, <1>5, <1>6, <2>1, <3>1 DEF Holds
    <2>2. CASE p # q
      <3>1. Secret(p) /\ Holds(req[p].got, n)
        BY <1>4, <1>5, <2>2 DEF Secret, Linking, Writing, Holds
      <3>2. ~Holds(entry, n) /\ \A o \in Request : ~Holds(req[o].had, n) /\ (o # p => ~Holds(req[o].got, n))
        BY <3>1 DEF TokenInv, SecretInv
      <3>3. n # ref
        BY <1>1, <1>5, <1>6, <3>1, <3>2 DEF Holds
      <3>4. QED
        BY <1>4, <1>5, <3>2, <3>3 DEF Holds
    <2>3. QED
      BY <2>1, <2>2
  <1>9. SameInv'
    BY <1>4, <1>5 DEF TokenInv, SameInv, Writing
  <1>10. ReadInv'
    BY <1>4, <1>5 DEF TokenInv, ReadInv
  <1>11. UsableInv'
    <2> SUFFICES ASSUME ~spoilt PROVE LinkedInv' /\ (Doomed' \/ (WrittenInv' /\ EntryInv'))
      BY <1>5 DEF UsableInv
    <2>1. \A o \in Request \ {q} : Secret(o) /\ req[o].got.ref \in valid => req[o].got.ref \in valid'
      <3>1. \A o \in Request \ {q} : Secret(o) => ~Holds(req[q].had, req[o].got.ref) \/ req[o].got.ref \notin Number
        BY Shapes DEF TokenInv, SecretInv, Holds, Secret
      <3>2. QED
        BY <1>1, <1>5, <3>1, Shapes DEF Holds
    <2>2. LinkedInv'
      BY <1>4, <2>1 DEF TokenInv, UsableInv, LinkedInv, Linking, Secret
    <2>3. CASE Doomed
      <3>1. Doomed'
        BY <1>1, <1>4, <2>3 DEF Doomed
      <3>2. QED
        BY <2>2, <3>1
    <2>4. CASE WrittenInv /\ EntryInv
      <3>1. WrittenInv'
        BY <1>1, <1>4, <1>5, <2>1, <2>4 DEF WrittenInv, Writing, Secret
      <3>2. EntryInv'
        <4> SUFFICES ASSUME entry # None, ~entry.odd, entry.ref # None
                     PROVE  entry.ref \in valid' \/ Rescued'
          BY <1>5 DEF EntryInv
        <4>1. CASE Rescued
          <5>1. Rescued'
            BY <1>1, <1>4, <1>5, <4>1 DEF Rescued, Writing
          <5>2. QED
            BY <5>1
        <4>2. CASE entry.ref \in valid /\ entry.ref # req[q].had.ref
          BY <1>5, <4>2
        <4>3. CASE entry.ref \in valid /\ entry.ref = req[q].had.ref /\ ~rotates
          BY <1>5, <4>3
        <4>4. CASE entry.ref = req[q].had.ref /\ rotates
          <5>1. ~req[q].stale /\ req[q].had.ver = entry.ver
            BY <1>1, <4>4 DEF TokenInv, ReadInv
          <5>2. Rescued'
            BY <1>4, <1>5, <5>1 DEF Rescued, Writing
          <5>3. QED
            BY <5>2
        <4>5. QED
          BY <2>4, <4>1, <4>2, <4>3, <4>4 DEF EntryInv
      <3>3. QED
        BY <2>2, <3>1, <3>2
    <2>5. QED
      BY <2>3, <2>4 DEF TokenInv, UsableInv
  <1>12. QED
    BY <1>7, <1>8, <1>9, <1>10, <1>11 DEF TokenInv

(* The server gives a token for a code: nobody has seen it.                *)
LEMMA ExchangedToken ==
  ASSUME GrantTypeOK, TokenInv, NEW q \in Request, NEW refreshable \in BOOLEAN, Exchange(q, refreshable)
  PROVE  TokenInv'
  <1> DEFINE ref == IF refreshable THEN drawn' ELSE None
             e == [ver |-> 1, ref |-> ref, of |-> drawn', fresh |-> TRUE, odd |-> FALSE]
             x == [req[q] EXCEPT !.at = "create", !.got = e]
  <1>1. e \in Entries /\ e # None /\ e.ref = ref
    <2>1. drawn' \in Number
      BY BoundsAssumption DEF Exchange, Number, GrantTypeOK
    <2>2. e \in Entries
      BY <2>1 DEF Entries
    <2>3. QED
      BY <2>2, EntryAssumption
  <1>2. x.at = "create" /\ x.had = req[q].had /\ x.got = e
    BY Shapes DEF Requests
  <1>3. req' = [req EXCEPT ![q] = x]
    BY DEF Exchange, GrantTypeOK
  <1> HIDE DEF x, e
  <1>4. /\ \A o \in Request \ {q} : req'[o] = req[o]
        /\ req'[q].at = "create" /\ req'[q].had = req[q].had
        /\ req'[q].got # None /\ req'[q].got.ref = ref
    BY <1>1, <1>2, <1>3 DEF GrantTypeOK
  <1>5. /\ entry' = entry /\ rotates' = rotates /\ spoilt' = spoilt /\ drawn' = drawn + 1
        /\ valid' = IF refreshable THEN valid \cup {drawn'} ELSE valid
        /\ req[q].at = "exchange"
    BY DEF Exchange, Stage
  <1>6. drawn \in Nat /\ drawn' \in Nat /\ \A n \in Number : n \in Nat /\ (Seen(n) => n # drawn')
    <2>1. drawn \in Nat /\ Number \subseteq Nat
      BY Shapes
    <2>2. \A n \in Number : Seen(n) => n <= drawn
      BY DEF TokenInv, DrawnInv
    <2>3. QED
      BY <1>5, <2>1, <2>2
  <1>7. ref \in valid' \cup {None}
    BY <1>5
  <1> HIDE DEF ref
  <1>8. ref = None \/ ref = drawn'
    BY DEF ref
  <1>9. DrawnInv'
    <2>1. ASSUME NEW n \in Number, Seen(n)' PROVE n = drawn' \/ Seen(n)
      BY <1>4, <1>5, <1>8, <2>1, Shapes DEF Seen, Holds
    <2>2. QED
      BY <1>5, <1>6, <2>1 DEF TokenInv, DrawnInv
  <1>10. SecretInv'
    <2> SUFFICES ASSUME NEW p \in Request, NEW n \in Number, Secret(p)', Holds(req[p].got, n)'
                 PROVE  /\ ~Holds(entry, n)'
                        /\ \A o \in Request : ~Holds(req[o].had, n)' /\ (o # p => ~Holds(req[o].got, n)')
      BY DEF SecretInv
    <2>1. CASE p = q
      <3>1. n = drawn'
        BY <1>4, <1>8, <2>1, Shapes DEF Holds
      <3>2. ~Seen(n)
        BY <1>6, <3>1
      <3>3. QED
        BY <1>4, <1>5, <2>1, <3>2 DEF Seen, Holds
    <2>2. CASE p # q
      <3>1. Secret(p) /\ Holds(req[p].got, n)
        BY <1>4, <1>5, <2>2 DEF Secret, Linking, Writing, Holds
      <3>2. ~Holds(entry, n) /\ \A o \in Request : ~Holds(req[o].had, n) /\ (o # p => ~Holds(req[o].got, n))
        BY <3>1 DEF TokenInv, SecretInv
      <3>3. n # ref
        BY <1>6, <1>8, <3>1, Shapes DEF Seen
      <3>4. QED
        BY <1>4, <1>5, <3>2, <3>3 DEF Holds
    <2>3. QED
      BY <2>1, <2>2
  <1>11. SameInv'
    BY <1>4, <1>5 DEF TokenInv, SameInv, Writing
  <1>12. ReadInv'
    BY <1>4, <1>5 DEF TokenInv, ReadInv
  <1>13. UsableInv'
    <2> SUFFICES ASSUME ~spoilt PROVE LinkedInv' /\ (Doomed' \/ (WrittenInv' /\ EntryInv'))
      BY <1>5 DEF UsableInv
    <2>1. valid \subseteq valid'
      BY <1>5
    <2>2. LinkedInv'
      BY <1>4, <1>7, <2>1 DEF TokenInv, UsableInv, LinkedInv, Linking
    <2>3. Doomed => Doomed'
      BY <1>4, <1>5 DEF Doomed
    <2>4. WrittenInv => WrittenInv'
      BY <1>4, <2>1 DEF WrittenInv, Writing
    <2>5. EntryInv => EntryInv'
      <3>1. Rescued => Rescued'
        BY <1>4, <1>5 DEF Rescued, Writing
      <3>2. QED
        BY <1>5, <2>1, <3>1 DEF EntryInv
    <2>6. QED
      BY <2>2, <2>3, <2>4, <2>5 DEF TokenInv, UsableInv
  <1>14. QED
    BY <1>9, <1>10, <1>11, <1>12, <1>13 DEF TokenInv

(* The server revokes a stored token: its entry is next.                   *)
LEMMA PostedToken ==
  ASSUME GrantTypeOK, TokenInv, NEW q \in Request, NEW heard \in BOOLEAN, PostRevocation(q, heard)
  PROVE  TokenInv'
  <1> DEFINE x == [req[q] EXCEPT !.at = "delete", !.had = None, !.stale = FALSE]
  <1>1. x.at = "delete" /\ x.had = None /\ x.got = req[q].got
    BY Shapes DEF Requests
  <1>2. req' = [req EXCEPT ![q] = x]
    BY DEF PostRevocation, GrantTypeOK
  <1> HIDE DEF x
  <1>3. /\ \A o \in Request \ {q} : req'[o] = req[o]
        /\ req'[q].at = "delete" /\ req'[q].had = None /\ req'[q].got = req[q].got
    BY <1>1, <1>2 DEF GrantTypeOK
  <1>4. /\ entry' = entry /\ rotates' = rotates /\ drawn' = drawn /\ spoilt' = spoilt
        /\ req[q].at = "post" /\ req[q].had # None
        /\ \A n : n \in valid' => n \in valid
        /\ \A n \in valid : n = req[q].had.ref \/ n \in valid'
    BY Shapes DEF PostRevocation, Stage
  <1>5. DrawnInv'
    <2>1. ASSUME NEW n \in Number, Seen(n)' PROVE Seen(n)
      BY <1>3, <1>4, <2>1 DEF Seen, Holds
    <2>2. QED
      BY <1>4, <2>1 DEF TokenInv, DrawnInv
  <1>6. SecretInv'
    <2> SUFFICES ASSUME NEW p \in Request, NEW n \in Number, Secret(p)', Holds(req[p].got, n)'
                 PROVE  /\ ~Holds(entry, n)'
                        /\ \A o \in Request : ~Holds(req[o].had, n)' /\ (o # p => ~Holds(req[o].got, n)')
      BY DEF SecretInv
    <2>1. p # q /\ Secret(p) /\ Holds(req[p].got, n)
      BY <1>3, <1>4 DEF Secret, Linking, Writing, Holds
    <2>2. ~Holds(entry, n) /\ \A o \in Request : ~Holds(req[o].had, n) /\ (o # p => ~Holds(req[o].got, n))
      BY <2>1 DEF TokenInv, SecretInv
    <2>3. QED
      BY <1>3, <1>4, <2>2 DEF Holds
  <1>7. SameInv'
    BY <1>3, <1>4 DEF TokenInv, SameInv, Writing
  <1>8. ReadInv'
    BY <1>3, <1>4 DEF TokenInv, ReadInv
  <1>9. UsableInv'
    <2>1. Doomed'
      BY <1>3 DEF Doomed
    <2>2. ASSUME ~spoilt PROVE LinkedInv'
      <3> SUFFICES ASSUME NEW p \in Request, Linking(p)' PROVE req'[p].got.ref \in valid' \cup {None}
        BY DEF LinkedInv
      <3>1. p # q /\ Linking(p) /\ req'[p] = req[p]
        BY <1>3, <1>4 DEF Linking
      <3>2. req[p].got # None /\ req[p].got.ref \in valid \cup {None}
        BY <2>2, <3>1, Shapes DEF TokenInv, UsableInv, LinkedInv
      <3>3. req[p].got.ref \in Number => req[p].got.ref # req[q].had.ref
        BY <1>4, <3>1, <3>2 DEF TokenInv, SecretInv, Secret, Holds
      <3>4. QED
        BY <1>4, <3>1, <3>2, <3>3, Shapes
    <2>3. QED
      BY <1>4, <2>1, <2>2 DEF UsableInv
  <1>10. QED
    BY <1>5, <1>6, <1>7, <1>8, <1>9 DEF TokenInv

(* The entry is gone: every write that is still under way is stale.        *)
LEMMA DeletedToken ==
  ASSUME GrantTypeOK, TokenInv, NEW q \in Request, DeleteEntry(q)
  PROVE  TokenInv'
  <1>1. /\ req'[q].at = "idle" /\ req'[q].had = None /\ req'[q].got = None
        /\ \A o \in Request \ {q} :
             /\ req'[o].at = req[o].at /\ req'[o].had = req[o].had /\ req'[o].got = req[o].got
             /\ req'[o].stale = (req[o].had # None)
    BY DEF DeleteEntry, Passing, Free, GrantTypeOK, Requests
  <1>2. /\ entry' = None /\ req[q].at = "delete"
        /\ rotates' = rotates /\ drawn' = drawn /\ spoilt' = spoilt /\ valid' = valid
    BY DEF DeleteEntry, Stage
  <1>3. DrawnInv'
    <2>1. ASSUME NEW n \in Number, Seen(n)' PROVE Seen(n)
      BY <1>1, <1>2, <2>1 DEF Seen, Holds
    <2>2. QED
      BY <1>2, <2>1 DEF TokenInv, DrawnInv
  <1>4. SecretInv'
    <2> SUFFICES ASSUME NEW p \in Request, NEW n \in Number, Secret(p)', Holds(req[p].got, n)'
                 PROVE  /\ ~Holds(entry, n)'
                        /\ \A o \in Request : ~Holds(req[o].had, n)' /\ (o # p => ~Holds(req[o].got, n)')
      BY DEF SecretInv
    <2>1. p # q /\ Secret(p) /\ Holds(req[p].got, n)
      BY <1>1, <1>2 DEF Secret, Linking, Writing, Holds
    <2>2. \A o \in Request : ~Holds(req[o].had, n) /\ (o # p => ~Holds(req[o].got, n))
      BY <2>1 DEF TokenInv, SecretInv
    <2>3. QED
      BY <1>1, <1>2, <2>2 DEF Holds
  <1>5. SameInv'
    BY <1>1, <1>2 DEF TokenInv, SameInv, Writing
  <1>6. ReadInv'
    BY <1>2 DEF ReadInv
  <1>7. UsableInv'
    <2>1. WrittenInv'
      BY <1>1, Shapes DEF WrittenInv, Writing
    <2>2. EntryInv'
      BY <1>2 DEF EntryInv
    <2>3. ~spoilt => LinkedInv'
      BY <1>1, <1>2 DEF TokenInv, UsableInv, LinkedInv, Linking
    <2>4. QED
      BY <1>2, <2>1, <2>2, <2>3 DEF UsableInv
  <1>8. QED
    BY <1>3, <1>4, <1>5, <1>6, <1>7 DEF TokenInv

LEMMA StepToken ==
  ASSUME GrantInv, TokenInv, NEW q \in Request, GrantStep(q)
  PROVE  TokenInv'
  <1> USE DEF Stage
  <1>0. GrantTypeOK /\ req[q] \in Requests /\ entry \in Entries \cup {None} /\ Calm(entry, req[q])
    BY CalmAll DEF GrantInv, GrantTypeOK
  <1>1. CASE GetEntry(q)
    <2>1. CASE Done(q)
      BY <1>0, <1>1, <2>1, EndsToken DEF GetEntry, Writing
    <2>2. CASE req' = [req EXCEPT ![q].at = "refresh", ![q].had = entry]
      <3> DEFINE x == [req[q] EXCEPT !.at = "refresh", !.had = entry]
      <3>1. /\ x.at = "refresh" /\ x.had = entry /\ x.got = req[q].got /\ ~x.stale
        BY <1>0, <1>1 DEF Requests, Calm, GetEntry
      <3>2. req' = [req EXCEPT ![q] = x]
        BY <2>2 DEF GrantInv, GrantTypeOK
      <3> HIDE DEF x
      <3>3. QED
        BY <1>0, <1>1, <3>1, <3>2, MovesToken DEF GetEntry, Writing
    <2>3. QED
      BY <1>1, <2>1, <2>2 DEF GetEntry
  <1>2. CASE RefreshRejected(q) \/ ServeRaced(q)
    BY <1>0, <1>2, EndsToken DEF RefreshRejected, ServeRaced, Writing
  <1>3. CASE PutRefreshed(q)
    <2>1. CASE Stored(q) /\ Done(q)
      <3>1. req[q].got # None /\ entry' \in Entries
        BY <1>0, <1>3, <2>1, StoredType DEF PutRefreshed, GrantTypeOK
      <3>2. entry'.ref = req[q].got.ref /\ (req[q].stale => entry'.odd)
        BY <1>0, <2>1, <3>1 DEF Stored, Requests, Entries
      <3>3. req'[q] = Free /\ \A o \in Request \ {q} : req'[o] = req[o]
        BY <1>0, <2>1 DEF Done, GrantTypeOK
      <3>4. QED
        BY <1>0, <1>3, <3>1, <3>2, <3>3, StoresToken DEF PutRefreshed, Writing
    <2>2. CASE /\ ~Accepts(q)
               /\ req' = [req EXCEPT ![q] = [Free EXCEPT !.at = "reread", !.past = req[q].past]]
               /\ UNCHANGED entry
      <3> DEFINE x == [Free EXCEPT !.at = "reread", !.past = req[q].past]
      <3>1. x.at = "reread" /\ x.had = None /\ x.got = None
        BY DEF Free
      <3>2. req[q].had # None /\ (entry # None => req[q].had.ver # entry.ver)
        BY <1>0, <1>3, <2>2, Shapes DEF PutRefreshed, Accepts, Version
      <3>3. req' = [req EXCEPT ![q] = x]
        BY <2>2
      <3> HIDE DEF x
      <3>4. QED
        BY <1>0, <1>3, <2>2, <3>1, <3>2, <3>3, MovesToken DEF PutRefreshed
    <2>3. QED
      BY <1>3, <2>1, <2>2 DEF PutRefreshed
  <1>4. ASSUME NEW ref \in Number, Refreshed(q, ref) PROVE TokenInv'
    BY <1>0, <1>4, RefreshedToken
  <1>5. ASSUME NEW refreshable \in BOOLEAN, Exchange(q, refreshable) PROVE TokenInv'
    BY <1>0, <1>5, ExchangedToken
  <1>6. ASSUME StoreLink(q), Linking(q), UNCHANGED <<rotates, valid, drawn, spoilt, turns>> PROVE TokenInv'
    <2>1. req[q].got # None /\ req[q].got \in Entries /\ NextVersion \in Nat \ {0}
      BY <1>0, <1>6, Shapes DEF NextVersion, Version, Entries
    <2>2. entry' \in Entries /\ entry'.ref = req[q].got.ref
      BY <1>6, <2>1 DEF StoreLink, Entries
    <2>3. /\ req'[q] = Free
          /\ \A o \in Request \ {q} : /\ req'[o].at = req[o].at /\ req'[o].had = req[o].had
                                     /\ req'[o].got = req[o].got /\ req'[o].stale = req[o].stale
      BY <1>0, <1>6 DEF StoreLink, Passing, GrantTypeOK, Requests
    <2>4. ~Writing(q)
      BY <1>6 DEF Linking, Writing
    <2>5. QED
      BY <1>0, <1>6, <2>2, <2>3, <2>4, StoresToken
  <1>7. CASE CreateEntry(q)
    <2>1. CASE Go(q, "look") /\ UNCHANGED <<entry, said>>
      <3> DEFINE x == [req[q] EXCEPT !.at = "look"]
      <3>1. x.at = "look" /\ x.had = req[q].had /\ x.got = req[q].got
        BY <1>0 DEF Requests
      <3>2. req' = [req EXCEPT ![q] = x]
        BY <1>0, <2>1 DEF Go, GrantTypeOK
      <3> HIDE DEF x
      <3>3. QED
        BY <1>0, <1>7, <2>1, <3>1, <3>2, MovesToken DEF CreateEntry, Linking, Writing
    <2>2. QED
      BY <1>6, <1>7, <2>1 DEF CreateEntry, Linking
  <1>8. CASE LookEntry(q)
    <2> DEFINE x == [req[q] EXCEPT !.at = "replace", !.had = entry]
    <2>1. x.at = "replace" /\ x.had = entry /\ x.got = req[q].got
      BY <1>0 DEF Requests
    <2>2. req' = [req EXCEPT ![q] = x]
      BY <1>0, <1>8 DEF LookEntry, GrantTypeOK
    <2> HIDE DEF x
    <2>3. QED
      BY <1>0, <1>8, <2>1, <2>2, MovesToken DEF LookEntry, Linking, Writing
  <1>9. CASE ReplaceEntry(q)
    <2>1. CASE Done(q) /\ UNCHANGED <<entry, said>>
      BY <1>0, <1>9, <2>1, EndsToken DEF ReplaceEntry, Writing
    <2>2. QED
      BY <1>6, <1>9, <2>1 DEF ReplaceEntry, Linking
  <1>10. CASE GetRevoked(q)
    <2> DEFINE x == [req[q] EXCEPT !.at = IF entry = None THEN "delete" ELSE "post", !.had = entry]
    <2>1. x.at \in {"delete", "post"} /\ x.had = entry /\ x.got = req[q].got
      BY <1>0 DEF Requests
    <2>2. req' = [req EXCEPT ![q] = x]
      BY <1>0, <1>10 DEF GetRevoked, GrantTypeOK
    <2> HIDE DEF x
    <2>3. QED
      BY <1>0, <1>10, <2>1, <2>2, MovesToken DEF GetRevoked, Writing
  <1>11. CASE DeleteEntry(q)
    BY <1>0, <1>11, DeletedToken
  <1>12. ASSUME NEW heard \in BOOLEAN, PostRevocation(q, heard) PROVE TokenInv'
    BY <1>0, <1>12, PostedToken
  <1>13. QED
    BY <1>1, <1>2, <1>3, <1>4, <1>5, <1>7, <1>8, <1>9, <1>10, <1>11, <1>12 DEF GrantStep

LEMMA NextToken ==
  ASSUME GrantInv, TokenInv, [GrantNext]_grantVars
  PROVE  TokenInv'
  <1>0. GrantTypeOK
    BY DEF GrantInv
  <1>1. ASSUME NEW q \in Request, GrantStep(q) PROVE TokenInv'
    BY <1>1, StepToken
  <1>2. ASSUME NEW q \in Request, Break(q) PROVE TokenInv'
    BY <1>0, <1>2, EndsToken DEF Break, Writing
  <1>3. ASSUME NEW q \in Request, NEW use \in Uses, Begin(q, use) PROVE TokenInv'
    <2> DEFINE x == [Free EXCEPT !.use = use, !.at = IF use = "link" THEN "exchange" ELSE "get"]
    <2>1. x.at \in {"exchange", "get"} /\ x.had = None /\ x.got = None
      BY DEF Free
    <2>2. req' = [req EXCEPT ![q] = x]
      BY <1>3 DEF Begin
    <2> HIDE DEF x
    <2>3. QED
      BY <1>0, <1>3, <2>1, <2>2, MovesToken DEF Begin, Busy, Writing
  <1>4. CASE GrantAges
    <2>1. /\ entry # None /\ entry' # None
          /\ entry'.ver = entry.ver /\ entry'.ref = entry.ref /\ entry'.odd = entry.odd
      BY <1>0, <1>4, EntryAssumption DEF GrantAges, GrantTypeOK, Entries
    <2>2. UNCHANGED <<rotates, valid, drawn, req, spoilt>>
      BY <1>4 DEF GrantAges
    <2>3. QED
      BY <2>1, <2>2 DEF TokenInv, DrawnInv, Seen, Holds, SecretInv, Secret, SameInv, ReadInv, UsableInv,
                        LinkedInv, WrittenInv, EntryInv, Doomed, Rescued, Linking, Writing
  <1>5. ASSUME NEW n \in Number, WithdrawGrant(n) PROVE TokenInv'
    BY <1>5 DEF WithdrawGrant, TokenInv, DrawnInv, Seen, Holds, SecretInv, Secret, SameInv, ReadInv,
                UsableInv, Linking, Writing
  <1>6. CASE UNCHANGED grantVars
    BY <1>6 DEF grantVars, TokenInv, DrawnInv, Seen, Holds, SecretInv, Secret, SameInv, ReadInv, UsableInv,
                LinkedInv, WrittenInv, EntryInv, Doomed, Rescued, Linking, Writing
  <1>7. QED
    BY <1>1, <1>2, <1>3, <1>4, <1>5, <1>6 DEF GrantNext

LEMMA InitToken == GrantInit => TokenInv
  <1> SUFFICES ASSUME GrantInit PROVE TokenInv
    OBVIOUS
  <1>1. \A q \in Request : req[q] = Free
    BY DEF GrantInit
  <1>2. SecretInv /\ SameInv /\ ReadInv /\ LinkedInv /\ WrittenInv
    BY <1>1, FreeHoldsNothing
    DEF SecretInv, Secret, SameInv, ReadInv, LinkedInv, WrittenInv, Linking, Writing
  <1>3. DrawnInv /\ EntryInv
    <2>1. CASE entry = None
      <3>1. valid = {}
        BY <2>1 DEF GrantInit
      <3>2. QED
        BY <1>1, <2>1, <3>1, FreeHoldsNothing DEF DrawnInv, Seen, Holds, EntryInv
    <2>2. CASE entry # None
      <3>1. entry \in [ver : {1}, ref : {1, None}, of : {1}, fresh : BOOLEAN, odd : {FALSE}]
        BY <2>2, Zenon DEF GrantInit
      <3>2. entry.ref \in {1, None} /\ drawn = 1
        BY <2>2, <3>1 DEF GrantInit
      <3>3. valid = IF entry.ref = 1 THEN {1} ELSE {}
        BY <2>2 DEF GrantInit
      <3>4. QED
        BY <1>1, <2>2, <3>2, <3>3, NoneAssumption, FreeHoldsNothing
        DEF DrawnInv, Seen, Holds, EntryInv, Number
    <2>3. QED
      BY <2>1, <2>2
  <1>4. QED
    BY <1>2, <1>3 DEF TokenInv, UsableInv

(* At rest the stored refresh token is one the server accepts, whatever    *)
(* refreshes, links and unlinks raced, unless a request broke off between  *)
(* the server and Vault, or a stale refresh met its version number again.  *)
THEOREM GrantStaysUsable == GrantSpec => []StoredUsable
  <1>1. TokenInv => StoredUsable
    BY DEF TokenInv, UsableInv, EntryInv, Doomed, Rescued, Writing, StoredUsable, Busy
  <1>2. GrantInv /\ TokenInv /\ [GrantNext]_grantVars => TokenInv'
    BY NextToken
  <1>3. QED
    BY <1>1, <1>2, InitToken, GrantInvariant, PTL DEF GrantSpec

=============================================================================

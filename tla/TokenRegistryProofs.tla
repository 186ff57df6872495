------------------------- MODULE TokenRegistryProofs -------------------------
(***************************************************************************)
(* Proofs about TokenRegistry, for every set of principals, tokens, names, *)
(* requests and sweeps, and every number of retries.                       *)
(***************************************************************************)
EXTENDS TokenRegistry, TLAPS

-----------------------------------------------------------------------------
\* Type correctness.  A call that reads or writes an entry must hold the
\* principal whose entry it is.

RequestLabels ==
  {"add.read", "add.write", "add.owner",
   "revoke.get", "index.read", "index.write", "revoke.read", "revoke.write",
   "auth.get", "touch.read", "touch.write"}

ArgsOK ==
  /\ \A c \in Calls : pc[c] \in RequestLabels =>
       req[c].who \in Principals /\ req[c].tok \in Tokens
  /\ \A c \in Calls : pc[c] \in {"sweep.write", "sweep.owner"} =>
       job[c].cur \in Principals

TypeInv == TypeOK /\ ArgsOK

\* The locals of every call.
LocalsInv ==
  /\ pc \in [Calls -> Labels]
  /\ req \in [Calls -> Reqs]
  /\ snap \in [Calls -> Entries]
  /\ isnap \in [Calls -> Indexes]
  /\ tries \in [Calls -> Nat]
  /\ res \in [Calls -> Results]
  /\ job \in [Calls -> Jobs]
  /\ ArgsOK

LEMMA Blanks ==
  /\ Absent \in Entries
  /\ NoIndex \in Indexes
  /\ NoReq \in Reqs
  /\ NoJob \in Jobs
  /\ Unminted \in Pats
  BY DEF Absent, NoIndex, NoReq, NoJob, Unminted, Entries, Indexes, Reqs, Jobs, Pats

LEMMA ReturnLocals ==
  ASSUME TypeInv, NEW c \in Calls, NEW r \in Results, Return(c, r)
  PROVE  LocalsInv'
  BY Blanks DEF TypeInv, TypeOK, ArgsOK, LocalsInv, Return, Labels, RequestLabels

LEMMA ProceedLocals ==
  ASSUME TypeInv, NEW c \in Calls, NEW label \in Labels, Proceed(c, label),
         pc[c] \in RequestLabels \/ label \notin RequestLabels,
         label \notin {"sweep.write", "sweep.owner"}
  PROVE  LocalsInv'
  BY Blanks DEF TypeInv, TypeOK, ArgsOK, LocalsInv, Proceed, Goto

LEMMA ReadEntryLocals ==
  ASSUME TypeInv, NEW c \in Calls, NEW p \in Principals,
         NEW label \in RequestLabels, ReadEntry(c, p, label),
         pc[c] \in RequestLabels
  PROVE  LocalsInv'
  BY DEF TypeInv, TypeOK, ArgsOK, LocalsInv, ReadEntry, Goto, Labels, RequestLabels

LEMMA ReadIndexLocals ==
  ASSUME TypeInv, NEW c \in Calls, NEW label \in Labels, ReadIndex(c, label),
         pc[c] \in RequestLabels \/ label \notin RequestLabels,
         label \notin {"sweep.write", "sweep.owner"}
  PROVE  LocalsInv'
  BY DEF TypeInv, TypeOK, ArgsOK, LocalsInv, ReadIndex, Goto

LEMMA ConflictLocals ==
  ASSUME TypeInv, NEW c \in Calls, NEW retry \in Labels, NEW r \in Results,
         Conflict(c, retry, r),
         pc[c] \in RequestLabels \/ retry \notin RequestLabels,
         retry \notin {"sweep.write", "sweep.owner"}
  PROVE  LocalsInv'
  <1>1. CASE Return(c, r)
    BY <1>1, ReturnLocals
  <1>2. CASE ~Return(c, r)
    BY <1>2, Blanks DEF TypeInv, TypeOK, ArgsOK, LocalsInv, Conflict, Goto
  <1>3. QED
    BY <1>1, <1>2

LEMMA BeginLocals ==
  ASSUME TypeInv, NEW c \in Calls, NEW label \in RequestLabels, NEW r \in Reqs,
         Begin(c, label, r), r.who \in Principals, r.tok \in Tokens
  PROVE  LocalsInv'
  BY DEF TypeInv, TypeOK, ArgsOK, LocalsInv, Begin, Goto, Labels, RequestLabels

LEMMA AnswerLocals ==
  ASSUME TypeInv, NEW c \in Calls, NEW r \in Reqs, NEW answer \in Results,
         Answer(c, r, answer)
  PROVE  LocalsInv'
  BY DEF TypeInv, TypeOK, ArgsOK, LocalsInv, Answer, Goto, Labels, RequestLabels

\* What is left of TypeInv once the locals are taken care of.
LEMMA FromLocals ==
  ASSUME LocalsInv', now' \in Nat, pat' \in [Tokens -> Pats],
         entry' \in [Principals -> Entries],
         owner' \in [Tokens -> Principals \cup {None}], index' \in Indexes
  PROVE  TypeInv'
  BY DEF LocalsInv, TypeInv, TypeOK

LEMMA WriteEntryType ==
  ASSUME TypeInv, NEW p \in Principals, NEW c \in Calls,
         NEW has \in SUBSET Tokens, NEW revoked \in SUBSET Tokens,
         WriteEntry(p, c, has, revoked)
  PROVE  entry' \in [Principals -> Entries]
  <1>1. [ver |-> snap[c].ver + 1, has |-> has, revoked |-> revoked] \in Entries
    BY DEF TypeInv, TypeOK, Entries
  <1>2. QED
    BY <1>1 DEF TypeInv, TypeOK, WriteEntry

LEMMA WriteIndexType ==
  ASSUME TypeInv, NEW c \in Calls, NEW ids \in SUBSET Tokens, WriteIndex(c, ids)
  PROVE  index' \in Indexes
  BY DEF TypeInv, TypeOK, WriteIndex, Indexes

\* Each request and each sweep step keeps the type invariant.
LEMMA MintType ==
  ASSUME TypeInv, NEW c \in Requests, AddRead(c) \/ AddWrite(c) \/ AddOwner(c)
  PROVE  TypeInv'
  <1> DEFINE p == req[c].who
             t == req[c].tok
  <1>0. c \in Calls /\ (pc[c] \in RequestLabels => p \in Principals /\ t \in Tokens)
    BY DEF TypeInv, ArgsOK, Calls
  <1>t. TypeInv
    OBVIOUS
  <1>1. CASE AddRead(c)
    <2>1. pc[c] \in RequestLabels /\ "add.write" \in RequestLabels /\ "duplicate" \in Results
      BY <1>1 DEF AddRead, RequestLabels, Results
    <2>2. LocalsInv'
      <3>1. CASE Return(c, "duplicate")
        BY <3>1, <1>0, <2>1, ReturnLocals
      <3>2. CASE ReadEntry(c, p, "add.write")
        BY <3>2, <1>0, <2>1, ReadEntryLocals
      <3>3. QED
        BY <1>1, <3>1, <3>2 DEF AddRead
    <2>3. UNCHANGED <<now, pat, store>>
      BY <1>1 DEF AddRead
    <2>4. QED
      BY <2>2, <2>3, FromLocals DEF TypeInv, TypeOK, store
  <1>2. CASE AddWrite(c)
    <2>1. /\ pc[c] \in RequestLabels
          /\ "add.owner" \in Labels /\ "add.read" \in Labels /\ "error" \in Results
          /\ {"add.owner", "add.read"} \cap {"sweep.write", "sweep.owner"} = {}
      BY <1>2 DEF AddWrite, RequestLabels, Labels, Results
    <2>2. LocalsInv' /\ entry' \in [Principals -> Entries]
      <3>1. CASE /\ WriteEntry(p, c, snap[c].has \cup {t}, snap[c].revoked)
                 /\ Proceed(c, "add.owner")
        <4>1. snap[c].has \cup {t} \in SUBSET Tokens /\ snap[c].revoked \in SUBSET Tokens
          BY <1>0, <2>1 DEF TypeInv, TypeOK, Entries
        <4>2. QED
          BY <3>1, <4>1, <1>0, <2>1, ProceedLocals, WriteEntryType
      <3>2. CASE Conflict(c, "add.read", "error") /\ UNCHANGED entry
        BY <3>2, <1>0, <2>1, ConflictLocals DEF TypeInv, TypeOK
      <3>3. QED
        BY <1>2, <3>1, <3>2 DEF AddWrite
    <2>3. UNCHANGED <<now, pat, owner, index>>
      BY <1>2 DEF AddWrite
    <2>4. QED
      BY <2>2, <2>3, FromLocals DEF TypeInv, TypeOK
  <1>3. CASE AddOwner(c)
    <2>1. pc[c] \in RequestLabels /\ {"minted", "error"} \subseteq Results
      BY <1>3 DEF AddOwner, RequestLabels, Results
    <2>2. LocalsInv'
      BY <1>3, <1>0, <2>1, ReturnLocals DEF AddOwner, ReturnOrLose
    <2>3. owner' \in [Tokens -> Principals \cup {None}] /\ UNCHANGED <<now, pat, entry, index>>
      BY <1>3, <1>0, <2>1 DEF AddOwner, TypeInv, TypeOK
    <2>4. QED
      BY <2>2, <2>3, FromLocals DEF TypeInv, TypeOK
  <1>4. QED
    BY <1>1, <1>2, <1>3

LEMMA RevokeType ==
  ASSUME TypeInv, NEW c \in Requests, RevokeGet(c) \/ IndexRead(c) \/ IndexWrite(c)
                                     \/ RevokeRead(c) \/ RevokeWrite(c)
  PROVE  TypeInv'
  <1> DEFINE p == req[c].who
             t == req[c].tok
  <1>0. c \in Calls /\ (pc[c] \in RequestLabels => p \in Principals /\ t \in Tokens)
    BY DEF TypeInv, ArgsOK, Calls
  <1>l. /\ {"index.read", "index.write", "revoke.read", "revoke.write"} \subseteq RequestLabels
        /\ {"index.read", "index.write", "revoke.read", "revoke.write"} \subseteq Labels
        /\ {"unknown", "revoked", "error"} \subseteq Results
        /\ RequestLabels \cap {"sweep.write", "sweep.owner"} = {}
    BY DEF RequestLabels, Labels, Results
  <1>1. CASE RevokeGet(c)
    <2>1. pc[c] \in RequestLabels
      BY <1>1 DEF RevokeGet, RequestLabels
    <2>2. LocalsInv'
      BY <1>0, <1>1, <1>l, <2>1, ReturnLocals, ProceedLocals DEF RevokeGet
    <2>3. QED
      BY <1>1, <2>2, FromLocals DEF RevokeGet, TypeInv, TypeOK, store
  <1>2. CASE IndexRead(c)
    <2>1. pc[c] \in RequestLabels
      BY <1>2 DEF IndexRead, RequestLabels
    <2>2. LocalsInv'
      BY <1>0, <1>2, <1>l, <2>1, ReadIndexLocals, ProceedLocals DEF IndexRead
    <2>3. QED
      BY <1>2, <2>2, FromLocals DEF IndexRead, TypeInv, TypeOK, store
  <1>3. CASE IndexWrite(c)
    <2>1. pc[c] \in RequestLabels
      BY <1>3 DEF IndexWrite, RequestLabels
    <2>2. isnap[c].ids \cup {t} \in SUBSET Tokens
      BY <1>0, <2>1 DEF TypeInv, TypeOK, Indexes
    <2>3. LocalsInv' /\ index' \in Indexes
      <3>1. CASE WriteIndex(c, isnap[c].ids \cup {t}) /\ Proceed(c, "revoke.read")
        BY <3>1, <1>0, <1>l, <2>1, <2>2, ProceedLocals, WriteIndexType
      <3>2. CASE Conflict(c, "index.read", "error") /\ UNCHANGED index
        BY <3>2, <1>0, <1>l, <2>1, ConflictLocals DEF TypeInv, TypeOK
      <3>3. QED
        BY <1>3, <3>1, <3>2 DEF IndexWrite
    <2>4. QED
      BY <1>3, <2>3, FromLocals DEF IndexWrite, TypeInv, TypeOK
  <1>4. CASE RevokeRead(c)
    <2>1. pc[c] \in RequestLabels
      BY <1>4 DEF RevokeRead, RequestLabels
    <2>2. LocalsInv'
      BY <1>0, <1>4, <1>l, <2>1, ReturnLocals, ReadEntryLocals DEF RevokeRead
    <2>3. QED
      BY <1>4, <2>2, FromLocals DEF RevokeRead, TypeInv, TypeOK, store
  <1>5. CASE RevokeWrite(c)
    <2>1. pc[c] \in RequestLabels
      BY <1>5 DEF RevokeWrite, RequestLabels
    <2>2. snap[c].has \in SUBSET Tokens /\ snap[c].revoked \cup {t} \in SUBSET Tokens
      BY <1>0, <2>1 DEF TypeInv, TypeOK, Entries
    <2>3. LocalsInv' /\ entry' \in [Principals -> Entries]
      <3>1. CASE /\ WriteEntry(p, c, snap[c].has, snap[c].revoked \cup {t})
                 /\ ReturnOrLose(c, "revoked")
        BY <3>1, <1>0, <1>l, <2>1, <2>2, ReturnLocals, WriteEntryType DEF ReturnOrLose
      <3>2. CASE Conflict(c, "revoke.read", "error") /\ UNCHANGED entry
        BY <3>2, <1>0, <1>l, <2>1, ConflictLocals DEF TypeInv, TypeOK
      <3>3. QED
        BY <1>5, <3>1, <3>2 DEF RevokeWrite
    <2>4. QED
      BY <1>5, <2>3, FromLocals DEF RevokeWrite, TypeInv, TypeOK
  <1>6. QED
    BY <1>1, <1>2, <1>3, <1>4, <1>5

LEMMA AuthType ==
  ASSUME TypeInv, NEW c \in Requests, AuthGet(c) \/ TouchRead(c) \/ TouchWrite(c)
  PROVE  TypeInv'
  <1> DEFINE p == req[c].who
             t == req[c].tok
  <1>0. c \in Calls /\ (pc[c] \in RequestLabels => p \in Principals /\ t \in Tokens)
    BY DEF TypeInv, ArgsOK, Calls
  <1>l. /\ {"touch.read", "touch.write"} \subseteq RequestLabels
        /\ {"touch.read", "touch.write"} \subseteq Labels
        /\ {"principal", "unauthorized", "error"} \subseteq Results
        /\ RequestLabels \cap {"sweep.write", "sweep.owner"} = {}
    BY DEF RequestLabels, Labels, Results
  <1>1. CASE AuthGet(c)
    <2>1. pc[c] \in RequestLabels
      BY <1>1 DEF AuthGet, RequestLabels
    <2>2. LocalsInv'
      BY <1>0, <1>1, <1>l, <2>1, ReturnLocals, ProceedLocals DEF AuthGet, Authority
    <2>3. QED
      BY <1>1, <2>2, FromLocals DEF AuthGet, TypeInv, TypeOK, store
  <1>2. CASE TouchRead(c)
    <2>1. pc[c] \in RequestLabels
      BY <1>2 DEF TouchRead, RequestLabels
    <2>2. LocalsInv'
      BY <1>0, <1>2, <1>l, <2>1, ReturnLocals, ReadEntryLocals DEF TouchRead, Authority
    <2>3. QED
      BY <1>2, <2>2, FromLocals DEF TouchRead, TypeInv, TypeOK, store
  <1>3. CASE TouchWrite(c)
    <2>1. pc[c] \in RequestLabels
      BY <1>3 DEF TouchWrite, RequestLabels
    <2>2. snap[c].has \in SUBSET Tokens /\ snap[c].revoked \in SUBSET Tokens
      BY <1>0 DEF TypeInv, TypeOK, Entries
    <2>3. LocalsInv' /\ entry' \in [Principals -> Entries]
      <3>1. CASE /\ WriteEntry(p, c, snap[c].has, snap[c].revoked)
                 /\ Authority(c) \/ Return(c, "error")
        BY <3>1, <1>0, <1>l, <2>1, <2>2, ReturnLocals, WriteEntryType DEF Authority
      <3>2. CASE /\ \E r \in {"principal", "unauthorized"} : Conflict(c, "touch.read", r)
                 /\ UNCHANGED entry
        BY <3>2, <1>0, <1>l, <2>1, ConflictLocals DEF TypeInv, TypeOK
      <3>3. QED
        BY <1>3, <3>1, <3>2 DEF TouchWrite
    <2>4. QED
      BY <1>3, <2>3, FromLocals DEF TouchWrite, TypeInv, TypeOK
  <1>4. QED
    BY <1>1, <1>2, <1>3

LEMMA StartType ==
  ASSUME TypeInv, NEW c \in Requests, Start(c)
  PROVE  TypeInv'
  <1>0. /\ c \in Calls
        /\ {"add.read", "revoke.get", "auth.get"} \subseteq RequestLabels
        /\ {"unknown", "forbidden", "unauthorized"} \subseteq Results
    BY DEF Calls, RequestLabels, Results
  <1>1. ASSUME NEW t \in Tokens, StartAuth(c, t)
        PROVE  TypeInv'
    <2> DEFINE r == [op |-> "auth", who |-> owner[t], tok |-> t, at |-> 0,
                     late |-> RevokeAcked(t)]
    <2>1. RevokeAcked(t) \in BOOLEAN
      BY DEF RevokeAcked
    <2>2. r \in Reqs /\ (owner[t] # None => r.who \in Principals) /\ r.tok \in Tokens
      BY <1>1, <2>1 DEF TypeInv, TypeOK, Reqs
    <2>3. Answer(c, r, "unauthorized") \/ (owner[t] # None /\ Begin(c, "auth.get", r))
      BY <1>1 DEF StartAuth
    <2> HIDE DEF r
    <2>4. LocalsInv'
      BY <1>0, <2>2, <2>3, BeginLocals, AnswerLocals
    <2>5. QED
      BY <1>1, <2>4, FromLocals DEF StartAuth, TypeInv, TypeOK, store
  <1>2. ASSUME NEW t \in Tokens, NEW p \in Principals, StartRevoke(c, p, t)
        PROVE  TypeInv'
    <2> DEFINE r == [op |-> "revoke", who |-> p, tok |-> t, at |-> 0, late |-> FALSE]
    <2>1. r \in Reqs /\ r.who \in Principals /\ r.tok \in Tokens
      BY <1>2 DEF Reqs
    <2>2. \/ Answer(c, r, "unknown")
          \/ Answer(c, r, "forbidden")
          \/ Begin(c, "revoke.get", r)
      BY <1>2 DEF StartRevoke
    <2> HIDE DEF r
    <2>3. LocalsInv'
      BY <1>0, <2>1, <2>2, BeginLocals, AnswerLocals
    <2>4. QED
      BY <1>2, <2>3, FromLocals DEF StartRevoke, TypeInv, TypeOK, store
  <1>3. ASSUME NEW t \in Tokens, NEW p \in Principals, NEW n \in Names,
               NEW life \in Lifetimes \cup {None}, StartMint(c, p, t, n, life)
        PROVE  TypeInv'
    <2> DEFINE r == [op |-> "mint", who |-> p, tok |-> t, at |-> now, late |-> FALSE]
               e == IF life = None THEN None ELSE now + life
    <2>1. r \in Reqs /\ r.who \in Principals /\ r.tok \in Tokens
      BY <1>3 DEF TypeInv, TypeOK, Reqs
    <2>2. Begin(c, "add.read", r)
      BY <1>3 DEF StartMint
    <2>3. e \in Nat \cup {None}
      BY <1>3, NumberAssumption DEF TypeInv, TypeOK
    <2>4. [owner |-> p, name |-> n, exp |-> e] \in Pats
      BY <1>3, <2>3 DEF Pats
    <2>5. pat' \in [Tokens -> Pats]
      BY <1>3, <2>4 DEF StartMint, TypeInv, TypeOK
    <2> HIDE DEF r
    <2>6. LocalsInv'
      BY <1>0, <2>1, <2>2, BeginLocals
    <2>7. QED
      BY <1>3, <2>5, <2>6, FromLocals DEF StartMint, TypeInv, TypeOK, store
  <1>4. QED
    BY <1>1, <1>2, <1>3 DEF Start

\* A sweep moving its own locals on.
LEMMA SweepLocals ==
  ASSUME TypeInv, NEW c \in Calls, NEW label \in Labels \ RequestLabels,
         NEW j \in Jobs, NEW r \in Reqs, NEW e \in Entries, NEW n \in Nat,
         label \in {"sweep.write", "sweep.owner"} => j.cur \in Principals,
         pc' = [pc EXCEPT ![c] = label], req' = [req EXCEPT ![c] = r],
         snap' = [snap EXCEPT ![c] = e], tries' = [tries EXCEPT ![c] = n],
         job' = [job EXCEPT ![c] = j], UNCHANGED <<isnap, res>>
  PROVE  LocalsInv'
  BY DEF TypeInv, TypeOK, ArgsOK, LocalsInv

LEMMA SweepScanType ==
  ASSUME TypeInv, NEW c \in Sweeps,
         StartSweep(c) \/ SweepList(c) \/ \E p \in Principals : SweepRead(c, p)
  PROVE  TypeInv'
  <1>0. c \in Calls
    BY DEF Calls
  <1>1. CASE StartSweep(c)
    <2>1. [NoReq EXCEPT !.op = "sweep", !.at = now] \in Reqs
      BY Blanks DEF TypeInv, TypeOK, Reqs, NoReq
    <2>2. [job[c] EXCEPT !.before = index.ids] \in Jobs
      BY <1>0 DEF TypeInv, TypeOK, Jobs, Indexes
    <2>3. LocalsInv'
      <3>1. /\ job' = [job EXCEPT ![c] = [job[c] EXCEPT !.before = index.ids]]
            /\ snap' = [snap EXCEPT ![c] = snap[c]]
            /\ tries' = [tries EXCEPT ![c] = tries[c]]
        BY <1>0, <1>1 DEF StartSweep, TypeInv, TypeOK
      <3>2. snap[c] \in Entries /\ tries[c] \in Nat /\ "sweep.list" \in Labels \ RequestLabels
        BY <1>0 DEF TypeInv, TypeOK, Labels, RequestLabels
      <3>3. /\ pc' = [pc EXCEPT ![c] = "sweep.list"]
            /\ req' = [req EXCEPT ![c] = [NoReq EXCEPT !.op = "sweep", !.at = now]]
            /\ UNCHANGED <<isnap, res>>
        BY <1>1 DEF StartSweep, Goto
      <3>4. QED
        BY <1>0, <2>1, <2>2, <3>1, <3>2, <3>3, SweepLocals
    <2>4. QED
      BY <1>1, <2>3, FromLocals DEF StartSweep, TypeInv, TypeOK, store
  <1>2. CASE SweepList(c)
    <2> DEFINE j == job'[c]
    <2>1. j \in Jobs /\ job' = [job EXCEPT ![c] = j]
      BY <1>0, <1>2 DEF SweepList, TypeInv, TypeOK, Jobs
    <2>2. /\ pc' = [pc EXCEPT ![c] = "sweep.read"]
          /\ req' = [req EXCEPT ![c] = req[c]]
          /\ snap' = [snap EXCEPT ![c] = snap[c]]
          /\ tries' = [tries EXCEPT ![c] = tries[c]]
          /\ UNCHANGED <<isnap, res>>
      BY <1>0, <1>2 DEF SweepList, Goto, TypeInv, TypeOK
    <2>3. /\ req[c] \in Reqs /\ snap[c] \in Entries /\ tries[c] \in Nat
          /\ "sweep.read" \in Labels \ RequestLabels
      BY <1>0 DEF TypeInv, TypeOK, Labels, RequestLabels
    <2> HIDE DEF j
    <2>4. LocalsInv'
      BY <1>0, <2>1, <2>2, <2>3, SweepLocals
    <2>5. QED
      BY <1>2, <2>4, FromLocals DEF SweepList, TypeInv, TypeOK, store
  <1>3. CASE \E p \in Principals : SweepRead(c, p)
    <2>1. PICK p \in Principals : SweepRead(c, p)
      BY <1>3
    <2>2. /\ pc[c] = "sweep.read" /\ {"sweep.read", "sweep.write"} \subseteq Labels \ RequestLabels
          /\ req[c] \in Reqs /\ req' = [req EXCEPT ![c] = req[c]]
          /\ entry[p] \in Entries /\ snap[c] \in Entries /\ tries[c] \in Nat
      BY <1>0, <2>1 DEF SweepRead, TypeInv, TypeOK, Labels, RequestLabels
    <2>3. LocalsInv'
      <3>1. CASE Dead(c, entry[p]) = {}
        <4> DEFINE j == [job[c] EXCEPT !.todo = @ \ {p}, !.cur = None]
        <4>1. j \in Jobs
          BY <1>0 DEF TypeInv, TypeOK, Jobs
        <4>2. /\ job' = [job EXCEPT ![c] = j]
              /\ tries' = [tries EXCEPT ![c] = 0]
              /\ UNCHANGED <<pc, snap, isnap, res>>
          BY <2>1, <3>1 DEF SweepRead
        <4>3. /\ pc = [pc EXCEPT ![c] = "sweep.read"]
              /\ snap = [snap EXCEPT ![c] = snap[c]]
          BY <1>0, <2>2 DEF TypeInv, TypeOK
        <4> HIDE DEF j
        <4>4. QED
          BY <1>0, <2>2, <4>1, <4>2, <4>3, SweepLocals
      <3>2. CASE Dead(c, entry[p]) # {}
        <4> DEFINE j == [job[c] EXCEPT !.cur = p]
        <4>1. j \in Jobs /\ j.cur = p
          BY <1>0 DEF TypeInv, TypeOK, Jobs
        <4>2. /\ job' = [job EXCEPT ![c] = j]
              /\ pc' = [pc EXCEPT ![c] = "sweep.write"]
              /\ snap' = [snap EXCEPT ![c] = entry[p]]
              /\ tries' = [tries EXCEPT ![c] = tries[c]]
              /\ UNCHANGED <<isnap, res>>
          BY <1>0, <2>1, <2>2, <3>2 DEF SweepRead, Goto, TypeInv, TypeOK
        <4> HIDE DEF j
        <4>3. QED
          BY <1>0, <2>2, <4>1, <4>2, SweepLocals
      <3>3. QED
        BY <3>1, <3>2
    <2>4. QED
      BY <2>1, <2>3, FromLocals DEF SweepRead, TypeInv, TypeOK, store
  <1>4. QED
    BY <1>1, <1>2, <1>3

LEMMA SweepRemoveType ==
  ASSUME TypeInv, NEW c \in Sweeps, SweepWrite(c) \/ \E t \in Tokens : SweepOwner(c, t)
  PROVE  TypeInv'
  <1>0. c \in Calls
    BY DEF Calls
  <1>1. CASE SweepWrite(c)
    <2> DEFINE p    == job[c].cur
               dead == Dead(c, snap[c])
    <2>1. p \in Principals /\ dead \in SUBSET Tokens
      BY <1>0, <1>1 DEF SweepWrite, Dead, TypeInv, TypeOK, ArgsOK, Entries
    <2>2. CASE Conflict(c, "sweep.read", "error") /\ UNCHANGED entry
      <3>1. LocalsInv'
        BY <1>0, <2>2, ConflictLocals DEF Labels, RequestLabels, Results
      <3>2. QED
        BY <1>1, <2>2, <3>1, FromLocals DEF SweepWrite, TypeInv, TypeOK
    <2>3. CASE /\ Goto(c, "sweep.owner")
               /\ job'   = [job EXCEPT ![c].gone = dead]
               /\ snap'  = [snap EXCEPT ![c] = Absent]
               /\ tries' = [tries EXCEPT ![c] = 0]
               /\ UNCHANGED <<req, isnap, res>>
               /\ \/ WriteEntry(p, c, snap[c].has \ dead, snap[c].revoked \ dead)
                  \/ entry' = [entry EXCEPT ![p] = Absent]
      <3>1. LocalsInv'
        <4> HIDE DEF dead
        <4>1. QED
          BY <1>0, <1>1, <2>1, <2>3, Blanks
          DEF Goto, LocalsInv, TypeInv, TypeOK, ArgsOK, Labels, RequestLabels, Jobs, SweepWrite
      <3>2. entry' \in [Principals -> Entries]
        <4>1. snap[c].has \ dead \in SUBSET Tokens /\ snap[c].revoked \ dead \in SUBSET Tokens
          BY <1>0 DEF TypeInv, TypeOK, Entries
        <4>2. QED
          BY <1>0, <2>1, <2>3, <4>1, WriteEntryType, Blanks DEF TypeInv, TypeOK
      <3>3. QED
        BY <1>1, <3>1, <3>2, FromLocals DEF SweepWrite, TypeInv, TypeOK
    <2>4. QED
      BY <1>1, <2>2, <2>3 DEF SweepWrite
  <1>2. CASE \E t \in Tokens : SweepOwner(c, t)
    <2>1. PICK t \in Tokens : SweepOwner(c, t)
      BY <1>2
    <2> DEFINE left == job[c].gone \ {t}
    <2>2. /\ pc[c] = "sweep.owner" /\ job[c].cur \in Principals
          /\ req[c] \in Reqs /\ snap[c] \in Entries /\ tries[c] \in Nat
          /\ {"sweep.read", "sweep.owner"} \subseteq Labels \ RequestLabels
      BY <1>0, <2>1 DEF SweepOwner, TypeInv, TypeOK, ArgsOK, Labels, RequestLabels
    <2> DEFINE todo == IF left = {} THEN job[c].todo \ {job[c].cur} ELSE job[c].todo
               cur  == IF left = {} THEN None ELSE job[c].cur
               j == [job[c] EXCEPT !.gone = left,
                                   !.prune = @ \cup ({t} \cap job[c].before),
                                   !.todo = todo, !.cur = cur]
               label == IF left = {} THEN "sweep.read" ELSE "sweep.owner"
    <2>3. todo \in SUBSET Principals /\ cur \in Principals \cup {None}
      BY <1>0, <2>2 DEF TypeInv, TypeOK, Jobs
    <2>4. j \in Jobs /\ (label = "sweep.owner" => j.cur \in Principals)
      <3>1. j \in Jobs /\ j.cur = cur
        <4> HIDE DEF todo, cur
        <4>1. QED
          BY <1>0, <2>3 DEF TypeInv, TypeOK, Jobs
      <3>2. QED
        BY <3>1, <2>2
    <2>5. LocalsInv'
      <3>1. /\ job' = [job EXCEPT ![c] = j]
            /\ pc' = [pc EXCEPT ![c] = label]
            /\ req' = [req EXCEPT ![c] = req[c]]
            /\ snap' = [snap EXCEPT ![c] = snap[c]]
            /\ tries' = [tries EXCEPT ![c] = tries[c]]
            /\ UNCHANGED <<isnap, res>>
        BY <1>0, <2>1 DEF SweepOwner, Goto, TypeInv, TypeOK
      <3>2. label \in {"sweep.read", "sweep.owner"}
        OBVIOUS
      <3> HIDE DEF j, label
      <3>3. QED
        BY <1>0, <2>2, <2>4, <3>1, <3>2, SweepLocals
    <2>6. owner' \in [Tokens -> Principals \cup {None}]
      BY <2>1 DEF SweepOwner, TypeInv, TypeOK
    <2>7. QED
      BY <2>1, <2>5, <2>6, FromLocals DEF SweepOwner, TypeInv, TypeOK
  <1>3. QED
    BY <1>1, <1>2

LEMMA PruneType ==
  ASSUME TypeInv, NEW c \in Sweeps, SweepListed(c) \/ PruneRead(c) \/ PruneWrite(c)
  PROVE  TypeInv'
  <1>0. /\ c \in Calls
        /\ {"prune.read", "prune.write"} \subseteq Labels
        /\ {"prune.read", "prune.write"} \cap (RequestLabels \cup {"sweep.write", "sweep.owner"}) = {}
        /\ {"swept", "error"} \subseteq Results
    BY DEF Calls, Labels, RequestLabels, Results
  <1>1. CASE SweepListed(c)
    <2>1. LocalsInv'
      BY <1>0, <1>1, ReturnLocals, ProceedLocals DEF SweepListed
    <2>2. QED
      BY <1>1, <2>1, FromLocals DEF SweepListed, TypeInv, TypeOK, store
  <1>2. CASE PruneRead(c)
    <2>1. LocalsInv'
      BY <1>0, <1>2, ReturnLocals, ReadIndexLocals DEF PruneRead
    <2>2. QED
      BY <1>2, <2>1, FromLocals DEF PruneRead, TypeInv, TypeOK, store
  <1>3. CASE PruneWrite(c)
    <2>1. isnap[c].ids \ job[c].prune \in SUBSET Tokens
      BY <1>0 DEF TypeInv, TypeOK, Indexes
    <2>2. LocalsInv' /\ index' \in Indexes
      <3>1. CASE WriteIndex(c, isnap[c].ids \ job[c].prune) /\ ReturnOrLose(c, "swept")
        BY <3>1, <1>0, <2>1, ReturnLocals, WriteIndexType DEF ReturnOrLose
      <3>2. CASE Conflict(c, "prune.read", "error") /\ UNCHANGED index
        BY <3>2, <1>0, ConflictLocals DEF TypeInv, TypeOK
      <3>3. QED
        BY <1>3, <3>1, <3>2 DEF PruneWrite
    <2>3. QED
      BY <1>3, <2>2, FromLocals DEF PruneWrite, TypeInv, TypeOK
  <1>4. QED
    BY <1>1, <1>2, <1>3

LEMMA InitType == Init => TypeInv
  BY Blanks DEF Init, TypeInv, TypeOK, ArgsOK, Labels, RequestLabels, Results

LEMMA NextType == TypeInv /\ [Next]_vars => TypeInv'
  <1> SUFFICES ASSUME TypeInv, [Next]_vars PROVE TypeInv'
    OBVIOUS
  <1>1. CASE UNCHANGED vars
    BY <1>1 DEF vars, store, TypeInv, TypeOK, ArgsOK
  <1>2. ASSUME NEW c \in Requests, Start(c) PROVE TypeInv'
    BY <1>2, StartType
  <1>3. ASSUME NEW c \in Requests, Step(c) PROVE TypeInv'
    BY <1>3, MintType, RevokeType, AuthType DEF Step
  <1>4. ASSUME NEW c \in Sweeps, StartSweep(c) \/ SweepStep(c) PROVE TypeInv'
    BY <1>4, SweepScanType, SweepRemoveType, PruneType DEF SweepStep
  <1>5. ASSUME NEW c \in Calls, Fault(c) PROVE TypeInv'
    <2>1. LocalsInv'
      BY <1>5, ReturnLocals DEF Fault, Results
    <2>2. QED
      BY <1>5, <2>1, FromLocals DEF Fault, TypeInv, TypeOK, store
  <1>6. CASE Tick
    BY <1>6 DEF Tick, store, TypeInv, TypeOK, ArgsOK
  <1>7. QED
    BY <1>1, <1>2, <1>3, <1>4, <1>5, <1>6 DEF Next

\* No sequence of round trips leaves a variable outside its type: in
\* particular every call that is about to read or write a KV entry holds the
\* principal whose entry it is.
THEOREM TypeCorrect == Spec => [](TypeOK /\ ArgsOK)
  <1>1. Init => TypeInv
    BY InitType
  <1>2. TypeInv /\ [Next]_vars => TypeInv'
    BY NextType
  <1>3. TypeInv => TypeOK /\ ArgsOK
    BY DEF TypeInv
  <1>4. QED
    BY <1>1, <1>2, <1>3, PTL DEF Spec

-----------------------------------------------------------------------------
\* What a step may do, one lemma for each piece of state.

\* Identities are fixed once minted, and the clock does not run backwards.
LEMMA PatStep ==
  ASSUME TypeInv, [Next]_vars
  PROVE  /\ now' \in Nat /\ now <= now'
         /\ \A t \in Tokens : pat[t] # Unminted => pat'[t] = pat[t]
  <1> DEFINE G == /\ now' \in Nat /\ now <= now'
                  /\ \A t \in Tokens : pat[t] # Unminted => pat'[t] = pat[t]
  <1>0. now \in Nat /\ pat \in [Tokens -> Pats]
    BY DEF TypeInv, TypeOK
  <1>1. CASE UNCHANGED <<now, pat>>
    BY <1>0, <1>1
  <1>2. CASE Tick
    BY <1>0, <1>2 DEF Tick
  <1>3. ASSUME NEW c \in Requests, Start(c) PROVE G
    <2>1. UNCHANGED now /\ (UNCHANGED pat \/
            \E t \in Tokens : \E x : pat[t] = Unminted /\ pat' = [pat EXCEPT ![t] = x])
      BY <1>3 DEF Start, StartAuth, StartRevoke, StartMint
    <2>2. QED
      BY <1>0, <2>1
  <1>4. ASSUME NEW c \in Requests, Step(c) PROVE UNCHANGED <<now, pat>>
    BY <1>4
    DEF Step, AddRead, AddWrite, AddOwner, RevokeGet, IndexRead, IndexWrite,
        RevokeRead, RevokeWrite, AuthGet, TouchRead, TouchWrite
  <1>5. ASSUME NEW c \in Sweeps, StartSweep(c) \/ SweepStep(c)
        PROVE  UNCHANGED <<now, pat>>
    BY <1>5
    DEF StartSweep, SweepStep, SweepList, SweepRead, SweepWrite, SweepOwner,
        SweepListed, PruneRead, PruneWrite
  <1>6. CASE (\E c \in Calls : Fault(c)) \/ UNCHANGED vars
    BY <1>1, <1>6 DEF Fault, vars
  <1>7. QED
    BY <1>1, <1>2, <1>3, <1>4, <1>5, <1>6 DEF Next

\* The copy a call holds is kept, dropped, or read afresh.
LEMMA SnapStep ==
  ASSUME TypeInv, [Next]_vars, NEW d \in Calls
  PROVE  \/ snap'[d] = snap[d]
         \/ snap'[d] = Absent
         \/ \E p \in Principals : snap'[d] = entry[p]
  <1> DEFINE G == \/ snap'[d] = snap[d]
                  \/ snap'[d] = Absent
                  \/ \E p \in Principals : snap'[d] = entry[p]
  <1>1. ASSUME NEW c \in Requests, Start(c) PROVE G
    BY <1>1 DEF Start, StartAuth, StartRevoke, StartMint, Begin, Answer
  <1>2. ASSUME NEW c \in Requests, Step(c) PROVE G
    BY <1>2
    DEF Step, AddRead, AddWrite, AddOwner, RevokeGet, IndexRead, IndexWrite,
        RevokeRead, RevokeWrite, AuthGet, TouchRead, TouchWrite, Return, Proceed,
        ReadEntry, ReadIndex, Conflict, Authority, ReturnOrLose,
        TypeInv, TypeOK, ArgsOK, RequestLabels, Calls
  <1>3. ASSUME NEW c \in Sweeps, StartSweep(c) \/ SweepStep(c) PROVE G
    BY <1>3
    DEF StartSweep, SweepStep, SweepList, SweepRead, SweepWrite, SweepOwner,
        SweepListed, PruneRead, PruneWrite, Return, Proceed, ReadIndex, Conflict,
        ReturnOrLose, TypeInv, TypeOK, Calls
  <1>4. CASE (\E c \in Calls : Fault(c)) \/ Tick \/ UNCHANGED vars
    BY <1>4 DEF Fault, Tick, vars, Return, TypeInv, TypeOK
  <1>5. QED
    BY <1>1, <1>2, <1>3, <1>4 DEF Next

\* The same for the copy of the revoked index.
LEMMA IsnapStep ==
  ASSUME TypeInv, [Next]_vars, NEW d \in Calls
  PROVE  isnap'[d] \in {isnap[d], NoIndex, index}
  <1> DEFINE G == isnap'[d] \in {isnap[d], NoIndex, index}
  <1>1. ASSUME NEW c \in Requests, Start(c) PROVE G
    BY <1>1 DEF Start, StartAuth, StartRevoke, StartMint, Begin, Answer
  <1>2. ASSUME NEW c \in Requests, Step(c) PROVE G
    BY <1>2
    DEF Step, AddRead, AddWrite, AddOwner, RevokeGet, IndexRead, IndexWrite,
        RevokeRead, RevokeWrite, AuthGet, TouchRead, TouchWrite, Return, Proceed,
        ReadEntry, ReadIndex, Conflict, Authority, ReturnOrLose, TypeInv, TypeOK, Calls
  <1>3. ASSUME NEW c \in Sweeps, StartSweep(c) \/ SweepStep(c) PROVE G
    BY <1>3
    DEF StartSweep, SweepStep, SweepList, SweepRead, SweepWrite, SweepOwner,
        SweepListed, PruneRead, PruneWrite, Return, Proceed, ReadIndex, Conflict,
        ReturnOrLose, TypeInv, TypeOK, Calls
  <1>4. CASE (\E c \in Calls : Fault(c)) \/ Tick \/ UNCHANGED vars
    BY <1>4 DEF Fault, Tick, vars, Return, TypeInv, TypeOK
  <1>5. QED
    BY <1>1, <1>2, <1>3, <1>4 DEF Next

\* How a by-principal entry may move: not at all, to nothing, or to what one
\* call makes of its copy.
Added(p, c) ==
  /\ pc[c] = "add.write"
  /\ entry'[p].has = snap[c].has \cup {req[c].tok}
  /\ entry'[p].revoked = snap[c].revoked
Marked(p, c) ==
  /\ pc[c] = "revoke.write"
  /\ entry'[p].has = snap[c].has
  /\ entry'[p].revoked = snap[c].revoked \cup {req[c].tok}
Shrunk(p, c) ==
  \E gone \in SUBSET Tokens :
    /\ entry'[p].has = snap[c].has \ gone
    /\ entry'[p].revoked = snap[c].revoked \ gone

LEMMA WrittenEntry ==
  ASSUME TypeInv, NEW c \in Calls, NEW q \in Principals, NEW has, NEW revoked,
         WriteEntry(q, c, has, revoked), NEW p \in Principals
  PROVE  \/ entry'[p] = entry[p]
         \/ entry'[p].has = has /\ entry'[p].revoked = revoked
  BY DEF WriteEntry, TypeInv, TypeOK

LEMMA EntryStep ==
  ASSUME TypeInv, [Next]_vars, NEW p \in Principals
  PROVE  \/ entry'[p] = entry[p]
         \/ entry'[p] = Absent
         \/ \E c \in Calls : Added(p, c) \/ Marked(p, c) \/ Shrunk(p, c)
  <1> DEFINE G == \/ entry'[p] = entry[p]
                  \/ entry'[p] = Absent
                  \/ \E c \in Calls : Added(p, c) \/ Marked(p, c) \/ Shrunk(p, c)
  <1>1. ASSUME NEW c \in Requests, AddWrite(c) PROVE G
    <2>1. c \in Calls /\ pc[c] = "add.write" /\ req[c].who \in Principals
      BY <1>1 DEF AddWrite, TypeInv, ArgsOK, RequestLabels, Calls
    <2>2. \/ UNCHANGED entry
          \/ WriteEntry(req[c].who, c, snap[c].has \cup {req[c].tok}, snap[c].revoked)
      BY <1>1 DEF AddWrite
    <2>3. entry'[p] = entry[p] \/ Added(p, c)
      BY <2>1, <2>2, WrittenEntry DEF Added
    <2>4. QED
      BY <2>1, <2>3
  <1>2. ASSUME NEW c \in Requests, RevokeWrite(c) PROVE G
    <2>1. c \in Calls /\ pc[c] = "revoke.write" /\ req[c].who \in Principals
      BY <1>2 DEF RevokeWrite, TypeInv, ArgsOK, RequestLabels, Calls
    <2>2. \/ UNCHANGED entry
          \/ WriteEntry(req[c].who, c, snap[c].has, snap[c].revoked \cup {req[c].tok})
      BY <1>2 DEF RevokeWrite
    <2>3. entry'[p] = entry[p] \/ Marked(p, c)
      BY <2>1, <2>2, WrittenEntry DEF Marked
    <2>4. QED
      BY <2>1, <2>3
  <1>3. ASSUME NEW c \in Requests, TouchWrite(c) PROVE G
    <2>1. c \in Calls /\ req[c].who \in Principals
      BY <1>3 DEF TouchWrite, TypeInv, ArgsOK, RequestLabels, Calls
    <2>2. \/ UNCHANGED entry
          \/ WriteEntry(req[c].who, c, snap[c].has, snap[c].revoked)
      BY <1>3 DEF TouchWrite
    <2>3. \/ entry'[p] = entry[p]
          \/ entry'[p].has = snap[c].has \ {} /\ entry'[p].revoked = snap[c].revoked \ {}
      <3>1. /\ snap[c].has = snap[c].has \ {} /\ snap[c].revoked = snap[c].revoked \ {}
        BY <2>1 DEF TypeInv, TypeOK, Entries
      <3>2. QED
        BY <2>1, <2>2, <3>1, WrittenEntry
    <2>4. QED
      BY <2>1, <2>3 DEF Shrunk
  <1>4. ASSUME NEW c \in Sweeps, SweepWrite(c) PROVE G
    <2> DEFINE dead == Dead(c, snap[c])
    <2>1. c \in Calls /\ job[c].cur \in Principals /\ dead \in SUBSET Tokens
      BY <1>4 DEF SweepWrite, TypeInv, TypeOK, ArgsOK, Calls, Dead, Entries
    <2>2. \/ UNCHANGED entry
          \/ WriteEntry(job[c].cur, c, snap[c].has \ dead, snap[c].revoked \ dead)
          \/ entry' = [entry EXCEPT ![job[c].cur] = Absent]
      BY <1>4 DEF SweepWrite
    <2> HIDE DEF dead
    <2>3. CASE entry' = [entry EXCEPT ![job[c].cur] = Absent]
      BY <2>1, <2>3 DEF TypeInv, TypeOK
    <2>4. CASE UNCHANGED entry
      BY <2>4
    <2>5. CASE WriteEntry(job[c].cur, c, snap[c].has \ dead, snap[c].revoked \ dead)
      <3>1. \/ entry'[p] = entry[p]
            \/ entry'[p].has = snap[c].has \ dead /\ entry'[p].revoked = snap[c].revoked \ dead
        BY <2>1, <2>5, WrittenEntry
      <3>2. QED
        BY <2>1, <3>1 DEF Shrunk
    <2>6. QED
      BY <2>2, <2>3, <2>4, <2>5
  <1>5. CASE UNCHANGED entry
    BY <1>5
  <1>6. ASSUME NEW c \in Requests, Start(c) PROVE UNCHANGED entry
    BY <1>6 DEF Start, StartAuth, StartRevoke, StartMint, store
  <1>7. ASSUME NEW c \in Requests, Step(c),
               ~AddWrite(c), ~RevokeWrite(c), ~TouchWrite(c)
        PROVE  UNCHANGED entry
    BY <1>7
    DEF Step, AddRead, AddOwner, RevokeGet, IndexRead, IndexWrite, RevokeRead,
        AuthGet, TouchRead, store
  <1>8. ASSUME NEW c \in Sweeps, StartSweep(c) \/ SweepStep(c), ~SweepWrite(c)
        PROVE  UNCHANGED entry
    BY <1>8
    DEF StartSweep, SweepStep, SweepList, SweepRead, SweepOwner, SweepListed,
        PruneRead, PruneWrite, store
  <1>9. CASE (\E c \in Calls : Fault(c)) \/ Tick \/ UNCHANGED vars
    BY <1>9 DEF Fault, Tick, vars, store
  <1> HIDE DEF G
  <1>10. QED
    BY <1>1, <1>2, <1>3, <1>4, <1>5, <1>6, <1>7, <1>8, <1>9 DEF Next, Step, G
\* The revoked index moves only by a check-and-set of one call.
IndexMoved(c) ==
  /\ index.ver = isnap[c].ver
  /\ index'.ver = isnap[c].ver + 1
  /\ \/ index'.ids = isnap[c].ids \cup {req[c].tok}
     \/ index'.ids = isnap[c].ids \ job[c].prune

LEMMA IndexStep ==
  ASSUME TypeInv, [Next]_vars
  PROVE  UNCHANGED index \/ \E c \in Calls : IndexMoved(c)
  <1>1. ASSUME NEW c \in Requests, IndexWrite(c)
        PROVE  UNCHANGED index \/ IndexMoved(c)
    BY <1>1 DEF IndexWrite, IndexMoved, IndexUnmoved, WriteIndex
  <1>2. ASSUME NEW c \in Sweeps, PruneWrite(c)
        PROVE  UNCHANGED index \/ IndexMoved(c)
    BY <1>2 DEF PruneWrite, IndexMoved, IndexUnmoved, WriteIndex
  <1>3. ASSUME NEW c \in Requests, Start(c) PROVE UNCHANGED index
    BY <1>3 DEF Start, StartAuth, StartRevoke, StartMint, store
  <1>4. ASSUME NEW c \in Requests, Step(c), ~IndexWrite(c) PROVE UNCHANGED index
    BY <1>4
    DEF Step, AddRead, AddWrite, AddOwner, RevokeGet, IndexRead, RevokeRead,
        RevokeWrite, AuthGet, TouchRead, TouchWrite, store
  <1>5. ASSUME NEW c \in Sweeps, StartSweep(c) \/ SweepStep(c), ~PruneWrite(c)
        PROVE  UNCHANGED index
    BY <1>5
    DEF StartSweep, SweepStep, SweepList, SweepRead, SweepWrite, SweepOwner,
        SweepListed, PruneRead, store
  <1>6. CASE (\E c \in Calls : Fault(c)) \/ Tick \/ UNCHANGED vars
    BY <1>6 DEF Fault, Tick, vars, store
  <1>7. QED
    BY <1>1, <1>2, <1>3, <1>4, <1>5, <1>6 DEF Next, Calls

\* An owner index entry that exists is only ever dropped by a sweep that has
\* taken its record away.
LEMMA OwnerStep ==
  ASSUME TypeInv, [Next]_vars, NEW t \in Tokens, owner[t] # None, owner'[t] # owner[t]
  PROVE  \E c \in Calls : t \in job[c].gone
  <1>1. ASSUME NEW c \in Requests, AddOwner(c) PROVE FALSE
    BY <1>1 DEF AddOwner, TypeInv, TypeOK
  <1>2. ASSUME NEW c \in Sweeps, NEW u \in Tokens, SweepOwner(c, u)
        PROVE  t \in job[c].gone
    BY <1>2 DEF SweepOwner, TypeInv, TypeOK
  <1>3. ASSUME NEW c \in Requests, Start(c) PROVE FALSE
    BY <1>3 DEF Start, StartAuth, StartRevoke, StartMint, store
  <1>4. ASSUME NEW c \in Requests, Step(c), ~AddOwner(c) PROVE FALSE
    BY <1>4
    DEF Step, AddRead, AddWrite, RevokeGet, IndexRead, IndexWrite, RevokeRead,
        RevokeWrite, AuthGet, TouchRead, TouchWrite, store
  <1>5. ASSUME NEW c \in Sweeps, StartSweep(c) \/ SweepStep(c),
               ~\E u \in Tokens : SweepOwner(c, u)
        PROVE  FALSE
    BY <1>5
    DEF StartSweep, SweepStep, SweepList, SweepRead, SweepWrite,
        SweepListed, PruneRead, PruneWrite, store
  <1>6. CASE (\E c \in Calls : Fault(c)) \/ Tick \/ UNCHANGED vars
    BY <1>6 DEF Fault, Tick, vars, store
  <1>7. QED
    BY <1>1, <1>2, <1>3, <1>4, <1>5, <1>6 DEF Next, Calls

\* A call is stamped with the time it starts at, and never again.
LEMMA ReqStep ==
  ASSUME TypeInv, [Next]_vars, NEW d \in Calls
  PROVE  \/ req'[d] = req[d]
         \/ req'[d].at \in {0, now}
  <1> DEFINE G == req'[d] = req[d] \/ req'[d].at \in {0, now}
  <1>1. ASSUME NEW c \in Requests, Start(c) PROVE G
    BY <1>1 DEF Start, StartAuth, StartRevoke, StartMint, Begin, Answer, TypeInv, TypeOK
  <1>2. ASSUME NEW c \in Requests, Step(c) PROVE UNCHANGED req
    BY <1>2
    DEF Step, AddRead, AddWrite, AddOwner, RevokeGet, IndexRead, IndexWrite,
        RevokeRead, RevokeWrite, AuthGet, TouchRead, TouchWrite, Return, Proceed,
        ReadEntry, ReadIndex, Conflict, Authority, ReturnOrLose
  <1>3. ASSUME NEW c \in Sweeps, StartSweep(c) PROVE G
    BY <1>3 DEF StartSweep, TypeInv, TypeOK, NoReq, Calls
  <1>4. ASSUME NEW c \in Sweeps, SweepStep(c) PROVE UNCHANGED req
    BY <1>4
    DEF SweepStep, SweepList, SweepRead, SweepWrite, SweepOwner, SweepListed,
        PruneRead, PruneWrite, Return, Proceed, ReadIndex, Conflict, ReturnOrLose
  <1>5. CASE (\E c \in Calls : Fault(c)) \/ Tick \/ UNCHANGED vars
    BY <1>5 DEF Fault, Tick, vars, Return
  <1>6. QED
    BY <1>1, <1>2, <1>3, <1>4, <1>5 DEF Next

\* What a sweep takes away comes from the copy it read; what it prunes is
\* what it has taken away.
LEMMA JobStep ==
  ASSUME TypeInv, [Next]_vars, NEW d \in Calls
  PROVE  /\ job'[d].gone \subseteq job[d].gone \cup Dead(d, snap[d])
         /\ job'[d].prune \subseteq job[d].prune \cup job[d].gone
  <1> DEFINE G == /\ job'[d].gone \subseteq job[d].gone \cup Dead(d, snap[d])
                  /\ job'[d].prune \subseteq job[d].prune \cup job[d].gone
  <1>1. CASE job'[d] = job[d] \/ job'[d] = NoJob
    BY <1>1 DEF NoJob
  <1>2. ASSUME NEW c \in Requests, Start(c) PROVE UNCHANGED job
    BY <1>2 DEF Start, StartAuth, StartRevoke, StartMint, Begin, Answer
  <1>3. ASSUME NEW c \in Requests, Step(c) PROVE job'[d] \in {job[d], NoJob}
    BY <1>3
    DEF Step, AddRead, AddWrite, AddOwner, RevokeGet, IndexRead, IndexWrite,
        RevokeRead, RevokeWrite, AuthGet, TouchRead, TouchWrite, Return, Proceed,
        ReadEntry, ReadIndex, Conflict, Authority, ReturnOrLose, TypeInv, TypeOK, Calls
  <1>4. ASSUME NEW c \in Sweeps, StartSweep(c) \/ SweepList(c) \/ SweepListed(c)
                                 \/ PruneRead(c) \/ PruneWrite(c)
        PROVE  G
    BY <1>4
    DEF StartSweep, SweepList, SweepListed, PruneRead, PruneWrite, Return, Proceed,
        ReadIndex, Conflict, ReturnOrLose, TypeInv, TypeOK, Calls, Jobs, NoJob
  <1>5. ASSUME NEW c \in Sweeps, NEW p \in Principals, SweepRead(c, p) PROVE G
    <2>1. \/ job' = [job EXCEPT ![c] = [job[c] EXCEPT !.todo = @ \ {p}, !.cur = None]]
          \/ job' = [job EXCEPT ![c].cur = p]
      BY <1>5 DEF SweepRead
    <2>2. job[c] \in Jobs /\ job \in [Calls -> Jobs]
      BY DEF TypeInv, TypeOK, Calls
    <2>3. PICK x, y : job' = [job EXCEPT ![c] = [job[c] EXCEPT !.todo = x, !.cur = y]]
      <3>1. [job[c] EXCEPT !.cur = p] = [job[c] EXCEPT !.todo = job[c].todo, !.cur = p]
        BY <2>2 DEF Jobs
      <3>2. QED
        BY <2>1, <2>2, <3>1
    <2>4. job'[d].gone = job[d].gone /\ job'[d].prune = job[d].prune
      <3>1. CASE d = c
        BY <2>2, <2>3, <3>1 DEF Jobs
      <3>2. CASE d # c
        BY <2>2, <2>3, <3>2
      <3>3. QED
        BY <3>1, <3>2
    <2>5. QED
      BY <2>4
  <1>6. ASSUME NEW c \in Sweeps, SweepWrite(c) PROVE G
    <2>1. \/ job' = [job EXCEPT ![c].gone = Dead(c, snap[c])]
          \/ Conflict(c, "sweep.read", "error")
      BY <1>6 DEF SweepWrite
    <2>2. CASE Conflict(c, "sweep.read", "error")
      BY <1>1, <2>2 DEF Conflict, Return, TypeInv, TypeOK, Calls
    <2>3. CASE job' = [job EXCEPT ![c].gone = Dead(c, snap[c])]
      BY <2>3 DEF TypeInv, TypeOK, Calls, Jobs
    <2>4. QED
      BY <2>1, <2>2, <2>3
  <1>7. ASSUME NEW c \in Sweeps, NEW t \in Tokens, SweepOwner(c, t) PROVE G
    <2>1. /\ \A e \in Calls \ {c} : job'[e] = job[e]
          /\ job'[c].gone = job[c].gone \ {t}
          /\ job'[c].prune = job[c].prune \cup ({t} \cap job[c].before)
          /\ t \in job[c].gone
      BY <1>7 DEF SweepOwner, TypeInv, TypeOK, Calls, Jobs
    <2>2. QED
      BY <1>1, <2>1
  <1>8. CASE (\E c \in Calls : Fault(c)) \/ Tick \/ UNCHANGED vars
    BY <1>1, <1>8 DEF Fault, Tick, vars, Return, TypeInv, TypeOK
  <1> HIDE DEF G
  <1>9. QED
    BY <1>1, <1>2, <1>3, <1>4, <1>5, <1>6, <1>7, <1>8 DEF Next, SweepStep, G

-----------------------------------------------------------------------------
\* What a step may do to the calls.

\* The three kinds of request, by where they are suspended.
Minting    == {"add.read", "add.write", "add.owner"}
Revoking   == {"revoke.get", "index.read", "index.write", "revoke.read", "revoke.write"}
Presenting == {"auth.get", "touch.read", "touch.write"}

\* A call about to write an entry holds a copy of it; Place is whose entry.
Writing == {"add.write", "revoke.write", "touch.write", "sweep.write"}
Place(c) == IF pc[c] = "sweep.write" THEN job[c].cur ELSE req[c].who

\* A call started stays started and keeps what it was asked, and once
\* answered its answer.
LEMMA CallStep ==
  ASSUME TypeInv, [Next]_vars, NEW d \in Calls
  PROVE  /\ pc[d] # "idle" => req'[d] = req[d] /\ pc'[d] # "idle"
         /\ pc[d] = "done" => pc'[d] = "done" /\ res'[d] = res[d]
         /\ pc'[d] = "done" \/ res'[d] = res[d]
         /\ pc'[d] = "idle" => req'[d] = req[d]
  <1> DEFINE G == /\ pc[d] # "idle" => req'[d] = req[d] /\ pc'[d] # "idle"
                  /\ pc[d] = "done" => pc'[d] = "done" /\ res'[d] = res[d]
                  /\ pc'[d] = "done" \/ res'[d] = res[d]
                  /\ pc'[d] = "idle" => req'[d] = req[d]
  <1>1. ASSUME NEW c \in Requests, Start(c) PROVE G
    BY <1>1 DEF Start, StartAuth, StartRevoke, StartMint, Begin, Answer, Goto, TypeInv, TypeOK
  <1>2. ASSUME NEW c \in Requests, Step(c) PROVE G
    BY <1>2
    DEF Step, AddRead, AddWrite, AddOwner, RevokeGet, IndexRead, IndexWrite,
        RevokeRead, RevokeWrite, AuthGet, TouchRead, TouchWrite, Return, Proceed,
        ReadEntry, ReadIndex, Conflict, Authority, ReturnOrLose, Goto, TypeInv, TypeOK, Calls
  <1>3. ASSUME NEW c \in Sweeps, StartSweep(c) \/ SweepStep(c) PROVE G
    BY <1>3
    DEF StartSweep, SweepStep, SweepList, SweepRead, SweepWrite, SweepOwner,
        SweepListed, PruneRead, PruneWrite, Return, Proceed, ReadIndex, Conflict,
        ReturnOrLose, Goto, TypeInv, TypeOK, Calls
  <1>4. CASE (\E c \in Calls : Fault(c)) \/ Tick \/ UNCHANGED vars
    BY <1>4 DEF Fault, Tick, vars, Return, TypeInv, TypeOK
  <1>5. QED
    BY <1>1, <1>2, <1>3, <1>4 DEF Next

\* A call stays with its kind of work, and each answer has its own last step.
LEMMA WorkStep ==
  ASSUME TypeInv, [Next]_vars, NEW d \in Calls, pc[d] # "idle"
  PROVE  /\ \A work \in {Minting, Revoking, Presenting} : pc'[d] \in work => pc[d] \in work
         /\ pc'[d] \in {"add.read", "add.write"} => pc[d] \in {"add.read", "add.write"}
         /\ pc'[d] = "add.owner" /\ pc[d] # "add.owner" => pc[d] = "add.write"
         /\ res'[d] = "minted" /\ res[d] # "minted" => pc[d] = "add.owner"
         /\ res'[d] = "revoked" /\ res[d] # "revoked" => pc[d] = "revoke.write"
         /\ res'[d] = "principal" /\ res[d] # "principal" => pc[d] \in Presenting
         /\ pc'[d] = "add.owner" \/ pc[d] # "add.owner" \/ res'[d] \in {"minted", "error"}
  <1> DEFINE G ==
         /\ \A work \in {Minting, Revoking, Presenting} : pc'[d] \in work => pc[d] \in work
         /\ pc'[d] \in {"add.read", "add.write"} => pc[d] \in {"add.read", "add.write"}
         /\ pc'[d] = "add.owner" /\ pc[d] # "add.owner" => pc[d] = "add.write"
         /\ res'[d] = "minted" /\ res[d] # "minted" => pc[d] = "add.owner"
         /\ res'[d] = "revoked" /\ res[d] # "revoked" => pc[d] = "revoke.write"
         /\ res'[d] = "principal" /\ res[d] # "principal" => pc[d] \in Presenting
         /\ pc'[d] = "add.owner" \/ pc[d] # "add.owner" \/ res'[d] \in {"minted", "error"}
  <1> USE DEF Minting, Revoking, Presenting
  <1>1. ASSUME NEW c \in Requests, Start(c) PROVE G
    BY <1>1 DEF Start, StartAuth, StartRevoke, StartMint, Begin, Answer, Goto, TypeInv, TypeOK
  <1>2. ASSUME NEW c \in Requests, AddRead(c) \/ AddWrite(c) \/ AddOwner(c) PROVE G
    BY <1>2
    DEF AddRead, AddWrite, AddOwner, Return, Proceed,
        ReadEntry, ReadIndex, Conflict, ReturnOrLose, Goto, TypeInv, TypeOK, Calls
  <1>3. ASSUME NEW c \in Requests, Step(c), ~AddRead(c), ~AddWrite(c), ~AddOwner(c) PROVE G
    BY <1>3
    DEF Step, RevokeGet, IndexRead, IndexWrite,
        RevokeRead, RevokeWrite, AuthGet, TouchRead, TouchWrite, Return, Proceed,
        ReadEntry, ReadIndex, Conflict, Authority, ReturnOrLose, Goto, TypeInv, TypeOK, Calls
  <1>4. ASSUME NEW c \in Sweeps, StartSweep(c) \/ SweepStep(c) PROVE G
    BY <1>4
    DEF StartSweep, SweepStep, SweepList, SweepRead, SweepWrite, SweepOwner,
        SweepListed, PruneRead, PruneWrite, Return, Proceed, ReadIndex, Conflict,
        ReturnOrLose, Goto, TypeInv, TypeOK, Calls
  <1>5. CASE (\E c \in Calls : Fault(c)) \/ Tick \/ UNCHANGED vars
    BY <1>5 DEF Fault, Tick, vars, Return, TypeInv, TypeOK
  <1> HIDE DEF G
  <1>6. QED
    BY <1>1, <1>2, <1>3, <1>4, <1>5 DEF Next, G

\* How a call begins.
Asked(d, op, p, t) == req'[d].op = op /\ req'[d].who = p /\ req'[d].tok = t

\* What a request does at its start.
Mints(d, p, t) ==
  /\ Asked(d, "mint", p, t) /\ pc'[d] = "add.read" /\ res' = res
  /\ pat[t] = Unminted /\ pat'[t].owner = p
Revokes(d, p, t) ==
  /\ Asked(d, "revoke", p, t)
  /\ \/ pc'[d] = "revoke.get" /\ owner[t] = p /\ res' = res
     \/ pc'[d] = "done" /\ res'[d] \in {"unknown", "forbidden"}
Presents(d, t) ==
  /\ Asked(d, "auth", owner[t], t) /\ req'[d].late = RevokeAcked(t)
  /\ \/ pc'[d] = "auth.get" /\ owner[t] # None /\ res' = res
     \/ pc'[d] = "done" /\ res'[d] = "unauthorized"

LEMMA BeginStep ==
  ASSUME TypeInv, [Next]_vars, NEW d \in Calls, pc[d] = "idle", pc'[d] # "idle"
  PROVE  /\ UNCHANGED <<entry, owner, index>>
         /\ \A c \in Calls \ {d} : req'[c] = req[c] /\ pc'[c] = pc[c]
         /\ res' = res \/ pc'[d] = "done"
         /\ \/ /\ d \in Sweeps /\ req'[d].op = "sweep" /\ res' = res
               /\ pc'[d] = "sweep.list"
            \/ /\ d \in Requests
               /\ \E t \in Tokens :
                    Presents(d, t) \/ \E p \in Principals : Mints(d, p, t) \/ Revokes(d, p, t)
  <1> DEFINE G ==
         /\ UNCHANGED <<entry, owner, index>>
         /\ \A c \in Calls \ {d} : req'[c] = req[c] /\ pc'[c] = pc[c]
         /\ res' = res \/ pc'[d] = "done"
         /\ \/ /\ d \in Sweeps /\ req'[d].op = "sweep" /\ res' = res
               /\ pc'[d] = "sweep.list"
            \/ /\ d \in Requests
               /\ \E t \in Tokens :
                    Presents(d, t) \/ \E p \in Principals : Mints(d, p, t) \/ Revokes(d, p, t)
  <1>1. ASSUME NEW c \in Requests, Start(c) PROVE G
    <2>1. PICK t \in Tokens : \/ StartAuth(c, t)
                              \/ \E p \in Principals :
                                   \/ StartRevoke(c, p, t)
                                   \/ \E n \in Names, life \in Lifetimes \cup {None} :
                                        StartMint(c, p, t, n, life)
      BY <1>1 DEF Start
    <2>2. CASE d # c
      BY <2>1, <2>2 DEF StartAuth, StartRevoke, StartMint, Begin, Answer, Goto, TypeInv, TypeOK
    <2>3. CASE d = c /\ StartAuth(c, t)
      BY <2>3 DEF StartAuth, Begin, Answer, Goto, TypeInv, TypeOK, store, Asked, Presents
    <2>4. ASSUME NEW p \in Principals, d = c, StartRevoke(c, p, t) PROVE G
      BY <2>4 DEF StartRevoke, Begin, Answer, Goto, TypeInv, TypeOK, store, Asked, Revokes
    <2>5. ASSUME NEW p \in Principals, NEW n \in Names, NEW life \in Lifetimes \cup {None},
                 d = c, StartMint(c, p, t, n, life)
          PROVE  G
      BY <2>5 DEF StartMint, Begin, Goto, TypeInv, TypeOK, store, Asked, Mints
    <2> HIDE DEF G
    <2>6. QED
      BY <2>1, <2>2, <2>3, <2>4, <2>5
  <1>2. ASSUME NEW c \in Requests, Step(c) PROVE FALSE
    BY <1>2
    DEF Step, AddRead, AddWrite, AddOwner, RevokeGet, IndexRead, IndexWrite,
        RevokeRead, RevokeWrite, AuthGet, TouchRead, TouchWrite, Return, Proceed,
        ReadEntry, ReadIndex, Conflict, Authority, ReturnOrLose, Goto, TypeInv, TypeOK, Calls
  <1>3. ASSUME NEW c \in Sweeps, StartSweep(c) PROVE G
    <2>1. CASE d = c
      BY <1>3, <2>1 DEF StartSweep, Goto, NoReq, store, TypeInv, TypeOK
    <2>2. CASE d # c
      BY <1>3, <2>2 DEF StartSweep, Goto, TypeInv, TypeOK
    <2>3. QED
      BY <2>1, <2>2
  <1>4. ASSUME NEW c \in Sweeps, SweepStep(c) PROVE FALSE
    BY <1>4
    DEF SweepStep, SweepList, SweepRead, SweepWrite, SweepOwner,
        SweepListed, PruneRead, PruneWrite, Return, Proceed, ReadIndex, Conflict,
        ReturnOrLose, Goto, TypeInv, TypeOK, Calls
  <1>5. CASE (\E c \in Calls : Fault(c)) \/ Tick \/ UNCHANGED vars
    BY <1>5 DEF Fault, Tick, vars, Return, TypeInv, TypeOK
  <1> HIDE DEF G
  <1>6. QED
    BY <1>1, <1>2, <1>3, <1>4, <1>5 DEF Next, G

\* Which entry a write is for, and what it makes of the copy it was read into.
\* A sweep may also destroy the entry.
Written(c, has, revoked) ==
  /\ snap[c].ver = entry[Place(c)].ver
  /\ entry' = [entry EXCEPT ![Place(c)] =
                 [ver |-> snap[c].ver + 1, has |-> has, revoked |-> revoked]]

Wrote(c) ==
  \/ /\ c \in Requests /\ pc[c] = "add.write" /\ pc'[c] = "add.owner"
     /\ Written(c, snap[c].has \cup {req[c].tok}, snap[c].revoked)
  \/ /\ c \in Requests /\ pc[c] = "revoke.write" /\ pc'[c] = "done"
     /\ res'[c] \in {"revoked", "error"}
     /\ Written(c, snap[c].has, snap[c].revoked \cup {req[c].tok})
  \/ /\ c \in Requests /\ pc[c] = "touch.write" /\ pc'[c] = "done"
     /\ Written(c, snap[c].has, snap[c].revoked)
  \/ /\ c \in Sweeps /\ pc[c] = "sweep.write" /\ pc'[c] = "sweep.owner"
     /\ \/ Written(c, snap[c].has \ Dead(c, snap[c]), snap[c].revoked \ Dead(c, snap[c]))
        \/ entry' = [entry EXCEPT ![Place(c)] = Absent]

LEMMA WriteStep ==
  ASSUME TypeInv, [Next]_vars, entry' # entry
  PROVE  \E c \in Calls :
           /\ Wrote(c) /\ Place(c) \in Principals
           /\ \A d \in Calls \ {c} : pc'[d] = pc[d] /\ res'[d] = res[d]
           /\ UNCHANGED <<now, pat, owner, index, req>>
  <1> DEFINE G(c) == /\ Wrote(c) /\ Place(c) \in Principals
                     /\ \A d \in Calls \ {c} : pc'[d] = pc[d] /\ res'[d] = res[d]
                     /\ UNCHANGED <<now, pat, owner, index, req>>
  <1>1. ASSUME NEW c \in Requests, AddWrite(c) PROVE G(c)
    BY <1>1
    DEF AddWrite, EntryUnmoved, WriteEntry, Proceed, Goto, Conflict, Wrote, Written, Place,
        TypeInv, TypeOK, ArgsOK, RequestLabels, Calls
  <1>2. ASSUME NEW c \in Requests, RevokeWrite(c) PROVE G(c)
    BY <1>2
    DEF RevokeWrite, EntryUnmoved, WriteEntry, ReturnOrLose, Return, Conflict, Wrote, Written,
        Place, TypeInv, TypeOK, ArgsOK, RequestLabels, Calls
  <1>3. ASSUME NEW c \in Requests, TouchWrite(c) PROVE G(c)
    BY <1>3
    DEF TouchWrite, EntryUnmoved, WriteEntry, Authority, Return, Conflict, Wrote, Written,
        Place, TypeInv, TypeOK, ArgsOK, RequestLabels, Calls
  <1>4. ASSUME NEW c \in Sweeps, SweepWrite(c) PROVE G(c)
    <2>1. /\ c \in Calls /\ pc[c] = "sweep.write" /\ Place(c) = job[c].cur
          /\ job[c].cur \in Principals
      BY <1>4 DEF SweepWrite, Place, TypeInv, ArgsOK, Calls
    <2>2. /\ pc'[c] = "sweep.owner" /\ \A d \in Calls \ {c} : pc'[d] = pc[d]
          /\ UNCHANGED <<now, pat, owner, index, req, res>>
      BY <1>4, <2>1 DEF SweepWrite, Goto, Conflict, TypeInv, TypeOK
    <2>3. \/ Written(c, snap[c].has \ Dead(c, snap[c]), snap[c].revoked \ Dead(c, snap[c]))
          \/ entry' = [entry EXCEPT ![Place(c)] = Absent]
      BY <1>4, <2>1 DEF SweepWrite, EntryUnmoved, WriteEntry, Conflict, Written
    <2>4. QED
      BY <2>1, <2>2, <2>3 DEF Wrote
  <1>6. ASSUME NEW c \in Requests, Start(c) PROVE FALSE
    BY <1>6 DEF Start, StartAuth, StartRevoke, StartMint, store
  <1>7. ASSUME NEW c \in Requests, Step(c),
               ~AddWrite(c), ~RevokeWrite(c), ~TouchWrite(c)
        PROVE  FALSE
    BY <1>7
    DEF Step, AddRead, AddOwner, RevokeGet, IndexRead, IndexWrite, RevokeRead,
        AuthGet, TouchRead, store
  <1>8. ASSUME NEW c \in Sweeps, StartSweep(c) \/ SweepStep(c), ~SweepWrite(c)
        PROVE  FALSE
    BY <1>8
    DEF StartSweep, SweepStep, SweepList, SweepRead, SweepOwner, SweepListed,
        PruneRead, PruneWrite, store
  <1>9. ASSUME (\E c \in Calls : Fault(c)) \/ Tick \/ UNCHANGED vars PROVE FALSE
    BY <1>9 DEF Fault, Tick, vars, store
  <1>10. \/ \E c \in Requests : AddWrite(c) \/ RevokeWrite(c) \/ TouchWrite(c)
         \/ \E c \in Sweeps : SweepWrite(c)
    BY <1>6, <1>7, <1>8, <1>9 DEF Next
  <1>11. QED
    BY <1>1, <1>2, <1>3, <1>4, <1>10 DEF Calls

\* A call about to write an entry has read that entry, then or just now.
LEMMA CopyStep ==
  ASSUME TypeInv, [Next]_vars, NEW d \in Calls, pc'[d] \in Writing
  PROVE  /\ req'[d] = req[d]
         /\ \/ /\ pc'[d] = pc[d] /\ snap'[d] = snap[d] /\ Place(d)' = Place(d)
            \/ /\ snap'[d] = entry[Place(d)'] /\ Place(d)' \in Principals
               /\ UNCHANGED <<now, pat, entry, owner, index>>
               /\ pc'[d] = "add.write" => pc[d] = "add.read"
               /\ pc'[d] = "revoke.write" => req[d].tok \in snap'[d].has
  <1> DEFINE G ==
         /\ req'[d] = req[d]
         /\ \/ /\ pc'[d] = pc[d] /\ snap'[d] = snap[d] /\ Place(d)' = Place(d)
            \/ /\ snap'[d] = entry[Place(d)'] /\ Place(d)' \in Principals
               /\ UNCHANGED <<now, pat, entry, owner, index>>
               /\ pc'[d] = "add.write" => pc[d] = "add.read"
               /\ pc'[d] = "revoke.write" => req[d].tok \in snap'[d].has
  <1> USE DEF Writing
  <1>1. CASE pc'[d] = pc[d] /\ snap'[d] = snap[d] /\ req'[d] = req[d] /\ job'[d] = job[d]
    BY <1>1 DEF Place
  <1>2. ASSUME NEW c \in Requests, Start(c) PROVE G
    BY <1>1, <1>2 DEF Start, StartAuth, StartRevoke, StartMint, Begin, Answer, Goto, TypeInv, TypeOK
  <1>3. ASSUME NEW c \in Requests, Step(c) PROVE G
    <2>1. CASE d # c
      BY <1>1, <1>3, <2>1
      DEF Step, AddRead, AddWrite, AddOwner, RevokeGet, IndexRead, IndexWrite,
          RevokeRead, RevokeWrite, AuthGet, TouchRead, TouchWrite, Return, Proceed,
          ReadEntry, ReadIndex, Conflict, Authority, ReturnOrLose, Goto, TypeInv, TypeOK, Calls
    <2>2. CASE d = c
      BY <1>3, <2>2
      DEF Step, AddRead, AddWrite, AddOwner, RevokeGet, IndexRead, IndexWrite,
          RevokeRead, RevokeWrite, AuthGet, TouchRead, TouchWrite, Return, Proceed,
          ReadEntry, ReadIndex, Conflict, Authority, ReturnOrLose, Goto, TypeInv, TypeOK, Calls,
          ArgsOK, RequestLabels, Place, store
    <2>3. QED
      BY <2>1, <2>2
  <1>4. ASSUME NEW c \in Sweeps, StartSweep(c) \/ SweepList(c) \/ SweepWrite(c)
                 \/ (\E t \in Tokens : SweepOwner(c, t)) \/ SweepListed(c) \/ PruneRead(c) \/ PruneWrite(c)
        PROVE  G
    <2>1. CASE d # c
      BY <1>1, <1>4, <2>1
      DEF StartSweep, SweepList, SweepWrite, SweepOwner,
          SweepListed, PruneRead, PruneWrite, Return, Proceed, ReadIndex, Conflict,
          ReturnOrLose, Goto, TypeInv, TypeOK, Calls
    <2>2. CASE d = c
      BY <1>4, <2>2
      DEF StartSweep, SweepList, SweepWrite, SweepOwner,
          SweepListed, PruneRead, PruneWrite, Return, Proceed, ReadIndex, Conflict,
          ReturnOrLose, Goto, TypeInv, TypeOK, Calls
    <2>3. QED
      BY <2>1, <2>2
  <1>5. ASSUME NEW c \in Sweeps, NEW p \in Principals, SweepRead(c, p) PROVE G
    <2>1. CASE d # c
      BY <1>1, <1>5, <2>1 DEF SweepRead, Goto, TypeInv, TypeOK, Calls
    <2>2. CASE d = c
      <3>1. /\ pc[d] = "sweep.read" /\ pc' = [pc EXCEPT ![d] = "sweep.write"]
            /\ snap' = [snap EXCEPT ![d] = entry[p]] /\ job' = [job EXCEPT ![d].cur = p]
            /\ UNCHANGED <<now, pat, entry, owner, index, req>>
        BY <1>5, <2>2 DEF SweepRead, Goto, store
      <3>2. job'[d].cur = p
        BY <3>1 DEF TypeInv, TypeOK, Jobs
      <3>3. QED
        BY <3>1, <3>2 DEF Place, TypeInv, TypeOK
    <2>3. QED
      BY <2>1, <2>2
  <1>6. CASE (\E c \in Calls : Fault(c)) \/ Tick \/ UNCHANGED vars
    BY <1>1, <1>6 DEF Fault, Tick, vars, Return, TypeInv, TypeOK
  <1> HIDE DEF G
  <1>7. ASSUME NEW c \in Sweeps, SweepStep(c) PROVE G
    BY <1>4, <1>5, <1>7 DEF SweepStep
  <1>8. QED
    BY <1>2, <1>3, <1>4, <1>6, <1>7 DEF Next, G

\* An owner index entry comes only from the mint of its PAT.
LEMMA OwnerWritten ==
  ASSUME TypeInv, [Next]_vars, NEW t \in Tokens, owner'[t] # owner[t], owner'[t] # None
  PROVE  \E c \in Requests : /\ pc[c] = "add.owner" /\ req[c].tok = t /\ owner'[t] = req[c].who
                             /\ res'[c] \in {"minted", "error"} /\ owner[t] = None
  <1>1. ASSUME NEW c \in Requests, AddOwner(c)
        PROVE  /\ pc[c] = "add.owner" /\ req[c].tok = t /\ owner'[t] = req[c].who
               /\ res'[c] \in {"minted", "error"} /\ owner[t] = None
    BY <1>1 DEF AddOwner, ReturnOrLose, Return, TypeInv, TypeOK, Calls
  <1>2. ASSUME NEW c \in Sweeps, NEW u \in Tokens, SweepOwner(c, u) PROVE FALSE
    BY <1>2 DEF SweepOwner, TypeInv, TypeOK
  <1>3. ASSUME NEW c \in Requests, Start(c) PROVE FALSE
    BY <1>3 DEF Start, StartAuth, StartRevoke, StartMint, store
  <1>4. ASSUME NEW c \in Requests, Step(c), ~AddOwner(c) PROVE FALSE
    BY <1>4
    DEF Step, AddRead, AddWrite, RevokeGet, IndexRead, IndexWrite, RevokeRead,
        RevokeWrite, AuthGet, TouchRead, TouchWrite, store
  <1>5. ASSUME NEW c \in Sweeps, StartSweep(c) \/ SweepStep(c),
               ~\E u \in Tokens : SweepOwner(c, u)
        PROVE  FALSE
    BY <1>5
    DEF StartSweep, SweepStep, SweepList, SweepRead, SweepWrite,
        SweepListed, PruneRead, PruneWrite, store
  <1>6. ASSUME (\E c \in Calls : Fault(c)) \/ Tick \/ UNCHANGED vars PROVE FALSE
    BY <1>6 DEF Fault, Tick, vars, store
  <1>7. QED
    BY <1>1, <1>2, <1>3, <1>4, <1>5, <1>6 DEF Next

\* The last step of a mint makes the owner index entry, whether or not its
\* caller hears of it.
LEMMA MintEnds ==
  ASSUME TypeInv, [Next]_vars, NEW c \in Calls, pc[c] = "add.owner", pc'[c] # "add.owner"
  PROVE  res'[c] = "error" \/ (owner'[req[c].tok] # None /\ req[c].who \in Principals)
  <1> DEFINE G == res'[c] = "error" \/ (owner'[req[c].tok] # None /\ req[c].who \in Principals)
  <1>0. req[c].who \in Principals /\ req[c].tok \in Tokens /\ None \notin Principals
    BY NoneAssumption DEF TypeInv, ArgsOK, RequestLabels
  <1>1. ASSUME NEW d \in Requests, Start(d) PROVE FALSE
    BY <1>1 DEF Start, StartAuth, StartRevoke, StartMint, Begin, Answer, Goto, TypeInv, TypeOK
  <1>2. ASSUME NEW d \in Requests, AddOwner(d) PROVE G
    BY <1>0, <1>2 DEF AddOwner, ReturnOrLose, Return, TypeInv, TypeOK
  <1>3. ASSUME NEW d \in Requests, Step(d), ~AddOwner(d) PROVE FALSE
    BY <1>3
    DEF Step, AddRead, AddWrite, RevokeGet, IndexRead, IndexWrite,
        RevokeRead, RevokeWrite, AuthGet, TouchRead, TouchWrite, Return, Proceed,
        ReadEntry, ReadIndex, Conflict, Authority, ReturnOrLose, Goto, TypeInv, TypeOK
  <1>4. ASSUME NEW d \in Sweeps, StartSweep(d) \/ SweepStep(d) PROVE FALSE
    BY <1>4
    DEF StartSweep, SweepStep, SweepList, SweepRead, SweepWrite, SweepOwner,
        SweepListed, PruneRead, PruneWrite, Return, Proceed, ReadIndex, Conflict,
        ReturnOrLose, Goto, TypeInv, TypeOK
  <1>5. ASSUME NEW d \in Calls, Fault(d) PROVE G
    BY <1>5 DEF Fault, Return, TypeInv, TypeOK
  <1>6. ASSUME Tick \/ UNCHANGED vars PROVE FALSE
    BY <1>6 DEF Tick, vars
  <1>7. QED
    BY <1>1, <1>2, <1>3, <1>4, <1>5, <1>6 DEF Next

\* Only a revoke adds to the revoked index.
LEMMA DenyStep ==
  ASSUME TypeInv, [Next]_vars, NEW t \in index'.ids, t \notin index.ids
  PROVE  \E c \in Calls : \/ t \in isnap[c].ids
                          \/ c \in Requests /\ pc[c] = "index.write" /\ t = req[c].tok
  <1>1. ASSUME NEW c \in Requests, IndexWrite(c)
        PROVE  t \in isnap[c].ids \/ (pc[c] = "index.write" /\ t = req[c].tok)
    BY <1>1 DEF IndexWrite, WriteIndex
  <1>2. ASSUME NEW c \in Sweeps, PruneWrite(c)
        PROVE  t \in isnap[c].ids
    BY <1>2 DEF PruneWrite, WriteIndex
  <1>3. ASSUME NEW c \in Requests, Start(c) PROVE FALSE
    BY <1>3 DEF Start, StartAuth, StartRevoke, StartMint, store
  <1>4. ASSUME NEW c \in Requests, Step(c), ~IndexWrite(c) PROVE FALSE
    BY <1>4
    DEF Step, AddRead, AddWrite, AddOwner, RevokeGet, IndexRead, RevokeRead,
        RevokeWrite, AuthGet, TouchRead, TouchWrite, store
  <1>5. ASSUME NEW c \in Sweeps, StartSweep(c) \/ SweepStep(c), ~PruneWrite(c)
        PROVE  FALSE
    BY <1>5
    DEF StartSweep, SweepStep, SweepList, SweepRead, SweepWrite, SweepOwner,
        SweepListed, PruneRead, store
  <1>6. ASSUME (\E c \in Calls : Fault(c)) \/ Tick \/ UNCHANGED vars PROVE FALSE
    BY <1>6 DEF Fault, Tick, vars, store
  <1>7. QED
    BY <1>1, <1>2, <1>3, <1>4, <1>5, <1>6 DEF Next, Calls

\* The last step of a mint's or a revoke's own write is that write.
LEMMA AddEnds ==
  ASSUME TypeInv, [Next]_vars, NEW c \in Calls, pc[c] = "add.write", pc'[c] = "add.owner"
  PROVE  Written(c, snap[c].has \cup {req[c].tok}, snap[c].revoked)
  <1> DEFINE G == Written(c, snap[c].has \cup {req[c].tok}, snap[c].revoked)
  <1>1. ASSUME NEW d \in Requests, Start(d) PROVE FALSE
    BY <1>1 DEF Start, StartAuth, StartRevoke, StartMint, Begin, Answer, Goto, TypeInv, TypeOK
  <1>2. ASSUME NEW d \in Requests, AddWrite(d) PROVE G
    BY <1>2
    DEF AddWrite, EntryUnmoved, WriteEntry, Proceed, Goto, Conflict, Return, Written, Place,
        TypeInv, TypeOK, Calls
  <1>3. ASSUME NEW d \in Requests, Step(d), ~AddWrite(d) PROVE FALSE
    BY <1>3
    DEF Step, AddRead, AddOwner, RevokeGet, IndexRead, IndexWrite,
        RevokeRead, RevokeWrite, AuthGet, TouchRead, TouchWrite, Return, Proceed,
        ReadEntry, ReadIndex, Conflict, Authority, ReturnOrLose, Goto, TypeInv, TypeOK
  <1>4. ASSUME NEW d \in Sweeps, StartSweep(d) \/ SweepStep(d) PROVE FALSE
    BY <1>4
    DEF StartSweep, SweepStep, SweepList, SweepRead, SweepWrite, SweepOwner,
        SweepListed, PruneRead, PruneWrite, Return, Proceed, ReadIndex, Conflict,
        ReturnOrLose, Goto, TypeInv, TypeOK
  <1>5. ASSUME (\E d \in Calls : Fault(d)) \/ Tick \/ UNCHANGED vars PROVE FALSE
    BY <1>5 DEF Fault, Return, Tick, vars, TypeInv, TypeOK
  <1>6. QED
    BY <1>1, <1>2, <1>3, <1>4, <1>5 DEF Next

LEMMA RevokeEnds ==
  ASSUME TypeInv, [Next]_vars, NEW c \in Calls, pc[c] = "revoke.write",
         res'[c] = "revoked", res[c] # "revoked"
  PROVE  Written(c, snap[c].has, snap[c].revoked \cup {req[c].tok})
  <1> DEFINE G == Written(c, snap[c].has, snap[c].revoked \cup {req[c].tok})
  <1>1. ASSUME NEW d \in Requests, Start(d) PROVE FALSE
    BY <1>1 DEF Start, StartAuth, StartRevoke, StartMint, Begin, Answer, Goto, TypeInv, TypeOK
  <1>2. ASSUME NEW d \in Requests, RevokeWrite(d) PROVE G
    BY <1>2
    DEF RevokeWrite, EntryUnmoved, WriteEntry, ReturnOrLose, Goto, Conflict, Return, Written,
        Place, TypeInv, TypeOK, Calls
  <1>3. ASSUME NEW d \in Requests, Step(d), ~RevokeWrite(d) PROVE FALSE
    BY <1>3
    DEF Step, AddRead, AddWrite, AddOwner, RevokeGet, IndexRead, IndexWrite,
        RevokeRead, AuthGet, TouchRead, TouchWrite, Return, Proceed,
        ReadEntry, ReadIndex, Conflict, Authority, ReturnOrLose, Goto, TypeInv, TypeOK
  <1>4. ASSUME NEW d \in Sweeps, StartSweep(d) \/ SweepStep(d) PROVE FALSE
    BY <1>4
    DEF StartSweep, SweepStep, SweepList, SweepRead, SweepWrite, SweepOwner,
        SweepListed, PruneRead, PruneWrite, Return, Proceed, ReadIndex, Conflict,
        ReturnOrLose, Goto, TypeInv, TypeOK
  <1>5. ASSUME (\E d \in Calls : Fault(d)) \/ Tick \/ UNCHANGED vars PROVE FALSE
    BY <1>5 DEF Fault, Return, Tick, vars, TypeInv, TypeOK
  <1>6. QED
    BY <1>1, <1>2, <1>3, <1>4, <1>5 DEF Next

\* A presented PAT gets past its first check only if its record passes.
LEMMA AuthStep ==
  ASSUME TypeInv, [Next]_vars, NEW d \in Calls, pc[d] # "idle",
         pc'[d] \in {"touch.read", "touch.write"} \/ res'[d] = "principal"
  PROVE  \/ pc[d] \in {"touch.read", "touch.write"} \/ res[d] = "principal"
         \/ pc[d] = "auth.get" /\ Accepted(d)
  <1> DEFINE G == \/ pc[d] \in {"touch.read", "touch.write"} \/ res[d] = "principal"
                  \/ pc[d] = "auth.get" /\ Accepted(d)
  <1>1. ASSUME NEW c \in Requests, Start(c) PROVE G
    BY <1>1 DEF Start, StartAuth, StartRevoke, StartMint, Begin, Answer, Goto, TypeInv, TypeOK
  <1>2. ASSUME NEW c \in Requests, Step(c) PROVE G
    <2> HIDE DEF Accepted
    <2>1. QED
      BY <1>2
      DEF Step, AddRead, AddWrite, AddOwner, RevokeGet, IndexRead, IndexWrite,
          RevokeRead, RevokeWrite, AuthGet, TouchRead, TouchWrite, Return, Proceed,
          ReadEntry, ReadIndex, Conflict, Authority, ReturnOrLose, Goto, TypeInv, TypeOK, Calls
  <1>3. ASSUME NEW c \in Sweeps, StartSweep(c) \/ SweepStep(c) PROVE G
    BY <1>3
    DEF StartSweep, SweepStep, SweepList, SweepRead, SweepWrite, SweepOwner,
        SweepListed, PruneRead, PruneWrite, Return, Proceed, ReadIndex, Conflict,
        ReturnOrLose, Goto, TypeInv, TypeOK, Calls
  <1>4. CASE (\E c \in Calls : Fault(c)) \/ Tick \/ UNCHANGED vars
    BY <1>4 DEF Fault, Tick, vars, Return, TypeInv, TypeOK
  <1>5. QED
    BY <1>1, <1>2, <1>3, <1>4 DEF Next
=============================================================================

------------------------- MODULE PrincipalCacheProofs -------------------------
(***************************************************************************)
(* Proofs about PrincipalCache and its watch on the writes to Vault        *)
(* (module MCPrincipalCache), for every set of replicas, calls and values, *)
(* every interval, every timeout and every clock skew.                     *)
(***************************************************************************)
EXTENDS MCPrincipalCache, TLAPS

-----------------------------------------------------------------------------
\* Type correctness.  A call that has begun must know its replica.

HomeOK == \A c \in Calls : pc[c] \notin {"idle", "done"} => home[c] \in Replicas

TypeInv == TypeOK /\ HomeOK

\* The part of TypeInv that is about calls.
CallsInv ==
  /\ pc \in [Calls -> Labels]
  /\ home \in [Calls -> Replicas \cup {None}]
  /\ loc \in [Calls -> Locals]
  /\ answer \in Answers
  /\ HomeOK

LEMMA NeverInt == Never \in Int
  BY BoundAssumption DEF Never

LEMMA Blanks ==
  NoEntry \in Entries /\ NoLocals \in Locals /\ NoAnswer \in Answers
  BY NeverInt DEF NoEntry, NoLocals, NoAnswer, Entries, Locals, Answers

LEMMA WallType ==
  ASSUME now \in Nat, NEW r
  PROVE  Wall(r) \in Nat /\ now <= Wall(r) /\ Wall(r) <= now + Drift
  BY BoundAssumption DEF Wall

\* The call ends with an answer.
LEMMA AnswerCalls ==
  ASSUME TypeInv, NEW c \in Calls, NEW how, NEW val \in Values \cup {None}, NEW t \in Nat,
         how \in {"memory", "record", "directory", "stale", "unavailable"},
         Answer(c, how, val, t), loc' \in [Calls -> Locals]
  PROVE  CallsInv'
  <1>1. answer' \in Answers
    BY DEF Answer, Answers
  <1>2. /\ pc' \in [Calls -> Labels]
        /\ home' \in [Calls -> Replicas \cup {None}]
        /\ HomeOK'
    BY DEF Answer, TypeInv, TypeOK, HomeOK, Labels
  <1>3. QED
    BY <1>1, <1>2 DEF CallsInv

LEMMA ReturnCalls ==
  ASSUME TypeInv, NEW c \in Calls, NEW how, NEW val \in Values \cup {None}, NEW t \in Nat,
         how \in {"memory", "record", "directory", "stale", "unavailable"},
         Return(c, how, val, t)
  PROVE  CallsInv'
  <1>1. Answer(c, how, val, t) /\ loc' = [loc EXCEPT ![c] = NoLocals]
    BY DEF Return
  <1>2. loc' \in [Calls -> Locals]
    BY <1>1, Blanks DEF TypeInv, TypeOK
  <1>3. QED
    BY <1>1, <1>2, AnswerCalls

\* The call goes on to another round trip.
LEMMA AwaitCalls ==
  ASSUME TypeInv, NEW c \in Calls, NEW label \in Labels, NEW l \in Locals,
         Await(c, label, l), home[c] \in Replicas
  PROVE  CallsInv'
  <1>1. [l EXCEPT !.since = now] \in Locals
    BY DEF Locals, TypeInv, TypeOK
  <1>2. loc' \in [Calls -> Locals] /\ pc' \in [Calls -> Labels]
    BY <1>1 DEF Await, TypeInv, TypeOK
  <1>3. answer' \in Answers
    BY Blanks DEF Await, Silent
  <1>4. home' = home /\ HomeOK'
    BY DEF Await, TypeInv, HomeOK, TypeOK
  <1>5. QED
    BY <1>2, <1>3, <1>4 DEF CallsInv, TypeInv, TypeOK

\* The rest of the state.
StoreInv ==
  /\ now \in Nat
  /\ truth \in Values \cup {None}
  /\ changes \in Nat
  /\ until \in [Values -> Int]
  /\ rec \in [val : Values \cup {None}, at : Nat]
  /\ mem \in [Replicas -> Entries]
  /\ lock \in [Replicas -> Calls \cup {None}]

LEMMA Parts ==
  /\ TypeInv => StoreInv
  /\ CallsInv' /\ StoreInv' => TypeInv'
  BY DEF TypeInv, TypeOK, CallsInv, StoreInv

LEMMA ReleaseType ==
  ASSUME TypeInv, NEW c \in Calls, Release(c)
  PROVE  lock' \in [Replicas -> Calls \cup {None}]
  BY DEF Release, TypeInv, TypeOK

LEMMA LocalsType ==
  ASSUME TypeInv, NEW c \in Calls
  PROVE  /\ loc[c] \in Locals
         /\ loc[c].t0 \in Nat /\ loc[c].stamp \in Nat /\ loc[c].since \in Nat /\ loc[c].tries \in Nat
         /\ loc[c].ent \in Entries
         /\ loc[c].ent.val \in Values \cup {None}
         /\ loc[c].ent.fetched \in Int /\ loc[c].ent.persisted \in Int
         /\ loc[c].got \in Values \cup {None}
  BY DEF TypeInv, TypeOK, Locals, Entries

LEMMA ConfirmedType ==
  ASSUME TypeInv, NEW c \in Calls, NEW t \in Int
  PROVE  Confirmed(c, t) \in Entries
  BY LocalsType DEF Confirmed, Entries

\* The lock is given back and the entry replaced.
LEMMA RefreshedType ==
  ASSUME TypeInv, NEW c \in Calls, NEW t \in Int, Refreshed(c, t),
         UNCHANGED <<now, truth, changes, until, rec>>
  PROVE  TypeInv'
  <1>1. Confirmed(c, t) \in Entries
    BY ConfirmedType
  <1>2. mem' \in [Replicas -> Entries]
    BY <1>1 DEF Refreshed, TypeInv, TypeOK
  <1>3. lock' \in [Replicas -> Calls \cup {None}]
    BY ReleaseType DEF Refreshed
  <1>4. CallsInv'
    BY ReturnCalls, LocalsType DEF Refreshed
  <1>5. QED
    BY <1>2, <1>3, <1>4, Parts DEF StoreInv

LEMMA GetType ==
  ASSUME TypeInv, NEW c \in Calls, NEW r \in Replicas, Get(c, r)
  PROVE  TypeInv'
  <1>1. StoreInv'
    BY Parts DEF Get, StoreInv
  <1>2. CASE Return(c, "memory", mem[r].val, now)
    <2>1. mem[r].val \in Values \cup {None} /\ now \in Nat
      BY DEF TypeInv, TypeOK, Entries
    <2>2. QED
      BY <1>1, <1>2, <2>1, ReturnCalls, Parts
  <1>3. CASE /\ pc'   = [pc EXCEPT ![c] = "wait"]
             /\ home' = [home EXCEPT ![c] = r]
             /\ Silent
             /\ UNCHANGED loc
    <2>1. CallsInv'
      BY <1>3, Blanks DEF CallsInv, TypeInv, TypeOK, HomeOK, Silent, Labels
    <2>2. QED
      BY <1>1, <2>1, Parts
  <1>4. QED
    BY <1>2, <1>3 DEF Get

LEMMA EnterType ==
  ASSUME TypeInv, NEW c \in Calls, Enter(c)
  PROVE  TypeInv'
  <1> DEFINE r == home[c]
             l == [loc[c] EXCEPT !.t0 = now, !.ent = mem[r]]
             label == IF mem[r] = NoEntry THEN "load" ELSE "resolve"
  <1>1. r \in Replicas
    BY DEF Enter, TypeInv, HomeOK
  <1>t. mem[r] \in Entries /\ now \in Nat
    BY <1>1 DEF TypeInv, TypeOK
  <1>2. l \in Locals /\ label \in Labels
    BY <1>t, LocalsType DEF Locals, Labels
  <1>3. StoreInv'
    BY Parts DEF Enter, StoreInv
  <1>4. CASE Return(c, "memory", mem[r].val, now)
    <2>1. mem[r].val \in Values \cup {None} /\ now \in Nat
      BY <1>1 DEF TypeInv, TypeOK, Entries
    <2>2. QED
      BY <1>3, <1>4, <2>1, ReturnCalls, Parts
  <1>5. CASE Await(c, label, l)
    <2> HIDE DEF l, label
    <2>1. CallsInv'
      BY <1>1, <1>2, <1>5, AwaitCalls
    <2>2. QED
      BY <1>3, <2>1, Parts
  <1>6. QED
    BY <1>4, <1>5 DEF Enter

\* What a record becomes is never younger than the record.
LEMMA LoadedType ==
  ASSUME TypeInv, NEW c \in Calls
  PROVE  /\ Loaded(c) \in Entries
         /\ Loaded(c).val = rec.val
         /\ Loaded(c).fetched \in Int
         /\ loc[c].t0 <= now => Loaded(c).fetched <= rec.at
  <1>1. /\ Wall(home[c]) \in Nat /\ now <= Wall(home[c])
        /\ loc[c].t0 \in Nat /\ rec.at \in Nat /\ rec.val \in Values \cup {None}
        /\ now \in Nat
    BY WallType, LocalsType DEF TypeInv, TypeOK
  <1>2. QED
    BY <1>1 DEF Loaded, Entries

LEMMA LoadType ==
  ASSUME TypeInv, NEW c \in Calls, Load(c)
  PROVE  TypeInv'
  <1> DEFINE l == [loc[c] EXCEPT !.ent = Loaded(c)]
  <1>1. home[c] \in Replicas /\ "resolve" \in Labels
    BY DEF Load, TypeInv, HomeOK, Labels
  <1>2. l \in Locals /\ loc[c] \in Locals
    BY LoadedType, LocalsType DEF Locals
  <1>3. mem' \in [Replicas -> Entries]
    BY LoadedType DEF Load, TypeInv, TypeOK
  <1>4. lock' \in [Replicas -> Calls \cup {None}]
    BY ReleaseType DEF Load, TypeInv, TypeOK
  <1>5. StoreInv'
    BY <1>3, <1>4, Parts DEF Load, StoreInv
  <1>6. CASE Await(c, "resolve", loc[c])
    BY <1>1, <1>2, <1>5, <1>6, AwaitCalls, Parts
  <1>7. CASE Return(c, "record", rec.val, loc[c].t0)
    <2>1. rec.val \in Values \cup {None} /\ loc[c].t0 \in Nat
      BY LocalsType DEF TypeInv, TypeOK
    <2>2. QED
      BY <1>5, <1>7, <2>1, ReturnCalls, Parts
  <1>8. CASE Await(c, "resolve", l)
    <2> HIDE DEF l
    <2>1. QED
      BY <1>1, <1>2, <1>5, <1>8, AwaitCalls, Parts
  <1>9. QED
    BY <1>6, <1>7, <1>8 DEF Load

LEMMA AnsweredType ==
  ASSUME TypeInv, NEW c \in Calls, DirectoryAnswers(c) \/ DirectoryFails(c)
  PROVE  TypeInv'
  <1>1. CASE DirectoryAnswers(c)
    <2>1. [loc[c] EXCEPT !.got = truth] \in Locals
      BY LocalsType DEF TypeInv, TypeOK, Locals
    <2>2. loc' = [loc EXCEPT ![c] = [loc[c] EXCEPT !.got = truth]]
      BY <1>1 DEF DirectoryAnswers
    <2>3. loc' \in [Calls -> Locals]
      BY <2>1, <2>2 DEF TypeInv, TypeOK
    <2>4. CallsInv'
      BY <1>1, <2>3, Blanks DEF DirectoryAnswers, CallsInv, TypeInv, TypeOK, HomeOK, Silent, Labels
    <2>5. QED
      BY <1>1, <2>4, Parts DEF DirectoryAnswers, StoreInv
  <1>2. CASE DirectoryFails(c)
    <2>1. StoreInv'
      BY <1>2, ReleaseType, Parts DEF DirectoryFails, StoreInv
    <2>2. \E how \in {"stale", "unavailable"}, val \in Values \cup {None} : Return(c, how, val, loc[c].t0)
      BY <1>2, LocalsType DEF DirectoryFails
    <2>3. CallsInv'
      BY <2>2, LocalsType, ReturnCalls
    <2>4. QED
      BY <2>1, <2>3, Parts
  <1>3. QED
    BY <1>1, <1>2

LEMMA ResumeType ==
  ASSUME TypeInv, NEW c \in Calls, Resume(c)
  PROVE  TypeInv'
  <1>1. CASE Refreshed(c, loc[c].ent.persisted)
    BY <1>1, RefreshedType, LocalsType DEF Resume
  <1>2. CASE /\ Await(c, "put.read", [loc[c] EXCEPT !.stamp = Wall(home[c]), !.tries = 0])
             /\ UNCHANGED <<mem, lock>>
    <2> DEFINE l == [loc[c] EXCEPT !.stamp = Wall(home[c]), !.tries = 0]
    <2>1. l \in Locals
      BY LocalsType, WallType DEF Locals, TypeInv, TypeOK
    <2>2. Await(c, "put.read", l) /\ home[c] \in Replicas /\ "put.read" \in Labels
      BY <1>2 DEF Resume, TypeInv, HomeOK, Labels
    <2> HIDE DEF l
    <2>3. CallsInv'
      BY <2>1, <2>2, AwaitCalls
    <2>4. StoreInv'
      BY <1>2, Parts DEF Resume, StoreInv
    <2>5. QED
      BY <2>3, <2>4, Parts
  <1>3. QED
    BY <1>1, <1>2 DEF Resume

LEMMA PutType ==
  ASSUME TypeInv, NEW c \in Calls, PutRead(c) \/ PutFails(c)
  PROVE  TypeInv'
  <1>1. CASE PutRead(c)
    <2> DEFINE l == [loc[c] EXCEPT !.overtaken = FALSE]
    <2>1. l \in Locals
      BY LocalsType DEF Locals
    <2>2. Await(c, "put.write", l) /\ home[c] \in Replicas /\ "put.write" \in Labels
      BY <1>1 DEF PutRead, TypeInv, HomeOK, Labels
    <2> HIDE DEF l
    <2>3. CallsInv'
      BY <2>1, <2>2, AwaitCalls
    <2>4. StoreInv'
      BY <1>1, Parts DEF PutRead, StoreInv
    <2>5. QED
      BY <2>3, <2>4, Parts
  <1>2. CASE PutFails(c)
    BY <1>2, RefreshedType, LocalsType DEF PutFails, NotPersisted
  <1>3. QED
    BY <1>1, <1>2

\* The three outcomes of a put's write.
Lands(c) ==
  /\ rec' = [val |-> loc[c].got, at |-> loc[c].stamp]
  /\ mem' \in {[mem EXCEPT ![home[c]] = Confirmed(c, t)] : t \in {loc[c].t0, loc[c].ent.persisted}}
  /\ Answer(c, "directory", loc[c].got, loc[c].t0)
  /\ loc' = [d \in Calls |->
               IF d = c THEN NoLocals ELSE [loc[d] EXCEPT !.overtaken = pc[d] = "put.write"]]
  /\ Release(c)
  /\ UNCHANGED <<now, truth, changes, until>>

Retried(c) ==
  /\ Await(c, "put.read", [loc[c] EXCEPT !.tries = loc[c].tries + 1])
  /\ UNCHANGED <<now, truth, changes, until, rec, mem, lock>>

LEMMA PutWriteCases ==
  ASSUME NEW c \in Calls, PutWrite(c)
  PROVE  /\ pc[c] = "put.write"
         /\ \/ Lands(c)
            \/ Retried(c)
            \/ NotPersisted(c) /\ UNCHANGED <<now, truth, changes, until, rec>>
  BY DEF PutWrite, Lands, Retried

LEMMA LandsType ==
  ASSUME TypeInv, NEW c \in Calls, Lands(c)
  PROVE  TypeInv'
  <1>1. \A t \in {loc[c].t0, loc[c].ent.persisted} : Confirmed(c, t) \in Entries
    BY LocalsType, ConfirmedType
  <1>2. mem' \in [Replicas -> Entries]
    BY <1>1 DEF Lands, TypeInv, TypeOK
  <1>3. rec' \in [val : Values \cup {None}, at : Nat]
    BY LocalsType DEF Lands
  <1>4. lock' \in [Replicas -> Calls \cup {None}]
    BY ReleaseType DEF Lands
  <1>5. StoreInv'
    BY <1>2, <1>3, <1>4, Parts DEF Lands, StoreInv
  <1>6. \A d \in Calls : [loc[d] EXCEPT !.overtaken = pc[d] = "put.write"] \in Locals
    <2> TAKE d \in Calls
    <2>1. loc[d] \in Locals /\ (pc[d] = "put.write") \in BOOLEAN
      BY LocalsType
    <2>2. QED
      BY <2>1 DEF Locals
  <1>7. loc' \in [Calls -> Locals]
    BY <1>6, Blanks DEF Lands
  <1>8. CallsInv'
    BY <1>7, AnswerCalls, LocalsType DEF Lands
  <1>9. QED
    BY <1>5, <1>8, Parts

LEMMA PutWriteType ==
  ASSUME TypeInv, NEW c \in Calls, PutWrite(c)
  PROVE  TypeInv'
  <1>1. CASE Lands(c)
    BY <1>1, LandsType
  <1>2. CASE Retried(c)
    <2> DEFINE l == [loc[c] EXCEPT !.tries = loc[c].tries + 1]
    <2>1. l \in Locals
      BY LocalsType DEF Locals
    <2>2. Await(c, "put.read", l) /\ home[c] \in Replicas /\ "put.read" \in Labels
      BY <1>2, PutWriteCases DEF Retried, TypeInv, HomeOK, Labels
    <2> HIDE DEF l
    <2>3. CallsInv'
      BY <2>1, <2>2, AwaitCalls
    <2>4. StoreInv'
      BY <1>2, Parts DEF Retried, StoreInv
    <2>5. QED
      BY <2>3, <2>4, Parts
  <1>3. CASE NotPersisted(c) /\ UNCHANGED <<now, truth, changes, until, rec>>
    BY <1>3, RefreshedType, LocalsType DEF NotPersisted
  <1>4. QED
    BY <1>1, <1>2, <1>3, PutWriteCases

LEMMA WorldType ==
  ASSUME TypeInv,
         Tick \/ (\E r \in Mortal : Restart(r)) \/ \E v \in Values \cup {None} : Change(v)
  PROVE  TypeInv'
  <1>1. CASE Tick
    <2>1. StoreInv'
      BY <1>1, Parts DEF Tick, StoreInv
    <2>2. CallsInv'
      BY <1>1, Blanks DEF Tick, CallsInv, TypeInv, TypeOK, HomeOK, Silent
    <2>3. QED
      BY <2>1, <2>2, Parts
  <1>2. CASE \E r \in Mortal : Restart(r)
    <2>1. StoreInv'
      BY <1>2, Parts, Blanks DEF Restart, StoreInv
    <2>2. CallsInv'
      BY <1>2, Blanks DEF Restart, CallsInv, TypeInv, TypeOK, HomeOK, Silent, Labels
    <2>3. QED
      BY <2>1, <2>2, Parts
  <1>3. CASE \E v \in Values \cup {None} : Change(v)
    <2>1. StoreInv'
      BY <1>3, Parts DEF Change, StoreInv
    <2>2. CallsInv'
      BY <1>3, Blanks DEF Change, CallsInv, TypeInv, TypeOK, HomeOK, Silent
    <2>3. QED
      BY <2>1, <2>2, Parts
  <1>4. QED
    BY <1>1, <1>2, <1>3

LEMMA InitType == Init => TypeInv
  BY Blanks, NeverInt, BoundAssumption
  DEF Init, TypeInv, TypeOK, HomeOK, NoRecord, Labels

LEMMA NextType == TypeInv /\ [Next]_vars => TypeInv'
  <1> SUFFICES ASSUME TypeInv, [Next]_vars PROVE TypeInv'
    OBVIOUS
  <1>1. CASE UNCHANGED vars
    BY <1>1 DEF vars, TypeInv, TypeOK, HomeOK
  <1>2. ASSUME NEW c \in Calls, Step(c) PROVE TypeInv'
    BY <1>2, EnterType, LoadType, AnsweredType, ResumeType, PutType, PutWriteType DEF Step
  <1>3. ASSUME NEW c \in Calls, NEW r \in Replicas, Get(c, r) PROVE TypeInv'
    BY <1>3, GetType
  <1>4. CASE Tick \/ (\E r \in Mortal : Restart(r)) \/ \E v \in Values \cup {None} : Change(v)
    BY <1>4, WorldType
  <1>5. QED
    BY <1>1, <1>2, <1>3, <1>4 DEF Next

\* Whatever races, fails or restarts, every variable keeps its type, and a
\* call between two round trips knows the replica it runs on.
THEOREM CacheTypeCorrect == Spec => [](TypeOK /\ HomeOK)
  <1>1. TypeInv /\ [Next]_vars => TypeInv'
    BY NextType
  <1>2. TypeInv => TypeOK /\ HomeOK
    BY DEF TypeInv
  <1>3. QED
    BY <1>1, <1>2, InitType, PTL DEF Spec

-----------------------------------------------------------------------------
\* How old an answer may be.  Everything that is remembered of a value, in
\* memory, in Vault and in the locals of a call, was true at the time it
\* claims, give or take the skew of the clocks and one round trip.

Slack == Drift + Wait
Backed(v, t) == v \in Values /\ t <= until[v] + Slack

Asked(c)  == pc[c] \in {"answered", "put.read", "put.write"}
Putting(c) == pc[c] \in {"put.read", "put.write"}

DirectoryInv ==
  /\ \A v \in Values : until[v] <= now
  /\ truth # None => until[truth] = now

KeptInv ==
  /\ \A r \in Replicas : mem[r] # NoEntry => Backed(mem[r].val, mem[r].fetched)
  /\ rec # NoRecord => Backed(rec.val, rec.at)

CallInv(c) ==
  /\ loc[c].t0 <= now
  /\ loc[c].ent # NoEntry => Backed(loc[c].ent.val, loc[c].ent.fetched)
  /\ Suspended(c) => loc[c].t0 <= loc[c].since /\ loc[c].since <= now /\ now <= loc[c].since + Wait
  /\ Asked(c) => loc[c].got \in Values /\ loc[c].t0 <= until[loc[c].got]
  /\ pc[c] = "answered" => loc[c].since <= until[loc[c].got]
  /\ Putting(c) => loc[c].stamp <= until[loc[c].got] + Slack

AnswerInv == KillSwitch /\ OutageBound

AgeInv == DirectoryInv /\ KeptInv /\ (\A c \in Calls : CallInv(c)) /\ AnswerInv

LEMMA SlackNat == Drift \in Nat /\ Wait \in Nat /\ Slack \in Nat /\ Refresh \in Nat /\ MaxStale \in Nat
  BY BoundAssumption DEF Slack

\* Time and the directory only ever move forward.
LEMMA DirectoryStep ==
  ASSUME TypeInv, DirectoryInv, [Next]_vars
  PROVE  /\ now \in Nat /\ now' \in Nat /\ now <= now'
         /\ \A v \in Values : until[v] \in Int /\ until'[v] \in Int /\ until[v] <= until'[v]
         /\ DirectoryInv'
  <1> DEFINE G == /\ now \in Nat /\ now' \in Nat /\ now <= now'
                  /\ \A v \in Values : until[v] \in Int /\ until'[v] \in Int /\ until[v] <= until'[v]
                  /\ DirectoryInv'
  <1>0. now \in Nat /\ truth \in Values \cup {None} /\ until \in [Values -> Int]
    BY DEF TypeInv, TypeOK
  <1>1. CASE UNCHANGED <<now, truth, until>>
    BY <1>0, <1>1 DEF DirectoryInv
  <1>2. CASE Tick
    <2>1. CASE truth = None
      BY <1>0, <1>2, <2>1 DEF Tick, DirectoryInv
    <2>2. CASE truth \in Values
      <3>1. until' = [until EXCEPT ![truth] = now + 1] /\ now' = now + 1 /\ truth' = truth
        BY <1>2, <2>2, NoneAssumption DEF Tick
      <3>2. QED
        BY <1>0, <2>2, <3>1, NoneAssumption DEF DirectoryInv
    <2>3. QED
      BY <1>0, <2>1, <2>2
  <1>3. ASSUME NEW v \in Values \cup {None}, Change(v) PROVE G
    <2>1. CASE v = None
      BY <1>0, <1>3, <2>1 DEF Change, DirectoryInv
    <2>2. CASE v # None
      <3>1. until' = [until EXCEPT ![v] = now] /\ now' = now /\ truth' = v /\ v \in Values
        BY <1>3, <2>2 DEF Change
      <3>2. QED
        BY <1>0, <3>1 DEF DirectoryInv
    <2>3. QED
      BY <2>1, <2>2
  <1>4. ASSUME NEW c \in Calls, Step(c) PROVE UNCHANGED <<now, truth, until>>
    BY <1>4, PutWriteCases
    DEF Step, Enter, Load, DirectoryAnswers, DirectoryFails, Resume, PutRead, PutFails, Lands, Retried
  <1>5. ASSUME NEW c \in Calls, NEW r \in Replicas, Get(c, r) PROVE UNCHANGED <<now, truth, until>>
    BY <1>5 DEF Get
  <1>6. ASSUME NEW r \in Mortal, Restart(r) PROVE UNCHANGED <<now, truth, until>>
    BY <1>6 DEF Restart
  <1>7. QED
    BY <1>1, <1>2, <1>3, <1>4, <1>5, <1>6 DEF Next, vars

\* A step that a call takes in no time.
Instant == UNCHANGED <<now, truth, until>>

LEMMA BackedType ==
  ASSUME TypeInv, NEW v, NEW t \in Int, Backed(v, t)
  PROVE  v \in Values /\ until[v] \in Int /\ t <= until[v] + Slack
  BY DEF Backed, TypeInv, TypeOK

LEMMA BackedStable ==
  ASSUME TypeInv, DirectoryInv, [Next]_vars, NEW v, NEW t \in Int, Backed(v, t)
  PROVE  Backed(v, t)'
  BY DirectoryStep, SlackNat DEF Backed, Slack

\* A call that this step leaves alone.
LEMMA CallFrame ==
  ASSUME TypeInv, Instant, NEW d \in Calls, CallInv(d), pc'[d] = pc[d],
         loc'[d].t0 = loc[d].t0, loc'[d].ent = loc[d].ent, loc'[d].since = loc[d].since,
         loc'[d].got = loc[d].got, loc'[d].stamp = loc[d].stamp
  PROVE  CallInv(d)'
  BY DEF Instant, CallInv, Suspended, Asked, Putting, Backed, Slack

\* A call that is over.
LEMMA CallOver ==
  ASSUME NEW d \in Calls, now' \in Nat, pc'[d] = "done", loc'[d] = NoLocals
  PROVE  CallInv(d)'
  BY DEF CallInv, Suspended, Asked, Putting, NoLocals

LEMMA ReturnCallInvs ==
  ASSUME TypeInv, Instant, \A d \in Calls : CallInv(d), NEW c \in Calls, NEW how, NEW val, NEW t,
         Return(c, how, val, t)
  PROVE  \A d \in Calls : CallInv(d)'
  <1>1. pc' = [pc EXCEPT ![c] = "done"] /\ loc' = [loc EXCEPT ![c] = NoLocals]
    BY DEF Return, Answer
  <1>2. now' \in Nat /\ pc \in [Calls -> Labels] /\ loc \in [Calls -> Locals]
    BY DEF Instant, TypeInv, TypeOK
  <1>3. ASSUME NEW d \in Calls PROVE CallInv(d)'
    <2>1. CASE d = c
      BY <1>1, <1>2, <2>1, CallOver
    <2>2. CASE d # c
      <3>1. pc'[d] = pc[d] /\ loc'[d] = loc[d]
        BY <1>1, <1>2, <2>2
      <3>2. QED
        BY <3>1, CallFrame
    <2>3. QED
      BY <2>1, <2>2
  <1>4. QED
    BY <1>3

\* What an answer must not exceed.
LEMMA AnswerWithin ==
  ASSUME TypeInv, Instant, NEW c \in Calls, NEW how, NEW val, NEW t, Answer(c, how, val, t),
         how \in {"memory", "record", "directory"} => t <= until[val] + Refresh + Slack,
         how = "stale" => t <= until[val] + MaxStale + Slack,
         val \in Values => until[val] \in Int, t \in Nat,
         how \in {"memory", "record", "directory", "stale"} => val \in Values
  PROVE  AnswerInv'
  <1>1. answer' = [how |-> how, val |-> val, at |-> t] /\ until' = until
    BY DEF Answer, Instant
  <1>2. KillSwitch'
    BY <1>1, SlackNat DEF KillSwitch, Slack
  <1>3. OutageBound'
    BY <1>1, SlackNat DEF OutageBound, Slack
  <1>4. QED
    BY <1>2, <1>3 DEF AnswerInv

LEMMA NoAnswerWithin == ASSUME answer' = NoAnswer PROVE AnswerInv'
  BY DEF AnswerInv, KillSwitch, OutageBound, NoAnswer

LEMMA AwaitCallInvs ==
  ASSUME TypeInv, Instant, \A d \in Calls : CallInv(d), NEW c \in Calls,
         NEW label \in {"load", "resolve", "put.read", "put.write"}, NEW l \in Locals,
         Await(c, label, l),
         l.t0 <= now,
         l.ent # NoEntry => Backed(l.ent.val, l.ent.fetched),
         label \in {"put.read", "put.write"} =>
           /\ l.got \in Values /\ l.t0 <= until[l.got]
           /\ l.stamp <= until[l.got] + Slack
  PROVE  (\A d \in Calls : CallInv(d)') /\ AnswerInv'
  <1> DEFINE m == [l EXCEPT !.since = now]
  <1>1. pc' = [pc EXCEPT ![c] = label] /\ loc' = [loc EXCEPT ![c] = m] /\ answer' = NoAnswer
    BY DEF Await, Silent
  <1>2. now \in Nat /\ now' = now /\ pc \in [Calls -> Labels] /\ loc \in [Calls -> Locals]
        /\ until' = until
    BY DEF Instant, TypeInv, TypeOK
  <1>3. m.t0 = l.t0 /\ m.ent = l.ent /\ m.since = now /\ m.got = l.got /\ m.stamp = l.stamp
    BY DEF Locals
  <1> HIDE DEF m
  <1>4. ASSUME NEW d \in Calls PROVE CallInv(d)'
    <2>1. CASE d = c
      <3>1. pc'[d] = label /\ loc'[d] = m
        BY <1>1, <1>2, <2>1
      <3>2. QED
        BY <1>2, <1>3, <3>1, SlackNat DEF CallInv, Suspended, Asked, Putting, Backed, Slack
    <2>2. CASE d # c
      <3>1. pc'[d] = pc[d] /\ loc'[d] = loc[d]
        BY <1>1, <1>2, <2>2
      <3>2. QED
        BY <3>1, CallFrame
    <2>3. QED
      BY <2>1, <2>2
  <1>5. QED
    BY <1>1, <1>4, NoAnswerWithin

-----------------------------------------------------------------------------
\* One lemma per action: what is remembered and answered stays backed.

StepInv == KeptInv' /\ (\A d \in Calls : CallInv(d)') /\ AnswerInv'

LEMMA EntryType ==
  ASSUME TypeInv, NEW r \in Replicas
  PROVE  /\ mem[r] \in Entries /\ mem[r].val \in Values \cup {None}
         /\ mem[r].fetched \in Int /\ mem[r].persisted \in Int
  BY DEF TypeInv, TypeOK, Entries

LEMMA KeptUnchanged ==
  ASSUME KeptInv, UNCHANGED <<mem, rec, until>>
  PROVE  KeptInv'
  BY DEF KeptInv, Backed, Slack

\* A fresh entry is answered.
LEMMA FreshAge ==
  ASSUME TypeInv, AgeInv, Instant, NEW c \in Calls, NEW r \in Replicas,
         Fresh(mem[r], now), Return(c, "memory", mem[r].val, now),
         UNCHANGED <<mem, rec>>
  PROVE  StepInv
  <1>1. Backed(mem[r].val, mem[r].fetched) /\ now - mem[r].fetched < Refresh
    BY DEF Fresh, AgeInv, KeptInv
  <1>2. /\ mem[r].val \in Values /\ until[mem[r].val] \in Int /\ mem[r].fetched \in Int
        /\ mem[r].fetched <= until[mem[r].val] + Slack
    BY <1>1, EntryType, BackedType
  <1>3. now \in Nat
    BY DEF TypeInv, TypeOK
  <1>4. now <= until[mem[r].val] + Refresh + Slack
    BY <1>1, <1>2, <1>3, SlackNat
  <1>5. AnswerInv'
    BY <1>2, <1>3, <1>4, AnswerWithin DEF Return
  <1>6. QED
    BY <1>5, ReturnCallInvs, KeptUnchanged DEF StepInv, AgeInv, Instant

LEMMA GetAge ==
  ASSUME TypeInv, AgeInv, NEW c \in Calls, NEW r \in Replicas, Get(c, r)
  PROVE  StepInv
  <1>1. Instant /\ UNCHANGED <<mem, rec>>
    BY DEF Get, Instant
  <1>2. CASE Fresh(mem[r], now) /\ Return(c, "memory", mem[r].val, now)
    BY <1>1, <1>2, FreshAge
  <1>3. CASE pc' = [pc EXCEPT ![c] = "wait"] /\ UNCHANGED loc /\ Silent
    <2>1. ASSUME NEW d \in Calls PROVE CallInv(d)'
      <3>1. CallInv(d) /\ pc \in [Calls -> Labels]
        BY DEF AgeInv, TypeInv, TypeOK
      <3>2. CASE d = c
        BY <1>1, <1>3, <3>1, <3>2
        DEF CallInv, Suspended, Asked, Putting, Backed, Slack, Instant
      <3>3. CASE d # c
        BY <1>1, <1>3, <3>1, <3>3, CallFrame
      <3>4. QED
        BY <3>2, <3>3
    <2>2. QED
      BY <1>1, <1>3, <2>1, KeptUnchanged, NoAnswerWithin DEF StepInv, AgeInv, Silent, Instant
  <1>4. QED
    BY <1>2, <1>3 DEF Get

LEMMA EnterAge ==
  ASSUME TypeInv, AgeInv, NEW c \in Calls, Enter(c)
  PROVE  StepInv
  <1> DEFINE r == home[c]
             l == [loc[c] EXCEPT !.t0 = now, !.ent = mem[r]]
             label == IF mem[r] = NoEntry THEN "load" ELSE "resolve"
  <1>1. r \in Replicas /\ Instant /\ UNCHANGED <<mem, rec>>
    BY DEF Enter, TypeInv, HomeOK, Instant
  <1>2. CASE Fresh(mem[r], now) /\ Return(c, "memory", mem[r].val, now)
    BY <1>1, <1>2, FreshAge
  <1>3. CASE Await(c, label, l)
    <2>1. l \in Locals /\ l.t0 = now /\ l.ent = mem[r]
      <3>1. mem[r] \in Entries /\ now \in Nat /\ loc[c] \in Locals
        BY <1>1, LocalsType DEF TypeInv, TypeOK
      <3>2. QED
        BY <3>1 DEF Locals
    <2>2. l.ent # NoEntry => Backed(l.ent.val, l.ent.fetched)
      BY <1>1, <2>1 DEF AgeInv, KeptInv
    <2>3. label \in {"load", "resolve"} /\ now \in Nat
      BY DEF TypeInv, TypeOK
    <2> HIDE DEF l, label
    <2>4. (\A d \in Calls : CallInv(d)') /\ AnswerInv'
      BY <1>1, <1>3, <2>1, <2>2, <2>3, AwaitCallInvs DEF AgeInv
    <2>5. QED
      BY <1>1, <2>4, KeptUnchanged DEF StepInv, AgeInv, Instant
  <1>4. QED
    BY <1>2, <1>3 DEF Enter

LEMMA LoadAge ==
  ASSUME TypeInv, AgeInv, NEW c \in Calls, Load(c)
  PROVE  StepInv
  <1> DEFINE e == Loaded(c)
             l == [loc[c] EXCEPT !.ent = e]
  <1>1. /\ home[c] \in Replicas /\ Instant /\ UNCHANGED rec /\ pc[c] = "load"
        /\ now \in Nat /\ CallInv(c) /\ loc[c].t0 \in Nat /\ loc[c].t0 <= now
        /\ loc[c] \in Locals
    BY LocalsType DEF Load, TypeInv, TypeOK, HomeOK, Instant, AgeInv, CallInv
  <1>2. CASE Await(c, "resolve", loc[c]) /\ UNCHANGED mem
    <2>1. (\A d \in Calls : CallInv(d)') /\ AnswerInv'
      BY <1>1, <1>2, AwaitCallInvs DEF AgeInv, CallInv
    <2>2. QED
      BY <1>1, <1>2, <2>1, KeptUnchanged DEF StepInv, AgeInv, Instant
  <1>3. CASE /\ rec # NoRecord /\ mem' = [mem EXCEPT ![home[c]] = e]
             /\ \/ Fresh(e, loc[c].t0) /\ Return(c, "record", rec.val, loc[c].t0)
                \/ Await(c, "resolve", l)
    <2>1. /\ e \in Entries /\ e.val = rec.val /\ e.fetched \in Int /\ e.fetched <= rec.at
      BY <1>1, LoadedType
    <2>2. Backed(rec.val, rec.at) /\ rec.at \in Nat
      BY <1>3 DEF AgeInv, KeptInv, TypeInv, TypeOK
    <2>3. rec.val \in Values /\ until[rec.val] \in Int /\ rec.at <= until[rec.val] + Slack
      BY <2>2, BackedType
    <2>4. Backed(e.val, e.fetched)
      BY <2>1, <2>2, <2>3, SlackNat DEF Backed
    <2> HIDE DEF e
    <2>5. KeptInv'
      <3>1. until' = until /\ mem \in [Replicas -> Entries] /\ KeptInv
        BY <1>1 DEF Instant, TypeInv, TypeOK, AgeInv
      <3>2. ASSUME NEW r \in Replicas, mem'[r] # NoEntry
            PROVE  Backed(mem'[r].val, mem'[r].fetched)
        BY <1>3, <2>4, <3>1, <3>2 DEF KeptInv
      <3>3. QED
        BY <1>1, <3>1, <3>2 DEF KeptInv, Backed, Slack
    <2>6. CASE Fresh(e, loc[c].t0) /\ Return(c, "record", rec.val, loc[c].t0)
      <3>1. loc[c].t0 <= until[rec.val] + Refresh + Slack
        BY <1>1, <2>1, <2>2, <2>3, <2>6, SlackNat DEF Fresh
      <3>2. AnswerInv'
        BY <1>1, <2>3, <2>6, <3>1, AnswerWithin DEF Return
      <3>3. QED
        BY <1>1, <2>5, <2>6, <3>2, ReturnCallInvs DEF StepInv, AgeInv
    <2>7. CASE Await(c, "resolve", l)
      <3>1. l \in Locals /\ l.t0 = loc[c].t0 /\ l.ent = e
        BY <1>1, <2>1 DEF Locals
      <3> HIDE DEF l
      <3>2. (\A d \in Calls : CallInv(d)') /\ AnswerInv'
        BY <1>1, <2>4, <2>7, <3>1, AwaitCallInvs DEF AgeInv
      <3>3. QED
        BY <2>5, <3>2 DEF StepInv
    <2>8. QED
      BY <1>3, <2>6, <2>7
  <1>4. QED
    BY <1>2, <1>3 DEF Load

LEMMA DirectoryAnswersAge ==
  ASSUME TypeInv, AgeInv, NEW c \in Calls, DirectoryAnswers(c)
  PROVE  StepInv
  <1>1. /\ Instant /\ UNCHANGED <<mem, rec>> /\ answer' = NoAnswer
        /\ pc[c] = "resolve" /\ pc' = [pc EXCEPT ![c] = "answered"]
        /\ loc' = [loc EXCEPT ![c].got = truth] /\ truth # None
    BY DEF DirectoryAnswers, Instant, Silent
  <1>2. /\ pc \in [Calls -> Labels] /\ loc \in [Calls -> Locals] /\ now \in Nat
        /\ truth \in Values /\ until[truth] = now
    BY <1>1 DEF TypeInv, TypeOK, AgeInv, DirectoryInv
  <1>3. ASSUME NEW d \in Calls PROVE CallInv(d)'
    <2>1. CallInv(d)
      BY DEF AgeInv
    <2>2. CASE d = c
      <3>1. /\ pc'[d] = "answered" /\ loc'[d].got = truth
            /\ loc'[d].t0 = loc[d].t0 /\ loc'[d].ent = loc[d].ent /\ loc'[d].since = loc[d].since
        BY <1>1, <1>2, <2>2 DEF Locals
      <3>2. loc[d].t0 \in Nat /\ loc[d].since \in Nat
        BY LocalsType
      <3>3. QED
        BY <1>1, <1>2, <2>1, <2>2, <3>1, <3>2
        DEF CallInv, Suspended, Asked, Putting, Backed, Slack, Instant
    <2>3. CASE d # c
      BY <1>1, <1>2, <2>1, <2>3, CallFrame
    <2>4. QED
      BY <2>2, <2>3
  <1>4. QED
    BY <1>1, <1>3, KeptUnchanged, NoAnswerWithin DEF StepInv, AgeInv, Instant

LEMMA DirectoryFailsAge ==
  ASSUME TypeInv, AgeInv, NEW c \in Calls, DirectoryFails(c)
  PROVE  StepInv
  <1> DEFINE e == loc[c].ent
  <1>1. Instant /\ UNCHANGED <<mem, rec>>
    BY DEF DirectoryFails, Instant
  <1>2. loc[c].t0 \in Nat /\ e.fetched \in Int /\ e.val \in Values \cup {None}
    BY LocalsType
  <1>3. CASE e # NoEntry /\ loc[c].t0 - e.fetched <= MaxStale /\ Return(c, "stale", e.val, loc[c].t0)
    <2>1. Backed(e.val, e.fetched)
      BY <1>3 DEF AgeInv, CallInv
    <2>2. e.val \in Values /\ until[e.val] \in Int /\ e.fetched <= until[e.val] + Slack
      BY <1>2, <2>1, BackedType
    <2>3. loc[c].t0 <= until[e.val] + MaxStale + Slack
      BY <1>2, <1>3, <2>2, SlackNat
    <2>4. AnswerInv'
      BY <1>1, <1>2, <1>3, <2>2, <2>3, AnswerWithin DEF Return
    <2>5. QED
      BY <1>1, <1>3, <2>4, ReturnCallInvs, KeptUnchanged DEF StepInv, AgeInv, Instant
  <1>4. CASE Return(c, "unavailable", None, loc[c].t0)
    <2>1. answer'.how = "unavailable"
      BY <1>4 DEF Return, Answer
    <2>2. AnswerInv'
      BY <2>1 DEF AnswerInv, KillSwitch, OutageBound
    <2>3. QED
      BY <1>1, <1>4, <2>2, ReturnCallInvs, KeptUnchanged DEF StepInv, AgeInv, Instant
  <1>5. QED
    BY <1>3, <1>4 DEF DirectoryFails

\* What a call that has its answer leaves in memory.
LEMMA ConfirmedBacked ==
  ASSUME TypeInv, AgeInv, NEW c \in Calls, Asked(c), NEW t \in Int
  PROVE  /\ Backed(Confirmed(c, t).val, Confirmed(c, t).fetched)
         /\ loc[c].got \in Values /\ until[loc[c].got] \in Int
         /\ loc[c].t0 <= until[loc[c].got] + Refresh + Slack
  <1>1. loc[c].got \in Values /\ loc[c].t0 <= until[loc[c].got]
    BY DEF AgeInv, CallInv
  <1>2. loc[c].t0 \in Nat /\ until[loc[c].got] \in Int
    BY <1>1, LocalsType DEF TypeInv, TypeOK
  <1>3. QED
    BY <1>1, <1>2, SlackNat DEF Backed, Confirmed

LEMMA ConfirmedKept ==
  ASSUME TypeInv, AgeInv, NEW c \in Calls, Asked(c), NEW t \in Int, UNCHANGED until,
         mem' = [mem EXCEPT ![home[c]] = Confirmed(c, t)],
         rec' # NoRecord => Backed(rec'.val, rec'.at)
  PROVE  KeptInv'
  <1> DEFINE e == Confirmed(c, t)
  <1>1. Backed(e.val, e.fetched)
    BY ConfirmedBacked
  <1> HIDE DEF e
  <1>2. mem \in [Replicas -> Entries] /\ KeptInv /\ mem' = [mem EXCEPT ![home[c]] = e]
    BY DEF TypeInv, TypeOK, AgeInv, e
  <1>3. ASSUME NEW r \in Replicas, mem'[r] # NoEntry
        PROVE  Backed(mem'[r].val, mem'[r].fetched)
    BY <1>1, <1>2, <1>3 DEF KeptInv
  <1>4. QED
    BY <1>3 DEF KeptInv, Backed, Slack

LEMMA RefreshedAge ==
  ASSUME TypeInv, AgeInv, NEW c \in Calls, Asked(c), NEW t \in Int,
         Refreshed(c, t), Instant, UNCHANGED rec
  PROVE  StepInv
  <1>1. KeptInv'
    BY ConfirmedKept DEF Refreshed, Instant, AgeInv, KeptInv
  <1>2. AnswerInv'
    BY ConfirmedBacked, LocalsType, AnswerWithin DEF Refreshed, Return
  <1>3. QED
    BY <1>1, <1>2, ReturnCallInvs DEF StepInv, AgeInv, Refreshed

LEMMA ResumeAge ==
  ASSUME TypeInv, AgeInv, NEW c \in Calls, Resume(c)
  PROVE  StepInv
  <1> DEFINE l == [loc[c] EXCEPT !.stamp = Wall(home[c]), !.tries = 0]
  <1>1. Instant /\ UNCHANGED rec /\ Asked(c) /\ pc[c] = "answered"
    BY DEF Resume, Instant, Asked
  <1>2. CASE Refreshed(c, loc[c].ent.persisted)
    BY <1>1, <1>2, RefreshedAge, LocalsType
  <1>3. CASE Await(c, "put.read", l) /\ UNCHANGED mem
    <2>1. /\ l \in Locals /\ l.t0 = loc[c].t0 /\ l.ent = loc[c].ent /\ l.got = loc[c].got
          /\ l.stamp = Wall(home[c])
      <3>1. Wall(home[c]) \in Nat /\ loc[c] \in Locals
        BY WallType, LocalsType DEF TypeInv, TypeOK
      <3>2. QED
        BY <3>1 DEF Locals
    <2>2. /\ CallInv(c) /\ Suspended(c)
          /\ now \in Nat /\ loc[c].since \in Nat /\ loc[c].t0 \in Nat
          /\ Wall(home[c]) \in Nat /\ Wall(home[c]) <= now + Drift
      BY <1>1, WallType, LocalsType DEF AgeInv, Suspended, TypeInv, TypeOK
    <2>3. /\ loc[c].got \in Values /\ until[loc[c].got] \in Int
          /\ now <= loc[c].since + Wait /\ loc[c].since <= until[loc[c].got]
          /\ loc[c].t0 <= until[loc[c].got] /\ loc[c].t0 <= now
      BY <1>1, <2>2, ConfirmedBacked DEF CallInv
    <2>4. Wall(home[c]) <= until[loc[c].got] + Slack
      BY <2>2, <2>3, SlackNat DEF Slack
    <2>5. loc[c].ent # NoEntry => Backed(loc[c].ent.val, loc[c].ent.fetched)
      BY <2>2 DEF CallInv
    <2> HIDE DEF l
    <2>6. (\A d \in Calls : CallInv(d)') /\ AnswerInv'
      BY <1>1, <1>3, <2>1, <2>3, <2>4, <2>5, AwaitCallInvs DEF AgeInv
    <2>7. QED
      BY <1>1, <1>3, <2>6, KeptUnchanged DEF StepInv, AgeInv, Instant
  <1>4. QED
    BY <1>2, <1>3 DEF Resume

\* On to another round trip of a put.
LEMMA PutOnAge ==
  ASSUME TypeInv, AgeInv, NEW c \in Calls, Putting(c), NEW l \in Locals,
         NEW label \in {"put.read", "put.write"}, Await(c, label, l),
         l.t0 = loc[c].t0, l.ent = loc[c].ent, l.got = loc[c].got, l.stamp = loc[c].stamp,
         Instant, UNCHANGED <<mem, rec>>
  PROVE  StepInv
  <1>1. CallInv(c) /\ Asked(c)
    BY DEF AgeInv, Putting, Asked
  <1>2. /\ l.t0 <= now
        /\ l.ent # NoEntry => Backed(l.ent.val, l.ent.fetched)
        /\ l.got \in Values /\ l.t0 <= until[l.got] /\ l.stamp <= until[l.got] + Slack
    BY <1>1 DEF CallInv
  <1>3. (\A d \in Calls : CallInv(d)') /\ AnswerInv'
    BY <1>2, AwaitCallInvs DEF AgeInv
  <1>4. QED
    BY <1>3, KeptUnchanged DEF StepInv, AgeInv, Instant

LEMMA LandsAge ==
  ASSUME TypeInv, AgeInv, NEW c \in Calls, pc[c] = "put.write", Lands(c)
  PROVE  StepInv
  <1>1. Instant /\ Asked(c) /\ Putting(c) /\ CallInv(c)
    BY DEF Lands, Instant, Asked, Putting, AgeInv
  <1>2. Backed(rec'.val, rec'.at)
    BY <1>1 DEF Lands, CallInv, Backed
  <1>3. PICK t \in Int : mem' = [mem EXCEPT ![home[c]] = Confirmed(c, t)]
    BY LocalsType DEF Lands
  <1>4. KeptInv'
    BY <1>1, <1>2, <1>3, ConfirmedKept DEF Instant
  <1>5. AnswerInv'
    BY <1>1, ConfirmedBacked, LocalsType, AnswerWithin DEF Lands
  <1>6. ASSUME NEW d \in Calls PROVE CallInv(d)'
    <2>1. pc' = [pc EXCEPT ![c] = "done"] /\ pc \in [Calls -> Labels] /\ now' \in Nat
      BY <1>1 DEF Lands, Answer, TypeInv, TypeOK, Instant
    <2>2. CASE d = c
      BY <2>1, <2>2, CallOver DEF Lands
    <2>3. CASE d # c
      <3>1. loc'[d] = [loc[d] EXCEPT !.overtaken = pc[d] = "put.write"] /\ loc[d] \in Locals
        BY <2>3, LocalsType DEF Lands
      <3>2. /\ loc'[d].t0 = loc[d].t0 /\ loc'[d].ent = loc[d].ent /\ loc'[d].since = loc[d].since
            /\ loc'[d].got = loc[d].got /\ loc'[d].stamp = loc[d].stamp
        BY <3>1 DEF Locals
      <3>3. QED
        BY <1>1, <2>1, <2>3, <3>2, CallFrame DEF AgeInv
    <2>4. QED
      BY <2>2, <2>3
  <1>7. QED
    BY <1>4, <1>5, <1>6 DEF StepInv

LEMMA PutAge ==
  ASSUME TypeInv, AgeInv, NEW c \in Calls, PutRead(c) \/ PutFails(c) \/ PutWrite(c)
  PROVE  StepInv
  <1>1. Putting(c) /\ Asked(c)
    BY PutWriteCases DEF PutRead, PutFails, Putting, Asked
  <1>2. CASE PutRead(c)
    <2> DEFINE l == [loc[c] EXCEPT !.overtaken = FALSE]
    <2>1. l \in Locals /\ l.t0 = loc[c].t0 /\ l.ent = loc[c].ent /\ l.got = loc[c].got /\ l.stamp = loc[c].stamp
      BY LocalsType DEF Locals
    <2>2. Await(c, "put.write", l) /\ Instant /\ UNCHANGED <<mem, rec>>
      BY <1>2 DEF PutRead, Instant
    <2> HIDE DEF l
    <2>3. QED
      BY <1>1, <2>1, <2>2, PutOnAge
  <1>3. CASE NotPersisted(c) /\ UNCHANGED <<now, truth, changes, until, rec>>
    BY <1>1, <1>3, RefreshedAge, LocalsType DEF NotPersisted, Instant
  <1>4. CASE PutWrite(c)
    <2>1. CASE Retried(c)
      <3> DEFINE l == [loc[c] EXCEPT !.tries = loc[c].tries + 1]
      <3>1. l \in Locals /\ l.t0 = loc[c].t0 /\ l.ent = loc[c].ent /\ l.got = loc[c].got /\ l.stamp = loc[c].stamp
        BY LocalsType DEF Locals
      <3>2. Await(c, "put.read", l) /\ Instant /\ UNCHANGED <<mem, rec>>
        BY <2>1 DEF Retried, Instant
      <3> HIDE DEF l
      <3>3. QED
        BY <1>1, <3>1, <3>2, PutOnAge
    <2>2. QED
      BY <1>3, <1>4, <2>1, LandsAge, PutWriteCases
  <1>5. QED
    BY <1>2, <1>3, <1>4 DEF PutFails

\* Time passes, or the directory changes.
LEMMA WorldAge ==
  ASSUME TypeInv, AgeInv, Tick \/ \E v \in Values \cup {None} : Change(v)
  PROVE  StepInv
  <1>1. UNCHANGED <<rec, mem, pc, loc>> /\ answer' = NoAnswer
    BY DEF Tick, Change, Silent
  <1>2. [Next]_vars /\ DirectoryInv
    BY DEF Next, AgeInv
  <1>3. now \in Nat /\ now' \in Nat /\ now <= now'
        /\ \A v \in Values : until[v] \in Int /\ until'[v] \in Int /\ until[v] <= until'[v]
    BY <1>2, DirectoryStep
  <1>4. KeptInv'
    <2>1. ASSUME NEW r \in Replicas, mem'[r] # NoEntry
          PROVE  Backed(mem[r].val, mem[r].fetched)'
      <3>1. Backed(mem[r].val, mem[r].fetched) /\ mem[r].fetched \in Int
        BY <1>1, <2>1, EntryType DEF AgeInv, KeptInv
      <3>2. QED
        BY <1>1, <1>2, <3>1, BackedStable DEF Backed
    <2>2. ASSUME rec # NoRecord PROVE Backed(rec.val, rec.at)'
      <3>1. Backed(rec.val, rec.at) /\ rec.at \in Int
        BY <2>2 DEF AgeInv, KeptInv, TypeInv, TypeOK
      <3>2. QED
        BY <1>1, <1>2, <3>1, BackedStable DEF Backed
    <2>3. QED
      BY <1>1, <2>1, <2>2 DEF KeptInv
  <1>5. ASSUME NEW d \in Calls PROVE CallInv(d)'
    <2>1. CallInv(d) /\ loc[d].t0 \in Nat /\ loc[d].since \in Nat /\ loc[d].stamp \in Nat
          /\ loc[d].ent.fetched \in Int
      BY LocalsType DEF AgeInv
    <2>2. loc[d].ent # NoEntry => Backed(loc[d].ent.val, loc[d].ent.fetched)'
      <3>1. SUFFICES ASSUME loc[d].ent # NoEntry PROVE Backed(loc[d].ent.val, loc[d].ent.fetched)'
        OBVIOUS
      <3>2. Backed(loc[d].ent.val, loc[d].ent.fetched)
        BY <2>1, <3>1 DEF CallInv
      <3>3. QED
        BY <1>1, <1>2, <2>1, <3>2, BackedStable DEF Backed
    <2>3. Suspended(d) => now' <= loc[d].since + Wait
      <3>1. CASE Tick
        BY <1>3, <2>1, <3>1, SlackNat DEF Tick
      <3>2. CASE \E v \in Values \cup {None} : Change(v)
        BY <2>1, <3>2 DEF Change, CallInv
      <3>3. QED
        BY <3>1, <3>2
    <2>4. Asked(d) => /\ loc[d].got \in Values
                      /\ until[loc[d].got] \in Int /\ until'[loc[d].got] \in Int
                      /\ until[loc[d].got] <= until'[loc[d].got]
      BY <1>3, <2>1 DEF CallInv
    <2>5. loc'[d] = loc[d] /\ pc'[d] = pc[d]
      BY <1>1
    <2>6. loc[d].t0 <= now' /\ (Suspended(d) => loc[d].t0 <= loc[d].since /\ loc[d].since <= now')
      BY <1>3, <2>1 DEF CallInv
    <2>7. /\ Asked(d) => loc[d].t0 <= until'[loc[d].got]
          /\ pc[d] = "answered" => loc[d].since <= until'[loc[d].got]
          /\ Putting(d) => loc[d].stamp <= until'[loc[d].got] + Slack
      BY <2>1, <2>4, SlackNat DEF CallInv, Asked, Putting
    <2>8. (loc[d].ent # NoEntry => Backed(loc[d].ent.val, loc[d].ent.fetched))'
      BY <2>2, <2>5 DEF Backed
    <2>9. QED
      BY <2>3, <2>4, <2>5, <2>6, <2>7, <2>8
      DEF CallInv, Suspended, Asked, Putting, Slack
  <1>6. QED
    BY <1>1, <1>4, <1>5, NoAnswerWithin DEF StepInv

LEMMA RestartAge ==
  ASSUME TypeInv, AgeInv, NEW r \in Mortal, Restart(r)
  PROVE  StepInv
  <1>1. Instant /\ UNCHANGED rec /\ answer' = NoAnswer
    BY DEF Restart, Instant, Silent
  <1>2. KeptInv'
    <2>1. /\ mem \in [Replicas -> Entries] /\ KeptInv /\ mem' = [mem EXCEPT ![r] = NoEntry]
          /\ rec' = rec /\ until' = until
      BY <1>1 DEF TypeInv, TypeOK, AgeInv, Restart, Instant
    <2>2. ASSUME NEW s \in Replicas, mem'[s] # NoEntry
          PROVE  mem'[s] = mem[s]
      BY <2>1, <2>2
    <2>3. QED
      BY <2>1, <2>2 DEF KeptInv, Backed, Slack
  <1>3. ASSUME NEW d \in Calls PROVE CallInv(d)'
    <2>1. CASE home[d] = r
      <3>1. pc'[d] = "done" /\ loc'[d] = NoLocals /\ now' \in Nat
        BY <1>1, <2>1 DEF Restart, Instant, TypeInv, TypeOK
      <3>2. QED
        BY <3>1, CallOver
    <2>2. CASE home[d] # r
      <3>1. pc'[d] = pc[d] /\ loc'[d] = loc[d]
        BY <2>2 DEF Restart
      <3>2. QED
        BY <1>1, <3>1, CallFrame DEF AgeInv
    <2>3. QED
      BY <2>1, <2>2
  <1>4. QED
    BY <1>1, <1>2, <1>3, NoAnswerWithin DEF StepInv

LEMMA InitAge == Init => AgeInv
  <1> SUFFICES ASSUME Init PROVE AgeInv
    OBVIOUS
  <1>1. Never \in Int /\ Never <= 0
    BY BoundAssumption DEF Never
  <1>2. DirectoryInv
    BY <1>1, NoneAssumption DEF Init, DirectoryInv
  <1>3. KeptInv
    BY DEF Init, KeptInv
  <1>4. \A c \in Calls : CallInv(c)
    BY DEF Init, CallInv, NoLocals, Suspended, Asked, Putting
  <1>5. AnswerInv
    BY DEF Init, AnswerInv, KillSwitch, OutageBound, NoAnswer
  <1>6. QED
    BY <1>2, <1>3, <1>4, <1>5 DEF AgeInv

LEMMA NextAge == TypeInv /\ AgeInv /\ [Next]_vars => AgeInv'
  <1> SUFFICES ASSUME TypeInv, AgeInv, [Next]_vars PROVE AgeInv'
    OBVIOUS
  <1>1. DirectoryInv'
    BY DirectoryStep DEF AgeInv
  <1>2. CASE UNCHANGED vars
    <2>1. Instant /\ UNCHANGED <<rec, mem, pc, loc, answer>>
      BY <1>2 DEF vars, Instant
    <2>2. \A d \in Calls : CallInv(d)'
      BY <2>1, CallFrame DEF AgeInv
    <2>3. KeptInv'
      BY <2>1, KeptUnchanged DEF AgeInv, Instant
    <2>4. AnswerInv'
      BY <2>1 DEF AgeInv, AnswerInv, KillSwitch, OutageBound, Instant
    <2>5. QED
      BY <1>1, <2>2, <2>3, <2>4 DEF AgeInv
  <1>3. ASSUME NEW c \in Calls, Step(c) PROVE StepInv
    BY <1>3, EnterAge, LoadAge, DirectoryAnswersAge, DirectoryFailsAge, ResumeAge, PutAge DEF Step
  <1>4. ASSUME NEW c \in Calls, NEW r \in Replicas, Get(c, r) PROVE StepInv
    BY <1>4, GetAge
  <1>5. ASSUME NEW r \in Mortal, Restart(r) PROVE StepInv
    BY <1>5, RestartAge
  <1>6. ASSUME Tick \/ \E v \in Values \cup {None} : Change(v) PROVE StepInv
    BY <1>6, WorldAge
  <1>7. CASE StepInv
    BY <1>1, <1>7 DEF StepInv, AgeInv
  <1>8. QED
    BY <1>2, <1>3, <1>4, <1>5, <1>6, <1>7 DEF Next

LEMMA AgeCorrect == Spec => []AgeInv
  <1>1. TypeInv /\ AgeInv /\ [Next]_vars => AgeInv'
    BY NextAge
  <1>2. TypeOK /\ HomeOK => TypeInv
    BY DEF TypeInv
  <1>3. QED
    BY <1>1, <1>2, InitAge, CacheTypeCorrect, PTL DEF Spec

\* A value the directory has dropped is out of every replica's answers after
\* a refresh interval, the skew of the clocks and one round trip, unless a
\* refresh failed: restarts, slow writers and other replicas add nothing.
THEOREM KillSwitchHolds == Spec => []KillSwitch
  <1>1. AgeInv => KillSwitch
    BY DEF AgeInv, AnswerInv
  <1>2. QED
    BY <1>1, AgeCorrect, PTL

\* However long the directory is out, no value is served for longer than
\* max_staleness_seconds, the skew and one round trip after it was last true.
THEOREM OutageStaysBounded == Spec => []OutageBound
  <1>1. AgeInv => OutageBound
    BY DEF AgeInv, AnswerInv
  <1>2. QED
    BY <1>1, AgeCorrect, PTL

-----------------------------------------------------------------------------
\* Single flight.  The lock of a replica is held by the one call that is
\* between its round trips there, and while that call asks Vault nobody
\* else fills the entry it has found missing.

FlightInv(c) ==
  Suspended(c) =>
    /\ lock[home[c]] = c
    /\ pc[c] = "load" => mem[home[c]] = NoEntry

LockInv == \A c \in Calls : FlightInv(c)

\* c ends, or goes on to a later round trip with the lock.
Ends(c) == pc'[c] = "done"
GoesOn(c) ==
  /\ pc'[c] \in Labels \ {"load"}
  /\ home'[c] = home[c]
  /\ lock'[home[c]] = lock[home[c]]

\* Nothing but c's own state and that of its replica changes.
OnlyAt(c) ==
  /\ \A d \in Calls \ {c} : pc'[d] = pc[d] /\ home'[d] = home[d]
  /\ \A r \in Replicas \ {home[c]} : mem'[r] = mem[r] /\ lock'[r] = lock[r]

LEMMA HolderMoves ==
  ASSUME TypeInv, LockInv, NEW c \in Calls, Suspended(c), OnlyAt(c), Ends(c) \/ GoesOn(c)
  PROVE  LockInv'
  <1> SUFFICES ASSUME NEW d \in Calls, Suspended(d)' PROVE FlightInv(d)'
    BY DEF LockInv, FlightInv
  <1>1. CASE d = c
    BY <1>1 DEF Ends, GoesOn, LockInv, FlightInv, Suspended
  <1>2. CASE d # c
    <2>1. pc'[d] = pc[d] /\ home'[d] = home[d] /\ Suspended(d)
      BY <1>2 DEF OnlyAt, Suspended
    <2>2. home[d] \in Replicas \ {home[c]}
      BY <1>2, <2>1 DEF LockInv, FlightInv, Suspended, TypeInv, HomeOK
    <2>3. mem'[home[d]] = mem[home[d]] /\ lock'[home[d]] = lock[home[d]]
      BY <2>2 DEF OnlyAt
    <2>4. QED
      BY <2>1, <2>3 DEF LockInv, FlightInv
  <1>3. QED
    BY <1>1, <1>2

LEMMA ReturnEnds ==
  ASSUME TypeInv, NEW c \in Calls, NEW how, NEW val, NEW t, Return(c, how, val, t)
  PROVE  Ends(c) /\ \A d \in Calls \ {c} : pc'[d] = pc[d] /\ home'[d] = home[d]
  BY DEF Return, Answer, Ends, TypeInv, TypeOK

LEMMA AwaitGoesOn ==
  ASSUME TypeInv, NEW c \in Calls, NEW label \in Labels, NEW l, Await(c, label, l)
  PROVE  /\ pc'[c] = label /\ home' = home
         /\ \A d \in Calls \ {c} : pc'[d] = pc[d] /\ home'[d] = home[d]
  BY DEF Await, TypeInv, TypeOK

LEMMA HolderStep ==
  ASSUME TypeInv, LockInv, NEW c \in Calls, Step(c), Suspended(c)
  PROVE  LockInv'
  <1> USE DEF TypeInv, TypeOK
  <1>1. home[c] \in Replicas
    BY DEF HomeOK, Suspended
  <1> DEFINE G == OnlyAt(c) /\ (Ends(c) \/ GoesOn(c))
  <1>2. ASSUME NEW t, Refreshed(c, t) PROVE G
    <2>1. Ends(c) /\ \A d \in Calls \ {c} : pc'[d] = pc[d] /\ home'[d] = home[d]
      BY <1>2, ReturnEnds DEF Refreshed
    <2>2. \A r \in Replicas \ {home[c]} : mem'[r] = mem[r] /\ lock'[r] = lock[r]
      BY <1>2 DEF Refreshed, Release
    <2>3. QED
      BY <2>1, <2>2 DEF OnlyAt
  <1>3. ASSUME NEW label \in Labels \ {"load"}, NEW l, Await(c, label, l), UNCHANGED lock,
               \A r \in Replicas \ {home[c]} : mem'[r] = mem[r]
        PROVE  G
    BY <1>3, AwaitGoesOn DEF OnlyAt, GoesOn
  <1>4. ASSUME Load(c) PROVE G
    <2>1. CASE Await(c, "resolve", loc[c]) /\ UNCHANGED <<mem, lock>>
      BY <1>3, <2>1 DEF Labels
    <2>2. CASE /\ mem' = [mem EXCEPT ![home[c]] = Loaded(c)]
               /\ Return(c, "record", rec.val, loc[c].t0)
               /\ Release(c)
      BY <2>2, ReturnEnds DEF OnlyAt, Release
    <2>3. CASE /\ mem' = [mem EXCEPT ![home[c]] = Loaded(c)]
               /\ Await(c, "resolve", [loc[c] EXCEPT !.ent = Loaded(c)])
               /\ UNCHANGED lock
      <3>1. \A r \in Replicas \ {home[c]} : mem'[r] = mem[r]
        BY <2>3
      <3>2. QED
        BY <1>3, <2>3, <3>1 DEF Labels
    <2>4. QED
      BY <1>4, <2>1, <2>2, <2>3 DEF Load
  <1>5. ASSUME DirectoryAnswers(c) PROVE G
    BY <1>5 DEF DirectoryAnswers, OnlyAt, GoesOn, Labels
  <1>6. ASSUME DirectoryFails(c) PROVE G
    BY <1>6, ReturnEnds DEF DirectoryFails, OnlyAt, Release
  <1>7. ASSUME Resume(c) PROVE G
    <2>1. CASE Refreshed(c, loc[c].ent.persisted)
      BY <1>2, <2>1
    <2>2. CASE /\ Await(c, "put.read", [loc[c] EXCEPT !.stamp = Wall(home[c]), !.tries = 0])
               /\ UNCHANGED <<mem, lock>>
      BY <1>3, <2>2 DEF Labels
    <2>3. QED
      BY <1>7, <2>1, <2>2 DEF Resume
  <1>8. ASSUME PutRead(c) PROVE G
    BY <1>3, <1>8 DEF PutRead, Labels
  <1>9. ASSUME PutFails(c) PROVE G
    BY <1>2, <1>9 DEF PutFails, NotPersisted
  <1>10. ASSUME PutWrite(c) PROVE G
    <2>1. CASE Refreshed(c, loc[c].ent.persisted)
      BY <1>2, <2>1
    <2>2. CASE /\ Await(c, "put.read", [loc[c] EXCEPT !.tries = @ + 1])
               /\ UNCHANGED <<rec, mem, lock>>
      BY <1>3, <2>2 DEF Labels
    <2>3. CASE /\ mem' \in {[mem EXCEPT ![home[c]] = Confirmed(c, t)] : t \in {loc[c].t0, loc[c].ent.persisted}}
               /\ Answer(c, "directory", loc[c].got, loc[c].t0)
               /\ Release(c)
      BY <2>3 DEF Answer, Release, OnlyAt, Ends
    <2>4. QED
      BY <1>10, <2>1, <2>2, <2>3 DEF PutWrite, NotPersisted
  <1>11. G
    BY <1>4, <1>5, <1>6, <1>7, <1>8, <1>9, <1>10 DEF Step, Enter, Suspended
  <1>12. QED
    BY <1>11, HolderMoves

\* A call that finds the lock free takes it, or ends; nobody held it.
LEMMA EnterLock ==
  ASSUME TypeInv, LockInv, NEW c \in Calls, Enter(c)
  PROVE  LockInv'
  <1> USE DEF TypeInv, TypeOK
  <1> SUFFICES ASSUME NEW d \in Calls, Suspended(d)' PROVE FlightInv(d)'
    BY DEF LockInv, FlightInv
  <1>1. home[c] \in Replicas /\ lock[home[c]] = None /\ mem' = mem
    BY DEF Enter, HomeOK
  <1>2. ASSUME NEW how, NEW val, NEW t, Return(c, how, val, t), UNCHANGED lock
        PROVE  FlightInv(d)'
    <2>1. d # c /\ pc'[d] = pc[d] /\ home'[d] = home[d]
      BY <1>2, ReturnEnds DEF Ends, Suspended
    <2>2. QED
      BY <1>1, <1>2, <2>1 DEF LockInv, FlightInv, Suspended
  <1>3. ASSUME lock' = [lock EXCEPT ![home[c]] = c], NEW l,
               Await(c, IF mem[home[c]] = NoEntry THEN "load" ELSE "resolve", l)
        PROVE  FlightInv(d)'
    <2>1. /\ pc'[c] = IF mem[home[c]] = NoEntry THEN "load" ELSE "resolve"
          /\ home' = home
          /\ d # c => pc'[d] = pc[d]
      BY <1>3 DEF Await
    <2>2. CASE d = c
      BY <1>1, <1>3, <2>1, <2>2 DEF FlightInv
    <2>3. CASE d # c
      <3>1. Suspended(d) /\ lock[home[d]] = d
        BY <2>1, <2>3 DEF Suspended, LockInv, FlightInv
      <3>2. home[d] # home[c] /\ home[d] \in Replicas
        BY <1>1, <3>1, NoneAssumption DEF HomeOK, Suspended
      <3>3. QED
        BY <1>1, <1>3, <2>1, <2>3, <3>1, <3>2 DEF LockInv, FlightInv
    <2>4. QED
      BY <2>2, <2>3
  <1>4. QED
    BY <1>2, <1>3 DEF Enter

LEMMA LockFrame ==
  ASSUME LockInv, \A d \in Calls : Suspended(d)' => Suspended(d),
         \A d \in Calls : Suspended(d)' =>
            pc'[d] = pc[d] /\ home'[d] = home[d]
              /\ mem'[home[d]] = mem[home[d]] /\ lock'[home[d]] = lock[home[d]]
  PROVE  LockInv'
  BY DEF LockInv, FlightInv

LEMMA NextLock == TypeInv /\ LockInv /\ [Next]_vars => LockInv'
  <1> SUFFICES ASSUME TypeInv, LockInv, [Next]_vars PROVE LockInv'
    OBVIOUS
  <1> USE DEF TypeInv, TypeOK
  <1>1. CASE UNCHANGED vars
    BY <1>1, LockFrame DEF vars, Suspended
  <1>2. ASSUME NEW c \in Calls, Step(c) PROVE LockInv'
    <2>1. CASE Suspended(c)
      BY <1>2, <2>1, HolderStep
    <2>2. CASE ~Suspended(c)
      <3>1. Enter(c)
        BY <1>2, <2>2 DEF Step, Suspended, Load, DirectoryAnswers, DirectoryFails, Resume, PutRead, PutWrite, PutFails
      <3>2. QED
        BY <3>1, EnterLock
    <2>3. QED
      BY <2>1, <2>2
  <1>3. ASSUME NEW c \in Calls, NEW r \in Replicas, Get(c, r) PROVE LockInv'
    <2>1. pc'[c] \in {"done", "wait"} /\ UNCHANGED <<mem, lock>>
      BY <1>3 DEF Get, Return, Answer
    <2>2. \A d \in Calls \ {c} : pc'[d] = pc[d] /\ home'[d] = home[d]
      BY <1>3 DEF Get, Return, Answer
    <2>3. QED
      BY <2>1, <2>2, LockFrame DEF Suspended
  <1>4. ASSUME NEW r \in Mortal, Restart(r) PROVE LockInv'
    <2>1. \A d \in Calls : Suspended(d)' => home[d] # r /\ pc'[d] = pc[d] /\ home'[d] = home[d]
      BY <1>4 DEF Restart, Suspended
    <2>2. \A d \in Calls : Suspended(d)' => home[d] \in Replicas
      BY <2>1 DEF Suspended, HomeOK
    <2>3. QED
      BY <1>4, <2>1, <2>2, LockFrame DEF Restart, Suspended
  <1>5. CASE Tick \/ \E v \in Values \cup {None} : Change(v)
    BY <1>5, LockFrame DEF Tick, Change, Suspended
  <1>6. QED
    BY <1>1, <1>2, <1>3, <1>4, <1>5 DEF Next

LEMMA CacheInvariants == Spec => [](TypeInv /\ AgeInv /\ LockInv)
  <1>1. Init => LockInv
    BY DEF Init, LockInv, FlightInv, Suspended
  <1>2. TypeInv /\ LockInv /\ [Next]_vars => LockInv'
    BY NextLock
  <1>3. TypeOK /\ HomeOK => TypeInv
    BY DEF TypeInv
  <1>4. QED
    BY <1>1, <1>2, <1>3, CacheTypeCorrect, AgeCorrect, PTL DEF Spec

\* Only a second look at a stale entry, and a read of Vault for a missing
\* one, lead to the directory.
LEMMA StormStep ==
  ASSUME TypeInv, LockInv, [Next]_vars, NEW c \in Calls, pc[c] # "resolve", pc'[c] = "resolve"
  PROVE  ~Fresh(mem[home[c]], now)
  <1> USE DEF TypeInv, TypeOK
  <1>1. CASE UNCHANGED vars
    BY <1>1 DEF vars
  <1>2. ASSUME NEW d \in Calls, Step(d) PROVE ~Fresh(mem[home[c]], now)
    <2>1. ASSUME NEW how, NEW val, NEW t, Answer(d, how, val, t) PROVE FALSE
      BY <2>1 DEF Answer
    <2>2. ASSUME NEW label \in Labels, label # "resolve", NEW l, Await(d, label, l) PROVE FALSE
      BY <2>2 DEF Await
    <2>3. CASE Enter(d)
      <3>1. d = c
        BY <2>1, <2>3 DEF Enter, Return, Await
      <3>2. QED
        BY <2>1, <2>3, <3>1 DEF Enter, Return
    <2>4. CASE Load(d)
      <3>1. d = c
        BY <2>1, <2>4 DEF Load, Return, Await
      <3>2. mem[home[c]] = NoEntry
        BY <2>4, <3>1 DEF Load, LockInv, FlightInv, Suspended
      <3>3. QED
        BY <3>2 DEF Fresh
    <2>5. CASE DirectoryAnswers(d)
      BY <2>5 DEF DirectoryAnswers
    <2>6. CASE DirectoryFails(d)
      BY <2>1, <2>6 DEF DirectoryFails, Return
    <2>7. CASE Resume(d)
      BY <2>1, <2>2, <2>7 DEF Resume, Refreshed, Return, Labels
    <2>8. CASE PutRead(d)
      BY <2>2, <2>8 DEF PutRead, Labels
    <2>9. CASE PutFails(d)
      BY <2>1, <2>9 DEF PutFails, NotPersisted, Refreshed, Return
    <2>10. CASE PutWrite(d)
      BY <2>1, <2>2, <2>10 DEF PutWrite, NotPersisted, Refreshed, Return, Labels
    <2>11. QED
      BY <1>2, <2>3, <2>4, <2>5, <2>6, <2>7, <2>8, <2>9, <2>10 DEF Step
  <1>3. ASSUME NEW d \in Calls, NEW r \in Replicas, Get(d, r) PROVE FALSE
    BY <1>3 DEF Get, Return, Answer
  <1>4. ASSUME NEW r \in Mortal, Restart(r) PROVE FALSE
    BY <1>4 DEF Restart
  <1>5. ASSUME Tick \/ \E v \in Values \cup {None} : Change(v) PROVE FALSE
    BY <1>5 DEF Tick, Change
  <1>6. QED
    BY <1>1, <1>2, <1>3, <1>4, <1>5 DEF Next

\* However many calls wait for the lock, restart or race, a replica asks the
\* directory only when it holds no fresh value.
THEOREM SingleFlight == Spec => NoRefreshStorm
  <1>1. TypeInv /\ LockInv /\ [Next]_vars =>
          [\A c \in Calls : pc[c] # "resolve" /\ pc'[c] = "resolve" => ~Fresh(mem[home[c]], now)]_vars
    BY StormStep
  <1>2. QED
    BY <1>1, CacheInvariants, PTL DEF Spec, NoRefreshStorm

-----------------------------------------------------------------------------
\* How far the record in Vault may lag.  K is the longest a put can take:
\* between the stamp of a write and its landing no more time can pass, so
\* whatever is remembered anywhere is at most K younger than the record
\* that has just landed.  From then on only a refresh that writes nothing
\* gets ahead of the record, by less than a heartbeat.

K == 2 * MaxRetries * Wait

\* Round trips of c's put that are over.
Trips(c) == 2 * loc[c].tries + (IF pc[c] = "put.write" THEN 1 ELSE 0)

PutInv(c) ==
  /\ Suspended(c) => loc[c].ent = mem[home[c]]
  /\ Putting(c) => /\ loc[c].tries < MaxRetries
                   /\ loc[c].since <= loc[c].stamp + Trips(c) * Wait

OnRecord(t, gap) == rec # NoRecord /\ t <= rec.at + K + gap

MemInv(r) ==
  mem[r] # NoEntry =>
    /\ mem[r].fetched <= now /\ mem[r].persisted <= now
    /\ mem[r].persisted = Never \/ OnRecord(mem[r].persisted, 0)
    /\ r \notin unsaved => OnRecord(mem[r].fetched, Heartbeat - 1)

RecordInv == (\A r \in Replicas : MemInv(r)) /\ (\A c \in Calls : PutInv(c))

LEMMA Bounds ==
  /\ MaxRetries \in Nat /\ MaxRetries > 0 /\ Wait \in Nat /\ K \in Nat /\ Heartbeat \in Nat
  /\ MaxTime \in Nat /\ Never \in Int /\ Never < 0
  <1>1. MaxRetries \in Nat /\ MaxRetries > 0 /\ Wait \in Nat /\ Heartbeat \in Nat /\ MaxTime \in Nat
    BY BoundAssumption
  <1>2. K \in Nat
    BY <1>1 DEF K
  <1>3. QED
    BY <1>1, <1>2 DEF Never

LEMMA Longest ==
  ASSUME NEW n \in Nat, n + 1 <= 2 * MaxRetries
  PROVE  n * Wait \in Nat /\ n * Wait + Wait = (n + 1) * Wait /\ (n + 1) * Wait <= K
  <1>1. MaxRetries \in Nat /\ Wait \in Nat
    BY Bounds
  <1>2. PICK m \in Nat : 2 * MaxRetries = n + 1 + m
    <2>1. 2 * MaxRetries - (n + 1) \in Nat /\ 2 * MaxRetries = n + 1 + (2 * MaxRetries - (n + 1))
      BY <1>1
    <2>2. QED
      BY <2>1
  <1>3. m * Wait \in Nat /\ n * Wait \in Nat
    BY <1>1
  <1>4. (n + 1 + m) * Wait = (n + 1) * Wait + m * Wait /\ (n + 1) * Wait = n * Wait + Wait
    BY <1>1
  <1>5. K = (n + 1 + m) * Wait
    BY <1>2 DEF K
  <1>6. QED
    BY <1>1, <1>3, <1>4, <1>5

\* A put that is under way began no longer than K ago.
LEMMA PutTakes ==
  ASSUME TypeInv, AgeInv, NEW c \in Calls, PutInv(c), Putting(c)
  PROVE  now <= loc[c].stamp + K
  <1>1. /\ loc[c].tries \in Nat /\ loc[c].stamp \in Nat /\ loc[c].since \in Nat /\ now \in Nat
        /\ now <= loc[c].since + Wait
    BY LocalsType DEF AgeInv, CallInv, Suspended, Putting, TypeInv, TypeOK
  <1>2. Trips(c) \in Nat /\ Trips(c) + 1 <= 2 * MaxRetries
    BY <1>1, Bounds DEF Trips, PutInv
  <1>3. Trips(c) * Wait \in Nat /\ Trips(c) * Wait + Wait <= K
    BY <1>2, Longest
  <1>4. loc[c].since <= loc[c].stamp + Trips(c) * Wait
    BY DEF PutInv
  <1>5. QED
    BY <1>1, <1>3, <1>4, Bounds

\* What the watch remembers: a replica is unmarked only by a put that its
\* own call knows to have landed.
LEMMA StaysUnsaved ==
  ASSUME Watch, NEW r \in Replicas, r \in unsaved, mem'[r] # NoEntry,
         \A d \in Calls : PutEnds(d) => home[d] # r
  PROVE  r \in unsaved'
  BY DEF Watch

LEMMA KnownSaved ==
  ASSUME Watch, NEW c \in Calls, PutEnds(c), \A d \in Calls : PutEnds(d) => d = c,
         mem'[home[c]] # NoEntry, home[c] \notin unsaved'
  PROVE  Saved(c)
  BY DEF Watch

LEMMA OnlyMover ==
  ASSUME NEW c \in Calls, OnlyAt(c)
  PROVE  \A d \in Calls : PutEnds(d) => d = c
  BY DEF OnlyAt, PutEnds

LEMMA MemFrame ==
  ASSUME TypeInv, Watch, NEW r \in Replicas, MemInv(r), mem'[r] = mem[r], UNCHANGED rec,
         now' \in Nat, now <= now', \A d \in Calls : PutEnds(d) => home[d] # r
  PROVE  MemInv(r)'
  <1>1. now \in Nat /\ mem[r].fetched \in Int /\ mem[r].persisted \in Int
    BY EntryType DEF TypeInv, TypeOK
  <1>2. mem'[r] # NoEntry /\ r \notin unsaved' => r \notin unsaved
    BY StaysUnsaved
  <1>3. QED
    BY <1>1, <1>2 DEF MemInv, OnRecord

\* A call whose place and whose share of the locals this step leaves alone.
LEMMA PutFrame ==
  ASSUME NEW d \in Calls, PutInv(d), pc'[d] = pc[d], home'[d] = home[d],
         Suspended(d) => mem'[home[d]] = mem[home[d]],
         loc'[d].ent = loc[d].ent, loc'[d].since = loc[d].since,
         loc'[d].stamp = loc[d].stamp, loc'[d].tries = loc[d].tries
  PROVE  PutInv(d)'
  BY DEF PutInv, Suspended, Putting, Trips

\* A step of the call that holds the lock of its replica disturbs nothing else.
LEMMA ElseRecorded ==
  ASSUME TypeInv, LockInv, RecordInv, NEW c \in Calls, Suspended(c), OnlyAt(c),
         \A d \in Calls \ {c} :
            /\ loc'[d].ent = loc[d].ent /\ loc'[d].since = loc[d].since
            /\ loc'[d].stamp = loc[d].stamp /\ loc'[d].tries = loc[d].tries
  PROVE  \A d \in Calls \ {c} : PutInv(d)'
  <1> SUFFICES ASSUME NEW d \in Calls \ {c} PROVE PutInv(d)'
    OBVIOUS
  <1>1. PutInv(d) /\ pc'[d] = pc[d] /\ home'[d] = home[d]
    BY DEF RecordInv, OnlyAt
  <1>2. Suspended(d) => mem'[home[d]] = mem[home[d]]
    <2>1. Suspended(d) => home[d] \in Replicas \ {home[c]}
      BY DEF LockInv, FlightInv, Suspended, TypeInv, HomeOK
    <2>2. QED
      BY <2>1 DEF OnlyAt
  <1>3. QED
    BY <1>1, <1>2, PutFrame

LEMMA OthersRecorded ==
  ASSUME TypeInv, LockInv, RecordInv, Watch, NEW c \in Calls, Suspended(c), OnlyAt(c),
         UNCHANGED <<now, rec>>
  PROVE  \A r \in Replicas \ {home[c]} : MemInv(r)'
  <1> SUFFICES ASSUME NEW r \in Replicas \ {home[c]} PROVE MemInv(r)'
    OBVIOUS
  <1>1. \A d \in Calls : PutEnds(d) => home[d] # r
    BY OnlyMover
  <1>2. mem'[r] = mem[r] /\ MemInv(r) /\ now' \in Nat /\ now <= now'
    BY DEF OnlyAt, RecordInv, TypeInv, TypeOK
  <1>3. QED
    BY <1>1, <1>2, MemFrame

\* The call ends and leaves the entry it has confirmed, last written at t;
\* the record is as it was.
LEMMA RefreshedRecord ==
  ASSUME TypeInv, AgeInv, LockInv, RecordInv, Watch, NEW c \in Calls, Asked(c), OnlyAt(c),
         Refreshed(c, loc[c].ent.persisted), UNCHANGED <<now, rec>>,
         PutEnds(c) \/ ~WriteDue(c), Heartbeat > 0
  PROVE  RecordInv'
  <1> DEFINE r == home[c]
             e == Confirmed(c, loc[c].ent.persisted)
  <1>1. /\ Suspended(c) /\ r \in Replicas
        /\ mem' = [mem EXCEPT ![r] = e] /\ mem'[r] = e
        /\ pc'[c] = "done" /\ loc' = [loc EXCEPT ![c] = NoLocals]
    BY DEF Refreshed, Return, Answer, Asked, Suspended, TypeInv, TypeOK, HomeOK
  <1>2. /\ e.fetched = loc[c].t0 /\ e.persisted = loc[c].ent.persisted
        /\ loc[c].ent = mem[r] /\ MemInv(r)
        /\ loc[c].t0 \in Nat /\ loc[c].t0 <= now /\ now \in Nat
        /\ loc[c].ent.persisted \in Int
    BY <1>1, LocalsType DEF Confirmed, RecordInv, PutInv, AgeInv, CallInv, TypeInv, TypeOK
  <1>3. \A d \in Calls \ {c} : PutInv(d)'
    <2>1. \A d \in Calls \ {c} : loc'[d] = loc[d]
      BY <1>1 DEF TypeInv, TypeOK
    <2>2. QED
      BY <1>1, <2>1, ElseRecorded
  <1>4. PutInv(c)'
    BY <1>1 DEF PutInv, Suspended, Putting
  <1>5. \A q \in Replicas \ {r} : MemInv(q)'
    BY <1>1, OthersRecorded
  <1>6. e.persisted <= now /\ (e.persisted = Never \/ OnRecord(e.persisted, 0))
    <2>1. CASE mem[r] = NoEntry
      BY <1>2, <2>1, Bounds DEF NoEntry
    <2>2. CASE mem[r] # NoEntry
      BY <1>2, <2>2 DEF MemInv
    <2>3. QED
      BY <2>1, <2>2
  <1>7. ASSUME e # NoEntry, r \notin unsaved' PROVE OnRecord(e.fetched, Heartbeat - 1)
    <2>1. CASE PutEnds(c)
      <3>1. Saved(c)
        BY <1>1, <1>7, <2>1, OnlyMover, KnownSaved
      <3>2. e.persisted = loc[c].t0
        BY <1>1, <3>1 DEF Saved
      <3>3. QED
        BY <1>2, <1>6, <3>2, Bounds DEF OnRecord, TypeInv, TypeOK
    <2>2. CASE ~WriteDue(c)
      <3>1. loc[c].t0 - e.persisted < Heartbeat
        BY <1>2, <2>2, Bounds DEF WriteDue
      <3>2. e.persisted # Never
        BY <1>2, <3>1, Bounds DEF Never
      <3>3. QED
        BY <1>2, <1>6, <3>1, <3>2, Bounds DEF OnRecord, TypeInv, TypeOK
    <2>3. QED
      BY <2>1, <2>2
  <1>8. ASSUME NEW q \in Replicas, q = r PROVE MemInv(q)'
    <2>1. rec' = rec /\ now' = now /\ mem'[q] = e
      BY <1>1, <1>8
    <2>2. QED
      BY <1>2, <1>6, <1>7, <1>8, <2>1 DEF MemInv, OnRecord
  <1>9. QED
    BY <1>3, <1>4, <1>5, <1>8 DEF RecordInv

\* On to another round trip.
LEMMA AwaitPut ==
  ASSUME TypeInv, LockInv, RecordInv, NEW c \in Calls, Suspended(c), OnlyAt(c),
         NEW label \in Labels, NEW l \in Locals, Await(c, label, l), l.ent = mem'[home[c]],
         label \in {"put.read", "put.write"} =>
           /\ l.tries < MaxRetries
           /\ now <= l.stamp + (2 * l.tries + (IF label = "put.write" THEN 1 ELSE 0)) * Wait
  PROVE  \A d \in Calls : PutInv(d)'
  <1>1. /\ pc'[c] = label /\ home' = home /\ loc' = [loc EXCEPT ![c] = [l EXCEPT !.since = now]]
    BY AwaitGoesOn DEF Await
  <1>2. \A d \in Calls \ {c} : loc'[d] = loc[d]
    BY <1>1 DEF TypeInv, TypeOK
  <1>3. \A d \in Calls \ {c} : PutInv(d)'
    BY <1>2, ElseRecorded
  <1>4. PutInv(c)'
    <2>1. /\ loc'[c].ent = l.ent /\ loc'[c].since = now /\ loc'[c].stamp = l.stamp
          /\ loc'[c].tries = l.tries
      BY <1>1 DEF Locals, TypeInv, TypeOK
    <2>2. QED
      BY <1>1, <2>1 DEF PutInv, Putting, Trips
  <1>5. QED
    BY <1>3, <1>4

\* The same, and nothing else happens.
LEMMA AwaitRecord ==
  ASSUME TypeInv, LockInv, RecordInv, Watch, NEW c \in Calls, Suspended(c),
         NEW label \in Labels \ {"done"}, NEW l \in Locals, Await(c, label, l),
         UNCHANGED <<now, rec, mem, lock>>, l.ent = loc[c].ent,
         label \in {"put.read", "put.write"} =>
           /\ l.tries < MaxRetries
           /\ now <= l.stamp + (2 * l.tries + (IF label = "put.write" THEN 1 ELSE 0)) * Wait
  PROVE  RecordInv'
  <1>1. OnlyAt(c) /\ pc'[c] = label
    BY AwaitGoesOn DEF OnlyAt
  <1>2. l.ent = mem'[home[c]]
    BY DEF RecordInv, PutInv
  <1>3. \A d \in Calls : PutInv(d)'
    BY <1>1, <1>2, AwaitPut
  <1>4. \A d \in Calls : ~PutEnds(d)
    BY <1>1, OnlyMover DEF PutEnds
  <1>5. \A r \in Replicas : MemInv(r)'
    BY <1>4, MemFrame DEF RecordInv, TypeInv, TypeOK
  <1>6. QED
    BY <1>3, <1>5 DEF RecordInv

LEMMA LoadRecord ==
  ASSUME TypeInv, AgeInv, LockInv, RecordInv, Watch, NEW c \in Calls, Load(c), Heartbeat > 0
  PROVE  RecordInv'
  <1> DEFINE e == Loaded(c)
             l == [loc[c] EXCEPT !.ent = e]
  <1>1. /\ Suspended(c) /\ home[c] \in Replicas /\ pc[c] = "load"
        /\ now' = now /\ rec' = rec
        /\ now \in Nat /\ loc[c].t0 \in Nat /\ loc[c].t0 <= now /\ loc[c] \in Locals
    BY LocalsType DEF Load, Suspended, TypeInv, TypeOK, HomeOK, AgeInv, CallInv
  <1>2. CASE Await(c, "resolve", loc[c]) /\ UNCHANGED <<mem, lock>>
    BY <1>1, <1>2, AwaitRecord DEF Labels
  <1>3. CASE /\ rec # NoRecord /\ mem' = [mem EXCEPT ![home[c]] = e]
             /\ \/ Return(c, "record", rec.val, loc[c].t0) /\ Release(c)
                \/ Await(c, "resolve", l) /\ UNCHANGED lock
    <2>1. mem'[home[c]] = e /\ \A r \in Replicas \ {home[c]} : mem'[r] = mem[r]
      BY <1>1, <1>3 DEF TypeInv, TypeOK
    <2>2. OnlyAt(c)
      <3>1. CASE Return(c, "record", rec.val, loc[c].t0) /\ Release(c)
        BY <2>1, <3>1, ReturnEnds DEF OnlyAt, Release
      <3>2. CASE Await(c, "resolve", l) /\ UNCHANGED lock
        BY <2>1, <3>2, AwaitGoesOn DEF OnlyAt, Labels
      <3>3. QED
        BY <1>3, <3>1, <3>2
    <2>3. e \in Entries /\ e.fetched \in Int /\ e.fetched <= rec.at /\ e.persisted = e.fetched
          /\ e.fetched <= now /\ rec.at \in Nat
      <3>1. e.fetched <= loc[c].t0
        BY <1>1, WallType DEF Loaded, TypeInv, TypeOK
      <3>2. QED
        BY <1>1, <3>1, LoadedType DEF Loaded, TypeInv, TypeOK
    <2> HIDE DEF e
    <2>4. ASSUME NEW r \in Replicas, r = home[c] PROVE MemInv(r)'
      BY <1>1, <1>3, <2>1, <2>3, <2>4, Bounds DEF MemInv, OnRecord
    <2>5. \A r \in Replicas \ {home[c]} : MemInv(r)'
      BY <1>1, <2>2, OthersRecorded
    <2>6. \A d \in Calls : PutInv(d)'
      <3>1. CASE Return(c, "record", rec.val, loc[c].t0)
        <4>1. pc'[c] = "done" /\ \A d \in Calls \ {c} : loc'[d] = loc[d]
          BY <3>1, ReturnEnds DEF Ends, Return, TypeInv, TypeOK
        <4>2. PutInv(c)'
          BY <4>1 DEF PutInv, Suspended, Putting
        <4>3. QED
          BY <1>1, <2>2, <4>1, <4>2, ElseRecorded
      <3>2. CASE Await(c, "resolve", l)
        <4>1. l \in Locals /\ l.ent = mem'[home[c]]
          BY <1>1, <2>1, <2>3 DEF Locals
        <4> HIDE DEF l
        <4>2. QED
          BY <1>1, <2>2, <3>2, <4>1, AwaitPut DEF Labels
      <3>3. QED
        BY <1>3, <3>1, <3>2
    <2>7. QED
      BY <2>4, <2>5, <2>6 DEF RecordInv
  <1>4. QED
    BY <1>2, <1>3 DEF Load

LEMMA ResolveRecord ==
  ASSUME TypeInv, LockInv, RecordInv, Watch, NEW c \in Calls,
         DirectoryAnswers(c) \/ DirectoryFails(c)
  PROVE  RecordInv'
  <1>1. /\ Suspended(c) /\ ~Putting(c) /\ UNCHANGED <<now, rec, mem>>
        /\ OnlyAt(c) /\ pc'[c] \in {"answered", "done"}
        /\ \A d \in Calls \ {c} : loc'[d] = loc[d]
    <2>1. CASE DirectoryAnswers(c)
      BY <2>1 DEF DirectoryAnswers, OnlyAt, Suspended, Putting, TypeInv, TypeOK
    <2>2. CASE DirectoryFails(c)
      BY <2>2 DEF DirectoryFails, Return, Answer, Release, OnlyAt, Suspended, Putting, TypeInv, TypeOK
    <2>3. QED
      BY <2>1, <2>2
  <1>2. PutInv(c)'
    <2>1. CASE DirectoryAnswers(c)
      <3>1. loc'[c].ent = loc[c].ent /\ home' = home /\ PutInv(c) /\ pc'[c] = "answered"
        BY <2>1, LocalsType DEF DirectoryAnswers, RecordInv, Locals, TypeInv, TypeOK
      <3>2. QED
        BY <1>1, <3>1 DEF PutInv, Putting
    <2>2. CASE DirectoryFails(c)
      BY <2>2 DEF DirectoryFails, Return, Answer, PutInv, Suspended, Putting, TypeInv, TypeOK
    <2>3. QED
      BY <2>1, <2>2
  <1>3. \A d \in Calls : ~PutEnds(d)
    BY <1>1, OnlyMover DEF PutEnds, Putting
  <1>4. \A r \in Replicas : MemInv(r)'
    BY <1>1, <1>3, MemFrame DEF RecordInv, TypeInv, TypeOK
  <1>5. QED
    BY <1>1, <1>2, <1>4, ElseRecorded DEF RecordInv

\* Nothing is written, or the put begins with a stamp that is not in the past.
LEMMA ResumeRecord ==
  ASSUME TypeInv, AgeInv, LockInv, RecordInv, Watch, NEW c \in Calls, Resume(c), Heartbeat > 0
  PROVE  RecordInv'
  <1> DEFINE l == [loc[c] EXCEPT !.stamp = Wall(home[c]), !.tries = 0]
  <1>1. Suspended(c) /\ Asked(c) /\ UNCHANGED <<now, rec>>
    BY DEF Resume, Suspended, Asked
  <1>2. CASE ~WriteDue(c) /\ Refreshed(c, loc[c].ent.persisted)
    <2>1. OnlyAt(c)
      BY <1>2 DEF Refreshed, Return, Answer, Release, OnlyAt, TypeInv, TypeOK
    <2>2. QED
      BY <1>1, <1>2, <2>1, RefreshedRecord
  <1>3. CASE Await(c, "put.read", l) /\ UNCHANGED <<mem, lock>>
    <2>1. /\ l \in Locals /\ l.ent = loc[c].ent /\ l.tries = 0 /\ l.stamp = Wall(home[c])
          /\ Wall(home[c]) \in Nat /\ now <= Wall(home[c])
      BY WallType, LocalsType DEF Locals, TypeInv, TypeOK
    <2> HIDE DEF l
    <2>2. now <= l.stamp + (2 * l.tries + 0) * Wait /\ l.tries < MaxRetries
      BY <2>1, Bounds
    <2>3. QED
      BY <1>1, <1>3, <2>1, <2>2, AwaitRecord DEF Labels
  <1>4. QED
    BY <1>2, <1>3 DEF Resume

\* The record has just landed: nothing is more than K younger.
LEMMA LandsRecord ==
  ASSUME TypeInv, AgeInv, LockInv, RecordInv, Watch, NEW c \in Calls, pc[c] = "put.write",
         Lands(c), Heartbeat > 0
  PROVE  RecordInv'
  <1>1. /\ Suspended(c) /\ Putting(c) /\ Asked(c) /\ home[c] \in Replicas /\ now' = now
        /\ now \in Nat /\ rec' # NoRecord /\ rec'.at = loc[c].stamp /\ loc[c].stamp \in Nat
    BY LocalsType, NoneAssumption
    DEF Lands, Suspended, Putting, Asked, TypeInv, TypeOK, HomeOK, NoRecord, AgeInv, CallInv
  <1>2. now <= rec'.at + K
    BY <1>1, PutTakes DEF RecordInv
  <1>3. OnlyAt(c) /\ pc'[c] = "done"
    BY DEF Lands, Answer, Release, OnlyAt, TypeInv, TypeOK
  <1>4. ASSUME NEW r \in Replicas, mem'[r] # NoEntry
        PROVE  /\ mem'[r].fetched \in Int /\ mem'[r].persisted \in Int
               /\ mem'[r].fetched <= now /\ mem'[r].persisted <= now
    <2>1. CASE r = home[c]
      <3>1. PICK t \in {loc[c].t0, loc[c].ent.persisted} : mem'[r] = Confirmed(c, t)
        BY <1>1, <2>1 DEF Lands, TypeInv, TypeOK
      <3>2. mem'[r].fetched = loc[c].t0 /\ mem'[r].persisted = t
        BY <3>1 DEF Confirmed
      <3>3. loc[c].t0 \in Nat /\ loc[c].t0 <= now /\ loc[c].ent.persisted \in Int
        BY LocalsType DEF AgeInv, CallInv
      <3>4. loc[c].ent.persisted <= now
        <4>1. loc[c].ent = mem[r] /\ MemInv(r)
          BY <1>1, <2>1 DEF RecordInv, PutInv
        <4>2. QED
          BY <1>1, <4>1, Bounds DEF MemInv, NoEntry
      <3>5. QED
        BY <3>1, <3>2, <3>3, <3>4
    <2>2. CASE r # home[c]
      BY <1>3, <1>4, <2>2, EntryType DEF OnlyAt, RecordInv, MemInv
    <2>3. QED
      BY <2>1, <2>2
  <1>5. ASSUME NEW r \in Replicas PROVE MemInv(r)'
    BY <1>1, <1>2, <1>4, Bounds DEF MemInv, OnRecord
  <1>6. \A d \in Calls \ {c} : PutInv(d)'
    <2>1. ASSUME NEW d \in Calls \ {c}
          PROVE  /\ loc'[d].ent = loc[d].ent /\ loc'[d].since = loc[d].since
                 /\ loc'[d].stamp = loc[d].stamp /\ loc'[d].tries = loc[d].tries
      BY LocalsType DEF Lands, Locals
    <2>2. QED
      BY <1>1, <1>3, <2>1, ElseRecorded
  <1>7. PutInv(c)'
    BY <1>3 DEF PutInv, Suspended, Putting
  <1>8. QED
    BY <1>5, <1>6, <1>7 DEF RecordInv

LEMMA PutRecord ==
  ASSUME TypeInv, AgeInv, LockInv, RecordInv, Watch, NEW c \in Calls,
         PutRead(c) \/ PutFails(c) \/ PutWrite(c), Heartbeat > 0
  PROVE  RecordInv'
  <1>1. Putting(c) /\ Suspended(c) /\ Asked(c) /\ PutInv(c)
    BY PutWriteCases DEF PutRead, PutFails, Putting, Suspended, Asked, RecordInv
  <1>2. /\ loc[c] \in Locals /\ loc[c].tries \in Nat /\ loc[c].stamp \in Nat
        /\ loc[c].since \in Nat /\ now \in Nat /\ now <= loc[c].since + Wait
    BY <1>1, LocalsType DEF AgeInv, CallInv, TypeInv, TypeOK
  <1>3. ASSUME NEW n \in Nat, Trips(c) = n PROVE now <= loc[c].stamp + (n + 1) * Wait
    <2>1. n + 1 <= 2 * MaxRetries
      BY <1>1, <1>2, <1>3, Bounds DEF Trips, PutInv
    <2>2. n * Wait \in Nat /\ (n + 1) * Wait = n * Wait + Wait
      BY <2>1, Longest
    <2>3. loc[c].since <= loc[c].stamp + n * Wait
      BY <1>1, <1>3 DEF PutInv
    <2>4. QED
      BY <1>2, <2>2, <2>3, Bounds
  <1>4. CASE PutRead(c)
    <2> DEFINE l == [loc[c] EXCEPT !.overtaken = FALSE]
    <2>1. l \in Locals /\ l.ent = loc[c].ent /\ l.tries = loc[c].tries /\ l.stamp = loc[c].stamp
      BY <1>2 DEF Locals
    <2>2. Await(c, "put.write", l) /\ UNCHANGED <<now, rec, mem, lock>> /\ pc[c] = "put.read"
      BY <1>4 DEF PutRead
    <2> HIDE DEF l
    <2>3. Trips(c) = 2 * l.tries /\ 2 * l.tries \in Nat /\ l.tries < MaxRetries
      BY <1>1, <1>2, <2>1, <2>2 DEF Trips, PutInv
    <2>4. now <= l.stamp + (2 * l.tries + 1) * Wait
      BY <1>3, <2>1, <2>3
    <2>5. QED
      BY <1>1, <2>1, <2>2, <2>3, <2>4, AwaitRecord DEF Labels
  <1>5. CASE NotPersisted(c) /\ UNCHANGED <<now, truth, changes, until, rec>>
    <2>1. OnlyAt(c) /\ PutEnds(c)
      BY <1>1, <1>5 DEF NotPersisted, Refreshed, Return, Answer, Release, OnlyAt, PutEnds, Putting,
                        NoAnswer, TypeInv, TypeOK
    <2>2. QED
      BY <1>1, <1>5, <2>1, RefreshedRecord DEF NotPersisted
  <1>6. CASE PutWrite(c) /\ Retried(c) /\ loc[c].tries + 1 < MaxRetries
    <2> DEFINE l == [loc[c] EXCEPT !.tries = loc[c].tries + 1]
    <2>1. l \in Locals /\ l.ent = loc[c].ent /\ l.tries = loc[c].tries + 1 /\ l.stamp = loc[c].stamp
      BY <1>2 DEF Locals
    <2>2. Await(c, "put.read", l) /\ UNCHANGED <<now, rec, mem, lock>> /\ pc[c] = "put.write"
      BY <1>6, PutWriteCases DEF Retried
    <2> HIDE DEF l
    <2>3. Trips(c) = 2 * loc[c].tries + 1 /\ 2 * loc[c].tries + 1 \in Nat /\ l.tries < MaxRetries
      BY <1>2, <1>6, <2>1, <2>2 DEF Trips
    <2>4. 2 * l.tries + 0 = 2 * loc[c].tries + 1 + 1
      BY <1>2, <2>1
    <2>5. now <= l.stamp + (2 * l.tries + 0) * Wait
      BY <1>3, <2>1, <2>3, <2>4
    <2>6. QED
      BY <1>1, <2>1, <2>2, <2>3, <2>5, AwaitRecord DEF Labels
  <1>7. QED
    <2>1. CASE PutFails(c)
      BY <1>5, <2>1 DEF PutFails
    <2>2. CASE PutWrite(c)
      <3>1. CASE Lands(c)
        BY <2>2, <3>1, PutWriteCases, LandsRecord
      <3>2. CASE loc[c].overtaken /\ loc[c].tries + 1 < MaxRetries /\ Retried(c)
        BY <1>6, <2>2, <3>2
      <3>3. CASE NotPersisted(c) /\ UNCHANGED <<now, truth, changes, until, rec>>
        BY <1>5, <3>3
      <3>4. QED
        BY <2>2, <3>1, <3>2, <3>3 DEF PutWrite, Lands, Retried
    <2>3. QED
      BY <1>4, <2>1, <2>2

\* A call that takes the lock, or ends without it.
LEMMA EnterRecord ==
  ASSUME TypeInv, LockInv, RecordInv, Watch, NEW c \in Calls, Enter(c)
  PROVE  RecordInv'
  <1>1. UNCHANGED <<now, rec, mem>> /\ home[c] \in Replicas /\ pc[c] = "wait" /\ now \in Nat
    BY DEF Enter, TypeInv, TypeOK, HomeOK
  <1>2. /\ \A d \in Calls \ {c} : pc'[d] = pc[d] /\ home'[d] = home[d] /\ loc'[d] = loc[d]
        /\ \/ pc'[c] = "done"
           \/ pc'[c] \in {"load", "resolve"} /\ home'[c] = home[c] /\ loc'[c].ent = mem[home[c]]
    <2> DEFINE l == [loc[c] EXCEPT !.t0 = now, !.ent = mem[home[c]]]
               label == IF mem[home[c]] = NoEntry THEN "load" ELSE "resolve"
    <2>1. CASE Return(c, "memory", mem[home[c]].val, now)
      BY <2>1 DEF Return, Answer, TypeInv, TypeOK
    <2>2. CASE Await(c, label, l)
      <3>1. [l EXCEPT !.since = now].ent = mem[home[c]] /\ label \in {"load", "resolve"}
        BY LocalsType DEF Locals
      <3> HIDE DEF l, label
      <3>2. QED
        BY <2>2, <3>1 DEF Await, TypeInv, TypeOK
    <2>3. QED
      BY <2>1, <2>2 DEF Enter
  <1>3. \A d \in Calls : ~PutEnds(d)
    BY <1>1, <1>2 DEF PutEnds
  <1>4. \A r \in Replicas : MemInv(r)'
    BY <1>1, <1>3, MemFrame DEF RecordInv
  <1>5. PutInv(c)'
    BY <1>1, <1>2 DEF PutInv, Suspended, Putting
  <1>6. \A d \in Calls \ {c} : PutInv(d)'
    BY <1>1, <1>2, PutFrame DEF RecordInv
  <1>7. QED
    BY <1>4, <1>5, <1>6 DEF RecordInv

LEMMA NextRecord ==
  ASSUME TypeInv, AgeInv, LockInv, RecordInv, [Next /\ Watch]_<<vars, unsaved>>, Heartbeat > 0
  PROVE  RecordInv'
  <1>1. CASE UNCHANGED <<vars, unsaved>>
    BY <1>1 DEF vars, RecordInv, MemInv, OnRecord, PutInv, Suspended, Putting, Trips
  <1>2. ASSUME NEW c \in Calls, Step(c), Watch PROVE RecordInv'
    BY <1>2, EnterRecord, LoadRecord, ResolveRecord, ResumeRecord, PutRecord DEF Step
  <1>3. ASSUME NEW c \in Calls, NEW r \in Replicas, Get(c, r), Watch PROVE RecordInv'
    <2>1. /\ UNCHANGED <<now, rec, mem>> /\ pc[c] = "idle" /\ pc'[c] \in {"done", "wait"} /\ now \in Nat
          /\ \A d \in Calls \ {c} : pc'[d] = pc[d] /\ home'[d] = home[d] /\ loc'[d] = loc[d]
      BY <1>3 DEF Get, Return, Answer, TypeInv, TypeOK
    <2>2. \A d \in Calls : ~PutEnds(d)
      BY <2>1 DEF PutEnds
    <2>3. \A q \in Replicas : MemInv(q)'
      BY <1>3, <2>1, <2>2, MemFrame DEF RecordInv
    <2>4. PutInv(c)'
      BY <2>1 DEF PutInv, Suspended, Putting
    <2>5. \A d \in Calls \ {c} : PutInv(d)'
      BY <2>1, PutFrame DEF RecordInv
    <2>6. QED
      BY <2>3, <2>4, <2>5 DEF RecordInv
  <1>4. ASSUME NEW r \in Mortal, Restart(r), Watch PROVE RecordInv'
    <2>1. /\ UNCHANGED <<now, rec>> /\ answer' = NoAnswer /\ now \in Nat
          /\ \A q \in Replicas \ {r} : mem'[q] = mem[q]
          /\ r \in Replicas => mem'[r] = NoEntry
      BY <1>4 DEF Restart, Silent, TypeInv, TypeOK
    <2>2. \A d \in Calls : ~PutEnds(d)
      BY <2>1 DEF PutEnds
    <2>3. ASSUME NEW q \in Replicas PROVE MemInv(q)'
      <3>1. CASE q = r
        BY <2>1, <3>1 DEF MemInv
      <3>2. CASE q # r
        BY <1>4, <2>1, <2>2, <3>2, MemFrame DEF RecordInv
      <3>3. QED
        BY <3>1, <3>2
    <2>4. ASSUME NEW d \in Calls PROVE PutInv(d)'
      <3>1. CASE home[d] = r
        BY <1>4, <3>1 DEF Restart, PutInv, Suspended, Putting
      <3>2. CASE home[d] # r
        <4>1. pc'[d] = pc[d] /\ home'[d] = home[d] /\ loc'[d] = loc[d]
          BY <1>4, <3>2 DEF Restart
        <4>2. Suspended(d) => mem'[home[d]] = mem[home[d]]
          BY <2>1, <3>2 DEF Suspended, TypeInv, HomeOK
        <4>3. QED
          BY <4>1, <4>2, PutFrame DEF RecordInv
      <3>3. QED
        BY <3>1, <3>2
    <2>5. QED
      BY <2>3, <2>4 DEF RecordInv
  <1>5. ASSUME Tick \/ \E v \in Values \cup {None} : Change(v), Watch PROVE RecordInv'
    <2>1. /\ UNCHANGED <<rec, mem, pc, home, loc>> /\ now \in Nat /\ now' \in Nat /\ now <= now'
          /\ answer' = NoAnswer
      BY <1>5 DEF Tick, Change, Silent, TypeInv, TypeOK
    <2>2. \A d \in Calls : ~PutEnds(d)
      BY <2>1 DEF PutEnds
    <2>3. QED
      BY <1>5, <2>1, <2>2, MemFrame, PutFrame DEF RecordInv
  <1>6. QED
    BY <1>1, <1>2, <1>3, <1>4, <1>5 DEF Next

\* However stable a value is and whatever restarts, a replica whose writes
\* succeed never gets ahead of the shared record by a heartbeat and what a
\* put takes; a write interval of nothing is the only exception.
THEOREM RecordStaysFresh == Heartbeat > 0 => (WatchSpec => []RecordKeepsUp)
  <1> SUFFICES ASSUME Heartbeat > 0 PROVE WatchSpec => []RecordKeepsUp
    OBVIOUS
  <1>1. InitWatch => Init /\ RecordInv
    BY DEF InitWatch, Init, RecordInv, MemInv, PutInv, Suspended, Putting
  <1>2. [Next /\ Watch]_<<vars, unsaved>> => [Next]_vars
    OBVIOUS
  <1>3. TypeInv /\ AgeInv /\ LockInv /\ RecordInv /\ [Next /\ Watch]_<<vars, unsaved>> => RecordInv'
    BY NextRecord
  <1>4. TypeInv /\ RecordInv => RecordKeepsUp
    BY Bounds, EntryType DEF RecordInv, MemInv, OnRecord, RecordKeepsUp, TypeInv, TypeOK, K
  <1>5. WatchSpec => Spec
    BY <1>1, <1>2, PTL DEF WatchSpec, Spec
  <1>6. QED
    BY <1>1, <1>3, <1>4, <1>5, CacheInvariants, PTL DEF WatchSpec

=============================================================================

----------------------------- MODULE PrincipalCache -----------------------------
(***************************************************************************)
(* principal_cache.py: what every replica remembers of one principal's     *)
(* attributes, in front of the Keycloak directory and of the record the    *)
(* replicas share in Vault.  One principal is enough: entries, locks and   *)
(* records of two principals never meet.                                   *)
(*                                                                         *)
(* A get() is a call, cut at its awaits: the lock, the Vault read of a     *)
(* cold miss, the directory, the two round trips of a put.  The monotonic  *)
(* clocks of two replicas are only ever used as differences, so one clock  *)
(* stands for all of them; wall clocks may be apart.                       *)
(***************************************************************************)
EXTENDS Integers

CONSTANTS
  Replicas,    \* broker processes
  Calls,       \* calls of get()
  Values,      \* sets of attributes the directory may hold
  Ahead,       \* replicas whose wall clock is ahead of the others
  Drift,       \* by how much
  Refresh,     \* refresh_interval_seconds
  MaxStale,    \* max_staleness_seconds
  Heartbeat,   \* heartbeat_interval_seconds
  MaxRetries,  \* _MAX_CAS_RETRIES
  Wait,        \* how long a round trip may take before it times out
  Slow,        \* calls whose round trips may take that long
  Mortal,      \* replicas that may restart
  MaxChanges,  \* bound of the changes in the directory
  MaxTime,     \* bound of the clock
  None

ASSUME BoundAssumption ==
  /\ Drift \in Nat /\ Refresh \in Nat /\ MaxStale \in Nat /\ Heartbeat \in Nat
  /\ MaxRetries \in Nat \ {0} /\ Wait \in Nat
  /\ MaxChanges \in Nat /\ MaxTime \in Nat
  /\ Ahead \subseteq Replicas /\ Mortal \subseteq Replicas /\ Slow \subseteq Calls
ASSUME NoneAssumption == None \notin Calls \cup Replicas \cup Values

VARIABLES
  now,    \* the clock
  truth,  \* what the directory says; None once the user is deleted
  changes, \* how often that has changed
  until,  \* when each value was last what the directory said
  rec,    \* the record in Vault
  mem,    \* _entries of each replica
  lock,   \* _locks of each replica: the call that holds it
  pc,     \* the await each call is suspended at
  home,   \* the replica each call runs on
  loc,    \* the local variables of each call
  answer  \* what the last step answered its caller, if it did

vars == <<now, truth, changes, until, rec, mem, lock, pc, home, loc, answer>>

-----------------------------------------------------------------------------

Never    == 0 - MaxTime - Heartbeat - 1   \* float("-inf")
NoEntry  == [val |-> None, fetched |-> Never, persisted |-> Never]
NoRecord == [val |-> None, at |-> 0]
NoLocals == [t0 |-> 0, ent |-> NoEntry, got |-> None, stamp |-> 0,
             overtaken |-> FALSE, tries |-> 0, since |-> 0]
NoAnswer == [how |-> "none", val |-> None, at |-> 0]

Entries == [val : Values \cup {None}, fetched : Int, persisted : Int]
Locals  == [t0 : Nat, ent : Entries, got : Values \cup {None}, stamp : Nat,
            overtaken : BOOLEAN, tries : Nat, since : Nat]
Labels  == {"idle", "wait", "load", "resolve", "answered", "put.read", "put.write", "done"}
Answers == [how : {"none", "memory", "record", "directory", "stale", "unavailable"},
            val : Values \cup {None}, at : Nat]

\* Suspended in a round trip, holding the lock.
Suspended(c) == pc[c] \in {"load", "resolve", "answered", "put.read", "put.write"}

Wall(r) == IF r \in Ahead THEN now + Drift ELSE now

\* Entry e may be served at time t without asking anyone.
Fresh(e, t) == e # NoEntry /\ t - e.fetched < Refresh

\* The call ends, having looked at the cache at time t.
Answer(c, how, val, t) ==
  /\ pc'   = [pc EXCEPT ![c] = "done"]
  /\ home' = [home EXCEPT ![c] = None]
  /\ answer' = [how |-> how, val |-> val, at |-> t]

Return(c, how, val, t) ==
  /\ Answer(c, how, val, t)
  /\ loc' = [loc EXCEPT ![c] = NoLocals]

Silent == answer' = NoAnswer

Release(c) == lock' = [lock EXCEPT ![home[c]] = None]

\* On to the next round trip, with the locals l.
Await(c, label, l) ==
  /\ pc'  = [pc EXCEPT ![c] = label]
  /\ loc' = [loc EXCEPT ![c] = [l EXCEPT !.since = now]]
  /\ Silent
  /\ UNCHANGED home

-----------------------------------------------------------------------------
\* get(): the first look is taken without the lock.
Get(c, r) ==
  /\ pc[c] = "idle"
  /\ \/ /\ Fresh(mem[r], now)
        /\ Return(c, "memory", mem[r].val, now)
     \/ /\ ~Fresh(mem[r], now)
        /\ pc'   = [pc EXCEPT ![c] = "wait"]
        /\ home' = [home EXCEPT ![c] = r]
        /\ Silent
        /\ UNCHANGED loc
  /\ UNCHANGED <<now, truth, changes, until, rec, mem, lock>>

\* Mutants of Enter: a lock held by the wrong owner, and no second look once
\* the lock is held.
EnterSwapped(c) ==
  LET r == home[c] IN
  /\ pc[c] = "wait"
  /\ lock[r] = None
  /\ lock' = [lock EXCEPT ![r] = r]
  /\ Await(c, "load", [loc[c] EXCEPT !.t0 = now])
  /\ UNCHANGED <<now, truth, changes, until, rec, mem>>

EnterUnchecked(c) ==
  LET r == home[c]
      l == [loc[c] EXCEPT !.t0 = now, !.ent = mem[r]] IN
  /\ pc[c] = "wait"
  /\ lock[r] = None
  /\ lock' = [lock EXCEPT ![r] = c]
  /\ Await(c, IF mem[r] = NoEntry THEN "load" ELSE "resolve", l)
  /\ UNCHANGED <<now, truth, changes, until, rec, mem>>

\* The lock is free: look again, then ask Vault (a cold miss) or the directory.
Enter(c) ==
  LET r == home[c]
      l == [loc[c] EXCEPT !.t0 = now, !.ent = mem[r]] IN
  /\ pc[c] = "wait"
  /\ lock[r] = None
  /\ \/ /\ Fresh(mem[r], now)
        /\ Return(c, "memory", mem[r].val, now)
        /\ UNCHANGED lock
     \/ /\ ~Fresh(mem[r], now)
        /\ lock' = [lock EXCEPT ![r] = c]
        /\ Await(c, IF mem[r] = NoEntry THEN "load" ELSE "resolve", l)
  /\ UNCHANGED <<now, truth, changes, until, rec, mem>>

\* Mutant of Loaded: a record is taken to be as young as the call.
LoadedYoung(c) == [val |-> rec.val, fetched |-> loc[c].t0, persisted |-> loc[c].t0]

\* The record as an entry, its wall-clock age carried over to this clock.
Loaded(c) ==
  LET age     == IF Wall(home[c]) > rec.at THEN Wall(home[c]) - rec.at ELSE 0
      fetched == loc[c].t0 - age IN
  [val |-> rec.val, fetched |-> fetched, persisted |-> fetched]

\* _load_from_backend(): a failed read is the same as no record.
Load(c) ==
  LET l == loc[c]
      r == home[c] IN
  /\ pc[c] = "load"
  /\ \/ /\ Await(c, "resolve", l)
        /\ UNCHANGED <<mem, lock>>
     \/ /\ rec # NoRecord
        /\ mem' = [mem EXCEPT ![r] = Loaded(c)]
        /\ \/ /\ Fresh(Loaded(c), l.t0)
              /\ Return(c, "record", rec.val, l.t0)
              /\ Release(c)
           \/ /\ ~Fresh(Loaded(c), l.t0)
              /\ Await(c, "resolve", [l EXCEPT !.ent = Loaded(c)])
              /\ UNCHANGED lock
  /\ UNCHANGED <<now, truth, changes, until, rec>>

\* Keycloak has read the user; its answer is on its way back.
DirectoryAnswers(c) ==
  /\ pc[c] = "resolve"
  /\ truth # None
  /\ pc'  = [pc EXCEPT ![c] = "answered"]
  /\ loc' = [loc EXCEPT ![c].got = truth]
  /\ Silent
  /\ UNCHANGED <<now, truth, changes, until, rec, mem, lock, home>>

\* Mutant of DirectoryFails: any entry is served, however old it is.
DirectoryFailsOpen(c) ==
  /\ pc[c] \in {"resolve", "answered"}
  /\ \/ loc[c].ent = NoEntry /\ Return(c, "unavailable", None, loc[c].t0)
     \/ loc[c].ent # NoEntry /\ Return(c, "stale", loc[c].ent.val, loc[c].t0)
  /\ Release(c)
  /\ UNCHANGED <<now, truth, changes, until, rec, mem>>

\* resolve() raised, a deleted user being one more error: serve what is known while its age allows, or fail closed.
DirectoryFails(c) ==
  LET e      == loc[c].ent
      usable == e # NoEntry /\ loc[c].t0 - e.fetched <= MaxStale IN
  /\ pc[c] \in {"resolve", "answered"}
  /\ \/ usable  /\ Return(c, "stale", e.val, loc[c].t0)
     \/ ~usable /\ Return(c, "unavailable", None, loc[c].t0)
  /\ Release(c)
  /\ UNCHANGED <<now, truth, changes, until, rec, mem>>

\* The entry a successful resolve leaves, last written at persisted.
Confirmed(c, persisted) ==
  [val |-> loc[c].got, fetched |-> loc[c].t0, persisted |-> persisted]

Refreshed(c, persisted) ==
  /\ mem' = [mem EXCEPT ![home[c]] = Confirmed(c, persisted)]
  /\ Return(c, "directory", loc[c].got, loc[c].t0)
  /\ Release(c)

\* Mutant of WriteDue: written only when something changed.
WriteDueOnChange(c) == loc[c].ent.val # loc[c].got

WriteDue(c) ==
  LET e == loc[c].ent IN
  \/ e = NoEntry
  \/ e.val # loc[c].got
  \/ loc[c].t0 - e.persisted >= Heartbeat

\* _persist_if_needed(): nothing to write, or the start of a put.
Resume(c) ==
  /\ pc[c] = "answered"
  /\ \/ /\ ~WriteDue(c)
        /\ Refreshed(c, loc[c].ent.persisted)
     \/ /\ WriteDue(c)
        /\ Await(c, "put.read", [loc[c] EXCEPT !.stamp = Wall(home[c]), !.tries = 0])
        /\ UNCHANGED <<mem, lock>>
  /\ UNCHANGED <<now, truth, changes, until, rec>>

PutRead(c) ==
  /\ pc[c] = "put.read"
  /\ Await(c, "put.write", [loc[c] EXCEPT !.overtaken = FALSE])
  /\ UNCHANGED <<now, truth, changes, until, rec, mem, lock>>

\* put() raised: persisted_at is not advanced.
NotPersisted(c) == Refreshed(c, loc[c].ent.persisted)

PutFails(c) ==
  /\ pc[c] \in {"put.read", "put.write"}
  /\ NotPersisted(c)
  /\ UNCHANGED <<now, truth, changes, until, rec>>

\* The write lands, and its answer may be lost; or the record has a newer
\* version than the one read.  No record is ever deleted, so versions only
\* tell whether another write came in between.
PutWrite(c) ==
  LET l == loc[c] IN
  /\ pc[c] = "put.write"
  /\ \/ /\ ~l.overtaken
        /\ rec' = [val |-> l.got, at |-> l.stamp]
        /\ mem' \in {[mem EXCEPT ![home[c]] = Confirmed(c, t)] : t \in {l.t0, l.ent.persisted}}
        /\ Answer(c, "directory", l.got, l.t0)
        /\ loc' = [d \in Calls |-> IF d = c THEN NoLocals ELSE [loc[d] EXCEPT !.overtaken = pc[d] = "put.write"]]
        /\ Release(c)
     \/ /\ l.overtaken
        /\ l.tries + 1 < MaxRetries
        /\ Await(c, "put.read", [l EXCEPT !.tries = @ + 1])
        /\ UNCHANGED <<rec, mem, lock>>
     \/ /\ l.overtaken
        /\ l.tries + 1 >= MaxRetries
        /\ NotPersisted(c)
        /\ UNCHANGED rec
  /\ UNCHANGED <<now, truth, changes, until>>

-----------------------------------------------------------------------------
\* A replica dies and is back: memory, locks and calls in flight are gone.
Restart(r) ==
  /\ mem'  = [mem EXCEPT ![r] = NoEntry]
  /\ lock' = [lock EXCEPT ![r] = None]
  /\ pc'   = [c \in Calls |-> IF home[c] = r THEN "done" ELSE pc[c]]
  /\ loc'  = [c \in Calls |-> IF home[c] = r THEN NoLocals ELSE loc[c]]
  /\ home' = [c \in Calls |-> IF home[c] = r THEN None ELSE home[c]]
  /\ Silent
  /\ UNCHANGED <<now, truth, changes, until, rec>>

\* A group is added or removed, or the user is deleted.
Change(v) ==
  /\ truth \notin {v, None}
  /\ changes < MaxChanges
  /\ changes' = changes + 1
  /\ truth' = v
  /\ until' = IF v = None THEN until ELSE [until EXCEPT ![v] = now]
  /\ Silent
  /\ UNCHANGED <<now, rec, mem, lock, pc, home, loc>>

\* No round trip outlives its timeout.
Tick ==
  /\ now < MaxTime
  /\ \A c \in Calls : Suspended(c) => c \in Slow /\ now - loc[c].since < Wait
  /\ now'   = now + 1
  /\ until' = IF truth = None THEN until ELSE [until EXCEPT ![truth] = now + 1]
  /\ Silent
  /\ UNCHANGED <<truth, changes, rec, mem, lock, pc, home, loc>>

Init ==
  /\ now   = 0
  /\ truth \in Values
  /\ changes = 0
  /\ until = [v \in Values |-> IF v = truth THEN 0 ELSE Never]
  /\ rec   = NoRecord
  /\ mem   = [r \in Replicas |-> NoEntry]
  /\ lock  = [r \in Replicas |-> None]
  /\ pc    = [c \in Calls |-> "idle"]
  /\ home  = [c \in Calls |-> None]
  /\ loc   = [c \in Calls |-> NoLocals]
  /\ answer = NoAnswer

Step(c) ==
  \/ Enter(c) \/ Load(c) \/ DirectoryAnswers(c) \/ DirectoryFails(c) \/ Resume(c)
  \/ PutRead(c) \/ PutWrite(c) \/ PutFails(c)

Next ==
  \/ \E c \in Calls : Step(c) \/ \E r \in Replicas : Get(c, r)
  \/ \E r \in Mortal : Restart(r)
  \/ \E v \in Values \cup {None} : Change(v)
  \/ Tick

Spec == Init /\ [][Next]_vars

-----------------------------------------------------------------------------
\* Every variable has its type.
TypeOK ==
  /\ now \in Nat
  /\ truth \in Values \cup {None}
  /\ changes \in Nat
  /\ until \in [Values -> Int]
  /\ rec \in [val : Values \cup {None}, at : Nat]
  /\ mem \in [Replicas -> Entries]
  /\ lock \in [Replicas -> Calls \cup {None}]
  /\ pc \in [Calls -> Labels]
  /\ home \in [Calls -> Replicas \cup {None}]
  /\ loc \in [Calls -> Locals]
  /\ answer \in Answers

\* A group removal is a kill switch: unless a refresh failed, no call is
\* given a value the directory had already dropped for a refresh interval
\* when the call took its last look.  A record adds the round trip it was
\* stamped after and what the wall clocks are apart; restarts, other
\* replicas and writes out of order add nothing.
KillSwitch ==
  answer.how \in {"memory", "record", "directory"} =>
    answer.at <= until[answer.val] + Refresh + Drift + Wait

\* An outage of the directory never keeps a value alive for longer than the
\* staleness bound, whether it was resolved here or read from Vault.
OutageBound ==
  answer.how = "stale" =>
    answer.at <= until[answer.val] + MaxStale + Drift + Wait

\* Single flight: the directory is asked only by a replica that holds no
\* fresh value, however many calls were waiting for the one before.
NoRefreshStorm ==
  [][\A c \in Calls :
       pc[c] # "resolve" /\ pc'[c] = "resolve" => ~Fresh(mem[home[c]], now)]_vars
=============================================================================

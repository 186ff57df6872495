------------------------------ MODULE CredmonSync ------------------------------
(***************************************************************************)
(* The credmon loop of every broker replica (credmon/sync.py) and what     *)
(* the replicas share in Vault (credmon/vault.py): the lease, which is     *)
(* never released, and the status record, which says when a cycle is due.  *)
(*                                                                         *)
(* A run is a tick of a replica's timer loop or a request of an admin; it  *)
(* is cut at its awaits.  Time is kept as ages and as what is left of the  *)
(* lease, so a behaviour has no end; the KV version of an entry is kept as *)
(* "nobody wrote it since I read it", since no entry is ever deleted.      *)
(***************************************************************************)
EXTENDS Integers

CONSTANTS
  Replicas,    \* broker processes
  Admins,      \* replicas an admin's request may reach
  Ahead,       \* replicas whose clock is ahead of the others
  Drift,       \* by how much
  TTL,         \* _LEASE_TTL_SECONDS
  Interval,    \* credmon_sync_interval_seconds
  Poll,        \* _POLL_SECONDS
  MaxWait,     \* how long a Vault round trip may take before it times out
  MaxCycle,    \* how long CredmonStorer.run_once() may take
  MaxSubjects, \* bound of the (kind, subject) pairs a cycle goes through
  MaxFaults,   \* bound of the Vault errors and restarts
  None

ASSUME ReplicaAssumption ==
  /\ Ahead \subseteq Replicas /\ Admins \subseteq Replicas
  /\ None \notin Replicas /\ None # "gone" /\ "gone" \notin Replicas
ASSUME NumberAssumption ==
  /\ Drift \in Nat /\ TTL \in Nat /\ Interval \in Nat
  /\ MaxWait \in Nat \ {0} /\ Poll \in Nat \ {0} /\ MaxCycle \in Nat
  /\ MaxSubjects \in Nat /\ MaxFaults \in Nat
\* "The per-cycle lease only has to outlive one cycle": with the round trips
\* before and after it, on clocks that are apart.
ASSUME LeaseOutlivesCycle == TTL > MaxCycle + 6 * MaxWait + Drift
\* An interval is longer than it takes to write down that a cycle is over.
ASSUME IntervalAssumption == Interval >= 4 * MaxWait

VARIABLES
  lease,   \* {prefix}/lease: the holder, and how long until it expires
  status,  \* {prefix}/status: age of finished_at, and who wrote it
  pc,      \* the await each run is suspended at
  spent,   \* for how long
  loc,     \* the local variables of each run
  faults   \* Vault errors and restarts so far

vars == <<lease, status, pc, spent, loc, faults>>

-----------------------------------------------------------------------------

Runs == Replicas \X {"timer", "manual"}
Home(p) == p[1]
Timer(r)  == <<r, "timer">>
Manual(r) == <<r, "manual">>

\* "late" is the time a run's clock reading is behind the present: `now` of
\* try_acquire_lease(), then `finished_at` of the status.
NoLocals == [late |-> 0, current |-> FALSE, todo |-> 0, tries |-> 0]
NoLease  == [holder |-> None, left |-> 0 - MaxWait]
NoStatus == [by |-> None, age |-> Interval]

Locals == [late : 0..4 * MaxWait, current : BOOLEAN, todo : 0..MaxSubjects, tries : 0..1]
Labels == {"idle", "status", "lease.read", "lease.write", "list", "cycle", "put.read", "put.write"}

\* How far r's clock is ahead.
Offset(r) == IF r \in Ahead THEN Drift ELSE 0

\* In run_once(), or writing down how it went.
InCycle(p) == pc[p] \in {"list", "cycle"}
Busy(p)    == InCycle(p) \/ pc[p] \in {"put.read", "put.write"}

\* No cycle is recorded within the interval, by r's clock.
DueFor(r) == status.age + Offset(r) >= Interval

\* The longest a run may stay where it is: asyncio.sleep(poll), an HTTP
\* timeout, the whole of run_once(); no admin has to press the button.
Limit(p) ==
  CASE pc[p] = "idle" /\ p[2] = "timer" -> Poll
    [] InCycle(p)                       -> MaxCycle
    [] OTHER                            -> MaxWait
Waiting(p) == pc[p] # "idle" \/ p[2] = "timer"

Goto(p, l) ==
  /\ pc'    = [pc EXCEPT ![p] = l]
  /\ spent' = [spent EXCEPT ![p] = 0]
Ends(p) == Goto(p, "idle") /\ loc' = [loc EXCEPT ![p] = NoLocals]

\* loc once p has written an entry that the runs at label l have read.
Overtaking(l) ==
  [q \in Runs |-> IF pc[q] = l THEN [loc[q] EXCEPT !.current = FALSE] ELSE loc[q]]

Fault == faults < MaxFaults /\ faults' = faults + 1
Fine  == UNCHANGED faults

-----------------------------------------------------------------------------
\* The timer loop and the admin route

\* tick() or run_now() begins: both read the status first.
Wake(r) ==
  /\ pc[Timer(r)] = "idle" /\ spent[Timer(r)] = Poll
  /\ Goto(Timer(r), "status")
  /\ UNCHANGED <<lease, status, loc, faults>>

Request(r) ==
  /\ r \in Admins
  /\ pc[Manual(r)] = "idle"
  /\ Goto(Manual(r), "status")
  /\ UNCHANGED <<lease, status, loc, faults>>

\* A round trip fails: the tick is logged, the admin gets a 500.
Fails(p) ==
  /\ pc[p] \in {"status", "lease.read", "lease.write", "put.read", "put.write"}
  /\ Fault
  /\ Ends(p)
  /\ UNCHANGED <<lease, status>>

\* A tick ends here unless a cycle is due; the clock reading the lease will
\* count from is taken now.
StatusRead(p) ==
  /\ pc[p] = "status"
  /\ Fine
  /\ IF p = Timer(Home(p)) /\ ~DueFor(Home(p))
       THEN Ends(p)
       ELSE Goto(p, "lease.read") /\ UNCHANGED loc
  /\ UNCHANGED <<lease, status>>

-----------------------------------------------------------------------------
\* VaultCredmonSyncState.try_acquire_lease

\* Mutant of LeaseFree: a lease stays with its holder until it is given back.
LeaseFreeToHolder(p) == lease.holder \in {None, Home(p)}
\* Free for p, which compares with a clock reading that is already late.
LeaseFree(p) ==
  \/ lease.holder \in {None, Home(p)}
  \/ lease.left + loc[p].late <= Offset(Home(p))

LeaseRead(p) ==
  /\ pc[p] = "lease.read"
  /\ Fine
  /\ IF LeaseFree(p)
       THEN Goto(p, "lease.write") /\ loc' = [loc EXCEPT ![p].current = TRUE]
       ELSE Ends(p)
  /\ UNCHANGED <<lease, status>>

Acquired(p) ==
  /\ lease' = [holder |-> Home(p), left |-> TTL + Offset(Home(p)) - loc[p].late]
  /\ UNCHANGED status

\* Mutant of LeaseWrite: a plain write, without check-and-set.
LeaseWriteBlind(p) ==
  /\ pc[p] = "lease.write"
  /\ Fine
  /\ Acquired(p)
  /\ Goto(p, "list")
  /\ loc' = [Overtaking("lease.write") EXCEPT ![p] = NoLocals]

LeaseWrite(p) ==
  /\ pc[p] = "lease.write"
  /\ \/ /\ ~loc[p].current          \* CasConflict: not acquired
        /\ Fine
        /\ Ends(p)
        /\ UNCHANGED <<lease, status>>
     \/ /\ loc[p].current
        /\ Fine
        /\ Acquired(p)
        /\ Goto(p, "list")
        /\ loc' = [Overtaking("lease.write") EXCEPT ![p] = NoLocals]
     \/ /\ loc[p].current           \* written, but the answer is lost
        /\ Fault
        /\ Acquired(p)
        /\ Goto(p, "idle")
        /\ loc' = [Overtaking("lease.write") EXCEPT ![p] = NoLocals]

-----------------------------------------------------------------------------
\* CredmonStorer.run_once; time passes until the whole of it is over

\* _run() has a report, or an exception to put in its place: either way it
\* records that a cycle finished now.
Finish(p) == Goto(p, "put.read") /\ loc' = [loc EXCEPT ![p] = NoLocals]

ListSubjects(p) ==
  /\ pc[p] = "list"
  /\ \/ /\ Fine
        /\ \E n \in 0..MaxSubjects : loc' = [loc EXCEPT ![p].todo = n]
        /\ pc' = [pc EXCEPT ![p] = "cycle"]
        /\ UNCHANGED spent
     \/ Fault /\ Finish(p)
  /\ UNCHANGED <<lease, status>>

\* A subject is stored, skipped or counted as failed; an exception that is
\* neither the directory's nor credd's, such as Vault's in is_linked(),
\* leaves run_once().
SyncOne(p) ==
  /\ pc[p] = "cycle" /\ loc[p].todo > 0
  /\ \/ /\ Fine
        /\ loc' = [loc EXCEPT ![p].todo = loc[p].todo - 1]
        /\ UNCHANGED <<pc, spent>>
     \/ Fault /\ Finish(p)
  /\ UNCHANGED <<lease, status>>

CycleEnds(p) ==
  /\ pc[p] = "cycle" /\ loc[p].todo = 0
  /\ Fine
  /\ Finish(p)
  /\ UNCHANGED <<lease, status>>

-----------------------------------------------------------------------------
\* VaultCredmonSyncState.write_status

PutRead(p) ==
  /\ pc[p] = "put.read"
  /\ Fine
  /\ Goto(p, "put.write")
  /\ loc' = [loc EXCEPT ![p].current = TRUE]
  /\ UNCHANGED <<lease, status>>

\* Mutant of Recorded: the lease is given back with the status.
RecordedAndReleased(p) ==
  /\ status' = [by |-> Home(p), age |-> loc[p].late - Offset(Home(p))]
  /\ lease' = NoLease
Recorded(p) ==
  /\ status' = [by |-> Home(p), age |-> loc[p].late - Offset(Home(p))]
  /\ UNCHANGED lease

\* Mutant of LastTry: a conflict is retried for as long as it takes.
LastTryNever(p) == FALSE
LastTry(p) == loc[p].tries = 1

\* Whether the answer arrives or is lost, the run is over.
PutWrite(p) ==
  /\ pc[p] = "put.write"
  /\ \/ /\ loc[p].current
        /\ Fine \/ Fault
        /\ Recorded(p)
        /\ Goto(p, "idle")
        /\ loc' = [Overtaking("put.write") EXCEPT ![p] = NoLocals]
     \/ /\ ~loc[p].current /\ ~LastTry(p)
        /\ Fine
        /\ Goto(p, "put.read")
        /\ loc' = [loc EXCEPT ![p].tries = loc[p].tries + 1]
        /\ UNCHANGED <<lease, status>>
     \/ /\ ~loc[p].current /\ LastTry(p)   \* CasConflict is raised
        /\ Fine
        /\ Ends(p)
        /\ UNCHANGED <<lease, status>>

-----------------------------------------------------------------------------

\* r dies, with what it was doing, and comes back: under the same name, or
\* as a new pod that does not know the lease its predecessor holds.
Restart(r) ==
  /\ Fault
  /\ LET mine == {Timer(r), Manual(r)} IN
       /\ pc'    = [p \in Runs |-> IF p \in mine THEN "idle" ELSE pc[p]]
       /\ spent' = [p \in Runs |-> IF p \in mine THEN 0 ELSE spent[p]]
       /\ loc'   = [p \in Runs |-> IF p \in mine THEN NoLocals ELSE loc[p]]
  /\ \/ UNCHANGED lease
     \/ lease.holder = r /\ lease' = [lease EXCEPT !.holder = "gone"]
  /\ UNCHANGED status

\* What a clock reading of p lags behind once time has passed.
Later(p) ==
  IF pc[p] \in {"lease.read", "lease.write", "put.read", "put.write"}
    THEN [loc[p] EXCEPT !.late = loc[p].late + 1]
    ELSE loc[p]

Tick ==
  /\ \A p \in Runs : Waiting(p) => spent[p] < Limit(p)
  /\ spent'  = [p \in Runs |-> IF Waiting(p) THEN spent[p] + 1 ELSE 0]
  /\ loc'    = [p \in Runs |-> Later(p)]
  /\ lease'  = [lease EXCEPT !.left = IF lease.left > 0 - MaxWait THEN lease.left - 1 ELSE lease.left]
  /\ status' = [status EXCEPT !.age = IF status.age < Interval THEN status.age + 1 ELSE status.age]
  /\ UNCHANGED <<pc, faults>>

Init ==
  /\ lease = NoLease /\ status = NoStatus
  /\ pc    = [p \in Runs |-> "idle"]
  /\ spent = [p \in Runs |-> 0]
  /\ loc   = [p \in Runs |-> NoLocals]
  /\ faults = 0

\* What the event loop does next with a run that has begun.
Step(p) ==
  \/ StatusRead(p) \/ LeaseRead(p) \/ LeaseWrite(p)
  \/ ListSubjects(p) \/ SyncOne(p) \/ CycleEnds(p)
  \/ PutRead(p) \/ PutWrite(p)

Next ==
  \/ Tick
  \/ \E r \in Replicas : Wake(r) \/ Request(r) \/ Restart(r)
  \/ \E p \in Runs : Step(p) \/ Fails(p)

\* The clock goes on, loops wake up and round trips end.  Admins need not
\* ask for anything, and after MaxFaults errors and restarts none follows.
Fairness ==
  /\ WF_vars(Tick)
  /\ \A r \in Replicas : WF_vars(Wake(r))
  /\ \A p \in Runs : WF_vars(Step(p))

Spec     == Init /\ [][Next]_vars
FairSpec == Spec /\ Fairness

-----------------------------------------------------------------------------

\* Every variable stays within its type.  In particular a clock reading is
\* never older than the round trips that follow it allow.
TypeOK ==
  /\ lease \in [holder : Replicas \cup {None, "gone"}, left : (0 - MaxWait)..(TTL + Drift)]
  /\ status \in [by : Replicas \cup {None}, age : (0 - Drift)..Interval]
  /\ pc \in [Runs -> Labels]
  /\ spent \in [Runs -> Nat] /\ \A p \in Runs : spent[p] <= Limit(p)
  /\ loc \in [Runs -> Locals]
  /\ faults \in 0..MaxFaults

\* Two replicas never run a cycle, or write down its outcome, at the same
\* time: although a lease is counted from a reading of the clock that is two
\* round trips old when it lands, although its holder may take it again with
\* an older reading than the one it already counts from, and although it is
\* judged by another clock.
OneReplica == \A p, q \in Runs : Busy(p) /\ Busy(q) => Home(p) = Home(q)

\* A timer cycle never begins while the record shows another replica's cycle
\* within the interval.  The timer looked before it took the lease; what
\* keeps that look good is that the lease outlives the cycle and is not
\* given back at its end.
OncePerInterval ==
  [][\A r \in Replicas :
       pc[Timer(r)] = "lease.write" /\ pc'[Timer(r)] = "list" => DueFor(r) \/ status.by = r]_vars

\* A cycle is recorded again and again: whoever dies with the lease, and
\* however the lease and the status writes collide.
DueCycleRuns == []<>(status.age < Interval)

\* What the module docstring says of a manual run: it "needs the lease [...]
\* without ever overlapping a running cycle".
OneCycle == \A p, q \in Runs : InCycle(p) /\ InCycle(q) => p = q

\* What the docstring of run_once() says: "per-subject failures are recorded,
\* never raised".  A cycle that has its subjects goes through all of them.
EverySubjectTried ==
  [][\A p \in Runs : pc[p] = "cycle" /\ pc'[p] = "put.read" => loc[p].todo = 0]_vars

=============================================================================

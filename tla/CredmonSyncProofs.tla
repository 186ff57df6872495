----------------------------- MODULE CredmonSyncProofs -----------------------------
(***************************************************************************)
(* Proofs about CredmonSync, for any number of replicas whose clocks are   *)
(* apart, any timeouts and any lease that outlives a cycle: the lease is   *)
(* enough for one replica at a time, and for one cycle per interval.       *)
(***************************************************************************)
EXTENDS CredmonSync, TLAPS

-----------------------------------------------------------------------------
\* Type correctness.  What the types alone do not say is why a clock reading
\* cannot be older than its bound: it is as old as the waits since.

\* What a second attempt at the status write comes after.
Retried(p) == IF loc[p].tries = 0 THEN 0 ELSE 2 * MaxWait

LateOK(p) ==
  /\ pc[p] \in {"idle", "status"} => loc[p].late = 0
  /\ pc[p] = "lease.read"  => loc[p].late <= spent[p]
  /\ pc[p] = "lease.write" => loc[p].late <= MaxWait + spent[p]
  /\ pc[p] = "put.read"    => loc[p].late <= Retried(p) + spent[p]
  /\ pc[p] = "put.write"   => loc[p].late <= Retried(p) + MaxWait + spent[p]

TypeInv == TypeOK /\ \A p \in Runs : LateOK(p)

\* The part of TypeInv that is about the runs.
RunsInv ==
  /\ pc \in [Runs -> Labels]
  /\ spent \in [Runs -> Nat] /\ \A p \in Runs : spent[p] <= Limit(p)
  /\ loc \in [Runs -> Locals]
  /\ \A p \in Runs : LateOK(p)

\* The rest of the state.
EntriesInv ==
  /\ lease \in [holder : Replicas \cup {None, "gone"}, left : (0 - MaxWait)..(TTL + Drift)]
  /\ status \in [by : Replicas \cup {None}, age : (0 - Drift)..Interval]
  /\ faults \in 0..MaxFaults

LEMMA Parts ==
  /\ TypeInv => RunsInv /\ EntriesInv
  /\ RunsInv' /\ EntriesInv' => TypeInv'
  BY DEF TypeInv, TypeOK, RunsInv, EntriesInv

LEMMA RunsType ==
  /\ \A p \in Runs : Home(p) \in Replicas
  /\ \A r \in Replicas : /\ Timer(r) \in Runs /\ Manual(r) \in Runs
                         /\ Home(Timer(r)) = r /\ Home(Manual(r)) = r
  BY DEF Runs, Home, Timer, Manual

LEMMA OffsetType == \A r : Offset(r) \in 0..Drift
  BY NumberAssumption DEF Offset

LEMMA Blank == NoLocals \in Locals /\ NoLocals.late = 0 /\ NoLocals.tries = 0
  BY NumberAssumption DEF NoLocals, Locals

LEMMA LimitType == \A p : Limit(p) \in Nat
  BY NumberAssumption DEF Limit

LEMMA LimitTypeNext == \A p : Limit(p)' \in Nat
  BY NumberAssumption DEF Limit

LEMMA LimitOf ==
  ASSUME NEW p \in Runs
  PROVE  /\ InCycle(p) => Limit(p) = MaxCycle
         /\ pc[p] \in {"status", "lease.read", "lease.write", "put.read", "put.write"}
              => Limit(p) = MaxWait
  BY DEF Limit, InCycle

LEMMA LocalsType ==
  ASSUME TypeInv, NEW p \in Runs
  PROVE  /\ loc[p] \in Locals
         /\ loc[p].late \in 0..4 * MaxWait /\ loc[p].current \in BOOLEAN
         /\ loc[p].todo \in 0..MaxSubjects /\ loc[p].tries \in 0..1
         /\ pc[p] \in Labels /\ spent[p] \in Nat /\ spent[p] <= Limit(p)
  <1>1. loc[p] \in Locals /\ pc[p] \in Labels /\ spent[p] \in Nat /\ spent[p] <= Limit(p)
    BY DEF TypeInv, TypeOK
  <1>2. QED
    BY <1>1, LimitType DEF Locals

\* A run goes on at l with the locals v; the others keep theirs, except
\* that a write may have overtaken some.
LEMMA GotoRuns ==
  ASSUME TypeInv, NEW p \in Runs, NEW l \in Labels, NEW v \in Locals,
         Goto(p, l),
         loc' \in [Runs -> Locals],
         loc'[p] = v,
         \A q \in Runs \ {p} : loc'[q].late = loc[q].late /\ loc'[q].tries = loc[q].tries,
         l \in {"idle", "status", "lease.read"} => v.late = 0,
         l = "lease.write" => v.late <= MaxWait,
         l = "put.read" => v.late <= IF v.tries = 0 THEN 0 ELSE 2 * MaxWait,
         l = "put.write" => v.late <= MaxWait + IF v.tries = 0 THEN 0 ELSE 2 * MaxWait
  PROVE  RunsInv'
  <1>1. pc' = [pc EXCEPT ![p] = l] /\ spent' = [spent EXCEPT ![p] = 0]
    BY DEF Goto
  <1>2. pc' \in [Runs -> Labels] /\ spent' \in [Runs -> Nat]
    BY <1>1 DEF TypeInv, TypeOK
  <1>3. pc'[p] = l /\ spent'[p] = 0
    BY <1>1 DEF TypeInv, TypeOK
  <1>4. \A q \in Runs \ {p} : pc'[q] = pc[q] /\ spent'[q] = spent[q]
    BY <1>1 DEF TypeInv, TypeOK
  <1>5. LateOK(p)'
    BY <1>3, NumberAssumption DEF LateOK, Retried, Locals
  <1>6. ASSUME NEW q \in Runs \ {p}
        PROVE  LateOK(q)' /\ spent'[q] <= Limit(q)'
    BY <1>4, <1>6 DEF LateOK, Retried, Limit, InCycle, TypeInv, TypeOK
  <1>7. spent'[p] <= Limit(p)'
    BY <1>3, LimitTypeNext
  <1>8. QED
    BY <1>2, <1>5, <1>6, <1>7 DEF RunsInv

\* The frequent cases: the locals of the others stay, and p's are given.
LEMMA EndsRuns ==
  ASSUME TypeInv, NEW p \in Runs, Ends(p)
  PROVE  RunsInv'
  <1>1. Goto(p, "idle") /\ loc' = [loc EXCEPT ![p] = NoLocals]
    BY DEF Ends
  <1>2. /\ loc' \in [Runs -> Locals] /\ loc'[p] = NoLocals
        /\ \A q \in Runs \ {p} : loc'[q].late = loc[q].late /\ loc'[q].tries = loc[q].tries
    BY <1>1, Blank DEF TypeInv, TypeOK
  <1>3. QED
    BY <1>1, <1>2, Blank, GotoRuns DEF Labels

LEMMA OvertakingType ==
  ASSUME TypeInv, NEW l
  PROVE  /\ Overtaking(l) \in [Runs -> Locals]
         /\ \A q \in Runs : /\ Overtaking(l)[q].late = loc[q].late
                            /\ Overtaking(l)[q].tries = loc[q].tries
                            /\ pc[q] = l => ~Overtaking(l)[q].current
                            /\ pc[q] # l => Overtaking(l)[q] = loc[q]
  <1>1. loc \in [Runs -> Locals]
    BY DEF TypeInv, TypeOK
  <1>2. ASSUME NEW q \in Runs
        PROVE  /\ Overtaking(l)[q] \in Locals
               /\ Overtaking(l)[q].late = loc[q].late
               /\ Overtaking(l)[q].tries = loc[q].tries
               /\ pc[q] = l => ~Overtaking(l)[q].current
               /\ pc[q] # l => Overtaking(l)[q] = loc[q]
    BY <1>1 DEF Overtaking, Locals
  <1>3. QED
    BY <1>2 DEF Overtaking

\* A run ends, or goes on without locals, after a write that overtakes.
LEMMA WroteRuns ==
  ASSUME TypeInv, NEW p \in Runs, NEW w, NEW l \in {"idle", "list"}, Goto(p, l),
         loc' = [Overtaking(w) EXCEPT ![p] = NoLocals]
  PROVE  RunsInv'
  <1>1. /\ loc' \in [Runs -> Locals] /\ loc'[p] = NoLocals
        /\ \A q \in Runs \ {p} : loc'[q].late = loc[q].late /\ loc'[q].tries = loc[q].tries
    BY OvertakingType, Blank
  <1>2. QED
    BY <1>1, Blank, GotoRuns DEF Labels

LEMMA LeaseReadType ==
  ASSUME TypeInv, NEW p \in Runs, LeaseRead(p)
  PROVE  TypeInv'
  <1>1. EntriesInv'
    BY DEF LeaseRead, Fine, TypeInv, TypeOK, EntriesInv
  <1>2. CASE LeaseFree(p)
    <2>1. Goto(p, "lease.write") /\ loc' = [loc EXCEPT ![p].current = TRUE]
      BY <1>2 DEF LeaseRead
    <2> DEFINE v == [loc[p] EXCEPT !.current = TRUE]
    <2>2. v \in Locals /\ v.late = loc[p].late /\ v.tries = loc[p].tries
      BY LocalsType DEF Locals
    <2>3. loc' \in [Runs -> Locals] /\ loc'[p] = v /\ \A q \in Runs \ {p} : loc'[q] = loc[q]
      BY <2>1, <2>2 DEF TypeInv, TypeOK
    <2>4. loc[p].late <= MaxWait
      BY LocalsType, LimitOf, NumberAssumption DEF LeaseRead, TypeInv, LateOK
    <2> HIDE DEF v
    <2>5. RunsInv'
      BY <2>1, <2>2, <2>3, <2>4, GotoRuns DEF Labels
    <2>6. QED
      BY <1>1, <2>5, Parts
  <1>3. CASE ~LeaseFree(p)
    BY <1>1, <1>3, EndsRuns, Parts DEF LeaseRead
  <1>4. QED
    BY <1>2, <1>3

LEMMA AcquiredType ==
  ASSUME TypeInv, NEW p \in Runs, pc[p] = "lease.write", Acquired(p)
  PROVE  /\ lease' \in [holder : Replicas \cup {None, "gone"}, left : (0 - MaxWait)..(TTL + Drift)]
         /\ lease'.holder = Home(p)
         /\ lease'.left >= TTL - 2 * MaxWait
  <1>1. loc[p].late \in Nat /\ loc[p].late <= 2 * MaxWait
    BY LocalsType, LimitOf, NumberAssumption DEF TypeInv, LateOK
  <1>2. Offset(Home(p)) \in 0..Drift
    BY OffsetType
  <1>3. TTL + Offset(Home(p)) - loc[p].late \in (0 - MaxWait)..(TTL + Drift)
    BY <1>1, <1>2, NumberAssumption, LeaseOutlivesCycle
  <1>4. TTL + Offset(Home(p)) - loc[p].late >= TTL - 2 * MaxWait
    BY <1>1, <1>2, NumberAssumption
  <1>5. QED
    BY <1>3, <1>4, RunsType DEF Acquired

LEMMA LeaseWriteType ==
  ASSUME TypeInv, NEW p \in Runs, LeaseWrite(p)
  PROVE  TypeInv'
  <1>1. pc[p] = "lease.write" /\ faults' \in 0..MaxFaults
    BY NumberAssumption DEF LeaseWrite, Fine, Fault, TypeInv, TypeOK
  <1>2. CASE ~loc[p].current
    <2>1. Ends(p) /\ UNCHANGED <<lease, status>>
      BY <1>2 DEF LeaseWrite
    <2>2. QED
      BY <1>1, <2>1, EndsRuns, Parts DEF EntriesInv
  <1>3. CASE loc[p].current
    <2>1. PICK l \in {"idle", "list"} :
            Acquired(p) /\ Goto(p, l) /\ loc' = [Overtaking("lease.write") EXCEPT ![p] = NoLocals]
      BY <1>3 DEF LeaseWrite
    <2>2. RunsInv'
      BY <2>1, WroteRuns
    <2>3. status' = status
      BY <2>1 DEF Acquired
    <2>4. QED
      BY <1>1, <2>1, <2>2, <2>3, AcquiredType, Parts DEF EntriesInv
  <1>4. QED
    BY <1>2, <1>3

LEMMA FinishRuns ==
  ASSUME TypeInv, NEW p \in Runs, Finish(p)
  PROVE  RunsInv'
  <1>1. Goto(p, "put.read") /\ loc' = [loc EXCEPT ![p] = NoLocals]
    BY DEF Finish
  <1>2. /\ loc' \in [Runs -> Locals] /\ loc'[p] = NoLocals
        /\ \A q \in Runs \ {p} : loc'[q].late = loc[q].late /\ loc'[q].tries = loc[q].tries
    BY <1>1, Blank DEF TypeInv, TypeOK
  <1>3. QED
    BY <1>1, <1>2, Blank, GotoRuns DEF Labels

\* Inside run_once() a run only counts its subjects down.
LEMMA CycleRuns ==
  ASSUME TypeInv, NEW p \in Runs, NEW n \in 0..MaxSubjects, InCycle(p),
         loc' = [loc EXCEPT ![p].todo = n],
         pc' = [pc EXCEPT ![p] = "cycle"], spent' = spent
  PROVE  RunsInv'
  <1>1. /\ pc' \in [Runs -> Labels] /\ pc'[p] = "cycle"
        /\ \A q \in Runs \ {p} : pc'[q] = pc[q]
    BY DEF TypeInv, TypeOK, Labels
  <1>2. [loc[p] EXCEPT !.todo = n] \in Locals
    BY LocalsType DEF Locals
  <1>3. /\ loc' \in [Runs -> Locals]
        /\ \A q \in Runs \ {p} : loc'[q] = loc[q]
    BY <1>2 DEF TypeInv, TypeOK
  <1>4. spent[p] <= Limit(p) /\ Limit(p) = MaxCycle
    BY LocalsType, LimitOf
  <1>5. Limit(p)' = MaxCycle /\ LateOK(p)'
    BY <1>1 DEF Limit, InCycle, LateOK
  <1>6. ASSUME NEW q \in Runs \ {p}
        PROVE  spent'[q] <= Limit(q)' /\ LateOK(q)'
    BY <1>1, <1>3 DEF Limit, InCycle, LateOK, Retried, TypeInv, TypeOK
  <1>7. spent' \in [Runs -> Nat]
    BY DEF TypeInv, TypeOK
  <1>8. QED
    BY <1>1, <1>3, <1>4, <1>5, <1>6, <1>7 DEF RunsInv

LEMMA CycleType ==
  ASSUME TypeInv, NEW p \in Runs, ListSubjects(p) \/ SyncOne(p) \/ CycleEnds(p)
  PROVE  TypeInv'
  <1>1. InCycle(p) /\ EntriesInv'
    BY NumberAssumption
    DEF ListSubjects, SyncOne, CycleEnds, InCycle, Fine, Fault, TypeInv, TypeOK, EntriesInv
  <1>2. CASE Finish(p)
    BY <1>1, <1>2, FinishRuns, Parts
  <1>3. CASE ~Finish(p)
    <2>1. PICK n \in 0..MaxSubjects :
            /\ loc' = [loc EXCEPT ![p].todo = n]
            /\ pc' = [pc EXCEPT ![p] = "cycle"] /\ spent' = spent
      <3>1. CASE ListSubjects(p)
        BY <1>3, <3>1 DEF ListSubjects
      <3>2. CASE SyncOne(p)
        <4>1. /\ pc[p] = "cycle" /\ loc[p].todo > 0
              /\ loc' = [loc EXCEPT ![p].todo = loc[p].todo - 1] /\ UNCHANGED <<pc, spent>>
          BY <1>3, <3>2 DEF SyncOne
        <4>2. loc[p].todo - 1 \in 0..MaxSubjects
          BY <4>1, LocalsType, NumberAssumption
        <4>3. pc' = [pc EXCEPT ![p] = "cycle"]
          BY <4>1 DEF TypeInv, TypeOK
        <4>4. QED
          BY <4>1, <4>2, <4>3
      <3>3. CASE CycleEnds(p)
        BY <1>3, <3>3 DEF CycleEnds
      <3>4. QED
        BY <3>1, <3>2, <3>3
    <2>2. QED
      BY <1>1, <2>1, CycleRuns, Parts
  <1>4. QED
    BY <1>2, <1>3

LEMMA PutReadType ==
  ASSUME TypeInv, NEW p \in Runs, PutRead(p)
  PROVE  TypeInv'
  <1>1. EntriesInv'
    BY DEF PutRead, Fine, TypeInv, TypeOK, EntriesInv
  <1>2. Goto(p, "put.write") /\ loc' = [loc EXCEPT ![p].current = TRUE] /\ pc[p] = "put.read"
    BY DEF PutRead
  <1> DEFINE v == [loc[p] EXCEPT !.current = TRUE]
  <1>3. v \in Locals /\ v.late = loc[p].late /\ v.tries = loc[p].tries
    BY LocalsType DEF Locals
  <1>4. loc' \in [Runs -> Locals] /\ loc'[p] = v /\ \A q \in Runs \ {p} : loc'[q] = loc[q]
    BY <1>2, <1>3 DEF TypeInv, TypeOK
  <1>5. loc[p].late <= MaxWait + IF loc[p].tries = 0 THEN 0 ELSE 2 * MaxWait
    BY <1>2, LocalsType, LimitOf, NumberAssumption DEF TypeInv, LateOK, Retried
  <1> HIDE DEF v
  <1>6. RunsInv'
    BY <1>2, <1>3, <1>4, <1>5, GotoRuns DEF Labels
  <1>7. QED
    BY <1>1, <1>6, Parts

LEMMA PutWriteType ==
  ASSUME TypeInv, NEW p \in Runs, PutWrite(p)
  PROVE  TypeInv'
  <1>1. pc[p] = "put.write" /\ faults' \in 0..MaxFaults
    BY NumberAssumption DEF PutWrite, Fine, Fault, TypeInv, TypeOK
  <1>2. CASE loc[p].current
    <2>1. /\ Recorded(p) /\ Goto(p, "idle")
          /\ loc' = [Overtaking("put.write") EXCEPT ![p] = NoLocals]
      BY <1>2 DEF PutWrite
    <2>2. RunsInv'
      BY <2>1, WroteRuns
    <2>3. loc[p].late \in 0..4 * MaxWait /\ Offset(Home(p)) \in 0..Drift
      BY LocalsType, OffsetType
    <2>4. loc[p].late - Offset(Home(p)) \in (0 - Drift)..Interval
      BY <2>3, NumberAssumption, IntervalAssumption
    <2>5. status' \in [by : Replicas \cup {None}, age : (0 - Drift)..Interval] /\ lease' = lease
      BY <2>1, <2>4, RunsType DEF Recorded
    <2>6. QED
      BY <1>1, <2>2, <2>5, Parts DEF EntriesInv
  <1>3. CASE ~loc[p].current /\ ~LastTry(p)
    <2>1. /\ Goto(p, "put.read") /\ UNCHANGED <<lease, status>>
          /\ loc' = [loc EXCEPT ![p].tries = loc[p].tries + 1]
      BY <1>3 DEF PutWrite
    <2> DEFINE v == [loc[p] EXCEPT !.tries = loc[p].tries + 1]
    <2>2. loc[p].tries = 0
      BY <1>3, LocalsType DEF LastTry
    <2>3. v \in Locals /\ v.late = loc[p].late /\ v.tries = 1
      BY <2>2, LocalsType DEF Locals
    <2>4. loc' \in [Runs -> Locals] /\ loc'[p] = v /\ \A q \in Runs \ {p} : loc'[q] = loc[q]
      BY <2>1, <2>3 DEF TypeInv, TypeOK
    <2>5. loc[p].late <= 2 * MaxWait
      BY <1>1, <2>2, LocalsType, LimitOf, NumberAssumption DEF TypeInv, LateOK, Retried
    <2> HIDE DEF v
    <2>6. RunsInv'
      BY <2>1, <2>3, <2>4, <2>5, GotoRuns DEF Labels
    <2>7. QED
      BY <1>1, <2>1, <2>6, Parts DEF EntriesInv
  <1>4. CASE ~loc[p].current /\ LastTry(p)
    <2>1. Ends(p) /\ UNCHANGED <<lease, status>>
      BY <1>4 DEF PutWrite
    <2>2. QED
      BY <1>1, <2>1, EndsRuns, Parts DEF EntriesInv
  <1>5. QED
    BY <1>2, <1>3, <1>4

\* A run that begins, or finds that a cycle is due, keeps its blank locals.
LEMMA BeginRuns ==
  ASSUME TypeInv, NEW p \in Runs, NEW l \in {"status", "lease.read"},
         pc[p] \in {"idle", "status"}, Goto(p, l), loc' = loc
  PROVE  RunsInv'
  <1>1. loc[p] \in Locals /\ loc[p].late = 0
    BY LocalsType DEF TypeInv, LateOK
  <1>2. QED
    BY <1>1, GotoRuns DEF TypeInv, TypeOK, Labels

LEMMA BeginType ==
  ASSUME TypeInv, NEW r \in Replicas, Wake(r) \/ Request(r)
  PROVE  TypeInv'
  <1>1. EntriesInv'
    BY DEF Wake, Request, TypeInv, TypeOK, EntriesInv
  <1>2. PICK p \in Runs : pc[p] = "idle" /\ Goto(p, "status") /\ loc' = loc
    BY RunsType DEF Wake, Request
  <1>3. QED
    BY <1>1, <1>2, BeginRuns, Parts

LEMMA StatusReadType ==
  ASSUME TypeInv, NEW p \in Runs, StatusRead(p)
  PROVE  TypeInv'
  <1>1. EntriesInv' /\ pc[p] = "status"
    BY DEF StatusRead, Fine, TypeInv, TypeOK, EntriesInv
  <1>2. Ends(p) \/ (Goto(p, "lease.read") /\ loc' = loc)
    BY DEF StatusRead
  <1>3. RunsInv'
    BY <1>1, <1>2, EndsRuns, BeginRuns
  <1>4. QED
    BY <1>1, <1>3, Parts

LEMMA FailsType ==
  ASSUME TypeInv, NEW p \in Runs, Fails(p)
  PROVE  TypeInv'
  <1>1. EntriesInv'
    BY NumberAssumption DEF Fails, Fault, TypeInv, TypeOK, EntriesInv
  <1>2. QED
    BY <1>1, EndsRuns, Parts DEF Fails

LEMMA RestartType ==
  ASSUME TypeInv, NEW r \in Replicas, Restart(r)
  PROVE  TypeInv'
  <1>1. EntriesInv'
    BY NumberAssumption DEF Restart, Fault, TypeInv, TypeOK, EntriesInv
  <1> DEFINE mine == {Timer(r), Manual(r)}
  <1>2. /\ pc' = [p \in Runs |-> IF p \in mine THEN "idle" ELSE pc[p]]
        /\ spent' = [p \in Runs |-> IF p \in mine THEN 0 ELSE spent[p]]
        /\ loc' = [p \in Runs |-> IF p \in mine THEN NoLocals ELSE loc[p]]
    BY DEF Restart
  <1>3. pc' \in [Runs -> Labels] /\ spent' \in [Runs -> Nat] /\ loc' \in [Runs -> Locals]
    BY <1>2, Blank DEF TypeInv, TypeOK, Labels
  <1>4. ASSUME NEW p \in Runs
        PROVE  spent'[p] <= Limit(p)' /\ LateOK(p)'
    <2>1. CASE p \in mine
      BY <1>2, <2>1, Blank, LimitTypeNext DEF LateOK
    <2>2. CASE p \notin mine
      BY <1>2, <2>2 DEF Limit, InCycle, LateOK, Retried, TypeInv, TypeOK
    <2>3. QED
      BY <2>1, <2>2
  <1>5. QED
    BY <1>1, <1>3, <1>4, Parts DEF RunsInv

LEMMA LaterType ==
  ASSUME TypeInv, NEW p \in Runs, Waiting(p) => spent[p] < Limit(p)
  PROVE  /\ Later(p) \in Locals
         /\ Later(p).tries = loc[p].tries /\ Later(p).current = loc[p].current
         /\ Later(p).late = loc[p].late
              + IF pc[p] \in {"lease.read", "lease.write", "put.read", "put.write"} THEN 1 ELSE 0
  <1>1. CASE pc[p] \in {"lease.read", "lease.write", "put.read", "put.write"}
    <2>1. spent[p] < MaxWait
      BY <1>1, LimitOf DEF Waiting
    <2>2. loc[p].late + 1 \in 0..4 * MaxWait
      BY <1>1, <2>1, LocalsType, NumberAssumption DEF TypeInv, LateOK, Retried
    <2>3. QED
      BY <1>1, <2>2, LocalsType DEF Later, Locals
  <1>2. CASE pc[p] \notin {"lease.read", "lease.write", "put.read", "put.write"}
    BY <1>2, LocalsType DEF Later
  <1>3. QED
    BY <1>1, <1>2

LEMMA TickType ==
  ASSUME TypeInv, Tick
  PROVE  TypeInv'
  <1>1. EntriesInv'
    BY NumberAssumption DEF Tick, TypeInv, TypeOK, EntriesInv
  <1>2. pc' = pc /\ \A p \in Runs : Waiting(p) => spent[p] < Limit(p)
    BY DEF Tick
  <1>3. /\ spent' = [p \in Runs |-> IF Waiting(p) THEN spent[p] + 1 ELSE 0]
        /\ loc' = [p \in Runs |-> Later(p)]
    BY DEF Tick
  <1>4. pc' \in [Runs -> Labels] /\ spent' \in [Runs -> Nat] /\ loc' \in [Runs -> Locals]
    BY <1>2, <1>3, LaterType DEF TypeInv, TypeOK
  <1>5. ASSUME NEW p \in Runs
        PROVE  spent'[p] <= Limit(p)' /\ LateOK(p)'
    <2>1. Limit(p)' = Limit(p)
      BY <1>2 DEF Limit, InCycle
    <2>2. spent'[p] <= Limit(p)'
      BY <1>2, <1>3, <2>1, LocalsType, LimitType
    <2>3. pc[p] # "idle" => spent'[p] = spent[p] + 1
      BY <1>3 DEF Waiting
    <2>4. /\ loc'[p].tries = loc[p].tries
          /\ loc'[p].late = loc[p].late
               + IF pc[p] \in {"lease.read", "lease.write", "put.read", "put.write"} THEN 1 ELSE 0
      BY <1>2, <1>3, LaterType
    <2>5. LateOK(p)'
      BY <1>2, <2>3, <2>4, LocalsType, NumberAssumption DEF LateOK, Retried, TypeInv
    <2>6. QED
      BY <2>2, <2>5
  <1>6. QED
    BY <1>1, <1>4, <1>5, Parts DEF RunsInv

LEMMA TypeInit == Init => TypeInv
  <1> SUFFICES ASSUME Init PROVE TypeInv
    OBVIOUS
  <1>1. /\ lease \in [holder : Replicas \cup {None, "gone"}, left : (0 - MaxWait)..(TTL + Drift)]
        /\ status \in [by : Replicas \cup {None}, age : (0 - Drift)..Interval]
        /\ faults \in 0..MaxFaults
    BY NumberAssumption DEF Init, NoLease, NoStatus
  <1>2. pc \in [Runs -> Labels] /\ spent \in [Runs -> Nat] /\ loc \in [Runs -> Locals]
    BY Blank DEF Init, Labels
  <1>3. \A p \in Runs : spent[p] <= Limit(p) /\ LateOK(p)
    BY Blank, LimitType DEF Init, LateOK
  <1>4. QED
    BY <1>1, <1>2, <1>3 DEF TypeInv, TypeOK

LEMMA TypeStep == TypeInv /\ [Next]_vars => TypeInv'
  <1> SUFFICES ASSUME TypeInv, [Next]_vars PROVE TypeInv'
    OBVIOUS
  <1>1. CASE Tick
    BY <1>1, TickType
  <1>2. ASSUME NEW r \in Replicas, Wake(r) \/ Request(r) \/ Restart(r)
        PROVE  TypeInv'
    BY <1>2, BeginType, RestartType
  <1>3. ASSUME NEW p \in Runs, Step(p) \/ Fails(p)
        PROVE  TypeInv'
    BY <1>3, StatusReadType, LeaseReadType, LeaseWriteType, CycleType, PutReadType, PutWriteType,
       FailsType DEF Step
  <1>4. CASE UNCHANGED vars
    BY <1>4 DEF vars, TypeInv, TypeOK, LateOK, Retried, Limit, InCycle
  <1>5. QED
    BY <1>1, <1>2, <1>3, <1>4 DEF Next

LEMMA TypeInvariant == Spec => []TypeInv
  <1>1. QED
    BY TypeInit, TypeStep, PTL DEF Spec

\* What the record, the lease and every run hold has its type; a clock reading
\* that counts for a lease or a status is no older than the round trips since.
THEOREM SyncTypeCorrect == Spec => []TypeOK
  <1>1. TypeInv => TypeOK
    BY DEF TypeInv
  <1>2. QED
    BY <1>1, TypeInvariant, PTL

-----------------------------------------------------------------------------
\* One replica at a time.  A run in its cycle, or writing down its outcome,
\* holds the lease; the lease is good for as long as it takes, since it lasts
\* TTL but for the two round trips before it was written and for the time
\* used since.  A run about to write the lease, on the copy it has read, knows
\* that no other replica is at it: whoever takes the lease overtakes it.

\* The longest time since p has acquired the lease.
Used(p) ==
  IF InCycle(p) THEN spent[p]
  ELSE MaxCycle + Retried(p) + spent[p] + IF pc[p] = "put.write" THEN MaxWait ELSE 0

Held(p) == Busy(p) => lease.holder = Home(p) /\ lease.left >= TTL - 2 * MaxWait - Used(p)
Sole(p) == pc[p] = "lease.write" /\ loc[p].current => \A q \in Runs : Busy(q) => Home(q) = Home(p)

SyncInv == TypeInv /\ \A p \in Runs : Held(p) /\ Sole(p)

LEMMA UsedType ==
  ASSUME TypeInv, NEW p \in Runs
  PROVE  /\ Used(p) \in Nat
         /\ Busy(p) => Used(p) <= MaxCycle + 4 * MaxWait
  <1>1. CASE InCycle(p)
    BY <1>1, LocalsType, LimitOf, NumberAssumption DEF Used
  <1>2. CASE ~InCycle(p)
    BY <1>2, LocalsType, LimitOf, NumberAssumption DEF Used, Retried, Busy
  <1>3. QED
    BY <1>1, <1>2

LEMMA LeftType == ASSUME TypeInv PROVE lease.left \in Int /\ lease.holder \in Replicas \cup {None, "gone"}
  BY NumberAssumption DEF TypeInv, TypeOK

\* While a run is at it the lease is not free for another replica.
LEMMA HeldIsBarred ==
  ASSUME SyncInv, NEW p \in Runs, Busy(p)
  PROVE  /\ lease.holder = Home(p) /\ Home(p) \in Replicas
         /\ lease.left >= TTL - MaxCycle - 6 * MaxWait /\ lease.left > Drift
         /\ \A q \in Runs : LeaseFree(q) => Home(q) = Home(p)
  <1>1. lease.holder = Home(p) /\ lease.left >= TTL - 2 * MaxWait - Used(p)
    BY DEF SyncInv, Held
  <1>2. lease.left >= TTL - MaxCycle - 6 * MaxWait /\ lease.left > Drift
    BY <1>1, UsedType, LeftType, NumberAssumption, LeaseOutlivesCycle DEF SyncInv
  <1>3. Home(p) \in Replicas
    BY RunsType
  <1>4. ASSUME NEW q \in Runs, LeaseFree(q)
        PROVE  Home(q) = Home(p)
    <2>1. loc[q].late \in Nat /\ Offset(Home(q)) \in 0..Drift
      BY LocalsType, OffsetType DEF SyncInv
    <2>2. ~(lease.left + loc[q].late <= Offset(Home(q)))
      BY <1>2, <2>1, LeftType, NumberAssumption DEF SyncInv
    <2>3. QED
      BY <1>1, <1>3, <1>4, <2>2, ReplicaAssumption DEF LeaseFree
  <1>5. QED
    BY <1>1, <1>2, <1>3, <1>4

LEMMA GotoFrame ==
  ASSUME TypeInv, NEW p \in Runs, NEW l, Goto(p, l)
  PROVE  /\ pc'[p] = l /\ spent'[p] = 0
         /\ \A q \in Runs \ {p} : pc'[q] = pc[q] /\ spent'[q] = spent[q]
  BY DEF Goto, TypeInv, TypeOK

\* A step of one run that leaves the lease alone.
LEMMA LocalStep ==
  ASSUME SyncInv, NEW p \in Runs, lease' = lease,
         \A q \in Runs \ {p} : /\ pc'[q] = pc[q] /\ spent'[q] = spent[q]
                               /\ loc'[q].tries = loc[q].tries
                               /\ loc'[q].current => loc[q].current,
         Busy(p)' => Busy(p) /\ Used(p)' \in Nat /\ Used(p) <= Used(p)',
         pc'[p] = "lease.write" /\ loc'[p].current => LeaseFree(p)
  PROVE  \A q \in Runs : Held(q)' /\ Sole(q)'
  <1>1. \A q \in Runs : Busy(q)' => Busy(q)
    BY DEF Busy, InCycle
  <1>2. ASSUME NEW q \in Runs
        PROVE  Held(q)'
    <2>1. CASE q = p
      BY <1>1, <2>1, UsedType, LeftType, NumberAssumption DEF SyncInv, Held
    <2>2. CASE q # p
      BY <2>2 DEF SyncInv, Held, Busy, InCycle, Used, Retried
    <2>3. QED
      BY <2>1, <2>2
  <1>3. ASSUME NEW q \in Runs
        PROVE  Sole(q)'
    <2>1. CASE q = p
      BY <1>1, <2>1, HeldIsBarred DEF Sole
    <2>2. CASE q # p
      BY <1>1, <2>2 DEF SyncInv, Sole
    <2>3. QED
      BY <2>1, <2>2
  <1>4. QED
    BY <1>2, <1>3

\* The run that takes the lease overtakes whoever has read it.
LEMMA AcquireStep ==
  ASSUME SyncInv, NEW p \in Runs, NEW l \in {"idle", "list"},
         pc[p] = "lease.write", loc[p].current,
         Acquired(p), Goto(p, l), loc' = [Overtaking("lease.write") EXCEPT ![p] = NoLocals]
  PROVE  \A q \in Runs : Held(q)' /\ Sole(q)'
  <1>1. TypeInv
    BY DEF SyncInv
  <1>2. lease'.holder = Home(p) /\ lease'.left >= TTL - 2 * MaxWait /\ lease'.left \in Int
    BY <1>1, AcquiredType, NumberAssumption
  <1>3. /\ pc'[p] = l /\ spent'[p] = 0
        /\ \A q \in Runs \ {p} : /\ pc'[q] = pc[q] /\ spent'[q] = spent[q]
                                 /\ loc'[q].tries = loc[q].tries
                                 /\ pc[q] = "lease.write" => ~loc'[q].current
    BY <1>1, GotoFrame, OvertakingType
  <1>4. \A q \in Runs : Busy(q) => Home(q) = Home(p)
    BY DEF SyncInv, Sole
  <1>5. ASSUME NEW q \in Runs
        PROVE  Held(q)'
    <2>1. CASE q = p
      BY <1>2, <1>3, <2>1, NumberAssumption DEF Held, Busy, InCycle, Used
    <2>2. CASE q # p
      <3>1. (Busy(q)' <=> Busy(q)) /\ Used(q)' = Used(q)
        BY <1>3, <2>2 DEF Busy, InCycle, Used, Retried
      <3>2. QED
        BY <1>1, <1>2, <1>4, <3>1, UsedType, NumberAssumption DEF Held
    <2>3. QED
      BY <2>1, <2>2
  <1>6. ASSUME NEW q \in Runs
        PROVE  Sole(q)'
    BY <1>3 DEF Sole
  <1>7. QED
    BY <1>5, <1>6

\* A run that is not at it, and stops or goes on to something but a write of
\* the lease, changes nothing here; nor does one that ends.
LEMMA QuietStep ==
  ASSUME SyncInv, NEW p \in Runs, NEW l \in {"idle", "status", "lease.read"}, lease' = lease,
         Goto(p, l), loc' = loc \/ loc' = [loc EXCEPT ![p] = NoLocals]
  PROVE  \A q \in Runs : Held(q)' /\ Sole(q)'
  <1>1. /\ pc'[p] = l
        /\ \A q \in Runs \ {p} : pc'[q] = pc[q] /\ spent'[q] = spent[q] /\ loc'[q] = loc[q]
    BY GotoFrame DEF SyncInv, TypeInv, TypeOK
  <1>2. ~Busy(p)'
    BY <1>1 DEF Busy, InCycle
  <1>3. QED
    BY <1>1, <1>2, LocalStep

LEMMA LeaseReadSync ==
  ASSUME SyncInv, NEW p \in Runs, LeaseRead(p)
  PROVE  \A q \in Runs : Held(q)' /\ Sole(q)'
  <1>1. lease' = lease
    BY DEF LeaseRead
  <1>2. CASE LeaseFree(p)
    <2>1. Goto(p, "lease.write") /\ loc' = [loc EXCEPT ![p].current = TRUE]
      BY <1>2 DEF LeaseRead
    <2>2. /\ pc'[p] = "lease.write"
          /\ \A q \in Runs \ {p} : pc'[q] = pc[q] /\ spent'[q] = spent[q] /\ loc'[q] = loc[q]
      BY <2>1, GotoFrame DEF SyncInv, TypeInv, TypeOK
    <2>3. ~Busy(p)'
      BY <2>2 DEF Busy, InCycle
    <2>4. QED
      BY <1>1, <1>2, <2>2, <2>3, LocalStep
  <1>3. CASE ~LeaseFree(p)
    BY <1>1, <1>3, QuietStep DEF LeaseRead, Ends
  <1>4. QED
    BY <1>2, <1>3

LEMMA LeaseWriteSync ==
  ASSUME SyncInv, NEW p \in Runs, LeaseWrite(p)
  PROVE  \A q \in Runs : Held(q)' /\ Sole(q)'
  <1>1. CASE loc[p].current
    <2>1. PICK l \in {"idle", "list"} :
            Acquired(p) /\ Goto(p, l) /\ loc' = [Overtaking("lease.write") EXCEPT ![p] = NoLocals]
      BY <1>1 DEF LeaseWrite
    <2>2. pc[p] = "lease.write"
      BY DEF LeaseWrite
    <2>3. QED
      BY <1>1, <2>1, <2>2, AcquireStep
  <1>2. CASE ~loc[p].current
    BY <1>2, QuietStep DEF LeaseWrite, Ends
  <1>3. QED
    BY <1>1, <1>2

LEMMA CycleSync ==
  ASSUME SyncInv, NEW p \in Runs, ListSubjects(p) \/ SyncOne(p) \/ CycleEnds(p)
  PROVE  \A q \in Runs : Held(q)' /\ Sole(q)'
  <1>1. InCycle(p) /\ lease' = lease
    BY DEF ListSubjects, SyncOne, CycleEnds, InCycle
  <1>2. Busy(p) /\ Used(p) = spent[p] /\ spent[p] \in Nat /\ spent[p] <= MaxCycle
    BY <1>1, LocalsType, LimitOf DEF Busy, Used, SyncInv
  <1>3. CASE Finish(p)
    <2>1. /\ pc'[p] = "put.read" /\ spent'[p] = 0 /\ loc'[p] = NoLocals
          /\ \A q \in Runs \ {p} : pc'[q] = pc[q] /\ spent'[q] = spent[q] /\ loc'[q] = loc[q]
      BY <1>3, GotoFrame DEF Finish, SyncInv, TypeInv, TypeOK
    <2>2. Used(p)' = MaxCycle
      BY <2>1, Blank, NumberAssumption DEF Used, InCycle, Retried
    <2>3. QED
      BY <1>1, <1>2, <2>1, <2>2, NumberAssumption, LocalStep
  <1>4. CASE ~Finish(p)
    <2>1. /\ pc'[p] = "cycle" /\ spent' = spent
          /\ \A q \in Runs \ {p} : pc'[q] = pc[q] /\ loc'[q] = loc[q]
      BY <1>4 DEF ListSubjects, SyncOne, CycleEnds, SyncInv, TypeInv, TypeOK
    <2>2. Used(p)' = spent[p]
      BY <2>1 DEF Used, InCycle
    <2>3. QED
      BY <1>1, <1>2, <2>1, <2>2, LocalStep
  <1>5. QED
    BY <1>3, <1>4

LEMMA PutReadSync ==
  ASSUME SyncInv, NEW p \in Runs, PutRead(p)
  PROVE  \A q \in Runs : Held(q)' /\ Sole(q)'
  <1>1. /\ pc[p] = "put.read" /\ Goto(p, "put.write") /\ loc' = [loc EXCEPT ![p].current = TRUE]
        /\ lease' = lease
    BY DEF PutRead
  <1>2. /\ pc'[p] = "put.write" /\ spent'[p] = 0 /\ loc'[p].tries = loc[p].tries
        /\ \A q \in Runs \ {p} : pc'[q] = pc[q] /\ spent'[q] = spent[q] /\ loc'[q] = loc[q]
    BY <1>1, GotoFrame, LocalsType DEF SyncInv, TypeInv, TypeOK, Locals
  <1>3. Busy(p) /\ spent[p] \in Nat /\ spent[p] <= MaxWait
    BY <1>1, LocalsType, LimitOf DEF Busy, SyncInv
  <1>4. Used(p) = MaxCycle + Retried(p) + spent[p] /\ Used(p)' = MaxCycle + Retried(p) + MaxWait
    BY <1>1, <1>2, <1>3, NumberAssumption DEF Used, InCycle, Retried
  <1>5. Used(p)' \in Nat /\ Used(p) <= Used(p)'
    BY <1>3, <1>4, NumberAssumption DEF Retried
  <1>6. QED
    BY <1>1, <1>2, <1>3, <1>5, LocalStep

LEMMA PutWriteSync ==
  ASSUME SyncInv, NEW p \in Runs, PutWrite(p)
  PROVE  \A q \in Runs : Held(q)' /\ Sole(q)'
  <1>1. pc[p] = "put.write" /\ lease' = lease
    BY DEF PutWrite, Recorded
  <1>2. CASE ~loc[p].current /\ ~LastTry(p)
    <2>1. Goto(p, "put.read") /\ loc' = [loc EXCEPT ![p].tries = loc[p].tries + 1]
      BY <1>2 DEF PutWrite
    <2>2. loc[p].tries = 0
      BY <1>2, LocalsType DEF LastTry, SyncInv
    <2>3. /\ pc'[p] = "put.read" /\ spent'[p] = 0 /\ loc'[p].tries = 1
          /\ \A q \in Runs \ {p} : pc'[q] = pc[q] /\ spent'[q] = spent[q] /\ loc'[q] = loc[q]
      BY <2>1, <2>2, GotoFrame, LocalsType DEF SyncInv, TypeInv, TypeOK, Locals
    <2>4. Busy(p) /\ spent[p] \in Nat /\ spent[p] <= MaxWait
      BY <1>1, LocalsType, LimitOf DEF Busy, SyncInv
    <2>5. Used(p) = MaxCycle + spent[p] + MaxWait /\ Used(p)' = MaxCycle + 2 * MaxWait
      BY <1>1, <2>2, <2>3, <2>4, NumberAssumption DEF Used, InCycle, Retried
    <2>6. QED
      BY <1>1, <2>3, <2>4, <2>5, NumberAssumption, LocalStep
  <1>3. CASE ~loc[p].current /\ LastTry(p)
    BY <1>1, <1>3, QuietStep DEF PutWrite, Ends
  <1>4. CASE loc[p].current
    <2>1. Goto(p, "idle") /\ loc' = [Overtaking("put.write") EXCEPT ![p] = NoLocals]
      BY <1>4 DEF PutWrite
    <2>2. /\ pc'[p] = "idle"
          /\ \A q \in Runs \ {p} : /\ pc'[q] = pc[q] /\ spent'[q] = spent[q]
                                   /\ loc'[q].tries = loc[q].tries
                                   /\ loc'[q].current => loc[q].current
      BY <2>1, GotoFrame, OvertakingType DEF SyncInv
    <2>3. ~Busy(p)'
      BY <2>2 DEF Busy, InCycle
    <2>4. QED
      BY <1>1, <2>2, <2>3, LocalStep
  <1>5. QED
    BY <1>2, <1>3, <1>4

LEMMA HomeRuns == ASSUME NEW p \in Runs PROVE p \in {Timer(Home(p)), Manual(Home(p))}
  BY DEF Runs, Home, Timer, Manual

\* Its runs go with the replica; the lease it may hold is nobody's then.
LEMMA RestartSync ==
  ASSUME SyncInv, NEW r \in Replicas, Restart(r)
  PROVE  \A q \in Runs : Held(q)' /\ Sole(q)'
  <1> DEFINE mine == {Timer(r), Manual(r)}
  <1>1. /\ pc' = [p \in Runs |-> IF p \in mine THEN "idle" ELSE pc[p]]
        /\ spent' = [p \in Runs |-> IF p \in mine THEN 0 ELSE spent[p]]
        /\ loc' = [p \in Runs |-> IF p \in mine THEN NoLocals ELSE loc[p]]
        /\ lease' = lease \/ (lease.holder = r /\ lease' = [lease EXCEPT !.holder = "gone"])
    BY DEF Restart
  <1>2. \A q \in Runs : Busy(q)' => Busy(q) /\ q \notin mine /\ Used(q)' = Used(q)
    BY <1>1 DEF Busy, InCycle, Used, Retried
  <1>3. \A q \in Runs : q \notin mine => Home(q) # r
    BY HomeRuns
  <1>4. ASSUME NEW q \in Runs
        PROVE  Held(q)'
    BY <1>1, <1>2, <1>3 DEF SyncInv, Held
  <1>5. ASSUME NEW q \in Runs
        PROVE  Sole(q)'
    BY <1>1, <1>2 DEF SyncInv, Sole
  <1>6. QED
    BY <1>4, <1>5

LEMMA TickSync ==
  ASSUME SyncInv, Tick
  PROVE  \A q \in Runs : Held(q)' /\ Sole(q)'
  <1>1. pc' = pc /\ lease'.holder = lease.holder /\ lease'.left >= lease.left - 1 /\ lease'.left \in Int
    BY NumberAssumption DEF Tick, SyncInv, TypeInv, TypeOK
  <1>2. \A q \in Runs : /\ loc'[q].tries = loc[q].tries /\ loc'[q].current = loc[q].current
                        /\ pc[q] # "idle" => spent'[q] = spent[q] + 1
    BY LaterType DEF Tick, SyncInv, Waiting
  <1>3. \A q \in Runs : Busy(q)' => Busy(q)
    BY <1>1 DEF Busy, InCycle
  <1>4. ASSUME NEW q \in Runs
        PROVE  Held(q)'
    <2>1. CASE Busy(q)
      <3>1. Used(q)' = Used(q) + 1
        BY <1>1, <1>2, <2>1, LocalsType, NumberAssumption
        DEF Used, InCycle, Busy, Retried, SyncInv
      <3>2. lease.holder = Home(q) /\ lease.left >= TTL - 2 * MaxWait - Used(q)
        BY <2>1 DEF SyncInv, Held
      <3>3. Used(q) \in Nat
        BY UsedType DEF SyncInv
      <3>4. lease'.left >= TTL - 2 * MaxWait - Used(q)'
        BY <1>1, <3>1, <3>2, <3>3, LeftType, NumberAssumption DEF SyncInv
      <3>5. QED
        BY <1>1, <3>2, <3>4 DEF Held
    <2>2. CASE ~Busy(q)
      BY <1>3, <2>2 DEF Held
    <2>3. QED
      BY <2>1, <2>2
  <1>5. ASSUME NEW q \in Runs
        PROVE  Sole(q)'
    BY <1>1, <1>2, <1>3 DEF SyncInv, Sole
  <1>6. QED
    BY <1>4, <1>5

LEMMA SyncInit == Init => SyncInv
  BY TypeInit DEF Init, SyncInv, Held, Sole, Busy, InCycle

LEMMA SyncStep == SyncInv /\ [Next]_vars => SyncInv'
  <1> SUFFICES ASSUME SyncInv, [Next]_vars PROVE \A q \in Runs : Held(q)' /\ Sole(q)'
    BY TypeStep DEF SyncInv
  <1>1. CASE Tick
    BY <1>1, TickSync
  <1>2. ASSUME NEW r \in Replicas, Wake(r) \/ Request(r)
        PROVE  \A q \in Runs : Held(q)' /\ Sole(q)'
    BY <1>2, RunsType, QuietStep DEF Wake, Request
  <1>3. ASSUME NEW r \in Replicas, Restart(r)
        PROVE  \A q \in Runs : Held(q)' /\ Sole(q)'
    BY <1>3, RestartSync
  <1>4. ASSUME NEW p \in Runs, StatusRead(p) \/ Fails(p)
        PROVE  \A q \in Runs : Held(q)' /\ Sole(q)'
    BY <1>4, QuietStep DEF StatusRead, Fails, Ends
  <1>5. ASSUME NEW p \in Runs, Step(p) /\ ~StatusRead(p)
        PROVE  \A q \in Runs : Held(q)' /\ Sole(q)'
    BY <1>5, LeaseReadSync, LeaseWriteSync, CycleSync, PutReadSync, PutWriteSync DEF Step
  <1>6. CASE UNCHANGED vars
    BY <1>6 DEF vars, SyncInv, Held, Sole, Busy, InCycle, Used, Retried
  <1>7. QED
    BY <1>1, <1>2, <1>3, <1>4, <1>5, <1>6 DEF Next

LEMMA SyncInvariant == Spec => []SyncInv
  <1>1. QED
    BY SyncInit, SyncStep, PTL DEF Spec

\* Two replicas never run a cycle, or write down its outcome, at the same
\* time, whatever their clocks say and whoever crashes: the lease outlives the
\* cycle it was taken for.
THEOREM OneReplicaAtATime == Spec => []OneReplica
  <1>1. SyncInv => OneReplica
    BY HeldIsBarred DEF OneReplica
  <1>2. QED
    BY <1>1, SyncInvariant, PTL

-----------------------------------------------------------------------------
\* Once per interval.  The timer finds a cycle due, then asks for the lease;
\* when a status of another replica comes in between, that replica's lease is
\* still too long for the answer.  After that nobody else can write a status
\* before the lease is written.  One more round trip has to fit.

LongLease == TTL > MaxCycle + 7 * MaxWait + Drift

Due(r) == DueFor(r) \/ status.by = r

Barred(r) ==
  pc[Timer(r)] = "lease.read" /\ ~Due(r) =>
    lease.holder \notin {None, r} /\ lease.left > Drift + MaxWait - spent[Timer(r)]

Looked(p) ==
  /\ pc[p] = "lease.write" /\ loc[p].current
  /\ p = Timer(Home(p)) \/ pc[Timer(Home(p))] = "lease.read"
  => Due(Home(p))

OnceInv == SyncInv /\ (\A r \in Replicas : Barred(r)) /\ (\A p \in Runs : Looked(p))

LEMMA FreeIsDue ==
  ASSUME OnceInv, NEW p \in Runs, pc[Timer(Home(p))] = "lease.read", LeaseFree(p)
  PROVE  Due(Home(p))
  <1> DEFINE t == Timer(Home(p))
  <1>1. TypeInv /\ t \in Runs /\ Home(p) \in Replicas
    BY RunsType DEF OnceInv, SyncInv
  <1>2. spent[t] \in Nat /\ spent[t] <= MaxWait /\ loc[p].late \in Nat /\ lease.left \in Int
    BY <1>1, LocalsType, LimitOf, LeftType
  <1>3. SUFFICES ASSUME ~Due(Home(p)) PROVE FALSE
    OBVIOUS
  <1>4. lease.holder \notin {None, Home(p)} /\ lease.left > Drift + MaxWait - spent[t]
    BY <1>1, <1>3 DEF OnceInv, Barred
  <1>5. lease.left + loc[p].late > Offset(Home(p))
    BY <1>1, <1>2, <1>4, OffsetType, NumberAssumption
  <1>6. Offset(Home(p)) \in Nat
    BY <1>1, OffsetType, NumberAssumption
  <1>7. QED
    BY <1>2, <1>4, <1>5, <1>6 DEF LeaseFree

\* A step of one run that leaves both entries alone.
LEMMA LocalOnce ==
  ASSUME OnceInv, NEW p \in Runs, lease' = lease, status' = status,
         \A q \in Runs \ {p} : /\ pc'[q] = pc[q] /\ spent'[q] = spent[q]
                               /\ loc'[q].current => loc[q].current,
         pc'[p] = "lease.read" /\ p = Timer(Home(p)) => Due(Home(p)),
         pc'[p] = "lease.write" /\ loc'[p].current => LeaseFree(p) /\ pc[p] = "lease.read"
  PROVE  (\A r \in Replicas : Barred(r)') /\ (\A q \in Runs : Looked(q)')
  <1>1. \A r : Due(r)' <=> Due(r)
    BY DEF Due, DueFor, Offset
  <1>2. ASSUME NEW r \in Replicas
        PROVE  Barred(r)'
    BY <1>1, RunsType DEF OnceInv, Barred
  <1>3. ASSUME NEW q \in Runs
        PROVE  Looked(q)'
    <2>1. CASE q = p
      BY <1>1, <2>1, FreeIsDue, RunsType DEF Looked
    <2>2. CASE q # p
      BY <1>1, <2>2, RunsType DEF OnceInv, Looked
    <2>3. QED
      BY <2>1, <2>2
  <1>4. QED
    BY <1>2, <1>3

LEMMA QuietOnce ==
  ASSUME OnceInv, NEW p \in Runs, NEW l \in Labels \ {"lease.write"},
         lease' = lease, status' = status,
         Goto(p, l), \A q \in Runs \ {p} : loc'[q] = loc[q],
         l = "lease.read" /\ p = Timer(Home(p)) => Due(Home(p))
  PROVE  (\A r \in Replicas : Barred(r)') /\ (\A q \in Runs : Looked(q)')
  <1>1. /\ pc'[p] = l
        /\ \A q \in Runs \ {p} : pc'[q] = pc[q] /\ spent'[q] = spent[q] /\ loc'[q] = loc[q]
    BY GotoFrame DEF OnceInv, SyncInv
  <1>2. QED
    BY <1>1, LocalOnce

\* What happens to p's own locals only.
LEMMA OwnLocals ==
  ASSUME TypeInv, NEW p \in Runs, NEW v, loc' = loc \/ loc' = [loc EXCEPT ![p] = v]
  PROVE  \A q \in Runs \ {p} : loc'[q] = loc[q]
  BY DEF TypeInv, TypeOK

LEMMA EndsOnce ==
  ASSUME OnceInv, NEW p \in Runs, lease' = lease, status' = status, Ends(p)
  PROVE  (\A r \in Replicas : Barred(r)') /\ (\A q \in Runs : Looked(q)')
  <1>1. \A q \in Runs \ {p} : loc'[q] = loc[q]
    BY OwnLocals DEF Ends, OnceInv, SyncInv
  <1>2. QED
    BY <1>1, QuietOnce DEF Ends, Labels

LEMMA StatusReadOnce ==
  ASSUME OnceInv, NEW p \in Runs, StatusRead(p)
  PROVE  (\A r \in Replicas : Barred(r)') /\ (\A q \in Runs : Looked(q)')
  <1>1. CASE Ends(p)
    BY <1>1, EndsOnce DEF StatusRead
  <1>2. CASE ~Ends(p)
    <2>1. /\ Goto(p, "lease.read") /\ loc' = loc /\ lease' = lease /\ status' = status
          /\ p = Timer(Home(p)) => DueFor(Home(p))
      BY <1>2 DEF StatusRead
    <2>2. QED
      BY <2>1, QuietOnce DEF Due, Labels
  <1>3. QED
    BY <1>1, <1>2

LEMMA LeaseReadOnce ==
  ASSUME OnceInv, NEW p \in Runs, LeaseRead(p)
  PROVE  (\A r \in Replicas : Barred(r)') /\ (\A q \in Runs : Looked(q)')
  <1>1. lease' = lease /\ status' = status /\ pc[p] = "lease.read"
    BY DEF LeaseRead
  <1>2. CASE LeaseFree(p)
    <2>1. Goto(p, "lease.write") /\ loc' = [loc EXCEPT ![p].current = TRUE]
      BY <1>2 DEF LeaseRead
    <2>2. /\ pc'[p] = "lease.write"
          /\ \A q \in Runs \ {p} : pc'[q] = pc[q] /\ spent'[q] = spent[q] /\ loc'[q] = loc[q]
      BY <2>1, GotoFrame DEF OnceInv, SyncInv, TypeInv, TypeOK
    <2>3. QED
      BY <1>1, <1>2, <2>2, LocalOnce
  <1>3. CASE ~LeaseFree(p)
    BY <1>1, <1>3, EndsOnce DEF LeaseRead
  <1>4. QED
    BY <1>2, <1>3

LEMMA AcquireOnce ==
  ASSUME OnceInv, LongLease, NEW p \in Runs, NEW l \in {"idle", "list"},
         pc[p] = "lease.write", loc[p].current,
         Acquired(p), Goto(p, l), loc' = [Overtaking("lease.write") EXCEPT ![p] = NoLocals]
  PROVE  (\A r \in Replicas : Barred(r)') /\ (\A q \in Runs : Looked(q)')
  <1>1. TypeInv
    BY DEF OnceInv, SyncInv
  <1>2. /\ lease'.holder = Home(p) /\ lease'.left >= TTL - 2 * MaxWait /\ lease'.left \in Int
        /\ status' = status
    BY <1>1, AcquiredType, NumberAssumption DEF Acquired
  <1>3. /\ pc'[p] = l
        /\ \A q \in Runs \ {p} : /\ pc'[q] = pc[q] /\ spent'[q] = spent[q]
                                 /\ pc[q] = "lease.write" => ~loc'[q].current
    BY <1>1, GotoFrame, OvertakingType
  <1>4. \A r : Due(r)' <=> Due(r)
    BY <1>2 DEF Due, DueFor, Offset
  <1>5. ASSUME NEW r \in Replicas
        PROVE  Barred(r)'
    <2>1. CASE Home(p) = r
      BY <1>3, <1>4, <2>1, RunsType DEF OnceInv, Looked, Barred
    <2>2. CASE Home(p) # r
      <3>1. p # Timer(r) /\ Timer(r) \in Runs /\ Home(p) \in Replicas
        BY <2>2, RunsType
      <3>2. spent[Timer(r)] \in Nat
        BY <1>1, <3>1, LocalsType
      <3>3. lease'.left > Drift + MaxWait - spent'[Timer(r)]
        BY <1>2, <1>3, <3>1, <3>2, NumberAssumption DEF LongLease
      <3>4. QED
        BY <1>2, <2>2, <3>1, <3>3, ReplicaAssumption DEF Barred
    <2>3. QED
      BY <2>1, <2>2
  <1>6. ASSUME NEW q \in Runs
        PROVE  Looked(q)'
    BY <1>3 DEF Looked
  <1>7. QED
    BY <1>5, <1>6

LEMMA LeaseWriteOnce ==
  ASSUME OnceInv, LongLease, NEW p \in Runs, LeaseWrite(p)
  PROVE  (\A r \in Replicas : Barred(r)') /\ (\A q \in Runs : Looked(q)')
  <1>1. CASE loc[p].current
    <2>1. PICK l \in {"idle", "list"} :
            Acquired(p) /\ Goto(p, l) /\ loc' = [Overtaking("lease.write") EXCEPT ![p] = NoLocals]
      BY <1>1 DEF LeaseWrite
    <2>2. pc[p] = "lease.write"
      BY DEF LeaseWrite
    <2>3. QED
      BY <1>1, <2>1, <2>2, AcquireOnce
  <1>2. CASE ~loc[p].current
    BY <1>2, EndsOnce DEF LeaseWrite
  <1>3. QED
    BY <1>1, <1>2

LEMMA CycleOnce ==
  ASSUME OnceInv, NEW p \in Runs, ListSubjects(p) \/ SyncOne(p) \/ CycleEnds(p)
  PROVE  (\A r \in Replicas : Barred(r)') /\ (\A q \in Runs : Looked(q)')
  <1>1. lease' = lease /\ status' = status
    BY DEF ListSubjects, SyncOne, CycleEnds
  <1>2. CASE Finish(p)
    <2>1. \A q \in Runs \ {p} : loc'[q] = loc[q]
      BY <1>2, OwnLocals DEF Finish, OnceInv, SyncInv
    <2>2. QED
      BY <1>1, <1>2, <2>1, QuietOnce DEF Finish, Labels
  <1>3. CASE ~Finish(p)
    <2>1. /\ pc'[p] = "cycle"
          /\ \A q \in Runs \ {p} : pc'[q] = pc[q] /\ spent'[q] = spent[q] /\ loc'[q] = loc[q]
      BY <1>3 DEF ListSubjects, SyncOne, CycleEnds, OnceInv, SyncInv, TypeInv, TypeOK
    <2>2. QED
      BY <1>1, <2>1, LocalOnce
  <1>4. QED
    BY <1>2, <1>3

LEMMA PutReadOnce ==
  ASSUME OnceInv, NEW p \in Runs, PutRead(p)
  PROVE  (\A r \in Replicas : Barred(r)') /\ (\A q \in Runs : Looked(q)')
  <1>1. /\ Goto(p, "put.write") /\ lease' = lease /\ status' = status
        /\ \A q \in Runs \ {p} : loc'[q] = loc[q]
    BY DEF PutRead, OnceInv, SyncInv, TypeInv, TypeOK
  <1>2. QED
    BY <1>1, QuietOnce DEF Labels

LEMMA RecordedOnce ==
  ASSUME OnceInv, LongLease, NEW p \in Runs, pc[p] = "put.write", Recorded(p),
         Goto(p, "idle"), loc' = [Overtaking("put.write") EXCEPT ![p] = NoLocals]
  PROVE  (\A r \in Replicas : Barred(r)') /\ (\A q \in Runs : Looked(q)')
  <1>1. TypeInv /\ SyncInv
    BY DEF OnceInv, SyncInv
  <1>2. /\ pc'[p] = "idle"
        /\ \A q \in Runs \ {p} : /\ pc'[q] = pc[q] /\ spent'[q] = spent[q]
                                 /\ loc'[q].current => loc[q].current
    BY <1>1, GotoFrame, OvertakingType
  <1>3. status'.by = Home(p) /\ lease' = lease /\ Busy(p)
    BY DEF Recorded, Busy
  <1>4. ASSUME NEW r \in Replicas
        PROVE  Barred(r)'
    <2>1. CASE Home(p) = r
      BY <1>3, <2>1 DEF Barred, Due
    <2>2. CASE Home(p) # r
      <3>1. Timer(r) \in Runs /\ p # Timer(r)
        BY <2>2, RunsType
      <3>2. /\ lease.holder = Home(p) /\ Home(p) \in Replicas
            /\ lease.left >= TTL - MaxCycle - 6 * MaxWait
        BY <1>1, <1>3, HeldIsBarred
      <3>3. spent[Timer(r)] \in Nat /\ lease.left \in Int
        BY <1>1, <3>1, LocalsType, LeftType
      <3>4. lease.left > Drift + MaxWait - spent[Timer(r)]
        BY <3>2, <3>3, NumberAssumption DEF LongLease
      <3>5. QED
        BY <1>2, <1>3, <2>2, <3>1, <3>2, <3>4, ReplicaAssumption DEF Barred
    <2>3. QED
      BY <2>1, <2>2
  <1>5. ASSUME NEW q \in Runs
        PROVE  Looked(q)'
    BY <1>1, <1>2, <1>3 DEF SyncInv, Sole, Looked, Due
  <1>6. QED
    BY <1>4, <1>5

LEMMA PutWriteOnce ==
  ASSUME OnceInv, LongLease, NEW p \in Runs, PutWrite(p)
  PROVE  (\A r \in Replicas : Barred(r)') /\ (\A q \in Runs : Looked(q)')
  <1>1. pc[p] = "put.write"
    BY DEF PutWrite
  <1>2. CASE loc[p].current
    BY <1>1, <1>2, RecordedOnce DEF PutWrite
  <1>3. CASE ~loc[p].current /\ ~LastTry(p)
    <2>1. /\ Goto(p, "put.read") /\ lease' = lease /\ status' = status
          /\ \A q \in Runs \ {p} : loc'[q] = loc[q]
      BY <1>3 DEF PutWrite, OnceInv, SyncInv, TypeInv, TypeOK
    <2>2. QED
      BY <2>1, QuietOnce DEF Labels
  <1>4. CASE ~loc[p].current /\ LastTry(p)
    BY <1>4, EndsOnce DEF PutWrite
  <1>5. QED
    BY <1>2, <1>3, <1>4

LEMMA RestartOnce ==
  ASSUME OnceInv, NEW s \in Replicas, Restart(s)
  PROVE  (\A r \in Replicas : Barred(r)') /\ (\A q \in Runs : Looked(q)')
  <1>1. \A r : Due(r)' <=> Due(r)
    BY DEF Restart, Due, DueFor, Offset
  <1>2. /\ lease'.holder = lease.holder \/ lease'.holder = "gone"
        /\ lease'.left = lease.left
    BY DEF Restart, OnceInv, SyncInv, TypeInv, TypeOK
  <1>3. \A q \in Runs : pc'[q] # "idle" => pc'[q] = pc[q] /\ spent'[q] = spent[q] /\ loc'[q] = loc[q]
    BY DEF Restart
  <1>4. ASSUME NEW r \in Replicas
        PROVE  Barred(r)'
    BY <1>1, <1>2, <1>3, RunsType, ReplicaAssumption DEF OnceInv, Barred
  <1>5. ASSUME NEW q \in Runs
        PROVE  Looked(q)'
    BY <1>1, <1>3, RunsType DEF OnceInv, Looked
  <1>6. QED
    BY <1>4, <1>5

LEMMA TickOnce ==
  ASSUME OnceInv, Tick
  PROVE  (\A r \in Replicas : Barred(r)') /\ (\A q \in Runs : Looked(q)')
  <1>1. /\ pc' = pc /\ lease'.holder = lease.holder
        /\ lease'.left >= lease.left - 1 /\ lease'.left \in Int
        /\ status'.by = status.by
        /\ status'.age = IF status.age < Interval THEN status.age + 1 ELSE status.age
    BY NumberAssumption DEF Tick, OnceInv, SyncInv, TypeInv, TypeOK
  <1>2. \A q \in Runs : /\ loc'[q].current = loc[q].current
                        /\ pc[q] # "idle" => spent'[q] = spent[q] + 1
    BY LaterType DEF Tick, OnceInv, SyncInv, Waiting
  <1>3. ASSUME NEW r \in Replicas, Due(r)
        PROVE  Due(r)'
    <2>1. Offset(r)' = Offset(r) /\ Offset(r) \in Nat
      BY OffsetType, NumberAssumption DEF Offset
    <2>2. status.age \in Int /\ Interval \in Nat
      BY NumberAssumption DEF OnceInv, SyncInv, TypeInv, TypeOK
    <2>3. QED
      BY <1>1, <1>3, <2>1, <2>2 DEF Due, DueFor
  <1>4. ASSUME NEW r \in Replicas
        PROVE  Barred(r)'
    <2>1. Timer(r) \in Runs /\ spent[Timer(r)] \in Nat /\ lease.left \in Int
      BY RunsType, LocalsType, LeftType DEF OnceInv, SyncInv
    <2>2. SUFFICES ASSUME pc[Timer(r)] = "lease.read", ~Due(r)
                   PROVE  /\ lease'.holder \notin {None, r}
                          /\ lease'.left > Drift + MaxWait - spent'[Timer(r)]
      BY <1>1, <1>3 DEF Barred
    <2>3. lease.holder \notin {None, r} /\ lease.left > Drift + MaxWait - spent[Timer(r)]
      BY <2>2 DEF OnceInv, Barred
    <2>4. spent'[Timer(r)] = spent[Timer(r)] + 1
      BY <1>2, <2>1, <2>2
    <2>5. QED
      BY <1>1, <2>1, <2>3, <2>4, NumberAssumption
  <1>5. ASSUME NEW q \in Runs
        PROVE  Looked(q)'
    BY <1>1, <1>2, <1>3, RunsType DEF OnceInv, Looked
  <1>6. QED
    BY <1>4, <1>5

LEMMA OnceInit == Init => OnceInv
  BY SyncInit, RunsType DEF Init, OnceInv, Barred, Looked

LEMMA OnceStep == OnceInv /\ LongLease /\ [Next]_vars => OnceInv'
  <1> SUFFICES ASSUME OnceInv, LongLease, [Next]_vars
               PROVE  (\A r \in Replicas : Barred(r)') /\ (\A q \in Runs : Looked(q)')
    BY SyncStep DEF OnceInv
  <1>1. CASE Tick
    BY <1>1, TickOnce
  <1>2. ASSUME NEW r \in Replicas, Wake(r) \/ Request(r)
        PROVE  (\A s \in Replicas : Barred(s)') /\ (\A q \in Runs : Looked(q)')
    BY <1>2, RunsType, QuietOnce DEF Wake, Request, Labels
  <1>3. ASSUME NEW r \in Replicas, Restart(r)
        PROVE  (\A s \in Replicas : Barred(s)') /\ (\A q \in Runs : Looked(q)')
    BY <1>3, RestartOnce
  <1>4. ASSUME NEW p \in Runs, Fails(p)
        PROVE  (\A s \in Replicas : Barred(s)') /\ (\A q \in Runs : Looked(q)')
    BY <1>4, EndsOnce DEF Fails
  <1>5. ASSUME NEW p \in Runs, Step(p)
        PROVE  (\A s \in Replicas : Barred(s)') /\ (\A q \in Runs : Looked(q)')
    BY <1>5, StatusReadOnce, LeaseReadOnce, LeaseWriteOnce, CycleOnce, PutReadOnce, PutWriteOnce
    DEF Step
  <1>6. CASE UNCHANGED vars
    BY <1>6 DEF vars, OnceInv, Barred, Looked, Due, DueFor, Offset
  <1>7. QED
    BY <1>1, <1>2, <1>3, <1>4, <1>5, <1>6 DEF Next

\* The timer that writes the lease has looked.
LEMMA OnceAction ==
  ASSUME OnceInv, [Next]_vars, NEW r \in Replicas,
         pc[Timer(r)] = "lease.write", pc'[Timer(r)] = "list"
  PROVE  DueFor(r) \/ status.by = r
  <1> DEFINE t == Timer(r)
  <1>1. t \in Runs /\ Home(t) = r
    BY RunsType
  <1>2. SUFFICES loc[t].current
    BY <1>1, <1>2 DEF OnceInv, Looked, Due
  <1>3. SUFFICES ASSUME ~loc[t].current PROVE FALSE
    OBVIOUS
  <1>4. TypeInv
    BY DEF OnceInv, SyncInv
  <1>5. \A p \in Runs : \A l : Goto(p, l) /\ p # t => pc'[t] = pc[t]
    BY <1>1, <1>4 DEF Goto, TypeInv, TypeOK
  <1>6. ~Tick /\ ~UNCHANGED vars
    BY DEF Tick, vars
  <1>7. ASSUME NEW s \in Replicas, Wake(s) \/ Request(s) \/ Restart(s)
        PROVE  FALSE
    <2>1. CASE Restart(s)
      BY <1>1, <2>1 DEF Restart
    <2>2. CASE Wake(s) \/ Request(s)
      BY <1>5, <2>2, RunsType DEF Wake, Request
    <2>3. QED
      BY <1>7, <2>1, <2>2
  <1>8. ASSUME NEW p \in Runs, p # t, Step(p) \/ Fails(p)
        PROVE  FALSE
    <2>1. pc'[t] = pc[t]
      BY <1>1, <1>4, <1>5, <1>8
      DEF Step, Fails, StatusRead, LeaseRead, LeaseWrite, ListSubjects, SyncOne, CycleEnds,
          PutRead, PutWrite, Ends, Finish, TypeInv, TypeOK
    <2>2. QED
      BY <2>1
  <1>9. ASSUME Step(t) \/ Fails(t)
        PROVE  FALSE
    <2>1. Ends(t)
      BY <1>3, <1>9
      DEF Step, Fails, StatusRead, LeaseRead, LeaseWrite, ListSubjects, SyncOne, CycleEnds,
          PutRead, PutWrite
    <2>2. QED
      BY <1>1, <1>4, <2>1, GotoFrame DEF Ends
  <1>10. QED
    BY <1>1, <1>6, <1>7, <1>8, <1>9 DEF Next

\* A timer cycle never begins while the status shows another replica's cycle
\* within the interval, although the timer looks before it takes the lease:
\* for a lease that leaves time for one more round trip.
THEOREM CycleOncePerInterval ==
  ASSUME LongLease
  PROVE  Spec => OncePerInterval
  <1>1. OnceInv /\ [Next]_vars => OnceInv'
    BY OnceStep
  <1>2. OnceInv /\ [Next]_vars =>
          [\A r \in Replicas :
             pc[Timer(r)] = "lease.write" /\ pc'[Timer(r)] = "list"
               => DueFor(r) \/ status.by = r]_vars
    BY OnceAction
  <1>3. QED
    BY <1>1, <1>2, OnceInit, PTL DEF Spec, OncePerInterval

=============================================================================

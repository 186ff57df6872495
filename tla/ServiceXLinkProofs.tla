------------------------- MODULE ServiceXLinkProofs -------------------------
(***************************************************************************)
(* Proofs about ServiceXLink, for any number of requests, replicas and     *)
(* refresh tokens.                                                         *)
(***************************************************************************)
EXTENDS ServiceXLink, TLAPS

---------------------------------------------------------------------------
(* Type correctness                                                        *)

LEMMA IdleType ==
  /\ Idle \in Calls
  /\ Idle.pc = "idle" /\ Idle.op = "issue" /\ Idle.seen = Null /\ ~Idle.crossed /\ ~Idle.stale
  <1>1. (CHOOSE r \in Replica : TRUE) \in Replica
    BY ReplicaAssumption
  <1>2. 0 \in 0 .. CasAttempts - 1
    BY AttemptsAssumption
  <1>3. QED
    BY <1>1, <1>2 DEF Idle, Calls, Ops, Points

(* What a request becomes: it moves to another point, perhaps with another *)
(* job, or drops the record it has read.                                   *)
LEMMA Moved ==
  ASSUME NEW x \in Calls, NEW p \in Points
  PROVE  LET y == [x EXCEPT !.pc = p] IN
         /\ y \in Calls
         /\ y.op = x.op /\ y.on = x.on /\ y.pc = p /\ y.arg = x.arg /\ y.job = x.job
         /\ y.seen = x.seen /\ y.tries = x.tries /\ y.crossed = x.crossed /\ y.stale = x.stale
  BY DEF Calls

LEMMA Forgotten ==
  ASSUME NEW x \in Calls, NEW t \in 0 .. CasAttempts - 1
  PROVE  LET y == [x EXCEPT !.seen = Null, !.stale = FALSE, !.tries = t] IN
         /\ y \in Calls
         /\ y.op = x.op /\ y.on = x.on /\ y.pc = x.pc /\ y.arg = x.arg /\ y.job = x.job
         /\ y.seen = Null /\ y.tries = t /\ y.crossed = x.crossed /\ ~y.stale
  BY DEF Calls

(* A request that goes on keeps the type of them all.                      *)
LEMMA CallUpdate ==
  ASSUME TypeOK, NEW c \in Call, NEW x \in Calls, call' = [call EXCEPT ![c] = x], lock' = lock,
         record' \in Records \cup {Null}, good' \subseteq Refresh,
         word' \in Refresh \cup {Null, "unlinked"}, moves' \in 0 .. MaxMoves
  PROVE  TypeOK'
  BY DEF TypeOK

LEMMA UnlockedType ==
  ASSUME TypeOK, NEW c \in Call
  PROVE  Unlocked(c) \in [Replica -> Call \cup {Null}]
  BY DEF TypeOK, Unlocked

LEMMA EndType ==
  ASSUME TypeOK, NEW c \in Call, End(c),
         record' \in Records \cup {Null}, good' \subseteq Refresh,
         word' \in Refresh \cup {Null, "unlinked"}, moves' \in 0 .. MaxMoves
  PROVE  TypeOK'
  <1>1. call' \in [Call -> Calls] /\ lock' = Unlocked(c)
    BY IdleType DEF TypeOK, End
  <1>2. QED
    BY <1>1, UnlockedType DEF TypeOK

LEMMA MoveType == ASSUME TypeOK, Move PROVE moves' \in 0 .. MaxMoves
  BY AttemptsAssumption DEF TypeOK, Move

(* The others at a deletion or a new link half.                            *)
LEMMA CrossingType ==
  ASSUME TypeOK, NEW c \in Call, NEW x \in Calls
  PROVE  /\ Crossing(c, x) \in [Call -> Calls]
         /\ Crossing(c, x)[c] = x
         /\ \A d \in Call \ {c} :
              /\ Crossing(c, x)[d].op = call[d].op /\ Crossing(c, x)[d].on = call[d].on
              /\ Crossing(c, x)[d].pc = call[d].pc /\ Crossing(c, x)[d].arg = call[d].arg
              /\ Crossing(c, x)[d].job = call[d].job /\ Crossing(c, x)[d].seen = call[d].seen
              /\ Crossing(c, x)[d].stale = call[d].stale
              /\ call[d].pc # "idle" => Crossing(c, x)[d].crossed
              /\ call[d].pc = "idle" => Crossing(c, x)[d] = call[d]
  <1>1. Crossing(c, x)[c] = x
    BY DEF Crossing
  <1>2. ASSUME NEW d \in Call \ {c}
        PROVE  Crossing(c, x)[d] = IF Active(d) THEN [call[d] EXCEPT !.crossed = TRUE] ELSE call[d]
    BY DEF Crossing
  <1>3. \A d \in Call : call[d] \in Calls
    BY DEF TypeOK
  <1>4. \A d \in Call : [call[d] EXCEPT !.crossed = TRUE] \in Calls
    BY <1>3 DEF Calls
  <1>5. Crossing(c, x) \in [Call -> Calls]
    BY <1>3, <1>4 DEF Crossing
  <1>6. QED
    BY <1>1, <1>2, <1>3, <1>5 DEF Calls, Active

LEMMA DeletedType ==
  ASSUME TypeOK, NEW c \in Call, Deleted(c), good' = good,
         word' \in Refresh \cup {Null, "unlinked"}, moves' = moves
  PROVE  /\ TypeOK'
         /\ call'[c].pc = "idle" /\ call'[c].op = "issue" /\ call'[c].seen = Null
         /\ ~call'[c].stale /\ ~call'[c].crossed
         /\ \A d \in Call \ {c} :
              /\ call'[d].op = call[d].op /\ call'[d].pc = call[d].pc /\ call'[d].arg = call[d].arg
              /\ call'[d].job = call[d].job /\ call'[d].seen = call[d].seen
              /\ call'[d].stale = (call[d].seen # Null)
              /\ call[d].pc # "idle" => call'[d].crossed
              /\ call[d].pc = "idle" => call'[d].crossed = call[d].crossed
  <1> DEFINE late(d) == d # c /\ call[d].seen # Null
             cr == Crossing(c, Idle)
  <1>1. call' = [d \in Call |-> [cr[d] EXCEPT !.stale = late(d)]]
    BY DEF Deleted
  <1>2. cr \in [Call -> Calls] /\ cr[c] = Idle
    BY IdleType, CrossingType
  <1>3. \A d \in Call : late(d) \in BOOLEAN
    BY Zenon
  <1>4. \A d \in Call : [cr[d] EXCEPT !.stale = late(d)] \in Calls
    <2> HIDE DEF late, cr
    <2>1. QED
      BY <1>2, <1>3 DEF Calls
  <1>5. call' \in [Call -> Calls]
    <2> HIDE DEF late, cr
    <2>1. QED
      BY <1>1, <1>4
  <1>6. \A d \in Call :
          /\ call'[d].op = cr[d].op /\ call'[d].on = cr[d].on
          /\ call'[d].pc = cr[d].pc /\ call'[d].arg = cr[d].arg
          /\ call'[d].job = cr[d].job /\ call'[d].seen = cr[d].seen
          /\ call'[d].crossed = cr[d].crossed /\ call'[d].stale = late(d)
    <2> HIDE DEF late, cr
    <2>1. QED
      BY <1>1, <1>2 DEF Calls
  <1>7. TypeOK'
    BY <1>5, UnlockedType DEF TypeOK, Deleted
  <1>8. ~late(c) /\ \A d \in Call \ {c} : late(d) = (call[d].seen # Null)
    OBVIOUS
  <1>9. \A d \in Call \ {c} :
           /\ cr[d].op = call[d].op /\ cr[d].pc = call[d].pc /\ cr[d].arg = call[d].arg
           /\ cr[d].job = call[d].job /\ cr[d].seen = call[d].seen
           /\ call[d].pc # "idle" => cr[d].crossed
           /\ call[d].pc = "idle" => cr[d].crossed = call[d].crossed
    BY IdleType, CrossingType
  <1>10. QED
    <2> HIDE DEF late, cr
    <2>1. QED
      BY <1>2, <1>6, <1>7, <1>8, <1>9, IdleType

(* What a write makes of the record it has read.                           *)
LEMMA BuiltType ==
  ASSUME TypeOK, NEW c \in Call
  PROVE  /\ Built(c) \in Records
         /\ Built(c).ver = Ver(call[c].seen) + 1
         /\ call[c].job = "link" =>
              /\ Built(c).link = call[c].arg /\ Built(c).tok = Null
              /\ ~Built(c).mixed /\ ~Built(c).back
         /\ call[c].job = "token" => Built(c).tok = call[c].arg
         /\ call[c].job = "clear" => Built(c).tok = Null
         /\ call[c].job # "link" /\ call[c].seen = Null =>
              /\ Built(c).link = Null
              /\ Built(c).mixed = call[c].crossed /\ Built(c).back = call[c].stale
         /\ call[c].job # "link" /\ call[c].seen # Null =>
              /\ Built(c).link = call[c].seen.link
              /\ Built(c).mixed = (call[c].seen.mixed \/ call[c].crossed)
              /\ Built(c).back = (call[c].seen.back \/ call[c].stale)
  <1> DEFINE base == IF call[c].seen = Null THEN Empty ELSE call[c].seen
  <1>1. call[c] \in Calls
    BY DEF TypeOK
  <1>2. /\ base \in [ver : Nat, link : Refresh \cup {Null}, tok : Refresh \cup {Null},
                     fresh : BOOLEAN, mixed : BOOLEAN, back : BOOLEAN]
        /\ base.ver = Ver(call[c].seen)
        /\ call[c].seen = Null => base = Empty
        /\ call[c].seen # Null => base = call[c].seen
    <2>1. CASE call[c].seen = Null
      BY <2>1 DEF Empty, Ver
    <2>2. CASE call[c].seen # Null
      BY <1>1, <2>2 DEF Calls, Records, Ver
    <2>3. QED
      BY <2>1, <2>2
  <1>3. Empty.link = Null /\ ~Empty.mixed /\ ~Empty.back
    BY DEF Empty
  <1>4. call[c].arg \in Refresh \cup {Null} /\ call[c].crossed \in BOOLEAN /\ call[c].stale \in BOOLEAN /\ call[c].job \in {"link", "token", "clear"}
    BY <1>1 DEF Calls
  <1> HIDE DEF base
  <1>5. CASE call[c].job = "link"
    <2>1. Built(c) = [[Empty EXCEPT !.link = call[c].arg] EXCEPT !.ver = base.ver + 1,
                        !.mixed = call[c].job # "link" /\ (@ \/ call[c].crossed),
                        !.back = call[c].job # "link" /\ (@ \/ call[c].stale)]
      BY <1>5 DEF Built, Relinked, base
    <2>2. Built(c) = [ver |-> base.ver + 1, link |-> call[c].arg, tok |-> Null, fresh |-> FALSE,
                      mixed |-> FALSE, back |-> FALSE]
      BY <1>5, <2>1 DEF Empty
    <2>3. QED
      BY <1>2, <1>4, <1>5, <2>2 DEF Records
  <1>6. CASE call[c].job = "token"
    <2>1. Built(c) = [[base EXCEPT !.tok = call[c].arg, !.fresh = TRUE]
                       EXCEPT !.ver = base.ver + 1, !.mixed = @ \/ call[c].crossed, !.back = @ \/ call[c].stale]
      BY <1>6 DEF Built, base
    <2>2. Built(c) = [ver |-> base.ver + 1, link |-> base.link, tok |-> call[c].arg, fresh |-> TRUE,
                      mixed |-> base.mixed \/ call[c].crossed, back |-> base.back \/ call[c].stale]
      BY <1>2, <2>1
    <2>3. QED
      BY <1>2, <1>3, <1>4, <1>6, <2>2 DEF Records
  <1>7. CASE call[c].job = "clear"
    <2>1. Built(c) = [[base EXCEPT !.tok = Null, !.fresh = FALSE]
                       EXCEPT !.ver = base.ver + 1, !.mixed = @ \/ call[c].crossed, !.back = @ \/ call[c].stale]
      BY <1>7 DEF Built, base
    <2>2. Built(c) = [ver |-> base.ver + 1, link |-> base.link, tok |-> Null, fresh |-> FALSE,
                      mixed |-> base.mixed \/ call[c].crossed, back |-> base.back \/ call[c].stale]
      BY <1>2, <2>1
    <2>3. QED
      BY <1>2, <1>3, <1>4, <1>7, <2>2 DEF Records
  <1>8. QED
    BY <1>4, <1>5, <1>6, <1>7

LEMMA WriteType ==
  ASSUME TypeOK, NEW c \in Call, CasWrite(c)
  PROVE  TypeOK'
  <1>0. call[c] \in Calls /\ record' \in Records
    BY BuiltType DEF CasWrite, TypeOK
  <1> DEFINE y == [call[c] EXCEPT !.pc = "read", !.job = "token", !.seen = Null, !.stale = FALSE, !.tries = 0]
             z == [call[c] EXCEPT !.pc = "check", !.seen = Null, !.stale = FALSE, !.tries = 0]
  <1>1. CASE call' = Crossing(c, y) /\ UNCHANGED lock
    <2>1. y \in Calls
      <3> DEFINE m == [call[c] EXCEPT !.pc = "read", !.job = "token"]
      <3>1. m \in Calls
        BY <1>0 DEF Calls, Points
      <3>2. 0 \in 0 .. CasAttempts - 1
        BY AttemptsAssumption
      <3> HIDE DEF m
      <3>3. [m EXCEPT !.seen = Null, !.stale = FALSE, !.tries = 0] \in Calls
        BY <3>1, <3>2, Forgotten
      <3>4. QED
        BY <3>3 DEF m
    <2> HIDE DEF y
    <2>2. call' \in [Call -> Calls]
      BY <1>1, <2>1, CrossingType
    <2>3. QED
      BY <1>0, <1>1, <2>2 DEF CasWrite, At, TypeOK
  <1>2. CASE call' = [call EXCEPT ![c] = z] /\ UNCHANGED lock
    <2>1. z \in Calls
      <3> DEFINE m == [call[c] EXCEPT !.pc = "check"]
      <3>1. m \in Calls
        BY <1>0, Moved DEF Points
      <3>2. 0 \in 0 .. CasAttempts - 1
        BY AttemptsAssumption
      <3> HIDE DEF m
      <3>3. [m EXCEPT !.seen = Null, !.stale = FALSE, !.tries = 0] \in Calls
        BY <3>1, <3>2, Forgotten
      <3>4. QED
        BY <3>3 DEF m
    <2> HIDE DEF z
    <2>2. QED
      BY <1>0, <1>2, <2>1, CallUpdate DEF CasWrite, At, TypeOK
  <1>3. CASE End(c)
    BY <1>0, <1>3, EndType DEF CasWrite, At, TypeOK
  <1>4. QED
    <2>1. call[c].job \in {"link", "token", "clear"}
      BY <1>0 DEF Calls
    <2>2. CASE call[c].job = "link"
      BY <1>1, <2>2 DEF CasWrite
    <2>3. CASE call[c].job = "token" /\ call[c].op = "link"
      <3>1. call' = [call EXCEPT ![c] = z]
        BY <2>3 DEF CasWrite, TypeOK
      <3>2. QED
        BY <1>2, <2>3, <3>1 DEF CasWrite
    <2>4. CASE call[c].job # "link" /\ ~(call[c].job = "token" /\ call[c].op = "link")
      BY <1>3, <2>4 DEF CasWrite
    <2>5. QED
      BY <2>2, <2>3, <2>4

LEMMA StepType ==
  ASSUME TypeOK, NEW c \in Call, Step(c)
  PROVE  TypeOK'
  <1> USE DEF At
  <1>0. call[c] \in Calls
    BY DEF TypeOK
  <1>1. CASE Serve(c)
    <2>1. CASE End(c)
      BY <1>1, <2>1, EndType DEF Serve, TypeOK
    <2>2. CASE Goto(c, IF call[c].op = "issue" THEN "linked" ELSE "get") /\ UNCHANGED lock
      <3> DEFINE x == [call[c] EXCEPT !.pc = IF call[c].op = "issue" THEN "linked" ELSE "get"]
      <3>1. x \in Calls
        BY <1>0 DEF Calls, Points
      <3>2. call' = [call EXCEPT ![c] = x]
        BY <1>1, <2>2 DEF Goto, TypeOK
      <3>3. QED
        BY <1>1, <2>2, <3>1, <3>2, CallUpdate DEF Serve, TypeOK
    <2>3. QED
      BY <1>1, <2>1, <2>2 DEF Serve
  <1>2. CASE Linked(c)
    <2>1. CASE End(c)
      BY <1>2, <2>1, EndType DEF Linked, TypeOK
    <2>2. CASE Goto(c, "lock") /\ UNCHANGED lock
      <3> DEFINE x == [call[c] EXCEPT !.pc = "lock"]
      <3>1. x \in Calls
        BY <1>0 DEF Calls, Points
      <3>2. call' = [call EXCEPT ![c] = x]
        BY <1>2, <2>2 DEF Linked, Goto, TypeOK
      <3>3. QED
        BY <1>2, <2>2, <3>1, <3>2, CallUpdate DEF Linked, TypeOK
    <2>3. QED
      BY <1>2, <2>1, <2>2 DEF Linked
  <1>3. CASE Lock(c)
    <2> DEFINE x == [call[c] EXCEPT !.pc = "again"]
    <2>1. call' = [call EXCEPT ![c] = x] /\ x \in Calls
      BY <1>0, <1>3 DEF Lock, Goto, TypeOK, Calls, Points
    <2>2. call' \in [Call -> Calls] /\ lock' \in [Replica -> Call \cup {Null}]
      BY <1>3, <2>1 DEF Lock, TypeOK
    <2>3. QED
      BY <1>3, <2>2 DEF Lock, TypeOK
  <1>4. CASE ServeAgain(c)
    <2>1. CASE End(c)
      BY <1>4, <2>1, EndType DEF ServeAgain, TypeOK
    <2>2. CASE Goto(c, "get") /\ UNCHANGED lock
      <3> DEFINE x == [call[c] EXCEPT !.pc = "get"]
      <3>1. x \in Calls
        BY <1>0 DEF Calls, Points
      <3>2. call' = [call EXCEPT ![c] = x]
        BY <2>2 DEF Goto, TypeOK
      <3>3. QED
        BY <1>4, <2>2, <3>1, <3>2, CallUpdate DEF ServeAgain, TypeOK
    <2>3. QED
      BY <1>4, <2>1, <2>2 DEF ServeAgain
  <1>5. CASE GetLink(c)
    <2>1. CASE End(c)
      BY <1>5, <2>1, EndType DEF GetLink, TypeOK
    <2>2. CASE /\ HasLink /\ call' = [call EXCEPT ![c].pc = "redeem", ![c].arg = record.link]
               /\ UNCHANGED lock
      <3> DEFINE x == [call[c] EXCEPT !.pc = "redeem", !.arg = record.link]
      <3>1. record.link \in Refresh \cup {Null}
        BY <2>2 DEF HasLink, TypeOK, Records
      <3>2. x \in Calls
        BY <1>0, <3>1 DEF Calls, Points
      <3>3. call' = [call EXCEPT ![c] = x]
        BY <2>2 DEF TypeOK
      <3>4. QED
        BY <1>5, <2>2, <3>2, <3>3, CallUpdate DEF GetLink, TypeOK
    <2>3. QED
      BY <1>5, <2>1, <2>2 DEF GetLink
  <1>6. CASE Redeem(c)
    <2>1. CASE End(c)
      BY <1>6, <2>1, EndType DEF Redeem, TypeOK
    <2>2. CASE /\ call' = [call EXCEPT ![c].pc = "read", ![c].job = IF call[c].op = "link" THEN "link" ELSE "token"]
               /\ UNCHANGED lock
      <3> DEFINE x == [call[c] EXCEPT !.pc = "read", !.job = IF call[c].op = "link" THEN "link" ELSE "token"]
      <3>1. x \in Calls
        BY <1>0 DEF Calls, Points
      <3>2. call' = [call EXCEPT ![c] = x]
        BY <2>2 DEF TypeOK
      <3>3. QED
        BY <1>6, <2>2, <3>1, <3>2, CallUpdate DEF Redeem, TypeOK
    <2>3. CASE Goto(c, "drop") /\ UNCHANGED lock
      <3> DEFINE x == [call[c] EXCEPT !.pc = "drop"]
      <3>1. x \in Calls
        BY <1>0 DEF Calls, Points
      <3>2. call' = [call EXCEPT ![c] = x]
        BY <2>3 DEF Goto, TypeOK
      <3>3. QED
        BY <1>6, <2>3, <3>1, <3>2, CallUpdate DEF Redeem, TypeOK
    <2>4. QED
      BY <1>6, <2>1, <2>2, <2>3 DEF Redeem
  <1>7. CASE DropLink(c)
    BY <1>7, DeletedType DEF DropLink, TypeOK
  <1>8. CASE Probe(c)
    <2>1. CASE End(c)
      BY <1>8, <2>1, EndType DEF Probe, TypeOK
    <2>2. CASE call' = [call EXCEPT ![c].pc = "read", ![c].job = "clear"] /\ UNCHANGED lock
      <3> DEFINE x == [call[c] EXCEPT !.pc = "read", !.job = "clear"]
      <3>1. x \in Calls
        BY <1>0 DEF Calls, Points
      <3>2. call' = [call EXCEPT ![c] = x]
        BY <1>8, <2>2 DEF Probe, TypeOK
      <3>3. QED
        BY <1>8, <2>2, <3>1, <3>2, CallUpdate DEF Probe, TypeOK
    <2>3. QED
      BY <1>8, <2>1, <2>2 DEF Probe
  <1>9. CASE Delete(c)
    BY <1>9, DeletedType DEF Delete, TypeOK
  <1>10. CASE Check(c)
    <2>1. word' \in Refresh \cup {Null, "unlinked"}
      BY <1>0, <1>10 DEF Check, TypeOK, Calls
    <2>2. QED
      BY <1>10, <2>1, EndType DEF Check, TypeOK
  <1>11. CASE CasRead(c)
    <2> DEFINE x == [call[c] EXCEPT !.pc = "write", !.seen = record]
    <2>1. x \in Calls
      BY <1>0 DEF Calls, Points, TypeOK
    <2>2. call' = [call EXCEPT ![c] = x]
      BY <1>11 DEF CasRead, TypeOK
    <2>3. QED
      BY <1>11, <2>1, <2>2, CallUpdate DEF CasRead, TypeOK
  <1>12. CASE CasWrite(c)
    BY <1>12, WriteType
  <1>13. CASE CasConflict(c)
    <2>1. CASE End(c)
      BY <1>13, <2>1, EndType DEF CasConflict, TypeOK
    <2>2. CASE /\ MayRetry(c)
               /\ call' = [call EXCEPT ![c].pc = "read", ![c].seen = Null, ![c].stale = FALSE, ![c].tries = @ + 1]
               /\ UNCHANGED lock
      <3> DEFINE x == [call[c] EXCEPT !.pc = "read", !.seen = Null, !.stale = FALSE, !.tries = @ + 1]
      <3>1. call[c].tries + 1 \in 0 .. CasAttempts - 1
        BY <1>0, <2>2, AttemptsAssumption DEF MayRetry, Calls
      <3>2. x \in Calls
        BY <1>0, <3>1 DEF Calls, Points
      <3>3. call' = [call EXCEPT ![c] = x]
        BY <2>2 DEF TypeOK
      <3>4. QED
        BY <1>13, <2>2, <3>2, <3>3, CallUpdate DEF CasConflict, TypeOK
    <2>3. QED
      BY <1>13, <2>1, <2>2 DEF CasConflict
  <1>14. QED
    BY <1>1, <1>2, <1>3, <1>4, <1>5, <1>6, <1>7, <1>8, <1>9, <1>10, <1>11, <1>12, <1>13 DEF Step

LEMMA NextType ==
  ASSUME TypeOK, [Next]_vars
  PROVE  TypeOK'
  <1>1. ASSUME NEW c \in Call, Step(c) PROVE TypeOK'
    BY <1>1, StepType
  <1>2. ASSUME NEW c \in Call, Fail(c) PROVE TypeOK'
    BY <1>2, MoveType, EndType DEF Fail, TypeOK
  <1>3. ASSUME NEW c \in Call, NEW op \in Ops, NEW r \in Replica, NEW given \in Refresh \cup {Null},
               Arrive(c, op, r, given)
        PROVE  TypeOK'
    <2> DEFINE x == [Idle EXCEPT !.op = op, !.on = r, !.pc = Entry[op], !.arg = given]
    <2>1. Entry[op] \in Points
      BY DEF Ops, Entry, Points
    <2>2. x \in Calls
      BY <2>1, IdleType DEF Calls
    <2>3. call' = [call EXCEPT ![c] = x]
      BY <1>3 DEF Arrive
    <2> HIDE DEF x
    <2>4. QED
      BY <1>3, <2>2, <2>3, MoveType, CallUpdate DEF Arrive, TypeOK
  <1>4. CASE TokenAges
    BY <1>4, MoveType DEF TokenAges, Servable, TypeOK, Records
  <1>5. ASSUME NEW x \in Refresh, Withdraw(x) PROVE TypeOK'
    BY <1>5, MoveType DEF Withdraw, TypeOK
  <1>6. CASE UNCHANGED vars
    BY <1>6 DEF vars, TypeOK
  <1>7. QED
    BY <1>1, <1>2, <1>3, <1>4, <1>5, <1>6 DEF Next

LEMMA InitType == Init => TypeOK
  <1> SUFFICES ASSUME Init PROVE TypeOK
    OBVIOUS
  <1>1. \/ record = Null
        \/ record \in [ver : {1}, link : {First}, tok : {First}, fresh : BOOLEAN,
                       mixed : {FALSE}, back : {FALSE}]
    BY Zenon DEF Init
  <1>2. record \in Records \cup {Null}
    <2>1. {1} \subseteq Nat \ {0} /\ {First} \subseteq Refresh \cup {Null}
      BY FirstAssumption
    <2>2. {FALSE} \subseteq BOOLEAN
      BY Zenon
    <2>3. [ver : {1}, link : {First}, tok : {First}, fresh : BOOLEAN, mixed : {FALSE}, back : {FALSE}]
            \subseteq Records
      BY <2>1, <2>2 DEF Records
    <2>4. QED
      BY <1>1, <2>3
  <1>3. word \in Refresh \cup {Null, "unlinked"}
    BY <1>2 DEF Init, Records
  <1>4. call \in [Call -> Calls] /\ lock \in [Replica -> Call \cup {Null}]
    BY IdleType DEF Init
  <1>5. good \subseteq Refresh /\ moves \in 0 .. MaxMoves
    BY AttemptsAssumption DEF Init
  <1>6. QED
    BY <1>2, <1>3, <1>4, <1>5 DEF TypeOK

(* Every state has the shape TypeOK gives it: _write_cas_retry never counts*)
(* an attempt past _CAS_ATTEMPTS.                                          *)
THEOREM LinkTypeCorrect == Spec => []TypeOK
  BY InitType, NextType, PTL DEF Spec

---------------------------------------------------------------------------
(* The inductive invariant                                                 *)

(* A request has the refresh token of the link the token half it writes    *)
(* belongs to.                                                             *)
Bound(x) ==
  \/ x.op \in {"issue", "redeem"} /\ x.pc \in {"redeem", "drop", "read", "write"}
  \/ x.op = "link" /\ x.pc \in {"read", "write"} /\ x.job = "token"
  \/ x.op = "link" /\ x.pc = "check"

(* What is true of a request x while Vault has the record rec.  The points *)
(* and jobs of a route; what it has read is an earlier version of the      *)
(* record or the same one, unless the record was deleted since; the record *)
(* whose token half it is about to write, or about to clear, is still that *)
(* one, unless the request was crossed or a stale write brought it back.   *)
Sound(rec, x) ==
  /\ x.op = "link" => x.pc \in {"idle", "redeem", "read", "write", "check"}
  /\ x.op = "unlink" => x.pc \in {"idle", "delete"}
  /\ x.op = "revoke" => x.pc \in {"idle", "probe", "read", "write"}
  /\ x.op \in {"issue", "redeem"} => x.pc \notin {"probe", "delete", "check"}
  /\ x.pc \in {"read", "write"} =>
       /\ x.job = "link" => x.op = "link"
       /\ x.job = "clear" <=> x.op = "revoke"
  /\ x.seen # Null => x.pc = "write"
  /\ x.stale => x.seen # Null
  /\ x.seen # Null /\ ~x.stale =>
       /\ rec # Null
       /\ x.seen.ver <= rec.ver
       /\ x.seen.ver = rec.ver =>
            x.seen.link = rec.link /\ x.seen.mixed = rec.mixed /\ x.seen.back = rec.back
  /\ Bound(x) /\ ~x.crossed => rec # Null /\ (rec.back \/ rec.link = x.arg)
  /\ x.op = "revoke" /\ x.pc \in {"read", "write"} /\ ~x.crossed => rec # Null

AllSound == \A c \in Call : Sound(record, call[c])

(* The user has been told something only while nobody is about to change   *)
(* it.                                                                     *)
WordOK == word # Null => \A c \in Call : ~Claiming(c)

LinkInv == TypeOK /\ AllSound /\ WordOK /\ UnlinkSticks /\ AckedLinkKept /\ TokenOfLink

LEMMA IdleSound == ASSUME NEW rec PROVE Sound(rec, Idle)
  BY DEF Idle, Sound, Bound

(* The record stays and one request moves.                                 *)
LEMMA OneMoves ==
  ASSUME LinkInv, NEW c \in Call, NEW x, call' = [call EXCEPT ![c] = x], record' = record, word' = word,
         Sound(record, x), x.pc = "idle" \/ (x.op = call[c].op /\ Active(c)), TypeOK'
  PROVE  LinkInv'
  <1>1. \A d \in Call : call'[d] = IF d = c THEN x ELSE call[d]
    BY DEF LinkInv, TypeOK
  <1>2. AllSound'
    BY <1>1 DEF LinkInv, AllSound
  <1>3. WordOK'
    BY <1>1 DEF LinkInv, WordOK, Claiming, Active
  <1>4. QED
    BY <1>2, <1>3 DEF LinkInv, UnlinkSticks, AckedLinkKept, TokenOfLink

LEMMA OneEnds ==
  ASSUME LinkInv, NEW c \in Call, End(c), record' = record, word' = word, TypeOK'
  PROVE  LinkInv'
  BY OneMoves, IdleSound, IdleType DEF End

(* What a request that writes a token half, or clears one, makes of the    *)
(* record: the same link, or a record brought back, or one without a link  *)
(* that has the token of a crossed request.                                *)
LEMMA WriteKeeps ==
  ASSUME TypeOK, NEW c \in Call, Sound(record, call[c]), call[c].pc = "write", call[c].job # "link",
         Unchanged(c)
  PROVE  /\ Built(c) \in Records /\ Built(c) # Null /\ Built(c).ver = Ver(record) + 1
         /\ \/ Built(c).back
            \/ /\ record # Null /\ ~record.back
               /\ Built(c).link = record.link /\ (record.mixed => Built(c).mixed)
            \/ record = Null /\ Built(c).link = Null /\ Built(c).mixed
         /\ call[c].job = "token" /\ ~call[c].crossed /\ ~Built(c).back =>
              record # Null /\ Built(c).link = call[c].arg
         /\ Built(c).tok # Null /\ ~Built(c).mixed => call[c].job = "token" /\ ~call[c].crossed
                                                        /\ Built(c).tok = call[c].arg
  <1>1. Built(c) \in Records /\ Built(c) # Null /\ Built(c).ver = Ver(record) + 1
    BY BuiltType, RecordAssumption DEF Unchanged
  <1>2. call[c] \in Calls
    BY DEF TypeOK
  <1>3. call[c].op \in Ops /\ call[c].job \in {"token", "clear"} /\ call[c].crossed \in BOOLEAN /\ call[c].stale \in BOOLEAN
    BY <1>2 DEF Calls
  <1>4. ~call[c].crossed => record # Null
    BY <1>3 DEF Sound, Bound, Ops
  <1>5. call[c].job = "token" /\ ~call[c].crossed => record.back \/ record.link = call[c].arg
    BY <1>3 DEF Sound, Bound, Ops
  <1>6. CASE call[c].seen = Null
    <2>1. record = Null
      BY <1>6 DEF Unchanged, Ver, TypeOK, Records
    <2>2. QED
      BY <1>1, <1>3, <1>4, <1>6, <2>1, BuiltType
  <1>7. CASE call[c].seen # Null /\ call[c].stale
    <2>1. Built(c).back
      BY <1>7, BuiltType
    <2>2. Built(c).tok # Null /\ ~Built(c).mixed =>
            call[c].job = "token" /\ ~call[c].crossed /\ Built(c).tok = call[c].arg
      BY <1>3, <1>7, BuiltType
    <2>3. QED
      BY <1>1, <2>1, <2>2
  <1>8. CASE call[c].seen # Null /\ ~call[c].stale
    <2>1. /\ record # Null /\ call[c].seen.link = record.link
          /\ call[c].seen.mixed = record.mixed /\ call[c].seen.back = record.back
      BY <1>8 DEF Sound, Unchanged, Ver
    <2>2. /\ Built(c).link = record.link
          /\ Built(c).mixed = (record.mixed \/ call[c].crossed)
          /\ Built(c).back = (record.back \/ call[c].stale)
      BY <1>8, <2>1, BuiltType
    <2>3. record.back \in BOOLEAN /\ record.mixed \in BOOLEAN
      BY <2>1 DEF TypeOK, Records
    <2>4. Built(c).tok # Null /\ ~Built(c).mixed =>
            call[c].job = "token" /\ ~call[c].crossed /\ Built(c).tok = call[c].arg
      BY <1>3, <2>2, BuiltType
    <2>5. QED
      BY <1>1, <1>5, <1>8, <2>1, <2>2, <2>3, <2>4
  <1>9. QED
    BY <1>6, <1>7, <1>8

(* What the others have read is an earlier version than the one written.   *)
LEMMA EarlierRead ==
  ASSUME TypeOK, NEW rec \in Records, rec.ver = Ver(record) + 1, NEW d \in Call, Sound(record, call[d]),
         call[d].seen # Null, ~call[d].stale
  PROVE  call[d].seen.ver <= rec.ver /\ call[d].seen.ver # rec.ver
  <1>1. call[d].seen \in Records
    BY DEF TypeOK, Calls
  <1>2. record # Null /\ record \in Records /\ call[d].seen.ver <= record.ver
    BY DEF Sound, TypeOK
  <1>3. call[d].seen.ver \in Nat /\ record.ver \in Nat /\ rec.ver = record.ver + 1
    BY <1>1, <1>2 DEF Records, Ver
  <1>4. QED
    BY <1>2, <1>3

LEMMA HalfWritten ==
  ASSUME LinkInv, NEW c \in Call, CasWrite(c), call[c].job # "link", TypeOK'
  PROVE  LinkInv'
  <1> DEFINE rec == Built(c)
             z == [call[c] EXCEPT !.pc = "check", !.seen = Null, !.stale = FALSE, !.tries = 0]
  <1>0. TypeOK /\ call[c] \in Calls /\ Sound(record, call[c]) /\ call[c].pc = "write" /\ Unchanged(c)
    BY DEF LinkInv, AllSound, TypeOK, CasWrite, At
  <1>1. /\ rec \in Records /\ rec # Null /\ rec.ver = Ver(record) + 1
        /\ \/ rec.back
           \/ /\ record # Null /\ ~record.back
              /\ rec.link = record.link /\ (record.mixed => rec.mixed)
           \/ record = Null /\ rec.link = Null /\ rec.mixed
        /\ call[c].job = "token" /\ ~call[c].crossed /\ ~rec.back => record # Null /\ rec.link = call[c].arg
        /\ rec.tok # Null /\ ~rec.mixed => call[c].job = "token" /\ ~call[c].crossed /\ rec.tok = call[c].arg
    BY <1>0, WriteKeeps
  <1>2. record' = rec /\ word' = word
    BY DEF CasWrite
  <1>3. \/ call' = [call EXCEPT ![c] = Idle]
        \/ call[c].job = "token" /\ call[c].op = "link" /\ call' = [call EXCEPT ![c] = z]
    <2>1. call[c].job \in {"token", "clear"}
      BY <1>0 DEF Calls
    <2>2. CASE call[c].job = "token" /\ call[c].op = "link"
      BY <2>2 DEF CasWrite, LinkInv, TypeOK
    <2>3. CASE ~(call[c].job = "token" /\ call[c].op = "link")
      BY <2>1, <2>3 DEF CasWrite, End
    <2>4. QED
      BY <2>2, <2>3
  <1>4. z.pc = "check" /\ z.op = call[c].op /\ z.arg = call[c].arg /\ z.seen = Null /\ ~z.stale
        /\ z.crossed = call[c].crossed
    BY <1>0 DEF Calls
  <1> HIDE DEF rec, z
  <1>5. \A d \in Call \ {c} : call'[d] = call[d]
    BY <1>3 DEF LinkInv, TypeOK
  <1>6. call'[c] = Idle \/ (call[c].job = "token" /\ call[c].op = "link" /\ call'[c] = z)
    BY <1>3 DEF LinkInv, TypeOK
  <1>7. ASSUME NEW d \in Call \ {c} PROVE Sound(rec, call'[d])
    <2>1. Sound(record, call[d])
      BY DEF LinkInv, AllSound
    <2>2. call[d].seen # Null /\ ~call[d].stale => call[d].seen.ver <= rec.ver /\ call[d].seen.ver # rec.ver
      BY <1>0, <1>1, <2>1, EarlierRead
    <2>3. Bound(call[d]) /\ ~call[d].crossed => rec.back \/ rec.link = call[d].arg
      BY <1>1, <2>1 DEF Sound
    <2>4. QED
      BY <1>1, <1>5, <2>1, <2>2, <2>3 DEF Sound
  <1>8. Sound(rec, call'[c])
    <2>1. CASE call'[c] = z /\ call[c].job = "token" /\ call[c].op = "link"
      BY <1>1, <1>4, <2>1 DEF Sound
    <2>2. QED
      BY <1>6, <2>1, IdleSound
  <1>9. AllSound'
    BY <1>2, <1>7, <1>8 DEF AllSound
  <1>10. WordOK'
    BY <1>0, <1>2, <1>4, <1>5, <1>6, IdleType DEF LinkInv, WordOK, Claiming, Active
  <1>11. UnlinkSticks'
    BY <1>1, <1>2 DEF LinkInv, UnlinkSticks
  <1>12. AckedLinkKept'
    BY <1>1, <1>2 DEF LinkInv, AckedLinkKept
  <1>13. TokenOfLink'
    BY <1>1, <1>2 DEF LinkInv, TokenOfLink
  <1>14. QED
    BY <1>9, <1>10, <1>11, <1>12, <1>13 DEF LinkInv

(* A link half is written: every other request is crossed.                 *)
LEMMA LinkWritten ==
  ASSUME LinkInv, NEW c \in Call, CasWrite(c), call[c].job = "link", TypeOK'
  PROVE  LinkInv'
  <1> DEFINE rec == Built(c)
             m == [call[c] EXCEPT !.pc = "read", !.job = "token"]
             y == [m EXCEPT !.seen = Null, !.stale = FALSE, !.tries = 0]
  <1>0. TypeOK /\ call[c] \in Calls /\ Sound(record, call[c]) /\ call[c].pc = "write" /\ Unchanged(c)
    BY DEF LinkInv, AllSound, TypeOK, CasWrite, At
  <1>1. /\ rec \in Records /\ rec # Null /\ rec.ver = Ver(record) + 1
        /\ rec.link = call[c].arg /\ rec.tok = Null
    BY <1>0, BuiltType, RecordAssumption DEF Unchanged
  <1>2. record' = rec /\ word' = word /\ call' = Crossing(c, y)
    BY DEF CasWrite
  <1>3. m \in Calls /\ m.pc = "read" /\ m.job = "token" /\ m.op = call[c].op /\ m.arg = call[c].arg
    BY <1>0 DEF Calls, Points
  <1>4. 0 \in 0 .. CasAttempts - 1
    BY AttemptsAssumption
  <1> HIDE DEF rec, m
  <1>5. /\ y \in Calls /\ y.pc = "read" /\ y.job = "token" /\ y.op = call[c].op /\ y.arg = call[c].arg
        /\ y.seen = Null /\ ~y.stale
    BY <1>3, <1>4, Forgotten
  <1> HIDE DEF y
  <1>6. call[c].op = "link" /\ word = Null
    BY <1>0 DEF LinkInv, WordOK, Sound, Claiming, Active
  <1>7. /\ call'[c] = y
        /\ \A d \in Call \ {c} :
             /\ call'[d].op = call[d].op /\ call'[d].pc = call[d].pc /\ call'[d].arg = call[d].arg
             /\ call'[d].job = call[d].job /\ call'[d].seen = call[d].seen
             /\ call'[d].stale = call[d].stale
             /\ call[d].pc # "idle" => call'[d].crossed
    BY <1>0, <1>2, <1>5, CrossingType
  <1>8. ASSUME NEW d \in Call \ {c} PROVE Sound(rec, call'[d])
    <2>1. Sound(record, call[d])
      BY DEF LinkInv, AllSound
    <2>2. call[d].seen # Null /\ ~call[d].stale => call[d].seen.ver <= rec.ver /\ call[d].seen.ver # rec.ver
      BY <1>0, <1>1, <2>1, EarlierRead
    <2>3. call'[d].pc # "idle" => call'[d].crossed
      BY <1>7
    <2>4. QED
      BY <1>1, <1>7, <2>1, <2>2, <2>3 DEF Sound, Bound
  <1>9. Sound(rec, call'[c])
    BY <1>1, <1>5, <1>6, <1>7 DEF Sound
  <1>10. AllSound'
    BY <1>2, <1>8, <1>9 DEF AllSound
  <1>11. QED
    BY <1>1, <1>2, <1>6, <1>10, NullAssumption, UnlinkedAssumption
       DEF LinkInv, WordOK, UnlinkSticks, AckedLinkKept, TokenOfLink

(* The record is deleted: every other request is crossed, and what it has  *)
(* read is stale.                                                          *)
LEMMA DeletedSound ==
  ASSUME LinkInv, NEW c \in Call, Deleted(c), good' = good, moves' = moves,
         word' \in {Null, "unlinked"},
         word' # Null => \A d \in Call \ {c} : ~Claiming(d)
  PROVE  LinkInv'
  <1>1. /\ TypeOK'
        /\ call'[c].pc = "idle" /\ call'[c].op = "issue" /\ call'[c].seen = Null
        /\ ~call'[c].stale /\ ~call'[c].crossed
        /\ \A d \in Call \ {c} :
             /\ call'[d].op = call[d].op /\ call'[d].pc = call[d].pc /\ call'[d].arg = call[d].arg
             /\ call'[d].job = call[d].job /\ call'[d].seen = call[d].seen
             /\ call'[d].stale = (call[d].seen # Null)
             /\ call[d].pc # "idle" => call'[d].crossed
    BY DeletedType DEF LinkInv
  <1>2. record' = Null
    BY DEF Deleted
  <1>3. ASSUME NEW d \in Call \ {c} PROVE Sound(record', call'[d])
    <2>1. Sound(record, call[d])
      BY DEF LinkInv, AllSound
    <2>2. /\ call'[d].seen # Null => call'[d].stale
          /\ call'[d].pc # "idle" => call'[d].crossed
          /\ call'[d].stale => call'[d].seen # Null
      BY <1>1
    <2>3. QED
      BY <1>1, <1>2, <2>1, <2>2 DEF Sound, Bound
  <1>4. Sound(record', call'[c])
    BY <1>1 DEF Sound, Bound
  <1>5. AllSound'
    BY <1>3, <1>4 DEF AllSound
  <1>6. WordOK'
    BY <1>1 DEF WordOK, Claiming, Active
  <1>7. UnlinkSticks' /\ AckedLinkKept' /\ TokenOfLink'
    BY <1>2, NullAssumption, UnlinkedAssumption DEF UnlinkSticks, AckedLinkKept, TokenOfLink
  <1>8. QED
    BY <1>1, <1>5, <1>6, <1>7 DEF LinkInv

LEMMA StepInv ==
  ASSUME LinkInv, NEW c \in Call, Step(c)
  PROVE  LinkInv'
  <1> USE DEF At
  <1>0. /\ TypeOK /\ TypeOK'
        /\ call[c] \in Calls /\ call[c].op \in Ops /\ Sound(record, call[c])
    BY StepType DEF LinkInv, AllSound, TypeOK, Calls
  <1>1. CASE Serve(c)
    <2>1. CASE End(c)
      BY <1>0, <1>1, <2>1, OneEnds DEF Serve
    <2>2. CASE Goto(c, IF call[c].op = "issue" THEN "linked" ELSE "get")
      <3> DEFINE p == IF call[c].op = "issue" THEN "linked" ELSE "get"
                 x == [call[c] EXCEPT !.pc = p]
      <3>1. p \in Points /\ p \in {"linked", "get"}
        BY DEF Points
      <3>2. call' = [call EXCEPT ![c] = x]
        BY <2>2 DEF Goto, LinkInv, TypeOK
      <3> HIDE DEF p
      <3>3. /\ x.op = call[c].op /\ x.pc = p /\ x.seen = call[c].seen /\ x.stale = call[c].stale
        BY <1>0, <3>1, Moved
      <3>4. Sound(record, x)
        BY <1>0, <1>1, <3>1, <3>3 DEF Sound, Bound, Serve, Ops
      <3>5. QED
        BY <1>0, <1>1, <3>2, <3>3, <3>4, OneMoves DEF Serve, Active
    <2>3. QED
      BY <1>1, <2>1, <2>2 DEF Serve
  <1>2. CASE Linked(c)
    <2>1. CASE End(c)
      BY <1>0, <1>2, <2>1, OneEnds DEF Linked
    <2>2. CASE Goto(c, "lock")
      <3> DEFINE x == [call[c] EXCEPT !.pc = "lock"]
      <3>1. /\ x.op = call[c].op /\ x.pc = "lock" /\ x.seen = call[c].seen /\ x.stale = call[c].stale
        BY <1>0 DEF Calls
      <3>2. call' = [call EXCEPT ![c] = x]
        BY <2>2 DEF Goto, LinkInv, TypeOK
      <3>3. Sound(record, x)
        BY <1>0, <1>2, <3>1 DEF Sound, Bound, Linked, Ops
      <3>4. QED
        BY <1>0, <1>2, <3>1, <3>2, <3>3, OneMoves DEF Linked, Active
    <2>3. QED
      BY <1>2, <2>1, <2>2 DEF Linked
  <1>3. CASE Lock(c)
    <2> DEFINE x == [call[c] EXCEPT !.pc = "again"]
    <2>1. /\ x.op = call[c].op /\ x.pc = "again" /\ x.seen = call[c].seen /\ x.stale = call[c].stale
      BY <1>0 DEF Calls
    <2>2. call' = [call EXCEPT ![c] = x]
      BY <1>3 DEF Lock, Goto, LinkInv, TypeOK
    <2>3. Sound(record, x)
      BY <1>0, <1>3, <2>1 DEF Sound, Bound, Lock, Ops
    <2>4. QED
      BY <1>0, <1>3, <2>1, <2>2, <2>3, OneMoves DEF Lock, Active
  <1>4. CASE ServeAgain(c)
    <2>1. CASE End(c)
      BY <1>0, <1>4, <2>1, OneEnds DEF ServeAgain
    <2>2. CASE Goto(c, "get")
      <3> DEFINE x == [call[c] EXCEPT !.pc = "get"]
      <3>1. /\ x.op = call[c].op /\ x.pc = "get" /\ x.seen = call[c].seen /\ x.stale = call[c].stale
        BY <1>0 DEF Calls
      <3>2. call' = [call EXCEPT ![c] = x]
        BY <2>2 DEF Goto, LinkInv, TypeOK
      <3>3. Sound(record, x)
        BY <1>0, <1>4, <3>1 DEF Sound, Bound, ServeAgain, Ops
      <3>4. QED
        BY <1>0, <1>4, <3>1, <3>2, <3>3, OneMoves DEF ServeAgain, Active
    <2>3. QED
      BY <1>4, <2>1, <2>2 DEF ServeAgain
  <1>5. CASE GetLink(c)
    <2>1. CASE End(c)
      BY <1>0, <1>5, <2>1, OneEnds DEF GetLink
    <2>2. CASE HasLink /\ call' = [call EXCEPT ![c].pc = "redeem", ![c].arg = record.link]
      <3> DEFINE x == [call[c] EXCEPT !.pc = "redeem", !.arg = record.link]
      <3>1. /\ x.op = call[c].op /\ x.pc = "redeem" /\ x.seen = call[c].seen /\ x.stale = call[c].stale
            /\ x.arg = record.link
        BY <1>0 DEF Calls
      <3>2. call' = [call EXCEPT ![c] = x]
        BY <2>2 DEF LinkInv, TypeOK
      <3>3. Sound(record, x)
        BY <1>0, <1>5, <2>2, <3>1 DEF Sound, Bound, GetLink, HasLink, Ops
      <3>4. QED
        BY <1>0, <1>5, <3>1, <3>2, <3>3, OneMoves DEF GetLink, Active
    <2>3. QED
      BY <1>5, <2>1, <2>2 DEF GetLink
  <1>6. CASE Redeem(c)
    <2>1. CASE End(c)
      BY <1>0, <1>6, <2>1, OneEnds DEF Redeem
    <2>2. CASE call' = [call EXCEPT ![c].pc = "read", ![c].job = IF call[c].op = "link" THEN "link" ELSE "token"]
      <3> DEFINE j == IF call[c].op = "link" THEN "link" ELSE "token"
                 x == [call[c] EXCEPT !.pc = "read", !.job = j]
      <3>1. /\ x.op = call[c].op /\ x.pc = "read" /\ x.seen = call[c].seen /\ x.stale = call[c].stale
            /\ x.arg = call[c].arg /\ x.crossed = call[c].crossed /\ x.job = j
        BY <1>0 DEF Calls
      <3>2. call' = [call EXCEPT ![c] = x]
        BY <2>2 DEF LinkInv, TypeOK
      <3>3. Sound(record, x)
        BY <1>0, <1>6, <3>1 DEF Sound, Bound, Redeem, Ops
      <3>4. QED
        BY <1>0, <1>6, <3>1, <3>2, <3>3, OneMoves DEF Redeem, Active
    <2>3. CASE call[c].op # "link" /\ Goto(c, "drop")
      <3> DEFINE x == [call[c] EXCEPT !.pc = "drop"]
      <3>1. /\ x.op = call[c].op /\ x.pc = "drop" /\ x.seen = call[c].seen /\ x.stale = call[c].stale
            /\ x.arg = call[c].arg /\ x.crossed = call[c].crossed
        BY <1>0 DEF Calls
      <3>2. call' = [call EXCEPT ![c] = x]
        BY <2>3 DEF Goto, LinkInv, TypeOK
      <3>3. Sound(record, x)
        BY <1>0, <1>6, <2>3, <3>1 DEF Sound, Bound, Redeem, Ops
      <3>4. QED
        BY <1>0, <1>6, <3>1, <3>2, <3>3, OneMoves DEF Redeem, Active
    <2>4. QED
      BY <1>6, <2>1, <2>2, <2>3 DEF Redeem
  <1>7. CASE DropLink(c)
    <2>1. word' \in {Null, "unlinked"} /\ (word' # Null => word # Null)
      BY <1>7, UnlinkedAssumption DEF DropLink
    <2>2. QED
      BY <1>7, <2>1, DeletedSound DEF DropLink, LinkInv, WordOK
  <1>8. CASE Probe(c)
    <2>1. CASE End(c)
      BY <1>0, <1>8, <2>1, OneEnds DEF Probe
    <2>2. CASE record # Null /\ call' = [call EXCEPT ![c].pc = "read", ![c].job = "clear"]
      <3> DEFINE x == [call[c] EXCEPT !.pc = "read", !.job = "clear"]
      <3>1. /\ x.op = call[c].op /\ x.pc = "read" /\ x.seen = call[c].seen /\ x.stale = call[c].stale
            /\ x.job = "clear"
        BY <1>0 DEF Calls
      <3>2. call' = [call EXCEPT ![c] = x]
        BY <2>2 DEF LinkInv, TypeOK
      <3>3. Sound(record, x)
        BY <1>0, <1>8, <2>2, <3>1 DEF Sound, Bound, Probe, Ops
      <3>4. QED
        BY <1>0, <1>8, <3>1, <3>2, <3>3, OneMoves DEF Probe, Active
    <2>3. QED
      BY <1>8, <2>1, <2>2 DEF Probe
  <1>9. CASE Delete(c)
    <2>1. word = Null
      BY <1>0, <1>9 DEF Delete, LinkInv, WordOK, Claiming, Active, Sound, Ops
    <2>2. QED
      BY <1>9, <2>1, DeletedSound DEF Delete, Alone
  <1>10. CASE Check(c)
    <2>1. call[c].op = "link" /\ word = Null
      BY <1>0, <1>10 DEF Check, LinkInv, WordOK, Claiming, Active, Sound, Ops
    <2>2. /\ \A d \in Call \ {c} : call'[d] = call[d]
          /\ call'[c] = Idle
      BY <1>10 DEF Check, End, LinkInv, TypeOK
    <2>3. record' = record
      BY <1>10 DEF Check
    <2>4. AllSound'
      BY <2>2, <2>3, IdleSound DEF LinkInv, AllSound
    <2>5. \/ word' = Null
          \/ word' = call[c].arg /\ Alone(c) /\ ~call[c].crossed
      BY <1>10, <2>1 DEF Check
    <2>6. WordOK'
      BY <2>2, <2>5, IdleType DEF WordOK, Alone, Claiming, Active
    <2>7. word' # "unlinked"
      BY <1>0, <2>5, UnlinkedAssumption DEF Calls
    <2>8. AckedLinkKept'
      BY <1>0, <1>10, <2>1, <2>3, <2>5, NullAssumption DEF AckedLinkKept, Sound, Bound, Check
    <2>9. QED
      BY <1>0, <2>3, <2>4, <2>6, <2>7, <2>8 DEF LinkInv, UnlinkSticks, TokenOfLink
  <1>11. CASE CasRead(c)
    <2> DEFINE x == [call[c] EXCEPT !.pc = "write", !.seen = record]
    <2>1. /\ x.op = call[c].op /\ x.pc = "write" /\ x.seen = record /\ x.stale = call[c].stale
          /\ x.arg = call[c].arg /\ x.crossed = call[c].crossed /\ x.job = call[c].job
      BY <1>0 DEF Calls
    <2>2. call' = [call EXCEPT ![c] = x]
      BY <1>11 DEF CasRead, LinkInv, TypeOK
    <2>3. ~call[c].stale /\ (record # Null => record.ver \in Nat)
      BY <1>0, <1>11 DEF Sound, CasRead, TypeOK, Records
    <2> HIDE DEF x
    <2>4. Sound(record, x)
      BY <1>0, <1>11, <2>1, <2>3 DEF Sound, Bound, CasRead
    <2>5. QED
      BY <1>0, <1>11, <2>1, <2>2, <2>4, OneMoves DEF CasRead, Active
  <1>12. CASE CasWrite(c)
    BY <1>0, <1>12, LinkWritten, HalfWritten
  <1>13. CASE CasConflict(c)
    <2>1. CASE End(c)
      BY <1>0, <1>13, <2>1, OneEnds DEF CasConflict
    <2>2. CASE /\ MayRetry(c)
               /\ call' = [call EXCEPT ![c].pc = "read", ![c].seen = Null, ![c].stale = FALSE, ![c].tries = @ + 1]
      <3> DEFINE x == [call[c] EXCEPT !.pc = "read", !.seen = Null, !.stale = FALSE, !.tries = @ + 1]
      <3>1. /\ x.op = call[c].op /\ x.pc = "read" /\ x.seen = Null /\ ~x.stale
            /\ x.arg = call[c].arg /\ x.crossed = call[c].crossed /\ x.job = call[c].job
        BY <1>0 DEF Calls
      <3>2. call' = [call EXCEPT ![c] = x]
        BY <2>2 DEF LinkInv, TypeOK
      <3> HIDE DEF x
      <3>3. Sound(record, x)
        BY <1>0, <1>13, <3>1 DEF Sound, Bound, CasConflict
      <3>4. QED
        BY <1>0, <1>13, <3>1, <3>2, <3>3, OneMoves DEF CasConflict, Active
    <2>3. QED
      BY <1>13, <2>1, <2>2 DEF CasConflict
  <1>14. QED
    BY <1>1, <1>2, <1>3, <1>4, <1>5, <1>6, <1>7, <1>8, <1>9, <1>10, <1>11, <1>12, <1>13 DEF Step

LEMMA NextInv ==
  ASSUME LinkInv, [Next]_vars
  PROVE  LinkInv'
  <1>0. TypeOK /\ TypeOK'
    BY NextType DEF LinkInv
  <1>1. ASSUME NEW c \in Call, Step(c) PROVE LinkInv'
    BY <1>1, StepInv
  <1>2. ASSUME NEW c \in Call, Fail(c) PROVE LinkInv'
    BY <1>0, <1>2, OneEnds DEF Fail
  <1>3. ASSUME NEW c \in Call, NEW op \in Ops, NEW r \in Replica, NEW given \in Refresh \cup {Null},
               Arrive(c, op, r, given)
        PROVE  LinkInv'
    <2> DEFINE x == [Idle EXCEPT !.op = op, !.on = r, !.pc = Entry[op], !.arg = given]
    <2>1. /\ x.op = op /\ x.pc = Entry[op] /\ x.seen = Null /\ ~x.stale
      BY DEF Idle
    <2>2. \A d \in Call : call'[d] = IF d = c THEN x ELSE call[d]
      BY <1>0, <1>3 DEF Arrive, TypeOK
    <2>3. record' = record /\ (word' = word \/ word' = Null) /\ (op \in {"link", "unlink"} => word' = Null)
      BY <1>3 DEF Arrive
    <2> HIDE DEF x
    <2>4. Sound(record, x)
      BY <2>1 DEF Sound, Bound, Entry, Ops
    <2>5. AllSound'
      BY <2>2, <2>3, <2>4 DEF LinkInv, AllSound
    <2>6. WordOK'
      BY <2>1, <2>2, <2>3 DEF LinkInv, WordOK, Claiming, Active
    <2>7. QED
      BY <1>0, <2>3, <2>5, <2>6, NullAssumption, UnlinkedAssumption
         DEF LinkInv, UnlinkSticks, AckedLinkKept, TokenOfLink
  <1>4. CASE TokenAges
    <2>1. /\ record \in Records /\ record' \in Records /\ record' # Null /\ record # Null
          /\ record'.ver = record.ver /\ record'.link = record.link /\ record'.tok = record.tok
          /\ record'.mixed = record.mixed /\ record'.back = record.back
      BY <1>0, <1>4, RecordAssumption DEF TokenAges, Servable, TypeOK, Records
    <2>2. call' = call /\ word' = word
      BY <1>4 DEF TokenAges
    <2>3. \A c \in Call : Sound(record', call[c])
      BY <2>1 DEF LinkInv, AllSound, Sound
    <2>4. AllSound' /\ WordOK'
      BY <2>2, <2>3 DEF LinkInv, AllSound, WordOK, Claiming, Active
    <2>5. QED
      BY <1>0, <2>1, <2>2, <2>4 DEF LinkInv, UnlinkSticks, AckedLinkKept, TokenOfLink
  <1>5. CASE (\E x \in Refresh : Withdraw(x)) \/ UNCHANGED vars
    <2>1. UNCHANGED <<record, call, word>>
      BY <1>5 DEF Withdraw, vars
    <2>2. QED
      BY <1>0, <2>1 DEF LinkInv, AllSound, WordOK, Claiming, Active, UnlinkSticks, AckedLinkKept, TokenOfLink
  <1>6. QED
    BY <1>1, <1>2, <1>3, <1>4, <1>5 DEF Next

LEMMA InitInv == Init => LinkInv
  <1> SUFFICES ASSUME Init PROVE LinkInv
    OBVIOUS
  <1>1. \A c \in Call : call[c] = Idle
    BY DEF Init
  <1>2. AllSound
    BY <1>1, IdleSound DEF AllSound
  <1>3. WordOK
    BY <1>1, IdleType DEF WordOK, Claiming, Active
  <1>4. UnlinkSticks /\ AckedLinkKept /\ TokenOfLink
    <2>1. CASE record = Null
      BY <2>1, UnlinkedAssumption DEF Init, UnlinkSticks, AckedLinkKept, TokenOfLink
    <2>2. CASE record # Null
      <3>1. record \in [ver : {1}, link : {First}, tok : {First}, fresh : BOOLEAN, mixed : {FALSE}, back : {FALSE}]
        BY <2>2, Zenon DEF Init
      <3>2. record.link = First /\ record.tok = First
        BY <3>1
      <3>3. word = record.link
        BY <2>2, Zenon DEF Init
      <3>4. QED
        BY <2>2, <3>2, <3>3, FirstAssumption, UnlinkedAssumption DEF UnlinkSticks, AckedLinkKept, TokenOfLink
    <2>3. QED
      BY <2>1, <2>2
  <1>5. QED
    BY <1>2, <1>3, <1>4, InitType DEF LinkInv

LEMMA LinkInvariant == Spec => []LinkInv
  BY InitInv, NextInv, PTL DEF Spec

(* After an answered unlink and until the next link, what a request that   *)
(* was under way stores has no link half, or is a record brought back.     *)
THEOREM StaysUnlinked == Spec => []UnlinkSticks
  <1>1. LinkInv => UnlinkSticks
    BY DEF LinkInv
  <1>2. QED
    BY <1>1, LinkInvariant, PTL

(* A link the user was told of keeps its refresh token through whatever    *)
(* redemptions and revocations began before it.                            *)
THEOREM LinkStays == Spec => []AckedLinkKept
  <1>1. LinkInv => AckedLinkKept
    BY DEF LinkInv
  <1>2. QED
    BY <1>1, LinkInvariant, PTL

(* Only a redemption that began before the link leaves its access token    *)
(* beside the refresh token of another account.                            *)
THEOREM TokenStaysOfLink == Spec => []TokenOfLink
  <1>1. LinkInv => TokenOfLink
    BY DEF LinkInv
  <1>2. QED
    BY <1>1, LinkInvariant, PTL

=============================================================================

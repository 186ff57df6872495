---------------------------- MODULE ServiceXLink ----------------------------
(***************************************************************************)
(* One user's ServiceX identity: the Vault record of servicex_vault.py (a  *)
(* link half, the refresh token the user pasted, and a token half, the     *)
(* access token redeemed with it), the provider of servicex.py, and the    *)
(* routes that call it: mint, redeem, link, revoke and unlink.             *)
(*                                                                         *)
(* Requests run on several replicas.  Every access to Vault or to ServiceX *)
(* is an await, so a step of its own.  A write is a read-modify-write under*)
(* check-and-set; Vault numbers the versions of a record from 1 again once *)
(* its metadata is deleted.  The single-flight lock of get_or_mint is kept *)
(* by a replica for itself, and only a mint takes it.                      *)
(*                                                                         *)
(* An access token is named after the refresh token it was redeemed with.  *)
(* The two validity margins callers ask for (300 s and none) are one:      *)
(* "fresh" means enough is left.                                           *)
(***************************************************************************)
EXTENDS Naturals, FiniteSets

CONSTANTS
  Refresh,      \* ServiceX refresh tokens the user may paste
  First,        \* the one an identity already linked was linked with
  Replica,      \* broker replicas
  Call,         \* request slots, a set of numbers
  Null,         \* no value
  CasAttempts,  \* _CAS_ATTEMPTS
  MaxMoves      \* bound: requests, expiries, withdrawals and failures

ASSUME FirstAssumption == First \in Refresh
ASSUME NullAssumption == Null \notin Refresh /\ Null \notin Call
ASSUME ReplicaAssumption == Replica # {}
ASSUME CallAssumption == Call \subseteq Nat
ASSUME AttemptsAssumption == CasAttempts \in Nat \ {0} /\ MaxMoves \in Nat
ASSUME UnlinkedAssumption == "unlinked" \notin Refresh /\ Null # "unlinked"

VARIABLES
  record,    \* Vault: [ver, link, tok, fresh, mixed, back], or Null
  good,      \* refresh tokens ServiceX accepts
  lock,      \* each replica's single-flight lock: the call that holds it, or Null
  call,      \* the requests
  word,      \* history: what the user was last told, a refresh token or "unlinked"
  moves

vars == <<record, good, lock, call, word, moves>>

Ops == {"issue", "redeem", "link", "revoke", "unlink"}
Points == {"idle", "serve", "linked", "lock", "again", "get", "redeem", "read",
           "write", "drop", "probe", "delete", "check"}
Records == [ver : Nat \ {0}, link : Refresh \cup {Null}, tok : Refresh \cup {Null},
            fresh : BOOLEAN, mixed : BOOLEAN, back : BOOLEAN]
ASSUME RecordAssumption == Null \notin Records

(* arg is the refresh token in hand, job the write under way, seen the     *)
(* record that write read.  History of a call: crossed, since it began the *)
(* record was deleted or its link half replaced; stale, the record it has  *)
(* read for its write was deleted.  History of a record: mixed, a crossed  *)
(* call has written its token half; back, a stale one found the version    *)
(* number it had read, on a record made since.                             *)
Idle == [op |-> "issue", on |-> CHOOSE r \in Replica : TRUE, pc |-> "idle", arg |-> Null,
         job |-> "token", seen |-> Null, tries |-> 0, crossed |-> FALSE, stale |-> FALSE]

Calls == [op : Ops, on : Replica, pc : Points, arg : Refresh \cup {Null},
          job : {"link", "token", "clear"}, seen : Records \cup {Null},
          tries : 0 .. CasAttempts - 1, crossed : BOOLEAN, stale : BOOLEAN]

Active(c) == call[c].pc # "idle"
Claiming(c) == Active(c) /\ call[c].op \in {"link", "unlink"}
Alone(c) == \A d \in Call \ {c} : ~Claiming(d)

Move == moves < MaxMoves /\ moves' = moves + 1
At(c, point) == call[c].pc = point /\ UNCHANGED moves
Goto(c, point) == call' = [call EXCEPT ![c].pc = point]

(* Mutant of Unlocked: the exit on an error of the ServiceX service.       *)
LockedIfFailed(c) ==
  [r \in Replica |-> IF lock[r] = c /\ call[c].pc # "redeem" THEN Null ELSE lock[r]]

Unlocked(c) == [r \in Replica |-> IF lock[r] = c THEN Null ELSE lock[r]]
End(c) == call' = [call EXCEPT ![c] = Idle] /\ lock' = Unlocked(c)

(* What the other calls become when c deletes the record or replaces its   *)
(* link half.                                                              *)
Crossing(c, after) ==
  [d \in Call |-> IF d = c THEN after
                  ELSE IF Active(d) THEN [call[d] EXCEPT !.crossed = TRUE] ELSE call[d]]

Deleted(c) ==
  /\ record' = Null
  /\ call' = [d \in Call |-> [Crossing(c, Idle)[d] EXCEPT !.stale = d # c /\ call[d].seen # Null]]
  /\ lock' = Unlocked(c)

---------------------------------------------------------------------------
(* The routes                                                              *)

Entry == [issue |-> "serve", redeem |-> "serve", link |-> "redeem", revoke |-> "probe",
          unlink |-> "delete"]

(* A request takes the first free slot.  Where it runs matters to the lock *)
(* only, and only beside another (the replicas are alike).                 *)
Arrive(c, op, r, given) ==
  /\ Move /\ ~Active(c) /\ \A d \in Call : d < c => Active(d)
  /\ (given # Null) <=> (op = "link")
  /\ r # Idle.on => op = "issue" /\ \E d \in Call : Active(d)
  /\ call' = [call EXCEPT ![c] = [Idle EXCEPT !.op = op, !.on = r, !.pc = Entry[op], !.arg = given]]
  /\ word' = IF op \in {"link", "unlink"} THEN Null ELSE word
  /\ UNCHANGED <<record, good, lock>>

Servable == record # Null /\ record.tok # Null /\ record.fresh
HasLink == record # Null /\ record.link # Null

(* issue() serves the stored token, and again once it has the lock; the    *)
(* redeem route asks once and takes no lock.                               *)
Serve(c) ==
  /\ At(c, "serve")
  /\ IF Servable THEN End(c)
     ELSE Goto(c, IF call[c].op = "issue" THEN "linked" ELSE "get") /\ UNCHANGED lock
  /\ UNCHANGED <<record, good, word>>

Linked(c) ==
  /\ At(c, "linked")
  /\ IF HasLink THEN Goto(c, "lock") /\ UNCHANGED lock ELSE End(c)
  /\ UNCHANGED <<record, good, word>>

Lock(c) ==
  /\ At(c, "lock") /\ lock[call[c].on] = Null
  /\ lock' = [lock EXCEPT ![call[c].on] = c]
  /\ Goto(c, "again")
  /\ UNCHANGED <<record, good, word>>

ServeAgain(c) ==
  /\ At(c, "again")
  /\ IF Servable THEN End(c) ELSE Goto(c, "get") /\ UNCHANGED lock
  /\ UNCHANGED <<record, good, word>>

(* redeem_from_link: the link half, the redemption, then the token half or *)
(* the deletion of a rejected link.                                        *)
GetLink(c) ==
  /\ At(c, "get")
  /\ IF HasLink
     THEN call' = [call EXCEPT ![c].pc = "redeem", ![c].arg = record.link] /\ UNCHANGED lock
     ELSE End(c)
  /\ UNCHANGED <<record, good, word>>

Redeem(c) ==
  /\ At(c, "redeem")
  /\ LET linking == call[c].op = "link" IN
     IF call[c].arg \in good
     THEN /\ call' = [call EXCEPT ![c].pc = "read", ![c].job = IF linking THEN "link" ELSE "token"]
          /\ UNCHANGED lock
     ELSE IF linking THEN End(c) ELSE Goto(c, "drop") /\ UNCHANGED lock
  /\ UNCHANGED <<record, good, word>>

(* The user is told to link again.                                         *)
DropLink(c) ==
  /\ At(c, "drop")
  /\ Deleted(c)
  /\ word' = IF word = "unlinked" THEN word ELSE Null
  /\ UNCHANGED good

(* Mutant of Probe: without a record there is one to clear all the same.   *)
ProbeSkipped(c) ==
  /\ At(c, "probe")
  /\ call' = [call EXCEPT ![c].pc = "read", ![c].job = "clear"]
  /\ UNCHANGED <<record, good, lock, word>>

Probe(c) ==
  /\ At(c, "probe")
  /\ IF record = Null THEN End(c)
     ELSE call' = [call EXCEPT ![c].pc = "read", ![c].job = "clear"] /\ UNCHANGED lock
  /\ UNCHANGED <<record, good, word>>

Delete(c) ==
  /\ At(c, "delete")
  /\ Deleted(c)
  /\ word' = IF Alone(c) THEN "unlinked" ELSE word
  /\ UNCHANGED good

(* The link route reads the token back for its answer.                     *)
Check(c) ==
  /\ At(c, "check")
  /\ word' = IF Alone(c) /\ ~call[c].crossed /\ Servable THEN call[c].arg ELSE word
  /\ End(c)
  /\ UNCHANGED <<record, good>>

---------------------------------------------------------------------------
(* _write_cas_retry                                                        *)

Ver(rec) == IF rec = Null THEN 0 ELSE rec.ver

Empty == [ver |-> 0, link |-> Null, tok |-> Null, fresh |-> FALSE, mixed |-> FALSE, back |-> FALSE]

(* Mutant of Relinked: the link half is merged like the token half.        *)
RelinkedMerged(base, ref) == [base EXCEPT !.link = ref]

Relinked(base, ref) == [Empty EXCEPT !.link = ref]

(* What store_link, store_token and clear_token make of the record read.   *)
Built(c) ==
  LET base == IF call[c].seen = Null THEN Empty ELSE call[c].seen
      made == CASE call[c].job = "link" -> Relinked(base, call[c].arg)
                [] call[c].job = "token" -> [base EXCEPT !.tok = call[c].arg, !.fresh = TRUE]
                [] call[c].job = "clear" -> [base EXCEPT !.tok = Null, !.fresh = FALSE]
  IN  [made EXCEPT !.ver = base.ver + 1,
                   !.mixed = call[c].job # "link" /\ (@ \/ call[c].crossed),
                   !.back = call[c].job # "link" /\ (@ \/ call[c].stale)]

CasRead(c) ==
  /\ At(c, "read")
  /\ call' = [call EXCEPT ![c].pc = "write", ![c].seen = record]
  /\ UNCHANGED <<record, good, lock, word>>

(* Mutant of Unchanged: a write without check-and-set.                     *)
AnyVersion(c) == TRUE

(* Vault takes the write if the version is still the one read.             *)
Unchanged(c) == Ver(record) = Ver(call[c].seen)

CasWrite(c) ==
  /\ At(c, "write") /\ Unchanged(c)
  /\ record' = Built(c)
  /\ CASE call[c].job = "link" ->
            /\ call' = Crossing(c, 
                     [call[c] EXCEPT !.pc = "read", !.job = "token", !.seen = Null, !.stale = FALSE, !.tries = 0])
            /\ UNCHANGED lock
       [] call[c].job = "token" /\ call[c].op = "link" ->
            /\ call' = [call EXCEPT ![c].pc = "check", ![c].seen = Null, ![c].stale = FALSE, ![c].tries = 0]
            /\ UNCHANGED lock
       [] OTHER -> End(c)
  /\ UNCHANGED <<good, word>>

(* Mutant of MayRetry: the last attempt is retried too.                    *)
MayRetryLast(c) == call[c].tries < CasAttempts

MayRetry(c) == call[c].tries + 1 < CasAttempts

CasConflict(c) ==
  /\ At(c, "write") /\ ~Unchanged(c)
  /\ IF MayRetry(c)
     THEN call' = [call EXCEPT ![c].pc = "read", ![c].seen = Null, ![c].stale = FALSE, ![c].tries = @ + 1] /\ UNCHANGED lock
     ELSE End(c)
  /\ UNCHANGED <<record, good, word>>

---------------------------------------------------------------------------
(* What happens around the broker                                          *)

(* Vault or ServiceX is unreachable, or the replica goes down.             *)
Fail(c) ==
  /\ Move /\ Active(c)
  /\ End(c)
  /\ UNCHANGED <<record, good, word>>

TokenAges ==
  /\ Move /\ Servable
  /\ record' = [record EXCEPT !.fresh = FALSE]
  /\ UNCHANGED <<good, lock, call, word>>

(* The user withdraws a refresh token at ServiceX.                         *)
Withdraw(x) ==
  /\ Move /\ x \in good
  /\ good' = good \ {x}
  /\ UNCHANGED <<record, lock, call, word>>

---------------------------------------------------------------------------
Init ==
  /\ \/ record = Null
     \/ record \in [ver : {1}, link : {First}, tok : {First}, fresh : BOOLEAN,
                    mixed : {FALSE}, back : {FALSE}]
  /\ good = Refresh
  /\ lock = [r \in Replica |-> Null]
  /\ call = [c \in Call |-> Idle]
  /\ word = IF record = Null THEN "unlinked" ELSE record.link
  /\ moves = 0

Step(c) ==
  \/ Serve(c) \/ Linked(c) \/ Lock(c) \/ ServeAgain(c) \/ GetLink(c) \/ Redeem(c) \/ DropLink(c)
  \/ Probe(c) \/ Delete(c) \/ Check(c) \/ CasRead(c) \/ CasWrite(c) \/ CasConflict(c)

Next ==
  \/ \E c \in Call : Step(c) \/ Fail(c)
  \/ \E c \in Call, op \in Ops, r \in Replica, given \in Refresh \cup {Null} : Arrive(c, op, r, given)
  \/ TokenAges
  \/ \E x \in Refresh : Withdraw(x)

Spec == Init /\ [][Next]_vars

(* The event loop runs every request whose await has completed, and an     *)
(* unanswered call to Vault or ServiceX times out.                         *)
Fairness == \A c \in Call : WF_vars(Step(c))

FairSpec == Spec /\ Fairness

---------------------------------------------------------------------------
(* The shape of every variable; no write is attempted once too often.      *)
TypeOK ==
  /\ record \in Records \cup {Null}
  /\ good \subseteq Refresh
  /\ lock \in [Replica -> Call \cup {Null}]
  /\ call \in [Call -> Calls]
  /\ word \in Refresh \cup {Null, "unlinked"}
  /\ moves \in 0 .. MaxMoves

(* DELETE /v1/identities/link/servicex has answered and no link request has*)
(* come since: what is stored again is a token half that a request already *)
(* past its reads wrote (store_token and clear_token create a record that  *)
(* is gone), or a record read before and written back onto such a one.     *)
UnlinkSticks ==
  word = "unlinked" => record = Null \/ record.back \/ (record.mixed /\ record.link = Null)

(* A link the user was told of is neither lost nor replaced: redemptions   *)
(* and revocations that began before it merge into it, retrying their      *)
(* write.  The exception is a record brought back; and whom ServiceX has   *)
(* rejected a refresh token is told to link again, be it that of an earlier*)
(* link.                                                                   *)
AckedLinkKept == word \in Refresh => record # Null /\ (record.link = word \/ record.back)

(* The access token stored beside a refresh token was redeemed with it,    *)
(* unless the redemption began before the link: store_link leaves no token *)
(* of the account linked before.                                           *)
TokenOfLink ==
  record # Null /\ ~record.mixed /\ ~record.back /\ record.tok # Null => record.tok = record.link

(* Every request is answered: no exit of a mint leaves the single-flight   *)
(* lock held, for the mints behind it would wait for ever.                 *)
IssueEnds == \A c \in Call : Active(c) ~> ~Active(c)

=============================================================================

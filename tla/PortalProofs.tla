---------------------------- MODULE PortalProofs ----------------------------
(***************************************************************************)
(* Proofs about Portal for any number of people, request slots, tokens and *)
(* events: every safety property the runs check on the small instance.     *)
(*                                                                         *)
(* TypeInv carries the types and what the state of a request says of its   *)
(* other fields.  On it rest four invariants, each about one answer that   *)
(* is under way: OwnInv (whose answer it is), FreshInv (what a snapshot    *)
(* may miss), CardInv and ChipInv (what a card will show once the answer   *)
(* is in) and ListInv (what a list or a token's answer may still say).     *)
(***************************************************************************)
EXTENDS Portal, WellFoundedInduction, TLAPS

---------------------------------------------------------------------------
(* Requests                                                                *)

Modes == {"until-expiry", "auto-renew"}
Rows == [Token -> PatStates]
Ops == IdentityReads \cup SectionOps \cup Writes \cup {"list", "none"}
Args == Modes \cup BOOLEAN \cup Nat \cup Token \cup {Null}
Gots == Snapshots \cup Views \cup Nat \cup Token \cup Rows \cup {Null}

Requests ==
  [op : Ops, arg : Args, who : Subject \cup {Nobody},
   pc : {"idle", "renew", "sent", "reply"}, try : 0 .. 2, ans : Answers,
   got : Gots, live : BOOLEAN, overlap : BOOLEAN, hits : 0 .. 1]

(* The broker has answered, and its answer will count.                     *)
Settled(x) == x.pc = "reply" /\ x.ans \in {"ok", "conflict"}

(* What a request is asked with, by its operation.                         *)
ArgOK(op, arg) ==
  /\ arg \in Args
  /\ op = "x509-link" => arg \in Modes
  /\ op = "krb5-refresh" => arg \in BOOLEAN
  /\ op \in SectionOps => arg \in Nat
  /\ op = "revoke" => arg \in Token

(* What a settled request has got, by its operation.                       *)
GotOK(x) ==
  /\ x.op \in IdentityReads => x.got \in Snapshots /\ x.got.sub = x.who
  /\ x.op \in CardOps => x.got \in Nat
  /\ x.op \in SectionOps => x.got \in Views
  /\ x.op = "tools" => x.got = "tools"
  /\ x.op = "mint" => x.got \in Token
  /\ x.op = "list" => x.got \in Rows
  /\ x.ans = "conflict" => x.op = "krb5-refresh"

(* What the stage of a request says of it: nothing was executed before the *)
(* answer, a renewal follows a refusal, and only a write that had left     *)
(* survives its document.                                                  *)
CallOK(x) ==
  /\ x.op = "none" <=> x.pc = "idle"
  /\ ArgOK(x.op, x.arg)
  /\ x.pc = "idle" => ~x.live
  /\ x.pc \in {"renew", "sent"} =>
       /\ x.hits = 0 /\ x.who \in Subject
       /\ x.ans \in {"none"} \cup Refusals
  /\ x.pc = "renew" => x.live /\ x.try <= 1 /\ (x.try = 1 => x.ans \in Refusals)
  /\ x.pc = "sent" => x.try >= 1 /\ (~x.live => x.op \in Writes)
  /\ x.pc = "reply" => x.live /\ x.ans # "none" /\ (x.ans # "session" => x.who \in Subject)
  /\ Settled(x) => GotOK(x)

CallsOK(calls) ==
  /\ calls \in [Call -> Requests]
  /\ \A c \in Call : CallOK(calls[c])

---------------------------------------------------------------------------
(* The invariants                                                          *)

Sections ==
  [open : BOOLEAN, seq : Nat, loading : BOOLEAN, view : Views \cup {Null},
   asked : Nat, overlap : BOOLEAN]

(* A card's requests come from a page that has its cards, and the page     *)
(* keeps the identities it has once shown.                                 *)
PhaseOK ==
  /\ phase \in {"new", "loading", "ready", "failed"}
  /\ phase # "new" => page = "identities"
  /\ phase = "ready" => shown \in Account
  /\ sec.view = "active" => phase = "ready" /\ user.sub \in Subject
  /\ \A c \in Call : call[c].live =>
       /\ call[c].who = user.sub
       /\ call[c].op \in CardOps \cup {"status"} => phase = "ready"
       /\ call[c].op = "load" => phase = "loading"
  /\ \A c, d \in Call :
       call[c].live /\ call[d].live /\ call[c].op = "load" /\ call[d].op = "load" => c = d

TypeInv ==
  /\ TypeOK
  /\ CallsOK(call)
  /\ sec \in Sections
  /\ pat \in [Token -> [own : Subject \cup {Nobody}, state : PatStates]]
  /\ landed \in BOOLEAN
  /\ PhaseOK

(* A page that shows itself has a user, and the snapshot is his.           *)
OwnInv ==
  /\ Open => user.sub # Nobody
  /\ \A c \in Call : call[c].live /\ call[c].op = "nav" => Open
  /\ cache # Null => cache.sub = user.sub \/ user.sub = Nobody

(* A snapshot is of the past, agrees with the broker if nothing changed    *)
(* since, and misses no change that was told before it was asked for.      *)
Faithful(s, overlap) ==
  /\ s.rev <= rev[s.sub]
  /\ s.rev = rev[s.sub] => s.data = acct[s.sub]
  /\ ~overlap => s.rev >= acked[s.sub]

FreshInv ==
  /\ \A s \in Subject : acked[s] <= rev[s]
  /\ cache # Null => Faithful(cache, cache.overlap)
  /\ \A c \in Call : Settled(call[c]) =>
       /\ call[c].op \in IdentityReads => Faithful(call[c].got, call[c].overlap)
       /\ call[c].op \in CardOps => call[c].got <= rev[call[c].who]

---------------------------------------------------------------------------
(* The cards.  A landing request is one the broker has executed and the    *)
(* page has yet to show.  A card says of an account what its Face is, and  *)
(* a request turns it: the broker's face at once, the page's when the      *)
(* answer is in.                                                           *)

Waits(x, ops) == x.live /\ x.op \in ops
Lands(x, ops) == Waits(x, ops) /\ Settled(x)
OneOf(calls, ops) ==
  \A c, d \in Call : Waits(calls[c], ops) /\ Waits(calls[d], ops) => c = d

Face(card, a) ==
  CASE card = "x509" -> <<a.x509, a.proxy>>
    [] card = "krb5" -> IF a.krb5 = "keytab" THEN "keytab" ELSE "no keytab"
    [] card = "iam"  -> a.iam

Turned(x, face) ==
  CASE x.op = "x509-link"    -> <<x.arg, TRUE>>
    [] x.op = "x509-revoke"  -> <<IF face[1] = "until-expiry" THEN "none" ELSE face[1], FALSE>>
    [] x.op = "krb5-refresh" -> IF x.ans = "conflict" /\ x.arg THEN "no keytab" ELSE face
    [] x.op = "krb5-keytab"  -> "keytab"
    [] x.op = "krb5-forget"  -> "no keytab"
    [] x.op = "unlink"       -> FALSE

OpsOf(card) == CASE card = "x509" -> X509Ops [] card = "krb5" -> Krb5Ops [] card = "iam" -> {"unlink"}
Groups == {X509Ops, TicketOps, {"krb5-keytab"}, {"unlink"}}

(* s is what the page shows, a the user's account at the broker.           *)
CardOK(card, calls, s, a) ==
  /\ OneOf(calls, OpsOf(card))
  /\ (\A c \in Call : ~Lands(calls[c], OpsOf(card))) => Face(card, s) = Face(card, a)
  /\ \A c \in Call : Lands(calls[c], OpsOf(card)) => Turned(calls[c], Face(card, s)) = Face(card, a)

(* A refresh remembers whether a keytab was linked.                        *)
RefreshOK(calls, s) ==
  \A c \in Call : Waits(calls[c], {"krb5-refresh"}) => (calls[c].arg <=> s.krb5 = "keytab")

CardInv ==
  /\ \A ops \in Groups : OneOf(call, ops)
  /\ phase = "ready" /\ user.sub \in Subject =>
       \A card \in Cards \ unsure : CardOK(card, call, shown, acct[user.sub])
  /\ phase = "ready" /\ "krb5" \notin unsure => RefreshOK(call, shown)

(* Whatever says active, the section or a status under way, is right, or a *)
(* revocation is about to correct it.                                      *)
Claims(x) == Lands(x, {"status"}) /\ x.got = "active" /\ ~x.overlap
Claimed == (sec.view = "active" /\ ~sec.overlap) \/ \E c \in Call : Claims(call[c])
RevokeLands == \E c \in Call : Lands(call[c], {"x509-revoke"})

ChipInv ==
  phase = "ready" /\ "x509" \notin unsure /\ Claimed => acct[user.sub].proxy \/ RevokeLands

---------------------------------------------------------------------------
(* The tokens (p: the broker's, u: the user, l: what the document was      *)
(* told).  What a document knows of a token is true at the broker, up to a *)
(* later revocation.                                                       *)

Holds(t, state, p, u) == p[t].own = u /\ p[t].state \in {state, "revoked"}
Known(list, p, u) == \A t \in Token : list[t] # "absent" => Holds(t, list[t], p, u)
Current(list, l) == \A t \in Token : l[t] = "absent" \/ list[t] \in {l[t], "revoked"}

Tells(x, p, u, l) ==
  /\ x.op = "revoke" => p[x.arg].state # "absent"
  /\ x.live /\ x.op = "revoke" => Holds(x.arg, "active", p, u)
  /\ x.live /\ Settled(x) =>
       /\ x.op = "revoke" => Holds(x.arg, "revoked", p, u)
       /\ x.op = "mint" => Holds(x.got, "active", p, u)
       /\ x.op = "list" => /\ Known(x.got, p, u)
                           /\ ~x.overlap => Current(x.got, l)

ListInv ==
  /\ Known(rows, pat, user.sub) /\ Known(told, pat, user.sub)
  /\ minted # Null => Holds(minted, "active", pat, user.sub)
  /\ pending # Null => Holds(pending, "active", pat, user.sub)
  /\ listing = "ready" /\ ~outdated => Current(rows, told)
  /\ \A c \in Call : Tells(call[c], pat, user.sub, told)

---------------------------------------------------------------------------
(* The operators on requests                                               *)

Users == {NoUser} \cup [sub : Subject, token : {"live", "expired"}]

(* y is x, but that its answer may have been overtaken.                    *)
Same(x, y) ==
  /\ y.op = x.op /\ y.arg = x.arg /\ y.who = x.who /\ y.pc = x.pc
  /\ y.ans = x.ans /\ y.got = x.got /\ y.live = x.live
  /\ x.overlap => y.overlap

(* Invoke uses a slot that is free.                                        *)
LEMMA SlotIsFree ==
  FreeSlots # {} => NextSlot \in Call /\ call[NextSlot].pc = "idle"
<1> SUFFICES ASSUME FreeSlots # {} PROVE NextSlot \in FreeSlots
  BY DEF FreeSlots
<1>1. FreeSlots \subseteq Nat
  BY CallAssumption DEF FreeSlots
<1>2. \E c \in FreeSlots : \A d \in FreeSlots : ~ (<<d, c>> \in OpToRel(<, Nat))
  BY <1>1, NatLessThanWellFounded, WFMin
<1>3. \E c \in FreeSlots : \A d \in FreeSlots : c <= d
  <2>1. PICK c \in FreeSlots : \A d \in FreeSlots : ~ (<<d, c>> \in OpToRel(<, Nat))
    BY <1>2
  <2>2. ASSUME NEW d \in FreeSlots PROVE c <= d
    <3>1. ~ (d < c)
      BY <2>1, <1>1 DEF OpToRel
    <3> QED BY <3>1, <1>1
  <2> QED BY <2>2
<1> QED BY <1>3 DEF NextSlot

(* A request as it is sent, or refused for want of a user.                 *)
LEMMA StartedOK ==
  ASSUME user \in Users, NEW op \in Ops \ {"none"}, NEW arg, ArgOK(op, arg)
  PROVE  LET x == Started(op, arg)
         IN /\ x \in Requests /\ CallOK(x)
            /\ x.op = op /\ x.arg = arg /\ x.who = user.sub
            /\ x.live /\ ~x.overlap /\ ~Settled(x)
<1> DEFINE x == Started(op, arg)
<1>1. user.sub \in Subject \cup {Nobody} /\ (user.sub = Nobody <=> user = NoUser)
      /\ user.token \in {"none", "live", "expired"}
      /\ (user.token = "none" <=> user = NoUser)
  BY NobodyAssumption DEF Users, NoUser
<1>2. x = [op |-> op, arg |-> arg, who |-> user.sub,
           pc |-> IF user.sub = Nobody THEN "reply"
                  ELSE IF user.token = "expired" THEN "renew" ELSE "sent",
           try |-> IF user.token = "live" THEN 1 ELSE 0,
           ans |-> IF user.sub = Nobody THEN "session" ELSE "none",
           got |-> Null, live |-> TRUE, overlap |-> FALSE, hits |-> 0]
  BY DEF Started
<1>3. arg \in Args /\ op \in Ops /\ Null \in Gots
  BY DEF ArgOK, Gots
<1> HIDE DEF x
<1>4. x \in Requests
  <2>1. /\ x.op \in Ops /\ x.arg \in Args /\ x.who \in Subject \cup {Nobody} /\ x.got \in Gots
        /\ x.pc \in {"idle", "renew", "sent", "reply"} /\ x.ans \in Answers
        /\ x.live = TRUE /\ x.overlap = FALSE /\ x.hits = 0
    BY <1>1, <1>2, <1>3 DEF Answers
  <2>2. x.try \in 0 .. 2 /\ x.hits \in 0 .. 1
    BY <1>2, <2>1
  <2> QED BY <1>2, <2>1, <2>2 DEF Requests
<1>5. CallOK(x) /\ ~Settled(x)
  BY <1>1, <1>2 DEF CallOK, Settled, Refusals
<1> QED BY <1>2, <1>4, <1>5 DEF x

LEMMA IdleCallOK == IdleCall \in Requests /\ CallOK(IdleCall) /\ ~Settled(IdleCall) /\ ~IdleCall.live
BY DEF IdleCall, Requests, CallOK, ArgOK, Settled, Answers, Gots, Args, Ops, SectionOps, Refusals

LEMMA OneChanged ==
  ASSUME NEW calls, CallsOK(calls), NEW c \in Call, NEW x \in Requests, CallOK(x)
  PROVE  CallsOK([calls EXCEPT ![c] = x])
BY DEF CallsOK

LEMMA Asked ==
  ASSUME CallsOK(call), user \in Users, NEW op \in Ops \ {"none"}, NEW arg, ArgOK(op, arg),
         Invoke(op, arg)
  PROVE  /\ CallsOK(call')
         /\ \E n \in Call : call[n].pc = "idle" /\ call' = [call EXCEPT ![n] = Started(op, arg)]
BY SlotIsFree, StartedOK, OneChanged DEF Invoke

(* Telling requests that they were overtaken changes nothing else.         *)
LEMMA MarkOK ==
  ASSUME NEW x \in Requests, CallOK(x)
  PROVE  LET y == [x EXCEPT !.overlap = TRUE] IN y \in Requests /\ CallOK(y) /\ Same(x, y)
<1> DEFINE y == [x EXCEPT !.overlap = TRUE]
<1>1. y \in Requests /\ Same(x, y) /\ y.try = x.try /\ y.hits = x.hits
  BY DEF Requests, Same
<1> HIDE DEF y
<1>2. CallOK(y)
  BY <1>1 DEF CallOK, GotOK, ArgOK, Same, Settled
<1> QED BY <1>1, <1>2 DEF y

LEMMA MarkedOK ==
  ASSUME NEW calls, CallsOK(calls), NEW ops
  PROVE  /\ CallsOK(Missed(calls, ops))
         /\ \A c \in Call : /\ Same(calls[c], Missed(calls, ops)[c])
                            /\ calls[c].op \in ops => Missed(calls, ops)[c].overlap
<1>1. ASSUME NEW c \in Call
      PROVE  /\ Missed(calls, ops)[c] \in Requests /\ CallOK(Missed(calls, ops)[c])
             /\ Same(calls[c], Missed(calls, ops)[c])
             /\ calls[c].op \in ops => Missed(calls, ops)[c].overlap
  <2>1. calls[c] \in Requests /\ CallOK(calls[c])
    BY DEF CallsOK
  <2>2. CASE calls[c].op \in ops
    <3>1. Missed(calls, ops)[c] = [calls[c] EXCEPT !.overlap = TRUE]
      BY <2>2 DEF Missed
    <3>2. [calls[c] EXCEPT !.overlap = TRUE].overlap
      BY <2>1 DEF Requests
    <3> QED BY <2>1, <3>1, <3>2, MarkOK
  <2>3. CASE calls[c].op \notin ops
    BY <2>1, <2>3 DEF Missed, Same
  <2> QED BY <2>2, <2>3
<1>2. Missed(calls, ops) = [c \in Call |-> Missed(calls, ops)[c]]
  BY DEF Missed
<1> QED BY <1>1, <1>2 DEF CallsOK

LEMMA Marks ==
  ASSUME NEW calls
  PROVE  /\ Overlapped(calls) = Missed(calls, IdentityReads)
         /\ ListsMissed(calls) = Missed(calls, {"list"})
BY DEF Overlapped, ListsMissed, Missed

(* An answer on its way back: the request keeps what it was asked, a       *)
(* refusal of the first attempt renews, everything else is for the caller. *)
LEMMA AnswerOK ==
  ASSUME CallsOK(call), NEW c \in Call, call[c].pc = "sent", NEW ans \in Answers \ {"none"}
  PROVE  LET x == call[c]
             y == Answer(c, ans)
         IN /\ y \in Requests
            /\ x.live =>
                 /\ y.op = x.op /\ y.arg = x.arg /\ y.who = x.who /\ y.overlap = x.overlap
                 /\ y.live /\ y.ans = ans /\ y.hits = 0 /\ y.try = x.try /\ y.who \in Subject
                 /\ y.pc \in {"renew", "reply"}
                 /\ y.pc = "renew" => ans \in Refusals /\ y.try = 1
                 /\ ans \notin Refusals => y.pc = "reply"
            /\ ~x.live => y = IdleCall
            /\ ans \notin {"ok", "conflict"} => CallOK(y) /\ ~Settled(y)
<1> DEFINE x == call[c]
           y == Answer(c, ans)
<1>1. x \in Requests /\ CallOK(x)
  BY DEF CallsOK
<1>2. CASE x.live
  <2>1. y = [x EXCEPT !.ans = ans, !.pc = IF ans \in Refusals /\ x.try = 1 THEN "renew" ELSE "reply"]
    BY <1>2 DEF Answer, Delivered
  <2>2. y \in Requests
    BY <1>1, <2>1 DEF Requests
  <2>3. x.hits = 0 /\ x.who \in Subject /\ x.op # "none" /\ ArgOK(x.op, x.arg)
    BY <1>1 DEF CallOK
  <2>4. /\ y.op = x.op /\ y.arg = x.arg /\ y.who = x.who /\ y.overlap = x.overlap
        /\ y.live = x.live /\ y.ans = ans /\ y.hits = 0 /\ y.try = x.try /\ y.got = x.got
        /\ y.pc = IF ans \in Refusals /\ x.try = 1 THEN "renew" ELSE "reply"
    BY <1>1, <2>1, <2>3 DEF Requests
  <2>5. ans \notin {"ok", "conflict"} => CallOK(y) /\ ~Settled(y)
    BY <1>2, <2>3, <2>4 DEF CallOK, Settled
  <2> HIDE DEF x, y
  <2>6. QED BY <1>2, <2>2, <2>3, <2>4, <2>5 DEF x, y
<1>3. CASE ~x.live
  BY <1>3, IdleCallOK DEF Answer
<1> QED BY <1>2, <1>3

(* ... and it carries what the broker gave.                                *)
Carrying(c, ans, got, hits) == [Answer(c, ans) EXCEPT !.got = got, !.hits = hits]

LEMMA GotAnswerOK ==
  ASSUME CallsOK(call), NEW c \in Call, call[c].pc = "sent", NEW ans \in Answers \ {"none"},
         NEW got \in Gots, NEW hits \in 0 .. 1, ans \notin Refusals,
         ans \in {"ok", "conflict"} =>
           GotOK([op |-> call[c].op, who |-> call[c].who, ans |-> ans, got |-> got])
  PROVE  LET x == call[c]
             y == Carrying(c, ans, got, hits)
         IN /\ y \in Requests
            /\ CallOK(y)
            /\ x.live => /\ y.op = x.op /\ y.arg = x.arg /\ y.who = x.who /\ y.overlap = x.overlap
                         /\ y.live /\ y.ans = ans /\ y.got = got /\ y.pc = "reply"
            /\ ~x.live => y.op = "none" /\ ~y.live /\ ~Settled(y)
<1> DEFINE x == call[c]
           z == Answer(c, ans)
           y == Carrying(c, ans, got, hits)
<1>1. x \in Requests /\ CallOK(x)
  BY DEF CallsOK
<1>2. /\ z \in Requests
      /\ x.live =>
           /\ z.op = x.op /\ z.arg = x.arg /\ z.who = x.who /\ z.overlap = x.overlap
           /\ z.live /\ z.ans = ans /\ z.who \in Subject /\ z.pc = "reply"
      /\ ~x.live => z = IdleCall
  BY AnswerOK
<1> HIDE DEF z
<1>a. y = [z EXCEPT !.got = got, !.hits = hits]
  BY DEF Carrying, z
<1> HIDE DEF y
<1>3. y \in Requests
  BY <1>2, <1>a DEF Requests
<1>4. /\ y.op = z.op /\ y.arg = z.arg /\ y.who = z.who /\ y.overlap = z.overlap /\ y.live = z.live
      /\ y.ans = z.ans /\ y.pc = z.pc /\ y.try = z.try /\ y.got = got /\ y.hits = hits
  BY <1>2, <1>a DEF Requests
<1>5. CASE x.live
  <2>1. x.op # "none" /\ ArgOK(x.op, x.arg)
    BY <1>1 DEF CallOK
  <2>2. ans \in {"ok", "conflict"} => GotOK(y)
    BY <1>2, <1>4, <1>5 DEF GotOK
  <2>3. CallOK(y)
    BY <1>2, <1>4, <1>5, <2>1, <2>2 DEF CallOK, Settled
  <2> QED BY <1>2, <1>3, <1>4, <1>5, <2>3 DEF x, y, z
<1>6. CASE ~x.live
  <2>1. z = IdleCall
    BY <1>2, <1>6
  <2>2. y.op = "none" /\ y.pc = "idle" /\ y.live = FALSE /\ y.arg = Null
    BY <2>1, <1>4 DEF IdleCall
  <2>3. ArgOK("none", Null)
    BY DEF ArgOK, Args, SectionOps
  <2>4. CallOK(y) /\ ~Settled(y)
    BY <2>2, <2>3 DEF CallOK, Settled
  <2> QED BY <1>3, <1>6, <2>2, <2>4 DEF x, y, z
<1> QED BY <1>5, <1>6

(* Replacing the document leaves only writes that have left.               *)
LEMMA AbandonedOK ==
  ASSUME CallsOK(call)
  PROVE  /\ CallsOK(Abandoned(call))
         /\ \A c \in Call : LET x == call[c]
                                y == Abandoned(call)[c]
                            IN /\ ~y.live /\ ~Settled(y)
                               /\ \/ y.op = "none"
                                  \/ /\ x.pc = "sent" /\ y.op = x.op /\ y.arg = x.arg /\ y.who = x.who
<1>1. ASSUME NEW c \in Call
      PROVE  LET x == call[c]
                 y == Abandoned(call)[c]
             IN /\ y \in Requests /\ CallOK(y) /\ ~y.live /\ ~Settled(y)
                /\ \/ y.op = "none"
                   \/ x.pc = "sent" /\ y.op = x.op /\ y.arg = x.arg /\ y.who = x.who
  <2> DEFINE x == call[c]
             y == Abandoned(call)[c]
  <2>1. x \in Requests /\ CallOK(x)
    BY DEF CallsOK
  <2>2. CASE x.pc = "sent" /\ x.op \in Writes
    <3>1. y = [x EXCEPT !.live = FALSE]
      BY <2>2 DEF Abandoned
    <3>2. y \in Requests /\ y.live = FALSE /\ y.op = x.op /\ y.arg = x.arg /\ y.who = x.who
          /\ y.pc = x.pc /\ y.try = x.try /\ y.ans = x.ans /\ y.hits = x.hits
      BY <2>1, <3>1 DEF Requests
    <3>3. CallOK(y) /\ ~Settled(y)
      BY <2>1, <2>2, <3>2 DEF CallOK, Settled
    <3> QED BY <2>2, <3>2, <3>3
  <2>3. CASE ~(x.pc = "sent" /\ x.op \in Writes)
    <3>1. y = IdleCall
      BY <2>3 DEF Abandoned
    <3> QED BY <3>1, IdleCallOK DEF IdleCall
  <2> QED BY <2>2, <2>3
<1>2. Abandoned(call) = [c \in Call |-> Abandoned(call)[c]]
  BY DEF Abandoned
<1> QED BY <1>1, <1>2 DEF CallsOK

(* A request whose answer the page has run leaves the tab.                 *)
LEMMA RestOK ==
  ASSUME CallsOK(call), NEW c \in Call
  PROVE  LET rest == [call EXCEPT ![c] = IdleCall]
         IN /\ CallsOK(rest)
            /\ \A d \in Call : rest[d] = IdleCall \/ (d # c /\ rest[d] = call[d])
            /\ \A d \in Call : d # c => rest[d] = call[d]
BY IdleCallOK, OneChanged DEF CallsOK

LEMMA ReleasedOK ==
  ASSUME CallsOK(call), NEW c \in Call
  PROVE  /\ CallsOK(Released(c))
         /\ \A d \in Call : LET y == Released(c)[d]
                            IN (y.op = "none" /\ ~y.live) \/ (d # c /\ Same(call[d], y))
         /\ \A d \in Call : d # c => Same(call[d], Released(c)[d])
<1> DEFINE rest == [call EXCEPT ![c] = IdleCall]
<1>1. CallsOK(rest) /\ \A d \in Call : rest[d] = IdleCall \/ (d # c /\ rest[d] = call[d])
  BY RestOK
<1>2. \A d \in Call : d # c => rest[d] = call[d]
  BY DEF CallsOK
<1> HIDE DEF rest
<1>3. ASSUME NEW d \in Call, NEW y, Same(rest[d], y)
      PROVE  (y.op = "none" /\ ~y.live) \/ (d # c /\ Same(call[d], y))
  <2>1. CASE rest[d] = IdleCall
    <3>1. rest[d].op = "none" /\ ~rest[d].live
      BY <2>1 DEF IdleCall
    <3> QED BY <1>3, <3>1 DEF Same
  <2>2. CASE d # c /\ rest[d] = call[d]
    BY <1>3, <2>2
  <2> QED BY <1>1, <2>1, <2>2
<1>4. \A d \in Call : Same(rest[d], rest[d])
  BY DEF Same
<1>5. CASE call[c].ans = "session"
  <2>1. Released(c) = Missed(rest, IdentityReads)
    BY <1>5, Marks DEF Released, rest
  <2>2. CallsOK(Missed(rest, IdentityReads)) /\ \A d \in Call : Same(rest[d], Missed(rest, IdentityReads)[d])
    BY <1>1, MarkedOK
  <2>3. \A d \in Call : d # c => Same(call[d], Missed(rest, IdentityReads)[d])
    BY <1>2, <2>2
  <2> QED BY <1>3, <2>1, <2>2, <2>3
<1>6. CASE call[c].ans # "session"
  <2>1. Released(c) = rest
    BY <1>6 DEF Released, rest
  <2> QED BY <1>1, <1>2, <1>3, <1>4, <2>1
<1> QED BY <1>5, <1>6

(* Nothing new is answered: y is what becomes of x when its answer is      *)
(* run or lost, its document left, its token renewed or the slot used.     *)
Quietly(x, y) ==
  \/ Same(x, y)
  \/ ~Settled(y) /\ \/ y.op = "none" /\ ~y.live
                    \/ y.op = x.op /\ y.arg = x.arg /\ y.who = x.who /\ (y.live => x.live)
                    \/ x.pc = "idle" /\ y.live

LEMMA QuietIfSame == \A x : Quietly(x, x)
BY DEF Quietly, Same

(* A new request leaves the others alone.                                  *)
LEMMA AskedQuietly ==
  ASSUME CallsOK(call), user \in Users, NEW op \in Ops \ {"none"}, NEW arg, ArgOK(op, arg),
         Invoke(op, arg)
  PROVE  /\ CallsOK(call')
         /\ \A d \in Call : Quietly(call[d], call'[d])
         /\ \A d \in Call : call'[d] = call[d] \/ (call[d].pc = "idle" /\ call'[d] = Started(op, arg))
<1>1. PICK n \in Call : call[n].pc = "idle" /\ call' = [call EXCEPT ![n] = Started(op, arg)]
  BY Asked
<1>2. \A d \in Call : call'[d] = call[d] \/ (call[d].pc = "idle" /\ call'[d] = Started(op, arg))
  BY <1>1 DEF CallsOK
<1>3. Started(op, arg).live /\ ~Settled(Started(op, arg))
  BY StartedOK
<1> QED BY <1>2, <1>3, Asked, QuietIfSame DEF Quietly

LEMMA ReleasedQuietly ==
  ASSUME CallsOK(call), NEW c \in Call
  PROVE  CallsOK(Released(c)) /\ \A d \in Call : Quietly(call[d], Released(c)[d])
<1>1. ASSUME NEW y, y.op = "none", CallOK(y) PROVE ~Settled(y)
  BY <1>1 DEF CallOK, Settled
<1> QED BY ReleasedOK, <1>1 DEF Quietly, CallsOK

LEMMA AbandonedQuietly ==
  ASSUME CallsOK(call)
  PROVE  CallsOK(Abandoned(call)) /\ \A d \in Call : Quietly(call[d], Abandoned(call)[d])
BY AbandonedOK DEF Quietly

(* Dropping the snapshot when an answer is run marks the reads under way.  *)
LEMMA DroppedQuietly ==
  ASSUME CallsOK(call), NEW c \in Call, NEW ops, NEW more
  PROVE  LET rest == [call EXCEPT ![c] = IdleCall]
             one == Missed(rest, ops)
             two == Missed(one, more)
         IN /\ CallsOK(one) /\ CallsOK(two)
            /\ \A d \in Call :
                 /\ (one[d].op = "none" /\ ~one[d].live) \/ (d # c /\ Same(call[d], one[d]))
                 /\ (two[d].op = "none" /\ ~two[d].live) \/ (d # c /\ Same(call[d], two[d]))
                 /\ d # c => Same(call[d], one[d]) /\ Same(call[d], two[d])
                 /\ Quietly(call[d], one[d]) /\ Quietly(call[d], two[d])
                 /\ one[d].op \in ops => one[d].overlap
                 /\ two[d].op \in ops \cup more => two[d].overlap
<1> DEFINE rest == [call EXCEPT ![c] = IdleCall]
           one == Missed(rest, ops)
           two == Missed(one, more)
<1>1. CallsOK(rest) /\ \A d \in Call : rest[d] = IdleCall \/ (d # c /\ rest[d] = call[d])
  BY RestOK
<1>a. \A d \in Call : d # c => rest[d] = call[d]
  BY RestOK
<1> HIDE DEF rest
<1>2. CallsOK(one) /\ \A d \in Call : Same(rest[d], one[d]) /\ (rest[d].op \in ops => one[d].overlap)
  BY <1>1, MarkedOK
<1> HIDE DEF one
<1>3. CallsOK(two) /\ \A d \in Call : Same(one[d], two[d]) /\ (one[d].op \in more => two[d].overlap)
  BY <1>2, MarkedOK
<1> HIDE DEF two
<1>4. ASSUME NEW d \in Call
      PROVE  /\ (one[d].op = "none" /\ ~one[d].live) \/ (d # c /\ Same(call[d], one[d]))
             /\ (two[d].op = "none" /\ ~two[d].live) \/ (d # c /\ Same(call[d], two[d]))
             /\ d # c => Same(call[d], one[d]) /\ Same(call[d], two[d])
             /\ one[d].op \in ops => one[d].overlap
             /\ two[d].op \in ops \cup more => two[d].overlap
  BY <1>1, <1>a, <1>2, <1>3 DEF Same, IdleCall
<1>5. ASSUME NEW y, y.op = "none", CallOK(y) PROVE ~Settled(y)
  BY <1>5 DEF CallOK, Settled
<1>6. \A d \in Call : Quietly(call[d], one[d]) /\ Quietly(call[d], two[d])
  BY <1>2, <1>3, <1>4, <1>5 DEF Quietly, CallsOK
<1> QED BY <1>2, <1>3, <1>4, <1>6 DEF rest, one, two

---------------------------------------------------------------------------
(* The steps                                                               *)

(* What every replacement of the document does.                            *)
LEMMA DocumentGoes ==
  ASSUME TypeInv, NewDocument
  PROVE  /\ call' = Abandoned(call)
         /\ nav' = "splash" /\ signout' = "no" /\ page' \in Pages /\ landed' \in BOOLEAN
         /\ IdentityReset /\ TokensReset
         /\ UNCHANGED <<pat, broker>>
         /\ \/ UNCHANGED <<user, cache, acked>> /\ idp' \in Subject \cup {Nobody}
            \/ user' = NoUser /\ UNCHANGED <<cache, acked, idp>>
            \/ \E s \in Subject : /\ user' = [sub |-> s, token |-> "live"]
                                  /\ cache' = Null /\ idp' = Nobody
                                  /\ acked' = [acked EXCEPT ![s] = rev[s]]
<1>1. CASE Navigation /\ Fresh(FALSE)
  <2>1. CASE StartLogin
    BY <1>1, <2>1 DEF StartLogin, GoTo, Fresh, broker, Pages, TypeInv, TypeOK
  <2>2. ASSUME NEW s \in Subject, KeycloakReturns(s)
        PROVE  call' = Abandoned(call) /\ nav' = "splash" /\ signout' = "no" /\ page' \in Pages
               /\ UNCHANGED <<user, cache, broker, acked>> /\ idp' \in Subject
    BY <2>2 DEF KeycloakReturns, GoTo, broker, Pages
  <2>3. ASSUME NEW p \in AppPages, Visit(p)
        PROVE  call' = Abandoned(call) /\ nav' = "splash" /\ signout' = "no" /\ page' \in Pages
               /\ UNCHANGED <<user, cache, idp, broker, acked>>
    BY <2>3 DEF Visit, GoTo, broker, Pages
  <2>4. ASSUME NEW p \in AppPages, CompleteSignIn(p)
        PROVE  call' = Abandoned(call) /\ nav' = "splash" /\ signout' = "no" /\ page' \in Pages
               /\ UNCHANGED broker
               /\ \E s \in Subject : /\ user' = [sub |-> s, token |-> "live"]
                                     /\ cache' = Null /\ idp' = Nobody
                                     /\ acked' = [acked EXCEPT ![s] = rev[s]]
    BY <2>4 DEF CompleteSignIn, GoTo, broker, Pages, TypeInv, TypeOK
  <2>5. IdentityReset /\ TokensReset /\ UNCHANGED pat /\ landed' \in BOOLEAN /\ idp \in Subject \cup {Nobody}
    BY <1>1 DEF Fresh, TypeInv, TypeOK
  <2> QED BY <1>1, <2>1, <2>2, <2>3, <2>4, <2>5 DEF Navigation, broker
<1>2. CASE FollowLink /\ Fresh(FALSE)
  BY <1>2 DEF FollowLink, GoTo, Fresh, broker, Pages, TypeInv, TypeOK
<1>3. CASE BackendReturns /\ Fresh(TRUE)
  BY <1>3 DEF BackendReturns, GoTo, Fresh, broker, Pages, AppPages, TypeInv, TypeOK
<1>4. CASE SignedOut
  BY <1>4 DEF SignedOut, Logout, GoTo, Fresh, broker, Pages
<1> QED BY <1>1, <1>2, <1>3, <1>4 DEF NewDocument

(* The operations a card keeps from overlapping with this one.             *)
Rivals(op) ==
  IF op \in X509Ops THEN X509Ops ELSE IF op \in TicketOps THEN TicketOps ELSE {op}

CardAsked(op, arg) ==
  /\ op \in CardOps /\ ArgOK(op, arg)
  /\ ~Busy(Rivals(op))
  /\ op = "krb5-refresh" => (arg <=> shown.krb5 = "keytab")
  /\ OnPage /\ Ask(op, arg)

LEMMA CardAsks ==
  ASSUME TypeInv,
         \/ RevokeProxy \/ RefreshTicket \/ LinkKeytab \/ ForgetTicket \/ Unlink
         \/ \E mode \in {"until-expiry", "auto-renew"} : LinkX509(mode)
  PROVE  \E op \in CardOps, arg \in Args : CardAsked(op, arg)
<1>1. CASE RevokeProxy
  <2>1. CardAsked("x509-revoke", Null)
    BY <1>1 DEF RevokeProxy, CardAsked, Rivals, CardOps, X509Ops, ArgOK, Args, SectionOps
  <2> QED BY <2>1 DEF CardOps, X509Ops, Args
<1>2. CASE RefreshTicket
  <2>1. CardAsked("krb5-refresh", shown.krb5 = "keytab")
    BY <1>2 DEF RefreshTicket, CardAsked, Rivals, CardOps, Krb5Ops, X509Ops, TicketOps, ArgOK, Args, SectionOps
  <2>2. (shown.krb5 = "keytab") \in Args
    BY DEF Args
  <2> QED BY <2>1, <2>2 DEF CardOps, Krb5Ops, TicketOps
<1>3. CASE LinkKeytab
  <2>1. CardAsked("krb5-keytab", Null)
    BY <1>3 DEF LinkKeytab, CardAsked, Rivals, CardOps, Krb5Ops, X509Ops, TicketOps, ArgOK, Args, SectionOps
  <2> QED BY <2>1 DEF CardOps, Krb5Ops, Args
<1>4. CASE ForgetTicket
  <2>1. CardAsked("krb5-forget", Null)
    BY <1>4 DEF ForgetTicket, CardAsked, Rivals, CardOps, Krb5Ops, X509Ops, TicketOps, ArgOK, Args, SectionOps
  <2> QED BY <2>1 DEF CardOps, Krb5Ops, TicketOps, Args
<1>5. CASE Unlink
  <2>1. CardAsked("unlink", Null)
    BY <1>5 DEF Unlink, CardAsked, Rivals, CardOps, Krb5Ops, X509Ops, TicketOps, ArgOK, Args, SectionOps
  <2> QED BY <2>1 DEF CardOps, Args
<1>6. ASSUME NEW mode \in {"until-expiry", "auto-renew"}, LinkX509(mode)
      PROVE  \E op \in CardOps, arg \in Args : CardAsked(op, arg)
  <2>1. CardAsked("x509-link", mode)
    BY <1>6 DEF LinkX509, CardAsked, Rivals, CardOps, X509Ops, ArgOK, Args, Modes, SectionOps
  <2> QED BY <2>1 DEF CardOps, X509Ops, Args, Modes
<1> QED BY <1>1, <1>2, <1>3, <1>4, <1>5, <1>6

BrokerAnswers(c) ==
  \/ BrokerReads(c) \/ BrokerPurges(c) \/ BrokerLists(c) \/ BrokerListsTokens(c)
  \/ BrokerChanges(c) \/ BrokerMints(c) \/ BrokerRevokes(c)

(* The one request an answer of the broker touches.                        *)
OnlyAnswers(c) ==
  LET x == call[c]
      y == call'[c]
  IN /\ call' = [call EXCEPT ![c] = y]
     /\ x.pc = "sent"
     /\ x.live => /\ y.op = x.op /\ y.arg = x.arg /\ y.who = x.who /\ y.overlap = x.overlap
                  /\ y.live /\ y.pc = "reply"
     /\ ~x.live => y.op = "none" /\ ~y.live /\ ~Settled(y)

LEMMA BrokerAnswersOK ==
  ASSUME TypeInv, NEW c \in Call, BrokerAnswers(c)
  PROVE  CallsOK(call') /\ OnlyAnswers(c)
<1> DEFINE x == call[c]
<1>1. CallsOK(call) /\ x \in Requests /\ CallOK(x) /\ x.pc = "sent"
  BY DEF TypeInv, CallsOK, BrokerAnswers, BrokerReads, BrokerPurges, BrokerLists, BrokerListsTokens,
         BrokerChanges, BrokerMints, BrokerRevokes
<1>2. x.who \in Subject /\ x.hits = 0 /\ x.got \in Gots /\ acct[x.who] \in Account /\ rev[x.who] \in Nat
  BY <1>1 DEF CallOK, Requests, TypeInv, TypeOK
<1>a. 0 \in 0 .. 1 /\ 1 \in 0 .. 1
  OBVIOUS
<1>3. SUFFICES \E y : /\ call' = [call EXCEPT ![c] = y] /\ y \in Requests /\ CallOK(y)
                      /\ x.live => /\ y.op = x.op /\ y.arg = x.arg /\ y.who = x.who /\ y.overlap = x.overlap
                                   /\ y.live /\ y.pc = "reply"
                      /\ ~x.live => y.op = "none" /\ ~y.live /\ ~Settled(y)
  <2>1. PICK y : /\ call' = [call EXCEPT ![c] = y] /\ y \in Requests /\ CallOK(y)
                 /\ x.live => /\ y.op = x.op /\ y.arg = x.arg /\ y.who = x.who /\ y.overlap = x.overlap
                              /\ y.live /\ y.pc = "reply"
                 /\ ~x.live => y.op = "none" /\ ~y.live /\ ~Settled(y)
    BY <1>3
  <2>2. call'[c] = y
    BY <1>1, <2>1 DEF CallsOK
  <2> QED BY <1>1, <2>1, <2>2, OneChanged DEF OnlyAnswers
<1>4. ASSUME NEW ans \in {"ok", "conflict"}, NEW got \in Gots,
             GotOK([op |-> x.op, who |-> x.who, ans |-> ans, got |-> got]),
             Executed(c, ans, got)
      PROVE  \E y : /\ call' = [call EXCEPT ![c] = y] /\ y \in Requests /\ CallOK(y)
                    /\ x.live => /\ y.op = x.op /\ y.arg = x.arg /\ y.who = x.who /\ y.overlap = x.overlap
                                 /\ y.live /\ y.pc = "reply"
                    /\ ~x.live => y.op = "none" /\ ~y.live /\ ~Settled(y)
  <2>1. PICK lost \in BOOLEAN :
           call' = [call EXCEPT ![c] =
                      IF x.live
                      THEN [Answer(c, IF lost THEN "error" ELSE ans) EXCEPT !.got = got, !.hits = @ + 1]
                      ELSE IdleCall]
    BY <1>4 DEF Executed
  <2> DEFINE a == IF lost THEN "error" ELSE ans
  <2>2. a \in Answers \ {"none"} /\ a \notin Refusals /\ (a \in {"ok", "conflict"} => a = ans)
    BY DEF Answers, Refusals
  <2> HIDE DEF a
  <2>3. CASE x.live
    <3>1. Answer(c, a) \in Requests /\ Answer(c, a).hits = 0
      BY <1>1, <2>2, <2>3, AnswerOK
    <3>2. [Answer(c, a) EXCEPT !.got = got, !.hits = @ + 1] = [Answer(c, a) EXCEPT !.got = got, !.hits = 1]
      BY <3>1
    <3>3. call' = [call EXCEPT ![c] = Carrying(c, a, got, 1)]
      BY <2>1, <2>3, <3>2 DEF a, Carrying
    <3>4. a \in {"ok", "conflict"} =>
            GotOK([op |-> call[c].op, who |-> call[c].who, ans |-> a, got |-> got])
      BY <1>4, <2>2
    <3> DEFINE y == Carrying(c, a, got, 1)
    <3>5. /\ y \in Requests /\ CallOK(y)
          /\ y.op = x.op /\ y.arg = x.arg /\ y.who = x.who /\ y.overlap = x.overlap
          /\ y.live /\ y.pc = "reply"
      BY <1>1, <1>a, <2>2, <2>3, <3>4, GotAnswerOK
    <3> HIDE DEF y
    <3> QED BY <2>3, <3>3, <3>5 DEF y
  <2>4. CASE ~x.live
    BY <2>1, <2>4, IdleCallOK DEF IdleCall
  <2> QED BY <2>3, <2>4
<1>5. ASSUME NEW got \in Gots, GotOK([op |-> x.op, who |-> x.who, ans |-> "ok", got |-> got]),
             call' = [call EXCEPT ![c] = [Answer(c, "ok") EXCEPT !.got = got]]
      PROVE  \E y : /\ call' = [call EXCEPT ![c] = y] /\ y \in Requests /\ CallOK(y)
                    /\ x.live => /\ y.op = x.op /\ y.arg = x.arg /\ y.who = x.who /\ y.overlap = x.overlap
                                 /\ y.live /\ y.pc = "reply"
                    /\ ~x.live => y.op = "none" /\ ~y.live /\ ~Settled(y)
  <2> DEFINE z == Answer(c, "ok")
  <2>1. "ok" \in Answers \ {"none"} /\ "ok" \notin Refusals
    BY DEF Answers, Refusals
  <2>2. z \in Requests /\ z.hits = 0
    BY <1>1, <2>1, AnswerOK DEF IdleCall
  <2> HIDE DEF z
  <2>3. [z EXCEPT !.got = got] = [z EXCEPT !.got = got, !.hits = 0]
    BY <2>2 DEF Requests
  <2> DEFINE y == Carrying(c, "ok", got, 0)
  <2>4. /\ y \in Requests /\ CallOK(y)
        /\ x.live => /\ y.op = x.op /\ y.arg = x.arg /\ y.who = x.who /\ y.overlap = x.overlap
                     /\ y.live /\ y.pc = "reply"
        /\ ~x.live => y.op = "none" /\ ~y.live /\ ~Settled(y)
    BY <1>1, <1>5, <1>a, <2>1, GotAnswerOK
  <2>5. call' = [call EXCEPT ![c] = y]
    BY <1>5, <2>3 DEF z, Carrying
  <2> HIDE DEF y
  <2> QED BY <2>4, <2>5
<1>6. CASE BrokerReads(c)
  <2>1. Snapshot(x.who) \in Snapshots /\ Snapshot(x.who).sub = x.who
    BY <1>2 DEF Snapshot, Snapshots
  <2>2. GotOK([op |-> x.op, who |-> x.who, ans |-> "ok", got |-> Snapshot(x.who)])
    BY <1>6, <2>1 DEF BrokerReads, IdentityReads, GotOK, CardOps, X509Ops, Krb5Ops, TicketOps, SectionOps
  <2> QED BY <1>5, <1>6, <2>1, <2>2 DEF BrokerReads, Gots
<1>7. CASE BrokerPurges(c)
  <2>1. GotOK([op |-> x.op, who |-> x.who, ans |-> "ok", got |-> x.got])
    BY <1>7 DEF BrokerPurges, IdentityReads, GotOK, CardOps, X509Ops, Krb5Ops, TicketOps, SectionOps
  <2>2. CASE x.live
    <3>1. "ok" \in Answers \ {"none"} /\ "ok" \notin Refusals
      BY DEF Answers, Refusals
    <3>2. /\ Answer(c, "ok") \in Requests /\ Answer(c, "ok").hits = 0
          /\ Answer(c, "ok").pc = "reply" /\ Answer(c, "ok").got = x.got
      BY <1>1, <2>2, <3>1, AnswerOK DEF Answer, Delivered, Requests
    <3>3. Answer(c, "ok") = [Answer(c, "ok") EXCEPT !.got = x.got]
      BY <3>2 DEF Requests
    <3> QED BY <1>2, <1>5, <1>7, <2>1, <3>3 DEF BrokerPurges
  <2>3. CASE ~x.live
    BY <1>7, <2>3, IdleCallOK DEF BrokerPurges, Answer, IdleCall
  <2> QED BY <2>2, <2>3
<1>8. CASE BrokerLists(c)
  <2> DEFINE got == IF x.op = "tools" THEN "tools" ELSE IF acct[x.who].proxy THEN "active" ELSE "no proxy"
  <2>1. got \in Views /\ got \in Gots /\ (x.op = "tools" => got = "tools")
    BY DEF Views, Gots
  <2>2. call' = [call EXCEPT ![c] = [Answer(c, "ok") EXCEPT !.got = got]] /\ x.op \in SectionOps
    BY <1>8 DEF BrokerLists
  <2> HIDE DEF got
  <2>3. GotOK([op |-> x.op, who |-> x.who, ans |-> "ok", got |-> got])
    BY <2>1, <2>2 DEF IdentityReads, GotOK, CardOps, X509Ops, Krb5Ops, TicketOps, SectionOps
  <2> QED BY <1>5, <2>1, <2>2, <2>3
<1>9. CASE BrokerListsTokens(c)
  <2>1. OwnRows(x.who) \in Rows
    BY DEF OwnRows, Rows, PatStates, TypeInv
  <2>2. GotOK([op |-> x.op, who |-> x.who, ans |-> "ok", got |-> OwnRows(x.who)])
    BY <1>9, <2>1 DEF BrokerListsTokens, IdentityReads, GotOK, CardOps, X509Ops, Krb5Ops, TicketOps, SectionOps
  <2> QED BY <1>5, <1>9, <2>1, <2>2 DEF BrokerListsTokens, Gots
<1>10. CASE BrokerChanges(c)
  <2>1. PICK e \in Effects(x.op, x.arg, acct[x.who]) :
           /\ rev' = [rev EXCEPT ![x.who] = IF e.acct = acct[x.who] THEN @ ELSE @ + 1]
           /\ Executed(c, e.ans, rev'[x.who])
    BY <1>10 DEF BrokerChanges
  <2>2. rev'[x.who] \in Nat
    BY <1>2, <2>1 DEF TypeInv, TypeOK
  <2>3. x.op \in CardOps
    BY <1>10 DEF BrokerChanges
  <2>4. e.ans \in {"ok", "conflict"} /\ (e.ans = "conflict" => x.op = "krb5-refresh")
    BY <2>1, <2>3 DEF Effects, CardOps, X509Ops, Krb5Ops, TicketOps
  <2>5. GotOK([op |-> x.op, who |-> x.who, ans |-> e.ans, got |-> rev'[x.who]])
    BY <2>2, <2>3, <2>4 DEF IdentityReads, GotOK, CardOps, X509Ops, Krb5Ops, TicketOps, SectionOps
  <2>6. rev'[x.who] \in Gots
    BY <2>2 DEF Gots
  <2> QED BY <1>4, <2>1, <2>4, <2>5, <2>6
<1>11. CASE BrokerMints(c)
  <2>1. PICK t \in Token : Executed(c, "ok", t)
    BY <1>11 DEF BrokerMints
  <2>2. GotOK([op |-> x.op, who |-> x.who, ans |-> "ok", got |-> t])
    BY <1>11 DEF BrokerMints, IdentityReads, GotOK, CardOps, X509Ops, Krb5Ops, TicketOps, SectionOps
  <2> QED BY <1>4, <2>1, <2>2 DEF Gots
<1>12. CASE BrokerRevokes(c)
  <2>1. GotOK([op |-> x.op, who |-> x.who, ans |-> "ok", got |-> Null])
    BY <1>12 DEF BrokerRevokes, IdentityReads, GotOK, CardOps, X509Ops, Krb5Ops, TicketOps, SectionOps
  <2> QED BY <1>4, <1>12, <2>1 DEF BrokerRevokes, Gots
<1> QED BY <1>6, <1>7, <1>8, <1>9, <1>10, <1>11, <1>12 DEF BrokerAnswers

(* A refusal, a failure or the end of a renewal.                           *)
LEMMA NetworkOK ==
  ASSUME TypeInv, NEW c \in Call,
         BrokerRejects(c) \/ RequestFails(c) \/ RenewSucceeds(c) \/ RenewFails(c)
  PROVE  /\ CallsOK(call') /\ \A d \in Call : Quietly(call[d], call'[d])
         /\ \A d \in Call : call'[d].live =>
              call[d].live /\ call'[d].op = call[d].op /\ call'[d].who = call[d].who
         /\ \A d \in Call : d # c => call'[d] = call[d]
<1> DEFINE x == call[c]
<1>1. CallsOK(call) /\ x \in Requests /\ CallOK(x)
  BY DEF TypeInv, CallsOK
<1>2. SUFFICES \E y : /\ call' = [call EXCEPT ![c] = y] /\ y \in Requests /\ CallOK(y) /\ ~Settled(y)
                      /\ \/ y.op = "none" /\ ~y.live
                         \/ y.op = x.op /\ y.arg = x.arg /\ y.who = x.who /\ y.live = x.live
  <2>1. PICK y : /\ call' = [call EXCEPT ![c] = y] /\ y \in Requests /\ CallOK(y) /\ ~Settled(y)
                 /\ \/ y.op = "none" /\ ~y.live
                    \/ y.op = x.op /\ y.arg = x.arg /\ y.who = x.who /\ y.live = x.live
    BY <1>2
  <2>2. CallsOK(call') /\ \A d \in Call : call'[d] = IF d = c THEN y ELSE call[d]
    BY <1>1, <2>1, OneChanged DEF CallsOK
  <2>3. Quietly(x, y)
    BY <2>1 DEF Quietly
  <2> QED BY <2>1, <2>2, <2>3, QuietIfSame
<1>3. ASSUME NEW ans \in Refusals \cup {"error"}, x.pc = "sent",
             call' = [call EXCEPT ![c] = Answer(c, ans)]
      PROVE  \E y : /\ call' = [call EXCEPT ![c] = y] /\ y \in Requests /\ CallOK(y) /\ ~Settled(y)
                    /\ \/ y.op = "none" /\ ~y.live
                       \/ y.op = x.op /\ y.arg = x.arg /\ y.who = x.who /\ y.live = x.live
  <2>1. ans \in Answers \ {"none"} /\ ans \notin {"ok", "conflict"}
    BY DEF Answers, Refusals
  <2>2. IdleCall.op = "none" /\ ~IdleCall.live
    BY DEF IdleCall
  <2> DEFINE y == Answer(c, ans)
  <2>3. /\ y \in Requests /\ CallOK(y) /\ ~Settled(y)
        /\ x.live => y.op = x.op /\ y.arg = x.arg /\ y.who = x.who /\ y.live
        /\ ~x.live => y = IdleCall
    BY <1>1, <1>3, <2>1, AnswerOK
  <2> HIDE DEF y
  <2>4. y.live \in BOOLEAN /\ x.live \in BOOLEAN
    BY <1>1, <2>3 DEF Requests
  <2> QED BY <1>3, <2>2, <2>3, <2>4 DEF y
<1>4. CASE BrokerRejects(c)
  BY <1>3, <1>4 DEF BrokerRejects
<1>5. CASE RequestFails(c)
  BY <1>3, <1>5 DEF RequestFails
<1>6. CASE RenewSucceeds(c)
  <2> DEFINE y == [x EXCEPT !.pc = "sent", !.try = @ + 1]
  <2>1. x.pc = "renew" /\ call' = [call EXCEPT ![c] = y]
    BY <1>1, <1>6 DEF RenewSucceeds, CallsOK
  <2>2. x.try \in 0 .. 2 /\ x.try <= 1 /\ x.live /\ x.hits = 0
    BY <1>1, <2>1 DEF CallOK, Requests
  <2>3. x.try + 1 \in 0 .. 2 /\ x.try + 1 >= 1
    BY <2>2
  <2>4. y \in Requests
    BY <1>1, <2>3 DEF Requests
  <2>5. y.op = x.op /\ y.arg = x.arg /\ y.who = x.who /\ y.live = x.live /\ y.pc = "sent"
        /\ y.try = x.try + 1 /\ y.ans = x.ans /\ y.hits = x.hits
    BY <1>1 DEF Requests
  <2> HIDE DEF y
  <2>6. CallOK(y) /\ ~Settled(y)
    BY <1>1, <2>1, <2>2, <2>3, <2>5 DEF CallOK, Settled
  <2> QED BY <2>1, <2>4, <2>5, <2>6
<1>7. CASE RenewFails(c)
  <2> DEFINE y == [x EXCEPT !.pc = "reply", !.ans = IF x.try = 0 THEN "session" ELSE @]
  <2>1. x.pc = "renew" /\ call' = [call EXCEPT ![c] = y]
    BY <1>1, <1>7 DEF RenewFails, CallsOK
  <2>2. x.try \in 0 .. 2 /\ x.try <= 1 /\ x.live /\ x.hits = 0 /\ x.who \in Subject
        /\ (x.try = 1 => x.ans \in Refusals)
    BY <1>1, <2>1 DEF CallOK, Requests
  <2>3. (x.try = 0 \/ x.try = 1) /\ "session" \in Refusals /\ Refusals \subseteq Answers
    BY <2>2 DEF Refusals, Answers
  <2>4. y \in Requests
    BY <1>1, <2>3 DEF Requests
  <2>5. y.op = x.op /\ y.arg = x.arg /\ y.who = x.who /\ y.live = x.live /\ y.pc = "reply"
        /\ y.ans \in Refusals
    BY <1>1, <2>2, <2>3 DEF Requests
  <2> HIDE DEF y
  <2>6. CallOK(y) /\ ~Settled(y)
    BY <1>1, <2>1, <2>2, <2>5 DEF CallOK, Settled, Refusals
  <2> QED BY <2>1, <2>4, <2>5, <2>6
<1> QED BY <1>4, <1>5, <1>6, <1>7

(* A continuation runs.                                                    *)
LEMMA ContinuationOK ==
  ASSUME TypeInv, NEW c \in Call,
         \/ NavAnswered(c) \/ SignOutPurged(c) \/ Loaded(c) \/ ChangeAnswered(c)
         \/ SectionAnswered(c) \/ TokensListed(c) \/ MintAnswered(c) \/ RevokeAnswered(c)
  PROVE  /\ CallsOK(call') /\ \A d \in Call : Quietly(call[d], call'[d])
         /\ \A d \in Call : (call'[d].op = "none" /\ ~call'[d].live) \/ (d # c /\ Same(call[d], call'[d]))
         /\ \A d \in Call : d # c => Same(call[d], call'[d])
<1> USE DEF TypeInv
<1>1. CASE call' = Released(c)
  BY <1>1, ReleasedOK, ReleasedQuietly
<1>2. ASSUME NEW ops, call' = Missed([call EXCEPT ![c] = IdleCall], ops)
      PROVE  /\ CallsOK(call') /\ \A d \in Call : Quietly(call[d], call'[d])
             /\ \A d \in Call : (call'[d].op = "none" /\ ~call'[d].live) \/ (d # c /\ Same(call[d], call'[d]))
             /\ \A d \in Call : d # c => Same(call[d], call'[d])
  <2> DEFINE one == Missed([call EXCEPT ![c] = IdleCall], ops)
  <2>1. /\ CallsOK(one) /\ \A d \in Call : Quietly(call[d], one[d])
        /\ \A d \in Call : (one[d].op = "none" /\ ~one[d].live) \/ (d # c /\ Same(call[d], one[d]))
        /\ \A d \in Call : d # c => Same(call[d], one[d])
    BY DroppedQuietly
  <2> HIDE DEF one
  <2> QED BY <1>2, <2>1 DEF one
<1>3. ASSUME NEW ops, NEW more, call' = Missed(Missed([call EXCEPT ![c] = IdleCall], ops), more)
      PROVE  /\ CallsOK(call') /\ \A d \in Call : Quietly(call[d], call'[d])
             /\ \A d \in Call : (call'[d].op = "none" /\ ~call'[d].live) \/ (d # c /\ Same(call[d], call'[d]))
             /\ \A d \in Call : d # c => Same(call[d], call'[d])
  <2> DEFINE two == Missed(Missed([call EXCEPT ![c] = IdleCall], ops), more)
  <2>1. /\ CallsOK(two) /\ \A d \in Call : Quietly(call[d], two[d])
        /\ \A d \in Call : (two[d].op = "none" /\ ~two[d].live) \/ (d # c /\ Same(call[d], two[d]))
        /\ \A d \in Call : d # c => Same(call[d], two[d])
    BY DroppedQuietly
  <2> HIDE DEF two
  <2> QED BY <1>3, <2>1 DEF two
<1>4. CASE NavAnswered(c) \/ Loaded(c) \/ SectionAnswered(c) \/ TokensListed(c) \/ MintAnswered(c)
  <2>1. call' = Released(c)
    BY <1>4 DEF NavAnswered, Loaded, SectionAnswered, TokensListed, MintAnswered
  <2> QED BY <1>1, <2>1
<1>5. CASE SignOutPurged(c)
  BY <1>2, <1>5, Marks DEF SignOutPurged
<1>6. CASE RevokeAnswered(c)
  BY <1>1, <1>2, <1>6, Marks DEF RevokeAnswered
<1>7. CASE ChangeAnswered(c)
  <2>1. CASE call' = Released(c)
    BY <1>1, <2>1
  <2>2. CASE call' = Overlapped([call EXCEPT ![c] = IdleCall])
    <3>1. call' = Missed([call EXCEPT ![c] = IdleCall], IdentityReads)
      BY <2>2, Marks
    <3> QED BY <1>2, <3>1
  <2>3. CASE call' = Missed(Overlapped([call EXCEPT ![c] = IdleCall]), {"status"})
    <3>1. call' = Missed(Missed([call EXCEPT ![c] = IdleCall], IdentityReads), {"status"})
      BY <2>3, Marks
    <3> QED BY <1>3, <3>1
  <2> QED BY <1>7, <2>1, <2>2, <2>3 DEF ChangeAnswered
<1> QED BY <1>4, <1>5, <1>6, <1>7

(* A request is sent; of the others some may be told they were overtaken.  *)
Begins(op, arg) ==
  \E n \in Call : /\ call[n].pc = "idle" /\ call'[n] = Started(op, arg)
                  /\ \A d \in Call \ {n} : Same(call[d], call'[d])

LEMMA BeginsOK ==
  ASSUME TypeInv, NEW op \in Ops \ {"none"}, NEW arg, ArgOK(op, arg),
         \/ Invoke(op, arg)
         \/ /\ FreeSlots # {}
            /\ \E ops : call' = [Missed(call, ops) EXCEPT ![NextSlot] = Started(op, arg)]
  PROVE  CallsOK(call') /\ (\A d \in Call : Quietly(call[d], call'[d])) /\ Begins(op, arg)
<1>1. CallsOK(call) /\ user \in Users
  BY DEF TypeInv, TypeOK, Users
<1>2. Started(op, arg).live /\ ~Settled(Started(op, arg)) /\ Started(op, arg) \in Requests /\ CallOK(Started(op, arg))
  BY <1>1, StartedOK
<1>3. CASE Invoke(op, arg)
  <2>1. PICK n \in Call : call[n].pc = "idle" /\ call' = [call EXCEPT ![n] = Started(op, arg)]
    BY <1>1, <1>3, Asked
  <2>2. Begins(op, arg)
    BY <1>1, <2>1 DEF Begins, Same, CallsOK
  <2> QED BY <1>1, <1>3, <2>2, AskedQuietly
<1>4. ASSUME FreeSlots # {}, NEW ops, call' = [Missed(call, ops) EXCEPT ![NextSlot] = Started(op, arg)]
      PROVE  CallsOK(call') /\ (\A d \in Call : Quietly(call[d], call'[d])) /\ Begins(op, arg)
  <2> DEFINE marked == Missed(call, ops)
  <2>1. CallsOK(marked) /\ \A d \in Call : Same(call[d], marked[d])
    BY <1>1, MarkedOK
  <2> HIDE DEF marked
  <2>2. NextSlot \in Call /\ call[NextSlot].pc = "idle"
    BY <1>4, SlotIsFree
  <2>3. CallsOK(call')
    BY <1>2, <1>4, <2>1, <2>2, OneChanged DEF marked
  <2>4. Begins(op, arg)
    BY <1>4, <2>1, <2>2 DEF Begins, CallsOK, marked
  <2> QED BY <1>2, <2>3, <2>4 DEF Begins, Quietly
<1> QED BY <1>3, <1>4

LEMMA Asking ==
  ASSUME TypeInv
  PROVE  /\ SignOutClick => Begins("purge", Null)
         /\ OpenGate => UNCHANGED call \/ Begins("nav", Null)
         /\ \A op \in CardOps, arg \in Args : CardAsked(op, arg) => Begins(op, arg)
         /\ \A op \in SectionOps : Toggle(op) => UNCHANGED call \/ Begins(op, sec.seq + 1)
         /\ Mount => UNCHANGED call \/ Begins("load", Null)
         /\ LoadTokens => Begins("list", Null)
         /\ Mint => Begins("mint", Null)
         /\ Revoke => pending \in Token /\ Begins("revoke", pending)
         /\ Done => Begins("list", Null)
         /\ \/ SignOutClick \/ OpenGate \/ (\E op \in CardOps, arg \in Args : CardAsked(op, arg))
            \/ (\E op \in SectionOps : Toggle(op)) \/ Mount \/ LoadTokens \/ Mint \/ Revoke \/ Done
            => CallsOK(call') /\ \A d \in Call : Quietly(call[d], call'[d])
<1> DEFINE Fine == CallsOK(call') /\ \A d \in Call : Quietly(call[d], call'[d])
<1>1. UNCHANGED call => Fine
  BY QuietIfSame DEF TypeInv
<1>2. ASSUME NEW op \in {"purge", "nav", "load", "list", "mint"}, Invoke(op, Null)
      PROVE  Fine /\ Begins(op, Null)
  <2>1. op \in Ops \ {"none"} /\ ArgOK(op, Null)
    BY DEF Ops, Writes, IdentityReads, ArgOK, Args, SectionOps
  <2> QED BY <1>2, <2>1, BeginsOK
<1>3. ASSUME NEW op \in {"load", "list"}, NEW ops, FreeSlots # {},
             call' = [Missed(call, ops) EXCEPT ![NextSlot] = Started(op, Null)]
      PROVE  Fine /\ Begins(op, Null)
  <2>1. op \in Ops \ {"none"} /\ ArgOK(op, Null)
    BY DEF Ops, Writes, IdentityReads, ArgOK, Args, SectionOps
  <2> QED BY <1>3, <2>1, BeginsOK
<1> HIDE DEF Fine
<1>4. SignOutClick => Fine /\ Begins("purge", Null)
  BY <1>2 DEF SignOutClick
<1>5. OpenGate => (UNCHANGED call \/ Begins("nav", Null)) /\ Fine
  BY <1>1, <1>2 DEF OpenGate
<1>6. ASSUME NEW op \in CardOps, NEW arg \in Args, CardAsked(op, arg)
      PROVE  Fine /\ Begins(op, arg)
  <2>1. op \in Ops \ {"none"}
    BY DEF Ops, Writes, CardOps, X509Ops, Krb5Ops, TicketOps
  <2> QED BY <1>6, <2>1, BeginsOK DEF CardAsked, Ask, Fine
<1>7. ASSUME NEW op \in SectionOps, Toggle(op)
      PROVE  Fine /\ (UNCHANGED call \/ Begins(op, sec.seq + 1))
  <2>1. op \in Ops \ {"none"} /\ ArgOK(op, sec.seq + 1)
    BY DEF Ops, SectionOps, ArgOK, Args, TypeInv, Sections
  <2> QED BY <1>1, <1>7, <2>1, BeginsOK DEF Toggle, Fine
<1>8. ASSUME Mount PROVE Fine /\ (UNCHANGED call \/ Begins("load", Null))
  <2>1. CASE UNCHANGED call
    BY <1>1, <2>1
  <2>2. CASE FreeSlots # {} /\ call' = [(IF landed THEN Overlapped(call) ELSE call)
                                         EXCEPT ![NextSlot] = Started("load", Null)]
    <3>1. CASE landed
      BY <1>3, <2>2, <3>1, Marks
    <3>2. CASE ~landed
      BY <1>2, <2>2, <3>2 DEF Invoke
    <3> QED BY <3>1, <3>2
  <2> QED BY <1>8, <2>1, <2>2 DEF Mount
<1>9. LoadTokens => Fine /\ Begins("list", Null)
  BY <1>2 DEF LoadTokens
<1>10. Mint => Fine /\ Begins("mint", Null)
  BY <1>2 DEF Mint
<1>11. ASSUME Revoke PROVE Fine /\ pending \in Token /\ Begins("revoke", pending)
  <2>1. pending \in Token
    BY <1>11 DEF Revoke, TypeInv, TypeOK
  <2>2. "revoke" \in Ops \ {"none"} /\ ArgOK("revoke", pending)
    BY <2>1 DEF Ops, Writes, ArgOK, Args, SectionOps
  <2> QED BY <1>11, <2>1, <2>2, BeginsOK DEF Revoke, Fine
<1>12. Done => Fine /\ Begins("list", Null)
  BY <1>3, Marks DEF Done
<1> QED BY <1>4, <1>5, <1>6, <1>7, <1>8, <1>9, <1>10, <1>11, <1>12 DEF Fine

(* What a step does to the requests: the broker answers one, or nothing    *)
(* new is answered.                                                        *)
LEMMA CallsStep ==
  ASSUME TypeInv, Next
  PROVE  /\ CallsOK(call')
         /\ \/ \A d \in Call : Quietly(call[d], call'[d])
            \/ \E c \in Call : BrokerAnswers(c) /\ OnlyAnswers(c)
<1> DEFINE Fine == /\ CallsOK(call')
                   /\ \/ \A d \in Call : Quietly(call[d], call'[d])
                      \/ \E c \in Call : BrokerAnswers(c) /\ OnlyAnswers(c)
<1>1. UNCHANGED call => Fine
  BY QuietIfSame DEF TypeInv
<1>2. SessionStep => Fine
  BY <1>1, Asking DEF SessionStep, CacheExpires, TokenExpires
<1>3. IdentityStep => Fine
  <2>1. ToggleProxyDetails => Fine
    BY Asking DEF ToggleProxyDetails, SectionOps
  <2>2. LinkMade => Fine
    BY <1>1 DEF LinkMade
  <2> HIDE DEF Fine
  <2> QED BY <2>1, <2>2, Asking, CardAsks DEF IdentityStep, Fine
<1>4. TokensStep => Fine
  <2>1. ASSUME NEW t \in Token PROVE OpenRevokeConfirm(t) => UNCHANGED call
    BY DEF OpenRevokeConfirm
  <2> QED BY <1>1, <2>1, Asking DEF TokensStep, OpenMintDialog, CloseMintDialog, CloseRevokeConfirm
<1>5. ToggleTools => Fine
  BY Asking DEF ToggleTools, SectionOps
<1>6. ASSUME NEW c \in Call, Request(c) PROVE Fine
  <2>1. CASE BrokerAnswers(c)
    BY <2>1, BrokerAnswersOK
  <2>2. CASE BrokerRejects(c) \/ RequestFails(c) \/ RenewSucceeds(c) \/ RenewFails(c)
    BY <2>2, NetworkOK
  <2>3. CASE \/ NavAnswered(c) \/ SignOutPurged(c) \/ Loaded(c) \/ ChangeAnswered(c)
             \/ SectionAnswered(c) \/ TokensListed(c) \/ MintAnswered(c) \/ RevokeAnswered(c)
    BY <2>3, ContinuationOK
  <2> QED BY <1>6, <2>1, <2>2, <2>3
          DEF Request, SessionRequest, IdentityRequest, TokensRequest, BrokerAnswers
<1>7. NewDocument => Fine
  BY DocumentGoes, AbandonedQuietly DEF TypeInv
<1> QED BY <1>2, <1>3, <1>4, <1>5, <1>6, <1>7 DEF Next

---------------------------------------------------------------------------
(* The types                                                               *)

SessionTypes ==
  /\ user \in Users
  /\ cache \in Snapshots \cup {Null}
  /\ page \in Pages /\ idp \in Subject \cup {Nobody}
  /\ nav \in {"splash", "asked", "shown", "hidden"} /\ signout \in {"no", "purging", "leaving"}
  /\ acct \in [Subject -> Account] /\ acked \in [Subject -> Nat] /\ rev \in [Subject -> Nat]
PageTypes ==
  /\ shown \in Account \cup {Null} /\ unsure \subseteq Cards /\ landed \in BOOLEAN
  /\ sec \in Sections /\ sec.asked <= sec.seq
  /\ phase \in {"new", "loading", "ready", "failed"}
  /\ phase = "ready" => shown \in Account
TokenTypes ==
  /\ rows \in Rows /\ told \in Rows
  /\ minted \in Token \cup {Null} /\ pending \in Token \cup {Null}
  /\ pat \in [Token -> [own : Subject \cup {Nobody}, state : PatStates]]
(* What links a request to the page it came from.                          *)
Origins ==
  /\ phase # "new" => page = "identities"
  /\ sec.view = "active" => phase = "ready" /\ user.sub \in Subject
  /\ \A c \in Call : call[c].live =>
       /\ call[c].who = user.sub
       /\ call[c].op \in CardOps \cup {"status"} => phase = "ready"
       /\ call[c].op = "load" => phase = "loading"
  /\ \A c, d \in Call :
       call[c].live /\ call[d].live /\ call[c].op = "load" /\ call[d].op = "load" => c = d

LEMMA TypeParts == TypeInv <=> CallsOK(call) /\ SessionTypes /\ PageTypes /\ TokenTypes /\ Origins
<1>1. CallsOK(call) => \A c \in Call :
         /\ call[c].pc \in {"idle", "renew", "sent", "reply"}
         /\ call[c].try \in 0 .. 2 /\ call[c].ans \in Answers
         /\ call[c].live => call[c].op # "none"
         /\ call[c].pc = "reply" => call[c].ans # "none"
  BY DEF CallsOK, CallOK, Requests
<1>2. sec \in Sections => sec.seq \in Nat
  BY DEF Sections
<1> QED BY <1>1, <1>2
       DEF TypeInv, TypeOK, SessionTypes, PageTypes, TokenTypes, Origins, PhaseOK, Users, Rows

(* A snapshot in an answer is one, an answer that is passed on is one.     *)
LEMMA CacheAfterOK ==
  ASSUME TypeInv, NEW c \in Call, call[c].pc = "reply"
  PROVE  CacheAfter(c) \in Snapshots \cup {Null}
<1>1. CASE call[c].ans = "ok" /\ call[c].op \in IdentityReads
  <2>1. call[c].got \in Snapshots /\ call[c].overlap \in BOOLEAN
    BY <1>1 DEF TypeInv, CallsOK, CallOK, Settled, GotOK, Requests
  <2>2. CacheAfter(c) = [call[c].got EXCEPT !.overlap = call[c].overlap]
    BY <1>1 DEF CacheAfter
  <2> QED BY <2>1, <2>2 DEF Snapshots
<1>2. CASE ~(call[c].ans = "ok" /\ call[c].op \in IdentityReads)
  BY <1>2, TypeParts DEF CacheAfter, SessionTypes
<1> QED BY <1>1, <1>2

(* A change at the broker keeps the account one.                           *)
LEMMA EffectsOK ==
  ASSUME NEW op \in CardOps, NEW arg, ArgOK(op, arg), NEW a \in Account, NEW e \in Effects(op, arg, a)
  PROVE  e.acct \in Account /\ e.ans \in {"ok", "conflict"}
<1>1. CASE op = "x509-link"
  <2>1. [a EXCEPT !.x509 = arg, !.proxy = TRUE] \in Account
    BY <1>1 DEF ArgOK, Modes, Account
  <2>2. e = [acct |-> [a EXCEPT !.x509 = arg, !.proxy = TRUE], ans |-> "ok"]
    BY <1>1 DEF Effects
  <2> QED BY <2>1, <2>2
<1>2. CASE op = "x509-revoke"
  <2> DEFINE b == [a EXCEPT !.proxy = FALSE, !.x509 = IF @ = "until-expiry" THEN "none" ELSE @]
  <2>1. b \in Account
    BY DEF Account
  <2>2. e = [acct |-> b, ans |-> "ok"]
    BY <1>2 DEF Effects
  <2> QED BY <2>1, <2>2
<1>3. CASE op = "krb5-keytab"
  BY <1>3 DEF Effects, Account
<1>4. CASE op = "krb5-forget"
  BY <1>4 DEF Effects, Account
<1>5. CASE op = "unlink"
  <2>1. [a EXCEPT !.iam = FALSE] \in Account
    BY DEF Account
  <2>2. e = [acct |-> [a EXCEPT !.iam = FALSE], ans |-> "ok"]
    BY <1>5 DEF Effects
  <2> QED BY <2>1, <2>2
<1>6. CASE op = "krb5-refresh"
  BY <1>6 DEF Effects, Account
<1> QED BY <1>1, <1>2, <1>3, <1>4, <1>5, <1>6 DEF CardOps, X509Ops, Krb5Ops, TicketOps

LEMMA PatchedOK ==
  ASSUME NEW op \in CardOps, NEW arg, ArgOK(op, arg), shown \in Account
  PROVE  Patched(op, arg) \in Account
<1>1. CASE op = "x509-link"
  BY <1>1 DEF Patched, ArgOK, Modes, Account
<1>2. CASE op = "x509-revoke"
  BY <1>2 DEF Patched, Account
<1>3. CASE op = "krb5-keytab"
  BY <1>3 DEF Patched, Account
<1>4. CASE op = "krb5-forget"
  BY <1>4 DEF Patched, Account
<1>5. CASE op = "unlink"
  BY <1>5 DEF Patched, Account
<1>6. CASE op = "krb5-refresh"
  BY <1>6 DEF Patched, Account
<1> QED BY <1>1, <1>2, <1>3, <1>4, <1>5, <1>6 DEF CardOps, X509Ops, Krb5Ops, TicketOps

LEMMA SessionTypesStep ==
  ASSUME TypeInv, Next PROVE SessionTypes'
<1>0. SessionTypes /\ CallsOK(call)
  BY TypeParts
<1>a. UNCHANGED <<session, broker, acked>> => SessionTypes'
  BY <1>0 DEF SessionTypes, session, broker, Users, NoUser
<1>b. ASSUME NEW c \in Call, call[c].pc = "reply", cache' \in {Null, CacheAfter(c)},
             nav' \in {"splash", "asked", "shown", "hidden"}, signout' \in {"no", "purging", "leaving"},
             UNCHANGED <<user, page, idp, broker>>, acked' \in [Subject -> Nat]
      PROVE  SessionTypes'
  BY <1>0, <1>b, CacheAfterOK DEF SessionTypes, broker, Users, NoUser
<1>1. ASSUME SessionStep PROVE SessionTypes'
  <2>1. CASE OpenGate \/ SignOutClick \/ CacheExpires
    BY <1>0, <2>1 DEF OpenGate, SignOutClick, CacheExpires, SessionTypes, broker, Users, NoUser
  <2>2. CASE TokenExpires
    <3>1. user \in [sub : Subject, token : {"live", "expired"}]
      BY <1>0, <2>2 DEF TokenExpires, SignedIn, SessionTypes, Users, NoUser
    <3> QED BY <1>0, <2>2, <3>1 DEF TokenExpires, SessionTypes, broker, Users, NoUser
  <2> QED BY <1>1, <2>1, <2>2 DEF SessionStep
<1>2. ASSUME IdentityStep PROVE SessionTypes'
  <2>1. CASE Mount
    <3>1. acked' \in [Subject -> Nat]
      <4>1. CASE landed
        <5>1. acked' = [acked EXCEPT ![user.sub] = rev[user.sub]]
          BY <2>1, <4>1 DEF Mount
        <5>2. CASE user.sub \in Subject
          BY <1>0, <5>1, <5>2 DEF SessionTypes
        <5>3. CASE user.sub \notin Subject
          BY <1>0, <5>1, <5>3 DEF SessionTypes
        <5> QED BY <5>2, <5>3
      <4>2. CASE ~landed
        BY <1>0, <2>1, <4>2 DEF Mount, SessionTypes
      <4> QED BY <4>1, <4>2
    <3>2. cache' \in {cache, Null}
      BY <2>1 DEF Mount
    <3> QED BY <1>0, <2>1, <3>1, <3>2 DEF Mount, SessionTypes, broker, Users, NoUser
  <2>2. CASE ToggleProxyDetails
    BY <1>0, <2>2 DEF ToggleProxyDetails, SessionTypes, broker, Users, NoUser
  <2>3. CASE LinkMade
    <3>1. user.sub \in Subject
      BY <1>0, <2>3 DEF LinkMade, SignedIn, SessionTypes, Users, NoUser
    <3>2. acct[user.sub] \in Account /\ rev[user.sub] \in Nat
      BY <1>0, <3>1 DEF SessionTypes
    <3>3. [acct[user.sub] EXCEPT !.iam = TRUE] \in Account
      BY <3>2 DEF Account
    <3>4. acct' \in [Subject -> Account] /\ rev' \in [Subject -> Nat]
      BY <1>0, <2>3, <3>1, <3>2, <3>3 DEF LinkMade, SessionTypes
    <3> QED BY <1>0, <2>3, <3>4 DEF LinkMade, SessionTypes, tab, session, Users, NoUser
  <2>4. ASSUME NEW op \in CardOps, NEW arg \in Args, CardAsked(op, arg) PROVE SessionTypes'
    BY <1>a, <2>4 DEF CardAsked, Ask
  <2> QED BY <1>2, <2>1, <2>2, <2>3, <2>4, CardAsks DEF IdentityStep
<1>3. ASSUME TokensStep PROVE SessionTypes'
  <2>1. ASSUME NEW t \in Token, OpenRevokeConfirm(t) PROVE UNCHANGED <<session, broker, acked>>
    BY <2>1 DEF OpenRevokeConfirm, OnTokens, session
  <2> QED BY <1>3, <1>a, <2>1 DEF TokensStep, LoadTokens, OpenMintDialog, CloseMintDialog, Mint, Done,
             CloseRevokeConfirm, Revoke, OnTokens, session
<1>4. ASSUME ToggleTools PROVE SessionTypes'
  BY <1>a, <1>4 DEF ToggleTools, session
<1>5. ASSUME NEW c \in Call, Request(c) PROVE SessionTypes'
  <2>1. CASE \/ BrokerRejects(c) \/ RequestFails(c) \/ RenewFails(c) \/ BrokerReads(c) \/ BrokerPurges(c)
             \/ BrokerLists(c) \/ BrokerListsTokens(c) \/ BrokerMints(c) \/ BrokerRevokes(c)
    BY <1>a, <2>1 DEF BrokerRejects, RequestFails, RenewFails, BrokerReads, BrokerPurges, BrokerLists,
         BrokerListsTokens, BrokerMints, BrokerRevokes, tab
  <2>2. CASE RenewSucceeds(c)
    <3>1. call[c].live /\ call[c].who = user.sub /\ call[c].who \in Subject
      BY <1>0, <2>2, TypeParts DEF RenewSucceeds, CallsOK, CallOK, Origins
    <3>2. user \in [sub : Subject, token : {"live", "expired"}]
      BY <1>0, <3>1, NobodyAssumption DEF SessionTypes, Users, NoUser
    <3> QED BY <1>0, <2>2, <3>2 DEF RenewSucceeds, SessionTypes, broker, Users, NoUser
  <2>3. CASE BrokerChanges(c)
    <3>1. PICK e \in Effects(call[c].op, call[c].arg, acct[call[c].who]) :
             /\ acct' = [acct EXCEPT ![call[c].who] = e.acct]
             /\ rev' = [rev EXCEPT ![call[c].who] = IF e.acct = acct[call[c].who] THEN @ ELSE @ + 1]
      BY <2>3 DEF BrokerChanges
    <3>2. call[c].op \in CardOps /\ ArgOK(call[c].op, call[c].arg) /\ call[c].who \in Subject
      BY <1>0, <2>3 DEF BrokerChanges, CallsOK, CallOK
    <3>3. acct[call[c].who] \in Account /\ rev[call[c].who] \in Nat
      BY <1>0, <3>2 DEF SessionTypes
    <3>4. e.acct \in Account
      BY <3>1, <3>2, <3>3, EffectsOK
    <3>5. acct' \in [Subject -> Account]
      BY <1>0, <3>1, <3>4 DEF SessionTypes
    <3>6. rev' \in [Subject -> Nat]
      <4> DEFINE n == IF e.acct = acct[call[c].who] THEN rev[call[c].who] ELSE rev[call[c].who] + 1
      <4>1. n \in Nat
        BY <3>3
      <4>2. rev' = [rev EXCEPT ![call[c].who] = n]
        BY <3>1
      <4> HIDE DEF n
      <4> QED BY <1>0, <4>1, <4>2 DEF SessionTypes
    <3> QED BY <1>0, <2>3, <3>5, <3>6 DEF BrokerChanges, SessionTypes, session, Users, NoUser
  <2>4. CASE NavAnswered(c) \/ SignOutPurged(c) \/ Loaded(c) \/ SectionAnswered(c)
    BY <1>0, <1>b, <2>4 DEF NavAnswered, SignOutPurged, Loaded, SectionAnswered, SessionTypes
  <2>5. CASE TokensListed(c) \/ MintAnswered(c) \/ RevokeAnswered(c)
    BY <1>0, <1>b, <2>5 DEF TokensListed, MintAnswered, RevokeAnswered, OnTokens, SessionTypes
  <2>6. CASE ChangeAnswered(c)
    <3>1. acked' \in [Subject -> Nat]
      <4>1. CASE UNCHANGED acked
        BY <1>0, <4>1 DEF SessionTypes
      <4>2. CASE Emits(c) /\ acked' = [acked EXCEPT ![call[c].who] = IF @ < call[c].got THEN call[c].got ELSE @]
        <5>1. call[c].got \in Nat
          BY <1>0, <2>6, <4>2 DEF ChangeAnswered, Emits, CallsOK, CallOK, Settled, GotOK
        <5> QED BY <1>0, <4>2, <5>1 DEF SessionTypes
      <4> QED BY <2>6, <4>1, <4>2 DEF ChangeAnswered
    <3>2. cache' \in {Null, CacheAfter(c)}
      BY <2>6 DEF ChangeAnswered, CacheAfterChange
    <3> QED BY <1>0, <1>b, <2>6, <3>1, <3>2 DEF ChangeAnswered, SessionTypes
  <2> QED BY <1>5, <2>1, <2>2, <2>3, <2>4, <2>5, <2>6
          DEF Request, SessionRequest, IdentityRequest, TokensRequest
<1>6. ASSUME NewDocument PROVE SessionTypes'
  <2>1. \A s \in Subject : [acked EXCEPT ![s] = rev[s]] \in [Subject -> Nat]
    BY <1>0 DEF SessionTypes
  <2> QED BY <1>0, <1>6, <2>1, DocumentGoes DEF SessionTypes, broker, Users, NoUser
<1> QED BY <1>1, <1>2, <1>3, <1>4, <1>5, <1>6 DEF Next

(* The section after an answer to one of its fetches, or to a card.        *)
LEMMA SectionAfterOK ==
  ASSUME TypeInv, NEW c \in Call, call[c].pc = "reply", call[c].op \in SectionOps
  PROVE  SectionAfter(c) \in Sections /\ SectionAfter(c).asked <= SectionAfter(c).seq
<1>1. sec \in Sections /\ sec.asked <= sec.seq
  BY TypeParts DEF PageTypes
<1>2. CASE call[c].arg = sec.seq
  <2> DEFINE view == IF call[c].ans = "ok" THEN call[c].got ELSE Null
  <2>1. call[c].arg \in Nat /\ view \in Views \cup {Null} /\ call[c].overlap \in BOOLEAN
    BY DEF TypeInv, CallsOK, CallOK, ArgOK, Settled, GotOK, Requests
  <2>2. SectionAfter(c) = [sec EXCEPT !.view = view, !.asked = call[c].arg,
                                      !.overlap = call[c].overlap, !.loading = FALSE]
    BY <1>2 DEF SectionAfter
  <2> HIDE DEF view
  <2> DEFINE s == [sec EXCEPT !.view = view, !.asked = call[c].arg,
                              !.overlap = call[c].overlap, !.loading = FALSE]
  <2>3. s \in Sections
    BY <1>1, <2>1 DEF Sections
  <2>4. s.asked = call[c].arg /\ s.seq = sec.seq /\ sec.seq \in Nat
    BY <1>1 DEF Sections
  <2> HIDE DEF s
  <2>5. s.asked <= s.seq
    BY <1>2, <2>4
  <2> QED BY <2>2, <2>3, <2>5 DEF s
<1>3. CASE call[c].arg # sec.seq
  BY <1>1, <1>3 DEF SectionAfter
<1> QED BY <1>2, <1>3

LEMMA SectionPatchedOK ==
  ASSUME TypeInv, NEW op \in CardOps
  PROVE  SectionPatched(op) \in Sections /\ SectionPatched(op).asked <= SectionPatched(op).seq
<1>1. sec \in Sections /\ sec.asked <= sec.seq
  BY TypeParts DEF PageTypes
<1>2. CASE op = "x509-link"
  BY <1>1, <1>2 DEF SectionPatched, Sections
<1>3. CASE op = "x509-revoke"
  BY <1>1, <1>3 DEF SectionPatched, Sections, Views
<1>4. CASE op \notin X509Ops
  BY <1>1, <1>4 DEF SectionPatched, X509Ops
<1> QED BY <1>2, <1>3, <1>4 DEF X509Ops

LEMMA ToggleOK ==
  ASSUME TypeInv, NEW op, Toggle(op)
  PROVE  sec' \in Sections /\ sec'.asked <= sec'.seq /\ sec'.view = sec.view /\ sec'.overlap = sec.overlap
         /\ sec'.asked = sec.asked
<1>1. sec \in Sections /\ sec.asked \in Nat /\ sec.seq \in Nat /\ sec.asked <= sec.seq
  BY TypeParts DEF PageTypes, Sections
<1>2. sec.seq + 1 \in Nat /\ sec.asked <= sec.seq + 1
  BY <1>1
<1>3. \/ sec' = [sec EXCEPT !.open = FALSE, !.seq = sec.seq + 1]
      \/ sec' = [sec EXCEPT !.open = TRUE, !.seq = sec.seq + 1, !.loading = TRUE]
  BY DEF Toggle
<1>4. ASSUME NEW n \in Nat, sec.asked <= n, NEW s,
             \/ s = [sec EXCEPT !.open = FALSE, !.seq = n]
             \/ s = [sec EXCEPT !.open = TRUE, !.seq = n, !.loading = TRUE]
      PROVE  s \in Sections /\ s.asked <= s.seq /\ s.view = sec.view /\ s.overlap = sec.overlap
             /\ s.asked = sec.asked
  BY <1>1, <1>4 DEF Sections
<1> QED BY <1>2, <1>3, <1>4

LEMMA CardsUnsure == \A op \in CardOps : Card(op) \in Cards
BY DEF Card, Cards

LEMMA PageTypesStep ==
  ASSUME TypeInv, Next PROVE PageTypes'
<1>0. PageTypes /\ CallsOK(call) /\ Origins /\ SessionTypes
  BY TypeParts
<1>a. UNCHANGED identityVars => PageTypes'
  BY <1>0 DEF PageTypes, identityVars
<1>b. ASSUME NEW s \in Snapshots, Showing(s) PROVE shown' \in Account /\ phase' = "ready" /\ unsure' \subseteq Cards
  BY <1>b DEF Showing, Snapshots
<1>1. ASSUME IdentityStep PROVE PageTypes'
  <2>1. CASE Mount
    <3>1. landed' \in BOOLEAN /\ UNCHANGED sec
      BY <2>1 DEF Mount
    <3>2. \/ phase' = "loading" /\ UNCHANGED <<shown, unsure>>
          \/ ~landed /\ cache # Null /\ Showing(cache)
      BY <2>1 DEF Mount
    <3>3. cache # Null => cache \in Snapshots
      BY <1>0 DEF SessionTypes
    <3> QED BY <1>0, <1>b, <3>1, <3>2, <3>3 DEF PageTypes
  <2>2. CASE ToggleProxyDetails
    BY <1>0, <2>2, ToggleOK DEF ToggleProxyDetails, PageTypes
  <2>3. CASE LinkMade
    BY <1>a, <2>3 DEF LinkMade
  <2>4. ASSUME NEW op \in CardOps, NEW arg \in Args, CardAsked(op, arg) PROVE PageTypes'
    BY <1>0, <2>4 DEF CardAsked, Ask, PageTypes, Cards
  <2> QED BY <1>1, <2>1, <2>2, <2>3, <2>4, CardAsks DEF IdentityStep
<1>2. ASSUME ToggleTools PROVE PageTypes'
  BY <1>0, <1>2, ToggleOK DEF ToggleTools, PageTypes
<1>3. ASSUME NEW c \in Call, IdentityRequest(c) PROVE PageTypes'
  <2>1. CASE Loaded(c)
    <3>1. call[c].ans = "ok" => call[c].got \in Snapshots
      BY <1>0, <2>1 DEF Loaded, CallsOK, CallOK, Settled, GotOK, IdentityReads
    <3>2. CASE call[c].ans = "ok"
      BY <1>0, <1>b, <2>1, <3>1, <3>2 DEF Loaded, PageTypes
    <3>3. CASE call[c].ans # "ok"
      BY <1>0, <2>1, <3>3 DEF Loaded, PageTypes
    <3> QED BY <3>2, <3>3
  <2>2. CASE BrokerChanges(c)
    <3>1. unsure' \in {unsure, unsure \cup {Card(call[c].op)}} /\ Card(call[c].op) \in Cards
      BY <2>2, CardsUnsure DEF BrokerChanges
    <3> QED BY <1>0, <2>2, <3>1 DEF BrokerChanges, PageTypes
  <2>3. CASE ChangeAnswered(c)
    <3>1. /\ call[c].op \in CardOps /\ ArgOK(call[c].op, call[c].arg) /\ call[c].live
      BY <1>0, <2>3 DEF ChangeAnswered, CallsOK, CallOK
    <3>2. phase = "ready" /\ shown \in Account
      BY <1>0, <3>1 DEF Origins, PageTypes
    <3>3. shown' \in Account
      <4>1. [shown EXCEPT !.krb5 = IF @ = "keytab" THEN "ticket" ELSE @] \in Account
        BY <3>2 DEF Account
      <4>2. shown' \in {shown, Patched(call[c].op, call[c].arg),
                        [shown EXCEPT !.krb5 = IF @ = "keytab" THEN "ticket" ELSE @]}
        BY <2>3 DEF ChangeAnswered
      <4> QED BY <3>1, <3>2, <4>1, <4>2, PatchedOK
    <3>4. sec' \in Sections /\ sec'.asked <= sec'.seq
      <4>1. sec' \in {sec, SectionPatched(call[c].op)}
        BY <2>3 DEF ChangeAnswered
      <4> QED BY <1>0, <3>1, <4>1, SectionPatchedOK DEF PageTypes
    <3> QED BY <1>0, <2>3, <3>3, <3>4 DEF ChangeAnswered, PageTypes
  <2> QED BY <1>3, <2>1, <2>2, <2>3 DEF IdentityRequest
<1>4. ASSUME NEW c \in Call, BrokerLists(c) \/ SectionAnswered(c), UNCHANGED <<shown, phase, landed, unsure>>
      PROVE  PageTypes'
  <2>1. CASE BrokerLists(c)
    BY <1>0, <1>4, <2>1 DEF BrokerLists, PageTypes
  <2>2. CASE SectionAnswered(c)
    BY <1>0, <1>4, <2>2, SectionAfterOK DEF SectionAnswered, PageTypes
  <2> QED BY <1>4, <2>1, <2>2
<1>5. ASSUME NewDocument PROVE PageTypes'
  <2>1. NoSection \in Sections /\ NoSection.asked <= NoSection.seq
    BY DEF NoSection, Sections
  <2> QED BY <1>5, <2>1, DocumentGoes DEF IdentityReset, PageTypes
<1> QED BY <1>a, <1>1, <1>2, <1>3, <1>4, <1>5 DEF Next, Request

LEMMA TokenTypesStep ==
  ASSUME TypeInv, Next PROVE TokenTypes'
<1>0. TokenTypes /\ CallsOK(call)
  BY TypeParts
<1>a. UNCHANGED <<pat, tokenVars>> => TokenTypes'
  BY <1>0 DEF TokenTypes, tokenVars
<1>1. ASSUME TokensStep PROVE TokenTypes'
  <2>1. ASSUME NEW t \in Token, OpenRevokeConfirm(t) PROVE TokenTypes'
    BY <1>0, <2>1 DEF OpenRevokeConfirm, TokenTypes
  <2>2. CASE LoadTokens \/ OpenMintDialog \/ CloseMintDialog \/ CloseRevokeConfirm \/ Revoke
    BY <1>0, <2>2 DEF LoadTokens, OpenMintDialog, CloseMintDialog, CloseRevokeConfirm, Revoke, TokenTypes
  <2>3. CASE Mint
    BY <1>a, <2>3 DEF Mint
  <2>4. CASE Done
    <3>1. told' = [told EXCEPT ![minted] = IF @ = "absent" THEN "active" ELSE @] /\ minted \in Token
      BY <1>0, <2>4 DEF Done, TokenTypes
    <3>2. told' \in Rows
      BY <1>0, <3>1 DEF TokenTypes, Rows, PatStates
    <3> QED BY <1>0, <2>4, <3>2 DEF Done, TokenTypes
  <2> QED BY <1>1, <2>1, <2>2, <2>3, <2>4 DEF TokensStep
<1>2. ASSUME NEW c \in Call, TokensRequest(c) PROVE TokenTypes'
  <2>1. CASE BrokerListsTokens(c)
    BY <1>a, <2>1 DEF BrokerListsTokens
  <2>2. CASE TokensListed(c)
    <3>1. call[c].ans = "ok" => call[c].got \in Rows
      BY <1>0, <2>2 DEF TokensListed, CallsOK, CallOK, Settled, GotOK
    <3> QED BY <1>0, <2>2, <3>1 DEF TokensListed, TokenTypes
  <2>3. CASE BrokerMints(c)
    <3>1. PICK t \in Token : pat' = [pat EXCEPT ![t] = [own |-> call[c].who, state |-> "active"]]
      BY <2>3 DEF BrokerMints
    <3>2. call[c].who \in Subject
      BY <1>0, <2>3 DEF BrokerMints, CallsOK, CallOK
    <3> QED BY <1>0, <2>3, <3>1, <3>2 DEF BrokerMints, TokenTypes, tokenVars, PatStates
  <2>4. CASE MintAnswered(c)
    <3>1. call[c].ans = "ok" => call[c].got \in Token
      BY <1>0, <2>4 DEF MintAnswered, CallsOK, CallOK, Settled, GotOK
    <3> QED BY <1>0, <2>4, <3>1 DEF MintAnswered, TokenTypes
  <2>5. CASE BrokerRevokes(c)
    <3>1. call[c].arg \in Token
      BY <1>0, <2>5 DEF BrokerRevokes, CallsOK, CallOK, ArgOK
    <3>2. [pat[call[c].arg] EXCEPT !.state = "revoked"] \in [own : Subject \cup {Nobody}, state : PatStates]
      BY <1>0, <3>1 DEF TokenTypes, PatStates
    <3>3. pat' \in [Token -> [own : Subject \cup {Nobody}, state : PatStates]]
      BY <1>0, <2>5, <3>1, <3>2 DEF BrokerRevokes, TokenTypes
    <3> QED BY <1>0, <2>5, <3>3 DEF BrokerRevokes, TokenTypes, tokenVars
  <2>6. CASE RevokeAnswered(c)
    <3>1. call[c].arg \in Token
      BY <1>0, <2>6 DEF RevokeAnswered, CallsOK, CallOK, ArgOK
    <3>2. RowRevoked(call[c].arg) \in Rows /\ [told EXCEPT ![call[c].arg] = "revoked"] \in Rows
      BY <1>0, <3>1 DEF RowRevoked, TokenTypes, Rows, PatStates
    <3> QED BY <1>0, <2>6, <3>2 DEF RevokeAnswered, TokenTypes
  <2> QED BY <1>2, <2>1, <2>2, <2>3, <2>4, <2>5, <2>6 DEF TokensRequest
<1>3. ASSUME NewDocument PROVE TokenTypes'
  <2>1. NoRows \in Rows
    BY DEF NoRows, Rows, PatStates
  <2> QED BY <1>0, <1>3, <2>1, DocumentGoes DEF TokensReset, TokenTypes
<1>4. CASE ToggleTools /\ UNCHANGED <<pat, tokenVars>>
  BY <1>a, <1>4
<1> QED BY <1>a, <1>1, <1>2, <1>3, <1>4 DEF Next, Request

(* Requests that go on, end or are told they were overtaken come from      *)
(* where they came from.                                                   *)
GoesOn(x, y) == y.live => x.live /\ y.op = x.op /\ y.who = x.who
Kept == \A d \in Call : GoesOn(call[d], call'[d])

LEMMA KeptOrigins ==
  ASSUME Origins, Kept, user'.sub = user.sub, phase' = phase, page' = page,
         sec'.view = "active" => sec.view = "active"
  PROVE  Origins'
BY DEF Origins, Kept, GoesOn

LEMMA AnsweredKept ==
  ASSUME TypeInv, NEW c \in Call, OnlyAnswers(c)
  PROVE  Kept
BY DEF OnlyAnswers, Kept, GoesOn, TypeInv, CallsOK

LEMMA ContinuedKept ==
  ASSUME NEW c \in Call,
         \A d \in Call : (call'[d].op = "none" /\ ~call'[d].live) \/ (d # c /\ Same(call[d], call'[d]))
  PROVE  Kept /\ ~call'[c].live
BY DEF Kept, GoesOn, Same

(* A new request of a document that may make it.                           *)
LEMMA BegunOrigins ==
  ASSUME TypeInv, NEW op, NEW arg, Begins(op, arg),
         user'.sub = user.sub, page' = page,
         phase' = phase \/ (phase = "new" /\ phase' = "loading" /\ page = "identities"),
         sec'.view = "active" => sec.view = "active",
         op \in CardOps \cup {"status"} => phase = "ready",
         op = "load" => phase = "new" /\ phase' = "loading"
  PROVE  Origins'
<1>1. Origins /\ CallsOK(call) /\ user \in Users
  BY TypeParts DEF SessionTypes
<1>2. Started(op, arg).op = op /\ Started(op, arg).who = user.sub
  BY DEF Started
<1>3. \A d \in Call : call[d].pc = "idle" => ~call[d].live
  BY <1>1 DEF CallsOK, CallOK
<1>4. phase = "new" => \A d \in Call : call[d].live => call[d].op \notin CardOps \cup {"status", "load"}
  BY <1>1 DEF Origins
<1>5. ASSUME NEW d \in Call, call'[d].live
      PROVE  /\ call'[d].who = user'.sub
             /\ call'[d].op \in CardOps \cup {"status"} => phase' = "ready"
             /\ call'[d].op = "load" => phase' = "loading"
  <2>1. CASE Same(call[d], call'[d])
    <3>1. call[d].live /\ call'[d].op = call[d].op /\ call'[d].who = call[d].who
      BY <1>5, <2>1 DEF Same
    <3> QED BY <1>1, <1>4, <3>1 DEF Origins
  <2>2. CASE call'[d] = Started(op, arg)
    <3>1. "load" \notin CardOps \cup {"status"}
      BY DEF CardOps, X509Ops, Krb5Ops, TicketOps
    <3> QED BY <1>2, <2>2, <3>1
  <2> QED BY <2>1, <2>2 DEF Begins
<1>6. ASSUME NEW c \in Call, NEW d \in Call, c # d,
             call'[c].live, call'[d].live, call'[c].op = "load", call'[d].op = "load"
      PROVE  FALSE
  <2>1. /\ Same(call[c], call'[c]) => call[c].live /\ call[c].op = "load"
        /\ Same(call[d], call'[d]) => call[d].live /\ call[d].op = "load"
    BY <1>6 DEF Same
  <2>2. CASE Same(call[c], call'[c]) /\ Same(call[d], call'[d])
    BY <1>1, <1>6, <2>1, <2>2 DEF Origins
  <2>3. CASE op = "load"
    <3>1. ~Same(call[c], call'[c]) /\ ~Same(call[d], call'[d])
      BY <1>4, <2>1, <2>3
    <3> QED BY <1>6, <3>1 DEF Begins
  <2> QED BY <1>2, <1>6, <2>2, <2>3 DEF Begins
<1>7. /\ phase' # "new" => page' = "identities"
      /\ sec'.view = "active" => phase' = "ready" /\ user'.sub \in Subject
  BY <1>1 DEF Origins
<1> QED BY <1>5, <1>6, <1>7 DEF Origins

LEMMA KeptIfUnchanged == UNCHANGED call => Kept
BY DEF Kept, GoesOn

LEMMA OriginsStep ==
  ASSUME TypeInv, Next PROVE Origins'
<1>0. Origins /\ CallsOK(call) /\ SessionTypes /\ PageTypes
  BY TypeParts
<1>a. ASSUME Kept, user'.sub = user.sub, UNCHANGED <<page, phase, sec>> PROVE Origins'
  BY <1>0, <1>a, KeptOrigins
<1>b. ASSUME NEW op \in {"nav", "purge", "list", "mint", "revoke"}, NEW arg, Begins(op, arg),
             UNCHANGED <<user, page, phase, sec>>
      PROVE  Origins'
  BY <1>b, BegunOrigins DEF CardOps, X509Ops, Krb5Ops, TicketOps
<1>1. ASSUME SessionStep, UNCHANGED <<identityVars, pat, tokenVars>> PROVE Origins'
  <2>1. UNCHANGED <<phase, sec>>
    BY <1>1 DEF identityVars
  <2>2. CASE OpenGate
    BY <1>a, <1>b, <2>1, <2>2, Asking, KeptIfUnchanged DEF OpenGate
  <2>3. CASE SignOutClick
    BY <1>b, <2>1, <2>3, Asking DEF SignOutClick
  <2>4. CASE CacheExpires
    BY <1>a, <2>1, <2>4, KeptIfUnchanged DEF CacheExpires
  <2>5. CASE TokenExpires
    <3>1. user'.sub = user.sub
      BY <1>0, <2>5 DEF TokenExpires, SessionTypes, Users, NoUser
    <3> QED BY <1>a, <2>1, <2>5, <3>1, KeptIfUnchanged DEF TokenExpires
  <2> QED BY <1>1, <2>2, <2>3, <2>4, <2>5 DEF SessionStep
<1>2. ASSUME IdentityStep PROVE Origins'
  <2>1. CASE Mount
    <3>1. CASE UNCHANGED call
      <4>1. page' = page /\ user' = user /\ sec' = sec /\ page = "identities" /\ phase = "new"
        BY <2>1 DEF Mount
      <4>2. CASE phase' = "ready" \/ phase' = "loading"
        <5>1. ASSUME NEW d \in Call, call[d].live
              PROVE  call[d].op \notin CardOps \cup {"status"} /\ call[d].op # "load"
          BY <1>0, <4>1, <5>1 DEF Origins
        <5> QED BY <1>0, <3>1, <4>1, <4>2, <5>1 DEF Origins
      <4> QED BY <2>1, <4>2 DEF Mount, Showing
    <3>2. CASE Begins("load", Null) /\ phase' = "loading"
      <4>1. "load" \notin CardOps \cup {"status"}
        BY DEF CardOps, X509Ops, Krb5Ops, TicketOps
      <4> QED BY <2>1, <3>2, <4>1, BegunOrigins DEF Mount
    <3> QED BY <2>1, <3>1, <3>2, Asking DEF Mount
  <2>2. CASE ToggleProxyDetails
    <3>1. phase = "ready" /\ UNCHANGED <<user, page, phase>> /\ sec'.view = sec.view
      BY <2>2, ToggleOK DEF ToggleProxyDetails, OnPage
    <3>2. UNCHANGED call \/ Begins("status", sec.seq + 1)
      BY <2>2, Asking DEF ToggleProxyDetails, SectionOps
    <3>3. CASE UNCHANGED call
      BY <1>0, <3>1, <3>3, KeptIfUnchanged, KeptOrigins
    <3>4. CASE Begins("status", sec.seq + 1)
      BY <3>1, <3>4, BegunOrigins
    <3> QED BY <3>2, <3>3, <3>4
  <2>3. CASE LinkMade
    BY <1>a, <2>3, KeptIfUnchanged DEF LinkMade, tab, session, identityVars
  <2>4. ASSUME NEW op \in CardOps, NEW arg \in Args, CardAsked(op, arg) PROVE Origins'
    <3>1. op # "load" /\ Begins(op, arg)
      BY <2>4, Asking DEF CardOps, X509Ops, Krb5Ops, TicketOps
    <3>2. phase = "ready" /\ UNCHANGED <<user, page, phase, sec>>
      BY <2>4 DEF CardAsked, Ask, OnPage, session
    <3> QED BY <3>1, <3>2, BegunOrigins
  <2> QED BY <1>2, <2>1, <2>2, <2>3, <2>4, CardAsks DEF IdentityStep
<1>3. ASSUME TokensStep, UNCHANGED identityVars PROVE Origins'
  <2>1. UNCHANGED <<user, page, phase, sec>>
    <3>1. ASSUME NEW t \in Token, OpenRevokeConfirm(t) PROVE UNCHANGED <<user, page>>
      BY <3>1 DEF OpenRevokeConfirm, OnTokens
    <3> QED BY <1>3, <3>1 DEF TokensStep, LoadTokens, OpenMintDialog, CloseMintDialog, Mint, Done,
               CloseRevokeConfirm, Revoke, OnTokens, identityVars
  <2>2. ASSUME NEW t \in Token, OpenRevokeConfirm(t) PROVE UNCHANGED call
    BY <2>2 DEF OpenRevokeConfirm
  <2>3. CASE UNCHANGED call
    BY <1>a, <2>1, <2>3, KeptIfUnchanged
  <2>4. CASE LoadTokens \/ Mint \/ Revoke \/ Done
    BY <1>b, <2>1, <2>4, Asking
  <2> QED BY <1>3, <2>2, <2>3, <2>4 DEF TokensStep, OpenMintDialog, CloseMintDialog, CloseRevokeConfirm
<1>4. ASSUME ToggleTools PROVE Origins'
  <2>1. UNCHANGED <<user, page, phase>> /\ sec'.view = sec.view
    BY <1>4, ToggleOK DEF ToggleTools
  <2>2. CASE UNCHANGED call
    BY <1>0, <2>1, <2>2, KeptIfUnchanged, KeptOrigins
  <2>3. CASE Begins("tools", sec.seq + 1)
    <3>1. "tools" \notin CardOps \cup {"status"}
      BY DEF CardOps, X509Ops, Krb5Ops, TicketOps
    <3> QED BY <2>1, <2>3, <3>1, BegunOrigins
  <2> QED BY <1>4, <2>2, <2>3, Asking DEF ToggleTools, SectionOps
<1>5. ASSUME NEW c \in Call, Request(c) PROVE Origins'
  <2>1. CASE /\ BrokerReads(c) \/ BrokerPurges(c)
             /\ UNCHANGED <<identityVars, pat, tokenVars>>
    BY <1>a, <2>1, BrokerAnswersOK, AnsweredKept
       DEF BrokerReads, BrokerPurges, BrokerAnswers, tab, session, identityVars
  <2>2. CASE BrokerLists(c) /\ UNCHANGED <<shown, phase, landed, unsure, pat, tokenVars>>
    BY <1>a, <2>2, BrokerAnswersOK, AnsweredKept DEF BrokerLists, BrokerAnswers, tab, session
  <2>3. CASE (BrokerListsTokens(c) \/ BrokerMints(c) \/ BrokerRevokes(c)) /\ UNCHANGED identityVars
    BY <1>a, <2>3, BrokerAnswersOK, AnsweredKept
       DEF BrokerListsTokens, BrokerMints, BrokerRevokes, BrokerAnswers, tab, session, identityVars
  <2>4. CASE BrokerChanges(c)
    BY <1>a, <2>4, BrokerAnswersOK, AnsweredKept DEF BrokerChanges, BrokerAnswers, session
  <2>5. CASE /\ BrokerRejects(c) \/ RequestFails(c) \/ RenewSucceeds(c) \/ RenewFails(c)
             /\ UNCHANGED <<identityVars, pat, tokenVars>>
    <3>1. user'.sub = user.sub /\ page' = page
      BY <1>0, <2>5 DEF BrokerRejects, RequestFails, RenewSucceeds, RenewFails, session, SessionTypes, Users, NoUser
    <3>2. Kept
      BY <2>5, NetworkOK DEF Kept, GoesOn
    <3> QED BY <1>a, <2>5, <3>1, <3>2 DEF identityVars
  <2>6. CASE /\ NavAnswered(c) \/ SignOutPurged(c)
             /\ UNCHANGED <<identityVars, pat, tokenVars>>
    <3>1. Kept
      BY <2>6, ContinuationOK, ContinuedKept
    <3> QED BY <1>a, <2>6, <3>1 DEF NavAnswered, SignOutPurged, identityVars
  <2>7. CASE (TokensListed(c) \/ MintAnswered(c) \/ RevokeAnswered(c)) /\ UNCHANGED identityVars
    <3>1. Kept
      BY <2>7, ContinuationOK, ContinuedKept
    <3> QED BY <1>a, <2>7, <3>1 DEF TokensListed, MintAnswered, RevokeAnswered, OnTokens, identityVars
  <2>8. CASE Loaded(c)
    <3>1. call[c].live /\ call[c].op = "load" /\ phase = "loading" /\ page = "identities"
      BY <1>0, <2>8 DEF Loaded, CallsOK, CallOK, Origins
    <3>2. Kept /\ ~call'[c].live
      BY <2>8, ContinuationOK, ContinuedKept
    <3>3. page' = page /\ user' = user /\ sec' = sec
      BY <2>8 DEF Loaded
    <3>4. ASSUME NEW d \in Call, call'[d].live
          PROVE  call'[d].who = user'.sub /\ call'[d].op \notin CardOps \cup {"status"} /\ call'[d].op # "load"
      BY <1>0, <3>1, <3>2, <3>3, <3>4 DEF Kept, GoesOn, Origins
    <3> QED BY <1>0, <3>1, <3>3, <3>4 DEF Origins
  <2>9. CASE ChangeAnswered(c)
    <3>1. Kept
      BY <2>9, ContinuationOK, ContinuedKept
    <3>2. sec' \in {sec, SectionPatched(call[c].op)} /\ call[c].op \in CardOps
      BY <2>9 DEF ChangeAnswered
    <3>3. SectionPatched(call[c].op).view = "active" => sec.view = "active"
      BY <1>0, <3>2, ViewAssumption DEF SectionPatched, PageTypes, Sections, Views
    <3>4. UNCHANGED <<user, page, phase>>
      BY <2>9 DEF ChangeAnswered
    <3> QED BY <1>0, <3>1, <3>2, <3>3, <3>4, KeptOrigins
  <2>10. CASE SectionAnswered(c) /\ UNCHANGED <<shown, phase, landed, unsure, pat, tokenVars>>
    <3>1. Kept
      BY <2>10, ContinuationOK, ContinuedKept
    <3>2. UNCHANGED <<user, page, phase>>
      BY <2>10 DEF SectionAnswered
    <3>3. CASE sec'.view = "active" => sec.view = "active"
      BY <1>0, <3>1, <3>2, <3>3, KeptOrigins
    <3>4. CASE sec'.view = "active" /\ sec.view # "active"
      <4>1. /\ call[c].pc = "reply" /\ call[c].ans = "ok" /\ call[c].got = "active" /\ call[c].op \in SectionOps
        BY <1>0, <2>10, <3>4, ViewAssumption DEF SectionAnswered, SectionAfter, PageTypes, Sections, Views
      <4>2. call[c].op = "status" /\ call[c].live /\ call[c].who \in Subject
        BY <1>0, <4>1 DEF CallsOK, CallOK, Settled, GotOK, SectionOps
      <4>3. phase = "ready" /\ user.sub \in Subject
        BY <1>0, <4>2 DEF Origins
      <4> QED BY <1>0, <3>1, <3>2, <4>3 DEF Origins, Kept, GoesOn
    <3> QED BY <3>3, <3>4
  <2> QED BY <1>5, <2>1, <2>2, <2>3, <2>4, <2>5, <2>6, <2>7, <2>8, <2>9, <2>10
          DEF Request, SessionRequest, IdentityRequest, TokensRequest
<1>6. ASSUME NewDocument PROVE Origins'
  <2>1. \A d \in Call : ~call'[d].live
    BY <1>0, <1>6, DocumentGoes, AbandonedOK
  <2>2. phase' = "new" /\ sec'.view = Null
    BY <1>6, DocumentGoes DEF IdentityReset, NoSection
  <2> QED BY <2>1, <2>2, ViewAssumption DEF Origins, Views
<1> QED BY <1>1, <1>2, <1>3, <1>4, <1>5, <1>6 DEF Next

(* The initial state and steps that change nothing.                        *)
LEMMA TypeInit == Init => TypeInv
<1> SUFFICES ASSUME Init PROVE TypeInv
  OBVIOUS
<1>1. CallsOK(call)
  BY IdleCallOK DEF Init, SessionInit, CallsOK
<1>2. SessionTypes
  BY FirstAssumption, AccountsAssumption DEF Init, SessionInit, SessionTypes, Users, NoUser, Pages
<1>3. PageTypes
  <2>1. NoSection \in Sections /\ NoSection.asked <= NoSection.seq
    BY DEF NoSection, Sections
  <2> QED BY <2>1 DEF Init, IdentityInit, PageTypes
<1>4. TokenTypes
  BY DEF Init, TokensInit, TokenTypes, NoRows, Rows, PatStates
<1>5. Origins
  BY ViewAssumption DEF Init, SessionInit, IdentityInit, NoSection, IdleCall, Origins, Views
<1> QED BY <1>1, <1>2, <1>3, <1>4, <1>5, TypeParts

LEMMA TypeStutters == TypeInv /\ UNCHANGED vars => TypeInv'
BY TypeParts DEF vars, sessionVars, tab, session, broker, identityVars, tokenVars,
   CallsOK, SessionTypes, PageTypes, TokenTypes, Origins, TypeInv, TypeOK, PhaseOK

LEMMA TypeStep == TypeInv /\ [Next]_vars => TypeInv'
<1>1. ASSUME TypeInv, Next PROVE TypeInv'
  <2>1. CallsOK(call)' /\ SessionTypes' /\ PageTypes' /\ TokenTypes' /\ Origins'
    BY <1>1, CallsStep, SessionTypesStep, PageTypesStep, TokenTypesStep, OriginsStep
  <2> QED BY <2>1, TypeParts, PTL
<1> QED BY <1>1, TypeStutters

(* Every variable keeps its type.                                          *)
THEOREM PortalTypeCorrect == Spec => []TypeOK
<1>1. Spec => []TypeInv
  BY TypeInit, TypeStep, PTL DEF Spec
<1> QED BY <1>1, PTL DEF TypeInv

(* authFetch repeats a request only after a 401, which the broker gives    *)
(* before it does anything: whatever was refused, renewed, retried or      *)
(* lost, no request is executed twice.                                     *)
THEOREM NothingSentTwice == Spec => []ExecutedOnce
<1>1. TypeInv => ExecutedOnce
  BY DEF TypeInv, CallsOK, Requests, ExecutedOnce
<1>2. Spec => []TypeInv
  BY TypeInit, TypeStep, PTL DEF Spec
<1> QED BY <1>1, <1>2, PTL

(* Only the fetch of the opening that is current writes the section.       *)
THEOREM NoStaleWrite == Spec => NoLateRewrite
<1>1. ASSUME TypeInv, Next, sec'.asked # sec.asked PROVE sec'.asked = sec'.seq
  <2>1. sec \in Sections
    BY <1>1 DEF TypeInv
  <2>2. CASE NewDocument
    BY <2>2, <1>1, DocumentGoes DEF IdentityReset, NoSection
  <2>3. ASSUME NEW c \in Call, SectionAnswered(c) PROVE sec'.asked = sec'.seq
    BY <1>1, <2>1, <2>3 DEF SectionAnswered, SectionAfter, Sections
  <2>4. ASSUME NEW c \in Call, ChangeAnswered(c) PROVE sec'.asked = sec.asked
    BY <2>1, <2>4 DEF ChangeAnswered, SectionPatched, Sections
  <2>5. ASSUME NEW op, Toggle(op) PROVE sec'.asked = sec.asked
    BY <1>1, <2>5, ToggleOK
  <2>6. ASSUME NEW op \in CardOps, NEW arg, CardAsked(op, arg) PROVE sec' = sec
    BY <2>6 DEF CardAsked, Ask
  <2> QED BY <1>1, <2>2, <2>3, <2>4, <2>5, <2>6, CardAsks
          DEF Next, Request, IdentityRequest, BrokerLists, IdentityStep, Mount, LinkMade, Loaded, BrokerChanges,
              ToggleProxyDetails, ToggleTools, identityVars
<1>2. TypeInv /\ [Next]_vars => [sec'.asked # sec.asked => sec'.asked = sec'.seq]_vars
  BY <1>1
<1>3. Spec => []TypeInv
  BY TypeInit, TypeStep, PTL DEF Spec
<1> QED BY <1>2, <1>3, PTL DEF Spec, NoLateRewrite

---------------------------------------------------------------------------
(* Whose snapshot it is                                                    *)

LEMMA CacheAfterOwn ==
  ASSUME TypeInv, OwnInv, NEW c \in Call, call[c].pc = "reply", CacheAfter(c) # Null
  PROVE  CacheAfter(c).sub = user.sub \/ user.sub = Nobody
<1>1. CASE call[c].ans = "ok" /\ call[c].op \in IdentityReads
  <2>1. call[c].got \in Snapshots /\ call[c].got.sub = call[c].who /\ call[c].live
    BY <1>1 DEF TypeInv, CallsOK, CallOK, Settled, GotOK
  <2>2. CacheAfter(c) = [call[c].got EXCEPT !.overlap = call[c].overlap]
    BY <1>1 DEF CacheAfter
  <2>3. CacheAfter(c).sub = call[c].got.sub
    BY <2>1, <2>2 DEF Snapshots
  <2> QED BY <2>1, <2>3, TypeParts DEF Origins
<1>2. CASE ~(call[c].ans = "ok" /\ call[c].op \in IdentityReads)
  BY <1>2 DEF CacheAfter, OwnInv
<1> QED BY <1>1, <1>2

LEMMA OwnStep == TypeInv /\ OwnInv /\ [Next]_vars => OwnInv'
<1> SUFFICES ASSUME TypeInv, OwnInv, [Next]_vars PROVE OwnInv'
  OBVIOUS
<1>0. CallsOK(call) /\ SessionTypes /\ Origins
  BY TypeParts
<1>a. ASSUME user'.sub = user.sub, cache' \in {cache, Null}, nav' = nav, Kept PROVE OwnInv'
  BY <1>a DEF OwnInv, Open, Kept, GoesOn
<1>b. ASSUME user'.sub = user.sub, cache' \in {cache, Null}, nav' = nav,
             NEW op, NEW arg, Begins(op, arg), op # "nav"
      PROVE  OwnInv'
  <2>1. ASSUME NEW d \in Call, call'[d].live, call'[d].op = "nav" PROVE Open
    <3>1. Started(op, arg).op = op
      BY DEF Started
    <3>2. Same(call[d], call'[d])
      BY <1>b, <2>1, <3>1 DEF Begins
    <3> QED BY <2>1, <3>2 DEF Same, OwnInv
  <2> QED BY <1>b, <2>1 DEF OwnInv, Open
<1>c. ASSUME NEW c \in Call, call[c].pc = "reply", cache' \in {Null, CacheAfter(c)}, user' = user, nav' = nav,
             \A d \in Call : (call'[d].op = "none" /\ ~call'[d].live) \/ (d # c /\ Same(call[d], call'[d]))
      PROVE  OwnInv'
  <2>1. Kept
    BY <1>c, ContinuedKept
  <2> QED BY <1>c, <2>1, CacheAfterOwn DEF OwnInv, Open, Kept, GoesOn
<1>1. CASE UNCHANGED vars
  BY <1>1, <1>a, KeptIfUnchanged DEF vars, sessionVars, tab, session
<1>2. ASSUME SessionStep PROVE OwnInv'
  <2>1. CASE OpenGate
    <3>1. user.sub # Nobody /\ user' = user /\ cache' = cache /\ nav' # "splash"
      BY <1>0, <2>1, NobodyAssumption DEF OpenGate, SignedIn, SessionTypes, Users, NoUser
    <3> QED BY <3>1 DEF OwnInv, Open
  <2>2. CASE SignOutClick
    BY <1>b, <2>2, Asking DEF SignOutClick
  <2>3. CASE CacheExpires
    BY <1>a, <2>3, KeptIfUnchanged DEF CacheExpires
  <2>4. CASE TokenExpires
    <3>1. user'.sub = user.sub
      BY <1>0, <2>4 DEF TokenExpires, SessionTypes, Users, NoUser
    <3> QED BY <1>a, <2>4, <3>1, KeptIfUnchanged DEF TokenExpires
  <2> QED BY <1>2, <2>1, <2>2, <2>3, <2>4 DEF SessionStep
<1>3. ASSUME IdentityStep PROVE OwnInv'
  <2>1. CASE Mount
    <3>1. user' = user /\ nav' = nav /\ cache' \in {cache, Null} /\ (UNCHANGED call \/ Begins("load", Null))
      BY <2>1, Asking DEF Mount
    <3> QED BY <1>a, <1>b, <3>1, KeptIfUnchanged
  <2>2. CASE ToggleProxyDetails
    <3>1. user' = user /\ nav' = nav /\ cache' = cache /\ (UNCHANGED call \/ Begins("status", sec.seq + 1))
      BY <2>2, Asking DEF ToggleProxyDetails, SectionOps
    <3> QED BY <1>a, <1>b, <3>1, KeptIfUnchanged
  <2>3. CASE LinkMade
    BY <1>a, <2>3, KeptIfUnchanged DEF LinkMade, tab, session
  <2>4. ASSUME NEW op \in CardOps, NEW arg \in Args, CardAsked(op, arg) PROVE OwnInv'
    <3>1. op # "nav" /\ Begins(op, arg)
      BY <2>4, Asking DEF CardOps, X509Ops, Krb5Ops, TicketOps
    <3> QED BY <1>b, <2>4, <3>1 DEF CardAsked, Ask, session
  <2> QED BY <1>3, <2>1, <2>2, <2>3, <2>4, CardAsks DEF IdentityStep
<1>4. ASSUME TokensStep PROVE OwnInv'
  <2>1. ASSUME NEW t \in Token, OpenRevokeConfirm(t) PROVE UNCHANGED <<user, nav, cache, call>>
    BY <2>1 DEF OpenRevokeConfirm, OnTokens
  <2>2. UNCHANGED <<user, nav, cache>>
    BY <1>4, <2>1 DEF TokensStep, LoadTokens, OpenMintDialog, CloseMintDialog, Mint, Done,
       CloseRevokeConfirm, Revoke, OnTokens
  <2>3. CASE LoadTokens \/ Mint \/ Revoke \/ Done
    BY <1>b, <2>2, <2>3, Asking
  <2>4. CASE UNCHANGED call
    BY <1>a, <2>2, <2>4, KeptIfUnchanged
  <2> QED BY <1>4, <2>1, <2>3, <2>4 DEF TokensStep, OpenMintDialog, CloseMintDialog, CloseRevokeConfirm
<1>5. ASSUME ToggleTools PROVE OwnInv'
  <2>1. user' = user /\ nav' = nav /\ cache' = cache /\ (UNCHANGED call \/ Begins("tools", sec.seq + 1))
    BY <1>5, Asking DEF ToggleTools, SectionOps
  <2> QED BY <1>a, <1>b, <2>1, KeptIfUnchanged
<1>6. ASSUME NEW c \in Call, Request(c) PROVE OwnInv'
  <2>1. CASE BrokerAnswers(c)
    <3>1. UNCHANGED <<user, cache, nav>>
      BY <2>1 DEF BrokerAnswers, BrokerReads, BrokerPurges, BrokerLists, BrokerListsTokens, BrokerChanges,
         BrokerMints, BrokerRevokes, tab, session
    <3> QED BY <1>a, <2>1, <3>1, BrokerAnswersOK, AnsweredKept
  <2>2. CASE BrokerRejects(c) \/ RequestFails(c) \/ RenewSucceeds(c) \/ RenewFails(c)
    <3>1. user'.sub = user.sub /\ UNCHANGED <<cache, nav>>
      BY <1>0, <2>2 DEF BrokerRejects, RequestFails, RenewSucceeds, RenewFails, session, SessionTypes, Users, NoUser
    <3> QED BY <1>a, <2>2, <3>1, NetworkOK DEF Kept, GoesOn
  <2>3. CASE NavAnswered(c)
    <3>1. call[c].live /\ call[c].op = "nav" /\ call[c].pc = "reply"
      BY <1>0, <2>3 DEF NavAnswered, CallsOK, CallOK
    <3>2. user.sub # Nobody /\ user' = user /\ nav' # "splash" /\ cache' = CacheAfter(c)
      BY <2>3, <3>1 DEF NavAnswered, OwnInv, Open
    <3> QED BY <3>1, <3>2, CacheAfterOwn DEF OwnInv, Open
  <2>4. CASE SignOutPurged(c) \/ Loaded(c) \/ SectionAnswered(c)
    BY <1>c, <2>4, ContinuationOK DEF SignOutPurged, Loaded, SectionAnswered
  <2>5. CASE TokensListed(c) \/ MintAnswered(c) \/ RevokeAnswered(c)
    BY <1>c, <2>5, ContinuationOK DEF TokensListed, MintAnswered, RevokeAnswered, OnTokens
  <2>6. CASE ChangeAnswered(c)
    BY <1>c, <2>6, ContinuationOK DEF ChangeAnswered, CacheAfterChange
  <2> QED BY <1>6, <2>1, <2>2, <2>3, <2>4, <2>5, <2>6
          DEF Request, SessionRequest, IdentityRequest, TokensRequest, BrokerAnswers
<1>7. ASSUME NewDocument PROVE OwnInv'
  <2>1. nav' = "splash" /\ \A d \in Call : ~call'[d].live
    BY <1>0, <1>7, DocumentGoes, AbandonedOK
  <2>2. cache' # Null => cache'.sub = user'.sub \/ user'.sub = Nobody
    BY <1>7, DocumentGoes DEF OwnInv, NoUser
  <2> QED BY <2>1, <2>2 DEF OwnInv, Open
<1> QED BY <1>1, <1>2, <1>3, <1>4, <1>5, <1>6, <1>7 DEF Next

LEMMA OwnInit == Init => OwnInv
BY DEF Init, SessionInit, OwnInv, Open, IdleCall

(* On a page that shows itself the snapshot in sessionStorage is the       *)
(* signed-in user's, whoever used the tab before and however late the      *)
(* answers to his requests came: callback.astro drops the snapshot before  *)
(* it leaves, and a document takes its answers with it.                    *)
THEOREM SnapshotIsOwn == Spec => []OwnSnapshot
<1>1. OwnInv => OwnSnapshot
  BY DEF OwnInv, OwnSnapshot
<1>2. Init => TypeInv /\ OwnInv
  BY TypeInit, OwnInit
<1>3. TypeInv /\ OwnInv /\ [Next]_vars => (TypeInv /\ OwnInv)'
  BY TypeStep, OwnStep
<1> QED BY <1>1, <1>2, <1>3, PTL DEF Spec

---------------------------------------------------------------------------
(* What a snapshot may miss                                                *)

(* Of a settled request's snapshot or version one can be sure: it was      *)
(* settled before, or what it brings holds.                                *)
SettledFresh(c) ==
  /\ call[c].op \in IdentityReads => Faithful(call[c].got, call[c].overlap)
  /\ call[c].op \in CardOps => call[c].got <= rev[call[c].who]

LEMMA OpsApart ==
  \A op \in CardOps : op \notin IdentityReads /\ op # "status" /\ op # "tools" /\ op # "purge" /\ op # "mint"
                      /\ op # "revoke" /\ op # "list"
BY DEF CardOps, X509Ops, Krb5Ops, TicketOps, IdentityReads

(* Whose versions and accounts a settled request speaks of.                *)
LEMMA SettledTypes ==
  ASSUME TypeInv, NEW c \in Call, Settled(call[c])
  PROVE  /\ call[c].who \in Subject /\ call[c].overlap \in BOOLEAN
         /\ call[c].op \in IdentityReads => /\ call[c].got \in Snapshots /\ call[c].got.sub \in Subject
                                            /\ call[c].got.rev \in Nat
         /\ call[c].op \in CardOps => call[c].got \in Nat
BY DEF TypeInv, CallsOK, CallOK, Settled, GotOK, Requests, Snapshots

LEMMA CacheAfterFresh ==
  ASSUME TypeInv, FreshInv, NEW c \in Call, call[c].pc = "reply", CacheAfter(c) # Null
  PROVE  Faithful(CacheAfter(c), CacheAfter(c).overlap)
<1>1. CASE call[c].ans = "ok" /\ call[c].op \in IdentityReads
  <2>1. Settled(call[c]) /\ call[c].got \in Snapshots /\ call[c].overlap \in BOOLEAN
    BY <1>1, SettledTypes DEF Settled
  <2>2. CacheAfter(c) = [call[c].got EXCEPT !.overlap = call[c].overlap]
    BY <1>1 DEF CacheAfter
  <2>3. /\ CacheAfter(c).sub = call[c].got.sub /\ CacheAfter(c).rev = call[c].got.rev
        /\ CacheAfter(c).data = call[c].got.data /\ CacheAfter(c).overlap = call[c].overlap
    BY <2>1, <2>2 DEF Snapshots
  <2>4. Faithful(call[c].got, call[c].overlap)
    BY <1>1, <2>1 DEF FreshInv
  <2> QED BY <2>3, <2>4 DEF Faithful
<1>2. CASE ~(call[c].ans = "ok" /\ call[c].op \in IdentityReads)
  BY <1>2 DEF CacheAfter, FreshInv
<1> QED BY <1>1, <1>2

(* The broker's accounts only move on, and nothing is told.                *)
FaithfulNext(s, overlap) ==
  /\ s.rev <= rev'[s.sub]
  /\ s.rev = rev'[s.sub] => s.data = acct'[s.sub]
  /\ ~overlap => s.rev >= acked'[s.sub]

LEMMA FreshIfUntold ==
  ASSUME TypeInv, TypeInv', FreshInv, UNCHANGED acked,
         \A s \in Subject : rev[s] <= rev'[s] /\ (rev'[s] = rev[s] => acct'[s] = acct[s]),
         \/ cache' = Null \/ cache' = cache
         \/ cache' \in Snapshots /\ Faithful(cache', cache'.overlap),
         \A d \in Call : Settled(call'[d]) =>
            \/ Settled(call[d]) /\ Same(call[d], call'[d])
            \/ SettledFresh(d)'
  PROVE  FreshInv'
<1>0. SessionTypes /\ SessionTypes'
  BY TypeParts DEF TypeInv, TypeOK, SessionTypes, Users
<1>1. \A s \in Subject : rev[s] \in Nat /\ rev'[s] \in Nat /\ acked[s] \in Nat
  BY <1>0 DEF SessionTypes
<1>2. ASSUME NEW s \in Snapshots, NEW o \in BOOLEAN, NEW p \in BOOLEAN, o => p, Faithful(s, o)
      PROVE  FaithfulNext(s, p)
  <2>1. s.sub \in Subject /\ s.rev \in Nat
    BY DEF Snapshots
  <2>2. rev[s.sub] <= rev'[s.sub] /\ rev[s.sub] \in Nat /\ rev'[s.sub] \in Nat
    BY <1>1, <2>1
  <2>3. s.rev <= rev[s.sub]
    BY <1>2 DEF Faithful
  <2>4. s.rev <= rev'[s.sub] /\ (s.rev = rev'[s.sub] => rev'[s.sub] = rev[s.sub] /\ s.rev = rev[s.sub])
    BY <2>1, <2>2, <2>3
  <2> QED BY <1>2, <2>1, <2>4 DEF Faithful, FaithfulNext
<1>3. \A s \in Subject : acked'[s] <= rev'[s]
  BY <1>1 DEF FreshInv
<1>4. ASSUME cache' # Null PROVE FaithfulNext(cache', cache'.overlap)
  <2>1. PICK s \in Snapshots : s = cache' /\ Faithful(s, s.overlap)
    BY <1>0, <1>4 DEF SessionTypes, FreshInv
  <2>2. s.overlap \in BOOLEAN
    BY DEF Snapshots
  <2>3. FaithfulNext(s, s.overlap)
    BY <1>2, <2>1, <2>2
  <2> QED BY <2>1, <2>3
<1>5. ASSUME NEW d \in Call, Settled(call'[d]) PROVE SettledFresh(d)'
  <2>1. CASE Settled(call[d]) /\ Same(call[d], call'[d])
    <3>1. /\ call[d].who \in Subject /\ call[d].overlap \in BOOLEAN
          /\ call[d].op \in IdentityReads => call[d].got \in Snapshots
          /\ call[d].op \in CardOps => call[d].got \in Nat
      BY <2>1, SettledTypes
    <3>2. call'[d].overlap \in BOOLEAN /\ (call[d].overlap => call'[d].overlap)
          /\ call'[d].op = call[d].op /\ call'[d].got = call[d].got /\ call'[d].who = call[d].who
      BY <2>1 DEF Same, TypeInv, CallsOK, Requests
    <3>3. call[d].op \in IdentityReads => FaithfulNext(call[d].got, call'[d].overlap)
      BY <1>2, <2>1, <3>1, <3>2 DEF FreshInv
    <3>4. call[d].op \in CardOps => call[d].got <= rev'[call[d].who]
      <4>1. call[d].op \in CardOps => call[d].got <= rev[call[d].who]
        BY <2>1 DEF FreshInv
      <4>2. rev[call[d].who] <= rev'[call[d].who] /\ rev[call[d].who] \in Nat /\ rev'[call[d].who] \in Nat
        BY <1>1, <3>1
      <4> QED BY <3>1, <4>1, <4>2
    <3> QED BY <3>2, <3>3, <3>4 DEF SettledFresh, Faithful, FaithfulNext
  <2> QED BY <1>5, <2>1
<1> QED BY <1>3, <1>4, <1>5 DEF FreshInv, SettledFresh, Faithful, FaithfulNext

(* Something is told: the snapshot is dropped and the reads are marked.    *)
LEMMA FreshIfTold ==
  ASSUME TypeInv, TypeInv', FreshInv, UNCHANGED <<acct, rev>>, cache' = Null,
         \A s \in Subject : acked'[s] <= rev[s],
         \A d \in Call : Settled(call'[d]) =>
            /\ Settled(call[d]) /\ Same(call[d], call'[d])
            /\ call'[d].op \in IdentityReads => call'[d].overlap
  PROVE  FreshInv'
<1>1. ASSUME NEW d \in Call, Settled(call'[d]) PROVE SettledFresh(d)'
  <2>1. call'[d].op = call[d].op /\ call'[d].got = call[d].got /\ call'[d].who = call[d].who
    BY <1>1 DEF Same
  <2>2. call[d].op \in IdentityReads => Faithful(call[d].got, call[d].overlap)
    BY <1>1 DEF FreshInv
  <2>3. call[d].op \in CardOps => call[d].got <= rev[call[d].who]
    BY <1>1 DEF FreshInv
  <2> QED BY <1>1, <2>1, <2>2, <2>3 DEF SettledFresh, Faithful
<1> QED BY <1>1 DEF FreshInv, SettledFresh

LEMMA QuietSettled ==
  ASSUME NEW x, NEW y, Quietly(x, y), Settled(y) PROVE Settled(x) /\ Same(x, y)
BY DEF Quietly, Settled, Same

LEMMA FreshIfQuiet ==
  ASSUME TypeInv, TypeInv', FreshInv, UNCHANGED <<broker, acked>>,
         \A d \in Call : Quietly(call[d], call'[d]),
         cache' \in {cache, Null} \/ \E c \in Call : call[c].pc = "reply" /\ cache' = CacheAfter(c)
  PROVE  FreshInv'
<1>1. SessionTypes
  BY TypeParts
<1>2. cache' = Null \/ cache' = cache \/ (cache' \in Snapshots /\ Faithful(cache', cache'.overlap))
  BY CacheAfterOK, CacheAfterFresh
<1>3. \A s \in Subject : rev[s] <= rev'[s] /\ (rev'[s] = rev[s] => acct'[s] = acct[s])
  BY <1>1 DEF SessionTypes, broker
<1> QED BY <1>2, <1>3, QuietSettled, FreshIfUntold

(* An answer of the broker that leaves the accounts as they are.           *)
LEMMA FreshIfAnswered ==
  ASSUME TypeInv, TypeInv', FreshInv, NEW c \in Call, OnlyAnswers(c), UNCHANGED <<broker, cache, acked>>,
         Settled(call'[c]) => SettledFresh(c)'
  PROVE  FreshInv'
<1>1. SessionTypes
  BY TypeParts
<1>2. \A s \in Subject : rev[s] <= rev'[s] /\ (rev'[s] = rev[s] => acct'[s] = acct[s])
  BY <1>1 DEF SessionTypes, broker
<1>3. \A d \in Call : d # c => call'[d] = call[d]
  BY DEF OnlyAnswers, TypeInv, CallsOK
<1>4. ASSUME NEW d \in Call, Settled(call'[d])
      PROVE  (Settled(call[d]) /\ Same(call[d], call'[d])) \/ SettledFresh(d)'
  BY <1>3, <1>4 DEF Same
<1> QED BY <1>2, <1>4, FreshIfUntold

LEMMA FreshStep == TypeInv /\ FreshInv /\ [Next]_vars => FreshInv'
<1> SUFFICES ASSUME TypeInv, FreshInv, [Next]_vars PROVE FreshInv'
  OBVIOUS
<1>0. CallsOK(call) /\ SessionTypes /\ Origins /\ TypeInv'
  BY TypeParts, TypeStep
<1>a. \A s \in Subject : rev[s] \in Nat /\ acked[s] \in Nat /\ acked[s] <= rev[s]
  BY <1>0 DEF SessionTypes, FreshInv
<1>1. CASE UNCHANGED vars
  BY <1>0, <1>1, FreshIfQuiet, QuietIfSame DEF vars, sessionVars, tab, session
<1>2. ASSUME SessionStep PROVE FreshInv'
  <2>1. UNCHANGED <<broker, acked>> /\ cache' \in {cache, Null} /\ \A d \in Call : Quietly(call[d], call'[d])
    BY <1>2, Asking, QuietIfSame DEF SessionStep, OpenGate, SignOutClick, CacheExpires, TokenExpires
  <2> QED BY <1>0, <2>1, FreshIfQuiet
<1>3. ASSUME Mount PROVE FreshInv'
  <2>1. CASE ~landed
    BY <1>0, <1>3, <2>1, FreshIfQuiet, Asking DEF Mount
  <2>2. CASE landed
    <3>1. /\ FreeSlots # {} /\ cache' = Null /\ UNCHANGED broker
          /\ acked' = [acked EXCEPT ![user.sub] = rev[user.sub]]
          /\ call' = [Missed(call, IdentityReads) EXCEPT ![NextSlot] = Started("load", Null)]
      BY <1>3, <2>2, Marks DEF Mount
    <3>2. \A s \in Subject : acked'[s] <= rev[s]
      <4>1. ASSUME NEW s \in Subject PROVE acked'[s] <= rev[s]
        <5>1. acked'[s] = IF s = user.sub THEN rev[s] ELSE acked[s]
          BY <1>0, <3>1 DEF SessionTypes
        <5> QED BY <1>a, <5>1
      <4> QED BY <4>1
    <3>3. ASSUME NEW d \in Call, Settled(call'[d])
          PROVE  /\ Settled(call[d]) /\ Same(call[d], call'[d])
                 /\ call'[d].op \in IdentityReads => call'[d].overlap
      <4>1. Settled(call[d]) /\ Same(call[d], call'[d])
        BY <1>3, <3>3, Asking, QuietSettled
      <4>2. d # NextSlot
        BY <3>1, <4>1, SlotIsFree DEF Settled
      <4>3. call'[d] = Missed(call, IdentityReads)[d]
        BY <3>1, <4>2 DEF Missed
      <4> QED BY <1>0, <4>1, <4>3, MarkedOK DEF Same
    <3> QED BY <1>0, <3>1, <3>2, <3>3, FreshIfTold DEF broker
  <2> QED BY <2>1, <2>2
<1>4. ASSUME LinkMade PROVE FreshInv'
  <2>1. user.sub \in Subject
    BY <1>0, <1>4 DEF LinkMade, SignedIn, SessionTypes, Users, NoUser
  <2>2. \A s \in Subject : rev[s] <= rev'[s] /\ (rev'[s] = rev[s] => acct'[s] = acct[s])
    BY <1>0, <1>a, <1>4, <2>1 DEF LinkMade, SessionTypes
  <2>3. \A d \in Call : Settled(call'[d]) => Settled(call[d]) /\ Same(call[d], call'[d])
    BY <1>4 DEF LinkMade, Same
  <2>4. UNCHANGED <<cache, acked>>
    BY <1>4 DEF LinkMade, tab, session
  <2> QED BY <1>0, <2>2, <2>3, <2>4, FreshIfUntold
<1>5. ASSUME IdentityStep PROVE FreshInv'
  <2>1. CASE ToggleProxyDetails
    BY <1>0, <2>1, Asking, FreshIfQuiet DEF ToggleProxyDetails, SectionOps
  <2>2. ASSUME NEW op \in CardOps, NEW arg \in Args, CardAsked(op, arg) PROVE FreshInv'
    BY <1>0, <2>2, Asking, FreshIfQuiet DEF CardAsked, Ask, session
  <2> QED BY <1>3, <1>4, <1>5, <2>1, <2>2, CardAsks DEF IdentityStep
<1>6. ASSUME TokensStep PROVE FreshInv'
  <2>1. ASSUME NEW t \in Token, OpenRevokeConfirm(t) PROVE UNCHANGED <<broker, acked, cache, call>>
    BY <2>1 DEF OpenRevokeConfirm, OnTokens
  <2>2. UNCHANGED <<broker, acked, cache>>
    BY <1>6, <2>1 DEF TokensStep, LoadTokens, OpenMintDialog, CloseMintDialog, Mint, Done,
       CloseRevokeConfirm, Revoke, OnTokens
  <2>3. \A d \in Call : Quietly(call[d], call'[d])
    BY <1>6, <2>1, Asking, QuietIfSame DEF TokensStep, OpenMintDialog, CloseMintDialog, CloseRevokeConfirm
  <2> QED BY <1>0, <2>2, <2>3, FreshIfQuiet
<1>7. ASSUME ToggleTools PROVE FreshInv'
  BY <1>0, <1>7, Asking, FreshIfQuiet DEF ToggleTools, SectionOps
<1>8. ASSUME NEW c \in Call, Request(c) PROVE FreshInv'
  <2>1. CASE BrokerReads(c)
    <3>1. OnlyAnswers(c) /\ UNCHANGED <<broker, cache, acked>> /\ call[c].op \in IdentityReads
          /\ call[c].who \in Subject
      BY <1>0, <2>1, BrokerAnswersOK DEF BrokerAnswers, BrokerReads, tab, session, CallsOK, CallOK
    <3>2. ASSUME Settled(call'[c]) PROVE SettledFresh(c)'
      <4>1. call[c].live /\ call'[c].op = call[c].op
        BY <3>1, <3>2 DEF OnlyAnswers
      <4>2. call'[c].got = Snapshot(call[c].who)
        <5>1. "ok" \in Answers \ {"none"}
          BY DEF Answers
        <5>2. Answer(c, "ok") \in Requests
          BY <1>0, <2>1, <5>1, AnswerOK DEF BrokerReads
        <5> QED BY <1>0, <2>1, <5>2 DEF BrokerReads, CallsOK, Requests
      <4>3. FaithfulNext(call'[c].got, call'[c].overlap)
        <5> DEFINE s == Snapshot(call[c].who)
        <5>1. s.sub = call[c].who /\ s.rev = rev[call[c].who] /\ s.data = acct[call[c].who]
          BY DEF Snapshot
        <5> HIDE DEF s
        <5>2. s.rev <= rev[s.sub] /\ (s.rev = rev[s.sub] => s.data = acct[s.sub]) /\ s.rev >= acked[s.sub]
          BY <1>a, <3>1, <5>1
        <5>3. rev' = rev /\ acct' = acct /\ acked' = acked
          BY <3>1 DEF broker
        <5> QED BY <4>2, <5>2, <5>3 DEF FaithfulNext, s
      <4>4. call[c].op \notin CardOps
        BY <3>1, OpsApart
      <4> QED BY <4>1, <4>3, <4>4 DEF SettledFresh, Faithful, FaithfulNext
    <3> QED BY <1>0, <3>1, <3>2, FreshIfAnswered
  <2>2. CASE BrokerPurges(c) \/ BrokerLists(c) \/ BrokerListsTokens(c) \/ BrokerMints(c) \/ BrokerRevokes(c)
    <3>1. OnlyAnswers(c) /\ UNCHANGED <<broker, cache, acked>>
          /\ call[c].op \in {"purge", "status", "tools", "list", "mint", "revoke"}
      BY <1>0, <2>2, BrokerAnswersOK DEF BrokerAnswers, BrokerPurges, BrokerLists, BrokerListsTokens, BrokerMints,
         BrokerRevokes, tab, session, SectionOps
    <3>2. ASSUME Settled(call'[c]) PROVE SettledFresh(c)'
      <4>1. call'[c].op = call[c].op
        BY <3>1, <3>2 DEF OnlyAnswers
      <4> QED BY <3>1, <4>1, OpsApart DEF SettledFresh, IdentityReads
    <3> QED BY <1>0, <3>1, <3>2, FreshIfAnswered
  <2>3. CASE BrokerChanges(c)
    <3>1. /\ OnlyAnswers(c) /\ UNCHANGED <<cache, acked>> /\ call[c].op \in CardOps
          /\ call[c].who \in Subject
      BY <1>0, <2>3, BrokerAnswersOK DEF BrokerAnswers, BrokerChanges, session, CallsOK, CallOK
    <3> DEFINE w == call[c].who
    <3>2. PICK e \in Effects(call[c].op, call[c].arg, acct[w]) :
             /\ acct' = [acct EXCEPT ![w] = e.acct]
             /\ rev' = [rev EXCEPT ![w] = IF e.acct = acct[w] THEN @ ELSE @ + 1]
             /\ Executed(c, e.ans, rev'[w])
      BY <2>3 DEF BrokerChanges
    <3>3. ASSUME NEW s \in Subject PROVE rev[s] <= rev'[s] /\ (rev'[s] = rev[s] => acct'[s] = acct[s])
      <4>1. CASE s = w
        <5>1. acct'[s] = e.acct /\ rev'[s] = IF e.acct = acct[w] THEN rev[s] ELSE rev[s] + 1
          BY <1>0, <3>1, <3>2, <4>1 DEF SessionTypes
        <5> QED BY <1>a, <4>1, <5>1
      <4>2. CASE s # w
        <5>1. acct'[s] = acct[s] /\ rev'[s] = rev[s]
          BY <1>0, <3>2, <4>2 DEF SessionTypes
        <5> QED BY <1>a, <5>1
      <4> QED BY <4>1, <4>2
    <3>4. ASSUME Settled(call'[c]) PROVE SettledFresh(c)'
      <4>1. call[c].live /\ call'[c].op = call[c].op /\ call'[c].who = w
        BY <3>1, <3>4 DEF OnlyAnswers
      <4>2. call'[c].got = rev'[w]
        <5>1. PICK lost \in BOOLEAN :
                 call' = [call EXCEPT ![c] =
                    [Answer(c, IF lost THEN "error" ELSE e.ans) EXCEPT !.got = rev'[w], !.hits = @ + 1]]
          BY <3>2, <4>1 DEF Executed
        <5> DEFINE a == IF lost THEN "error" ELSE e.ans
        <5>2. e.ans \in {"ok", "conflict"}
          BY <1>0, <3>1, <3>2, EffectsOK DEF CallsOK, CallOK, SessionTypes
        <5>3. a \in Answers \ {"none"}
          BY <5>2 DEF Answers
        <5> HIDE DEF a
        <5>4. Answer(c, a) \in Requests
          BY <1>0, <3>1, <5>3, AnswerOK DEF OnlyAnswers
        <5>5. call'[c] = [Answer(c, a) EXCEPT !.got = rev'[w], !.hits = @ + 1]
          BY <1>0, <5>1 DEF a, CallsOK
        <5> QED BY <5>4, <5>5 DEF Requests
      <4>3. rev'[w] \in Nat
        BY <1>0, <3>1 DEF TypeInv, TypeOK
      <4>4. call'[c].op \notin IdentityReads
        BY <3>1, <4>1, OpsApart
      <4> QED BY <4>1, <4>2, <4>3, <4>4 DEF SettledFresh
    <3>5. \A d \in Call : d # c => call'[d] = call[d]
      BY <1>0, <3>1 DEF OnlyAnswers, CallsOK
    <3>6. ASSUME NEW d \in Call, Settled(call'[d])
          PROVE  (Settled(call[d]) /\ Same(call[d], call'[d])) \/ SettledFresh(d)'
      BY <3>4, <3>5, <3>6 DEF Same
    <3> QED BY <1>0, <3>1, <3>3, <3>6, FreshIfUntold
  <2>4. CASE BrokerRejects(c) \/ RequestFails(c) \/ RenewSucceeds(c) \/ RenewFails(c)
    BY <1>0, <2>4, NetworkOK, FreshIfQuiet DEF BrokerRejects, RequestFails, RenewSucceeds, RenewFails, session
  <2>5. CASE NavAnswered(c) \/ SignOutPurged(c) \/ Loaded(c) \/ SectionAnswered(c)
    BY <1>0, <2>5, ContinuationOK, FreshIfQuiet DEF NavAnswered, SignOutPurged, Loaded, SectionAnswered
  <2>6. CASE TokensListed(c) \/ MintAnswered(c) \/ RevokeAnswered(c)
    BY <1>0, <2>6, ContinuationOK, FreshIfQuiet DEF TokensListed, MintAnswered, RevokeAnswered, OnTokens
  <2>7. CASE ChangeAnswered(c) /\ UNCHANGED acked
    BY <1>0, <2>7, ContinuationOK, FreshIfQuiet DEF ChangeAnswered, CacheAfterChange
  <2>8. CASE ChangeAnswered(c) /\ Emits(c)
              /\ acked' = [acked EXCEPT ![call[c].who] = IF @ < call[c].got THEN call[c].got ELSE @]
              /\ call' = LET rest == Overlapped([call EXCEPT ![c] = IdleCall])
                         IN IF call[c].op \in X509Ops THEN Missed(rest, {"status"}) ELSE rest
    <3>1. Settled(call[c]) /\ call[c].op \in CardOps /\ UNCHANGED broker /\ cache' = Null
      BY <2>8 DEF ChangeAnswered, Emits, Settled, CacheAfterChange
    <3>2. call[c].who \in Subject /\ call[c].got \in Nat /\ call[c].got <= rev[call[c].who]
      BY <3>1, SettledTypes DEF FreshInv
    <3>3. ASSUME NEW s \in Subject PROVE acked'[s] <= rev[s]
      <4>1. acked'[s] = IF s = call[c].who /\ acked[s] < call[c].got THEN call[c].got ELSE acked[s]
        BY <1>0, <2>8 DEF SessionTypes
      <4> QED BY <1>a, <3>2, <4>1
    <3>4. ASSUME NEW d \in Call, Settled(call'[d])
          PROVE  /\ Settled(call[d]) /\ Same(call[d], call'[d])
                 /\ call'[d].op \in IdentityReads => call'[d].overlap
      <4>1. Settled(call[d]) /\ Same(call[d], call'[d])
        BY <2>8, <3>4, ContinuationOK, QuietSettled
      <4> DEFINE one == Missed([call EXCEPT ![c] = IdleCall], IdentityReads)
                 two == Missed(one, {"status"})
      <4>2. /\ one[d].op \in IdentityReads => one[d].overlap
            /\ two[d].op \in IdentityReads => two[d].overlap
        BY <1>0, DroppedQuietly
      <4>3. call' = one \/ call' = two
        BY <2>8, Marks
      <4> HIDE DEF one, two
      <4> QED BY <4>1, <4>2, <4>3
    <3> QED BY <1>0, <3>1, <3>3, <3>4, FreshIfTold DEF broker
  <2> QED BY <1>8, <2>1, <2>2, <2>3, <2>4, <2>5, <2>6, <2>7, <2>8
          DEF Request, SessionRequest, IdentityRequest, TokensRequest, ChangeAnswered
<1>9. ASSUME NewDocument PROVE FreshInv'
  <2>1. \A d \in Call : ~Settled(call'[d]) /\ Quietly(call[d], call'[d])
    BY <1>0, <1>9, DocumentGoes, AbandonedOK, AbandonedQuietly
  <2>2. CASE UNCHANGED <<broker, cache, acked>>
    BY <1>0, <2>1, <2>2, FreshIfQuiet
  <2>3. ASSUME NEW s \in Subject, cache' = Null, acked' = [acked EXCEPT ![s] = rev[s]], UNCHANGED broker
        PROVE  FreshInv'
    <3>1. ASSUME NEW u \in Subject PROVE acked'[u] <= rev[u]
      <4>1. acked'[u] = IF u = s THEN rev[u] ELSE acked[u]
        BY <1>0, <2>3 DEF SessionTypes
      <4> QED BY <1>a, <4>1
    <3> QED BY <1>0, <2>1, <2>3, <3>1, FreshIfTold DEF broker
  <2> QED BY <1>9, <2>2, <2>3, DocumentGoes
<1> QED BY <1>1, <1>2, <1>5, <1>6, <1>7, <1>8, <1>9 DEF Next

LEMMA FreshInit == Init => FreshInv
BY DEF Init, SessionInit, FreshInv, IdleCall, Settled

(* The identities snapshot misses no change the tab was told of unless its *)
(* request was under way when the change was told: clearIdentitiesCache at *)
(* every change, the landing of a linking flow and the sign-in leave no    *)
(* older answer behind, however answers, documents and people alternate.   *)
THEOREM SnapshotStaysFresh == Spec => []SnapshotKeepsUp
<1>1. TypeInv /\ FreshInv => SnapshotKeepsUp
  BY DEF FreshInv, SnapshotKeepsUp, Faithful
<1>2. Init => TypeInv /\ FreshInv
  BY TypeInit, FreshInit
<1>3. TypeInv /\ FreshInv /\ [Next]_vars => (TypeInv /\ FreshInv)'
  BY TypeStep, FreshStep
<1> QED BY <1>1, <1>2, <1>3, PTL DEF Spec

---------------------------------------------------------------------------
(* What the list may miss                                                  *)

(* What a live request that was executed brings, if it brings anything.    *)
LEMMA ExecutedGot ==
  ASSUME CallsOK(call), NEW c \in Call, call[c].pc = "sent", call[c].live,
         NEW ans \in {"ok", "conflict"}, NEW got, Executed(c, ans, got)
  PROVE  call'[c].got = got /\ call'[c].ans \in {ans, "error"}
<1>1. PICK lost \in BOOLEAN :
         call' = [call EXCEPT ![c] =
            [Answer(c, IF lost THEN "error" ELSE ans) EXCEPT !.got = got, !.hits = @ + 1]]
  BY DEF Executed
<1> DEFINE a == IF lost THEN "error" ELSE ans
<1>2. a \in Answers \ {"none"} /\ a \in {ans, "error"}
  BY DEF Answers
<1> HIDE DEF a
<1>3. Answer(c, a) \in Requests /\ Answer(c, a).ans = a
  BY <1>2, AnswerOK
<1>4. call'[c] = [Answer(c, a) EXCEPT !.got = got, !.hits = @ + 1]
  BY <1>1 DEF a, CallsOK
<1> QED BY <1>2, <1>3, <1>4 DEF Requests

LEMMA AnsweredGot ==
  ASSUME CallsOK(call), NEW c \in Call, call[c].pc = "sent", call[c].live,
         NEW got, call' = [call EXCEPT ![c] = [Answer(c, "ok") EXCEPT !.got = got]]
  PROVE  call'[c].got = got /\ call'[c].ans = "ok"
<1>1. "ok" \in Answers \ {"none"}
  BY DEF Answers
<1>2. Answer(c, "ok") \in Requests /\ Answer(c, "ok").ans = "ok"
  BY <1>1, AnswerOK
<1>3. call'[c] = [Answer(c, "ok") EXCEPT !.got = got]
  BY DEF CallsOK
<1> QED BY <1>2, <1>3 DEF Requests

(* Tokens are minted once and revoked once.                                *)
Advances(p, q) ==
  \A t \in Token : p[t].state # "absent" =>
    q[t].own = p[t].own /\ q[t].state \in {p[t].state, "revoked"}

LEMMA HoldsOn ==
  ASSUME NEW p, NEW q, Advances(p, q), NEW u, NEW t \in Token,
         NEW state, state # "absent", Holds(t, state, p, u)
  PROVE  Holds(t, state, q, u)
BY DEF Advances, Holds

LEMMA KnownOn ==
  ASSUME NEW p, NEW q, Advances(p, q), NEW u, NEW list, Known(list, p, u)
  PROVE  Known(list, q, u)
BY HoldsOn DEF Known

LEMMA TellsOn ==
  ASSUME NEW p, NEW q, Advances(p, q), NEW u, NEW l, NEW x, CallOK(x), Tells(x, p, u, l)
  PROVE  Tells(x, q, u, l)
<1>1. x.op = "revoke" => x.arg \in Token
  BY DEF CallOK, ArgOK
<1>2. Settled(x) /\ x.op = "mint" => x.got \in Token
  BY DEF CallOK, GotOK
<1>3. x.op = "revoke" => q[x.arg].state # "absent"
  BY <1>1 DEF Tells, Advances
<1>4. x.live /\ x.op = "revoke" => Holds(x.arg, "active", q, u)
  BY <1>1, HoldsOn DEF Tells
<1>5. x.live /\ Settled(x) /\ x.op = "revoke" => Holds(x.arg, "revoked", q, u)
  BY <1>1, HoldsOn DEF Tells
<1>6. x.live /\ Settled(x) /\ x.op = "mint" => Holds(x.got, "active", q, u)
  BY <1>2, HoldsOn DEF Tells
<1>7. x.live /\ Settled(x) /\ x.op = "list" => Known(x.got, q, u)
  BY KnownOn DEF Tells
<1>8. x.live /\ Settled(x) /\ x.op = "list" => (~x.overlap => Current(x.got, l))
  BY DEF Tells
<1> QED BY <1>3, <1>4, <1>5, <1>6, <1>7, <1>8 DEF Tells

LEMMA TellsQuietly ==
  ASSUME NEW p, NEW u, NEW l, NEW x, NEW y, Tells(x, p, u, l), Quietly(x, y),
         x.pc = "idle" /\ y.live => y.op # "revoke" \/ (y.arg \in Token /\ Holds(y.arg, "active", p, u))
  PROVE  Tells(y, p, u, l)
<1>1. CASE Same(x, y)
  BY <1>1 DEF Same, Tells, Settled
<1>2. CASE ~Settled(y) /\ y.op = "none" /\ ~y.live
  BY <1>2 DEF Tells
<1>3. CASE ~Settled(y) /\ y.op = x.op /\ y.arg = x.arg /\ y.who = x.who /\ (y.live => x.live)
  BY <1>3 DEF Tells
<1>4. CASE ~Settled(y) /\ x.pc = "idle" /\ y.live
  BY <1>4 DEF Tells, Holds
<1> QED BY <1>1, <1>2, <1>3, <1>4 DEF Quietly

LEMMA TellsStarted ==
  ASSUME user \in Users, NEW op \in Ops \ {"none"}, NEW arg, ArgOK(op, arg), NEW p, NEW u, NEW l,
         op = "revoke" => Holds(arg, "active", p, u)
  PROVE  Tells(Started(op, arg), p, u, l)
<1>1. LET x == Started(op, arg) IN x.op = op /\ x.arg = arg /\ ~Settled(x)
  BY StartedOK
<1> QED BY <1>1 DEF Tells, Holds

(* The pages know nothing new, and no list or token is answered.           *)
LEMMA ListIfQuiet ==
  ASSUME TypeInv, ListInv, UNCHANGED <<pat, tokenVars>>, user'.sub = user.sub,
         \A d \in Call : \/ Quietly(call[d], call'[d]) /\ (call[d].pc = "idle" => call'[d].op # "revoke")
                         \/ call'[d].op \notin {"list", "mint", "revoke"}
  PROVE  ListInv'
<1>1. ASSUME NEW d \in Call PROVE Tells(call'[d], pat, user.sub, told)
  <2>1. CASE call'[d].op \notin {"list", "mint", "revoke"}
    BY <2>1 DEF Tells
  <2>2. CASE Quietly(call[d], call'[d]) /\ (call[d].pc = "idle" => call'[d].op # "revoke")
    <3>1. Tells(call[d], pat, user.sub, told)
      BY DEF ListInv
    <3> QED BY <2>2, <3>1, TellsQuietly
  <2> QED BY <2>1, <2>2
<1> QED BY <1>1 DEF ListInv, tokenVars

LEMMA BegunQuietly ==
  ASSUME TypeInv, NEW op, NEW arg, Begins(op, arg), op # "revoke"
  PROVE  \A d \in Call : call[d].pc = "idle" => call'[d].op # "revoke"
<1>1. ASSUME NEW d \in Call, call[d].pc = "idle" PROVE call'[d].op # "revoke"
  <2>1. call[d].op = "none"
    BY <1>1 DEF TypeInv, CallsOK, CallOK
  <2>2. Started(op, arg).op = op
    BY DEF Started
  <2> QED BY <1>1, <2>1, <2>2 DEF Begins, Same
<1> QED BY <1>1

LEMMA ListIfKept ==
  ASSUME TypeInv, ListInv, UNCHANGED <<pat, tokenVars>>, user'.sub = user.sub,
         NEW op, NEW arg, op # "revoke", UNCHANGED call \/ Begins(op, arg),
         \A d \in Call : Quietly(call[d], call'[d])
  PROVE  ListInv'
<1>1. \A d \in Call : call[d].pc = "idle" => call[d].op # "revoke"
  BY DEF TypeInv, CallsOK, CallOK
<1> QED BY <1>1, BegunQuietly, ListIfQuiet

LEMMA ListIfContinued ==
  ASSUME TypeInv, ListInv, UNCHANGED <<pat, tokenVars>>, user'.sub = user.sub, NEW c \in Call,
         \A d \in Call : (call'[d].op = "none" /\ ~call'[d].live) \/ (d # c /\ Same(call[d], call'[d]))
  PROVE  ListInv'
<1>1. \A d \in Call : call[d].pc = "idle" => call[d].op # "revoke"
  BY DEF TypeInv, CallsOK, CallOK
<1>2. ASSUME NEW d \in Call
      PROVE  \/ Quietly(call[d], call'[d]) /\ (call[d].pc = "idle" => call'[d].op # "revoke")
             \/ call'[d].op \notin {"list", "mint", "revoke"}
  <2>1. CASE Same(call[d], call'[d])
    BY <1>1, <2>1 DEF Quietly, Same
  <2> QED BY <2>1
<1> QED BY <1>2, ListIfQuiet

(* The steps of the page itself.                                           *)
LEMMA ListTokensStep ==
  ASSUME TypeInv, ListInv, TokensStep PROVE ListInv'
<1>0. CallsOK(call) /\ SessionTypes /\ TokenTypes
  BY TypeParts
<1>1. UNCHANGED <<pat, user>>
  <2>1. ASSUME NEW t \in Token, OpenRevokeConfirm(t) PROVE UNCHANGED <<pat, user>>
    BY <2>1 DEF OpenRevokeConfirm, OnTokens
  <2> QED BY <2>1 DEF TokensStep, LoadTokens, OpenMintDialog, CloseMintDialog, Mint, Done,
             CloseRevokeConfirm, Revoke, OnTokens
<1>2. \A d \in Call : call[d].pc = "idle" => call[d].op # "revoke"
  BY <1>0 DEF CallsOK, CallOK
<1>a. ASSUME NEW op, NEW arg, op # "revoke", UNCHANGED call \/ Begins(op, arg),
             \A d \in Call : Quietly(call[d], call'[d]), NEW d \in Call
      PROVE  Tells(call'[d], pat, user.sub, told)
  BY <1>2, <1>a, BegunQuietly, TellsQuietly DEF ListInv
<1>3. CASE LoadTokens
  <2>1. \A d \in Call : Tells(call'[d], pat, user.sub, told)
    BY <1>a, <1>3, Asking
  <2> QED BY <1>1, <1>3, <2>1 DEF LoadTokens, ListInv
<1>4. CASE OpenMintDialog \/ CloseMintDialog \/ CloseRevokeConfirm
  BY <1>1, <1>4 DEF OpenMintDialog, CloseMintDialog, CloseRevokeConfirm, ListInv
<1>5. CASE Mint
  <2>1. \A d \in Call : Tells(call'[d], pat, user.sub, told)
    BY <1>a, <1>5, Asking
  <2> QED BY <1>1, <1>5, <2>1 DEF Mint, ListInv, tokenVars
<1>6. ASSUME NEW t \in Token, OpenRevokeConfirm(t) PROVE ListInv'
  <2>1. Holds(t, "active", pat, user.sub)
    BY <1>6 DEF OpenRevokeConfirm, ListInv, Known
  <2> QED BY <1>1, <1>6, <2>1 DEF OpenRevokeConfirm, ListInv
<1>7. CASE Revoke
  <2>1. pending \in Token /\ Holds(pending, "active", pat, user.sub)
    BY <1>0, <1>7 DEF Revoke, ListInv, TokenTypes
  <2>2. ASSUME NEW d \in Call PROVE Tells(call'[d], pat, user.sub, told)
    <3>1. CASE call'[d] = Started("revoke", pending)
      <4>1. "revoke" \in Ops \ {"none"} /\ ArgOK("revoke", pending)
        BY <2>1 DEF Ops, Writes, ArgOK, Args, SectionOps
      <4> QED BY <1>0, <2>1, <3>1, <4>1, TellsStarted DEF SessionTypes
    <3>2. CASE Same(call[d], call'[d])
      BY <1>2, <3>2, TellsQuietly DEF ListInv, Quietly, Same
    <3> QED BY <1>7, <3>1, <3>2, Asking DEF Begins
  <2> QED BY <1>1, <1>7, <2>2 DEF Revoke, ListInv
<1>8. CASE Done
  <2>1. minted \in Token /\ Holds(minted, "active", pat, user.sub)
    BY <1>0, <1>8 DEF Done, ListInv, TokenTypes
  <2>2. told' \in Rows /\ \A t \in Token : told'[t] \in {told[t]} \cup (IF t = minted THEN {"active"} ELSE {})
    BY <1>0, <1>8, <2>1 DEF Done, TokenTypes, Rows, PatStates
  <2>3. Known(told', pat, user.sub)
    BY <2>1, <2>2 DEF Known, ListInv
  <2>4. ASSUME NEW d \in Call PROVE Tells(call'[d], pat, user.sub, told')
    <3> DEFINE marked == Missed(call, {"list"})
    <3>1. CallsOK(marked) /\ Same(call[d], marked[d]) /\ (call[d].op = "list" => marked[d].overlap)
      BY <1>0, MarkedOK
    <3>2. NextSlot \in Call /\ call' = [marked EXCEPT ![NextSlot] = Started("list", Null)]
      BY <1>8, Marks, SlotIsFree DEF Done
    <3> HIDE DEF marked
    <3>3. CASE d = NextSlot
      <4>1. call'[d] = Started("list", Null)
        BY <3>1, <3>2, <3>3 DEF CallsOK
      <4>2. "list" \in Ops \ {"none"} /\ ArgOK("list", Null)
        BY DEF Ops, Writes, IdentityReads, ArgOK, Args, SectionOps
      <4> QED BY <1>0, <4>1, <4>2, TellsStarted DEF SessionTypes
    <3>4. CASE d # NextSlot
      <4>1. call'[d] = marked[d]
        BY <3>1, <3>2, <3>4 DEF CallsOK
      <4>2. Tells(call[d], pat, user.sub, told)
        BY DEF ListInv
      <4> QED BY <3>1, <4>1, <4>2 DEF Same, Tells, Settled
    <3> QED BY <3>3, <3>4
  <2> QED BY <1>1, <1>8, <2>3, <2>4 DEF Done, ListInv
<1> QED BY <1>3, <1>4, <1>5, <1>6, <1>7, <1>8 DEF TokensStep

(* The broker's answers about tokens, and what the page makes of them.     *)
LEMMA ListRequestStep ==
  ASSUME TypeInv, ListInv, NEW c \in Call, TokensRequest(c) PROVE ListInv'
<1>0. CallsOK(call) /\ SessionTypes /\ TokenTypes /\ Origins
  BY TypeParts
<1>1. \A d \in Call : CallOK(call[d]) /\ Tells(call[d], pat, user.sub, told)
  BY <1>0 DEF CallsOK, ListInv
<1> DEFINE x == call[c]
           y == call'[c]
<1>2. x.live => x.who = user.sub
  BY <1>0 DEF Origins
(* An answer that adds to what the broker has.                             *)
<1>a. ASSUME OnlyAnswers(c), UNCHANGED <<user, tokenVars>>, Advances(pat, pat'),
             Tells(y, pat', user.sub, told)
      PROVE  ListInv'
  <2>1. ASSUME NEW d \in Call PROVE Tells(call'[d], pat', user.sub, told)
    <3>1. CASE d # c
      <4>1. call'[d] = call[d]
        BY <1>0, <1>a, <3>1 DEF OnlyAnswers, CallsOK
      <4> QED BY <1>1, <1>a, <4>1, TellsOn
    <3> QED BY <1>a, <3>1
  <2>2. Known(rows, pat', user.sub) /\ Known(told, pat', user.sub)
    BY <1>a, KnownOn DEF ListInv
  <2>3. /\ minted # Null => Holds(minted, "active", pat', user.sub)
        /\ pending # Null => Holds(pending, "active", pat', user.sub)
    BY <1>0, <1>a, HoldsOn DEF ListInv, TokenTypes
  <2> QED BY <1>a, <2>1, <2>2, <2>3 DEF ListInv, tokenVars
<1>3. CASE BrokerListsTokens(c)
  <2>1. OnlyAnswers(c) /\ x.op = "list" /\ x.pc = "sent" /\ UNCHANGED <<user, pat, tokenVars>>
    BY <1>3, BrokerAnswersOK DEF BrokerAnswers, BrokerListsTokens, tab, session
  <2>2. CASE x.live
    <3>1. y.got = OwnRows(user.sub) /\ y.op = "list"
      BY <1>0, <1>2, <1>3, <2>1, <2>2, AnsweredGot DEF BrokerListsTokens, OnlyAnswers
    <3>2. Known(OwnRows(user.sub), pat, user.sub)
      BY DEF Known, OwnRows, Holds
    <3>3. Current(OwnRows(user.sub), told)
      BY DEF Current, OwnRows, Holds, Known, ListInv
    <3>4. Tells(y, pat, user.sub, told)
      BY <3>1, <3>2, <3>3 DEF Tells
    <3>5. Advances(pat, pat')
      BY <2>1 DEF Advances
    <3> QED BY <1>a, <2>1, <3>4, <3>5
  <2>3. CASE ~x.live
    <3>1. Tells(y, pat, user.sub, told) /\ Advances(pat, pat')
      BY <2>1, <2>3 DEF OnlyAnswers, Tells, Advances
    <3> QED BY <1>a, <2>1, <3>1
  <2> QED BY <2>2, <2>3
<1>4. CASE BrokerMints(c)
  <2>1. OnlyAnswers(c) /\ x.op = "mint" /\ x.pc = "sent" /\ UNCHANGED <<user, tokenVars>>
    BY <1>4, BrokerAnswersOK DEF BrokerAnswers, BrokerMints, session
  <2>2. PICK t \in Token : /\ pat[t].state = "absent" /\ Executed(c, "ok", t)
                           /\ pat' = [pat EXCEPT ![t] = [own |-> x.who, state |-> "active"]]
    BY <1>4 DEF BrokerMints
  <2>3. Advances(pat, pat')
    BY <1>0, <2>2 DEF Advances, TokenTypes
  <2>4. CASE x.live
    <3>1. y.got = t /\ y.op = "mint"
      BY <1>0, <2>1, <2>2, <2>4, ExecutedGot DEF OnlyAnswers
    <3>2. Holds(t, "active", pat', user.sub)
      BY <1>0, <1>2, <2>1, <2>2, <2>4 DEF Holds, TokenTypes
    <3>3. Tells(y, pat', user.sub, told)
      BY <3>1, <3>2 DEF Tells
    <3> QED BY <1>a, <2>1, <2>3, <3>3
  <2>5. CASE ~x.live
    <3>1. Tells(y, pat', user.sub, told)
      BY <2>1, <2>5 DEF OnlyAnswers, Tells
    <3> QED BY <1>a, <2>1, <2>3, <3>1
  <2> QED BY <2>4, <2>5
<1>5. CASE BrokerRevokes(c)
  <2>1. /\ OnlyAnswers(c) /\ x.op = "revoke" /\ x.pc = "sent" /\ UNCHANGED <<user, tokenVars>>
        /\ pat' = [pat EXCEPT ![x.arg].state = "revoked"]
    BY <1>5, BrokerAnswersOK DEF BrokerAnswers, BrokerRevokes, session
  <2>2. x.arg \in Token /\ pat[x.arg].state # "absent"
    BY <1>1, <2>1 DEF CallOK, ArgOK, Tells
  <2>3. /\ \A t \in Token : pat'[t].own = pat[t].own /\ pat'[t].state \in {pat[t].state, "revoked"}
        /\ pat'[x.arg].state = "revoked"
    BY <1>0, <2>1, <2>2 DEF TokenTypes
  <2>4. Advances(pat, pat')
    BY <2>3 DEF Advances
  <2>5. CASE x.live
    <3>1. y.arg = x.arg /\ y.op = "revoke"
      BY <2>1, <2>5 DEF OnlyAnswers
    <3>2. pat[x.arg].own = user.sub
      BY <1>1, <2>1, <2>5 DEF Tells, Holds
    <3>3. Tells(y, pat', user.sub, told)
      BY <2>2, <2>3, <3>1, <3>2 DEF Tells, Holds
    <3> QED BY <1>a, <2>1, <2>4, <3>3
  <2>6. CASE ~x.live
    <3>1. Tells(y, pat', user.sub, told)
      BY <2>1, <2>6 DEF OnlyAnswers, Tells
    <3> QED BY <1>a, <2>1, <2>4, <3>1
  <2> QED BY <2>5, <2>6
(* An answer is run; the others go on.                                     *)
<1>6. ASSUME TokensListed(c) \/ MintAnswered(c) \/ RevokeAnswered(c)
      PROVE  /\ x.pc = "reply" /\ x.live /\ UNCHANGED <<user, pat>>
             /\ \A d \in Call : Tells(call'[d], pat, user.sub, told)
             /\ x.ans = "ok" => Settled(x)
  <2>1. x.pc = "reply" /\ UNCHANGED <<user, pat>>
    BY <1>6 DEF TokensListed, MintAnswered, RevokeAnswered, OnTokens
  <2>2. x.live /\ (x.ans = "ok" => Settled(x))
    BY <1>1, <2>1 DEF CallOK, Settled
  <2>3. ASSUME NEW d \in Call PROVE Tells(call'[d], pat, user.sub, told)
    <3>1. CASE call'[d].op = "none" /\ ~call'[d].live
      BY <3>1 DEF Tells
    <3>2. CASE Same(call[d], call'[d])
      BY <1>1, <3>2 DEF Same, Tells, Settled
    <3> QED BY <1>6, <3>1, <3>2, ContinuationOK
  <2> QED BY <2>1, <2>2, <2>3
<1>7. CASE TokensListed(c)
  <2>1. CASE x.ans = "ok"
    <3>1. /\ rows' = x.got /\ outdated' = x.overlap /\ UNCHANGED <<told, minted, pending>>
          /\ x.op = "list"
      BY <1>7, <2>1 DEF TokensListed
    <3>2. Known(x.got, pat, user.sub) /\ (~x.overlap => Current(x.got, told))
      BY <1>1, <1>6, <1>7, <2>1, <3>1 DEF Tells
    <3> QED BY <1>6, <1>7, <3>1, <3>2 DEF ListInv
  <2>2. CASE x.ans # "ok"
    <3>1. listing' = "failed" /\ UNCHANGED <<rows, outdated, told, minted, pending>>
      BY <1>7, <2>2 DEF TokensListed
    <3> QED BY <1>6, <1>7, <3>1 DEF ListInv
  <2> QED BY <2>1, <2>2
<1>8. CASE MintAnswered(c)
  <2>1. minted' # Null => Holds(minted', "active", pat, user.sub)
    BY <1>1, <1>6, <1>8 DEF MintAnswered, Tells, ListInv
  <2> QED BY <1>6, <1>8, <2>1 DEF MintAnswered, ListInv
<1>9. CASE RevokeAnswered(c)
  <2>1. CASE x.ans # "ok"
    <3>1. UNCHANGED <<rows, told, outdated, listing, minted, pending>>
      BY <1>9, <2>1 DEF RevokeAnswered
    <3> QED BY <1>6, <1>9, <3>1 DEF ListInv
  <2>2. CASE x.ans = "ok"
    <3>1. /\ rows' = RowRevoked(x.arg) /\ told' = [told EXCEPT ![x.arg] = "revoked"]
          /\ outdated' = (outdated \/ rows[x.arg] = "absent")
          /\ call' = ListsMissed([call EXCEPT ![c] = IdleCall])
          /\ x.op = "revoke" /\ UNCHANGED <<listing, minted, pending>>
      BY <1>9, <2>2 DEF RevokeAnswered
    <3>2. x.arg \in Token /\ Holds(x.arg, "revoked", pat, user.sub)
      BY <1>1, <1>6, <1>9, <2>2, <3>1 DEF CallOK, ArgOK, Tells
    <3>3. \A t \in Token : told'[t] = IF t = x.arg THEN "revoked" ELSE told[t]
      BY <1>0, <3>1 DEF TokenTypes, Rows
    <3>4. \A t \in Token : rows'[t] = IF t = x.arg /\ rows[t] # "absent" THEN "revoked" ELSE rows[t]
      BY <1>0, <3>1 DEF TokenTypes, Rows, RowRevoked
    <3>5. Known(told', pat, user.sub) /\ Known(rows', pat, user.sub)
      BY <3>2, <3>3, <3>4 DEF Known, ListInv
    <3>6. ~outdated' => ~outdated /\ rows[x.arg] # "absent"
      BY <3>1
    <3>7. listing' = "ready" /\ ~outdated' => Current(rows', told')
      BY <3>1, <3>3, <3>4, <3>6 DEF Current, ListInv
    <3>8. ASSUME NEW d \in Call PROVE Tells(call'[d], pat, user.sub, told')
      <4> DEFINE marked == Missed([call EXCEPT ![c] = IdleCall], {"list"})
      <4>1. CallsOK(marked) /\ (marked[d].op \in {"list"} => marked[d].overlap)
        BY <1>0, DroppedQuietly
      <4>2. call' = marked
        BY <3>1, Marks
      <4> HIDE DEF marked
      <4>3. Tells(call'[d], pat, user.sub, told)
        BY <1>6, <1>9
      <4> QED BY <4>1, <4>2, <4>3 DEF Tells
    <3> QED BY <1>6, <1>9, <3>1, <3>5, <3>7, <3>8 DEF ListInv
  <2> QED BY <2>1, <2>2
<1> QED BY <1>3, <1>4, <1>5, <1>7, <1>8, <1>9 DEF TokensRequest

LEMMA ListStep == TypeInv /\ ListInv /\ [Next]_vars => ListInv'
<1> SUFFICES ASSUME TypeInv, ListInv, [Next]_vars PROVE ListInv'
  OBVIOUS
<1>0. CallsOK(call) /\ SessionTypes
  BY TypeParts
<1>1. CASE UNCHANGED vars
  BY <1>1 DEF vars, sessionVars, tab, session, tokenVars, ListInv
<1>2. ASSUME SessionStep, UNCHANGED <<pat, tokenVars>> PROVE ListInv'
  <2>1. user'.sub = user.sub
    BY <1>0, <1>2 DEF SessionStep, OpenGate, SignOutClick, CacheExpires, TokenExpires, SessionTypes, Users, NoUser
  <2>2. \A d \in Call : Quietly(call[d], call'[d])
    BY <1>2, Asking, QuietIfSame DEF SessionStep, CacheExpires, TokenExpires
  <2>3. UNCHANGED call \/ Begins("nav", Null) \/ Begins("purge", Null)
    BY <1>2, Asking DEF SessionStep, CacheExpires, TokenExpires
  <2> QED BY <1>2, <2>1, <2>2, <2>3, ListIfKept
<1>3. ASSUME IdentityStep, UNCHANGED <<pat, tokenVars>> PROVE ListInv'
  <2>1. CASE Mount
    <3>1. user' = user
      BY <2>1 DEF Mount
    <3>2. (UNCHANGED call \/ Begins("load", Null)) /\ \A d \in Call : Quietly(call[d], call'[d])
      BY <2>1, Asking
    <3> QED BY <1>3, <3>1, <3>2, ListIfKept
  <2>2. CASE ToggleProxyDetails
    BY <1>3, <2>2, Asking, ListIfKept DEF ToggleProxyDetails, SectionOps
  <2>3. CASE LinkMade
    BY <1>3, <2>3, QuietIfSame, ListIfKept DEF LinkMade, tab, session
  <2>4. ASSUME NEW op \in CardOps, NEW arg \in Args, CardAsked(op, arg) PROVE ListInv'
    BY <1>3, <2>4, Asking, OpsApart, ListIfKept DEF CardAsked, Ask, session
  <2> QED BY <1>3, <2>1, <2>2, <2>3, <2>4, CardAsks DEF IdentityStep
<1>4. ASSUME ToggleTools, UNCHANGED <<pat, tokenVars>> PROVE ListInv'
  BY <1>4, Asking, ListIfKept DEF ToggleTools, SectionOps
<1>5. ASSUME NEW c \in Call, Request(c) PROVE ListInv'
  <2>1. CASE TokensRequest(c)
    BY <2>1, ListRequestStep
  <2>2. CASE /\ BrokerReads(c) \/ BrokerPurges(c) \/ BrokerLists(c) \/ BrokerChanges(c)
             /\ UNCHANGED <<pat, tokenVars>>
    <3>1. /\ OnlyAnswers(c) /\ user' = user
          /\ call[c].op \in IdentityReads \cup SectionOps \cup CardOps \cup {"purge"}
      BY <2>2, BrokerAnswersOK DEF BrokerAnswers, BrokerReads, BrokerPurges, BrokerLists, BrokerChanges, tab, session
    <3>2. call'[c].op \notin {"list", "mint", "revoke"}
      BY <1>0, <3>1, OpsApart DEF OnlyAnswers, CallsOK, Requests, IdentityReads, SectionOps
    <3>3. \A d \in Call : d # c => call'[d] = call[d]
      BY <1>0, <3>1 DEF OnlyAnswers, CallsOK
    <3>4. \A d \in Call : call[d].pc = "idle" => call[d].op # "revoke"
      BY <1>0 DEF CallsOK, CallOK
    <3> QED BY <2>2, <3>1, <3>2, <3>3, <3>4, QuietIfSame, ListIfQuiet
  <2>3. CASE /\ BrokerRejects(c) \/ RequestFails(c) \/ RenewSucceeds(c) \/ RenewFails(c)
             /\ UNCHANGED <<pat, tokenVars>>
    <3>1. user'.sub = user.sub
      BY <1>0, <2>3 DEF BrokerRejects, RequestFails, RenewSucceeds, RenewFails, session, SessionTypes, Users, NoUser
    <3>2. call[c].pc # "idle" /\ \A d \in Call : d # c => call'[d] = call[d]
      BY <1>0, <2>3 DEF BrokerRejects, RequestFails, RenewSucceeds, RenewFails, CallsOK
    <3>3. \A d \in Call : call[d].pc = "idle" => call[d].op # "revoke"
      BY <1>0 DEF CallsOK, CallOK
    <3>4. \A d \in Call : Quietly(call[d], call'[d])
      BY <2>3, NetworkOK
    <3>5. \A d \in Call : call[d].pc = "idle" => call'[d].op # "revoke"
      BY <3>2, <3>3
    <3> QED BY <2>3, <3>1, <3>4, <3>5, ListIfQuiet
  <2>4. CASE /\ NavAnswered(c) \/ SignOutPurged(c) \/ Loaded(c) \/ SectionAnswered(c) \/ ChangeAnswered(c)
             /\ UNCHANGED <<pat, tokenVars>>
    <3>1. user' = user
      BY <2>4 DEF NavAnswered, SignOutPurged, Loaded, SectionAnswered, ChangeAnswered
    <3> QED BY <2>4, <3>1, ContinuationOK, ListIfContinued
  <2> QED BY <1>5, <2>1, <2>2, <2>3, <2>4 DEF Request, SessionRequest, IdentityRequest
<1>6. ASSUME NewDocument PROVE ListInv'
  <2>1. call' = Abandoned(call) /\ TokensReset /\ UNCHANGED pat
    BY <1>6, DocumentGoes
  <2>2. ASSUME NEW d \in Call, NEW u, NEW l PROVE Tells(call'[d], pat, u, l)
    <3>1. ~call'[d].live /\ (call'[d].op = "none" \/ (call'[d].op = call[d].op /\ call'[d].arg = call[d].arg))
      BY <1>0, <2>1, AbandonedOK
    <3>2. Tells(call[d], pat, user.sub, told)
      BY DEF ListInv
    <3> QED BY <3>1, <3>2 DEF Tells
  <2>3. Known(NoRows, pat, user'.sub)
    BY DEF Known, NoRows
  <2>4. /\ rows' = NoRows /\ told' = NoRows /\ minted' = Null /\ pending' = Null /\ listing' = "new"
        /\ pat' = pat
    BY <2>1 DEF TokensReset
  <2>5. \A d \in Call : Tells(call'[d], pat', user'.sub, told')
    BY <2>2, <2>4
  <2> QED BY <2>3, <2>4, <2>5 DEF ListInv
<1> QED BY <1>1, <1>2, <1>3, <1>4, <1>5, <1>6, ListTokensStep DEF Next

LEMMA ListInit == Init => ListInv
BY DEF Init, SessionInit, TokensInit, NoRows, IdleCall, ListInv, Known, Tells, Settled

(* The list agrees with what the page was told of its tokens, unless an    *)
(* older list arrived last: a list already under way when a mint or a      *)
(* revocation is told is the only one that may miss it, and the row        *)
(* patched in place never says active of a token that is revoked.          *)
THEOREM ListStaysCurrent == Spec => []ListKeepsUp
<1>1. ListInv => ListKeepsUp
  BY DEF ListInv, ListKeepsUp, Current
<1>2. Init => TypeInv /\ ListInv
  BY TypeInit, ListInit
<1>3. TypeInv /\ ListInv /\ [Next]_vars => (TypeInv /\ ListInv)'
  BY TypeStep, ListStep
<1> QED BY <1>1, <1>2, <1>3, PTL DEF Spec
---------------------------------------------------------------------------
(* What the cards tell                                                     *)

LEMMA OpsOfCards ==
  \A op \in CardOps : /\ Card(op) \in Cards /\ op \in OpsOf(Card(op))
                      /\ \A card \in Cards : op \in OpsOf(card) => card = Card(op)
BY DEF CardOps, Krb5Ops, TicketOps, X509Ops, Card, Cards, OpsOf

LEMMA OpsOfCardOps == \A card \in Cards : OpsOf(card) \subseteq CardOps
BY DEF CardOps, Cards, OpsOf

(* A request that is landing goes on landing.                              *)
Steady(ops, x, y) == Lands(x, ops) \/ Lands(y, ops) => Same(x, y)

LEMMA SteadyIfSame == \A ops, x, y : Same(x, y) => Steady(ops, x, y)
BY DEF Steady

LEMMA SteadyLands ==
  ASSUME NEW x, NEW y, NEW ops, Steady(ops, x, y)
  PROVE  /\ Lands(x, ops) <=> Lands(y, ops)
         /\ Lands(y, ops) => \A face : Turned(y, face) = Turned(x, face)
<1>1. CASE Same(x, y)
  <2>1. Lands(x, ops) <=> Lands(y, ops)
    BY <1>1 DEF Same, Lands, Waits, Settled
  <2>2. \A face : Turned(y, face) = Turned(x, face)
    BY <1>1 DEF Same, Turned
  <2> QED BY <2>1, <2>2
<1>2. CASE ~Same(x, y)
  BY <1>2 DEF Steady
<1> QED BY <1>1, <1>2

LEMMA CardKept ==
  ASSUME NEW card \in Cards, NEW calls, NEW next, NEW s, NEW t, NEW a, NEW b,
         CardOK(card, calls, s, a), OneOf(next, OpsOf(card)),
         \A d \in Call : Steady(OpsOf(card), calls[d], next[d]),
         Face(card, s) = Face(card, t), Face(card, a) = Face(card, b)
  PROVE  CardOK(card, next, t, b)
<1>1. \A d \in Call : /\ Lands(calls[d], OpsOf(card)) <=> Lands(next[d], OpsOf(card))
                      /\ Lands(next[d], OpsOf(card)) =>
                           \A face : Turned(next[d], face) = Turned(calls[d], face)
  BY SteadyLands
<1> QED BY <1>1 DEF CardOK

LEMMA OneOfKept ==
  ASSUME NEW ops, OneOf(call, ops), Kept PROVE OneOf(call', ops)
BY DEF OneOf, Kept, GoesOn, Waits

LEMMA OneOfBegun ==
  ASSUME NEW ops, OneOf(call, ops), NEW op, NEW arg, Begins(op, arg), op \in ops => ~Busy(ops)
  PROVE  OneOf(call', ops)
<1>1. Started(op, arg).op = op
  BY DEF Started
<1>2. \A d \in Call : Waits(call'[d], ops) => Waits(call[d], ops) \/ (op \in ops /\ call'[d] = Started(op, arg))
  BY <1>1 DEF Begins, Same, Waits
<1>3. op \in ops => \A d \in Call : ~Waits(call[d], ops)
  BY DEF Busy, Waits
<1>4. CASE op \in ops
  BY <1>2, <1>3, <1>4 DEF OneOf, Begins, Same, Waits
<1>5. CASE op \notin ops
  BY <1>2, <1>5 DEF OneOf
<1> QED BY <1>4, <1>5

LEMMA SteadyBegun ==
  ASSUME NEW op, NEW arg, Begins(op, arg), NEW ops
  PROVE  \A d \in Call : Steady(ops, call[d], call'[d])
<1>1. ~Settled(Started(op, arg))
  BY DEF Settled, Started
<1>2. \A d \in Call : call[d].pc = "idle" => ~Settled(call[d])
  BY DEF Settled
<1> QED BY <1>1, <1>2, SteadyIfSame DEF Begins, Steady, Lands

(* The cards stay as they are, but for a request that is sent.             *)
LEMMA CardIfSteady ==
  ASSUME CardInv, \A card \in Cards : \A d \in Call : Steady(OpsOf(card), call[d], call'[d]),
         \A ops \in Groups : OneOf(call', ops),
         UNCHANGED <<shown, phase>>, user'.sub = user.sub,
         user.sub \in Subject => acct'[user.sub] = acct[user.sub],
         unsure \subseteq unsure',
         "krb5" \notin unsure' /\ phase = "ready" =>
           /\ user.sub \in Subject => OneOf(call', Krb5Ops)
           /\ RefreshOK(call', shown)
  PROVE  CardInv'
<1>1. ASSUME NEW card \in Cards \ unsure', phase = "ready", user.sub \in Subject
      PROVE  CardOK(card, call', shown', acct'[user'.sub])
  <2>1. CardOK(card, call, shown, acct[user.sub])
    BY <1>1 DEF CardInv
  <2>2. OneOf(call', OpsOf(card))
    BY <1>1 DEF OpsOf, Cards, Groups
  <2> QED BY <1>1, <2>1, <2>2, CardKept
<1> QED BY <1>1 DEF CardInv

LEMMA CardIfKept ==
  ASSUME CardInv, Kept, \A card \in Cards : \A d \in Call : Steady(OpsOf(card), call[d], call'[d]),
         \A d \in Call : call'[d].live => call'[d].arg = call[d].arg,
         UNCHANGED <<shown, phase, unsure>>, user'.sub = user.sub,
         user.sub \in Subject => acct'[user.sub] = acct[user.sub]
  PROVE  CardInv'
<1>1. \A ops \in Groups : OneOf(call', ops)
  BY OneOfKept DEF CardInv
<1>2. ASSUME "krb5" \notin unsure, phase = "ready"
      PROVE  (user.sub \in Subject => OneOf(call', Krb5Ops)) /\ RefreshOK(call', shown)
  <2>1. user.sub \in Subject => OneOf(call, Krb5Ops)
    BY <1>2 DEF CardInv, CardOK, Cards, OpsOf
  <2>2. RefreshOK(call, shown)
    BY <1>2 DEF CardInv
  <2>3. RefreshOK(call', shown)
    BY <2>2 DEF RefreshOK, Kept, GoesOn, Waits
  <2> QED BY <2>1, <2>3, OneOfKept
<1> QED BY <1>1, <1>2, CardIfSteady

LEMMA CardIfSame ==
  ASSUME TypeInv, CardInv, \A d \in Call : Same(call[d], call'[d]),
         UNCHANGED <<shown, phase, unsure>>, user'.sub = user.sub,
         user.sub \in Subject => acct'[user.sub] = acct[user.sub]
  PROVE  CardInv'
<1>1. Kept /\ \A d \in Call : call'[d].arg = call[d].arg
  BY DEF Kept, GoesOn, Same
<1> QED BY <1>1, SteadyIfSame, CardIfKept

LEMMA CardIfBegun ==
  ASSUME CardInv, NEW op, NEW arg, Begins(op, arg),
         op \in CardOps => ~Busy(Rivals(op)),
         op = "krb5-refresh" => (arg <=> shown.krb5 = "keytab"),
         unsure' = IF op \in Krb5Ops /\ Busy(Krb5Ops) THEN unsure \cup {"krb5"} ELSE unsure,
         UNCHANGED <<shown, phase>>, user'.sub = user.sub,
         user.sub \in Subject => acct'[user.sub] = acct[user.sub]
  PROVE  CardInv'
<1>1. ASSUME NEW ops \in Groups PROVE OneOf(call', ops)
  <2>1. op \in ops => op \in CardOps /\ Rivals(op) = ops
    BY DEF Groups, CardOps, Krb5Ops, Rivals, TicketOps, X509Ops
  <2> QED BY <2>1, OneOfBegun DEF CardInv
<1>2. ASSUME "krb5" \notin unsure', phase = "ready"
      PROVE  (user.sub \in Subject => OneOf(call', Krb5Ops)) /\ RefreshOK(call', shown)
  <2>1. "krb5" \notin unsure /\ (op \in Krb5Ops => ~Busy(Krb5Ops))
    BY <1>2
  <2>2. user.sub \in Subject => OneOf(call, Krb5Ops)
    BY <1>2, <2>1 DEF CardInv, CardOK, Cards, OpsOf
  <2>3. RefreshOK(call, shown)
    BY <1>2, <2>1 DEF CardInv
  <2>4. Started(op, arg).op = op /\ Started(op, arg).arg = arg
    BY DEF Started
  <2>5. RefreshOK(call', shown)
    BY <2>3, <2>4 DEF RefreshOK, Begins, Same, Waits
  <2> QED BY <2>1, <2>2, <2>5, OneOfBegun
<1> QED BY <1>1, <1>2, SteadyBegun, CardIfSteady

(* A page without cards.                                                   *)
LEMMA CardIfUnready ==
  ASSUME CardInv, Kept \/ \E op \in Ops \ CardOps, arg \in Args : Begins(op, arg), phase' # "ready"
  PROVE  CardInv'
<1>1. \A ops \in Groups : ops \subseteq CardOps
  BY DEF Groups, CardOps, Krb5Ops, TicketOps
<1>2. ASSUME NEW ops \in Groups PROVE OneOf(call', ops)
  BY <1>1, OneOfKept, OneOfBegun DEF CardInv
<1> QED BY <1>2 DEF CardInv

(* What a request does to an account: nothing to the other cards' parts,   *)
(* and to its own what the card says of it.                                *)
Turns(x, a, b) ==
  /\ x.op \notin X509Ops => b.x509 = a.x509 /\ b.proxy = a.proxy
  /\ x.op \notin Krb5Ops => b.krb5 = a.krb5
  /\ x.op # "unlink" => b.iam = a.iam
  /\ x.op = "x509-link" => b.x509 = x.arg /\ b.proxy = TRUE
  /\ x.op = "x509-revoke" =>
       b.x509 = (IF a.x509 = "until-expiry" THEN "none" ELSE a.x509) /\ b.proxy = FALSE
  /\ x.op = "krb5-refresh" /\ x.ans = "conflict" /\ x.arg => b.krb5 # "keytab"
  /\ x.op = "krb5-refresh" /\ ~(x.ans = "conflict" /\ x.arg) => (b.krb5 = "keytab" <=> a.krb5 = "keytab")
  /\ x.op = "krb5-keytab" => b.krb5 = "keytab"
  /\ x.op = "krb5-forget" => b.krb5 = "none"
  /\ x.op = "unlink" => b.iam = FALSE

LEMMA FaceTurns ==
  ASSUME NEW x, x.op \in CardOps, NEW a, NEW b, Turns(x, a, b)
  PROVE  /\ \A card \in Cards : card # Card(x.op) => Face(card, b) = Face(card, a)
         /\ Face(Card(x.op), b) = Turned(x, Face(Card(x.op), a))
<1>1. /\ x.op \notin X509Ops => Face("x509", b) = Face("x509", a)
      /\ x.op \notin Krb5Ops => Face("krb5", b) = Face("krb5", a)
      /\ x.op # "unlink" => Face("iam", b) = Face("iam", a)
  BY DEF Turns, Face
<1>2. CASE x.op \in X509Ops
  <2>1. Card(x.op) = "x509" /\ x.op \notin Krb5Ops /\ x.op # "unlink"
    BY <1>2 DEF Card, X509Ops, Krb5Ops, TicketOps
  <2>2. Face("x509", b) = <<b.x509, b.proxy>> /\ Face("x509", a)[1] = a.x509
    BY DEF Face
  <2>3. Face("x509", b) = Turned(x, Face("x509", a))
    BY <1>2, <2>2 DEF X509Ops, Turns, Turned
  <2> QED BY <1>1, <2>1, <2>3 DEF Cards
<1>3. CASE x.op \in Krb5Ops
  <2>1. Card(x.op) = "krb5" /\ x.op \notin X509Ops /\ x.op # "unlink"
    BY <1>3 DEF Card, X509Ops, Krb5Ops, TicketOps
  <2>2. Face("krb5", b) = Turned(x, Face("krb5", a))
    BY <1>3 DEF Krb5Ops, TicketOps, Turns, Turned, Face
  <2> QED BY <1>1, <2>1, <2>2 DEF Cards
<1>4. CASE x.op = "unlink"
  <2>1. Card(x.op) = "iam" /\ x.op \notin X509Ops /\ x.op \notin Krb5Ops
    BY <1>4 DEF Card, X509Ops, Krb5Ops, TicketOps
  <2>2. Face("iam", b) = Turned(x, Face("iam", a))
    BY <1>4 DEF Turns, Turned, Face
  <2> QED BY <1>1, <2>1, <2>2 DEF Cards
<1> QED BY <1>2, <1>3, <1>4 DEF CardOps

(* The broker and the page do the same.                                    *)
LEMMA EffectTurns ==
  ASSUME NEW op \in CardOps, NEW arg, ArgOK(op, arg), NEW a \in Account, NEW e \in Effects(op, arg, a),
         NEW x, x.op = op, x.arg = arg, x.ans = e.ans,
         op = "krb5-refresh" => (arg <=> a.krb5 = "keytab")
  PROVE  Turns(x, a, e.acct)
<1>1. CASE op = "x509-link"
  <2>1. e = [acct |-> [a EXCEPT !.x509 = arg, !.proxy = TRUE], ans |-> "ok"]
    BY <1>1 DEF Effects
  <2> QED BY <1>1, <2>1 DEF Turns, Account, X509Ops, Krb5Ops, TicketOps
<1>2. CASE op = "x509-revoke"
  <2>1. e = [acct |-> [a EXCEPT !.proxy = FALSE, !.x509 = IF @ = "until-expiry" THEN "none" ELSE @],
             ans |-> "ok"]
    BY <1>2 DEF Effects
  <2> QED BY <1>2, <2>1 DEF Turns, Account, X509Ops, Krb5Ops, TicketOps
<1>3. CASE op = "krb5-keytab"
  <2>1. e = [acct |-> [a EXCEPT !.krb5 = "keytab"], ans |-> "ok"]
    BY <1>3 DEF Effects
  <2> QED BY <1>3, <2>1 DEF Turns, Account, X509Ops, Krb5Ops, TicketOps
<1>4. CASE op = "krb5-forget"
  <2>1. e = [acct |-> [a EXCEPT !.krb5 = "none"], ans |-> "ok"]
    BY <1>4 DEF Effects
  <2> QED BY <1>4, <2>1 DEF Turns, Account, X509Ops, Krb5Ops, TicketOps
<1>5. CASE op = "unlink"
  <2>1. e = [acct |-> [a EXCEPT !.iam = FALSE], ans |-> "ok"]
    BY <1>5 DEF Effects
  <2> QED BY <1>5, <2>1 DEF Turns, Account, X509Ops, Krb5Ops, TicketOps
<1>6. CASE op = "krb5-refresh"
  <2>1. \/ e = [acct |-> a, ans |-> "ok"]
        \/ e = [acct |-> [a EXCEPT !.krb5 = "none"], ans |-> "conflict"]
    BY <1>6 DEF Effects
  <2>2. CASE e = [acct |-> a, ans |-> "ok"]
    BY <1>6, <2>2 DEF Turns, X509Ops, Krb5Ops, TicketOps
  <2>3. CASE e = [acct |-> [a EXCEPT !.krb5 = "none"], ans |-> "conflict"]
    BY <1>6, <2>3 DEF Turns, Account, X509Ops, Krb5Ops, TicketOps
  <2> QED BY <2>1, <2>2, <2>3
<1> QED BY <1>1, <1>2, <1>3, <1>4, <1>5, <1>6 DEF CardOps, X509Ops, Krb5Ops, TicketOps

(* Whatever was linked, another card's part stays.                         *)
LEMMA EffectElsewhere ==
  ASSUME NEW op \in CardOps, NEW arg, ArgOK(op, arg), NEW a \in Account, NEW e \in Effects(op, arg, a),
         NEW card \in Cards, card # Card(op)
  PROVE  Face(card, e.acct) = Face(card, a)
<1> DEFINE b == e.acct
<1>1. CASE op # "krb5-refresh"
  <2> DEFINE x == [op |-> op, arg |-> arg, ans |-> e.ans]
  <2>1. x.op = op /\ x.arg = arg /\ x.ans = e.ans
    OBVIOUS
  <2> HIDE DEF x
  <2>2. Turns(x, a, b)
    BY <1>1, <2>1, EffectTurns
  <2> QED BY <2>1, <2>2, FaceTurns
<1>2. CASE op = "krb5-refresh"
  <2>1. e.acct = a \/ e.acct = [a EXCEPT !.krb5 = "none"]
    BY <1>2 DEF Effects
  <2>2. e.acct.x509 = a.x509 /\ e.acct.proxy = a.proxy /\ e.acct.iam = a.iam
    BY <2>1 DEF Account
  <2> QED BY <1>2, <2>2 DEF Cards, Card, Krb5Ops, TicketOps, X509Ops, Face
<1> QED BY <1>1, <1>2

LEMMA PatchTurns ==
  ASSUME shown \in Account, NEW x, x.op \in CardOps, NEW t,
         \/ x.ans = "ok" /\ t = Patched(x.op, x.arg)
         \/ /\ x.ans = "conflict" /\ x.arg /\ x.op = "krb5-refresh"
            /\ t = [shown EXCEPT !.krb5 = IF @ = "keytab" THEN "ticket" ELSE @]
  PROVE  Turns(x, shown, t)
<1>1. CASE x.op = "x509-link"
  <2>1. t = [shown EXCEPT !.x509 = x.arg, !.proxy = TRUE]
    BY <1>1 DEF Patched
  <2> QED BY <1>1, <2>1 DEF Turns, Account, X509Ops, Krb5Ops, TicketOps
<1>2. CASE x.op = "x509-revoke"
  <2>1. t = [shown EXCEPT !.proxy = FALSE, !.x509 = IF @ = "until-expiry" THEN "none" ELSE @]
    BY <1>2 DEF Patched
  <2> QED BY <1>2, <2>1 DEF Turns, Account, X509Ops, Krb5Ops, TicketOps
<1>3. CASE x.op = "krb5-keytab"
  <2>1. t = [shown EXCEPT !.krb5 = "keytab"]
    BY <1>3 DEF Patched
  <2> QED BY <1>3, <2>1 DEF Turns, Account, X509Ops, Krb5Ops, TicketOps
<1>4. CASE x.op = "krb5-forget"
  <2>1. t = [shown EXCEPT !.krb5 = "none"]
    BY <1>4 DEF Patched
  <2> QED BY <1>4, <2>1 DEF Turns, Account, X509Ops, Krb5Ops, TicketOps
<1>5. CASE x.op = "unlink"
  <2>1. t = [shown EXCEPT !.iam = FALSE]
    BY <1>5 DEF Patched
  <2> QED BY <1>5, <2>1 DEF Turns, Account, X509Ops, Krb5Ops, TicketOps
<1>6. CASE x.op = "krb5-refresh"
  <2>1. CASE x.ans = "ok"
    <3>1. t = [shown EXCEPT !.krb5 = IF @ = "none" THEN "ticket" ELSE @]
      BY <1>6, <2>1 DEF Patched
    <3> QED BY <1>6, <2>1, <3>1 DEF Turns, Account, X509Ops, Krb5Ops, TicketOps
  <2>2. CASE x.ans = "conflict" /\ x.arg /\ t = [shown EXCEPT !.krb5 = IF @ = "keytab" THEN "ticket" ELSE @]
    BY <1>6, <2>2 DEF Turns, Account, X509Ops, Krb5Ops, TicketOps
  <2> QED BY <2>1, <2>2
<1> QED BY <1>1, <1>2, <1>3, <1>4, <1>5, <1>6 DEF CardOps, X509Ops, Krb5Ops, TicketOps
---------------------------------------------------------------------------
(* What the cards show                                                     *)

(* A page that shows itself anew has no request of a card under way.       *)
LEMMA CardIfShown ==
  ASSUME TypeInv, Kept, phase # "ready", NEW s \in Snapshots, s.sub = user.sub \/ user.sub = Nobody,
         s.rev = rev[s.sub] => s.data = acct[s.sub],
         shown' = s.data, unsure' = (IF s.rev = rev[s.sub] THEN {} ELSE Cards),
         UNCHANGED <<user, acct>>
  PROVE  CardInv'
<1>1. \A d \in Call : call'[d].live => call'[d].op \notin CardOps
  BY DEF Kept, GoesOn, TypeInv, PhaseOK
<1>2. \A ops \in Groups : ops \subseteq CardOps
  BY DEF Groups, CardOps, Krb5Ops, TicketOps
<1>3. \A ops : ops \subseteq CardOps => \A d \in Call : ~Waits(call'[d], ops)
  BY <1>1 DEF Waits
<1>4. \A ops : ops \subseteq CardOps => OneOf(call', ops)
  BY <1>3 DEF OneOf
<1>5. RefreshOK(call', shown')
  BY <1>1 DEF RefreshOK, Waits, CardOps, Krb5Ops, TicketOps
<1>6. ASSUME NEW card \in Cards \ unsure', user.sub \in Subject
      PROVE  CardOK(card, call', shown', acct'[user'.sub])
  <2>1. shown' = acct[user.sub]
    BY <1>6, NobodyAssumption
  <2>2. OpsOf(card) \subseteq CardOps
    BY OpsOfCardOps
  <2> QED BY <1>3, <1>4, <2>1, <2>2 DEF CardOK, Lands
<1> QED BY <1>2, <1>4, <1>5, <1>6 DEF CardInv

(* The broker executes a request of a card.                                *)
LEMMA CardChanges ==
  ASSUME TypeInv, CardInv, NEW c \in Call, BrokerChanges(c)
  PROVE  CardInv'
<1> DEFINE x == call[c]
           y == call'[c]
           w == call[c].who
           own == Card(call[c].op)
<1>1. CallsOK(call) /\ SessionTypes /\ CallOK(x)
  BY TypeParts DEF CallsOK
<1>2. CallsOK(call') /\ OnlyAnswers(c) /\ x.pc = "sent" /\ x.op \in CardOps
  BY BrokerAnswersOK DEF BrokerAnswers, BrokerChanges
<1>3. w \in Subject /\ acct[w] \in Account /\ ArgOK(x.op, x.arg) /\ own \in Cards
  BY <1>1, <1>2, OpsOfCards DEF CallOK, SessionTypes
<1>4. PICK e \in Effects(x.op, x.arg, acct[w]) :
         /\ acct' = [acct EXCEPT ![w] = e.acct]
         /\ Executed(c, e.ans, rev'[w])
         /\ unsure' = IF y.ans = e.ans THEN unsure ELSE unsure \cup {own}
  BY DEF BrokerChanges
<1>5. UNCHANGED <<user, shown, phase>>
  BY DEF BrokerChanges, session
<1>6. \A d \in Call : d # c => call'[d] = call[d]
  BY <1>1, <1>2 DEF OnlyAnswers, CallsOK
<1>7. e.ans \in {"ok", "conflict"} /\ e.acct \in Account
  BY <1>2, <1>3, <1>4, EffectsOK
<1>8. y.ans = e.ans => x.live
  BY <1>1, <1>4, <1>7 DEF Executed, IdleCall, CallsOK
<1>9. Kept
  BY <1>2, AnsweredKept
<1>10. x.live => y.op = x.op /\ y.arg = x.arg /\ y.live /\ y.pc = "reply"
  BY <1>2 DEF OnlyAnswers
<1>11. y.live => x.live
  BY <1>9 DEF Kept, GoesOn
<1>12. acct'[w] = e.acct /\ \A s \in Subject \ {w} : acct'[s] = acct[s]
  BY <1>1, <1>3, <1>4 DEF SessionTypes
<1>13. x.live => w = user.sub /\ phase = "ready"
  BY <1>2 DEF TypeInv, PhaseOK
<1>14. \A card \in Cards : card # own => x.op \notin OpsOf(card)
  BY <1>2, OpsOfCards
<1> HIDE DEF x, y, w, own
<1>15. ASSUME NEW card \in Cards, card # own, phase = "ready", user.sub \in Subject, card \notin unsure
       PROVE  CardOK(card, call', shown', acct'[user'.sub])
  <2>1. CardOK(card, call, shown, acct[user.sub])
    BY <1>15 DEF CardInv
  <2>2. ~Waits(x, OpsOf(card)) /\ ~Waits(y, OpsOf(card))
    BY <1>10, <1>11, <1>14, <1>15 DEF Waits
  <2>3. \A d \in Call : Steady(OpsOf(card), call[d], call'[d])
    BY <1>6, <2>2 DEF Steady, Lands, Same, x, y
  <2>4. OneOf(call', OpsOf(card))
    BY <1>9, <2>1, OneOfKept DEF CardOK
  <2>5. Face(card, acct'[user.sub]) = Face(card, acct[user.sub])
    <3>1. CASE user.sub = w
      <4>1. Face(card, e.acct) = Face(card, acct[w])
        BY <1>2, <1>3, <1>4, <1>15, EffectElsewhere DEF own, x
      <4> QED BY <1>12, <3>1, <4>1
    <3>2. CASE user.sub # w
      BY <1>12, <1>15, <3>2
    <3> QED BY <3>1, <3>2
  <2> QED BY <1>5, <2>1, <2>3, <2>4, <2>5, CardKept
<1>16. ASSUME y.ans = e.ans, own \notin unsure, phase = "ready", user.sub \in Subject
       PROVE  CardOK(own, call', shown', acct'[user'.sub])
  <2>1. x.live /\ w = user.sub /\ CardOK(own, call, shown, acct[w])
    BY <1>3, <1>8, <1>13, <1>16 DEF CardInv
  <2>2. x.op \in OpsOf(own) /\ Waits(x, OpsOf(own)) /\ ~Lands(x, OpsOf(own))
    BY <1>2, <2>1, OpsOfCards DEF Waits, Lands, Settled, own, x
  <2>3. \A d \in Call : d # c => ~Waits(call[d], OpsOf(own))
    BY <2>1, <2>2 DEF CardOK, OneOf, x
  <2>4. \A d \in Call : ~Lands(call[d], OpsOf(own))
    BY <2>2, <2>3 DEF Lands, x
  <2>5. Face(own, shown) = Face(own, acct[w])
    BY <2>1, <2>4 DEF CardOK
  <2>6. x.op = "krb5-refresh" => (x.arg <=> acct[w].krb5 = "keytab")
    <3>1. SUFFICES ASSUME x.op = "krb5-refresh" PROVE x.arg <=> acct[w].krb5 = "keytab"
      OBVIOUS
    <3>2. own = "krb5"
      BY <3>1 DEF own, x, Card, X509Ops, Krb5Ops, TicketOps
    <3>3. x.arg <=> shown.krb5 = "keytab"
      BY <1>16, <2>1, <3>1, <3>2 DEF CardInv, RefreshOK, Waits, x
    <3> QED BY <2>5, <3>2, <3>3 DEF Face
  <2>7. Turns(y, acct[w], e.acct)
    BY <1>2, <1>3, <1>4, <1>10, <1>16, <2>1, <2>6, EffectTurns DEF x
  <2>8. Face(own, e.acct) = Turned(y, Face(own, acct[w]))
    BY <1>2, <1>10, <2>1, <2>7, FaceTurns DEF own, x
  <2>9. Lands(y, OpsOf(own))
    BY <1>7, <1>10, <1>16, <2>1, <2>2 DEF Lands, Waits, Settled
  <2>10. \A d \in Call : d # c => ~Lands(call'[d], OpsOf(own))
    BY <1>6, <2>3 DEF Lands
  <2>11. OneOf(call', OpsOf(own))
    BY <1>9, <2>1, OneOfKept DEF CardOK
  <2> QED BY <1>5, <1>12, <2>1, <2>5, <2>8, <2>9, <2>10, <2>11 DEF CardOK, y
<1>17. ASSUME "krb5" \notin unsure', phase = "ready" PROVE RefreshOK(call', shown)
  <2>1. RefreshOK(call, shown)
    BY <1>4, <1>17 DEF CardInv
  <2> QED BY <1>6, <1>10, <1>11, <2>1 DEF RefreshOK, Waits, x, y
<1>18. \A ops \in Groups : OneOf(call', ops)
  BY <1>9, OneOfKept DEF CardInv
<1>19. ASSUME NEW card \in Cards \ unsure', phase = "ready", user.sub \in Subject
       PROVE  CardOK(card, call', shown', acct'[user'.sub])
  BY <1>4, <1>15, <1>16, <1>19
<1> QED BY <1>5, <1>17, <1>18, <1>19 DEF CardInv

(* The page shows what a request of a card has done.                       *)
LEMMA CardIfEnded ==
  ASSUME TypeInv, CardInv, NEW c \in Call, call[c].live, Settled(call[c]), call[c].op \in CardOps,
         Kept, ~call'[c].live, \A d \in Call : d # c => Same(call[d], call'[d]),
         Turns(call[c], shown, shown'), UNCHANGED <<user, acct, phase, unsure>>
  PROVE  CardInv'
<1> DEFINE x == call[c]
           own == Card(call[c].op)
<1>1. user.sub \in Subject
  BY SettledTypes DEF TypeInv, PhaseOK
<1>2. own \in Cards /\ x.op \in OpsOf(own) /\ \A card \in Cards : card # own => x.op \notin OpsOf(card)
  BY OpsOfCards
<1>3. /\ \A card \in Cards : card # own => Face(card, shown') = Face(card, shown)
      /\ Face(own, shown') = Turned(x, Face(own, shown))
  BY FaceTurns
<1> HIDE DEF x, own
<1>4. ASSUME NEW card \in Cards \ unsure, phase = "ready", card # own
      PROVE  CardOK(card, call', shown', acct'[user'.sub])
  <2>1. CardOK(card, call, shown, acct[user.sub])
    BY <1>1, <1>4 DEF CardInv
  <2>2. OneOf(call', OpsOf(card))
    BY <2>1, OneOfKept DEF CardOK
  <2>3. \A d \in Call : Steady(OpsOf(card), call[d], call'[d])
    BY <1>2, <1>4 DEF Steady, Lands, Waits, x
  <2> QED BY <1>3, <1>4, <2>1, <2>2, <2>3, CardKept
<1>5. ASSUME own \notin unsure, phase = "ready"
      PROVE  /\ CardOK(own, call', shown', acct'[user'.sub])
             /\ \A d \in Call : ~Waits(call'[d], OpsOf(own))
  <2>1. CardOK(own, call, shown, acct[user.sub])
    BY <1>1, <1>2, <1>5 DEF CardInv
  <2>2. Lands(x, OpsOf(own)) /\ Waits(x, OpsOf(own))
    BY <1>2 DEF Lands, Waits, x
  <2>3. \A d \in Call : ~Waits(call'[d], OpsOf(own))
    BY <2>1, <2>2 DEF CardOK, OneOf, Same, Waits, x
  <2>4. Turned(x, Face(own, shown)) = Face(own, acct[user.sub])
    BY <2>1, <2>2 DEF CardOK, x
  <2> QED BY <1>3, <2>3, <2>4 DEF CardOK, OneOf, Lands
<1>6. ASSUME "krb5" \notin unsure, phase = "ready" PROVE RefreshOK(call', shown')
  <2>1. CASE x.op \in Krb5Ops
    <3>1. own = "krb5" /\ OpsOf(own) = Krb5Ops
      BY <2>1 DEF own, x, Card, OpsOf, X509Ops, Krb5Ops, TicketOps
    <3> QED BY <1>5, <1>6, <3>1 DEF RefreshOK, Waits, Krb5Ops, TicketOps
  <2>2. CASE x.op \notin Krb5Ops
    <3>1. shown'.krb5 = shown.krb5
      BY <2>2 DEF Turns, x
    <3>2. RefreshOK(call, shown)
      BY <1>6 DEF CardInv
    <3> QED BY <3>1, <3>2 DEF RefreshOK, Waits, Same
  <2> QED BY <2>1, <2>2
<1>7. \A ops \in Groups : OneOf(call', ops)
  BY OneOfKept DEF CardInv
<1>8. ASSUME NEW card \in Cards \ unsure, phase = "ready" PROVE CardOK(card, call', shown', acct'[user'.sub])
  BY <1>4, <1>5, <1>8
<1> QED BY <1>6, <1>7, <1>8 DEF CardInv

LEMMA CardAnswered ==
  ASSUME TypeInv, CardInv, NEW c \in Call, ChangeAnswered(c)
  PROVE  CardInv'
<1>1. call[c].live /\ CallOK(call[c]) /\ call[c].op \in CardOps /\ UNCHANGED <<user, acct, phase, unsure>>
      /\ call[c].pc = "reply"
  BY DEF ChangeAnswered, TypeInv, CallsOK, CallOK, broker
<1>2. Kept /\ ~call'[c].live
  BY ContinuationOK, ContinuedKept
<1>3. \A d \in Call : d # c => Same(call[d], call'[d])
  BY ContinuationOK
<1>4. phase = "ready" /\ shown \in Account
  BY <1>1 DEF TypeInv, PhaseOK
<1>5. CASE /\ Emits(c)
           /\ shown' = IF call[c].ans = "ok" THEN Patched(call[c].op, call[c].arg)
                       ELSE [shown EXCEPT !.krb5 = IF @ = "keytab" THEN "ticket" ELSE @]
  <2>1. Settled(call[c])
    BY <1>1, <1>5 DEF Emits, Settled
  <2>2. call[c].ans = "conflict" => call[c].op = "krb5-refresh"
    BY <1>1, <2>1 DEF CallOK, GotOK
  <2>3. \/ call[c].ans = "ok" /\ shown' = Patched(call[c].op, call[c].arg)
        \/ /\ call[c].ans = "conflict" /\ call[c].arg /\ call[c].op = "krb5-refresh"
           /\ shown' = [shown EXCEPT !.krb5 = IF @ = "keytab" THEN "ticket" ELSE @]
    BY <1>5, <2>2 DEF Emits
  <2>4. Turns(call[c], shown, shown')
    BY <1>1, <1>4, <2>3, PatchTurns
  <2> QED BY <1>1, <1>2, <1>3, <2>1, <2>4, CardIfEnded
<1>6. CASE ~Emits(c) /\ UNCHANGED shown /\ Settled(call[c])
  <2>1. call[c].ans = "conflict" /\ ~call[c].arg /\ call[c].op = "krb5-refresh"
    BY <1>1, <1>6 DEF Emits, Settled, CallOK, GotOK
  <2>2. Turns(call[c], shown, shown)
    BY <2>1 DEF Turns, X509Ops, Krb5Ops, TicketOps
  <2> QED BY <1>1, <1>2, <1>3, <1>6, <2>2, CardIfEnded
<1>7. CASE ~Emits(c) /\ UNCHANGED shown /\ ~Settled(call[c])
  <2>1. \A d \in Call : call'[d].live => call'[d].arg = call[d].arg
    BY <1>2, <1>3 DEF Same
  <2>2. \A card \in Cards : \A d \in Call : Steady(OpsOf(card), call[d], call'[d])
    BY <1>2, <1>3, <1>7 DEF Steady, Lands, Waits
  <2> QED BY <1>1, <1>2, <1>7, <2>1, <2>2, CardIfKept
<1> QED BY <1>5, <1>6, <1>7 DEF ChangeAnswered
LEMMA CardContinued ==
  ASSUME TypeInv, CardInv, NEW c \in Call, call[c].op \notin CardOps,
         \A d \in Call : (call'[d].op = "none" /\ ~call'[d].live) \/ (d # c /\ Same(call[d], call'[d])),
         \A d \in Call : d # c => Same(call[d], call'[d]),
         UNCHANGED <<shown, phase, unsure>>, user'.sub = user.sub, UNCHANGED acct
  PROVE  CardInv'
<1>1. Kept /\ ~call'[c].live
  BY ContinuedKept
<1>2. \A d \in Call : call'[d].live => call'[d].arg = call[d].arg
  BY <1>1 DEF Same
<1>3. \A card \in Cards : \A d \in Call : Steady(OpsOf(card), call[d], call'[d])
  BY <1>1, OpsOfCardOps DEF Steady, Lands, Waits
<1> QED BY <1>1, <1>2, <1>3, CardIfKept

LEMMA CardStep == TypeInv /\ OwnInv /\ FreshInv /\ CardInv /\ [Next]_vars => CardInv'
<1> SUFFICES ASSUME TypeInv, OwnInv, FreshInv, CardInv, [Next]_vars PROVE CardInv'
  OBVIOUS
<1>0. CallsOK(call) /\ SessionTypes /\ PhaseOK /\ \A c \in Call : CallOK(call[c])
  BY TypeParts DEF TypeInv, CallsOK
<1>a. UNCHANGED call => \A d \in Call : Same(call[d], call'[d])
  BY DEF Same
<1>1. CASE UNCHANGED vars
  BY <1>1, <1>a, CardIfSame DEF vars, sessionVars, tab, session, broker, identityVars
<1>2. ASSUME NEW op \in Ops \ CardOps, NEW arg, UNCHANGED call \/ Begins(op, arg),
             UNCHANGED <<shown, phase, unsure>>, user'.sub = user.sub, UNCHANGED acct
      PROVE  CardInv'
  <2>1. CASE UNCHANGED call
    BY <1>2, <1>a, <2>1, CardIfSame
  <2>2. CASE Begins(op, arg)
    BY <1>2, <2>2, CardIfBegun DEF CardOps, Krb5Ops, TicketOps
  <2> QED BY <1>2, <2>1, <2>2
<1>3. {"nav", "purge", "load", "status", "tools", "list", "mint", "revoke"} \subseteq Ops \ CardOps
  BY DEF Ops, IdentityReads, SectionOps, Writes, CardOps, X509Ops, Krb5Ops, TicketOps
<1>4. ASSUME SessionStep, UNCHANGED <<identityVars, pat, tokenVars>> PROVE CardInv'
  <2>1. UNCHANGED <<shown, phase, unsure, acct>>
    BY <1>4 DEF identityVars, SessionStep, OpenGate, SignOutClick, CacheExpires, TokenExpires, broker
  <2>2. user'.sub = user.sub
    BY <1>0, <1>4 DEF SessionStep, OpenGate, SignOutClick, CacheExpires, TokenExpires, SessionTypes, Users, NoUser
  <2>3. UNCHANGED call \/ Begins("nav", Null) \/ Begins("purge", Null)
    BY <1>4, Asking DEF SessionStep, CacheExpires, TokenExpires
  <2> QED BY <1>2, <1>3, <2>1, <2>2, <2>3
<1>5. ASSUME Mount PROVE CardInv'
  <2> DEFINE cached == IF landed THEN Null ELSE cache
  <2>1. phase = "new" /\ UNCHANGED <<user, acct>>
    BY <1>5 DEF Mount, broker
  <2>2. CASE cached # Null /\ Showing(cached) /\ UNCHANGED call
    <3>1. cached \in Snapshots /\ cached = cache
      BY <1>0, <2>2 DEF SessionTypes
    <3>2. cached.sub = user.sub \/ user.sub = Nobody
      BY <2>2, <3>1 DEF OwnInv
    <3>3. cached.rev = rev[cached.sub] => cached.data = acct[cached.sub]
      BY <2>2, <3>1 DEF FreshInv, Faithful
    <3> QED BY <2>1, <2>2, <3>1, <3>2, <3>3, KeptIfUnchanged, CardIfShown DEF Showing
  <2>3. CASE phase' = "loading"
    <3>1. "load" \in Ops \ CardOps /\ Null \in Args
      BY <1>3 DEF Args
    <3> QED BY <1>5, <2>3, <3>1, Asking, KeptIfUnchanged, CardIfUnready
  <2> QED BY <1>5, <2>2, <2>3 DEF Mount
<1>6. ASSUME NEW op \in SectionOps, Toggle(op), UNCHANGED <<user, shown, phase, unsure, broker>>
      PROVE  CardInv'
  BY <1>2, <1>3, <1>6, Asking DEF broker, SectionOps
<1>7. ASSUME NEW op \in CardOps, NEW arg \in Args, CardAsked(op, arg) PROVE CardInv'
  <2>1. Begins(op, arg) /\ UNCHANGED <<user, acct, shown, phase>>
    BY <1>7, Asking DEF CardAsked, Ask, session, broker
  <2> QED BY <1>7, <2>1, CardIfBegun DEF CardAsked, Ask
<1>8. ASSUME LinkMade PROVE CardInv'
  <2>1. phase # "ready" /\ UNCHANGED <<call, phase>>
    BY <1>0, <1>8 DEF LinkMade, PhaseOK, identityVars
  <2> QED BY <2>1, KeptIfUnchanged, CardIfUnready
<1>9. ASSUME IdentityStep PROVE CardInv'
  <2>1. CASE ToggleProxyDetails
    BY <1>6, <2>1 DEF ToggleProxyDetails, SectionOps
  <2> QED BY <1>5, <1>7, <1>8, <1>9, <2>1, CardAsks DEF IdentityStep
<1>10. ASSUME TokensStep, UNCHANGED identityVars PROVE CardInv'
  <2>1. UNCHANGED <<shown, phase, unsure, user, acct>>
    <3>1. ASSUME NEW t \in Token, OpenRevokeConfirm(t) PROVE UNCHANGED <<user, acct>>
      BY <3>1 DEF OpenRevokeConfirm, OnTokens, broker
    <3>2. UNCHANGED <<user, acct>>
      BY <1>10, <3>1 DEF TokensStep, LoadTokens, OpenMintDialog, CloseMintDialog, Mint, Done,
         CloseRevokeConfirm, Revoke, OnTokens, broker
    <3> QED BY <1>10, <3>2 DEF identityVars
  <2>2. \/ UNCHANGED call \/ Begins("list", Null) \/ Begins("mint", Null) \/ Begins("revoke", pending)
    <3>1. ASSUME NEW t \in Token, OpenRevokeConfirm(t) PROVE UNCHANGED call
      BY <3>1 DEF OpenRevokeConfirm
    <3> QED BY <1>10, <3>1, Asking DEF TokensStep, OpenMintDialog, CloseMintDialog, CloseRevokeConfirm
  <2> QED BY <1>2, <1>3, <2>1, <2>2
<1>11. ASSUME ToggleTools PROVE CardInv'
  BY <1>6, <1>11 DEF ToggleTools, SectionOps
<1>12. ASSUME NEW c \in Call, Request(c) PROVE CardInv'
  <2>1. CASE /\ \/ BrokerReads(c) \/ BrokerPurges(c) \/ BrokerLists(c) \/ BrokerListsTokens(c)
                \/ BrokerMints(c) \/ BrokerRevokes(c)
             /\ UNCHANGED <<shown, phase, unsure>>
    <3>1. OnlyAnswers(c) /\ UNCHANGED <<user, acct>> /\ Kept
          /\ call[c].op \in {"nav", "load", "purge", "status", "tools", "list", "mint", "revoke"}
      BY <2>1, BrokerAnswersOK, AnsweredKept
         DEF BrokerAnswers, BrokerReads, BrokerPurges, BrokerLists, BrokerListsTokens, BrokerMints, BrokerRevokes,
             tab, session, broker, SectionOps, IdentityReads
    <3>2. UNCHANGED <<shown, phase, unsure>>
      BY <2>1
    <3>3. \A d \in Call : d # c => call'[d] = call[d]
      BY <1>0, <3>1 DEF OnlyAnswers, CallsOK
    <3>4. call[c].op \notin CardOps
      BY <1>3, <3>1
    <3>5. \A d \in Call : call'[d].live => call'[d].arg = call[d].arg
      BY <3>1, <3>3 DEF OnlyAnswers
    <3>6. ~Waits(call[c], CardOps) /\ ~Waits(call'[c], CardOps)
      BY <3>1, <3>4 DEF OnlyAnswers, Waits
    <3>7. \A card \in Cards : \A d \in Call : Steady(OpsOf(card), call[d], call'[d])
      BY <3>3, <3>6, OpsOfCardOps DEF Steady, Lands, Waits, Same
    <3> QED BY <3>1, <3>2, <3>5, <3>7, CardIfKept
  <2>2. CASE BrokerChanges(c)
    BY <2>2, CardChanges
  <2>3. CASE /\ BrokerRejects(c) \/ RequestFails(c) \/ RenewSucceeds(c) \/ RenewFails(c)
             /\ UNCHANGED <<shown, phase, unsure>>
    <3>1. call[c].pc \in {"sent", "renew"} /\ UNCHANGED acct /\ user'.sub = user.sub
      BY <1>0, <2>3 DEF BrokerRejects, RequestFails, RenewSucceeds, RenewFails, session, broker,
         SessionTypes, Users, NoUser
    <3>2. UNCHANGED <<shown, phase, unsure>>
      BY <2>3
    <3>3. /\ \A d \in Call : Quietly(call[d], call'[d])
          /\ \A d \in Call : call'[d].live =>
               call[d].live /\ call'[d].op = call[d].op /\ call'[d].who = call[d].who
      BY <2>3, NetworkOK
    <3>4. Kept
      BY <3>3 DEF Kept, GoesOn
    <3>5. \A d \in Call : call'[d].live => call'[d].arg = call[d].arg
      BY <1>0, <3>3 DEF Quietly, Same, CallOK
    <3>6. \A d \in Call : d # c => Same(call[d], call'[d])
      BY <2>3, NetworkOK DEF Same
    <3>7. ~Settled(call[c]) /\ ~(call'[c].live /\ Settled(call'[c]))
      BY <3>1, <3>3, QuietSettled DEF Settled
    <3>8. \A card \in Cards : \A d \in Call : Steady(OpsOf(card), call[d], call'[d])
      BY <3>6, <3>7 DEF Steady, Lands, Waits
    <3> QED BY <3>1, <3>2, <3>4, <3>5, <3>8, CardIfKept
  <2>4. CASE /\ \/ NavAnswered(c) \/ SignOutPurged(c) \/ SectionAnswered(c) \/ TokensListed(c)
                \/ MintAnswered(c) \/ RevokeAnswered(c)
             /\ UNCHANGED <<shown, phase, unsure>>
    <3>1. UNCHANGED <<user, acct>>
          /\ call[c].op \in {"nav", "purge", "status", "tools", "list", "mint", "revoke"}
      BY <2>4 DEF NavAnswered, SignOutPurged, SectionAnswered, TokensListed, MintAnswered, RevokeAnswered,
         OnTokens, broker, SectionOps
    <3>2. call[c].op \notin CardOps /\ call[c].pc = "reply"
      BY <1>3, <2>4, <3>1 DEF NavAnswered, SignOutPurged, SectionAnswered, TokensListed, MintAnswered,
         RevokeAnswered
    <3>3. UNCHANGED <<shown, phase, unsure>>
      BY <2>4
    <3> QED BY <2>4, <3>1, <3>2, <3>3, ContinuationOK, CardContinued
  <2>5. CASE Loaded(c)
    <3>1. Kept /\ UNCHANGED <<user, acct>>
      BY <2>5, ContinuationOK, ContinuedKept DEF Loaded, broker
    <3>2. CASE call[c].ans = "ok" /\ Showing(call[c].got)
      <4> DEFINE s == call[c].got
      <4>1. call[c].op = "load" /\ call[c].live /\ Settled(call[c])
        BY <1>0, <2>5, <3>2 DEF Loaded, CallOK, Settled
      <4>2. s \in Snapshots /\ s.sub = call[c].who /\ Faithful(s, call[c].overlap)
        BY <1>0, <4>1 DEF CallOK, GotOK, FreshInv, IdentityReads
      <4>3. phase = "loading" /\ call[c].who = user.sub
        BY <1>0, <4>1 DEF PhaseOK
      <4>4. shown' = s.data /\ unsure' = (IF s.rev = rev[s.sub] THEN {} ELSE Cards)
        BY <3>2 DEF Showing
      <4> HIDE DEF s
      <4> QED BY <3>1, <4>2, <4>3, <4>4, CardIfShown DEF Faithful
    <3>3. CASE phase' = "failed"
      BY <3>1, <3>3, CardIfUnready
    <3> QED BY <2>5, <3>2, <3>3 DEF Loaded
  <2>6. CASE ChangeAnswered(c)
    BY <2>6, CardAnswered
  <2> QED BY <1>12, <2>1, <2>2, <2>3, <2>4, <2>5, <2>6
          DEF Request, SessionRequest, IdentityRequest, TokensRequest, identityVars
<1>13. ASSUME NewDocument PROVE CardInv'
  <2>1. phase' # "ready" /\ \A d \in Call : ~call'[d].live
    BY <1>0, <1>13, DocumentGoes, AbandonedOK DEF IdentityReset
  <2> QED BY <2>1, CardIfUnready DEF Kept, GoesOn
<1> QED BY <1>1, <1>4, <1>9, <1>10, <1>11, <1>12, <1>13 DEF Next

LEMMA CardInit == Init => CardInv
BY DEF Init, SessionInit, IdentityInit, CardInv, OneOf, Waits, IdleCall

(* A card at rest shows what the broker has stored, though the page only   *)
(* patches it from the answers: between the broker's write and the answer  *)
(* the shown face, turned by the one request under way, is the broker's.   *)
THEOREM CardsStayTrue == Spec => []CardsTellTheTruth
<1>1. TypeInv /\ OwnInv /\ CardInv => CardsTellTheTruth
  <2> SUFFICES ASSUME TypeInv, OwnInv, CardInv, phase = "ready", Open
               PROVE  /\ "x509" \notin unsure /\ ~Busy(X509Ops) =>
                           shown.x509 = acct[user.sub].x509 /\ shown.proxy = acct[user.sub].proxy
                      /\ "krb5" \notin unsure /\ ~Busy(Krb5Ops) =>
                           (shown.krb5 = "keytab" <=> acct[user.sub].krb5 = "keytab")
                      /\ "iam" \notin unsure /\ ~Busy({"unlink"}) => shown.iam = acct[user.sub].iam
    BY DEF CardsTellTheTruth
  <2>1. user.sub \in Subject
    BY DEF OwnInv, TypeInv, TypeOK, NoUser
  <2>2. ASSUME NEW card \in Cards \ unsure, ~Busy(OpsOf(card))
        PROVE  Face(card, shown) = Face(card, acct[user.sub])
    BY <2>1, <2>2 DEF CardInv, CardOK, Busy, Lands, Waits
  <2>3. "x509" \in Cards /\ "krb5" \in Cards /\ "iam" \in Cards
    BY DEF Cards
  <2>4. OpsOf("x509") = X509Ops /\ OpsOf("krb5") = Krb5Ops /\ OpsOf("iam") = {"unlink"}
    BY DEF OpsOf
  <2> QED BY <2>2, <2>3, <2>4 DEF Face
<1>2. Init => TypeInv /\ OwnInv /\ FreshInv /\ CardInv
  BY TypeInit, OwnInit, FreshInit, CardInit
<1>3. TypeInv /\ OwnInv /\ FreshInv /\ CardInv /\ [Next]_vars => (TypeInv /\ OwnInv /\ FreshInv /\ CardInv)'
  BY TypeStep, OwnStep, FreshStep, CardStep
<1> QED BY <1>1, <1>2, <1>3, PTL DEF Spec
---------------------------------------------------------------------------
(* What the chip claims                                                    *)

LEMMA ClaimedBySome ==
  ASSUME TypeInv, Claimed PROVE phase = "ready" /\ user.sub \in Subject
BY SettledTypes DEF Claimed, Claims, Lands, Waits, TypeInv, PhaseOK

LEMMA SameLands ==
  ASSUME NEW x, NEW y, Same(x, y)
  PROVE  /\ Claims(y) => Claims(x)
         /\ \A ops : Lands(x, ops) => Lands(y, ops)
BY DEF Same, Claims, Lands, Waits, Settled

LEMMA QuietClaims ==
  ASSUME NEW x, NEW y, Quietly(x, y), Claims(y) PROVE Claims(x)
BY QuietSettled, SameLands DEF Claims, Lands

(* No new claim, and none loses what bears it out.                         *)
LEMMA ChipIfKept ==
  ASSUME ChipInv, UNCHANGED phase, user'.sub = user.sub, unsure \subseteq unsure', UNCHANGED acct,
         sec'.view = "active" /\ ~sec'.overlap => Claimed,
         \A d \in Call : Claims(call'[d]) => Claims(call[d]),
         \A d \in Call : Lands(call[d], {"x509-revoke"}) => Lands(call'[d], {"x509-revoke"})
  PROVE  ChipInv'
<1>1. Claimed' => Claimed
  BY DEF Claimed
<1>2. RevokeLands => RevokeLands'
  BY DEF RevokeLands
<1> QED BY <1>1, <1>2 DEF ChipInv

LEMMA ChipIfQuiet ==
  ASSUME ChipInv, UNCHANGED phase, user'.sub = user.sub, unsure \subseteq unsure', UNCHANGED acct,
         sec'.view = "active" /\ ~sec'.overlap => Claimed,
         \A d \in Call : Quietly(call[d], call'[d]),
         UNCHANGED call \/ \E op, arg : Begins(op, arg)
  PROVE  ChipInv'
<1>1. \A d \in Call : Lands(call[d], {"x509-revoke"}) => Lands(call'[d], {"x509-revoke"})
  BY SameLands DEF Begins, Lands, Settled
<1> QED BY <1>1, QuietClaims, ChipIfKept

(* A continuation of something else than a card's change.                  *)
LEMMA ChipIfContinued ==
  ASSUME TypeInv, ChipInv, UNCHANGED phase, user'.sub = user.sub, unsure \subseteq unsure', UNCHANGED acct,
         sec'.view = "active" /\ ~sec'.overlap => Claimed,
         NEW c \in Call, ~Lands(call[c], {"x509-revoke"}),
         \A d \in Call : (call'[d].op = "none" /\ ~call'[d].live) \/ (d # c /\ Same(call[d], call'[d])),
         \A d \in Call : d # c => Same(call[d], call'[d])
  PROVE  ChipInv'
<1>1. ~Claims(call'[c])
  BY DEF Claims, Lands, Waits
<1> QED BY <1>1, SameLands, ChipIfKept

(* A page that shows itself anew has claimed nothing.                      *)
LEMMA ChipIfShown ==
  ASSUME TypeInv, phase # "ready", UNCHANGED sec, \A d \in Call : Quietly(call[d], call'[d])
  PROVE  ChipInv'
<1>1. ~Claimed
  BY ClaimedBySome
<1>2. ~Claimed'
  BY <1>1, QuietClaims DEF Claimed
<1> QED BY <1>2 DEF ChipInv

LEMMA ChipChanges ==
  ASSUME TypeInv, ChipInv, NEW c \in Call, BrokerChanges(c)
  PROVE  ChipInv'
<1> DEFINE x == call[c]
           y == call'[c]
           w == call[c].who
<1>1. CallsOK(call) /\ SessionTypes /\ CallOK(x)
  BY TypeParts DEF CallsOK
<1>2. OnlyAnswers(c) /\ x.pc = "sent" /\ x.op \in CardOps
  BY BrokerAnswersOK DEF BrokerAnswers, BrokerChanges
<1>3. w \in Subject /\ acct[w] \in Account /\ ArgOK(x.op, x.arg)
  BY <1>1, <1>2 DEF CallOK, SessionTypes
<1>4. PICK e \in Effects(x.op, x.arg, acct[w]) :
         /\ acct' = [acct EXCEPT ![w] = e.acct]
         /\ Executed(c, e.ans, rev'[w])
         /\ unsure' = IF y.ans = e.ans THEN unsure ELSE unsure \cup {Card(x.op)}
  BY DEF BrokerChanges
<1>5. UNCHANGED <<user, phase, sec>>
  BY DEF BrokerChanges, session
<1>6. \A d \in Call : d # c => call'[d] = call[d]
  BY <1>1, <1>2 DEF OnlyAnswers, CallsOK
<1>7. e.ans \in {"ok", "conflict"}
  BY <1>2, <1>3, <1>4, EffectsOK
<1>8. x.live => y.op = x.op /\ y.live /\ y.pc = "reply"
  BY <1>2 DEF OnlyAnswers
<1>9. ~x.live => ~y.live
  BY <1>2 DEF OnlyAnswers
<1>10. acct'[w] = e.acct /\ \A s \in Subject \ {w} : acct'[s] = acct[s]
  BY <1>1, <1>3, <1>4 DEF SessionTypes
<1> HIDE DEF x, y, w
<1>11. Claimed' => Claimed
  <2>1. ~Claims(y)
    BY <1>2, <1>8, <1>9, OpsApart DEF Claims, Lands, Waits, x
  <2> QED BY <1>5, <1>6, <2>1 DEF Claimed, y
<1>12. RevokeLands => RevokeLands'
  <2>1. ~Lands(x, {"x509-revoke"})
    BY <1>2 DEF Lands, Settled, x
  <2> QED BY <1>6, <2>1 DEF RevokeLands, x
<1>13. ASSUME "x509" \notin unsure', user.sub \in Subject, acct[user.sub].proxy
       PROVE  acct'[user.sub].proxy \/ RevokeLands'
  <2>1. CASE user.sub # w
    BY <1>10, <1>13, <2>1
  <2>2. CASE x.op \notin X509Ops /\ user.sub = w
    <3>1. "x509" \in Cards /\ "x509" # Card(x.op)
      BY <2>2 DEF Cards, Card
    <3>2. Face("x509", e.acct) = Face("x509", acct[w])
      BY <1>2, <1>3, <1>4, <3>1, EffectElsewhere DEF x
    <3>3. e.acct.proxy = acct[w].proxy
      BY <3>2 DEF Face
    <3> QED BY <1>10, <1>13, <2>2, <3>3
  <2>3. CASE x.op = "x509-link" /\ user.sub = w
    <3>1. e.acct = [acct[w] EXCEPT !.x509 = x.arg, !.proxy = TRUE]
      BY <1>4, <2>3 DEF Effects
    <3>2. e.acct.proxy
      BY <1>3, <3>1 DEF Account
    <3> QED BY <1>10, <2>3, <3>2
  <2>4. CASE x.op = "x509-revoke" /\ user.sub = w
    <3>1. y.ans = e.ans
      BY <1>4, <1>13, <2>4 DEF Card, X509Ops
    <3>2. x.live
      BY <1>1, <1>4, <1>7, <3>1 DEF Executed, IdleCall, CallsOK, x, y
    <3>3. Lands(y, {"x509-revoke"})
      BY <1>7, <1>8, <2>4, <3>1, <3>2 DEF Lands, Waits, Settled
    <3> QED BY <3>3 DEF RevokeLands, y
  <2> QED BY <1>2, <2>1, <2>2, <2>3, <2>4 DEF X509Ops, x
<1>14. unsure \subseteq unsure'
  BY <1>4
<1> QED BY <1>5, <1>11, <1>12, <1>13, <1>14, ClaimedBySome DEF ChipInv

(* The answer to a link or a revocation ends every claim.                  *)
LEMMA ChipAnswered ==
  ASSUME TypeInv, ChipInv, NEW c \in Call, ChangeAnswered(c)
  PROVE  ChipInv'
<1>1. call[c].live /\ CallOK(call[c]) /\ call[c].op \in CardOps /\ UNCHANGED <<user, acct, phase, unsure>>
      /\ call[c].pc = "reply" /\ CallsOK(call)
  BY DEF ChangeAnswered, TypeInv, CallsOK, CallOK, broker
<1>2. /\ \A d \in Call : Quietly(call[d], call'[d])
      /\ \A d \in Call : (call'[d].op = "none" /\ ~call'[d].live) \/ (d # c /\ Same(call[d], call'[d]))
      /\ \A d \in Call : d # c => Same(call[d], call'[d])
  BY ContinuationOK
<1>3. CASE UNCHANGED sec /\ ~Lands(call[c], {"x509-revoke"})
  BY <1>1, <1>2, <1>3, ChipIfContinued DEF Claimed
<1>4. CASE /\ call[c].op \in X509Ops
           /\ sec' = SectionPatched(call[c].op)
           /\ call' = Missed(Overlapped([call EXCEPT ![c] = IdleCall]), {"status"})
  <2>1. sec'.view # "active"
    BY <1>4, ViewAssumption DEF SectionPatched, X509Ops, TypeInv, Sections, Views
  <2> DEFINE two == Missed(Missed([call EXCEPT ![c] = IdleCall], IdentityReads), {"status"})
  <2>2. \A d \in Call : two[d].op \in IdentityReads \cup {"status"} => two[d].overlap
    BY <1>1, DroppedQuietly
  <2>3. call' = two
    BY <1>4, Marks
  <2> HIDE DEF two
  <2>4. \A d \in Call : ~Claims(call'[d])
    BY <2>2, <2>3 DEF Claims, Lands, Waits
  <2> QED BY <2>1, <2>4 DEF Claimed, ChipInv
<1>5. CASE Emits(c)
  BY <1>3, <1>4, <1>5 DEF ChangeAnswered, SectionPatched, X509Ops, Lands, Waits
<1>6. CASE ~Emits(c)
  <2>1. ~Lands(call[c], {"x509-revoke"})
    BY <1>1, <1>6 DEF Lands, Waits, Settled, Emits, CallOK, GotOK
  <2> QED BY <1>3, <1>6, <2>1 DEF ChangeAnswered
<1> QED BY <1>5, <1>6

LEMMA ChipStep == TypeInv /\ ChipInv /\ [Next]_vars => ChipInv'
<1> SUFFICES ASSUME TypeInv, ChipInv, [Next]_vars PROVE ChipInv'
  OBVIOUS
<1>0. CallsOK(call) /\ SessionTypes /\ PhaseOK /\ \A c \in Call : CallOK(call[c])
  BY TypeParts DEF TypeInv, CallsOK
<1>a. ASSUME UNCHANGED sec, sec'.view = "active", ~sec'.overlap PROVE Claimed
  BY <1>a DEF Claimed
<1>b. UNCHANGED call => \A d \in Call : Quietly(call[d], call'[d])
  BY QuietIfSame
<1>1. CASE UNCHANGED vars
  BY <1>1, <1>a, <1>b, ChipIfQuiet DEF vars, sessionVars, tab, session, broker, identityVars
<1>2. ASSUME SessionStep, UNCHANGED <<identityVars, pat, tokenVars>> PROVE ChipInv'
  <2>1. UNCHANGED <<sec, phase, unsure, acct>>
    BY <1>2 DEF identityVars, SessionStep, OpenGate, SignOutClick, CacheExpires, TokenExpires, broker
  <2>2. user'.sub = user.sub
    BY <1>0, <1>2 DEF SessionStep, OpenGate, SignOutClick, CacheExpires, TokenExpires, SessionTypes, Users, NoUser
  <2>3. /\ UNCHANGED call \/ \E op, arg : Begins(op, arg)
        /\ \A d \in Call : Quietly(call[d], call'[d])
    BY <1>2, <1>b, Asking DEF SessionStep, CacheExpires, TokenExpires
  <2> QED BY <1>a, <2>1, <2>2, <2>3, ChipIfQuiet
<1>3. ASSUME Mount PROVE ChipInv'
  <2>1. phase # "ready" /\ UNCHANGED sec
    BY <1>3 DEF Mount
  <2> QED BY <1>3, <2>1, Asking, ChipIfShown
<1>4. ASSUME NEW op \in SectionOps, Toggle(op), UNCHANGED <<user, phase, unsure, broker>>
      PROVE  ChipInv'
  <2>1. sec'.view = sec.view /\ sec'.overlap = sec.overlap
    BY <1>4, ToggleOK
  <2>2. sec'.view = "active" /\ ~sec'.overlap => Claimed
    BY <2>1 DEF Claimed
  <2>3. /\ UNCHANGED call \/ Begins(op, sec.seq + 1)
        /\ \A d \in Call : Quietly(call[d], call'[d])
    BY <1>4, Asking
  <2> QED BY <1>4, <2>2, <2>3, ChipIfQuiet DEF broker
<1>5. ASSUME NEW op \in CardOps, NEW arg \in Args, CardAsked(op, arg) PROVE ChipInv'
  <2>1. Begins(op, arg) /\ \A d \in Call : Quietly(call[d], call'[d])
    BY <1>5, Asking
  <2>2. UNCHANGED <<user, acct, phase, sec>> /\ unsure \subseteq unsure'
    BY <1>5 DEF CardAsked, Ask, session, broker
  <2> QED BY <1>a, <2>1, <2>2, ChipIfQuiet
<1>6. ASSUME LinkMade PROVE ChipInv'
  <2>1. phase # "ready" /\ UNCHANGED phase
    BY <1>0, <1>6 DEF LinkMade, PhaseOK, identityVars
  <2> QED BY <2>1 DEF ChipInv
<1>7. ASSUME IdentityStep PROVE ChipInv'
  <2>1. CASE ToggleProxyDetails
    BY <1>4, <2>1 DEF ToggleProxyDetails, SectionOps
  <2> QED BY <1>3, <1>5, <1>6, <1>7, <2>1, CardAsks DEF IdentityStep
<1>8. ASSUME TokensStep, UNCHANGED identityVars PROVE ChipInv'
  <2>1. UNCHANGED <<sec, phase, unsure, user, acct>>
    <3>1. ASSUME NEW t \in Token, OpenRevokeConfirm(t) PROVE UNCHANGED <<user, acct>>
      BY <3>1 DEF OpenRevokeConfirm, OnTokens, broker
    <3>2. UNCHANGED <<user, acct>>
      BY <1>8, <3>1 DEF TokensStep, LoadTokens, OpenMintDialog, CloseMintDialog, Mint, Done,
         CloseRevokeConfirm, Revoke, OnTokens, broker
    <3> QED BY <1>8, <3>2 DEF identityVars
  <2>2. /\ UNCHANGED call \/ \E op, arg : Begins(op, arg)
        /\ \A d \in Call : Quietly(call[d], call'[d])
    <3>1. ASSUME NEW t \in Token, OpenRevokeConfirm(t) PROVE UNCHANGED call
      BY <3>1 DEF OpenRevokeConfirm
    <3> QED BY <1>8, <1>b, <3>1, Asking DEF TokensStep, OpenMintDialog, CloseMintDialog, CloseRevokeConfirm
  <2> QED BY <1>a, <2>1, <2>2, ChipIfQuiet
<1>9. ASSUME ToggleTools PROVE ChipInv'
  BY <1>4, <1>9 DEF ToggleTools, SectionOps
<1>10. ASSUME NEW c \in Call, Request(c) PROVE ChipInv'
  <2>1. CASE /\ \/ BrokerReads(c) \/ BrokerPurges(c) \/ BrokerLists(c) \/ BrokerListsTokens(c)
                \/ BrokerMints(c) \/ BrokerRevokes(c)
             /\ UNCHANGED <<sec, phase, unsure>>
    <3>1. OnlyAnswers(c) /\ UNCHANGED <<user, acct>>
          /\ call[c].op \in {"nav", "load", "purge", "status", "tools", "list", "mint", "revoke"}
          /\ (call[c].op = "status" => BrokerLists(c))
      BY <2>1, BrokerAnswersOK
         DEF BrokerAnswers, BrokerReads, BrokerPurges, BrokerLists, BrokerListsTokens, BrokerMints, BrokerRevokes,
             tab, session, broker, SectionOps, IdentityReads
    <3>2. \A d \in Call : d # c => call'[d] = call[d]
      BY <1>0, <3>1 DEF OnlyAnswers, CallsOK
    <3>3. ASSUME Claims(call'[c]) PROVE acct[user.sub].proxy
      <4>1. call[c].live /\ call[c].op = "status" /\ call[c].pc = "sent" /\ call[c].who = user.sub
        BY <1>0, <3>1, <3>3 DEF OnlyAnswers, Claims, Lands, Waits, PhaseOK
      <4>2. call'[c].got = IF acct[call[c].who].proxy THEN "active" ELSE "no proxy"
        BY <1>0, <3>1, <4>1, AnsweredGot DEF BrokerLists
      <4> QED BY <3>3, <4>1, <4>2 DEF Claims
    <3>4. Claimed' => Claimed \/ acct[user.sub].proxy
      BY <2>1, <3>2, <3>3 DEF Claimed
    <3>5. RevokeLands => RevokeLands'
      BY <3>1, <3>2 DEF RevokeLands, Lands, Waits
    <3> QED BY <2>1, <3>1, <3>4, <3>5 DEF ChipInv
  <2>2. CASE BrokerChanges(c)
    BY <2>2, ChipChanges
  <2>3. CASE /\ BrokerRejects(c) \/ RequestFails(c) \/ RenewSucceeds(c) \/ RenewFails(c)
             /\ UNCHANGED <<sec, phase, unsure>>
    <3>1. call[c].pc \in {"sent", "renew"} /\ UNCHANGED acct /\ user'.sub = user.sub
      BY <1>0, <2>3 DEF BrokerRejects, RequestFails, RenewSucceeds, RenewFails, session, broker,
         SessionTypes, Users, NoUser
    <3>2. \A d \in Call : Claims(call'[d]) => Claims(call[d])
      BY <2>3, NetworkOK, QuietClaims
    <3>3. \A d \in Call : Lands(call[d], {"x509-revoke"}) => Lands(call'[d], {"x509-revoke"})
      BY <2>3, <3>1, NetworkOK DEF Lands, Settled
    <3> QED BY <1>a, <2>3, <3>1, <3>2, <3>3, ChipIfKept
  <2>4. CASE /\ NavAnswered(c) \/ SignOutPurged(c) \/ TokensListed(c) \/ MintAnswered(c) \/ RevokeAnswered(c)
             /\ UNCHANGED <<sec, phase, unsure>>
    <3>1. UNCHANGED <<user, acct>> /\ call[c].op \in {"nav", "purge", "list", "mint", "revoke"}
      BY <2>4 DEF NavAnswered, SignOutPurged, TokensListed, MintAnswered, RevokeAnswered, OnTokens, broker
    <3>2. ~Lands(call[c], {"x509-revoke"})
      BY <3>1 DEF Lands, Waits
    <3> QED BY <1>a, <2>4, <3>1, <3>2, ContinuationOK, ChipIfContinued
  <2>5. CASE SectionAnswered(c) /\ UNCHANGED <<phase, unsure>>
    <3>1. UNCHANGED <<user, acct>> /\ call[c].op \in SectionOps /\ call[c].pc = "reply" /\ sec' = SectionAfter(c)
      BY <2>5 DEF SectionAnswered, broker
    <3>2. ~Lands(call[c], {"x509-revoke"})
      BY <3>1 DEF Lands, Waits, SectionOps
    <3>3. ASSUME sec'.view = "active", ~sec'.overlap PROVE Claimed
      <4>1. CASE UNCHANGED sec
        BY <3>3, <4>1 DEF Claimed
      <4>2. CASE ~UNCHANGED sec
        <5>1. sec' = [sec EXCEPT !.view = IF call[c].ans = "ok" THEN call[c].got ELSE Null,
                                 !.asked = call[c].arg, !.overlap = call[c].overlap, !.loading = FALSE]
          BY <3>1, <4>2 DEF SectionAfter
        <5>2. sec'.view = (IF call[c].ans = "ok" THEN call[c].got ELSE Null) /\ sec'.overlap = call[c].overlap
          BY <5>1 DEF TypeInv, Sections
        <5>3. call[c].ans = "ok" /\ call[c].got = "active" /\ ~call[c].overlap
          BY <3>3, <5>2, ViewAssumption DEF Views
        <5>4. call[c].live /\ Settled(call[c]) /\ call[c].op # "tools"
          BY <1>0, <3>1, <5>3 DEF CallOK, GotOK, Settled
        <5> QED BY <3>1, <5>3, <5>4 DEF Claimed, Claims, Lands, Waits, SectionOps
      <4> QED BY <4>1, <4>2
    <3> QED BY <2>5, <3>1, <3>2, <3>3, ContinuationOK, ChipIfContinued
  <2>6. CASE Loaded(c)
    <3>1. phase # "ready" /\ UNCHANGED sec
      BY <1>0, <2>6 DEF Loaded, CallOK, PhaseOK
    <3> QED BY <2>6, <3>1, ContinuationOK, ChipIfShown
  <2>7. CASE ChangeAnswered(c)
    BY <2>7, ChipAnswered
  <2> QED BY <1>10, <2>1, <2>2, <2>3, <2>4, <2>5, <2>6, <2>7
          DEF Request, SessionRequest, IdentityRequest, TokensRequest, identityVars, BrokerLists
<1>11. ASSUME NewDocument PROVE ChipInv'
  BY <1>11, DocumentGoes DEF IdentityReset, ChipInv
<1> QED BY <1>1, <1>2, <1>7, <1>8, <1>9, <1>10, <1>11 DEF Next

LEMMA ChipInit == Init => ChipInv
BY DEF Init, IdentityInit, ChipInv

(* The chip never says active for a proxy that was revoked on this page,   *)
(* whatever status requests were under way: the revocation's answer writes *)
(* the section and marks those that may still overwrite it.                *)
THEOREM ChipStaysTrue == Spec => []ChipAfterRevoke
<1>1. ChipInv => ChipAfterRevoke
  <2>1. RevokeLands => Busy(X509Ops)
    BY DEF RevokeLands, Lands, Waits, Busy, X509Ops
  <2> QED BY <2>1 DEF ChipInv, Claimed, ChipAfterRevoke
<1>2. Init => TypeInv /\ ChipInv
  BY TypeInit, ChipInit
<1>3. TypeInv /\ ChipInv /\ [Next]_vars => (TypeInv /\ ChipInv)'
  BY TypeStep, ChipStep
<1> QED BY <1>1, <1>2, <1>3, PTL DEF Spec
=============================================================================

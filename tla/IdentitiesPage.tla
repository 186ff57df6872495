--------------------------- MODULE IdentitiesPage ---------------------------
(***************************************************************************)
(* The Identities page (IdentitiesPage.vue) with its cards: the grid       *)
(* certificate (X509IdentityCard.vue), the Kerberos ticket and keytab      *)
(* (Krb5IdentityCard.vue) and an account linked by redirect                *)
(* (IdentityLink.vue).  A card sends one request, patches what the page    *)
(* shows from the answer alone, and drops the identities snapshot.         *)
(*                                                                         *)
(* An account is [x509, proxy, krb5, iam]: the custody mode of the grid    *)
(* certificate, whether a proxy is stored, what Kerberos has, and whether  *)
(* the redirect account is linked.  The effect of a request at the broker  *)
(* is the providers' (x509.py, krb5.py, api/identities.py).                *)
(***************************************************************************)
EXTENDS Accordion

VARIABLES
  shown,    \* the identities the page shows, or Null before they are loaded
  phase,    \* "new", "loading", "ready" or "failed"
  landed,   \* the URL carries ?linked or ?linked_error
  unsure    \* history: the cards whose request may have had an untold effect

identityVars == <<shown, phase, landed, unsure, sec>>

Cards == {"x509", "krb5", "iam"}

X509Ops == {"x509-link", "x509-revoke"}
TicketOps == {"krb5-refresh", "krb5-forget"}
Krb5Ops == TicketOps \cup {"krb5-keytab"}
CardOps == X509Ops \cup Krb5Ops \cup {"unlink"}

Card(op) == IF op \in X509Ops THEN "x509" ELSE IF op \in Krb5Ops THEN "krb5" ELSE "iam"

---------------------------------------------------------------------------
(* Loading                                                                 *)

Showing(snapshot) ==
  /\ shown' = snapshot.data
  /\ phase' = "ready"
  /\ unsure' = IF snapshot.rev = rev[snapshot.sub] THEN {} ELSE Cards

(* onMounted: a landing from a linking flow drops the snapshot first.      *)
Mount ==
  /\ page = "identities" /\ phase = "new"
  /\ landed' = FALSE
  /\ LET cached == IF landed THEN Null ELSE cache
     IN /\ cache' = cached
        /\ acked' = IF landed THEN [acked EXCEPT ![user.sub] = rev[user.sub]] ELSE acked
        /\ IF cached # Null
           THEN Showing(cached) /\ UNCHANGED call
           ELSE /\ FreeSlots # {}
                /\ call' = [(IF landed THEN Overlapped(call) ELSE call)
                              EXCEPT ![NextSlot] = Started("load", Null)]
                /\ phase' = "loading"
                /\ UNCHANGED <<shown, unsure>>
  /\ UNCHANGED <<user, page, nav, signout, idp, events, broker, sec>>

Loaded(c) ==
  /\ call[c].pc = "reply" /\ call[c].op = "load"
  /\ IF call[c].ans = "ok"
     THEN Showing(call[c].got)
     ELSE phase' = "failed" /\ UNCHANGED <<shown, unsure>>
  /\ cache' = CacheAfter(c)
  /\ call' = Released(c)
  /\ UNCHANGED <<user, page, nav, signout, idp, events, broker, acked, landed, sec>>

---------------------------------------------------------------------------
(* The cards                                                               *)

OnPage == page = "identities" /\ phase = "ready"

(* Nothing keeps the ticket's and the keytab's requests from overlapping.  *)
Ask(op, arg) ==
  /\ Click
  /\ Invoke(op, arg)
  /\ unsure' = IF op \in Krb5Ops /\ Busy(Krb5Ops) THEN unsure \cup {"krb5"} ELSE unsure
  /\ UNCHANGED <<session, broker, acked, shown, phase, landed, sec>>

LinkX509(mode) == OnPage /\ ~Busy(X509Ops) /\ Ask("x509-link", mode)

(* Revoke is offered in the open section, next to the active proxy.        *)
RevokeProxy ==
  /\ OnPage /\ shown.x509 # "none"
  /\ sec.open /\ ~sec.loading /\ sec.view = "active"
  /\ ~Busy(X509Ops)
  /\ Ask("x509-revoke", Null)

(* The hands-free refresh remembers whether a keytab was linked.           *)
RefreshTicket ==
  /\ OnPage /\ shown.krb5 # "none"
  /\ ~Busy(TicketOps)
  /\ Ask("krb5-refresh", shown.krb5 = "keytab")

LinkKeytab == OnPage /\ ~Busy({"krb5-keytab"}) /\ Ask("krb5-keytab", Null)

ForgetTicket ==
  OnPage /\ shown.krb5 # "none" /\ ~Busy(TicketOps) /\ Ask("krb5-forget", Null)

Unlink == OnPage /\ shown.iam /\ ~Busy({"unlink"}) /\ Ask("unlink", Null)

ToggleProxyDetails ==
  /\ OnPage /\ shown.x509 # "none"
  /\ Toggle("status")
  /\ UNCHANGED <<user, cache, page, nav, signout, idp, broker, acked,
                 shown, phase, landed, unsure>>

(* Link account or Reconnect: straight to Keycloak, or to the address the  *)
(* broker gives for the backend's own authorization server.                *)
FollowLink ==
  /\ OnPage /\ Open /\ ~Busy({"unlink"}) /\ Event
  /\ GoTo("keycloak")
  /\ UNCHANGED <<user, cache, idp, broker, acked>>

LinkMade ==
  /\ page = "keycloak" /\ SignedIn /\ ~acct[user.sub].iam
  /\ acct' = [acct EXCEPT ![user.sub].iam = TRUE]
  /\ rev' = [rev EXCEPT ![user.sub] = @ + 1]
  /\ UNCHANGED <<tab, call, acked, identityVars>>

(* The broker's own callback lands on /identities/?linked=...              *)
BackendReturns ==
  /\ page = "keycloak" /\ SignedIn /\ Event
  /\ GoTo("identities")
  /\ UNCHANGED <<user, cache, idp, broker, acked>>

---------------------------------------------------------------------------
(* At the broker                                                           *)

(* A refresh with a keytab the service rejects deletes the whole record    *)
(* and answers 409.                                                        *)
Effects(op, arg, a) ==
  CASE op = "x509-link"   -> {[acct |-> [a EXCEPT !.x509 = arg, !.proxy = TRUE], ans |-> "ok"]}
    [] op = "x509-revoke" -> {[acct |-> [a EXCEPT !.proxy = FALSE,
                                          !.x509 = IF @ = "until-expiry" THEN "none" ELSE @],
                               ans |-> "ok"]}
    [] op = "krb5-keytab" -> {[acct |-> [a EXCEPT !.krb5 = "keytab"], ans |-> "ok"]}
    [] op = "krb5-forget" -> {[acct |-> [a EXCEPT !.krb5 = "none"], ans |-> "ok"]}
    [] op = "unlink"      -> {[acct |-> [a EXCEPT !.iam = FALSE], ans |-> "ok"]}
    [] op = "krb5-refresh" ->
         (IF a.krb5 = "none" THEN {} ELSE {[acct |-> a, ans |-> "ok"]})
           \cup (IF a.krb5 = "ticket" THEN {}
                 ELSE {[acct |-> [a EXCEPT !.krb5 = "none"], ans |-> "conflict"]})

BrokerChanges(c) ==
  /\ call[c].pc = "sent" /\ call[c].op \in CardOps
  /\ LET s == call[c].who
         card == Card(call[c].op)
     IN \E e \in Effects(call[c].op, call[c].arg, acct[s]) :
          /\ acct' = [acct EXCEPT ![s] = e.acct]
          /\ rev' = [rev EXCEPT ![s] = IF e.acct = acct[s] THEN @ ELSE @ + 1]
          /\ Executed(c, e.ans, rev'[s])
          /\ unsure' = IF call'[c].ans = e.ans THEN unsure ELSE unsure \cup {card}
  /\ UNCHANGED <<session, acked, shown, phase, landed, sec>>

---------------------------------------------------------------------------
(* What the page makes of the answer: patch the card, drop the snapshot    *)

(* Mutant of Patched: a link that lived as long as its proxy stays linked. *)
PatchedLinked(op, arg) ==
  CASE op = "x509-link"    -> [shown EXCEPT !.x509 = arg, !.proxy = TRUE]
    [] op = "x509-revoke"  -> [shown EXCEPT !.proxy = FALSE]
    [] op = "krb5-refresh" -> [shown EXCEPT !.krb5 = IF @ = "none" THEN "ticket" ELSE @]
    [] op = "krb5-keytab"  -> [shown EXCEPT !.krb5 = "keytab"]
    [] op = "krb5-forget"  -> [shown EXCEPT !.krb5 = "none"]
    [] op = "unlink"       -> [shown EXCEPT !.iam = FALSE]

Patched(op, arg) ==
  CASE op = "x509-link"    -> [shown EXCEPT !.x509 = arg, !.proxy = TRUE]
    [] op = "x509-revoke"  -> [shown EXCEPT !.proxy = FALSE,
                                 !.x509 = IF @ = "until-expiry" THEN "none" ELSE @]
    [] op = "krb5-refresh" -> [shown EXCEPT !.krb5 = IF @ = "none" THEN "ticket" ELSE @]
    [] op = "krb5-keytab"  -> [shown EXCEPT !.krb5 = "keytab"]
    [] op = "krb5-forget"  -> [shown EXCEPT !.krb5 = "none"]
    [] op = "unlink"       -> [shown EXCEPT !.iam = FALSE]

(* Mutant of SectionPatched: a revoke leaves the section to the next fetch.*)
SectionUnpatched(op) == IF op = "x509-link" THEN [sec EXCEPT !.view = Null] ELSE sec

(* The section's view after a link or a revoke of the proxy; a fetch under *)
(* way may still overwrite it (history field overlap).                     *)
SectionPatched(op) ==
  CASE op = "x509-link"   -> [sec EXCEPT !.view = Null]
    [] op = "x509-revoke" -> [sec EXCEPT !.view = "no proxy", !.overlap = FALSE]
    [] OTHER -> sec

Missed(calls, ops) ==
  [c \in Call |-> IF calls[c].op \in ops THEN [calls[c] EXCEPT !.overlap = TRUE] ELSE calls[c]]

(* The card tells the page of a change: of a success, and of a 409 to a    *)
(* refresh that was clicked while a keytab was linked.                     *)
Emits(c) == call[c].ans = "ok" \/ (call[c].ans = "conflict" /\ call[c].arg)

(* Mutant of CacheAfterChange: the snapshot is left to its time to live.   *)
CacheKept(c) == CacheAfter(c)

CacheAfterChange(c) == IF Emits(c) THEN Null ELSE CacheAfter(c)

ChangeAnswered(c) ==
  /\ call[c].pc = "reply" /\ call[c].op \in CardOps
  /\ cache' = CacheAfterChange(c)
  /\ \/ /\ Emits(c)
        /\ shown' = IF call[c].ans = "ok" THEN Patched(call[c].op, call[c].arg)
                    ELSE [shown EXCEPT !.krb5 = IF @ = "keytab" THEN "ticket" ELSE @]
        /\ acked' = [acked EXCEPT ![call[c].who] = IF @ < call[c].got THEN call[c].got ELSE @]
        /\ sec' = SectionPatched(call[c].op)
        /\ call' = LET rest == Overlapped([call EXCEPT ![c] = IdleCall])
                   IN IF call[c].op \in X509Ops THEN Missed(rest, {"status"}) ELSE rest
     \/ /\ ~Emits(c)
        /\ call' = Released(c)
        /\ UNCHANGED <<shown, acked, sec>>
  /\ UNCHANGED <<user, page, nav, signout, idp, events, broker, phase, landed, unsure>>

---------------------------------------------------------------------------
IdentityReset ==
  /\ shown' = Null /\ phase' = "new" /\ unsure' = {} /\ sec' = NoSection

IdentityInit ==
  /\ shown = Null /\ phase = "new" /\ landed = FALSE /\ unsure = {} /\ sec = NoSection

IdentityRequest(c) == Loaded(c) \/ BrokerChanges(c) \/ ChangeAnswered(c)

IdentityStep ==
  \/ Mount \/ RevokeProxy \/ RefreshTicket \/ LinkKeytab \/ ForgetTicket \/ Unlink
  \/ ToggleProxyDetails \/ LinkMade
  \/ \E mode \in {"until-expiry", "auto-renew"} : LinkX509(mode)

=============================================================================

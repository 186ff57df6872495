--------------------------- MODULE PortalSession ---------------------------
(***************************************************************************)
(* One browser tab of the portal: the OIDC session (lib/auth.ts), the      *)
(* request helper every page uses (authFetch and apiFetch of lib/api.ts),  *)
(* the identities snapshot kept in sessionStorage, the script every page   *)
(* runs (layouts/Base.astro) and the sign-in callback.                     *)
(*                                                                         *)
(* sessionStorage lives as long as the tab: user and cache survive a       *)
(* navigation.  Everything else belongs to one document: when the tab      *)
(* moves to another page the continuations of its requests are lost, while *)
(* a request already on its way may still be executed by the broker.       *)
(*                                                                         *)
(* A page module invokes a request with Invoke and gives its effect at the *)
(* broker and the continuation that receives the answer.                   *)
(***************************************************************************)
EXTENDS Naturals, FiniteSets

CONSTANTS
  Subject,      \* the people who may sign in on this tab
  First,        \* the one who is signing in at the start
  Call,         \* request slots of the tab, a set of numbers
  Nobody,       \* no subject
  Null,         \* no value
  MaxEvents     \* bound: clicks, documents opened, expiries and failing requests

ASSUME CallAssumption == Call \subseteq Nat /\ Call # {} /\ IsFiniteSet(Call)
ASSUME FirstAssumption == First \in Subject
ASSUME NobodyAssumption == Nobody \notin Subject

VARIABLES
  user,      \* sessionStorage: the OIDC user, [sub, token]
  cache,     \* sessionStorage: the identities snapshot, or Null
  page,      \* the document the tab shows
  nav,       \* the document's script: "splash" until the session check has
             \* passed, then its own fetchIdentities, which shows Sign out
  signout,   \* how far the sign-out handler has got
  call,      \* the requests of the tab
  events,    \* how many of those there were
  idp,       \* the subject Keycloak sends back to /callback, or Nobody
  acct,      \* broker: what each subject has linked
  rev,       \* broker: how often that has changed
  acked      \* the last change of each subject this tab has been told about

session == <<user, cache, page, nav, signout, idp>>
tab == <<session, events>>
broker == <<acct, rev>>
sessionVars == <<tab, call, broker, acked>>

AppPages == {"identities", "tokens", "catalog"}
Pages == AppPages \cup {"callback", "keycloak"}

Event == events < MaxEvents /\ events' = events + 1

NoUser == [sub |-> Nobody, token |-> "none"]
SignedIn == user.token = "live"
Open == nav # "splash"

---------------------------------------------------------------------------
(* authFetch                                                               *)

IdleCall ==
  [op |-> "none", arg |-> Null, who |-> Nobody, pc |-> "idle", try |-> 0,
   ans |-> "none", got |-> Null, live |-> FALSE, overlap |-> FALSE, hits |-> 0]

Busy(ops) == \E c \in Call : call[c].live /\ call[c].op \in ops
FreeSlots == {c \in Call : call[c].pc = "idle"}
NextSlot == CHOOSE c \in FreeSlots : \A d \in FreeSlots : c <= d

(* Without a user there is nothing to send; an expired token is renewed    *)
(* first; otherwise the request leaves with the token at hand.             *)
Started(op, arg) ==
  [op |-> op, arg |-> arg, who |-> user.sub,
   pc  |-> IF user.sub = Nobody THEN "reply"
           ELSE IF user.token = "expired" THEN "renew" ELSE "sent",
   try |-> IF user.token = "live" THEN 1 ELSE 0,
   ans |-> IF user.sub = Nobody THEN "session" ELSE "none",
   got |-> Null, live |-> TRUE, overlap |-> FALSE, hits |-> 0]

Invoke(op, arg) ==
  /\ FreeSlots # {}
  /\ call' = [call EXCEPT ![NextSlot] = Started(op, arg)]

Refusals == {"session", "denied"}

(* Mutants of Delivered: an error is tried again like a 401, and a second  *)
(* 401 is not final.                                                       *)
DeliveredOrRetried(r, ans) ==
  [r EXCEPT !.ans = ans,
            !.pc = IF ans \in Refusals \cup {"error"} /\ r.try = 1 THEN "renew" ELSE "reply"]
DeliveredThrice(r, ans) ==
  [r EXCEPT !.ans = ans, !.pc = IF ans \in Refusals /\ r.try <= 2 THEN "renew" ELSE "reply"]

(* A 401 to the first attempt is met by one silent renewal; a second one,  *)
(* and every other answer, goes to the caller.                             *)
Delivered(r, ans) ==
  [r EXCEPT !.ans = ans, !.pc = IF ans \in Refusals /\ r.try = 1 THEN "renew" ELSE "reply"]

(* The answer travels back, unless the document that asked is gone.        *)
Answer(c, ans) == IF call[c].live THEN Delivered(call[c], ans) ELSE IdleCall

(* A write was executed: the answer, which may still get lost on its way,  *)
(* carries what it did.                                                    *)
Executed(c, ans, got) ==
  \E lost \in BOOLEAN :
    /\ IF lost THEN Event ELSE UNCHANGED events
    /\ call' = [call EXCEPT ![c] =
                  IF call[c].live
                  THEN [Answer(c, IF lost THEN "error" ELSE ans)
                          EXCEPT !.got = got, !.hits = @ + 1]
                  ELSE IdleCall]

(* The body of a 401 tells a missing audience from a dead session.         *)
BrokerRejects(c) ==
  /\ call[c].pc = "sent" /\ Event
  /\ \E ans \in Refusals : call' = [call EXCEPT ![c] = Answer(c, ans)]
  /\ UNCHANGED <<session, broker, acked>>

(* The network fails, or the broker answers with another error, before     *)
(* anything was done.                                                      *)
RequestFails(c) ==
  /\ call[c].pc = "sent" /\ Event
  /\ call' = [call EXCEPT ![c] = Answer(c, "error")]
  /\ UNCHANGED <<session, broker, acked>>

RenewSucceeds(c) ==
  /\ call[c].pc = "renew"
  /\ user' = [user EXCEPT !.token = "live"]
  /\ call' = [call EXCEPT ![c].pc = "sent", ![c].try = @ + 1]
  /\ UNCHANGED <<cache, page, nav, signout, idp, events, broker, acked>>

RenewFails(c) ==
  /\ call[c].pc = "renew" /\ Event
  /\ call' = [call EXCEPT ![c].pc = "reply",
                          ![c].ans = IF call[c].try = 0 THEN "session" ELSE @]
  /\ UNCHANGED <<session, broker, acked>>

---------------------------------------------------------------------------
(* The identities snapshot                                                 *)

IdentityReads == {"nav", "load"}

Snapshot(s) == [sub |-> s, rev |-> rev[s], data |-> acct[s], overlap |-> FALSE]

BrokerReads(c) ==
  /\ call[c].pc = "sent"
  /\ call[c].op \in IdentityReads
  /\ call' = [call EXCEPT ![c] = [Answer(c, "ok") EXCEPT !.got = Snapshot(call[c].who)]]
  /\ UNCHANGED <<tab, broker, acked>>

(* clearIdentitiesCache cannot call back a fetch that is under way: the    *)
(* history field overlap remembers that one was.                           *)
Overlapped(calls) ==
  [c \in Call |-> IF calls[c].op \in IdentityReads
                  THEN [calls[c] EXCEPT !.overlap = TRUE] ELSE calls[c]]

(* What an answer leaves in the cache: fetchIdentities stores its snapshot,*)
(* and every SessionExpiredError, whoever caught it, clears the cache.     *)
CacheAfter(c) ==
  CASE call[c].ans = "session" -> Null
    [] call[c].ans = "ok" /\ call[c].op \in IdentityReads ->
         [call[c].got EXCEPT !.overlap = call[c].overlap]
    [] OTHER -> cache

Released(c) ==
  LET rest == [call EXCEPT ![c] = IdleCall]
  IN IF call[c].ans = "session" THEN Overlapped(rest) ELSE rest

(* The snapshot's time to live runs out: the next read is a miss.          *)
CacheExpires ==
  /\ cache # Null /\ Event
  /\ cache' = Null
  /\ UNCHANGED <<user, page, nav, signout, idp, call, broker, acked>>

---------------------------------------------------------------------------
(* Documents                                                               *)

Writes == {"x509-link", "x509-revoke", "krb5-refresh", "krb5-keytab", "krb5-forget",
           "unlink", "purge", "mint", "revoke"}

(* What remains of the requests when the document is replaced.             *)
Abandoned(calls) ==
  [c \in Call |-> IF calls[c].pc = "sent" /\ calls[c].op \in Writes
                  THEN [calls[c] EXCEPT !.live = FALSE] ELSE IdleCall]

GoTo(p) ==
  /\ page' = p
  /\ nav' = "splash"
  /\ signout' = "no"
  /\ call' = Abandoned(call)

(* The user does something on a page that shows itself.                    *)
Click == Open /\ Event

(* The user follows a link or reloads.                                     *)
Visit(p) ==
  /\ Event
  /\ GoTo(p)
  /\ UNCHANGED <<user, cache, idp, broker, acked>>

(* The script of Base.astro: with an unexpired user it reveals the page    *)
(* and asks who that is; otherwise it starts a sign-in, except on          *)
(* /callback, which is completing one.                                     *)
OpenGate ==
  /\ ~Open /\ page # "keycloak" /\ SignedIn
  /\ IF cache # Null
     THEN nav' = "shown" /\ UNCHANGED call
     ELSE nav' = "asked" /\ Invoke("nav", Null)
  /\ UNCHANGED <<user, cache, page, signout, idp, events, broker, acked>>

StartLogin ==
  /\ ~Open /\ page \in AppPages /\ ~SignedIn
  /\ GoTo("keycloak")
  /\ UNCHANGED <<user, cache, idp, events, broker, acked>>

(* Keycloak sends the browser back.  A linking trip keeps its user.        *)
KeycloakReturns(s) ==
  /\ page = "keycloak" /\ Event
  /\ SignedIn => s = user.sub
  /\ idp' = s
  /\ GoTo("callback")
  /\ UNCHANGED <<user, cache, broker, acked>>

(* Mutant of CompleteSignIn: the snapshot is kept.                         *)
CompleteSignInKept(p) ==
  /\ page = "callback" /\ idp # Nobody /\ Event
  /\ user' = [sub |-> idp, token |-> "live"]
  /\ idp' = Nobody
  /\ acked' = [acked EXCEPT ![idp] = rev[idp]]
  /\ GoTo(p)
  /\ UNCHANGED <<cache, broker>>

(* callback.astro: exchange the code, drop the snapshot, go on.  A link    *)
(* made on the trip is known to the tab from here on.                      *)
CompleteSignIn(p) ==
  /\ page = "callback" /\ idp # Nobody /\ Event
  /\ user' = [sub |-> idp, token |-> "live"]
  /\ cache' = Null
  /\ idp' = Nobody
  /\ acked' = [acked EXCEPT ![idp] = rev[idp]]
  /\ GoTo(p)
  /\ UNCHANGED broker

TokenExpires ==
  /\ SignedIn /\ Event
  /\ user' = [user EXCEPT !.token = "expired"]
  /\ UNCHANGED <<cache, page, nav, signout, idp, call, broker, acked>>

---------------------------------------------------------------------------
(* The script of every page: name in the topbar, Sign out                  *)

NavAnswered(c) ==
  /\ call[c].pc = "reply" /\ call[c].op = "nav"
  /\ nav' = IF call[c].ans = "ok" THEN "shown" ELSE "hidden"
  /\ cache' = CacheAfter(c)
  /\ call' = Released(c)
  /\ UNCHANGED <<user, page, signout, idp, events, broker, acked>>

SignOutClick ==
  /\ nav = "shown" /\ Click
  /\ signout' = IF signout = "no" THEN "purging" ELSE signout
  /\ Invoke("purge", Null)
  /\ UNCHANGED <<user, cache, page, nav, idp, broker, acked>>

BrokerPurges(c) ==
  /\ call[c].pc = "sent" /\ call[c].op = "purge"
  /\ call' = [call EXCEPT ![c] = Answer(c, "ok")]
  /\ UNCHANGED <<tab, broker, acked>>

(* Mutant of SignOutPurged: a purge that failed keeps the user signed in.  *)
SignOutPurgedIfOk(c) ==
  /\ call[c].pc = "reply" /\ call[c].op = "purge"
  /\ signout' = IF call[c].ans = "ok" THEN "leaving" ELSE signout
  /\ cache' = Null
  /\ call' = Overlapped([call EXCEPT ![c] = IdleCall])
  /\ UNCHANGED <<user, page, nav, idp, events, broker, acked>>

(* Whatever the purge answered, the snapshot goes and the user is signed   *)
(* out; logout() first has to load the provider's metadata.                *)
SignOutPurged(c) ==
  /\ call[c].pc = "reply" /\ call[c].op = "purge"
  /\ signout' = "leaving"
  /\ cache' = Null
  /\ call' = Overlapped([call EXCEPT ![c] = IdleCall])
  /\ UNCHANGED <<user, page, nav, idp, events, broker, acked>>

Logout ==
  /\ signout = "leaving"
  /\ user' = NoUser
  /\ GoTo("keycloak")
  /\ UNCHANGED <<cache, idp, events, broker, acked>>

---------------------------------------------------------------------------
SessionInit(accounts) ==
  /\ user = NoUser
  /\ cache = Null
  /\ page = "callback" /\ nav = "splash" /\ signout = "no"
  /\ idp = First /\ events = 0
  /\ call = [c \in Call |-> IdleCall]
  /\ acct \in [Subject -> accounts]
  /\ rev = [s \in Subject |-> 0]
  /\ acked = [s \in Subject |-> 0]

SessionRequest(c) ==
  \/ BrokerRejects(c) \/ RequestFails(c) \/ RenewSucceeds(c) \/ RenewFails(c)
  \/ BrokerReads(c) \/ BrokerPurges(c)
  \/ NavAnswered(c) \/ SignOutPurged(c)

SessionStep == OpenGate \/ SignOutClick \/ CacheExpires \/ TokenExpires

(* The steps that replace the document, and with it every page's state.    *)
Navigation ==
  \/ StartLogin
  \/ \E s \in Subject : KeycloakReturns(s)
  \/ \E p \in AppPages : Visit(p) \/ CompleteSignIn(p)

=============================================================================

------------------------------- MODULE Portal -------------------------------
(***************************************************************************)
(* The portal in one tab: the session, the Identities page, the Tokens     *)
(* page and the catalog, of which the tab shows one at a time.  Replacing  *)
(* the document resets what its page kept and abandons its requests.       *)
(***************************************************************************)
EXTENDS IdentitiesPage, TokensPage

CONSTANT Accounts      \* what a subject may have linked at the start

Account == [x509 : {"none", "until-expiry", "auto-renew"}, proxy : BOOLEAN,
            krb5 : {"none", "ticket", "keytab"}, iam : BOOLEAN]

ASSUME AccountsAssumption == Accounts \subseteq Account

vars == <<sessionVars, identityVars, pat, tokenVars>>

Init == SessionInit(Accounts) /\ IdentityInit /\ TokensInit

(* The catalog's cards: a tool listing fetched when its section is opened. *)
ToggleTools ==
  /\ page = "catalog"
  /\ Toggle("tools")
  /\ UNCHANGED <<user, cache, page, nav, signout, idp, broker, acked,
                 shown, phase, landed, unsure>>

Fresh(landing) ==
  /\ IdentityReset /\ TokensReset
  /\ landed' = landing
  /\ UNCHANGED pat

SignedOut == Logout /\ Fresh(FALSE)

NewDocument ==
  \/ (Navigation \/ FollowLink) /\ Fresh(FALSE)
  \/ BackendReturns /\ Fresh(TRUE)
  \/ SignedOut

(* One step of a request: at the broker, in the network or in its          *)
(* continuation.                                                           *)
Request(c) ==
  /\ call[c].pc # "idle"
  /\ \/ SessionRequest(c) /\ UNCHANGED <<identityVars, pat, tokenVars>>
     \/ IdentityRequest(c) /\ UNCHANGED <<pat, tokenVars>>
     \/ TokensRequest(c) /\ UNCHANGED identityVars
     \/ (BrokerLists(c) \/ SectionAnswered(c))
          /\ UNCHANGED <<shown, phase, landed, unsure, pat, tokenVars>>

Next ==
  \/ SessionStep /\ UNCHANGED <<identityVars, pat, tokenVars>>
  \/ IdentityStep /\ UNCHANGED <<pat, tokenVars>>
  \/ TokensStep /\ UNCHANGED identityVars
  \/ ToggleTools /\ UNCHANGED <<pat, tokenVars>>
  \/ \E c \in Call : Request(c)
  \/ NewDocument

(* Every request is answered, by the broker or by a failing network, every *)
(* renewal ends, and the browser runs a continuation whose answer is there.*)
Fairness ==
  /\ \A c \in Call : WF_vars(Request(c))
  /\ WF_vars(SignedOut)

Spec == Init /\ [][Next]_vars
FairSpec == Spec /\ Fairness

---------------------------------------------------------------------------
Answers == {"none", "ok", "error", "conflict", "session", "denied"}
Snapshots == [sub : Subject, rev : Nat, data : Account, overlap : BOOLEAN]

(* Every variable keeps its type.                                          *)
TypeOK ==
  /\ user \in {NoUser} \cup [sub : Subject, token : {"live", "expired"}]
  /\ cache \in Snapshots \cup {Null}
  /\ page \in Pages /\ idp \in Subject \cup {Nobody}
  /\ nav \in {"splash", "asked", "shown", "hidden"} /\ signout \in {"no", "purging", "leaving"}
  /\ \A c \in Call : /\ call[c].pc \in {"idle", "renew", "sent", "reply"}
                     /\ call[c].try \in 0 .. 2 /\ call[c].ans \in Answers
                     /\ call[c].live => call[c].op # "none"
                     /\ call[c].pc = "reply" => call[c].ans # "none"
  /\ acct \in [Subject -> Account]
  /\ acked \in [Subject -> Nat] /\ rev \in [Subject -> Nat]
  /\ shown \in Account \cup {Null} /\ unsure \subseteq Cards
  /\ sec.seq \in Nat /\ sec.asked <= sec.seq
  /\ rows \in [Token -> PatStates] /\ told \in [Token -> PatStates]
  /\ minted \in Token \cup {Null} /\ pending \in Token \cup {Null}

(* On a page that shows itself the snapshot in sessionStorage is the       *)
(* signed-in user's, whoever used the tab before and however late their    *)
(* last answer came: callback.astro drops it before it leaves.             *)
OwnSnapshot == Open /\ page \in AppPages /\ cache # Null => cache.sub = user.sub

(* The snapshot reflects every change this tab was told of, unless its     *)
(* request was already under way when the change was told: nothing keeps   *)
(* that answer from being stored.                                          *)
SnapshotKeepsUp == cache # Null /\ ~cache.overlap => cache.rev >= acked[cache.sub]

(* A request is executed at most once: authFetch repeats it only after a   *)
(* 401, which the broker gives before it does anything.                    *)
ExecutedOnce == \A c \in Call : call[c].hits <= 1

(* A card at rest shows what the broker has stored, although the page      *)
(* patches it from the answer and never reads again; except after a change *)
(* whose answer was lost, and two Kerberos requests that overlapped.       *)
CardsTellTheTruth ==
  phase = "ready" /\ Open =>
    /\ "x509" \notin unsure /\ ~Busy(X509Ops) =>
         shown.x509 = acct[user.sub].x509 /\ shown.proxy = acct[user.sub].proxy
    /\ "krb5" \notin unsure /\ ~Busy(Krb5Ops) =>
         (shown.krb5 = "keytab" <=> acct[user.sub].krb5 = "keytab")
    /\ "iam" \notin unsure /\ ~Busy({"unlink"}) => shown.iam = acct[user.sub].iam

(* The chip never says active for a proxy the page has revoked, unless the *)
(* status was asked for before the revocation was answered.                *)
ChipAfterRevoke ==
  page = "identities" /\ phase = "ready" /\ sec.view = "active" /\ ~sec.overlap
    /\ "x509" \notin unsure /\ ~Busy(X509Ops) => acct[user.sub].proxy

(* The list agrees with what the page was told of its tokens, unless an    *)
(* older list arrived last.                                                *)
ListKeepsUp ==
  listing = "ready" /\ ~outdated =>
    \A t \in Token : rows[t] \in {told[t], "revoked"} \/ told[t] = "absent"

(* A fetch writes the section only for the opening that is current: an     *)
(* answer after a collapse or a newer opening is discarded.                *)
NoLateRewrite == [][sec'.asked # sec.asked => sec'.asked = sec'.seq]_vars

(* An open section does not load for ever, whatever was toggled meanwhile. *)
SectionSettles == sec.loading ~> (~sec.loading \/ ~sec.open)

(* A click on Sign out leaves the document, even if the purge of the       *)
(* credentials fails or the session is already dead.                       *)
SignOutEnds == signout # "no" ~> signout = "no"

(* The claim of TokensPage.vue's security note: a minted token is in       *)
(* memory only while the mint dialog is open.                              *)
TokenOnlyInDialog == minted # Null => dialog

=============================================================================

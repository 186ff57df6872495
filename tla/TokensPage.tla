----------------------------- MODULE TokensPage -----------------------------
(***************************************************************************)
(* The Tokens page (TokensPage.vue): the list of the user's PATs, the mint *)
(* dialog, which shows a new token once, and the revoke dialog.  The       *)
(* broker's side is the PAT registry, reduced here to each token's owner   *)
(* and state (TokenRegistry models it in full).                            *)
(***************************************************************************)
EXTENDS PortalSession

CONSTANT Token        \* the tokens that can be minted, numbered in that order

VARIABLES
  pat,        \* broker: [own, state] of each token
  rows,       \* the list the page shows: the state of each token, or "absent"
  listing,    \* "new", "loading", "ready" or "failed"
  dialog,     \* the mint dialog is open
  minted,     \* mintedToken: the value on display, or Null
  pending,    \* the token in the revoke dialog, or Null
  told,       \* history: what this document was told of each token
  outdated    \* history: the list shown was asked for before it was told

tokenVars == <<rows, listing, dialog, minted, pending, told, outdated>>

NoRows == [t \in Token |-> "absent"]
PatStates == {"absent", "active", "revoked"}

OnTokens == page = "tokens" /\ UNCHANGED <<user, page, nav, signout, idp, broker, acked>>
OwnRows(s) == [t \in Token |-> IF pat[t].own = s THEN pat[t].state ELSE "absent"]

(* Lists under way when the page learns of a mint or a revocation.         *)
ListsMissed(calls) ==
  [c \in Call |-> IF calls[c].op = "list" THEN [calls[c] EXCEPT !.overlap = TRUE] ELSE calls[c]]

---------------------------------------------------------------------------
(* The list                                                                *)

LoadTokens ==
  /\ OnTokens /\ listing = "new"
  /\ listing' = "loading"
  /\ Invoke("list", Null)
  /\ UNCHANGED <<cache, events, pat, rows, dialog, minted, pending, told, outdated>>

BrokerListsTokens(c) ==
  /\ call[c].pc = "sent" /\ call[c].op = "list"
  /\ call' = [call EXCEPT ![c] = [Answer(c, "ok") EXCEPT !.got = OwnRows(call[c].who)]]
  /\ UNCHANGED <<tab, broker, acked, pat, tokenVars>>

(* Every list that arrives replaces the rows; an error stays on the page.  *)
TokensListed(c) ==
  /\ OnTokens /\ call[c].pc = "reply" /\ call[c].op = "list"
  /\ IF call[c].ans = "ok"
     THEN /\ rows' = call[c].got
          /\ outdated' = call[c].overlap
          /\ listing' = IF listing = "failed" THEN "failed" ELSE "ready"
     ELSE listing' = "failed" /\ UNCHANGED <<rows, outdated>>
  /\ cache' = CacheAfter(c)
  /\ call' = Released(c)
  /\ UNCHANGED <<events, pat, dialog, minted, pending, told>>

---------------------------------------------------------------------------
(* The mint dialog                                                         *)

OpenMintDialog ==
  /\ OnTokens /\ ~dialog /\ pending = Null /\ Click
  /\ dialog' = TRUE
  /\ minted' = Null
  /\ UNCHANGED <<cache, call, pat, rows, listing, pending, told, outdated>>

(* ESC, Cancel or Done: the close event scrubs the token.                  *)
CloseMintDialog ==
  /\ OnTokens /\ dialog
  /\ dialog' = FALSE
  /\ minted' = Null
  /\ UNCHANGED <<cache, events, call, pat, rows, listing, pending, told, outdated>>

Mint ==
  /\ OnTokens /\ dialog /\ minted = Null /\ ~Busy({"mint"}) /\ Click
  /\ Invoke("mint", Null)
  /\ UNCHANGED <<cache, pat, tokenVars>>

BrokerMints(c) ==
  /\ call[c].pc = "sent" /\ call[c].op = "mint"
  /\ \E t \in Token :
       /\ pat[t].state = "absent" /\ \A u \in Token : pat[u].state = "absent" => t <= u
       /\ pat' = [pat EXCEPT ![t] = [own |-> call[c].who, state |-> "active"]]
       /\ Executed(c, "ok", t)
  /\ UNCHANGED <<session, broker, acked, tokenVars>>

(* The answer fills mintedToken whether or not the dialog is still open.   *)
MintAnswered(c) ==
  /\ OnTokens /\ call[c].pc = "reply" /\ call[c].op = "mint"
  /\ minted' = IF call[c].ans = "ok" THEN call[c].got ELSE minted
  /\ cache' = CacheAfter(c)
  /\ call' = Released(c)
  /\ UNCHANGED <<events, pat, rows, listing, dialog, pending, told, outdated>>

Done ==
  /\ OnTokens /\ dialog /\ minted # Null
  /\ dialog' = FALSE /\ minted' = Null
  /\ told' = [told EXCEPT ![minted] = IF @ = "absent" THEN "active" ELSE @]
  /\ outdated' = TRUE
  /\ FreeSlots # {}
  /\ call' = [ListsMissed(call) EXCEPT ![NextSlot] = Started("list", Null)]
  /\ UNCHANGED <<cache, events, pat, rows, listing, pending>>

---------------------------------------------------------------------------
(* The revoke dialog                                                       *)

OpenRevokeConfirm(t) ==
  /\ OnTokens /\ ~dialog /\ pending = Null /\ Click
  /\ listing = "ready" /\ rows[t] = "active"
  /\ ~\E c \in Call : call[c].live /\ call[c].op = "revoke" /\ call[c].arg = t
  /\ pending' = t
  /\ UNCHANGED <<cache, call, pat, rows, listing, dialog, minted, told, outdated>>

CloseRevokeConfirm ==
  /\ OnTokens /\ pending # Null
  /\ pending' = Null
  /\ UNCHANGED <<cache, events, call, pat, rows, listing, dialog, minted, told, outdated>>

(* Confirming closes the dialog and sends the revocation; one at a time.   *)
Revoke ==
  /\ OnTokens /\ pending # Null /\ ~Busy({"revoke"})
  /\ pending' = Null
  /\ Invoke("revoke", pending)
  /\ UNCHANGED <<cache, events, pat, rows, listing, dialog, minted, told, outdated>>

BrokerRevokes(c) ==
  /\ call[c].pc = "sent" /\ call[c].op = "revoke"
  /\ pat' = [pat EXCEPT ![call[c].arg].state = "revoked"]
  /\ Executed(c, "ok", Null)
  /\ UNCHANGED <<session, broker, acked, tokenVars>>

(* Mutant of RowRevoked: the row waits for the next list.                  *)
RowLeft(t) == [rows EXCEPT ![t] = @]

RowRevoked(t) == [rows EXCEPT ![t] = IF @ = "absent" THEN @ ELSE "revoked"]

(* The row is patched in place; the list is not asked for again.  A row    *)
(* that is gone by now went with a list from before the token's own.       *)
RevokeAnswered(c) ==
  /\ OnTokens /\ call[c].pc = "reply" /\ call[c].op = "revoke"
  /\ IF call[c].ans = "ok"
     THEN /\ rows' = RowRevoked(call[c].arg)
          /\ told' = [told EXCEPT ![call[c].arg] = "revoked"]
          /\ outdated' = (outdated \/ rows[call[c].arg] = "absent")
          /\ call' = ListsMissed([call EXCEPT ![c] = IdleCall])
     ELSE call' = Released(c) /\ UNCHANGED <<rows, told, outdated>>
  /\ cache' = CacheAfter(c)
  /\ UNCHANGED <<events, pat, listing, dialog, minted, pending>>

---------------------------------------------------------------------------
TokensReset ==
  /\ rows' = NoRows /\ listing' = "new" /\ dialog' = FALSE /\ minted' = Null
  /\ pending' = Null /\ told' = NoRows /\ outdated' = FALSE

TokensInit ==
  /\ pat = [t \in Token |-> [own |-> Nobody, state |-> "absent"]]
  /\ rows = NoRows /\ listing = "new" /\ dialog = FALSE /\ minted = Null
  /\ pending = Null /\ told = NoRows /\ outdated = FALSE

TokensRequest(c) ==
  \/ BrokerListsTokens(c) \/ TokensListed(c)
  \/ BrokerMints(c) \/ MintAnswered(c)
  \/ BrokerRevokes(c) \/ RevokeAnswered(c)

TokensStep ==
  \/ LoadTokens \/ OpenMintDialog \/ CloseMintDialog \/ Mint \/ Done
  \/ CloseRevokeConfirm \/ Revoke
  \/ \E t \in Token : OpenRevokeConfirm(t)

=============================================================================

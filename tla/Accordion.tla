----------------------------- MODULE Accordion -----------------------------
(***************************************************************************)
(* A section of a card that is fetched when it is opened: the proxy        *)
(* details of the grid certificate card (X509IdentityCard.vue) and the     *)
(* tool listing of a catalog card (ServiceCard.vue).  Every toggle counts  *)
(* up a sequence number and a fetch may only write while the number is     *)
(* still the one of its own opening.                                       *)
(***************************************************************************)
EXTENDS PortalSession

VARIABLE sec   \* the section; asked is the opening whose fetch wrote the view

NoSection ==
  [open |-> FALSE, seq |-> 0, loading |-> FALSE, view |-> Null, asked |-> 0, overlap |-> FALSE]

SectionOps == {"status", "tools"}
Views == {"tools", "active", "no proxy"}     \* what the broker says of one

ASSUME ViewAssumption == Null \notin Views

Toggle(op) ==
  /\ Click
  /\ LET n == sec.seq + 1
     IN IF sec.open
        THEN /\ sec' = [sec EXCEPT !.open = FALSE, !.seq = n]
             /\ UNCHANGED call
        ELSE /\ sec' = [sec EXCEPT !.open = TRUE, !.seq = n, !.loading = TRUE]
             /\ Invoke(op, n)

(* Mutants of SectionAfter: any answer writes, and an error keeps the      *)
(* section loading.                                                        *)
SectionAfterAny(c) ==
  [sec EXCEPT !.view = IF call[c].ans = "ok" THEN call[c].got ELSE Null,
              !.asked = call[c].arg, !.loading = FALSE]
SectionAfterOk(c) ==
  IF call[c].arg # sec.seq \/ call[c].ans # "ok" THEN sec
  ELSE [sec EXCEPT !.view = call[c].got, !.asked = call[c].arg, !.loading = FALSE]

(* The section after an answer; an answer to an earlier opening is dropped.*)
SectionAfter(c) ==
  IF call[c].arg # sec.seq THEN sec
  ELSE [sec EXCEPT !.view = IF call[c].ans = "ok" THEN call[c].got ELSE Null,
                   !.asked = call[c].arg,
                   !.overlap = call[c].overlap,
                   !.loading = FALSE]

SectionAnswered(c) ==
  /\ call[c].pc = "reply" /\ call[c].op \in SectionOps
  /\ sec' = SectionAfter(c)
  /\ cache' = CacheAfter(c)
  /\ call' = Released(c)
  /\ UNCHANGED <<user, page, nav, signout, idp, events, broker, acked>>

(* What the broker says: whether a proxy is stored, or a backend's tools.  *)
BrokerLists(c) ==
  /\ call[c].pc = "sent" /\ call[c].op \in SectionOps
  /\ call' = [call EXCEPT ![c] = [Answer(c, "ok") EXCEPT
                !.got = IF call[c].op = "tools" THEN "tools"
                        ELSE IF acct[call[c].who].proxy THEN "active" ELSE "no proxy"]]
  /\ UNCHANGED <<tab, broker, acked, sec>>

=============================================================================

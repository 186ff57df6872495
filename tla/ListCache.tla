------------------------------ MODULE ListCache ------------------------------
(***************************************************************************)
(* What one service lists for one user: the per-subject cache of the       *)
(* aggregator's provider, one in the memory of each broker process, and    *)
(* the identity in Vault that decides what the service answers.            *)
(*                                                                         *)
(* The identity's states are numbered; a listing carries the number of the *)
(* state it was fetched under.  A service may reject a call without a      *)
(* credential, and that failure is cached too.  An unlink deletes the      *)
(* identity in Vault and, once that has answered, drops the listing of its *)
(* own process; a link drops nothing.                                      *)
(***************************************************************************)
EXTENDS Naturals

CONSTANTS
  Process,     \* broker processes
  Caller,      \* requests that need the listing
  Absent,      \* no value
  Ttl,         \* tools_cache_ttl, for a listing
  NegTtl,      \* _NEGATIVE_LIST_CACHE_TTL_SECONDS, for a failure
  MaxFetch,    \* the longest a fetch takes, by its timeouts
  MaxChanges   \* bound: links and unlinks

ASSUME LivesAssumption == Ttl \in Nat \ {0} /\ NegTtl \in Nat \ {0} /\ MaxFetch \in Nat
ASSUME ChangesAssumption == MaxChanges \in Nat

VARIABLES
  gen,       \* the number of the identity's state
  linked,    \* whether an account is linked
  ago,       \* history: how long ago each earlier state ended
  listing,   \* _subject_list_cache of each process: [ok, of, age, late], or Absent
  ask,       \* the requests
  shown,     \* history: what the last step served, and to whom, or Absent
  leaving,   \* the state an unlink on this process has made and not yet reported
  told       \* history: the state the last reported unlink on this process made

listVars == <<gen, linked, ago, listing, ask, shown, leaving, told>>

Longest == IF Ttl < NegTtl THEN NegTtl ELSE Ttl
Oldest == Longest + MaxFetch

(* late is history: the fetch was under way when its process dropped its   *)
(* listing.  floor is history of a request: told when it came.             *)
Away == [at |-> "idle"]
Asks ==
  [at : {"wait", "open", "read"}, on : Process, floor : Nat, of : Nat,
   late : BOOLEAN, spent : Nat]

Listings == [ok : BOOLEAN, of : Nat, age : Nat, late : BOOLEAN]
Answers == [ok : BOOLEAN, of : Nat, late : BOOLEAN, floor : Nat]

ASSUME AbsentAssumption == Absent \notin Nat \cup Listings \cup Answers

Fetching(c) == ask[c].at \in {"open", "read"}
Locked(p) == \E c \in Caller : Fetching(c) /\ ask[c].on = p

---------------------------------------------------------------------------
Life(ok) == IF ok THEN Ttl ELSE NegTtl

Fresh(p) == listing[p] # Absent /\ listing[p].age < Life(listing[p].ok)

Show(c, l, floor) ==
  /\ shown' = [ok |-> l.ok, of |-> l.of, late |-> l.late, floor |-> floor]
  /\ ask' = [ask EXCEPT ![c] = Away]

Queue(c, p, floor, at) ==
  /\ ask' = [ask EXCEPT ![c] = [at |-> at, on |-> p, floor |-> floor, of |-> 0, late |-> FALSE,
                                spent |-> 0]]
  /\ shown' = Absent

(* _cached_list(): a fresh entry is served, else the lock decides who      *)
(* fetches.                                                                *)
List(c, p) ==
  /\ ask[c] = Away
  /\ IF Fresh(p) THEN Show(c, listing[p], told[p])
     ELSE Queue(c, p, told[p], IF Locked(p) THEN "wait" ELSE "open")
  /\ UNCHANGED <<gen, linked, ago, listing, leaving, told>>

(* The lock is free: look again, then fetch.                               *)
Woken(c) ==
  /\ ask[c].at = "wait" /\ ~Locked(ask[c].on)
  /\ IF Fresh(ask[c].on) THEN Show(c, listing[ask[c].on], ask[c].floor)
     ELSE Queue(c, ask[c].on, ask[c].floor, "open")
  /\ UNCHANGED <<gen, linked, ago, listing, leaving, told>>

(* The fetch asks for the user's credential, and goes on without one.      *)
ReadIdentity(c) ==
  /\ ask[c].at = "open"
  /\ ask' = [ask EXCEPT ![c] = [@ EXCEPT !.at = "read", !.of = gen]]
  /\ shown' = Absent
  /\ UNCHANGED <<gen, linked, ago, listing, leaving, told>>

(* The service answers, or rejects the call for want of a credential, or   *)
(* something on the way fails.                                             *)
Fetched(c, ok) ==
  /\ ask[c].at = "read"
  /\ LET l == [ok |-> ok, of |-> ask[c].of, age |-> 0, late |-> ask[c].late]
     IN  /\ listing' = [listing EXCEPT ![ask[c].on] = l]
         /\ Show(c, l, ask[c].floor)
  /\ UNCHANGED <<gen, linked, ago, leaving, told>>

(* The caller hangs up: no except clause of _cached_list catches the       *)
(* cancellation, so nothing is stored and the lock is released.            *)
Cancelled(c) ==
  /\ ask[c] # Away
  /\ ask' = [ask EXCEPT ![c] = Away]
  /\ shown' = Absent
  /\ UNCHANGED <<gen, linked, ago, listing, leaving, told>>

---------------------------------------------------------------------------
Changed == gen < MaxChanges /\ gen' = gen + 1

(* The unlink of an account reaches Vault; one of none changes nothing.    *)
UnlinkHere(p) ==
  /\ leaving[p] = Absent
  /\ IF linked THEN Changed ELSE UNCHANGED gen
  /\ linked' = FALSE
  /\ leaving' = [leaving EXCEPT ![p] = gen']
  /\ shown' = Absent
  /\ UNCHANGED <<ago, listing, ask, told>>

(* Its answer is lost: the route fails before it drops anything.           *)
UnlinkFails(p) ==
  /\ leaving[p] # Absent
  /\ leaving' = [leaving EXCEPT ![p] = Absent]
  /\ shown' = Absent
  /\ UNCHANGED <<gen, linked, ago, listing, ask, told>>

(* Mutant of Dropped: a listing that worked is kept.                       *)
DroppedFailure(p) == [listing EXCEPT ![p] = IF @ # Absent /\ @.ok THEN @ ELSE Absent]

Dropped(p) == [listing EXCEPT ![p] = Absent]

(* CredentialCache.revoke() and its hook, invalidate_subject_cache(); the  *)
(* user is answered.                                                       *)
Invalidate(p) ==
  /\ leaving[p] # Absent
  /\ listing' = Dropped(p)
  /\ ask' = [c \in Caller |-> IF Fetching(c) /\ ask[c].on = p THEN [ask[c] EXCEPT !.late = TRUE] ELSE ask[c]]
  /\ told' = [told EXCEPT ![p] = leaving[p]]
  /\ leaving' = [leaving EXCEPT ![p] = Absent]
  /\ shown' = Absent
  /\ UNCHANGED <<gen, linked, ago>>

LinkAccount ==
  /\ ~linked /\ Changed
  /\ linked' = TRUE
  /\ shown' = Absent
  /\ UNCHANGED <<ago, listing, ask, leaving, told>>

Up(n, cap) == IF n < cap THEN n + 1 ELSE n

Tick ==
  /\ \A c \in Caller : Fetching(c) => ask[c].spent < MaxFetch
  /\ ago' = [g \in 0 .. MaxChanges |-> IF g < gen THEN Up(ago[g], Oldest) ELSE ago[g]]
  /\ listing' = [p \in Process |-> IF listing[p] = Absent THEN Absent
                                  ELSE [listing[p] EXCEPT !.age = Up(@, Life(listing[p].ok))]]
  /\ ask' = [c \in Caller |-> IF Fetching(c) THEN [ask[c] EXCEPT !.spent = @ + 1] ELSE ask[c]]
  /\ shown' = Absent
  /\ UNCHANGED <<gen, linked, leaving, told>>

ListInit ==
  /\ gen = 0 /\ linked \in BOOLEAN
  /\ ago = [g \in 0 .. MaxChanges |-> 0]
  /\ listing = [p \in Process |-> Absent]
  /\ ask = [c \in Caller |-> Away]
  /\ shown = Absent
  /\ leaving = [p \in Process |-> Absent]
  /\ told = [p \in Process |-> 0]

ListNext ==
  \/ \E c \in Caller :
       \/ \E p \in Process : List(c, p)
       \/ Woken(c)
       \/ ReadIdentity(c)
       \/ \E ok \in BOOLEAN : Fetched(c, ok)
       \/ Cancelled(c)
  \/ \E p \in Process : UnlinkHere(p) \/ UnlinkFails(p) \/ Invalidate(p)
  \/ LinkAccount
  \/ Tick

ListSpec == ListInit /\ [][ListNext]_listVars

---------------------------------------------------------------------------
(* Who asks a process after it has reported an unlink is shown nothing     *)
(* from before it, unless the fetch was under way when that process        *)
(* dropped its listing: what it brings is stored all the same and served   *)
(* to everybody for a whole Ttl (_cached_list, invalidate_subject).        *)
ListingKeepsUp == shown # Absent => shown.of >= shown.floor \/ shown.late

(* Whatever process is asked and whatever it missed, what it shows was so  *)
(* no longer ago than an entry lives and a fetch takes; so a user who has  *)
(* just linked sees the old failure no longer than NegTtl and a fetch.     *)
ListingAge == shown # Absent => ago[shown.of] < Life(shown.ok) + MaxFetch

(* What a user is shown is as current as the cache can promise.            *)
ListingCurrent == ListingKeepsUp /\ ListingAge

=============================================================================

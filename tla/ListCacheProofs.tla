--------------------------- MODULE ListCacheProofs ---------------------------
(***************************************************************************)
(* For every number of processes and requests: what the listing cache      *)
(* serves is bounded in age, and keeps up with the unlinks its process has *)
(* reported.                                                               *)
(***************************************************************************)
EXTENDS ListCache, TLAPS

Gens == 0 .. MaxChanges

TypeInv ==
  /\ gen \in Gens /\ linked \in BOOLEAN
  /\ ago \in [Gens -> Nat]
  /\ listing \in [Process -> Listings \cup {Absent}]
  /\ ask \in [Caller -> Asks \cup {Away}]
  /\ shown \in Answers \cup {Absent}
  /\ leaving \in [Process -> Gens \cup {Absent}]
  /\ told \in [Process -> Gens]

(* A number once given stays within the states there have been.            *)
Known ==
  /\ \A g \in Gens : ago[g] <= Oldest /\ (g >= gen => ago[g] = 0)
  /\ \A p \in Process :
       told[p] <= gen /\ (leaving[p] # Absent => told[p] <= leaving[p] /\ leaving[p] <= gen)
  /\ \A p \in Process : listing[p] # Absent => listing[p].of <= gen
  /\ \A c \in Caller : ask[c].at = "read" => ask[c].of <= gen
  /\ shown # Absent => shown.of <= gen

(* The state an entry or a fetch has seen ended no longer ago than it was  *)
(* fetched, and a fetch is over in MaxFetch.                               *)
Recent ==
  /\ \A p \in Process :
       listing[p] # Absent /\ listing[p].age < Life(listing[p].ok) => ago[listing[p].of] <= listing[p].age + MaxFetch
  /\ \A c \in Caller : Fetching(c) => ask[c].spent <= MaxFetch
  /\ \A c \in Caller : ask[c].at = "read" => ago[ask[c].of] <= ask[c].spent

(* What is not late has seen what its process last reported; a request     *)
(* asks for no more.                                                       *)
Current ==
  /\ \A p \in Process : listing[p] # Absent => listing[p].late \/ listing[p].of >= told[p]
  /\ \A c \in Caller : ask[c].at = "read" => ask[c].late \/ ask[c].of >= told[ask[c].on]
  /\ \A c \in Caller : ask[c] # Away => ask[c].floor <= told[ask[c].on]

ListInv == TypeInv /\ Known /\ Recent /\ Current /\ ListingKeepsUp /\ ListingAge

LEMMA LifeNat == \A ok \in BOOLEAN : Life(ok) \in Nat \ {0} /\ Life(ok) <= Longest
BY LivesAssumption DEF Life, Longest

LEMMA OldestNat == Longest \in Nat /\ Oldest \in Nat /\ Oldest = Longest + MaxFetch
BY LivesAssumption DEF Longest, Oldest

LEMMA InitListInv == ListInit => ListInv
<1> SUFFICES ASSUME ListInit PROVE ListInv
  OBVIOUS
<1> USE DEF ListInit
<1>1. TypeInv
  BY ChangesAssumption DEF TypeInv, Gens
<1>2. Known
  <2>1. 0 <= Oldest
    BY OldestNat
  <2>2. \A g \in Gens : ago[g] = 0
    BY DEF Gens
  <2> QED BY <2>1, <2>2 DEF Known, Away, Gens
<1>3. Recent
  BY DEF Recent, Away, Fetching
<1>4. Current
  BY DEF Current, Away
<1>5. ListingKeepsUp /\ ListingAge
  BY DEF ListingKeepsUp, ListingAge
<1> QED BY <1>1, <1>2, <1>3, <1>4, <1>5 DEF ListInv

(* A request that asks the cache is served a fresh listing or takes its    *)
(* place before the fetch.                                                 *)
LEMMA AskStep ==
  ASSUME ListInv, NEW c \in Caller, NEW p \in Process, NEW floor \in Gens, NEW at \in {"wait", "open"},
         floor <= told[p],
         IF Fresh(p) THEN Show(c, listing[p], floor) ELSE Queue(c, p, floor, at),
         UNCHANGED <<gen, linked, ago, listing, leaving, told>>
  PROVE  ListInv'
<1> USE DEF ListInv, Show, Queue
<1>0. floor \in Nat /\ Away \notin Asks
  BY DEF Gens, Away, Asks
<1>1. TypeInv'
  <2>1. CASE Fresh(p)
    <3>1. listing[p] \in Listings
      BY <2>1 DEF TypeInv, Fresh
    <3> QED BY <1>0, <2>1, <3>1 DEF TypeInv, Listings, Answers
  <2>2. CASE ~Fresh(p)
    <3> DEFINE a == [at |-> at, on |-> p, floor |-> floor, of |-> 0, late |-> FALSE, spent |-> 0]
    <3>1. a \in Asks
      BY <1>0 DEF Asks
    <3> HIDE DEF a
    <3>3. ask' = [ask EXCEPT ![c] = a] /\ shown' = Absent
      BY <2>2 DEF a
    <3>2. ask' \in [Caller -> Asks \cup {Away}]
      BY <3>3, <3>1 DEF TypeInv
    <3> QED BY <3>3, <3>2 DEF TypeInv
  <2> QED BY <2>1, <2>2
<1>2. Known'
  <2>1. CASE Fresh(p)
    <3>1. listing[p] # Absent /\ listing[p].of <= gen
      BY <2>1 DEF Fresh, Known
    <3> QED BY <2>1, <3>1 DEF Known, TypeInv, Away
  <2>2. CASE ~Fresh(p)
    BY <2>2 DEF Known, TypeInv
  <2> QED BY <2>1, <2>2
<1>3. Recent'
  <2>1. CASE Fresh(p)
    BY <2>1 DEF Recent, TypeInv, Away, Fetching
  <2>2. CASE ~Fresh(p)
    BY <2>2, LivesAssumption DEF Recent, TypeInv, Fetching
  <2> QED BY <2>1, <2>2
<1>4. Current'
  <2>1. CASE Fresh(p)
    BY <2>1 DEF Current, TypeInv, Away
  <2>2. CASE ~Fresh(p)
    BY <2>2 DEF Current, TypeInv
  <2> QED BY <2>1, <2>2
<1>5. (ListingKeepsUp /\ ListingAge)'
  <2>1. CASE Fresh(p)
    <3>1. listing[p] \in Listings /\ listing[p].age < Life(listing[p].ok)
      BY <2>1 DEF TypeInv, Fresh
    <3>2. listing[p].of \in Gens /\ ago[listing[p].of] \in Nat
      BY <3>1, <2>1, ChangesAssumption DEF TypeInv, Known, Fresh, Listings, Gens
    <3>3. ago[listing[p].of] < Life(listing[p].ok) + MaxFetch
      BY <3>1, <3>2, <2>1, LifeNat, LivesAssumption DEF Recent, Fresh, Listings
    <3>4. listing[p].late \/ listing[p].of >= floor
      BY <2>1, <3>1, <3>2 DEF Current, Fresh, TypeInv, Gens
    <3> QED BY <2>1, <3>3, <3>4 DEF ListingKeepsUp, ListingAge
  <2>2. CASE ~Fresh(p)
    BY <2>2 DEF ListingKeepsUp, ListingAge
  <2> QED BY <2>1, <2>2
<1> QED BY <1>1, <1>2, <1>3, <1>4, <1>5

LEMMA ListStep ==
  ASSUME ListInv, NEW c \in Caller, NEW p \in Process, List(c, p) PROVE ListInv'
<1>1. told[p] \in Gens /\ told[p] <= told[p]
  BY DEF ListInv, TypeInv, Gens
<1>2. (IF Locked(p) THEN "wait" ELSE "open") \in {"wait", "open"}
  OBVIOUS
<1> QED BY <1>1, <1>2, AskStep DEF List

LEMMA WokenStep ==
  ASSUME ListInv, NEW c \in Caller, Woken(c) PROVE ListInv'
<1>1. ask[c] \in Asks
  BY DEF ListInv, TypeInv, Woken, Away
<1>2. ask[c].on \in Process /\ ask[c].floor \in Nat /\ ask[c].floor <= told[ask[c].on] /\ told[ask[c].on] \in Gens
  BY <1>1 DEF ListInv, TypeInv, Asks, Current, Woken, Away
<1>3. ask[c].floor \in Gens
  BY <1>2, ChangesAssumption DEF Gens
<1> QED BY <1>2, <1>3, AskStep DEF Woken

LEMMA ReadStep ==
  ASSUME ListInv, NEW c \in Caller, ReadIdentity(c) PROVE ListInv'
<1> USE DEF ListInv, ReadIdentity
<1>0. /\ ask[c] \in Asks /\ Away \notin Asks
      /\ ask' = [ask EXCEPT ![c] = [ask[c] EXCEPT !.at = "read", !.of = gen]]
      /\ gen \in Nat
  <2>1. ask[c] # Away /\ Away \notin Asks
    BY DEF Away, Asks
  <2> QED BY <2>1 DEF TypeInv, Gens
<1>a. /\ ask'[c] \in Asks /\ ask'[c] # Away
      /\ ask'[c].on = ask[c].on /\ ask'[c].floor = ask[c].floor /\ ask'[c].of = gen
  <2>1. ask'[c] = [ask[c] EXCEPT !.at = "read", !.of = gen]
    BY <1>0 DEF TypeInv
  <2>2. ask'[c] \in Asks
    BY <1>0, <2>1 DEF Asks
  <2>3. ask'[c].on = ask[c].on /\ ask'[c].floor = ask[c].floor /\ ask'[c].of = gen
    BY <1>0, <2>1 DEF Asks
  <2> QED BY <1>0, <2>2, <2>3
<1>1. TypeInv'
  BY <1>0, <1>a DEF TypeInv
<1>2. Known'
  BY <1>0 DEF Known, TypeInv, Gens
<1>3. Recent'
  <2>1. ago[gen] = 0 /\ ask[c].spent \in Nat
    BY <1>0 DEF Known, TypeInv, Asks, Gens
  <2>2. Fetching(c) /\ \A b \in Caller : Fetching(b)' <=> Fetching(b)
    BY <1>0 DEF TypeInv, Fetching, Asks
  <2>3. \A b \in Caller : ask'[b].spent = ask[b].spent
    BY <1>0 DEF TypeInv, Asks
  <2>4. \A b \in Caller : ask'[b].at = "read" => ago'[ask'[b].of] <= ask'[b].spent
    BY <1>0, <2>1 DEF TypeInv, Asks, Recent
  <2> QED BY <2>2, <2>3, <2>4 DEF Recent
<1>4. Current'
  <2>1. told[ask[c].on] <= gen /\ ask[c].on \in Process /\ told[ask[c].on] \in Nat
    BY <1>0 DEF Known, TypeInv, Asks, Gens
  <2>2. ask'[c] # Away /\ ask'[c].on = ask[c].on /\ ask'[c].floor = ask[c].floor /\ ask'[c].of = gen
    BY <1>a
  <2>3. \A b \in Caller \ {c} : ask'[b] = ask[b]
    BY <1>0 DEF TypeInv
  <2>4. ask[c] # Away
    BY <1>0
  <2> QED BY <1>0, <2>1, <2>2, <2>3, <2>4 DEF Current
<1>5. (ListingKeepsUp /\ ListingAge)'
  BY DEF ListingKeepsUp, ListingAge
<1> QED BY <1>1, <1>2, <1>3, <1>4, <1>5

LEMMA FetchedStep ==
  ASSUME ListInv, NEW c \in Caller, NEW ok \in BOOLEAN, Fetched(c, ok) PROVE ListInv'
<1> DEFINE p == ask[c].on
           l == [ok |-> ok, of |-> ask[c].of, age |-> 0, late |-> ask[c].late]
<1> USE DEF ListInv
<1>0. /\ ask[c] \in Asks /\ Away \notin Asks /\ p \in Process /\ ask[c].at = "read"
      /\ listing' = [listing EXCEPT ![p] = l] /\ ask' = [ask EXCEPT ![c] = Away]
      /\ shown' = [ok |-> ok, of |-> ask[c].of, late |-> ask[c].late, floor |-> ask[c].floor]
      /\ UNCHANGED <<gen, linked, ago, leaving, told>>
  BY DEF TypeInv, Away, Asks, Fetched, Show
<1>1. /\ ask[c].of \in Gens /\ ask[c].of <= gen /\ ask[c].floor \in Nat /\ ask[c].spent \in Nat
      /\ ask[c].late \in BOOLEAN /\ told[p] \in Nat /\ ask[c].of \in Nat
  <2>1. /\ ask[c].floor \in Nat /\ ask[c].spent \in Nat /\ ask[c].late \in BOOLEAN /\ ask[c].of \in Nat
    BY <1>0 DEF Asks
  <2>2. told[p] \in Gens /\ gen \in Gens
    BY <1>0 DEF TypeInv
  <2>3. ask[c].of <= gen
    BY <1>0 DEF Known
  <2> QED BY <2>1, <2>2, <2>3, ChangesAssumption DEF Gens
<1>2. ago[ask[c].of] <= MaxFetch
  <2>1. ago[ask[c].of] <= ask[c].spent /\ ask[c].spent <= MaxFetch /\ ago[ask[c].of] \in Nat
    BY <1>0, <1>1 DEF Recent, Fetching, TypeInv
  <2> QED BY <1>1, <2>1, LivesAssumption
<1>3. ask[c].late \/ ask[c].of >= told[p]
  BY <1>0 DEF Current
<1>4. ask[c].floor <= told[p]
  BY <1>0 DEF Current
<1>5. TypeInv'
  <2>1. l \in Listings /\ shown' \in Answers
    BY <1>0, <1>1 DEF Listings, Answers
  <2> HIDE DEF l
  <2> QED BY <1>0, <2>1 DEF TypeInv
<1>6. l # Absent /\ shown' # Absent
  BY <1>0, <1>1, AbsentAssumption DEF Listings, Answers
<1>7. Known'
  BY <1>0, <1>1 DEF Known, TypeInv, Away
<1>8. Recent'
  <2>1. ago[l.of] <= l.age + MaxFetch
    BY <1>1, <1>2, LivesAssumption DEF TypeInv
  <2>2. \A b \in Caller : ask'[b] = Away \/ ask'[b] = ask[b]
    BY <1>0 DEF TypeInv
  <2>3. \A q \in Process : listing'[q] = l \/ listing'[q] = listing[q]
    BY <1>0 DEF TypeInv
  <2> HIDE DEF l
  <2> QED BY <1>0, <2>1, <2>2, <2>3 DEF Recent, Fetching, Away
<1>9. Current'
  <2>1. \A b \in Caller : ask'[b] = Away \/ ask'[b] = ask[b]
    BY <1>0 DEF TypeInv
  <2>2. \A q \in Process : listing'[q] = l \/ listing'[q] = listing[q]
    BY <1>0 DEF TypeInv
  <2>3. \A q \in Process : listing'[q] # listing[q] => q = p
    BY <1>0 DEF TypeInv
  <2>4. l.late \/ l.of >= told[p]
    BY <1>3
  <2> HIDE DEF l, p
  <2> QED BY <1>0, <2>1, <2>2, <2>3, <2>4 DEF Current, Away
<1>10. ListingKeepsUp'
  BY <1>0, <1>1, <1>3, <1>4 DEF ListingKeepsUp
<1>11. ListingAge'
  <2>1. Life(ok) \in Nat \ {0} /\ ago[ask[c].of] \in Nat
    BY <1>1, LifeNat DEF TypeInv
  <2> QED BY <1>0, <1>2, <2>1, LivesAssumption DEF ListingAge, Life
<1> QED BY <1>5, <1>7, <1>8, <1>9, <1>10, <1>11

LEMMA SeenLater ==
  ASSUME ListInv, NEW n \in Nat, gen <= n
  PROVE  /\ \A q \in Process : listing[q] # Absent => listing[q].of <= n
         /\ \A c \in Caller : ask[c].at = "read" => ask[c].of <= n
<1>0. gen \in Nat
  BY ChangesAssumption DEF ListInv, TypeInv, Gens
<1>1. ASSUME NEW q \in Process, listing[q] # Absent PROVE listing[q].of <= n
  <2>1. listing[q].of \in Nat
    BY <1>1 DEF ListInv, TypeInv, Listings
  <2>2. listing[q].of <= gen
    BY <1>1 DEF ListInv, Known
  <2> QED BY <1>0, <2>1, <2>2
<1>2. ASSUME NEW c \in Caller, ask[c].at = "read" PROVE ask[c].of <= n
  <2>1. ask[c] \in Asks
    BY <1>2 DEF ListInv, TypeInv, Away
  <2>2. ask[c].of \in Nat
    BY <2>1 DEF Asks
  <2>3. ask[c].of <= gen
    BY <1>2 DEF ListInv, Known
  <2> QED BY <1>0, <2>2, <2>3
<1> QED BY <1>1, <1>2

LEMMA CancelledStep ==
  ASSUME ListInv, NEW c \in Caller, Cancelled(c) PROVE ListInv'
<1> USE DEF ListInv, Cancelled
<1>1. TypeInv'
  BY DEF TypeInv
<1>2. Known' /\ Recent' /\ Current'
  <2>1. \A b \in Caller : ask'[b] = Away \/ ask'[b] = ask[b]
    BY DEF TypeInv
  <2> QED BY <2>1 DEF Known, Recent, Current, Fetching, Away
<1>3. (ListingKeepsUp /\ ListingAge)'
  BY DEF ListingKeepsUp, ListingAge
<1> QED BY <1>1, <1>2, <1>3

LEMMA UnlinkStep ==
  ASSUME ListInv, NEW p \in Process, UnlinkHere(p) PROVE ListInv'
<1> USE DEF ListInv, UnlinkHere
<1>0. gen \in Nat /\ gen' \in Gens /\ gen' \in Nat /\ gen <= gen'
  BY ChangesAssumption DEF TypeInv, Gens, Changed
<1>1. TypeInv'
  BY <1>0 DEF TypeInv
<1>2. Known'
  <2>1. \A n \in Gens : n <= gen => n <= gen'
    BY <1>0 DEF Gens
  <2>2. \A g \in Gens : g >= gen' => g >= gen
    BY <1>0 DEF Gens
  <2>3. \A q \in Process : told[q] <= gen'
    BY <2>1 DEF Known, TypeInv
  <2>4. \A q \in Process : leaving'[q] # Absent => told[q] <= leaving'[q] /\ leaving'[q] <= gen'
    BY <1>0, <2>1, <2>3 DEF Known, TypeInv, Gens
  <2>5. \A q \in Process : listing[q] # Absent => listing[q].of <= gen'
    BY <1>0, SeenLater
  <2>6. \A c \in Caller : ask[c].at = "read" => ask[c].of <= gen'
    BY <1>0, SeenLater
  <2>7. \A g \in Gens : ago[g] <= Oldest /\ (g >= gen' => ago[g] = 0)
    BY <2>2 DEF Known
  <2> QED BY <2>3, <2>4, <2>5, <2>6, <2>7 DEF Known
<1>3. Recent'
  BY DEF Recent, Fetching
<1>4. Current'
  BY DEF Current
<1>5. (ListingKeepsUp /\ ListingAge)'
  BY DEF ListingKeepsUp, ListingAge
<1> QED BY <1>1, <1>2, <1>3, <1>4, <1>5

LEMMA UnlinkFailsStep ==
  ASSUME ListInv, NEW p \in Process, UnlinkFails(p) PROVE ListInv'
<1> USE DEF ListInv, UnlinkFails
<1>1. TypeInv'
  BY DEF TypeInv
<1>2. Known'
  BY DEF Known, TypeInv
<1>3. Recent' /\ Current'
  BY DEF Recent, Fetching, Current
<1>4. (ListingKeepsUp /\ ListingAge)'
  BY DEF ListingKeepsUp, ListingAge
<1> QED BY <1>1, <1>2, <1>3, <1>4

LEMMA LinkStep ==
  ASSUME ListInv, LinkAccount PROVE ListInv'
<1> USE DEF ListInv, LinkAccount
<1>0. gen \in Nat /\ gen' \in Gens /\ gen' \in Nat /\ gen <= gen'
  BY ChangesAssumption DEF TypeInv, Gens, Changed
<1>1. TypeInv'
  BY <1>0 DEF TypeInv
<1>2. Known'
  <2>1. \A n \in Gens : (n <= gen => n <= gen') /\ (n >= gen' => n >= gen)
    BY <1>0 DEF Gens
  <2>2. \A q \in Process : told[q] <= gen' /\ (leaving[q] # Absent => told[q] <= leaving[q] /\ leaving[q] <= gen')
    BY <2>1 DEF Known, TypeInv
  <2>3. \A q \in Process : listing[q] # Absent => listing[q].of <= gen'
    BY <1>0, SeenLater
  <2>4. \A c \in Caller : ask[c].at = "read" => ask[c].of <= gen'
    BY <1>0, SeenLater
  <2>5. \A g \in Gens : ago[g] <= Oldest /\ (g >= gen' => ago[g] = 0)
    BY <2>1 DEF Known
  <2> QED BY <2>2, <2>3, <2>4, <2>5 DEF Known
<1>3. Recent' /\ Current'
  BY DEF Recent, Fetching, Current
<1>4. (ListingKeepsUp /\ ListingAge)'
  BY DEF ListingKeepsUp, ListingAge
<1> QED BY <1>1, <1>2, <1>3, <1>4

LEMMA InvalidateStep ==
  ASSUME ListInv, NEW p \in Process, Invalidate(p) PROVE ListInv'
<1> USE DEF ListInv
<1>0. /\ leaving[p] \in Gens /\ leaving[p] <= gen /\ leaving[p] # Absent
      /\ listing' = [listing EXCEPT ![p] = Absent] /\ told' = [told EXCEPT ![p] = leaving[p]]
      /\ leaving' = [leaving EXCEPT ![p] = Absent] /\ shown' = Absent /\ UNCHANGED <<gen, linked, ago>>
  BY DEF TypeInv, Known, Invalidate, Dropped
<1>1. \A c \in Caller :
        \/ ask'[c] = ask[c] /\ (ask[c].on # p \/ ~Fetching(c))
        \/ /\ ask[c] \in Asks /\ ask'[c] = [ask[c] EXCEPT !.late = TRUE]
           /\ ask[c].on = p /\ Fetching(c)
  BY DEF TypeInv, Invalidate, Fetching, Away
<1>2. \A c \in Caller : ask'[c] \in Asks \cup {Away}
  <2> SUFFICES ASSUME NEW c \in Caller PROVE ask'[c] \in Asks \cup {Away}
    OBVIOUS
  <2>1. CASE ask'[c] = ask[c]
    BY <2>1 DEF TypeInv
  <2>2. CASE ask[c] \in Asks /\ ask'[c] = [ask[c] EXCEPT !.late = TRUE]
    BY <2>2 DEF Asks
  <2> QED BY <1>1, <2>1, <2>2
<1>3. \A c \in Caller :
        /\ ask'[c].at = ask[c].at /\ ask'[c].of = ask[c].of /\ ask'[c].spent = ask[c].spent
        /\ ask'[c].on = ask[c].on /\ ask'[c].floor = ask[c].floor
  <2> SUFFICES ASSUME NEW c \in Caller
               PROVE  /\ ask'[c].at = ask[c].at /\ ask'[c].of = ask[c].of /\ ask'[c].spent = ask[c].spent
                      /\ ask'[c].on = ask[c].on /\ ask'[c].floor = ask[c].floor
    OBVIOUS
  <2>1. CASE ask'[c] = ask[c]
    BY <2>1
  <2>2. CASE ask[c] \in Asks /\ ask'[c] = [ask[c] EXCEPT !.late = TRUE]
    BY <2>2 DEF Asks
  <2> QED BY <1>1, <2>1, <2>2
<1>4. TypeInv'
  <2>1. ask' \in [Caller -> Asks \cup {Away}]
    BY <1>2 DEF Invalidate
  <2> QED BY <1>0, <2>1 DEF TypeInv
<1>5. Known'
  BY <1>0, <1>3 DEF Known, TypeInv
<1>6. Recent'
  BY <1>0, <1>3 DEF Recent, TypeInv, Fetching
<1>7. Current'
  <2>1. \A q \in Process : listing'[q] # Absent => q # p /\ listing'[q] = listing[q] /\ told'[q] = told[q]
    BY <1>0 DEF TypeInv
  <2>2. \A c \in Caller : ask'[c].at = "read" => ask'[c].late \/ ask'[c].of >= told'[ask'[c].on]
    <3> SUFFICES ASSUME NEW c \in Caller, ask'[c].at = "read"
                 PROVE  ask'[c].late \/ ask'[c].of >= told'[ask'[c].on]
      OBVIOUS
    <3>1. ask[c].at = "read" /\ Fetching(c)
      BY <1>3 DEF Fetching
    <3>2. CASE ask'[c] = ask[c] /\ ask[c].on # p
      <4>1. told'[ask[c].on] = told[ask[c].on]
        BY <1>0, <3>2 DEF TypeInv
      <4> QED BY <3>1, <3>2, <4>1 DEF Current
    <3>3. CASE ask[c] \in Asks /\ ask'[c] = [ask[c] EXCEPT !.late = TRUE]
      BY <3>3 DEF Asks
    <3> QED BY <1>1, <3>1, <3>2, <3>3
  <2>3. \A c \in Caller : ask'[c] # Away => ask'[c].floor <= told'[ask'[c].on]
    <3> SUFFICES ASSUME NEW c \in Caller, ask'[c] # Away
                 PROVE  ask'[c].floor <= told'[ask'[c].on]
      OBVIOUS
    <3>1. ask[c] # Away /\ ask[c] \in Asks
      BY <1>1 DEF TypeInv, Asks, Away
    <3>2. ask[c].floor \in Nat /\ ask[c].on \in Process /\ ask[c].floor <= told[ask[c].on]
      BY <3>1 DEF Asks, Current
    <3>3. told[ask[c].on] \in Nat /\ told'[ask[c].on] \in Nat /\ told[ask[c].on] <= told'[ask[c].on]
      BY <1>0, <3>2, ChangesAssumption DEF TypeInv, Gens, Known
    <3> QED BY <1>3, <3>2, <3>3
  <2> QED BY <2>1, <2>2, <2>3 DEF Current
<1>8. (ListingKeepsUp /\ ListingAge)'
  BY <1>0 DEF ListingKeepsUp, ListingAge
<1> QED BY <1>4, <1>5, <1>6, <1>7, <1>8

LEMMA TickStep ==
  ASSUME ListInv, Tick PROVE ListInv'
<1> USE DEF ListInv
<1>a. /\ \A p \in Process : listing[p] = Absent => listing'[p] = Absent
      /\ \A p \in Process :
           listing[p] # Absent =>
             /\ listing'[p] # Absent /\ listing'[p] \in Listings /\ listing[p] \in Listings
             /\ listing'[p].ok = listing[p].ok /\ listing'[p].of = listing[p].of
             /\ listing'[p].late = listing[p].late
             /\ listing'[p].age = Up(listing[p].age, Life(listing[p].ok))
  <2> SUFFICES ASSUME NEW p \in Process, listing[p] # Absent
               PROVE  /\ listing'[p] # Absent /\ listing'[p] \in Listings /\ listing[p] \in Listings
                      /\ listing'[p].ok = listing[p].ok /\ listing'[p].of = listing[p].of
                      /\ listing'[p].late = listing[p].late
                      /\ listing'[p].age = Up(listing[p].age, Life(listing[p].ok))
    BY DEF Tick
  <2> DEFINE up == Up(listing[p].age, Life(listing[p].ok))
  <2>1. listing[p] \in Listings
    BY DEF TypeInv
  <2>2. listing'[p] = [listing[p] EXCEPT !.age = up]
    BY DEF Tick
  <2>3. up \in Nat
    BY <2>1 DEF Up, Listings
  <2> HIDE DEF up
  <2>4. /\ listing'[p] \in Listings /\ listing'[p].ok = listing[p].ok
        /\ listing'[p].of = listing[p].of /\ listing'[p].late = listing[p].late /\ listing'[p].age = up
    BY <2>1, <2>2, <2>3 DEF Listings
  <2> QED BY <2>1, <2>4, AbsentAssumption DEF up
<1>b. /\ \A c \in Caller : ~Fetching(c) => ask'[c] = ask[c]
      /\ \A c \in Caller :
           Fetching(c) =>
             /\ ask'[c] \in Asks /\ ask[c] \in Asks /\ ask'[c].at = ask[c].at /\ ask'[c].on = ask[c].on
             /\ ask'[c].floor = ask[c].floor /\ ask'[c].of = ask[c].of /\ ask'[c].late = ask[c].late
             /\ ask[c].spent < MaxFetch /\ ask'[c].spent = ask[c].spent + 1
  <2> SUFFICES ASSUME NEW c \in Caller, Fetching(c)
               PROVE  /\ ask'[c] \in Asks /\ ask[c] \in Asks /\ ask'[c].at = ask[c].at /\ ask'[c].on = ask[c].on
                      /\ ask'[c].floor = ask[c].floor /\ ask'[c].of = ask[c].of /\ ask'[c].late = ask[c].late
                      /\ ask[c].spent < MaxFetch /\ ask'[c].spent = ask[c].spent + 1
    BY DEF Tick
  <2>1. ask[c] \in Asks
    BY DEF TypeInv, Fetching, Away
  <2>2. ask'[c] = [ask[c] EXCEPT !.spent = ask[c].spent + 1] /\ ask[c].spent < MaxFetch
    BY DEF Tick
  <2> QED BY <2>1, <2>2 DEF Asks
<1>c. ago' \in [Gens -> Nat]
  BY OldestNat DEF TypeInv, Tick, Gens, Up
<1>d. \A g \in Gens : /\ ago'[g] <= Oldest /\ ago[g] <= ago'[g] /\ ago'[g] <= ago[g] + 1
                       /\ (g >= gen => ago'[g] = 0)
  <2> SUFFICES ASSUME NEW g \in Gens
               PROVE  /\ ago'[g] <= Oldest /\ ago[g] <= ago'[g] /\ ago'[g] <= ago[g] + 1
                      /\ (g >= gen => ago'[g] = 0)
    OBVIOUS
  <2>1. ago[g] \in Nat /\ ago[g] <= Oldest /\ (g >= gen => ago[g] = 0) /\ gen \in Nat /\ g \in Nat
    BY ChangesAssumption DEF TypeInv, Known, Gens
  <2>2. ago'[g] = IF g < gen THEN Up(ago[g], Oldest) ELSE ago[g]
    BY DEF Tick, Gens
  <2> QED BY <2>1, <2>2, OldestNat DEF Up
<1>e. shown' = Absent /\ UNCHANGED <<gen, linked, leaving, told>>
  BY DEF Tick
<1>1. TypeInv'
  <2>1. \A p \in Process : listing'[p] \in Listings \cup {Absent}
    BY <1>a
  <2>2. listing' \in [Process -> Listings \cup {Absent}]
    BY <2>1 DEF Tick
  <2>3. \A c \in Caller : ask'[c] \in Asks \cup {Away}
    BY <1>b DEF TypeInv
  <2>4. ask' \in [Caller -> Asks \cup {Away}]
    BY <2>3 DEF Tick
  <2> QED BY <1>c, <1>e, <2>2, <2>4 DEF TypeInv
<1>2. Known'
  <2>1. \A p \in Process : listing'[p] # Absent => listing'[p].of <= gen'
    BY <1>a, <1>e DEF Known
  <2>2. \A c \in Caller : ask'[c].at = "read" => ask'[c].of <= gen'
    BY <1>b, <1>e DEF Known
  <2> QED BY <1>d, <1>e, <2>1, <2>2 DEF Known
<1>3. Recent'
  <2>1. ASSUME NEW p \in Process, listing'[p] # Absent, listing'[p].age < Life(listing'[p].ok)
        PROVE  ago'[listing'[p].of] <= listing'[p].age + MaxFetch
    <3> DEFINE l == listing[p]
    <3>1. l # Absent /\ l \in Listings /\ listing'[p].of = l.of /\ listing'[p].ok = l.ok
          /\ listing'[p].age = Up(l.age, Life(l.ok))
      BY <1>a, <2>1
    <3>2. l.age \in Nat /\ l.ok \in BOOLEAN /\ l.of \in Nat /\ l.of <= gen
      BY <3>1 DEF Listings, Known
    <3>3. l.of \in Gens /\ ago[l.of] \in Nat /\ ago'[l.of] \in Nat
      BY <1>c, <3>2, ChangesAssumption DEF TypeInv, Gens
    <3>4. Life(l.ok) \in Nat
      BY <3>2, LifeNat
    <3>5. l.age < Life(l.ok) /\ listing'[p].age = l.age + 1
      <4>1. Up(l.age, Life(l.ok)) < Life(l.ok)
        BY <2>1, <3>1
      <4> QED BY <3>1, <3>2, <3>4, <4>1 DEF Up
    <3>6. ago[l.of] <= l.age + MaxFetch
      BY <3>1, <3>5 DEF Recent
    <3>7. ago'[l.of] <= ago[l.of] + 1
      BY <1>d, <3>3
    <3> HIDE DEF l
    <3> QED BY <3>1, <3>2, <3>3, <3>5, <3>6, <3>7, LivesAssumption
  <2>2. ASSUME NEW c \in Caller, Fetching(c)' PROVE ask'[c].spent <= MaxFetch
    <3>1. Fetching(c)
      BY <1>b, <2>2 DEF Fetching
    <3> QED BY <1>b, <3>1, LivesAssumption DEF Asks
  <2>3. ASSUME NEW c \in Caller, ask'[c].at = "read" PROVE ago'[ask'[c].of] <= ask'[c].spent
    <3>1. Fetching(c) /\ ask[c].at = "read"
      BY <1>b, <2>3 DEF Fetching
    <3>2. ask[c].of \in Nat /\ ask[c].spent \in Nat /\ ask[c].of <= gen
      BY <1>b, <3>1 DEF Asks, Known
    <3>3. ask[c].of \in Gens /\ ago[ask[c].of] \in Nat /\ ago'[ask[c].of] \in Nat
      BY <1>c, <3>2, ChangesAssumption DEF TypeInv, Gens
    <3>4. ago[ask[c].of] <= ask[c].spent
      BY <3>1 DEF Recent
    <3>5. ago'[ask[c].of] <= ago[ask[c].of] + 1
      BY <1>d, <3>3
    <3>6. ask'[c].of = ask[c].of /\ ask'[c].spent = ask[c].spent + 1
      BY <1>b, <3>1
    <3> QED BY <3>2, <3>3, <3>4, <3>5, <3>6
  <2> QED BY <2>1, <2>2, <2>3 DEF Recent
<1>4. Current'
  <2>1. \A p \in Process : listing'[p] # Absent => listing'[p].late \/ listing'[p].of >= told'[p]
    BY <1>a, <1>e DEF Current
  <2>2. \A c \in Caller : ask'[c].at = "read" => ask'[c].late \/ ask'[c].of >= told'[ask'[c].on]
    BY <1>b, <1>e DEF Current
  <2>3. \A c \in Caller : ask'[c] # Away => ask'[c].floor <= told'[ask'[c].on]
    <3>1. \A c \in Caller : Fetching(c) => ask[c] # Away
      BY DEF Fetching, Away
    <3> QED BY <1>b, <1>e, <3>1 DEF Current
  <2> QED BY <2>1, <2>2, <2>3 DEF Current
<1>5. (ListingKeepsUp /\ ListingAge)'
  BY <1>e DEF ListingKeepsUp, ListingAge
<1> QED BY <1>1, <1>2, <1>3, <1>4, <1>5

LEMMA StutterStep == ASSUME ListInv, UNCHANGED listVars PROVE ListInv'
BY DEF ListInv, TypeInv, Known, Recent, Current, Fetching, ListingKeepsUp, ListingAge, listVars

THEOREM ListInvHolds == ListSpec => []ListInv
<1>1. ListInv /\ [ListNext]_listVars => ListInv'
  BY ListStep, WokenStep, ReadStep, FetchedStep, CancelledStep, UnlinkStep, UnlinkFailsStep, InvalidateStep, LinkStep,
     TickStep, StutterStep DEF ListNext
<1> QED BY InitListInv, <1>1, PTL DEF ListSpec

(* What is shown after a reported unlink is from after it, but for a fetch *)
(* already under way then, and on any process it was so within its time to *)
(* live and a fetch (_cached_list, invalidate_subject, is_fresh).          *)
THEOREM ListingsStayCurrent == ListSpec => []ListingCurrent
<1>1. ListInv => ListingCurrent
  BY DEF ListInv, ListingCurrent
<1> QED BY ListInvHolds, <1>1, PTL
=============================================================================

--------------------------- MODULE MCPrincipalCache ---------------------------
(***************************************************************************)
(* The principal cache with a watch on its writes to Vault.                *)
(***************************************************************************)
EXTENDS PrincipalCache, TLC

VARIABLE unsaved  \* replicas whose last put failed since they started

InitWatch == Init /\ unsaved = {}

\* The put of c ends with this step, and the replica knows it landed.
PutEnds(c) == pc[c] \in {"put.read", "put.write"} /\ pc'[c] = "done" /\ answer' # NoAnswer
Saved(c)   == mem'[home[c]].persisted = loc[c].t0

Watch ==
  unsaved' =
    (unsaved \cup {home[c] : c \in {d \in Calls : PutEnds(d) /\ ~Saved(d)}})
      \ ({home[c] : c \in {d \in Calls : PutEnds(d) /\ Saved(d)}}
         \cup {r \in Replicas : mem'[r] = NoEntry})

WatchSpec == InitWatch /\ [][Next /\ Watch]_<<vars, unsaved>>

\* A reachable system has a record well inside the staleness bound: while a
\* replica's writes succeed, the shared record is no older than what the
\* replica holds by more than a heartbeat, and than a put of another replica
\* takes, even though a stable value is hardly ever written.
RecordKeepsUp ==
  \A r \in Replicas : mem[r] # NoEntry /\ r \notin unsaved =>
    /\ rec # NoRecord
    /\ mem[r].fetched < rec.at + Heartbeat + 2 * MaxRetries * Wait

\* A refresh that follows a failed write writes again, as the docstring of
\* _persist_if_needed() says: "the very next refresh retries".
FailedPutRetried ==
  [][\A c \in Calls : pc[c] = "answered" /\ pc'[c] = "done" /\ answer'.how = "directory"
       => home[c] \notin unsaved]_<<vars, unsaved>>

Symmetry == Permutations(Calls \ Slow) \cup Permutations(Slow) \cup Permutations(Values)
=============================================================================

# Verification of the AF MCP platform

TLA+ models of the broker in `broker/src/af_mcp_broker/` and of its web portal
in `portal/src/`, TLC runs that check them on small instances, and TLAPS proofs
for any number of principals, tokens, replicas and requests.  Paths of Python
files below are relative to `src/broker/src/af_mcp_broker/`, those of `.vue`,
`.ts` and `.astro` files to `src/portal/src/`.

## 1. The system

A facility runs several replicas of one FastAPI process, the broker.  It
authenticates callers (a Keycloak JWT, or a personal access token, PAT, that it
minted itself), decides what they may do, gets the credentials their backend
services need, and serves an aggregated MCP endpoint.  Users link their accounts
and mint their tokens in the portal, pages in a browser tab that call the broker.  Replicas share no memory.
What they share is a Vault/OpenBao KV-v2 store, driven with check-and-set (CAS)
writes, and Keycloak.  Inside a replica everything runs on one event loop, so
two coroutines interleave exactly at their awaits.

| Component | State it keeps | Operations | Hard behaviour | What makes it correct |
|---|---|---|---|---|
| PAT registry (`token_registry.py`, `token_sweep.py`) | Vault: one entry of records per principal, one owner entry per lookup id, one index of revoked ids | add, revoke, touch, lookup, sweep | read-modify-write over two entries without a transaction, retries, sweep as a separate job | unique live names, no lost mint or revocation, index never behind the records, sweep spares the living |
| PAT validation (`pat_auth.py`) | last-touched times | resolve a bearer PAT | reads race revocations on other replicas | no principal after an acknowledged revocation |
| Token API (`api/tokens.py`) | hourly mint windows | mint, list, revoke | limit checked before, counted after the awaits | owner only; limit |
| Principal cache (`principal_cache.py`, `principal_directory.py`) | memory per replica, one record per principal in Vault | get | single flight, stale serving, two clocks, restarts, slow writers | group removal takes effect within a bound, outage bound, durable record |
| Credential cache (`credentials/cache.py`) | credentials, mint locks, unlock counters per replica | get_or_mint, put, revoke, janitor | revoke against a mint in flight, janitor against put | nothing outlives a revocation, unlock limit |
| OAuth 2.1 grants (`credentials/oauth21.py`, `api/oauth21.py`) | one versioned credential per subject and alias in Vault | link, issue with refresh, unlink | rotating refresh tokens, CAS races, version reuse after unlink | a usable grant is never lost or replaced by an older one |
| MCP bootstrap (`api/mcp_oauth.py`, `mcp_auth_codes.py`) | authorization codes in memory | authorize, callback, token | single use, expiry, replica affinity | one PAT at most per login, only for the client that asked |
| Credmon sync (`credmon/`) | lease and status record in Vault | timer tick, manual run, cycle | lease without release, overlap, holder dies | one cycle at a time, a due cycle eventually runs |
| MCP aggregator (`mcp/aggregator.py`, `mcp/middleware/`) | listings per subject and kind | list, call, invalidate | invalidation against a fetch in flight, negative caching | no listing from before an unlink is served |
| Maintenance mode (`maintenance.py`, `api/admin.py`) | one record in Vault or Postgres | get, set, check | two admins, unreachable store | no silent overwrite, admins always pass |
| Audit and usage (`audit/`, `usage/`) | bounded queue, worker | submit, drain | full queue, shutdown | nothing is dropped |
| Authorization policy (`authorization/base.py`) | none | permissions, action type | none, pure functions | a grant only restricts |
| ServiceX identity (`credentials/servicex.py`, `credentials/servicex_vault.py`) | one versioned record per subject in Vault: a link half and a token half | mint, redeem, link, revoke, unlink | single flight per replica, read-modify-write across replicas, version reuse after an unlink | what the user was told of the link holds; a token belongs to the link |
| Proxy, Kerberos and other providers (`credentials/`) | proxies, keytabs, sealed passphrases | upload, unlock, issue, renew, revoke | several stores per identity, external jobs | revoked material is gone everywhere |
| Identity (`identity.py`) | JWKS and discovery caches | verify a JWT | stale keys, single flight | - |
| Portal session (`lib/auth.ts`, `lib/api.ts`, `layouts/Base.astro`) | OIDC user and identities snapshot in sessionStorage, one document | sign in and out, authenticated request with renewal and retry, navigation | a document ends while its requests run, repeated requests, two people on one tab | no one sees another's snapshot, nothing is executed twice, sign-out ends |
| Portal pages (`IdentitiesPage.vue`, `TokensPage.vue`, cards) | what is shown, open sections, dialogs, a minted token | link, refresh, revoke, mint, toggle | optimistic patches, late answers, lost answers | what is shown agrees with what was told |
| Wiring, charts | configuration | - | - | - |

Interaction.  `/mcp` and `/v1` requests authenticate through `identity.py` or
`pat_auth.py`; `pat_auth.py` reads the PAT registry and then the principal
cache.  Providers read and fill the credential cache; revoking a credential calls
back into the aggregator, which drops the subject's listings.  The credmon cycle
reads the principal cache and the provider stores.  Every authenticated call
leaves a record with the metering pipeline.  The portal's pages go
through one request helper, which renews an expired session and repeats a request
once.  Everything durable goes through
`vault_kv.py`: `get`, `write_cas`, `list` and `delete_metadata`, the last one
without CAS.

`PROJECT.json` lists every component, the hazards (each at the line where it
bites, with the properties that cover it), and which source lines every
definition stands for.

## 2. Modules

| Module | Models | State and its code |
|---|---|---|
| `TokenRegistry` | the Vault registry, its routes, PAT validation and the sweep job | `entry` = `by-principal/{id}` with its KV version, `owner` = `lookup-owner/{lookup_id}`, `index` = `revoked-lookup-ids`; `snap`, `isnap`, `tries` = the locals of a CAS loop; `pc` = the await a call is suspended at |
| `PatRegistry` | the contract: the in-memory backend, where each operation is one step | `held`, `revoked` = the records and those with `revoked_at` |
| `MCTokenRegistry`, `MCDenylist` | instances: symmetry, and a watch on how long a PAT has been in the index | - |
| `TokenRegistryProofs`, `TokenRegistrySafety` | theorems about `TokenRegistry`: types and what one step may write; the invariants, the refinement of `PatRegistry`, the budgets | - |
| `PrincipalCache` | `PrincipalCache.get()` on several replicas, its Vault backend, Keycloak | `mem` = `_entries`, `lock` = `_locks`, `rec` = the Vault record, `loc` = the locals of a call, `truth` and `until` = the directory and when each value was last true |
| `MCPrincipalCache` | instance: symmetry, and a watch on failed writes | - |
| `PrincipalCacheProofs` | theorems about `PrincipalCache` and the watch of `MCPrincipalCache` | - |
| `CredmonSync` | the credmon loop, its lease and status record on several replicas | `lease`, `status` = the two Vault entries, `loc` = the locals of a loop or of a manual run |
| `CredmonSyncProofs` | theorems about `CredmonSync` | - |
| `ServiceXLink` | the ServiceX provider, its record and its routes on several replicas | `record` = the Vault record with its KV version, `lock` = `_mint_locks` of a replica, `call` = the requests with their locals, `good` = what ServiceX accepts, `word` = what the user was last told |
| `OAuthGrant` | one OAuth 2.1 grant: `issue()`, the callback, `revoke()` | `entry` = the Vault entry, `valid` = the refresh tokens the server accepts, `rotates` = whether it replaces them, `req` = the requests, `said` = what the user was last told |
| `ListCache` | the per-subject listing cache of one service in the aggregator, over an identity that is linked and unlinked | `listing` = `_subject_list_cache`, `ask` = the callers of `_cached_list` (one that fetches holds the lock), `leaving` = an unlink between Vault and its hook |
| `MCLinks` | instance of these three: they meet in no state, so each is explored with the others at rest | - |
| `ServiceXLinkProofs`, `OAuthGrantProofs`, `ListCacheProofs` | theorems about them | - |
| `PortalSession` | the tab: session, documents, the request helper, the snapshot | `user`, `cache` = sessionStorage; `page`, `nav`, `signout` = the document; `call` = requests of `authFetch` with their continuations; `acct`, `rev` = what the broker stores |
| `Accordion` | a section fetched when it is opened, by sequence number | `sec` |
| `IdentitiesPage`, `TokensPage` | the two pages with their cards and dialogs | `shown`, `phase`, `landed`; `rows`, `dialog`, `minted`, `pending` |
| `Portal` | the pages in one tab: a new document resets the page and abandons its requests | - |
| `MCPortal` | instance | - |
| `PortalProofs` | theorems about `Portal` | - |

One action is one stretch of code between two awaits, with everything it
changes.  A Vault, Keycloak or upstream round trip takes effect at one instant; where the
answer can be lost after the effect, the action has an alternative for it.

Abstractions.  Secrets, names and attributes are model values; formatting,
logging and metrics are left out.  `last_used_at` is display-only: a touch is a
write that moves the KV version.  In `PrincipalCache` one principal stands for
all, since entries, locks and records of two principals never meet, and one
monotonic clock for all replicas, since only differences are used; wall clocks
may differ by `Drift`.  No record of that cache is deleted, so its KV version is
kept as "has another write come in between"; the same holds for `CredmonSync`.
In `CredmonSync` time is kept as ages, which makes an endless behaviour finite;
a cycle is its listing and one step per subject, and what it stores in credd is
left out.  In all modules a write still on its way when its process dies is taken
to have landed before or never, and the time an answer takes to come back counts
as time the next request takes to arrive.

`ServiceXLink` and `OAuthGrant` have one user and one alias, since records of two
never meet, and name an access token after the refresh token it came from;
"fresh" stands for the validity margins callers ask for.  Vault's version numbers
are kept as they are, because `delete_metadata` lets them start again and a late
writer may find its own number.  In `ListCache` an identity is the number of times
it has changed, a listing the number it was fetched under, and a process beside
the one modelled is an unlink whose hook does not run here.  In the portal a person
has one account with the fields the cards show, the broker's side of a request is
one step, and pages with nothing to go wrong (they load once and show) are left
out.

## 3. Runs

Model check with `tlc -config X.cfg M.tla`.  "States" are distinct ones.

| Run | Module | What it asks | Bounds | States |
|---|---|---|---|---|
| `registry_writers` | `MCTokenRegistry` | Do concurrent mints, revocations and requests, one of which may fail anywhere, keep what users were told, and is every step one of the contract? | 4 calls over 2 principals, 2 PATs, 2 names | 0.9M |
| `registry_sweep` | `MCTokenRegistry` | Does a sweep beside 3 requests, all of which may fail anywhere, leave the live PATs and the denylist alone? | 3 calls and 1 sweep, clock to 2 | 1.1M |
| `registry_lost_mint` | `TokenRegistry` | Is an acknowledged mint kept? No: see 6 | 2 requests, 1 sweep | stops |
| `registry_half_revoked` | `MCDenylist` | Is a PAT in the denylist refused after one refresh interval? No: see 6 | 3 requests | stops |
| `principal_cache` | `MCPrincipalCache` | How old may an answer be, how old may the record be that a restart starts from, and who asks the directory? | 3 calls on 2 replicas, clock to 5, 1 change | 2.4M |
| `principal_cache_unsaved` | `MCPrincipalCache` | Is a failed write retried at the next refresh? No: see 6 | as above | stops |
| `credmon` | `CredmonSync` | Do cycles of different replicas overlap or repeat, and is a due cycle eventually recorded? | 2 replicas, 1 with an admin, 1 fault, endless time | 0.35M |
| `portal` | `MCPortal` | Do pages, snapshot and lists agree with what was told, over navigation, lost answers and overlapping clicks? Is anything sent twice, and does what loads or signs out end? | 2 people on one tab, 2 requests at a time, 2 tokens, 5 events | 0.44M |
| `portal_token` | `MCPortal` | Is a minted token in memory only while its dialog is open? No: see 6 | as above | stops |
| `links` | `MCLinks` | Does what the user was last told hold of a ServiceX link and of an OAuth grant, whatever overlaps, and is what a service lists current? Is every ServiceX request answered? | 2 requests each, 2 replicas, 4 events | 0.74M |
| `credmon_overlap` | `CredmonSync` | Does a manual run overlap a cycle of the same replica? Yes: see 6 | 1 replica | stops |
| `credmon_abort` | `CredmonSync` | Does a cycle go through all its subjects? No: see 6 | 1 replica | stops |

Why the bounds are enough to be of interest.

*Registry.*  A CAS race needs two writers of one entry, a retry that meets a
third; the runs have four calls, and `MaxRetries` is the number of calls where
`BudgetSuffices` is checked and below it in the sweep run, so that exhausted
budgets happen too.  The clock runs to the end of the grace window of the only
lifetime, so that a PAT expires, is swept and may be presented after.  Every call
is one request: what a user does next is another call, started once the first is
answered (`late` in a request remembers that it came after an acknowledgement).

*Principal cache.*  `Refresh`, `Drift` and `Wait` are one tick, the other
intervals two, so that an entry goes stale, a heartbeat is skipped and then due,
and the staleness bound plus skew and round trip (four ticks) is exceeded before
the clock stops at 5.  `MaxChanges = 1` means that no value comes back, which
would only make an old value true again.  One call is slow, one replica may
restart any number of times, every round trip may fail.  `MaxRetries = 1` makes a
conflict of two puts give up at once: the interesting case, as the slow replica
keeps a value it has not written.

*Credmon.*  Every wait is one tick or two, the lease is one tick longer than
`LeaseOutlivesCycle` asks (9, with a drift of one), and the interval is longer
than the lease, as in the code.  One fault, a Vault error or a restart (under the
old name or a new one), is enough to strand the lease at every step.  The status
of a cycle and its effect on the next need no second fault.

*Portal.*  Two requests at a time are two overlapping clicks, or one and a late
answer; five events (clicks, documents, expiries, failures) are a change, a
navigation over it, a return and two failures, or two openings of a section
over one slow answer.  A second person is what a snapshot left behind needs.

*Links.*  Two requests in flight, each with any operation on any replica, are a
writer and the one it races; `CasAttempts = 3` is the code's own, and can run
out.  Four events let an unlink, a new link and a late writer from before both meet at
one version number, with a withdrawal, expiry or failure beside.  Two ServiceX
refresh tokens are the old link's and the new one's; five numbers are enough
for every refresh and link the four events allow.  For the listing, the lifetimes
of 2 and 1 and a fetch of 1 tell the two bounds apart, two callers meet at the
lock, and two changes are an unlink and a link in either order.

## 4. Fairness

The registry and the cache runs check safety only: their specifications have no
fairness.  `CredmonSync!FairSpec` has weak fairness on `Tick` (clocks run), on
`Wake` (`asyncio.sleep` returns) and on each run's `Step` (the event loop resumes a
coroutine whose round trip has ended, and each has an HTTP timeout: `MaxWait`).
Requests of admins, Vault errors and restarts are not fair, and faults end at
`MaxFaults`: the code retries at every poll for ever, so it can promise to get on
only once Vault answers.

`ServiceXLink!Fairness` is weak fairness on each request's `Step`, for the same
reason: the event loop resumes it, and each call to Vault and ServiceX has a
timeout.  Weak is enough for a request that waits for the lock, as the bound on
requests ends every stream of others that might take it first; asyncio's lock is
first in, first out.  `Portal!Fairness` is weak fairness on each request's step
(the broker or the failing network answers, `signinSilent()` ends, the
browser runs a continuation) and on `SignedOut`, the redirect of a sign-out that
has begun.  Clicks, navigation and expiry are not fair.

## 5. Proofs

`tlapm` proves the following for every value of the constants that meets the
named assumptions of the module (numbers are naturals, `None` and `Null` are none
of the elements, retry budgets and round trips are not zero where the code says
so, the accounts the portal starts with are accounts).  Every safety property a
passing run checks is among them.

| Theorem | Says |
|---|---|
| `TokenRegistryProofs!TypeCorrect` | `Spec => [](TypeOK /\ ArgsOK)`: types, and a call about to read or write an entry holds the principal whose entry it is |
| `TokenRegistrySafety!SweepsSpareLive` | `Spec => SweepSparesLive` |
| `TokenRegistrySafety!RevokedStaysIndexed` | `Spec => []RevokedIsIndexed` |
| `TokenRegistrySafety!NamesStayUnique` | `Spec => []LiveNamesUnique` |
| `TokenRegistrySafety!OrphansOnlyFromMints` | `Spec => []OrphanOnlyFromMint` |
| `TokenRegistrySafety!OnlyOwnersDeny` | `Spec => []OnlyOwnerDenies` |
| `TokenRegistrySafety!AckedMintsAreKept` | `Spec /\ NoEntryDestroyed => []AckedMintKept` |
| `TokenRegistrySafety!LateAuthRefused` | `Spec /\ NoEntryDestroyed => []NoAuthAfterRevoke` |
| `TokenRegistrySafety!AckedRevokesStick` | `Sweeps = {} => (Spec => []AckedRevokeSticks)` |
| `TokenRegistrySafety!RegistryImplementsContract` | `Spec /\ NoEntryDestroyed => ContractSpec` |
| `TokenRegistrySafety!BudgetsSuffice` | `Sweeps = {} /\ IsFiniteSet(Requests) => (Spec => []BudgetSuffices)` |
| `PrincipalCacheProofs!CacheTypeCorrect` | `Spec => [](TypeOK /\ HomeOK)`: types, and a call in flight knows its replica |
| `PrincipalCacheProofs!KillSwitchHolds` | `Spec => []KillSwitch` |
| `PrincipalCacheProofs!OutageStaysBounded` | `Spec => []OutageBound` |
| `PrincipalCacheProofs!SingleFlight` | `Spec => NoRefreshStorm` |
| `PrincipalCacheProofs!RecordStaysFresh` | `Heartbeat > 0 => (WatchSpec => []RecordKeepsUp)` |
| `CredmonSyncProofs!SyncTypeCorrect` | `Spec => []TypeOK`, and no wait outlives its limit |
| `CredmonSyncProofs!OneReplicaAtATime` | `Spec => []OneReplica` |
| `CredmonSyncProofs!CycleOncePerInterval` | `Spec => OncePerInterval` if the lease is one round trip longer (`LongLease`) |
| `ServiceXLinkProofs!LinkTypeCorrect` | `Spec => []TypeOK` |
| `ServiceXLinkProofs!StaysUnlinked` | `Spec => []UnlinkSticks` |
| `ServiceXLinkProofs!LinkStays` | `Spec => []AckedLinkKept` |
| `ServiceXLinkProofs!TokenStaysOfLink` | `Spec => []TokenOfLink` |
| `OAuthGrantProofs!GrantTypeCorrect` | `GrantSpec => []GrantTypeOK` |
| `OAuthGrantProofs!GrantStaysUnlinked` | `GrantSpec => []GrantUnlinkSticks` |
| `OAuthGrantProofs!GrantStaysLinked` | `GrantSpec => []GrantLinkKept` |
| `OAuthGrantProofs!GrantStaysUsable` | `GrantSpec => []StoredUsable` |
| `ListCacheProofs!ListingsStayCurrent` | `ListSpec => []ListingCurrent` |
| `PortalProofs!PortalTypeCorrect` | `Spec => []TypeOK` |
| `PortalProofs!NothingSentTwice` | `Spec => []ExecutedOnce` |
| `PortalProofs!NoStaleWrite` | `Spec => NoLateRewrite` |
| `PortalProofs!SnapshotIsOwn` | `Spec => []OwnSnapshot` |
| `PortalProofs!SnapshotStaysFresh` | `Spec => []SnapshotKeepsUp` |
| `PortalProofs!CardsStayTrue` | `Spec => []CardsTellTheTruth` |
| `PortalProofs!ChipStaysTrue` | `Spec => []ChipAfterRevoke` |
| `PortalProofs!ListStaysCurrent` | `Spec => []ListKeepsUp` |

The registry.  `RevokedIsIndexed` speaks of the stored entries only, and a step
may make an entry of what a call read long ago; so none of the invariants is
inductive without a statement about the copies calls hold.  `IndexInv` is the CAS
discipline: a copy of the index with the current version is the current index.
`PruneInv` says that what a sweep has marked for pruning is past its grace
window, with `now` only growing.  Their conjunction with the types, `SweepInv`,
gives `SweepsSpareLive`.  `DeniedInv` carries "revoked implies indexed or expired"
over to every copy of an entry and to a revoke between its two writes, which gives
`RevokedStaysIndexed`.  `NamesInv` carries "no two live records collide" over to
the copies, and adds that an `add` about to write has found its name free in the
copy it will write on; `TakenStable` is why time cannot undo that.

`CallInv` collects what the later theorems need of the calls: which operation
stands behind an await (`AskInv`), that records, copies and owner entries belong to
the PAT's own principal (`OwnedInv`), that a PAT being minted is nowhere else yet
and is nobody else's (`MintInv`), that what is revoked is held (`SubInv`).
`AccountedInv` says of every record in an entry or a copy that it has its owner
entry, or a mint that owes it, or is past its grace window; `DenierInv` traces
every denylisted id, stored or read, to a call of its owner.

`CasInv` is the check-and-set discipline of the entries: a copy with the current
version is the current entry.  It is false in general: a sweep that deletes an
entry of dead records takes the version count along, the next mint begins again
at 1, and an old copy passes for current (finding 1 in section 6).
`NoEntryDestroyed`, that no step takes an entry's version back to nothing, is
exactly the exclusion of that step; the theorems with this hypothesis say that
nothing else loses a mint, undoes a revocation for late requests, or leaves the
contract.  Sweeps may run under it, and rewrite entries and prune indexes; the
lemma `WithoutSweeps` shows that it follows from `Spec` where there are none, as in
the run that checks these properties.  `AckedRevokesStick` needs more, no sweep at
all, because a sweep takes a revoked and expired record away.  `KeptInv` is what is
left to carry: an acknowledged revocation is in the record, a mint past its first
write has its record, and a request begun after an acknowledged revocation never
gets to the touch.

The refinement maps `held` and `revoked` to what the entries hold.  A mint, a
revocation and a sweep take effect at their CAS write of the entry, and no other
await changes what `PatRegistry` sees; a touch is a stutter.  `CasInv` makes the
copy a write is computed from the entry it replaces, so that each write is the
contract's step, and `NamesInv` gives the contract's guard.

The budgets.  `TriesInv` bounds the tries of a CAS loop by the version of what it has
read: each conflict is a write that came between.  `CountInv` bounds the version by
the number of calls that have written, each once without sweeps.  A call that is
still trying has not, so it cannot run out if there are no more requests than tries.

The principal cache.  `AgeInv` says that everything remembered of a value, in
memory, in Vault or in the locals of a call, was true at the time it claims, give
or take `Slack`, the skew plus one round trip: `Backed(v, t)`.  Of a call in flight it
keeps that the round trip began after the call looked at the clock and has not
outlived its timeout, and that the directory's answer was true when it was given;
this is what bounds the wall-clock stamp of a record.  `DirectoryStep` and
`BackedStable` say that time and the directory only add to what was true.

`LockInv` says that a call between two round trips holds its replica's lock, and
that the memory it has found empty stays so while it loads the record; hence only
the holder asks the directory, and it has just looked.  `RecordInv` bounds how far
the record may lag: while no write has failed, what a replica remembers as written
is at most the longest put `K = 2 * MaxRetries * Wait` ahead of the record, and what
it has fetched since less than a heartbeat more.  `Heartbeat > 0` is a real
hypothesis: the setting is a plain float with a default of three hours
(`config.py:679`), and with 0 the bound would ask that a refresh and its write be
one instant.

Credmon.  The lease says nothing of who runs; `OneReplica` needs to know how much
of it is left.  `LateOK` says that a clock reading is at most as old as the waits
since.  `Held` says that the replica of a busy run holds the lease, with
`TTL - 2 * MaxWait` less what the run has used of it left, which
`LeaseOutlivesCycle` keeps above the drift until the status is written.  `Sole` covers a run that has
read the lease and not yet written it: while its copy is current, no other replica
is busy.  For once-per-interval, `Barred` and `Looked` carry the age of the status
over to whoever has looked at it, through the step between a status read before
another's cycle and the lease read after it; that step is where the lease must be
one round trip longer than the one replica at a time needs.

The identities.  In both modules the invariant is about copies again: what a call
has read is the record of its version, or it has been overtaken (`past`,
`crossed`), or the record was deleted under it and the number may come back
(`stale`, and `odd` or `back` on a record so written).  `LinkInv` is `TypeOK`, the
soundness of every call's copy (`AllSound`) and that the user has been told something
only while no other link or unlink is under way (`WordOK`); `GrantInv` is its
counterpart (`StageOK`, `HadOK`, `GotOK`, `SaidOK`).  The exceptions in the properties are
those history flags and nothing else.

`GrantStaysUsable` is about the tokens themselves, `TokenInv`.  No number is seen
that was not drawn (`DrawnInv`), and one just drawn is known to the request that got
it alone until it is stored (`SecretInv`), so that no refresh can use up a token
that another is about to store.  A refresh about to use the stored token has
read the entry as it is (`ReadInv`).  Then the stored token is valid, or the refresh
that has used it up is the one whose write the entry's version will accept
(`Rescued`), or the entry is about to be deleted (`Doomed`): this is `UsableInv`.

The listing.  `Known` orders the numbers: what anybody has seen or been told is no
newer than the present.  `Recent` bounds the age of what an entry and a fetch have
seen by the entry's age and the fetch's duration.  `Current` says that what is not
late has seen the last unlink its process reported; the floor of a waiting caller
is never above that, because `told` only grows.

The portal.  `TypeInv` is `TypeOK`, what the stage of a request says of its other
fields (`CallOK`: nothing was executed before the answer, a renewal follows a refusal,
only a write that had left survives its document) and which page a live request can
come from (`PhaseOK`); `ExecutedOnce` and `NoLateRewrite` follow from it.  The other
invariants say what an answer under way may still do.  `OwnInv`: whose it is.
`FreshInv`: a snapshot, stored or in an answer, is of the past, agrees with the broker
if nothing changed since, and misses no change told before it was asked for.
`CardInv` compares the `Face` of a card, what it says of an account: with no request
landed the page's and the broker's are the same, and with one landed, executed but not
yet shown, the broker's is the page's `Turned` by it.  It needs that of one card only
one request is under way, which the busy flags of the page give for all but two
Kerberos operations (`unsure`), and that a refresh still remembers what is shown
(`RefreshOK`).  `ChipInv`: who claims an active proxy is right, or the answer to a
revocation is there and will correct it.  `ListInv`: what the document knows of a
token holds at the broker up to a later revocation, and so does every answer under
way (`Tells`); an answer asked for after something was told agrees with it.

In writing these, `ListKeepsUp` turned out to hold by luck of the bounds: with three
requests at a time a revocation may be answered after an older list has taken its
row away, and nothing marked the list as outdated.  The history variable `outdated` of
`TokensPage` now says so.

Only model-checked: liveness under fairness (`DueCycleRuns`, `IssueEnds`,
`SectionSettles`, `SignOutEnds`), which like `ENABLED` and induction over data is out of
this prover's reach, and the violations of section 6, which need only one behaviour.

## 6. What the code does not keep

Each is a run that ends in a violation; the behaviour TLC prints is the account.

1. `registry_lost_mint`: the sweep deletes an entry of dead records with
   `delete_metadata`, which has no CAS, so a mint acknowledged between its read and
   its delete is lost.
2. `registry_half_revoked`: a revoke that fails between the index and the record
   leaves a PAT in the denylist that validation, which reads the record, accepts.
3. `principal_cache_unsaved`: a changed value whose write fails is compared away
   at the next refresh and not written before the heartbeat is due.
4. `credmon_overlap`: the lease does not refuse its own holder, so a manual run
   overlaps the timer's cycle on the same replica.
5. `credmon_abort`: a Vault error while one subject is looked up ends the cycle.
6. `portal_token`: the mint dialog can be closed while the mint is under way; its
   answer then puts the token's value where only the next opening removes it.

`registry_writers` therefore has no sweep where `AckedMintKept` and `ContractSpec`
are checked: with one they fail in the way of 1.

Other behaviour the models have, which their properties name as an exception.

*Portal.*  A snapshot whose request was under way when a change was told is stored
after it (`overlap` in `SnapshotKeepsUp`), although the comment at
`IdentitiesPage.vue:132` has the change drop the snapshot for good.  Of
two overlapping Kerberos requests the later answer wins, so a refused refresh may
hide a keytab just uploaded.  The chip of the proxy section may say active if its
status was asked for before the revocation was answered.  A second click on Sign
out repeats the purge.

*ServiceX.*  A redemption under way when the user is told of an unlink stores a record with a
token and no link (against `credentials/servicex_vault.py:44`).  A rejection of the
old refresh token deletes the whole record, also a link made since; the user is told
to link again.  After an unlink and a new link a late writer may find the version
number it had read and put the old record back (`back`).  A redemption that a new link
overtakes stores the old account's token in the new link's record (`mixed`).

*OAuth.*  Of two refreshes with one rotating refresh token the second is told to link
again, although the first has succeeded.  The callback retries a conflict once and
then answers 500.  A failure between the server and Vault leaves an entry whose
refresh token is void (`spoilt`).  A late refresh may meet its version number on a
newer entry (`odd`).  Whether a server rotates is fixed at the start; one
that sometimes does can lose the live token to an older write.

*Listing.*  A fetch under way during an unlink is stored after the invalidation
and served for a whole `tools_cache_ttl`; a process other than the one that took the
unlink drops nothing at all; and an unlink whose answer from Vault is lost drops
nothing.  The docstring at `mcp/aggregator.py:1477` says a stale listing "is never
served past that change".  What holds is `ListingCurrent`: on the same process, and but
for such a fetch, it is so; anywhere it is over after the time to live and a fetch.

## 7. What is not modelled

The components with status `not_modelled` in `PROJECT.json`, each with its reason.
In the modelled ones: cryptography and token formats, HTTP status codes, audit and
metrics, `get_by_principal` and the listings (they only read), Vault's own login
(a failed login is a failed round trip), the one-minute polling of
`RevokedJtiCache`, the hourly mint limit, the counts of a credmon report and its
`last_success_at`; of the OAuth grants the authorize route and its state token; of
the aggregator its sessions with the services, routing and middleware; of the
portal the ServiceX card, which has the shape of an unlink, the Kerberos badges, the
pages that load once (`UsagePage.vue` does so without a sequence number, see the
hazards) and all rendering.  `.agents/skills` holds a vendored design tool that is
no part of the platform; most of the repository's JavaScript is there.

That a credmon cycle takes less than the lease lasts is assumed
(`LeaseOutlivesCycle`, and `LongLease` for the once-per-interval theorem), as the
comment at `credmon/factory.py:29` asks; nothing in the code enforces it.  The
defaults are a lease of 600 s and an interval of 14400 s, so that
`IntervalAssumption` (four round trips) holds by far.  `MaxFetch` in `ListCache` stands for
the timeouts of the service's client and of the credential's issue.

## 8. What could come next

1. `KerberosTicket` (`credentials/krb5.py`, `credentials/krb5_vault.py`) with what the
   credential cache stores: revocation against a mint in flight, and the janitor
   against a put.
2. An abstract specification of the portal's pages, each change one step of page and
   broker together, that `Portal` implements; `CardInv` and `ListInv` are the
   simulation it needs.
3. The identities as one-step operations on a link, in the way of `PatRegistry`:
   `ServiceXLink` and `OAuthGrant` implement it but for the flags of section 6.
4. `McpBootstrap` (`api/mcp_oauth.py`, `mcp_auth_codes.py`) composed with the
   registry's contract: one PAT at most per code.
5. `Metering` (`audit/`): order of records, and the window at shutdown.
6. `Entitlement`: authorization as pure operators checked against a definition
   over all small grants.

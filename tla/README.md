# A verification of the Agent Identity Plane in TLA+

This directory models the parts of the Agent Identity Plane that decide who may
act for whom: the token exchange (STS) with its replay cache, signing ring,
rate limiter and audit log, the life of its process, the gateway that admits the
tokens, the clients of both, and what is read of the records afterwards. The
models are checked with TLC on small instances; all their safety properties but
one, about the aliasing of files, are also proved for all values of their
constants, with TLAPS.

Paths below are relative to `src/internal/` unless they start with `src/`.

## The system

A user token of an identity provider is exchanged by agent after agent for
tokens that name the whole chain of delegation. Each hop's token is meant for
the next agent; the last one is presented, with a DPoP proof, to the gateway in
front of a resource.

| Component | State it keeps | Operations | Interacts with | What is hard | What makes it correct |
|---|---|---|---|---|---|
| Token exchange, `sts/sts.go` | the live identity snapshot | `exchange`, `Exchange`, `installIdentity` | registry, denylist, ring, attestation, replay cache, audit log | concurrent requests, reload in between, failure after the subject is spent | chain = history, single use, one snapshot, record before release |
| Token endpoint, `sts/http.go` | limiter, metrics | `handleToken`, JWKS, health | exchange, DPoP, replay cache | the proof is spent before the request is decided | a proof confirms one token |
| Reload, `sts/reload.go`; serve process, `src/cmd/agent-identity-plane/serve.go` | paths of the documents, signal channel, open files | `Reload`, startup, select loop, `Shutdown` | snapshot, ring, replay log, audit log | edits during a reload, signals during one, files closed under requests | no signal is lost, the denylist is never the older document, SIGTERM ends it, nothing is answered unrecorded |
| Rate limiter, `sts/reload.go`, `gateway/gateway.go` | tokens, last | `allow` | endpoint, gateway, nonce cache | clock read before the mutex | no more than burst and rate in every window |
| Replay cache, `sts/replay.go` | map of used jtis, append-only log | `Consume`, `OpenReplayCache` | exchange, endpoint, gateway | clock read before the mutex, short writes, failed sync, crash | single use while the window is open |
| Audit log, `audit/logger.go` | hash tip, index, poison flag, file | `NewLogger`, `Append` | exchange, gateway, trace | crash within a write, failed sync, torn tail | one chain, acknowledged records stay |
| Trace, `audit/trace.go` | none | reconstruct a transaction | audit logs, log of mcp-visor | several logs, one of them unverified, lines of it that do not load, tokens without a transaction | finds every decision in the audit logs, in order; mcp-visor can add to it or make it fail, and not change it |
| Registry and denylist, `registry/`, `denylist/` | parsed documents, live file | `Authorize`, `DenyExchange`, `DenyChain`, `Live` | exchange, gateway | edits between two steps of a request | exact identifiers, fail closed |
| Claims, `token/claims.go` | none | time window, actors, chain, scope | exchange, verification | two encodings of one chain, skew at both ends | they agree |
| Signing ring, `token/keyring.go`, `token/keys.go` | active key, published keys | rotate, retire, sign | exchange, JWKS | signing with a key that is being retired | a token verifies as long as it lives |
| Gateway, `gateway/gateway.go` | nonces, limiter | `handlePEP` | verification, denylist, DPoP, replay cache, audit log | Has and Consume apart, restart forgets nonces, lost replay log | one forward per nonce and proof, revocation binds |
| DPoP, `dpop/dpop.go`, `dpop/nonce.go` | nonce cache | `Verify`, `Issue`, `Has`, `Consume` | gateway, endpoint | expiry, growth | a nonce is good once |
| A2A client, `a2a/` | the incoming token | `RoundTrip`: exchange, call, retry once with a nonce; `Middleware` | endpoint, gateway | lost answers, a retry of a body already read | the backend moves once, a job tried again is served |
| visor-session, `visorsession/` | a token | fetch the mapping, exec mcp-visor | gateway | whoever answers | the child is the bearer of the token |
| Verification, `verify/` | cached keys | `Verify`, JWKS fetch | gateway, client | stale keys | claims checks |
| Attestation, `attest/`, `verify/oidc.go`; JWS, `token/jws.go` | none (keys are fetched per attestation) | `LocalKeys`, `SPIFFEJWT`, `FirstSuccessful`; key selection, merging | exchange, OIDC provider | keys that rotate and move between two requests, names that repeat | a live key attests, whoever has one is attested |
| File aliasing, `identfile/` | none | `RejectAliased` | commands | links, hard links, files not there yet | two flags never open one file, if no path leaves a link by `..` |
| Actor context, `visoradapter/`; strict JSON, `jsonutil/`; commands, `src/cmd/` | none | checks, encodings, wiring | | | |

`PROJECT.json` lists each component with what is modelled of it, and the hazards
of the code with the properties aimed at them.

## The modules

| Module | Models | Builds on |
|---|---|---|
| `Claims` | the operators on claims: time window, actors, chain, act nesting, scope | |
| `IdentityDocs` | registry and denylist, and what they decide | |
| `SingleUse` | what a replay cache promises: an abstract specification | `Claims` |
| `ReplayCache` | the cache of `sts/replay.go`, its log and its recovery | `Claims`, refines `SingleUse` |
| `Ledger` | what the exchange promises: an abstract specification | |
| `STS` | `handleToken` and the exchange, reload, restart | `Claims`, `IdentityDocs`, composed with `SingleUse`, refines `Ledger` |
| `Serve` | the process: startup, signals, reload document by document, shutdown | |
| `Keyring` | the signing ring, its operator, exchanges in flight, verifiers | `Claims` |
| `TokenBucket` | what a rate limit promises: an abstract specification | |
| `RateLimiter` | `allow` in `sts/reload.go` and `gateway/gateway.go` | refines `TokenBucket` |
| `Gateway` | `handlePEP`, the nonces, the live denylist, restart | `Claims`, `IdentityDocs`, composed with `SingleUse` |
| `NonceStore` | how large the nonce cache of `dpop/nonce.go` gets | composed with `TokenBucket` |
| `Delegation` | two hops of `a2a`, their faults and retries | what `STS` and `Gateway` show |
| `VisorSession` | `visorsession` against gateways, proxies and anything else | |
| `Journal` | what the audit log promises: an abstract specification | |
| `AuditLog` | `audit/logger.go`: append, poison, crash, recovery | refines `Journal` |
| `Trace` | `audit/trace.go`: reconstruction from several logs | |
| `Attestation` | `attest`, the choice of keys in `token/jws.go`, live keys of `verify` | |
| `IdentFiles` | `identfile` against what open(2) does | |
| `Records`, `Keys`, `Sessions`, `Limits` | compositions: modules that share records, keys, the gateway or a limit, each a part of its own | `AuditLog`, `Trace` and `Delegation`; `Keyring` and `Attestation`; `Gateway` and `VisorSession`; `RateLimiter` and `NonceStore` |
| `...Proofs` | theorems and their proofs | the component or composition they are named for; `KeyringProofs` is about `Keys`, `GatewayProofs` about `Sessions`, `RateLimiterProofs` about `Limits` |
| `MC...` | small instances for TLC | see the runs |

Definitions whose comment begins "With a seeded bug" are variants of the
definition after them. No specification uses them; they say what each property
would catch.

A composition EXTENDS one module and takes the others by INSTANCE, and a variable
`part`, fixed in the initial state, says which of them a behaviour is about. The
others stand still, so a run and a proof about the composition are about each of
them; that the module it EXTENDS is still the one that its own theorems are about
is a theorem (`RecordsImplementLog`, `KeysImplementRing`,
`SessionsImplementGateway`, `LimitsImplementLimiter`). A part restricts the steps
of its module and adds none. `MCProcesses` composes `Serve` and `IdentFiles`
itself, since `IdentFiles` is only model-checked.

### ReplayCache

One variable per piece of the cache: `seen` is the map, `log` what each write
left in the file, `synced` how much of it a power loss cannot take back, `mutex`
the holder of the lock. A `Consume` is several steps, because callers and
failures come in between: `Enter` (reads the clock, then waits for the mutex),
`Write` or `WriteFails` (under the mutex: purge, the two lookups, the write),
`Sync` or `SyncFails`, and `Reject` for the early returns. `Crash` is the death
of the process, alone or with the machine: a suffix of the unsynced writes may
be lost and the first of them cut short. `Restart` is `OpenReplayCache`, which
refuses a file with a line that does not decode. `grants` is a history: which
claims were granted, and when.

### STS

A handler goes through `idle` -> `received` -> (`proved`) -> `snapped` ->
`cleared` -> `spent` -> `decided` -> `audited` -> `idle`. The steps are the
points where another handler, a reload or a failure can come in between:
consuming the DPoP proof, taking the snapshot, deciding (`Verdict` is the
sequence of early returns of `exchange`, with the first that applies),
consuming the subject token, minting, appending to the audit log, answering.
`Reload` appends to `docs`, the contents installed over time, so that a snapshot
is an index; `Restart` is the death of the process at any of these points.
Tokens are kept in `tokens`, with `origin` as the history that the properties
compare the claims against: who asked, from which token, by which snapshot.

`Ledger` has none of these steps: a token is an entry, added at once as what its
parent allows at that moment, then recorded, then released. `EntryOf` maps a token
and its origin to an entry; `KeepsLedger` is the refinement. `Ledger` restates the
rules instead of taking the operators of `Claims`, so that a mistake in one of them
shows.

### Serve

The main goroutine is one process counter, `pc`, since `cmdServe` does one thing
after another: `Load` and `Install` read the documents one by one (at startup and
for a SIGHUP), `Listen`, then the select with its three cases, then `Drained` or
`Timeout`, `CloseReplay`, `CloseLog`, `Exit`. `reloadCh` is the bit `pending`.
An operator edits the files between any two steps, signals are sent at any time,
and requests, reduced to what they do to the two files, go on beside it.

### Keyring

`ring` is the live ring, `copy` the JWKS file of a gateway without a URL; a key
is its material. An exchange takes its snapshot (`Begin`), reads the clock
(`ReadClock`) and signs (`SignClaims`) in three steps. `Reload` may install any
ring that `AllowActivation` lets through and the operator's care allows;
`StartWait` is the moment an operator counts `KeyRetirementWait` from, `Burn` the
removal of a compromised key at once. The procedure of
`src/docs/operations.md` is three constants: `Margin`, seconds waited beyond the
wait; `Drains`, whether exchanges in flight are waited for; `FreshKids`, whether
retired names stay unused.

### RateLimiter and TokenBucket

Units make the arithmetic exact: a request costs `Cost` units and a tick adds
one. `ReadClock` and `Allow`/`Refuse` are apart because the code reads the clock
before its mutex. A late caller finds `last` in its future, subtracts, and moves
`last` back; the next one earns the time in between a second time. `latest`, the
latest time any caller brought, maps the limiter to an ideal bucket that never
goes back: its level is `tokens + latest - last`.

### Gateway and NonceStore

A handler goes through verification, denylist, proof, `Has`, consuming the
proof, consuming the nonce, record, forward; a refusal goes through `challenge`
when it carries a fresh nonce. Nonces are numbered as they are issued (they are
random in the code and never equal). `files` is what the denylist file held over
time, `None` for contents that do not load; every request reads the last one.
`known` has the nonces clients were really sent, and clients use no others.
`Restart` empties the nonce cache, and may come up without the replay log.
`NonceStore` asks one question of the same cache, its size. `issued` is the map of
the code, from nonces to their ends; which nonce a new one is does not matter, so
it is chosen. The limiter in front of the cache is there by its abstract
specification.

### Delegation

A caller's job is tried again from the user's token as long as it fails; a try
is a token of the first hop, and up to `Copies` handlers may get a request with
it. A handler exchanges, sends, is challenged, retries once. `Fault` is a budget
for lost answers, repeated requests, expired nonces and restarts. What the token
endpoint and the gateway do is taken from what is shown of them: a subject is
exchanged once, a nonce is good once.

### VisorSession

`Answers` is what may come back: the mapping of an honest identity-only gateway,
what a proxying gateway leaves of a backend's answer (`StripBackendMapping`), or
anything at all. `Accepted` is the sequence of checks of `fetchMapping`; `Exec`
builds the child's environment and context.

### AuditLog and Trace

`file` is what each write left, with its shape: a whole line, a record without
its newline, or less than a record. A hash is modelled by what it covers, which
makes it injective. `acked` is the history of writes whose `Append` returned
nil. Calls are serialized by one mutex, so at most one write is unsynced.
`Journal` has only the events, in order, and which of them were acknowledged: the
latest may be, once, and only what follows the last of them can be lost.
`Trace` begins where `AuditLog` ends, with two intact logs, and adds the lines of
mcp-visor, which nobody verifies. `TraceOf` is a lookup: `Reconstruction` selects,
closes over the transactions found and sorts. Before that `Trace` loads all files,
and a line of mcp-visor's that is not JSON or is longer than the scanner's buffer
(`Garbled`), like a file that cannot be opened, makes it return an error and no
record (`audit/trace.go:76`, `:183`, `:243`). So whoever can write to that log can
stop every lookup that reads it, in the model as in the code; what the properties
say is that they cannot change one. `LookupFindsAll` therefore speaks of two
lookups: by the audit logs alone, which finds every decision, and with the log of
mcp-visor, which finds as many or fails. `VisorOnlyAdds` and `ChainOrder` are about
the lookups that return a reconstruction.

### Attestation

An attestation is `Begin` (local keys are tried at once), `FetchOIDC`,
`FetchJWKS`, with `Lose` for a request that fails. `Publish` is the provider, who
may move and replace its keys between any two steps. A signature is the key that
made it, and a key fixes its algorithm.

### IdentFiles

`Walk` is the operating system's resolution of a path and `CanonicalPath` the
code's; `Check` is `RejectAliased`, `Open` opens one file after another and makes
what is missing. There are paths on which the two disagree, and the instance has
them: `l/../f`, which the code cleans to `f` before it looks at the link, and files
behind a link that is met twice, which the code takes for a loop.
`OnlyAliasesRefused` excludes them in its own words: `DotsLeaveDirs` (no path that
is given, and none in a link, leaves a link by `..`) for both of its parts, and
`LinksMetOnce` for the one that says that nothing else is refused.

## What the runs show

Seven runs pass; in `PROJECT.json` each of their properties has a mutant of the
code that breaks it.

| Run | Instance | Shows |
|---|---|---|
| `replay_cache` | 2 callers, 3 claims on 2 keys, 5 seconds, 3 writes | single use within the window, kept across crashes; the cache implements `SingleUse` |
| `sts` | part `chain`: 1 handler, 3 tokens, 5 seconds, lifetime 2; part `race`: 2 handlers, 2 proofs, one reload, failing log | chains say what happened, end, and narrow scopes; linear delegation, one proof one token, one snapshot per mint, a token and its ancestors on record before release; the exchange implements `Ledger` |
| `gateway` | parts `race` (2 handlers, 2 proofs, 3 nonces, restarts), `late` (4 seconds, proofs that share a jti), `revoke` (3 contents of the denylist file), `session` (9 tokens, some 300 mappings) | one forward per nonce and per jti, nothing forwarded without a record, a revocation binds the next request; a child is the bearer |
| `records` | parts `append` (6 writes, 4 processes), `trace` (3 user tokens, 4 decisions, 1 line of mcp-visor, which may not load), `hops` (2 jobs, 2 copies, 2 faults) | one chain that keeps what was acknowledged and implements `Journal`; lookups by the audit logs find all, in order, and a line of mcp-visor adds to them or fails them; a token moves the backend once, and a job is served in the end |
| `limits` | parts `limiter` (2 callers, 8 ticks, burst 3), `nonces` (2 requests, 3 lives of a nonce, restarts) | rate and burst in every window; the limiter implements `TokenBucket`; a bound of the nonce cache |
| `keys` | parts `ring` (3 kids, 2 key pairs, 1 exchange, 4 seconds), `attest` (3 key pairs, 5 key sets, 3 file sets, 2 URIs) | rotation drops no token; who is attested, by which key |
| `processes` | parts `reload` (2 edits, any signals), `stop` (2 requests, 2 tokens, 2 runs), `files` (300 file systems, 9 paths, two or three of them given) | signals are heeded, revocations are read after grants; the process stops, spends once, records what it answers; exclusive files, unless a path leaves a link by `..` |

### Where the code and its documents differ

Five statements that the repository makes are not what the code does; each has a
run that shows the counterexample, and a finding in `PROJECT.json`:

- `replay_race`: a claim can be granted twice, when a caller that read its clock
  in the window gets the mutex after one with a later clock has purged the key.
  `NoReplayInWindow` still holds: the window was over by the wall clock.
- `sts_scope`: scope does not only narrow. A hop whose ceiling does not meet the
  incoming scope mints an empty scope, and the next hop starts over from its own
  ceiling. `ScopeNarrowsUnlessEmptied` says what does hold.
- `gateway_workload`: a denylisted workload passes the gateway with a token
  minted before, since tokens carry no workload.
- `audit_glued`: recovery accepts a last record without its newline, and the next
  record, though acknowledged, ends up on the same line. `AckedRecordsSurvive`
  says what does hold: the bytes of both records stay.
- `serve_forced`: after a `Shutdown` that timed out, or a listener that failed,
  `serve` closes the replay log while requests are under way; `Consume` then
  grants from memory, the mint still reaches the audit log, and the next process
  grants the same token. `SpentOnceWhenDrained` says when it cannot happen.

Others came up while modelling; they can be seen by changing one constant or
leaving out one condition of a property:

- The retirement wait (`token/claims.go:136`) ends in the last second in which
  `ValidateTime` accepts a token: `keys` with `Margin = 0` violates
  `UnexpiredVerifies`. One second more is enough.
- An exchange that took its snapshot before a switch may sign with the old key
  after the operator began to wait: the same with `Drains = FALSE`.
- `publicMaterialStable` compares only kids that are in both rings, so a kid that
  was removed can return with other key material, against the comment at
  `token/keyring.go:88`: the same with `FreshKids = FALSE`.
- `boundEventString` cuts ids at 4096 bytes in a record, and a lookup compares
  whole ones: `records` with `Long = {x, y}` violates `LookupFindsAll`.
- `canonicalPath` cleans `link/../f` as text before it follows a link
  (`identfile/identfile.go:71`). Without `DotsLeaveDirs` the run `processes` finds a
  process that is given `d/f` and `l/../f`, where `l` leads to `d/s` and there is
  no `d/f` yet: `RejectAliased` accepts them, and both flags open `d/f`, against
  the comment at `identfile/identfile.go:18`. It also finds `f` and `l/../f`
  refused, which are two files.
- `resolvePath` takes a link that it meets twice for a loop (`:87`). Without
  `LinksMetOnce` the run finds two files refused because a link on the way to one
  goes through a link that its path has gone through before.
- A single line of mcp-visor that does not load makes `trace -visor` return
  nothing (`audit/trace.go:76`), where `src/docs/runbooks.md:37` says that a query
  returns every verified record: with `out.err` left out of `LookupFindsAll` the run
  `records` finds it. Without `-visor` the lookup is complete.
- An operator who replaces a registry and a denylist while a reload reads gets a
  pair that was never on the disk, until the next SIGHUP
  (`sts/reload.go:49`). `DenylistKeepsUp` says what holds: the direction is safe.
- `exchange` spends the subject before it looks for a confirmation key
  (`sts/sts.go:350` and `:362`): a request denied with `missing_cnf` has spent
  its token, though `src/harness/invariants.md:78` speaks of the first successful
  exchange.

### The bounds and why they are enough

The faults of these protocols need few actors: two handlers for a race on one
token, nonce or key, a third adds only a loser. Two hops are the shortest chain
with a past actor; `sts` goes to three, so that `actchain` and nested `act` differ
in order and the depth cap of one agent is met. The clock covers every window in
use with its skew (skew 1, lifetimes and proofs of 1 or 2) and at least one second
past its end, where each race or restart needs it; parts whose question does not
involve time stand still at second 1. Three writes let a replay log hold a record,
a later record of the same key, and a torn one; six writes and four processes let
the audit log recover from every pair of failures in a row and go on. `MaxNonces`
3 is one nonce more than a request and its successor use. Two runs of a process
are one restart, which is where a lost record shows; two edits during a reload are
the fewest that mix documents, and no more of them can be told apart by the pair
properties. With three kids over two key pairs one can be preloaded while one is
active and one waits. Two faults in `Delegation` let one hurt the try that the
other caused. The limiter's eight ticks are twice the time it takes to fill, with
a caller that is late by all of it. The bound in `CacheBounded` is exact for the
instance: with one less it is violated; `MCNonce` has one nonce more than it, so that
a cache beyond the bound would be seen. `NonceTime` is three lives of a nonce.

Some runs stop when a bound is reached (no token or nonce is left), and a file
that does not decode really keeps the process down; these configurations turn the
deadlock check off and say why.

### Fairness

`Delegation`: weak fairness of every caller's and every handler's steps; they are
goroutines that nothing blocks, and every request of theirs has a time limit, so
that it is answered or fails. No fairness makes a fault happen or not happen; a
budget bounds them. `EventuallyServed` rests on the caller trying again, which is
the documentation's advice (`src/docs/operations.md`, Replay), not code.

`Serve`: weak fairness of the main goroutine, and strong fairness of the select's
case for a done context, since Go's select chooses among ready cases at random
and a stream of SIGHUPs keeps another case ready again and again. Requests, the
operator and signals have no fairness: `StopsInTheEnd` holds with requests that
never end.

The other specifications state none; their properties are about safety.

## What is proved

`ReplayCacheProofs`, for every set of callers, keys and claims, and every bound:
types, `NoReplayInWindow`, `OpenGrantsSurvive`, `MapMatchesFile`, and that the
cache implements `SingleUse`. `NoReplayInWindow` is not inductive: it says
nothing of how a grant is remembered. `IInv` adds that the record of the call
holding the mutex ends the file and conflicts with no open grant (`WriterReady`),
that every open grant is in the map and among the synced writes with no later
write of its key (`OpenGrantsKept`, which is what recovery needs, since it keeps
the last record of a key), that no clock is in the future and that only a running
process has callers. The assumption is that of the module, `ReplayCacheAssumption`.

`STSProofs`, for any clients, handlers, documents, proofs, reloads and restarts, and
any lifetime and skew: types, all the safety properties of the run `sts`, and that
the exchange implements `Ledger`. The
assumption is `STSAssumption`: what the documents and the tokens of the identity
provider are made of, and that no identity provider calls itself `sts`. It is
proved above `SingleUse`, which `ReplayCacheProofs` shows the cache to implement.
The inductive invariant:

- `TokenInv`: of every token its lineage, the document that allowed it, its history,
  its end and the scopes along its line. These are carried as invariants, token by
  token from its parent, where a paper proof would use induction on the chain. Nothing
  that happens later changes them (`TokensStay`), since tokens and documents only
  grow.
- `RequestInv`: a handler that has decided holds a request that its own snapshot
  allows at its own clock, and a token that is out: the code uses after the replay
  cache what it read before it.
- `UseInv`, once for proofs and once for subjects: every claim that a handler holds
  or that a token was made with has a grant, and every two of one key were granted
  a window apart. A token is what a handler held, so the mint moves a claim and
  makes none; a handler that fails drops one. `LinearDelegation` and
  `ProofBindsOnce` are its two instances.
- `KeyInv`: a token made with a proof is bound to the key of that proof.
- `ClockInv`: a handler spent its subject no earlier than it decided, which is when
  its token will say that it began.
- `AuditInv`: what a handler is about to answer with is on record. Since a parent was
  released before it was exchanged (`TokenInv`), so is all that a released token
  descends from.

`ImplementsLedger` puts these together. An exchange is some ten steps of a handler
with others in between; for the ledger its mint is the one step that adds an entry,
the audit append the one that records it, the answer the one that releases it, and
all others are stutters. At the mint the lemmas `FirstHop` and `NextHop` show that
what was checked by an older snapshot and clock is what the ledger asks now: the
parent is released, it was meant for the agent and valid when the token begins, and
(`UseInv`) no other entry was made from it while it was valid.

`AuditLogProofs`, for every set of events and any number of writes and processes:
types, `OwnChainVerifies`, `AckedRecordsSurvive`, `PhantomsBounded`, and that the
logger implements `Journal`. The
inductive invariant adds that a logger that is not poisoned stands at the end of
the file (`AtTheEnd`), so that what it writes next links; that a write under way
is the last record and not acknowledged (`InFlight`); and that a healthy logger
has left no phantom of its own (`OneEach`), so that a process adds one at most
when it fails or dies. Poisoning is what keeps `AtTheEnd` true after a failed
sync. The assumption is `AuditLogAssumption`. The lemma `Cut` is about the file
after a crash: a prefix of a chain, with or without the beginning of its next
record, is a chain. With it `ImplementsJournal` shows that a crash is a loss that the
journal allows: nothing from the first acknowledged event to the last is lost.

`HashesPinHistory` says what the chain is for: in any two chains that verify,
records of one hash are at the same place and have the same events before them, so
who keeps the hash of one record can tell every change of what came before it. That
the hash of one record is injective is assumed; that it pins a history of any length
is shown by least counterexample, from the library's theorem that `<` on the naturals
is well-founded.

`RecordsProofs` goes on from there, for any user's tokens, logs and lines of
mcp-visor, and any jobs, copies and faults. Its lemmas `Ranks` and `SortedPlaces`
are about sorting: where elements are told apart by a strict total order, counting
what comes before each of them numbers them from 1, so `Sorted` has every picked
record once and in order. `RecordsInv` says of a log that its records are numbered
by their place, in the order of their times, with the bounded ids of what they
are about (`LogsInv`), and of the handlers of the hops that a subject token is held
by one at a time and has not moved the backend while it is (`HopsInv`). From it:

- `LookupFindsAll`, if no id is longer than what a record keeps of it
  (`Ids \cap Long = {}`, the hypothesis of `LookupsComplete`; with a longer one it
  is false, see above). The lemma `Fails` says which lookups return an error: those,
  and only those, that read a line that does not load;
- `VisorOnlyAdds`: where every line loads, what is picked of the audit logs, and its
  order, is the same with and without the unverified lines. A stable sort needs
  this to be shown: the place of a record depends on all others;
- `ChainOrder`, since time goes with the index within a log;
- `ServedOnce`.

The assumption is `RecordsAssumption`, on what a user's token and a line are.

`ServeProofs`, for any documents, edits, signals, requests and number of runs:
`DenylistKeepsUp`, `AnsweredIsRecorded` and `SpentOnceWhenDrained`. The assumption
is `ServeAssumption`. The inductive invariant adds that files only grow newer
(`FilesInv`), that what a reload has read keeps up when there is nothing left to
read (`DenylistInv`: the denylist is read last), that a request past its record
has one in the log of this run (`RecordInv`), and for the last property
(`SpentInv`), as long as no files were closed under requests, that there are
requests only while both files are open, that the process knows all that is in the
replay log, and that no two requests and no request and an answer have consumed
one subject. Before it, the lemma `Steps` says what each step does to the process;
the proofs of the parts go by it.

`RateLimiterProofs`, for any number of callers in any order, any burst and rate:
types, `WindowBounded`, and that the limiter implements `TokenBucket`. The bound
on a window says nothing of the bucket; the inductive invariant adds that what a
window has granted, together with the level the ideal bucket would have now, is
covered by the burst and the time since the window opened. The level counts
`latest - last`, which is what a late caller takes out and the next one puts back.
The assumption is `LimiterAssumption`.

Then `CacheBounded`, for any burst, life of a nonce and finite number of requests
under way (`LimitsAssumption`). A nonce may be added by a clock that is late by any
amount, so neither the wall clock nor the clock of the last nonce bounds what is in
the cache. The inductive invariant counts by the clocks that nonces were issued by:
`Windows` bounds, for every window of such clocks, the nonces in the cache
and those that may still come, by a burst, the window and the requests under way;
`Collected` says that for the latest of these clocks, whose nonce collected all
that had ended, the whole cache is within the bound of one life.

`KeyringProofs`, for any kids, keys, lifetimes and number of exchanges: types,
and `UnexpiredVerifies`. That a kid has named one key only (`KidIsAKey`, a part of
the invariant) is what `FreshKids` asks of the operator and nothing that the code
enforces.
The assumption `CarefulOperator` is that of the run: `Margin` of one second or
more, `Drains` and `FreshKids`. Without any of the three TLC finds a
counterexample. The inductive invariant adds that the active kid of a snapshot in
flight is still published or burned, that no wait has begun for it, and that a
token of a kid that is waited for ends before the wait does.

And for any files, key sets, tokens and moves of a provider: `OnlyLiveKeys` and
`ThroughoutAttested`. `KeysAssumption` says what key sets are made of;
`NamesAssumption` is the one that matters, that keys of one name differ in their
algorithms: without it `selectKey` takes the first of them and refuses who
signed with the second. The lemmas are about `SelectKey` (what it returns is of
the set; the one key of its name and algorithm is returned) and `MergeJWKS` (of the
keys of one name the last is kept, and no two of one name). The invariant says that
what an attestation was told was published since it began.

`GatewayProofs`, for any clients, handlers, nonces, contents of the denylist file
and restarts: types, `NonceBacksOneForward`, `ProofBacksOneForward`,
`RevocationBindsNextRequest` and `ForwardedIsRecorded`. The assumption is
`GatewayAssumption`. The four say what was forwarded; the inductive invariant says
of every handler on its way there what it will be forwarded with:

- `RequestInv`: a handler past verification has a request, one past its proof has
  a proof.
- `NonceInv`: a nonce that was spent is gone from the cache for good, since nonces
  are numbered and none is issued twice. So no handler that has spent one shares it
  with another handler or with a request that was forwarded.
- `RecordInv`: what was forwarded is on record, and so is the decision of a handler
  that is past its record. That each has a record of its own then follows from
  `NonceInv`: no two decisions are equal.
- `DenylistInv`: a handler that is past the denylist was cleared by contents the
  file held when its request came or later; files only grow.
- `ProofInv`: unless the replay log was lost, every two requests that are
  forwarded or have spent their proof have two different grants (`Apart`), even
  when they present the same proof; and two grants of one jti are a window apart
  (`WindowsInv`, from `Replay!Grant`). Counting grants instead would need bags.

For any session in front of it, whatever its token, flags and environment and
whatever mappings answer: `ChildIsBearer` and `HonestAccepted`
(`SessionsAssumption`: a mapping decodes to a context with all its fields, and no
agent has an empty short name). `SessionInv` carries what was checked past the steps
that follow: the flags, and that the mapping did not come through a proxy and
agrees with the token. That agreement fixes the whole context (`AgreedContext`) is why
it is enough to check the answer field by field; that no answer of a backend
survives `StripBackendMapping` as a mapping is `StrippedRefused`.

## What is only model-checked

`OnlyAliasesRefused`: `IdentFiles` walks paths with RECURSIVE operators, which
recur on paths and on the links that they meet, and those keep the SMT solver out of
a module. And the liveness properties, which are out
of TLAPS's reach: `SignalHeeded`, `StopsInTheEnd` and `EventuallyServed`. The type invariants of the
cache and of the logger are proved, and no run repeats them. The
properties of the five runs that expect a violation are not theorems, of course.

## What the models assume

- The wall clock does not go back, and all parts of one process read the same.
  (Records are sorted by their timestamps first, so a clock that was set back
  between two records of one log would break `ChainOrder`.)
  A clock read before a mutex and used under it is kept apart from the wall clock
  (`clock` in `ReplayCache`, `STS` and `Gateway`), except where a nonce is issued.
- Signatures, hashes and nonces are ideal: a token or a proof is what it claims,
  or is refused.
- A replay log and an audit log are configured, as the commands require, and no
  other process writes to them.
- A sync that returns nil reached the disk; one that fails may have written
  anything that was pending; writes reach the disk in order.
- Document files are replaced as a whole.

## What is not modelled, and why

- Strict JSON (`jsonutil/`), formats of documents, headers and claims, limits on
  their size, the wording of answers: pure parsing, without state, better tested.
  Where a conversion matters to a property it is modelled by what it does: the
  cut of long ids in records, the sorting of records, nested `act` against
  `actchain`.
- Cryptography: signatures, hashes, thumbprints and random numbers are ideal. Of
  `token/jws.go` only the choice of the key is modelled.
- Key files (`token/keys.go`), TLS, the HTTP server, metrics, health endpoints and
  logging: input and output without decisions.
- The `purp` claim and the optional claims that are copied without a check.
- The sealed context of a child process (`visoradapter/actor.go`): an encoding.
- The commands other than `serve` and `visor-session`, and the scenario of
  `src/scenario/`: they call what is modelled, once and in a line.
- Two processes on one replay or audit log: each process keeps its map, or its hash
  tip, in memory, and nothing in the code is meant to share them.
- A wall clock that is set back.

## Plan

Written first and in this order: the replay cache, since everything is composed
with it; the exchange; the audit log; the gateway; the rest of the process
(reload, signing ring, limiter); the clients; attestation and files; and with
each module its properties, then their proofs, for the compositions too; and last
what the exchange and the log are to those who rely on them, as the abstract
specifications `Ledger` and `Journal`. What could come next:

- `Delegation` composed with `Ledger` instead of with what is shown of the exchange.
- `Trace` over any log that `AuditLog` can leave. It decodes and verifies as recovery
  does, so a file that keeps the next process down keeps it from reading, too.

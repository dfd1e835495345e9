# termux-mcp-edge: a TLA+ development

termux-mcp-edge is an MCP server for Android/Termux: an HTTP transport with
sessions, a set of read-only filesystem and device tools, and a few tools that
change something.  Those run only with a *capability grant*: a signed, short
lived token that names one session and one operation and may be used once.

This directory models the server from its start-up to the answers of its tools,
with most detail where mistakes are hard to see in a test: what happens between
the arrival of a request and its answer, when timers fire, clients disconnect,
clocks jump, several servers share one process, several processes share one
directory, other programs rename and rewrite files, child processes hang,
system calls fail and processes are killed.  Paths below are relative to the repository.

## 1. Inventory

| Component | State it keeps | Operations | Hard behaviour | What makes it correct | Status |
|---|---|---|---|---|---|
| Grant replay registry and the grant authorities (`src/grant_replay.rs`, `src/*_grant.rs`) | process-global: namespaces, per namespace a capacity, the last observed clock and the spent grants with their expiry | `resolve` (construct an authority), `consume` | wall clock may jump; the clock is read before the lock; the registry forgets on restart; bounded tables | a grant authorizes one mutation at most; denials do not spend; bounded memory | `GrantReplay` |
| Live mutation protocol (`src/mcp_transport.rs`, `src/request_limits.rs`, lock in `src/tools/filesystem.rs`) | request and worker semaphores per server, one atomic commit cell per request, the publication lock and its poison, audit counters | arrive, deny, spawn, time out, prepare, lock, revalidate, claim, consume, publish, audit, respond | futures dropped at any await, blocking threads nobody can stop, retries with the same grant, panics | cancelled requests are clean, one publication per grant, truthful answers and audit, exact permits, everything ends | `MutationCommit`, `AtomicMutation` |
| Filesystem publication (`src/tools/filesystem.rs`) | public names, two quarantine directories with advisory locks, staged files, cleanup guards | create directory, copy, trash, write: prepare, revalidate, stage, rename/exchange, verify, clean up | other processes, writers that honour no lock, kills, failing calls, full quarantines | nothing is lost, no partial file is visible, success means recoverable, quarantines bounded | `FilesystemPublication` |
| Session store and SSE replay (`src/mcp_session.rs`, handlers in `src/mcp_transport.rs`) | sessions with phase, last activity, retained event streams and a byte account | create, phase, activate, terminate, record, replay | a request uses the store twice with a tool call in between; clock readings taken before the lock; eviction | no early expiry, no resurrection, exact accounts, isolation between sessions | `SessionStore` |
| Bounded processes, command lane, rish lane (`src/bounded_process.rs`, `command_execution.rs`, `rish_backend.rs`, `android_provider.rs`) | lane permits, child and process group, two pipes, deadlines, a sealed copy of the rish DEX | admit, validate, spawn, supervise, kill, reap | everything is ready at once; the caller's future is dropped while the child runs; the DEX is edited while it is checked | every child is reaped, lanes are bounded, only the expected DEX runs, verdicts are earned | `ProcessLanes` |
| Android volume control (`src/android_volume_control.rs`, `android_volume.rs`) | one lane, the previous level, the device | preview, prepare, consume, set, verify, roll back | rollback is detached; a failed command may act later; the user turns the volume too | the reported outcome is true of the device, every change ends and is recorded | `VolumeControl` |
| Request checks, sessions and tool dispatch (`src/mcp_transport.rs`, `json_rpc.rs`, `request_limits.rs`) | the server's configuration | legacy and stateless POST, GET, DELETE, the tool handlers, the catalogue | the order of some thirty early returns; two protocols over the same handlers | no handler before all gates, one audit record, catalogue and handlers agree | `McpRequests`, `ToolCalls`, `Server` |
| Authentication, host and origin (`src/auth.rs`, `transport_security.rs`) | principal | decisions on headers | unauthenticated mode and bind address | fail closed | `McpRequests` |
| Grant tokens and issuance (`src/capability_token.rs`, `src/*_grant.rs`, issuer in `src/main.rs`) | none | encode, sign, parse, verify, bind | five families under one key; issuer and server see the files at different times | a grant fits one family, principal, session and target | `GrantTokens`, `Server` |
| Configuration and start-up (`src/config.rs`, `main.rs`, `tools/mod.rs`) | none after start | load, validate, build the router | gates that need features, keys and each other | only consistent postures serve | `Configuration`, `Server` |
| Read tools and safe roots (`src/tools/filesystem.rs`) | pinned root descriptors, a traversal, a page | list, metadata, find, search, read, range, hash | another program relinks between `stat` and `open` and truncates between two `fstat`s; a dozen ceilings | nothing outside the roots or in a quarantine is told, complete unless truncated, pages assemble | `Encodings`, `ReadTools` |
| Battery, status, provider reads | none | collect and parse | external output | - | handlers in `ToolCalls`, processes in `ProcessLanes`; battery parsing is not modelled |
| Audit counters (`src/audit.rs`) | saturating counters | record | recorded twice or never on a drop | one record per call | records per request in `MutationCommit`, `VolumeControl`, `Server` |
| Deployment and release scripts (`scripts/`) | links, services, release assets | activate, roll back, publish | partial failure | - | not modelled |
| Shizuku bridge (`android/`) | none the server uses | parcel codecs | - | - | not modelled |

How they interact: `handle_mcp_request` runs inside the request limits, asks
the session store for the session, calls a tool handler, and goes back to the
store to record the response for resumption.  A handler of a live mutation
spawns a blocking worker; the worker prepares descriptors, takes the
publication lock, revalidates, claims the commit cell, consumes the grant from
the replay registry and publishes.  Other handlers start a supervised process
or walk the pinned roots.  The modules meet at these points: the "admit" of
`GrantReplay` is the validated session of `SessionStore`; the one-shot
`ConsumeGrant` of `MutationCommit` and `Authorize` of `VolumeControl` are what
`GrantReplay` establishes; `Prepare`, `Revalidate` and `Publish` of
`MutationCommit` stand for what `FilesystemPublication` does call by call; the
two commands of `VolumeControl` run on a lane of `ProcessLanes`.  `Server`
composes the rest: it extends `ToolCalls`, `McpRequests`, `Configuration` and
`GrantTokens`, in which every request passes all layers and each mutation is a
single step, and follows sessions, grants, files and restarts around them.
Session ids are fresh random numbers, so that `GrantReplay` and `Server` never
hand one out twice.

`PROJECT.json` lists every hazard with its line and the properties that would
catch it.

## 2. Modules

`PROJECT.json` maps each definition to its lines.

**GrantReplay.**  A grant is `[namespace, session, target, issued, expires]`:
the byte layout, the HMAC and the digests are abstracted to what they bind
(`BindingMatches`).  `Construct` is the construction of an authority: it
resolves the namespace, with the registry's two refusals (full, other
capacity).  A call is two steps, because the clock is an *argument* of
`consume`: `ReadClock`, then `Consume`, the critical section, with the checks
in the order of the code (`Verdict`) and the same effects on each path: a
rollback changes nothing, other denials advance the observed time, and only a
grant inside its window prunes.  `Restart` empties what is in memory; grants
and used session ids survive.  `ClockJump` sets the wall clock to anything.
The unavailable clock and a poisoned registry mutex deny before any effect and
are left out.

**MutationCommit.**  One action per step of the async task (`Arrive`, `Deny`,
`NoWorker`, `SpawnWorker`, `DropWaiter`, `Respond`) and of the worker
(`Prepare`, `Acquire`, `Revalidate`, `Claim`, `ConsumeGrant`, `Publish`,
`Audit`, `ReturnWorker`, `Panic`).  The four handlers have the same structure;
what differs is below the level of this module.  `commit` is the `AtomicU8` of
the two guards; `Cancelled` and `Claim` are its two compare-exchanges.
`Panic` describes builds that unwind (tests, embedders); the release profile
aborts, which is the kill of `FilesystemPublication` and the restart of
`GrantReplay`.  The branch "success response too large" after a live mutation
is unreachable (the same response is sized before the worker is spawned) and
left out.

**AtomicMutation** is the promise to a client: a request is void, or it commits
by spending a grant nobody spent, and then succeeds or fails.

**SessionStore.**  A request is `Start` (reads the clock), `CreateSession` or
`Validate` (first store operation), possibly `ReadClock` and a second
operation: `RecordSse`, `Resume`, `Activate` or `Terminate`.  An event is its
stream and index; its size decides eviction through `WireLen` and `Recorded`,
which evicts with the code's loop condition.  `history` records every response
of a session, also those no longer retained, so that what eviction may remove
can be stated.  `Tick` bounds how long an
operation may sit between its clock reading and the lock (`LockDelay`) and how
long a tool may run (`RequestTimeout`); both are below the idle timeout, as the
configuration ensures (a request timeout is at most 300 s, the idle timeout is
30 min).  The poisoned store mutex is left out: no operation panics under it as
long as `StoreBounded` holds.

**FilesystemPublication.**  One directory, its two quarantines, and the four
operations from `Prepare` to the last cleanup.  An inode has contents, so that
`Identity` tells apart what `fstat` does (inode and ctime).  `retained` is the
inode an operation moved to its quarantine, and `TargetLocked` the advisory lock
a trash takes on its target, which a second trash of the same inode finds held.
Each action that makes a system call has a failing alternative.  Files
have one name at the start (`LinkAssumption`): `copy_file`, `trash_file` and
`write_file` refuse a file with more links.  `OutsideWrite` is a writer that
honours no lock, `Kill` the end of a process at any point.  Quarantines are
counted in artifacts (`HasRoom`); byte limits, foreign kinds of objects inside
a quarantine and lost directory entries after a power failure are left out.

**ProcessLanes.**  Per call a caller's future, a supervisor task, for rish a
blocking validation, and a process group: a leader and a descendant that keeps
the pipes open.  `Poll` takes the first ready event in the order of the biased
select (`Precedence`), since several may be ready at once.  Who holds the permit
differs by lane: the caller's future for commands, the validation and then the
supervisor for rish, nobody for provider reads.  Time is the age of a child.
Output is `CaptureClasses`; a process that leaves its group and recycled
process ids are left out.

**VolumeControl.**  The handler (`Call`, `Preview`, `PrepareMutation`,
`Authorize`, `Respond`, `DropWaiter`) and the detached task (`SetLevel`,
`Verify`, `Restore`, `Confirm`, `TaskLost`).  A set command may fail before or
after its effect or act later (`LateEffect`); the report is a sequence of
entries that may be garbled, and `ParseVolumeStatus` is the strict parser.

**GrantTokens, Configuration, McpRequests, ToolCalls** hold operators: what is
signed, parsed and bound in the five families; from an environment to a server
or a refusal; the layers and early returns of each request (`First` takes a
handler's returns in the order of the code); the tool handlers, each split where
it awaits.  Header text, environment text and arguments are classes ("absent",
"valid", "invalid", ...); a digest or MAC is the tuple of what went into it.

**Server** is the state machine over these operators: `Start` and `Stop`, the
issuer, every kind of request, the end of the awaited work, timeouts, and
changes of files by others.  Clients, operator and outsiders follow a correct
course but for `MaxDeviations` deviations in a behaviour, each of which replaces
one part of a request, an environment or a grant, restarts the server, opens or
ends a session, or changes a file.  A session may be deleted while its call is
awaited; the answer then passes `MaybeSseResponse`, which replaces it when there
is no session left to record it in.  Nothing else of the session store is
repeated here: expiry during a call is excluded by `InFlightKept`, and requests
that are answered without waiting are one step, since a deletion between their
validation and their recording is explored in `SessionStore`.

**Encodings, ReadTools.**  UTF-8 validation, base64 and the query search byte by
byte; and the ten read operations system call by system call on a tree of
inodes.  A path is a sequence of names, a descriptor is the inode it holds, a
digest is the bytes that went into it.  The outsider relinks and rewrites
between any two calls but never touches a reserved (quarantine) name.  One
`read` is atomic and the fixed part of a response has size 0.  An I/O error while
a directory is read ends the call (`TraversalFails`); elsewhere errors other than
ENOENT, ELOOP and EACCES are left out.

The `MC*` modules give the constants of the instances.  The operators marked
"Mutant" in the modules are plausible faults of the code, one per property; they are
used by nothing and serve to show that each property can fail.

## 3. Runs

| Run | Instance | Checks |
|---|---|---|
| `GrantReplay` | 4 authorities in 2 namespaces (two equivalent, one with another capacity, one foreign), room for one namespace, 2 grants, 2 sessions, 2 workers, clock 0..1, lifetimes 1 and 2 with a maximum of 1 | `AtMostOnce`, `DenialLeavesUnspent`, `LiveEntriesKept` |
| `MutationCommit` | 3 requests on 2 servers, 2 grants, 2 request permits and 1 worker permit per server | `CancelledIsClean`, `OneMutationPerGrant`, `AuditedOnce`, `HonestAnswers`, `PermitsExact`, `PublicationExclusive`, and `ImplementsAtomic` (refinement) |
| `MutationCommitLive` | the same with 1 grant and 1 request permit, under fairness | `EverythingEnds` |
| `SessionTime` | 2 requests, 2 session ids, one slot, clock 0..5, idle timeout 4 | `InFlightKept`, `ExpiryNotEarly` |
| `SessionReplay` | 2 requests, 2 sessions, 3 streams of 3 sizes (one too large), 2 streams and 5 bytes per session | `StoreBounded`, `ReplayIsolated`, `NewestReplayable` |
| `PublicationShared` | 2 processes: copy and trash in one, two writes in the other; each quarantine holds 1 artifact | `NothingLost`, `RecoveryRetained`, `QuarantinesBounded` |
| `PublicationOutside` | 1 process: create directory, write, trash; two steps of a foreign writer | `PublicNeverPartial`, `RenamesLoseNothing` |
| `PublicationRace` | 1 copy, two steps of a foreign writer | `CleanupPreservesForeign` is *violated*: see section 5 |
| `ProcessLanes` | 2 calls, both on the command lane, both on the rish lane, or one provider read; 1 permit per lane; deadline 2 with a reserve of 1; DEX of 2 chunks, edited twice | `ProbesNeverOverlap`, `CommandLaneBounded`, `OnlyExpectedDexRuns`, `VerdictsEarned`, and `EveryCallEnds` under fairness |
| `VolumeControl` | 2 calls, 1 stream with levels 0 and 1, 2 grants, 1 outside change | `OutcomeTruthful`, and `EveryMutationEnds` under fairness |
| `Server` | 3 environments, 2 sessions, 6 files, 5 grant families, 2 grants, 2 effects, 2 deviations | `EffectsAuthorised`, `AuditTruthful`, `CatalogueConsistent` |
| `ReadTools` | 3 trees of 7 directories and 6 files with nested safe roots, aliases of a quarantine, links, a FIFO, unreadable inodes and, in the third, a directory displayed like a file next to it; names in every order; contents with code points of 1 to 4 bytes, cut and invalid ones; up to 2 outside moves; small ceilings | `OnlySafeDisclosed`, `CeilingsKept`, `WalkHonest`, `PagesAssemble` |

Each of `GrantReplay`, `MutationCommit`, `SessionTime`, `PublicationShared` and
`VolumeControl` also checks its module's `TypeOK`.

Why the bounds suffice.  Grant replay needs one grant, two workers with clock
readings in either order, a session that dies and one that follows; a second
grant makes pruning and capacity visible, and the clock needs one value before
and one at the expiry, since every comparison is against one of these.  The
commit protocol needs two requests that share a server and a grant, and one
elsewhere.  The session clock covers the idle timeout plus one delayed
operation.  The quarantines are full after one artifact, so each limit is hit
with two operations.  Calls of different lanes share nothing, so a lane is met
by itself: its one permit is full after one call, a deadline of 2 has an instant
before, at and after the operation budget, and one noisy child is enough because
supervisors do not look at each other.  A volume of two levels tells the
requested from the previous one, and one outside change falls between any two
steps of a task.  In `Server`, one deviation reaches each early return by itself
and two reach the order of a pair; two grants and two effects let one grant be
tried twice and one call be tried with the grant of another.  The ceilings of
`ReadTools` are set between what the first tree needs and what the second has,
so that each is met and kept below; truncated and complete answers of all three
traversals occur.  Symmetry is used for values that only differ in name.
Runs stop when everything is used up, so deadlock is not checked; that nothing
hangs is `EverythingEnds`, `EveryCallEnds` and `EveryMutationEnds`.

Fairness.  `MutationCommitLive`: a blocking thread is scheduled until its
closure returns, and the timer of `enforce_mcp_request_limits` fires whatever
the worker does.  No fairness is assumed for arrivals, responses, denials or
panics.  A worker waiting for the publication lock is only weakly fair: the
std mutex promises no order, and none is needed for a finite number of
requests.  The system calls themselves are assumed to return.
`ProcessLanes`: scheduled tasks and blocking threads run, time passes, and a
process that was sent SIGKILL dies; weak fairness of the disjunction suffices,
since each of these steps can occur only a bounded number of times.  Nothing is
assumed of what a child does by itself.  `VolumeControl`: the runtime polls a
spawned task, whose commands end by their deadlines (`EveryCallEnds`), and runs
a handler on between two awaits.

## 4. Proofs

Eight modules hold theorems, each about the module it extends and for every
value of the constants that satisfies that module's assumptions: any number of
grants, requests, servers, sessions, operations, processes, calls, trees and
outside moves.  Every invariant below is proved the same way: `Init` implies
`IInv`, one lemma per action shows that the action keeps it, and `IInv` implies
the property.  None of the properties is inductive by itself; what each `IInv`
adds is the reason the code is right.  Each was checked with TLC on the run's
instance before it was proved.

**GrantReplayProofs.**
- `ReplaySafety`: `AtMostOnce`.  `IInv` says that a grant used once is *refused*
  by its namespace as long as its session can still be presented: its entry is
  there, or the observed clock has reached its expiry, which it can never fall
  behind (`UsedGrantsRefused`).  Pruning turns the first into the second.  A
  restart loses both, but also every live session and every running call, and
  session ids are never handed out twice.
- `UnspentSafety`: `DenialLeavesUnspent`.  `EntriesKept`: the action property
  `LiveEntriesKept`, from the code's rule that only a grant inside its window
  prunes, and prunes by the observed clock.

**MutationCommitProofs.**
- `TypeCorrect`, `CancellationSafety`, `GrantPublishesOnce`, `Exclusion`,
  `AuditTrail`, `AnswersHonest`: the invariants of the commit protocol.  `IInv`
  ties the worker's position to the commit cell, the outcome, the lock and the
  audit record of the same request (`WorkerInv`, `DecisionInv`, `AnswerInv`),
  and adds that consumers of one grant are the same request.
- `PermitsSafe`: the semaphores stay within their limits for any number of
  servers and requests.  It is the one that needs cardinalities.
- `Refinement`: `MutationCommit` implements `AtomicMutation`, with the commit
  point at the consumption of the grant; every other step maps to a decision or
  to a stutter.

**SessionStoreProofs.**
- `StoreSafety`: `StoreBounded`, the byte account included.  That the account
  is the sum of the retained sizes after `Recorded` evicted from the front is an
  induction over a sequence, which is done by the least index at which the sum
  would be wrong; the eviction loop ends because one event fits
  (`BoundsAssumption`).
- `ReplaySafety`: `ReplayIsolated`, from `OwnersKept`: a retained stream is of
  the session it was recorded for.
- `NewestSafety`: `NewestReplayable`, that eviction takes no more than the limits
  ask for: a response that with all later ones of its session is within both
  limits, and the newest in any case, can be resumed from either of its events
  while the session lives.  `RetentionInvariant` gives the reason: what is
  retained is always an end of `history`, with at least the responses that are
  `WithinLimits` (`KeepsNewest`).  The step is `RecordingKeepsNewest`: as long as
  the loop of `Recorded` goes on, what is left, the new response included, is not
  within the limits, so that it never removes one that must stay.
- `InFlightSafety`: `InFlightKept`.  `last_activity` may move back, since a
  clock reading can be used after a later one was stored, but by `LockDelay` at
  most (`ActivityRecent`); a request in flight stays below the idle timeout
  because `RequestTimeout + 2 * LockDelay < IdleTimeout` (`TimingAssumption`,
  implied by the bounds of `config.rs`).
- `ExpirySafety`: the action property `ExpiryNotEarly`, from the same.

**FilesystemPublicationProofs.**
- `QuarantineSafety`, `PublicationSafety`, `RecoverySafety`: for any number of
  processes and operations, with failures, kills and foreign writers.  `IInv`
  says that every inode in use has one place (`Placed`), that what an operation
  staged is hidden, its own and complete before it is renamed (`StagingKept`),
  that what is retained stays (`RetentionKept`), and that the quarantine's lock
  is held and its room still there (`LockKept`).
- `RenameSafety`: the action property `RenamesLoseNothing`.
- `CleanupSafety`: `NothingLost` when `MaxOutside = 0`, that is, when every
  writer is one of these servers: a cleanup removes what its operation staged.
  It needs a second invariant, `CleanupInv`: the name a copy published holds its
  file, or is free, or a directory took its place, as long as the copy may clean
  up, because the lock of the write quarantine keeps other files away.  Without
  the hypothesis it is false (`PublicationRace`).

**ProcessLanesProofs.**
- `TypeCorrect`, `ProbeExclusion`, `CommandLaneSafety`, `DexIntegrity` and
  `VerdictSafety`, for every number of calls, permits and chunks of the DEX.  `IInv` says for each
  await what the future stands on (`FutureInv`), that a validation owns the
  permit and that only the expected bytes pass the seals (`CheckInv`), and who
  holds the permit while there is a child (`SupervisorInv`).  An empty DEX is
  excluded (`Chunks >= 1`): `rish_backend.rs` refuses it.

**VolumeControlProofs.**
- `OutcomeSafety`: `OutcomeTruthful`.  `IInv` ties the lane's permit to the one
  operation that is in progress and each consumed grant to one call.

**ReadToolsProofs.**
- `DisclosureSafety`: `OnlySafeDisclosed`, for every tree, every call and every
  sequence of outside moves.  `IInv` says that each descriptor, queued
  directory, candidate and match is of an inode that is not private
  (`DescriptorSafe`, `WalkSafe`).  `Private` is what the safe roots do not hold
  and what is in a quarantine; `Confined` says that a directory which is not
  private leads to a private inode only by a quarantine's name or by another
  name of a quarantine next to it, which is what `stat_matches_runtime_quarantine`
  looks for.  `ScenariosAssumption` says that the initial trees are like this and
  that the outsider leaves it so: he may move anything but what is private.
  That opening by name then never leaves the roots rests on `O_NOFOLLOW` and on
  the anchor's refusal of `..` and of reserved names (`AnchorFacts`).
- `PagesInOrder`: `PagesAssemble`, for every file, first offset, length and
  number of pages.  `PInv` says where on the trail of the path's names a call of
  a tree nobody touched stands (`OnTrail`), and that what the client has are the
  bytes from the first offset to the next one, a boundary between two code
  points if the file is read as text (`Assembled`).  A page that ends elsewhere
  is cut at the last boundary, which leaves something because a code point has
  four bytes at most and a text range at least four (`MIN_TEXT_RANGE_BYTES`).
  That a page is the last exactly if it reaches the end of a file that changes
  needs no invariant about earlier pages: it is decided by the second `fstat`.
- `CeilingsHold`: `CeilingsKept`, whatever is relinked meanwhile.  `CInv` holds
  the account of `list_directory` (`used`) against the bytes of what it found
  and of what it still keeps, commas included (`ListHeld`); the ceilings of the
  other two are met one entry at a time.
- `WalksHonest`: `WalkHonest`, for every tree, depth and query and for every
  choice of ceilings, in a tree nobody touches.  `WInv` says that everything the call
  asks for is in the answer, or below a queued directory, or at or below a name
  of the directory that is being read or processed (`Covered`), and that nothing
  else is in the answer.  The argument is by paths and not by directories: an
  inode that has two names is walked twice, and `Expected` is defined by the
  paths of the call's depth that lead to something (`Reachable`).  Each way of
  dropping something (a ceiling, a file too large for what is left, a trimmed
  answer) sets `truncated`, after which nothing is claimed of what is missing.

The three rest on facts about the operators: what UTF-8 validation says of the
parts of a text and of a text cut in a code point, that base64 can be decoded
and gives the bytes back, that the number of bytes of a set of entries adds up,
and that `PopUntilFits` keeps the beginning of a set.  The library's induction
theorems take an operator as a parameter; induction is done by least
counterexamples instead (`LeastNatural`, `UpToBound`, from the theorem that a
well-founded relation has minimal elements), and `Recursion` gives the values of
a function defined by recursion.  What they assume of the constants: ceilings
are natural numbers, `MAX_DEPTH > 0` (the three depths are 5 and `clamp(1, ...)`
needs it), names have an order (`DisplayAssumption`), and a quarantine's name
leads to a private directory or to nothing (`Confined`).

**ServerProofs.**
- `EffectSafety`: `EffectsAuthorised`, for any number of grants and effects and
  every sequence of requests, issuances, file changes and restarts with another
  environment.  `IInv` says that every token is what its operator's authority
  signs for the operation he meant (`TokenSound`), that an authority of the
  server is that of its principal (`AuthoritySound`), that a live call which is
  awaited came from this principal in an active session (`PendingSound`), and
  that a used grant is in the replay registry or bound to a session that is over
  and has no call awaited (`EffectRefused`), which is why a restart may empty
  the registry.  `GrantNames` names the grants a client can present; the proof
  uses nothing about the names, not even that they differ.
- The lemma that carries it is `ConsumedAsIssued`: a token which one authority
  consumes was issued by one of the same family, key and principal, for the same
  session, target and file identity.  Digests and MACs are injective in the
  model (a digest is the tuple it is taken of); that the tuples of two families
  or two operations are never equal is proved.  `RouteFacts` and `CallFacts`
  follow a request through every layer of `McpRequests` and `ToolCalls`: only
  one that was authenticated, with an active session and an authority for its
  tool, is handed to a worker.
- `AuditSafety`: `AuditTruthful`.  The invariant it needs (`AuditInv`) is that
  the answer of a live call was found to fit with the caller's id *before* its
  worker started, or that only a refusal of its path can come back: once the
  worker has recorded the mutation as allowed, an answer that does not fit would
  add a second record (`LiveDone`).  It also says that the session of an awaited
  call existed when the call came, so that `MaybeSseResponse` can replace a
  recorded success only because the session ended meanwhile (`AnswerLost`, the
  exception that `AuditTruthful` names).
- `CatalogueSafety`: `CatalogueConsistent`.  `CatalogueInv` says that the gates
  that are open are compiled in, from `AppConfig::load` and the checks of
  `McpRouterBuilder` (`ServingFacts`, for every environment and not only those
  the run enumerates); `FineCalls` then computes what each handler does with a
  request that nothing else refuses.

Only model-checked: `EverythingEnds`, `EveryCallEnds` and `EveryMutationEnds`,
since liveness under fairness and ENABLED are outside the prover.  Every
invariant and every action property of a passing run is proved.  No module uses
a RECURSIVE operator.

## 5. What the checks show

Everything the code promises about grants, cancellation, permits and recovery
holds in the instances, and the core of it for all instances.  Some results are
worth knowing:

- A mutation that fails after its rename (verification or sync) answers with an
  error although the change may be visible, and its grant is spent.
  `HonestAnswers` states what a client may conclude from each answer.
- `docs/COPY_FILE_CAPABILITY_GRANTS.md:115` says that the cleanup of a failed
  copy removes only the exact inode it staged and preserves substitutes.
  `DescriptorCopiedFileCleanup::drop` compares with `statat` and removes with a
  separate `unlinkat`; `PublicationRace` has a foreign file renamed onto the
  published name between the two calls, and it is removed.  Among cooperating
  servers this cannot happen (`NothingLost` in `PublicationShared`).
- `NothingLost` does not say that a cleanup removes the very inode it staged when
  that is a directory.  `DescriptorDirectoryCleanup::drop` compares and removes
  in two calls, and no quarantine lock guards `create_directory`: while one
  process is between the two calls, others may trash its directory and make an
  empty one of the same name, which is then removed.  It takes two processes and
  five operations on one name (a write, two trashes and two creations), more than
  an instance can hold; the attempt to prove the stronger form showed it.
  Nothing but an empty directory can be lost this way, since the removal is an
  `rmdir`.
- With SSE on, a session deleted while its call is awaited turns the finished
  answer into `session_not_found` (`maybe_sse_response`), also for a mutation that
  is done and recorded as allowed.  `AuditTruthful` states this as the only way in
  which a recorded success is not answered as one (`AnswerLost`), and the run
  meets it, with and without an effect.
- `OutcomeTruthful` speaks of a volume that nothing else touched: an outside
  change and a helper of the server itself that acts after its supervisor gave up
  (`LateEffect`) are both excepted.
- The permit of the command lane lives in the caller's future.  When the future
  is dropped, the permit is free while the supervisor still kills the child, so
  that for a moment more children than permits may exist.  `CommandLaneBounded`
  therefore counts the children of callers that were not dropped; the rish lane
  hands its permit on and needs no such exception (`ProbesNeverOverlap`).
- When the byte budget of `list_directory` binds, which entries are returned
  depends on the order of `readdir`, although the comment at
  `src/tools/filesystem.rs:1447` calls the subset independent of it: an entry
  dropped as the largest name does not come back when a later insertion drops
  another.  With sizes a:9, b:5, c:1 and a budget of 10, reading a, b, c leaves
  {a, c} and reading c, b, a leaves {a}.  The answer is flagged as truncated
  either way, and `WalkHonest` holds.
- Two names that are no UTF-8 may be displayed alike.  `list_directory` keys its
  candidates by what is displayed, so that only the later of the two is listed;
  if the other is a directory, its subtree is missing from an answer that is not
  flagged.  `WalkHonest` compares displayed paths, and claims that an answer of
  `list_directory` is complete only where no directory is displayed like
  something next to it (`Apart`); the third tree has one that is, and without
  the exception the run fails.
- `docs/SAFE_ROOT_TEXT_SEARCH.md:36` says that `truncated` is set whenever a
  supported input could not be fully searched.  A file that cannot be opened or
  read is counted as skipped and does not set it; `WalkHonest` claims completeness
  for the files that can be opened.
- A file truncated and grown again while a page is read can give a short page
  that is not the last.  `docs/SAFE_ROOT_TEXT_RANGES.md` promises no snapshot;
  `PagesAssemble` states what holds when the file changes.

## 6. Not modelled

The deployment, release and qualification scripts act on services, devices and
repositories outside the program.  The Shizuku bridge is not called by the
server.  Of the modelled parts: parsing of the battery report, the saturation of
audit counters, the text of headers and environment variables, constant-time
comparison, byte capacities of and foreign objects in a quarantine, power loss
between two syncs, processes that leave their process group, and recycled
process ids (cleanup signals a group by its number, also after its leader was
collected).

## 7. Plan

`FilesystemPublication`: byte capacities and foreign objects in the quarantines.

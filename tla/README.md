# A verification of Multi-Chain Wallet Tools

TLA+ models of the parts of this repository in which something can happen in more
than one order: the scheduling of requests, the messages between realms, the life of
a worker, the runs of a page. TLC checks each model on a small instance; TLAPS proves
its safety properties and refinements for every value of the constants.

The tools are four standalone HTML pages that share packages. Nothing is stored and
there is no server, so there are no crashes to recover from. What makes the code hard
is that a page keeps answering events while its own work is suspended at an `await`,
that workers are separate threads which can be stopped at any moment, that answers
arrive for questions nobody asks any more, and that secrets must be gone when their
owner is.

## Contents

1. The system: its parts, their state, their hard behaviours
2. The modules and how they correspond to the code
3. The runs: what each checks, its bounds
4. Fairness
5. What is proved
6. Disagreements with the documentation
7. What is abstracted, and what is not modelled
8. What could come next

## 1. The system

Paths are relative to `src/`. "Run" below is one press of a Start button.

| Part | State it keeps | Operations | Talks to |
| --- | --- | --- | --- |
| Request limiter (`apps/discovery-scanner/src/concurrency.ts`) | `#active`, `#waiting` | `run` with an optional signal, the abort listeners, `#release` | every coin adapter calls it before it reads the network |
| Task workers (`mapRecoveryTasks`, same file) | `nextIndex`, `failed`, `firstFailure` | take the next item, end, fail | the Scanner's controller |
| Scanner controller (`discovery-scanner/src/controller.ts`) | the run's generation, signal, reports, rows, secret guard, staged exports | Start (phrases, keys, candidates), Cancel, Clear, `pagehide`, export | adapters, vault's network client, shell |
| Network boundary (`packages/network-boundary/src`) | client: `#pending`, `#sequence`, `#closed`; worker: `controllers` | request, cancel, receive, fail; execute, abort | two ends of a `MessagePort` |
| Boundary startup (`iframe-bootstrap.ts`, `client.ts`, `discovery-scanner/src/shell.ts`) | the shell's timer and flags, the vault's listener and client promise | deliver the channel, report a failure, ping | shell, sandboxed vault, Network Worker |
| Shielded page stream (`packages/dash-network/src/shielded-stream-policy.ts`, `activity.ts`) | the cursor over the pool, the last short page, the ledger | read a page, reread a short one, confirm the end | Dash nodes, the Scanner and the Viewer |
| Public data providers (`packages/public-data-providers/src`) | attempts, endpoints | lookups with failover and retries | HTTP |
| Deriver worker client (`apps/key-derivation/src/workers/derive-client.ts`, `packages/shared-ui/src/embedded-worker-resource.ts`) | lifecycle, queue, pending promises, seed copies, startup deadline | request, ready, terminate, the worker's messages | a disposable worker |
| Main derivation (`key-derivation/src/ui/main-derivation.ts` and the page's `controller.ts`) | revision, the job, the number in flight, the cancelled flag, the result panel | run, Cancel, every edit and choice on the page | the worker client, the derivation stream |
| Recovery panels, silent payments, BIP85 (`key-derivation/src/ui/*-feature.ts`, `recovery-panel-run.ts`, `recovery-job-gate.ts`) | one job per panel, the epoch of the source | run, revoke | workers of their own |
| Report export (`discovery-scanner/src/download-client.ts`, `shell.ts`) | the vault's resolvers and timers, the workbooks the shell builds | ask for a file, answer, time out | the sandboxed vault and the shell, by window messages |
| Address search (`discovery-scanner/src/address-gap.ts`, `address-book.ts`, `coins/bitcoin/seed.ts`) | the branch, its target, the known addresses, the findings | scan a chunk, take an answer | the providers, through the boundary |
| Activity Viewer (`apps/activity-viewer/src`) | two controllers of one page: the query, its cancellation, the results shown and on offer | look up, scan, cancel, clear, export | providers, the page stream |
| PSBT Inspector (`apps/psbt-inspector/src`) | forms, a BIP38 batch | decode | - |
| Wallet recovery (`packages/wallet-recovery/src`) | a queue of local searches | search, cancel | the Deriver's workers |
| Pure parts: `coin-protocols`, `crypto-core`, `recovery-backup`, `export-core`, `secret-boundary`, the WASM packages | none that outlives a call | derive, encode, format | - |
| Launcher, build tooling, verification | - | serve one page, build, self-test | - |

What makes each of the stateful parts correct:

* **Limiter.** Never more than `#limit` tasks in flight; no slot lost or given twice
  over hand-overs, aborted waiters and grants whose signal fires before they resume;
  first come, first served; every caller settles.
* **Runs of the Scanner.** A run that is over works on nothing and holds no secret;
  the files on offer were checked against every secret of the run; the last status
  says what happened; nothing is begun after a stop; the buttons come back.
* **Boundary calls.** Each call settles once with its own answer, a refusal, its
  signal or the failure of the boundary; a cancelled call stops working remotely.
* **Boundary startup.** Start opens only when the network works; a failure is final
  and is shown to the person, whichever realm hears of it first.
* **Page stream.** A scan that calls itself complete has read the pool of one proved
  height, although the pool grows and nodes stand at different heights.
* **Worker client.** Every promise settles whatever becomes of the worker; no seed
  copy or secret answer is kept for nobody; the worker is given up.
* **Main derivation.** What is shown belongs to the phrase on the page; a revoked run
  keeps neither seed nor worker; the buttons tell the truth; large requests are asked
  about; "complete" means all rows.

* **Report export.** The page says "exported" only of a file that was saved, and only of
  the run it shows; every request settles although the shell may never answer.
* **Address search.** A branch is read exactly as far as the gap rule asks; an address two
  paths reach is counted once; a lookup fails only when every provider did.
* **Activity Viewer.** What can be saved was found by the last query and not withdrawn since; nothing that comes after
  Cancel or Clear is shown; a batch accounts for each of its lines; the controls come back.

The hard behaviours, each at its line, are the `hazards` of `PROJECT.json`, with the
properties that would catch it.

## 2. The modules

JavaScript runs one piece of code between two awaits to its end, so **an action is
such a piece**: an event handler up to its first `await`, a continuation after one.
Workers are other threads; their handlers are actions as well, and messages on the way
are part of the state.

### RecoveryLimiter, FifoGate

`RecoveryLimiter` is `RecoveryConcurrencyLimiter`. `#acquire` is three actions (already
aborted, slot free, wait); a call owns its slot from the grant, but runs a microtask
later, and between the two its signal can fire: phase `granted`, continued by `Start` or
`StartCancelled`. `#release` is one operator with two outcomes, used by both ends of a
task. `Abort` runs all listeners of a signal at once, as a dispatch does. The array
`#waiting` is only pushed at its end, shifted and spliced, so it is represented as a
function from the calls in it to their arrival numbers, in the order of which `shift`
takes them.

`FifoGate` is what a first-come-first-served semaphore promises: no counter, no signals,
no abandoned grants. `ImplementsGate` maps "owns a slot" to `inside`.

### ShieldedStream, PoolSnapshot

`ShieldedStream` is `runShieldedPageStream` with `advanceShieldedStream`, feeding one
wallet's `ShieldedActivityLedger`. The environment is a pool that grows block by block,
nodes that answer at any height reached so far, and a node that once answers a chunk
with an empty page by mistake. One turn of the loop is one action, in the four shapes
of the policy: the answer is older than one already read (`Refused`), the last short
page has to be read again first (`Refresh`), notes are applied (`ApplyNotes`), an empty
page is counted (`ConfirmEmpty`). `requests` is a history variable of the nodes: how many
requests they have seen, whether the scan counted them or not.

`PoolSnapshot` says what the person is told: a complete report is the wallet's notes
and spends at **one** height.

### NetworkBoundary, RemoteCalls

`NetworkBoundary` is the vault's client and the Network Worker with the two directions
of the port as sequences. Identifiers are numbers that grow; a settled request is
forgotten by the client while its cancel, its execution and its late reply are still
under way. `Fail` closes the port: what the worker posts after it goes nowhere. What an
operation does is left out: it settles with an answer or a refusal.

`RemoteCalls` is the promise to a caller, without messages: each call settles once,
with its own value, a refusal, its signal or the end of the connection. The Deriver's
worker client implements the same module.

### BoundaryStartup

The three realms before the first request: the worker's script attaches, breaks or
never runs; the shell hears it, or its timer fires; the vault's frame loads meanwhile.
`Deliver` is the frame's load event. A failure the shell posts while the frame's
document is not yet listening is heard by nobody, exactly as in the browser; then the
shell's own error box is all there is. `heardFatal` is a history variable.

### ScanRun

The Scanner's runs over phrases, watch-only keys or candidate phrases. `startScan` and
`startWatchOnlyScan` differ in what a failed wallet does to the others (`SeedFails`
aborts the run, `WatchFails` does not). A task worker takes its next item in the turn in
which its task ends, so `Settle` does both. `Join` is `mapRecoveryTasks` waiting for
**all** workers, the failed ones included. `RunEnds`, `RunEndsUnsafe` and `RunStops` are the
ends of a run with the staging of the exports (`Stage`) and the finally block
(`CloseRun`). A report is only whole or incomplete. `userCancelled` and `hidden` are
history variables.

In the candidate mode (`scanCandidates`) an input is one coin of a candidate: the coins of
a candidate go on together and the next candidate begins in the turn in which the last of them
settles (`CoinSettles`), a candidate that is no phrase gets a fixed refusal and none of its
coins reads the network (`TakeCandidate`), and what was reported before a Cancel stays on
the page (`CandidatesEnd`).

### AddressScan, BitcoinLookup, BitcoinScan

`AddressScan` is `scanBranches` with the address book and the gap tracker: the branches one
after another, each in batches up to a target that a used address pushes on, only
addresses that were not asked before, findings that name every path. The gap rule itself
is stated apart from the loop (`Enough`): the least number of addresses that reaches the
minimum and goes, within the index space, the gap past every used address below it.

`BitcoinLookup` is `utxoAddresses` in the Network Worker: the batch providers in turn, then
the addresses by themselves on several lanes, each with its attempts and waits. The first
lane that gives up rejects the lookup, and the others go on.

`BitcoinScan` composes the two: `Ask` begins a lookup, `Answer` and `Refuse` take what settles of
it while the scan awaits it, `Cancel` is the run's signal and `Told` the moment at which the worker
hears of it. The slot of the request and the messages between them are those of
`RecoveryLimiter` and `NetworkBoundary`.

### ReportExport

The sandboxed vault may not download, so it posts each report to the shell and waits for an
answer under a timer. Two queues of window messages; the shell saves text at once and
builds workbooks beside the other requests, so that answers overtake one another; the
run may be cleared or replaced meanwhile, and the answer is reported only to the run that
asked. `ImplementsRemoteCalls` maps each export to a call of `RemoteCalls` that is answered
when a file was saved for it.

### DeriveClient

`DerivationWorkerClient` over `EmbeddedWorkerResource`: booting, ready, terminated; the
queue of a client whose worker is still loading; the startup deadline; a stop that is put off
until the script has loaded, because the script's address must not be revoked before.
A request carries no seed, one, or many, and `copy` follows the copies: on the page
(`live`), zeroed, or moved to the worker. `replies` is a set: the worker's handlers are
asynchronous and answer in any order. `Derivations` are the requests whose result is made of private
rows (`derive`, `multisig`), which a settled client clears when it comes late; other late
results are dropped as they are (`derive-client.ts:102`).

### MainDerivation

The runs of `MainDerivation`, the batches of the `DerivationStream`, the consent to large
requests, the timer of automatic runs, the drawing of a checked phrase, and every event
of the page's controller that revokes a run. The source (phrase, passphrase, protocol,
range) is a version number. A run suspended on a worker that is closed is rejected in a
microtask, so it resumes before the next event: `rejected` holds these runs and `Quiet`
keeps events away until they have resumed. The event that closes the worker may itself
begin the next run, whose `run()` then stands before the `finally` of the old one.

### ViewerRun

Both controllers of the Activity Viewer on their one page. A query is a single lookup
(transparent, Platform, identity, Orchard), a batch of one of four kinds, or a query of
another coin; `step` is what it awaits. A batch first lets `Concurrency` workers take the
public inputs one after another (`mapViewerBatchTasks`), then reads one Orchard pass for all of its
keys, in which a key that fails is dropped and the others go on. `stop` is what the
person pressed. `offer` and `pending` are the export session the two controllers share, a
workbook in `jobs` is built while the page goes on, and `saved` is a history
variable: what the last file held.

`batch` is what the last batch says of each line, and the query it belongs to. Its buttons stand inside
the results, and only the Dash controller takes them away: `ResetViewer` and its submissions do, while
`SubmitExternal`, `ClearExternal` and `Configure` hide the results at most. The next results of another coin bring the
buttons back, and `RenderBatchSelection` is a press of one: it draws a result of the batch and leaves the
export as it is.

### Other modules

`MC*` modules give TLC its constants, the modules named `..._proofs` hold the theorems. Operators whose names carry a suffix and
whose comments say "mutated form" are plausible mistakes: each property is known to
fail when the operator it is listed with in `PROJECT.json` is put in the place of the
original.

## 3. The runs

All pass but the last two. States are distinct states.

| Run | Checks | Instance | States |
| --- | --- | --- | --- |
| `limiter` | `SlotAccounting`, `EveryWaiterQueued`, `ImplementsGate`, `EveryCallSettles` | 5 calls: two share a signal, one has its own, two have none; limit 2 | 34 936 |
| `shielded_stream` | `LedgerIsPrefix`, `ImplementsSnapshot`, `StopsForACause` | chunks of 2, a pool of up to 5 notes over 5 heights, 6 pages, 3 rereadings, one mistaken answer | 269 076 |
| `boundary` | `WaitingCallIsHeldOnce`, `CancelFollowsRequest`, `ImplementsRemoteCalls`, `EveryCallSettles` | 4 calls, two signals, one invalid request, one without a signal | 265 527 |
| `boundary_startup` | `HeardFatalIsFinal`, `StartMeansConnected`, `StartupIsDecided` | a worker that errs up to twice | 2 319 |
| `scan_run` | `QuietWhenIdle`, `FilesAreTheCheckedReports`, `VerdictIsTrue`, `NoneBegunAfterStop`, `EveryRunEnds` | 4 inputs on 2 task workers, or 2 candidates of 2 coins; 2 runs (or a run and a Clear) | 79 107 |
| `bitcoin_scan` | `SectionIsTrue`, `FailureIsThorough`, `EverySearchEnds` | 2 branches that share an address, indices below 5, gap 1, batches of 3, 2 batch providers, 2 lanes, 3 attempts | 169 540 |
| `report_export` | `NoticeIsTrue`, `ImplementsRemoteCalls`, `EveryExportSettles` | 3 reports over 3 generations of the page | 57 041 |
| `viewer_run` | `Consistent`, `BatchIsComplete`, `LateIsDiscarded`, `SavedIsOnOffer`, `EveryQueryEnds` | 3 public inputs, 2 keys, 2 workers, 2 pages, 3 queries, 3 files | 353 040 |
| `derive_client` | `SecretsHaveOwners`, `PostedToLiveWorker`, `ImplementsRemoteCalls`, `EveryRequestSettles` | a derivation, a search (each with a seed) and a self-test, one caller of `ready()` | 25 264 |
| `main_derivation` | `RowsAreOfSource`, `OneLiveJob`, `BusyWhileInFlight`, `CompleteMeansAll`, `LargeIsConfirmed`, `EveryRunEnds` | 2 branches of 2 batches, 3 runs, 2 sources, revocations up to revision 4 | 55 197 |
| `derive_client_multisig` | `SecretsHaveOwners` is **violated** | a derivation and a multisig wallet | - |
| `viewer_cleared` | `ClearedStaysClear` is **violated** | as `viewer_run` | - |

Each module has a type invariant. It is a conjunct of one of the properties above
(`WaitingCallIsHeldOnce`, `QuietWhenIdle`, `SectionIsTrue`, `NoticeIsTrue`, `Consistent`, `PostedToLiveWorker`,
`BusyWhileInFlight`), or is proved (limiter, page stream, startup).

Why these bounds are enough to be interesting:

* *Limiter.* The lost-slot situations need a holder, a granted call whose signal fires, an
  aborted waiter and a live waiter behind it: four calls beyond limit 1, five with
  limit 2, so that a second slot is in use meanwhile. The proofs cover every number.
* *Page stream.* A chunk must be able to be empty, short and full; a short page must be able
  to grow and a second chunk to follow it (5 notes, chunks of 2); an older node must
  follow a newer one. The pool can go on past both ceilings (heights 0 to 4 against 3
  rereadings, and as many pages as they call for against 6), so that it is they that end the loop. The wallet owns notes in each chunk, and
  their spends lie in the same and in later chunks.
* *Boundary.* Two calls under one signal are cancelled together while a third of another signal
  goes on and a fourth has none; identifiers would collide with two.
* *Scan.* With four inputs and two workers a failure finds one wallet before, one beside and
  one after it, and one never begun; with two candidates a coin ends before and after the other coin of
  its candidate, and a candidate follows one that failed. Two runs show that nothing of the
  first remains under the second.
* *Address search.* The first address of the second branch is the second of the first one, so it is
  known when the second branch comes to it. With five indices, gap 1 and three or one
  addresses at least, a target moves once, several times, or against the end of the index
  space. Batches of three on two lanes: a lane takes a second address, also after its lookup was refused.
* *Export.* Three reports: the answers of two can overtake a third. Three generations: a run, one that
  replaces it and a page cleared.
* *Viewer.* Three queries, so that one begins after anything that became of two others; two
  workers on three inputs, so that one goes on while the other waits; two keys, of
  which one fails on either of two pages.
* *Worker client.* Three requests are queued, posted, refused and answered in every combination around
  one end of the client. The proofs cover every number.
* *Main derivation.* Three runs: one that is replaced, the one that replaces it, and one
  after Cancel. Two versions of the source are what "of this source" needs; the run
  also passes with three versions and revocations up to revision 5 (242 989 states, 90 s).

Deadlock is checked in the Viewer's runs, whose person can always press something. It is off in the others: each
of these models stops when all calls have settled or its bound on runs, heights or revisions is
reached, and the program rests then as well.

## 4. Fairness

Weak fairness is asked only of what something in the code or the platform pushes:

* a continuation whose promise has settled runs, a message that was posted to a live realm is
  delivered, an event handler runs (`Start`, `Receive`, `ReceiveReady`, `EndStep`, ...): the event loop;
* a timer fires (`BootTimeout`, `ReadyTimeout`, `AttachTimeout`, the turn between two batches);
* a network request ends (`Finish`, `TaskStep`, `Network`, `Lane`, `Answers`): `boundedFetch`
  (`packages/network-boundary/src/bounded-fetch.ts`), under every provider's requests, has a
  deadline over headers and body, and the Dash SDK is configured with timeouts and a number
  of retries (`packages/dash-network/src/evo-sdk.ts`);
* a handler of a running worker ends (`Answer`): it computes. A worker that hangs would not, and
  derivation requests have no deadline once the worker is loaded; the person's Cancel is then the only remedy.

`BitcoinScan` asks it of the scan's own turn, of the batch request, and of each lane by itself (its request
or the timer of its wait), so no lane can starve behind another. `ReportExport` asks it only of the delivery of
an answer and of the timers: the shell may be slow for ever. In `ViewerRun` everything a query awaits is one
condition, since each answer brings the query nearer to its end.

Nothing says that a person ever presses a button, that a signal ever fires, that a node
ever recovers, or that **a worker's script ever runs**: that is what the startup timers are
for, and `StartupIsDecided` and `EveryRequestSettles` hold without it. `MainDerivation`
assumes that the client settles each promise it gave, which is what
`EveryRequestSettles` of `DeriveClient` shows.

## 5. What is proved

TLAPS checks, for every value of the constants that satisfies the `ASSUME` of the module:

| Proof module | About | Theorem | Says |
| --- | --- | --- | --- |
| `ScanReads_proofs` | `RecoveryLimiter` | `LimiterTypes`, `LimiterSlots`, `LimiterQueue` | the type invariant and the invariants of `limiter` |
| | | `LimiterNoIdleSlot` | nobody waits while a slot is free |
| | | `LimiterImplementsGate` | every behaviour is one of `FifoGate` |
| | `ShieldedStream` | `StreamTypes`, `StreamPrefix` | the type invariant and the invariant of `shielded_stream` |
| | | `StreamSnapshot` | a complete scan has read exactly the pool of its highest height |
| | | `StreamCeilings` | `StopsForACause`: no more requests than the ceiling, and no end blamed on a ceiling not reached |
| | | `StreamImplementsSnapshot` | every behaviour is one of `PoolSnapshot` |
| `NetworkBoundary_proofs` | `NetworkBoundary` | `HeldInOnePlace` | a waiting call is on its way, at work or answered, in one place |
| | | `CancelFollows` | nothing goes on for a call given up, unless its cancel is on its way |
| | | `BoundaryImplementsCalls` | client, worker and port are one `RemoteCalls` |
| `DiscoveryScanner_proofs` | `BoundaryStartup` | `StartupTypes`, `StartupFatalIsFinal`, `StartupMeansConnected` | the invariants of `boundary_startup` |
| | `ScanRun` | `RunQuiet` | `QuietWhenIdle`: a run that is over works on nothing and holds no secret |
| | | `FilesChecked` | `FilesAreTheCheckedReports` |
| | | `VerdictTrue` | `VerdictIsTrue` |
| | | `NoneBegun` | `NoneBegunAfterStop`, an action property |
| `BitcoinScan_proofs` | `BitcoinScan` | `GapRule` | a section stopped exactly where the gap rule says, and is called complete exactly if no gap was cut |
| | | `ThoroughFailure` | `FailureIsThorough` |
| | | `TrueSection` | `SectionIsTrue`: the gap rule, and each address counted once with every path in the findings |
| `ReportExport_proofs` | `ReportExport` | `TrueNotice`, `RefinesRemoteCalls` | both safety properties of `report_export` |
| `DeriveClient_proofs` | `DeriveClient` | `PostedToLive` | `PostedToLiveWorker`, and with it the type invariant |
| | | `OwnedSecrets` | `SecretsHaveOwners`, where no request carries several seeds |
| | | `ClientImplementsCalls` | client and worker are one `RemoteCalls` |
| `MainDerivation_proofs` | `MainDerivation` | `LiveJob` | `OneLiveJob`: only the current run has a seed or a worker |
| | | `RowsOfSource` | `RowsAreOfSource` |
| | | `ButtonsFollow` | `BusyWhileInFlight`, and with it the type invariant |
| | | `CompleteIsAll`, `LargeConfirmed` | `CompleteMeansAll` and `LargeIsConfirmed`, action properties |
| `ViewerRun_proofs` | `ViewerRun` | `ViewerConsistent`, `BatchComplete` | the invariants of `viewer_run` |
| | | `ViewerDiscardsLate`, `ViewerSavesTheOffer` | `LateIsDiscarded` and `SavedIsOnOffer`, action properties |

Every safety property of a passing run is stated by one of them: each invariant, each action property, and
each refinement; `SecretsHaveOwners` has the condition `SingleSeeds`, without which it is false. A proof module about two
components tells them apart: what both would call `Init`, `Spec` or `IInv` carries the name of the first one (`LimiterInit`, `StartupSpec`,
`StartupInv`).

The arguments:

* **Limiter.** None of the invariants is inductive alone. `SlotAccounting` counts holders, so
  each action's effect on the set of holders is stated with the cardinality theorems of
  finite sets; the hand-over replaces one holder by another and must know that the waiter
  is not a holder, which `EveryWaiterQueued` says; that a release with nobody waiting may
  decrement needs the releaser to be counted. `IInv` is `TypeOK`, `SlotAccounting`,
  `EveryWaiterQueued`, `NoIdleSlot` and `StampsOrdered` (arrival numbers are distinct and below `arrivals`).
  `NoIdleSlot` is what makes the gate's admission rule hold: a caller that finds a slot
  free finds the queue empty. `StampsOrdered` makes a waiter that joins the last one.
* **Page stream.** That a complete scan is a snapshot rests on facts about unfinished ones:
  `PoolGrows` (a later height has no fewer notes), `ReadSoFar` (what was applied is whole
  chunks up to the cursor or, after a short one, the whole pool at the height of that one), `EmptySoFar` (one empty
  page means that the pool ends here at the highest height, or that the one mistake is spent), and the two
  `Complete...` parts that say what a finished scan has read. With one mistaken answer
  allowed, two confirmations at the same height are just enough; the assumption
  `Glitches \in {0, 1}` says so. `CeilingInv` ties what the scan counts to what the nodes have seen: while it runs, pages and
  requests are the same number, and each rereading was of a height above the ones before.
* **Startup.** `ErrorsCounted` bounds the pending errors, `ChannelOnce` says that the channel is
  delivered once, after the frame has loaded, and is then either on its way or installed, `OverTheChannel` that nothing
  is resolved or pinged without it. `HeardFatalIsFinal` needs the latter: a failure that is heard before the
  channel rejects the promise, and one heard after it finds a client to close.
* **Boundary calls.** Identifiers are what everything hangs on. `Requests` collects the pairs of an identifier and a call wherever they
  meet: in the client's map, in a message on its way, among the worker's controllers, in an answer on its way
  back; `OneRequest` says that each identifier there stands for one call and each call for one identifier. `HeldOnce` counts the
  places of an identifier that is pending (`Sent` + `Back` + `AtWork` = 1), `Waits` ties the client's map to the promises, and
  `AskedCount` bounds the identifiers by the calls asked for. A late answer then finds nobody or its own call,
  which is the refinement.
* **Bitcoin search.** `Reached` says of a branch, up to the offset, that its addresses are known and that the target is
  the least one the known addresses call for; it must say of every *smaller* number why it is not enough, since that is the minimality
  `Enough` states for the whole branch at its end. An answer only adds addresses, so what was reached stays reached, in earlier
  branches that share an address as well. `FailureIsThorough` follows the lookup stage by stage.
* **Export.** `UnderWay` says of every request, workbook and answer on its way that its identifier was given out and names
  the run it was asked in; `Settlement` ties timers, promises and saved files together. A notice stays true since a file once
  saved for an identifier stays saved, and a new generation withdraws the notice.
* **Worker client.** Four parts. `ResourceInv`: a client that has not ended has not given its worker up. `RequestInv`: the map of
  pending requests is the set of promises that wait, and a queued request is not at work. `IdInv`: identifiers are injective, an
  answer carries the identifier of the request it answers, and that request is not queued. `SecretInv`: what is retained was
  answered. `OwnedSecrets` adds `LiveInv` under the condition `SingleSeeds`; without it the statement is false, which is what
  `derive_client_multisig` shows.

* **Address book.** `BookInv` says that the counts are those of the known addresses by kind and that the findings name, for each
  address to show, exactly the branches that have come across it (`Naming`). A chunk adds addresses nobody knew, so its counts are sums
  of disjoint sets; a branch that comes to an address another one found adds a path and no count. `LaneInv` bounds lanes and attempts: a
  lane takes an address only from those nobody has, and a fallback is on just as long as a lane is.
* **Scanner runs.** Inputs are taken in their order, so an input is untouched exactly if it is at or after `nextIndex` (`Turns`), and while some are left and no
  task failed, some task is at work: this is why a run that finds nobody at work is over, with every input accounted for. `Undisturbed` says what a
  run that nobody aborted cannot contain, which makes "complete" true; `Causes` says who aborted it, which makes "cancelled" true although a failure
  is followed by the AbortErrors it causes. `Known` says that the guard was told of each input before it was begun, which makes the files
  checked. In the candidate mode the coins of a candidate are an interval of the inputs, whose bounds are the quotient by `Coins`.
* **Main derivation.** A job, a seed and a worker belong to the current run only, whatever replaced runs still do before they resume. `RowsOK` is the strengthening:
  before its first batch a run has no rows, and then the rows are exactly the batches it is past (`RowsAt`), of the source on the page; a draw that
  may still be published has left none. `Counted` relates `inFlight` to the runs that have not ended, by cardinality. `LargeIsConfirmed` needs
  that a pending question about a large range is about the source of now (`AskedOK`).
* **Viewer.** A query awaits what its kind awaits (`StepsOf`); the ledger of a key that has not failed and the pages left add up to
  the pages of the scan (`PagesLeft`); the scan begins when every public input is settled (`InBatch`). That no batch waits for nobody is
  a lemma about `Taken`: each line has its place in the order of a finite set, no two the same, and the first place is somebody's, so a turn with
  lines left and a free worker leaves one in flight, and never more than there are workers. `Buttons` says when
  the buttons of a batch can be pressed: never while a query runs or after it was cancelled, and at Dash, with something on offer, only
  those of the last query; from it follow `OfferIsShown` and that a press draws nothing over a cancelled query. `LateIsDiscarded` and
  `SavedIsOnOffer` go through what every action may draw or save.

The assumptions are those the modules name, and each is what the code has: `Limit` from 1 to 5, one mistaken empty page at most, finite sets of calls and
lines, as many inputs as candidates times coins.

What stays with TLC: all liveness properties and everything under fairness (`EveryCallSettles`, `EveryRunEnds`, `EverySearchEnds`,
`StartupIsDecided`, `EveryRequestSettles`, `EveryQueryEnds`, `EveryExportSettles`), which need `ENABLED`, and the two violated properties, whose counterexamples TLC
finds.

## 6. Disagreements with the documentation

**Seed copies of a multisig request.** `apps/key-derivation/SECURITY.md:10` says that mutable byte arrays are cleared where
supported, and `derive-client.ts` zeroes the seed copy of a request that does not reach
the worker: `#wipeRequest` (line 340) for a request that is asked for after the end, is
still queued at the end, or whose `postMessage` throws. It looks at `request.seed` and
`request.input.seed`. A multisig request carries its copies in `request.seeds` (line 243),
which it does not look at: on those three paths the copies of the cosigners' seeds stay
in memory until they are collected. `recovery-multisig.ts:201` asks a client it has just
created, which is still booting; Cancel before the worker is ready is enough. The
worker itself does zero `seeds`. Run `derive_client_multisig` shows it: `SecretsHaveOwners`, which
holds for every other kind of request, is violated.

**A cleared page of the Viewer.** `apps/activity-viewer/README.md:28` says "Clear and Cancel discard late
responses." `measured` (`batch-public-query.ts:27`) calls `onFinished` in its `finally`, whatever became of the lookup, and
`updateProgress` (`batch-controller.ts:72`) writes the status line without looking at the cancellation. Clear aborts the
lookups of a batch, which then write "Batch 1/2 ..." over the page that was just emptied, and a cleared query ends silently, so
the text stays until the next query. No result is shown or put on offer by it: `LateIsDiscarded` holds. Run `viewer_cleared`
shows it: `ClearedStaysClear` is violated.

**Buttons of an older batch.** `packages/export-core/src/public-export-session.ts:1` says that the session "owns the visible public
result", and `docs/FULL_AUDIT_GUIDE.md:275` asks to "confirm selection and paging do not export the wrong branch/source". After a Dash batch,
select another coin and query it: `external-activity.ts:422` shows the section again, in which the buttons of the batch still
stand (`apps/activity-viewer/src/index.html:363`), and their items are still in `batchItems`. A press of one (`batch-controller.ts:235`) draws a Dash result, while the
export buttons go on to save the other coin's. `viewer_run` reaches it with two queries: without its second case, `OfferIsShown` is violated by
a batch, a change of coin, a query and a press of a button. What is on offer is still the last query's, never one that was
withdrawn, which is what `Consistent` states and `ViewerConsistent` proves.

Other things the models showed that are not disagreements with anything written:

* A failure of the Network Worker that the shell posts while the vault's document is still loading reaches
  nobody there; the vault is then given a channel to a dead worker and waits for its ping. Only the shell's error box tells
  the person (`StartupIsDecided` is stated with it).
* Neither boundary calls nor derivation requests have a deadline in the client. The first
  end with the service's own deadlines, the second (`derive-client.ts:82`) only with the worker or Cancel.
* After a Bitcoin lookup was refused, its other lanes go on taking addresses until none is left or the run's
  signal fires (`bitcoin-service.ts:42`); `EverySearchEnds` includes them.
* A batch of the Viewer with public inputs and keys goes on to begin the connection of its Orchard pass after Cancel (`batch-controller.ts:389`);
  the first check comes after it. Nothing it reads is shown.
* A single identity lookup draws its result after the last page of the history without another check
  (`dash-identity-activity.ts`); that a cancelled one is not drawn rests on the history's request, which rejects once its signal fires.
* A late result of the Deriver's worker that is no derivation (a BIP85 child, a silent payment address, a signature) is dropped
  without being cleared: `derive-client.ts:102` clears the rows of `derive` and `multisig` only.
* Clear followed by Cancel, while a query of the Viewer still ends, leaves "Cancellation requested" on the empty page.
* `fail()` of the boundary's client rejects its callers and leaves the jobs of the worker running.
* `pagehide` clears the session's secret guard while a run goes on. If the browser brings the page back
  from its cache, the files of that run are staged against a guard without the earlier wallets (`controller.ts:766`);
  `FilesAreTheCheckedReports` excludes this case by name (`hidden`).

## 7. What is abstracted, and what is not modelled

* Data: an input, a phrase or a request is a value; a report is whole or incomplete; rows are counted
  per branch; a range is small or large. Parsing, wording, layout and logging are left out.
* `NetworkBoundary`: what an operation does, and the two kinds of worker validation, which both end in a refusal.
* `ShieldedStream`: totals, memos, fees and the notes of other wallets; several keys that share one pass.
* `ScanRun`: the shared Orchard pass of several phrases appears as progress reports only; the
  preparation of an adapter's batch, its retry for one wallet, the panel that holds the candidates with the import of a file, and the address
  search of the page are not modelled. When one task
  fails, its `catch` runs before those of the tasks it aborts, as the rejection of the first is handled before the abort it causes is
  dispatched; this is why a failure is never reported as a cancellation.
* `DeriveClient`: answers may come in any order, a superset of what the worker does; a worker
  that dies without an error event does not exist in a browser that reports errors.
* `MainDerivation`: a pending question counts as one about the present settings, since every edit
  of the range clears it; the early returns of the stream when it was revoked with its worker alive cannot be reached and are kept
  as in the code. The BIP38 follow-up, exports, remembered settings, the identity of the adapter, selection
  and paging are not modelled, nor a `terminate()` that throws.
* `AddressScan`: of an address its kind is kept, amounts are not; the Bitcoin seed scan stands for the branches of the other
  coins, whose derivation, accounts, identity gap and presentation are not modelled.
* `BitcoinLookup`: validation of an answer is a verdict; histories and the Ethereum service, one request at a time without a
  fallback, are not modelled. Nor are the Dash sources: sequential paging under a budget, and checks of what nodes prove.
* `BitcoinScan`: the scan takes an answer in the step that gives it, and one request has one slot.
* `ReportExport`: what is in a file, and a shell that answers an identifier nobody asked for.
* `ViewerRun`: the page stream is that of `ShieldedStream`, here a number of pages; inputs differ by what they are looked up with; the
  loading of keys from a file, the pages of an identity's history one by one, and the presentation are not modelled.
* Whole parts without a model are listed in `PROJECT.json` with the reason: pure functions (cryptography, encodings,
  decoding of transactions), formatting, build tooling, the launcher; the recovery panels, the BIP85 and silent payment features and
  the BIP38 form, each a small case of the pattern of `MainDerivation` over `DeriveClient` (one job, a revision, one worker); and the
  local searches of `wallet-recovery`. They are small beside the code without state: most of the repository is
  tables, derivation arithmetic, parsing, formatting and generated code, which has no order of events to get wrong.

## 8. What could come next

The models cover the parts in which several things go on at once. In order of worth:

1. Step lemmas for the liveness properties: measures that every fair step lowers, as far as they can be stated without `ENABLED`.
2. The pages of an identity's history and the loading of keys in `ViewerRun`; the identity gap of Dash in `AddressScan`.
3. The search queue of `wallet-recovery` and the panels of the Deriver, over `DeriveClient`.

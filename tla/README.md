# Verification of Qualigence

Qualigence executes test missions on *Runners* (processes that drive a browser
or a desktop application) under the control of *Core* (a local daemon with
SQLite, or a self-hosted server with PostgreSQL). This directory holds TLA+
models of the parts of it whose correctness depends on the order of events, the
TLC configurations that check them on small instances, and TLAPS proofs for
instances of every size.

`PROJECT.json` maps every definition to the source lines it translates, and
lists the runs, the mutants that show each property can fail, the hazards and
the findings.

## 1. Inventory

### Parts with protocols of their own

| Part | State | Operations | What is hard |
|---|---|---|---|
| Run ownership (`RunOwnershipService`, `ExecutionJobService`, `RunnerControlStore`) | lease rows (owner, expiry, lost, completed, recovery lineage), completion rows | offer, recover, accept/grant, renew, complete, complete from the stored lease, may-start-action | decisions on rows that were read some awaits earlier; crashes between two writes; retried and conflicting completions; clocks that move back |
| Runner protocol application (`CoreRunnerProtocolApplication`, `RunnerSessionService`) | live sessions, offers by run, one promise chain | open, resume, close, offer, accept, ingest, manifest, chunk, complete | everything runs on the chain, the completion sink too |
| Runner lease window (`LeaseWindow`, `LeaseRenewalController`, `AcceptedLeaseLifecycle`) | deadline, expiry, wall baseline, renewal timer, abort flags | renew, may-start-action, fail, finish | two clocks; a renewal that is late, lost or refused; a reply computed earlier than it is received |
| Local intake and coordinator (`SqliteLocalRunIntakeStore`, `LocalRunCoordinator`) | intake rows (dispatch and completion status, attempts), a queue of passes | create, dispatch pass, reconciliation pass, live loop, startup quarantine | an offer whose outcome is unknown; three queues that wait for one another; bounded retries |
| gRPC runner server and client | connection generations, frame queue, promises of offers, correlation of answers | connect, resume, supersede, frames, dispose | a connection that ends while its successor is being set up |
| Runner spool, recorders and pumps (`SqliteRunnerSpool`, `SpoolingTraceRecorder`, `SpoolingArtifactObserver`, `ArtifactUploadPump`, `TraceUploadPump`, `replayPendingRuns`) | spooled events, manifests, chunks, upload progress | record, drain, acknowledge, replay | lost answers, resends, crashes anywhere between recording and the last acknowledgement |
| Trace and Artifact ingest (`TraceIngestor`, trace stores, `ArtifactUploadService`) | cursor per run, events, findings, manifests, chunks | ingest, register, upload, verify | several transactions per call; Trace that overtakes its Artifacts |
| Resume tokens and sessions (`RunnerResumeTokenService`, `RunnerSessionService`) | token rows (fresh, consumed, expired), live sessions, the token in the Runner's spool | issue, redeem, rotate, replay, register, close | rotation before the answer arrives; a close that is queued behind an open |
| Mission scheduling and dispatch (`PrdMissionStore`, `MissionDispatchLoop`, the completion projection) | start commands, outbox, attempts, jobs, Mission | start, dispatch, accept, block, reconcile, project | a crash between offer, lease and acknowledgement; a completion before the acknowledgement |
| Intelligence queue, worker, result consumer | jobs, leases, Result inbox, dispositions, ledger, wakeup | claim, renew, append, abandon, wake, apply, recompute | two workers on one job; expiry inside a transaction; two consumers in one case; a signal while its predecessor is being completed |
| Execution runtime and web target (`ExecutionRuntime`, `PlaywrightBrowserSession`, observer, resolver, executor) | step, permit, budget, navigation generation, observations, sensitive evidence, Trace | capture, decide, resolve, authorize, execute, verify, end | a page that navigates, a lease that ends and a clock that runs out at every await; operations that cannot be stopped |
| Local launcher (`commandStart`, `commandStop`, the detached supervisor) | state file, request file, claims, processes | start, roll back, poll, stop, clean up | commands and supervisors that share files without a lock; renames between a check and its use |
| Review, runner identity, investigation | versions, enrollments, cases | see `PROJECT.json` | optimistic versions; revocation |

The remaining parts (the desktop target, model gateway, skills, OIDC, CLIs, console,
contracts, migrations, deployments) keep no protocol state, or are I/O and
cryptography; they are listed in `PROJECT.json` as not modelled, with reasons.

### How the parts interact

A scheduler (the local coordinator or the mission dispatch loop) calls
`createOffer`. The server sends the offer on the Runner's stream. The Runner
answers with an accept frame, which grants the lease and settles the promise of
the offer. The Runner executes the job inside its lease window, which its
renewal loop keeps open, and writes Artifacts and Trace to its spool. At the end
it drains the two pumps and sends the completion. Core stores the completion and
calls the completion sink, which applies it to the intake row or the mission.
When a connection breaks, the Runner resumes its session and replays the spool;
nothing is executed again. When a lease is lost, a scheduler may offer a
successor under a new run id.

### What makes each part correct

* Ownership: one owner, one ending, one successor; results handed on are the
  stored ones; evidence is only admitted while the run is owned.
* Lease window: the Runner never may act when the lease Core stored has run out
  (with one exception in the code, section 6).
* Local runs: no run is offered twice, and no row falls back to pending once its
  offer may have been made (`readRun` shows a dispatching row as `pending_runner`,
  too, so the user cannot tell the two apart); what is shown as running or settled
  is stored; a stored completion is settled; nobody waits for ever.
* Sessions: one connection of a Runner serves; the token it keeps is accepted
  after a crash of either side; a failed handshake does not lock it out.
* Missions: a Mission starts once; outbox, attempt, job and lease agree; a run
  that was leased does not stay pending.
* Intelligence: an accepted Result is found and settled; its effect and its
  follow-up happen once; no wakeup is lost.
* Execution: an action goes to the page that was observed, under a live lease,
  and is accounted for; no typed secret is observed without its mask; runs end.
* Launcher: a stop request stops its own topology and no other; a topology that
  is up is on record.
* Evidence: nothing recorded is lost; Trace never precedes its Artifacts; a
  completed run has all of its Trace; what is recorded arrives.

## 2. Modules

| Module | Models | Kind |
|---|---|---|
| `RunLifecycle` | what Core promises about the ownership of a run | abstract specification |
| `RunLease` | `run-ownership-service`, `execution-job-service`, the lease part of `sqlite-runner-control-store`, `core-runner-protocol-application` | detailed specification; implements `RunLifecycle` |
| `RunLeaseProofs` | | theorems about `RunLease` and `LeaseWindow` |
| `LeaseWindow` | `lease-window`, `lease-renewal-controller`, `job-executor` (`AcceptedLeaseLifecycle`), and the expiry Core stores | specification |
| `LocalRun` | `local-run-coordinator`, `sqlite-local-run-intake-store`, the promise chain, the frame queue of `server`, the offer loop of the Runner | specification that composes four components |
| `EvidenceUpload` | `sqlite-runner-spool`, the recorders, the pumps, `replay-recovery`, the loop of the Runner's `main`, `artifact-upload-service`, `trace-ingestor`, `sqlite-trace-store`, `runner-session-service` (ingest) | specification that composes Runner, connection and Core |
| `SessionResume` | `server` (handshake, superseding, disposal, shutdown), `client` (connect), `runner-session-service`, `runner-resume-token-service`, the token part of `sqlite-runner-control-store`, the Runner's `main` | specification that composes Runner, server and store |
| `MissionDispatch` | `mission-scheduling-service`, `postgres-prd-mission-store`, `mission-dispatch-loop`, `operation-scoped-runner-stores`, the server and Runner at their edges | specification that composes scheduler, loop, Runner and projection |
| `IntelligenceQueue` | the queue functions in `row-level-security`, `worker-loop`, `intelligence-result-consumer-loop`, `server-result-consumer`, `intelligence-result-applier` | specification that composes workers, queue and consumers |
| `WebExecution` | `execution-runtime`, `execution-budget`, `job-executor` (the lease signal), the `web-playwright` adapter, `spooling-artifact-observer` | specification that composes runtime, lease and page |
| `Launcher` | `main`, `runtime-state`, `process-supervisor`, `child-process-unit` of the launcher | specification |
| `LocalRunProofs`, `EvidenceUploadProofs`, `SessionResumeProofs`, `MissionDispatchProofs`, `IntelligenceQueueProofs`, `WebExecutionProofs`, `LauncherProofs` | | inductive invariants and theorems about the module of the same name |
| `MC*` | constants for TLC | one per specification |

### RunLease

One row per run id, in the columns of `execution_leases` and
`execution_completions`; the memory of the Core process (`live`, `offers`,
`generated`, the calls `op`); and the leases that reached a Runner (`held`). A
protocol call is split at its store writes: the first step reads and decides,
each later one writes. Between two of them the clock moves (either way) and Core
may crash, which loses the memory and keeps the rows. The slots exist because
several calls can be pending: `ChainFree`, the promise chain, is what keeps the
second one from starting, and `EvidenceOnlyWhileOwned` depends on it. Tokens and
epochs are not state: a row is inserted once per run id, so a holder of "the
lease of r" always presents the right ones. A call that fails its checks changes
nothing and is a stuttering step.

### LeaseWindow

Time is a number; Core's clock and the Runner's monotonic clock follow it, the
wall clock may be set. The Runner's timers are punctual: time does not pass a
timer that is due. The reply to a renewal may be lost, refused or arbitrarily
late, and so may the reply to accept, which has no deadline in the code
(`client.ts` 267-272). `delay` is a history variable: how late the reply to accept
was, until the first renewal is answered and Core's expiry is known to be fresh.
`NeverPastCoreExpiry` excepts a `delay` of more than one renewal interval; section
6 says what happens then.

### LocalRun

Three queues serve one item at a time: the passes of the coordinator, the calls
on the promise chain, and the frames of a connection. The state of a pass
(`pass`), the holder of the chain (`chain`) and the promise of the offer
(`deferred`) say who waits for whom. `authority` is the set of runs whose
completion Core has stored; how it gets there is `RunLease`'s matter. `stopping`
is how far a shutdown has come: it awaits the live loop, then the queue, and
closes the server last, which is what would reject the promises the other two
may wait for.

### EvidenceUpload

The spool and Core's tables are durable. The Runner's process (`runner`), the
connection and Core's call in progress (`call`) may fail at every step. Each
transaction of Core is a step; the object and the manifest that are written
before `markVerified` are written idempotently, so progress and verification are
one step. An Artifact is identified by its run and the event that captures it;
events are numbers, and the constants say which of them capture an Artifact,
carry a finding, or name Artifacts. A run that is abandoned (its target fails,
its spool is full, its lease window ends) leaves what it has recorded in the
spool. `Quiet` stands for a Runner that waits for work which does not come.

### SessionResume

One Runner identity, hence one connection key. A call is a gRPC stream; its `pc`
says how far `establishSession` has come, split at the awaits: the resolution of
the application, `openSession`, what follows it, and `closeSession` of an abandoned
handshake. `chain` is the promise chain with the opens and closes queued on it, and
the completions of the serving connections, because `complete` awaits its sink on
the same chain; the other calls on it only take time. `holder` is the call that
raised the generation last. A token is a pair of its session and
the number of rotations, because a replacement is derived from what it replaces.
The Runner is its main loop: start with the token of the spool, connect, save the
token of the Welcome, reconnect. Both processes may die anywhere, streams may be
cancelled, tokens expire, and the server shuts down at any step.

### MissionDispatch

A database operation is one transaction, so one action. A request reads the
Mission and later schedules it, under its idempotency key; the loop goes through
the pending rows (`todo`), and for each reads the lease, offers, reconciles when
the offer fails, and writes the outcome. The Runner accepts on the server's
promise chain, executes and completes; `Project` is the projection of a
completion onto attempt, job and Mission, with the checks that refuse it
(`Projectable`: the row is accepted, or its status is already that of the
completion, so that a row that a loop has blocked still takes a blocked
completion). `CompleteAgain` is the completion sent again, which is projected again.
A lease may be lost at any time, also while its Runner executes.
Restarts lose the loop's position and the offers in memory. `expired` is the
execution policy's expiry, `mismatch` the jobs whose scope does not fit the
Runner: two reasons to block a row. The order of the rows is left open. Backoff
is a delay, which an untimed model has anyway.

### IntelligenceQueue

The statements of the SQL functions are steps where another transaction can come
in between (the selection of a job, the release of its expired lease, the insert
of the new one); `transaction_timestamp()` fixes at the first of them what is
expired. A consumer's transaction keeps its writes apart until `Commit`; one that
has written to the ledger has updated the case before, so it is the one that holds
the lock on the case's row (`Locked`). A job is a pair of what it was made from and
the version of the case it is computed on: an initial job is made from its name, a
follow-up from the job whose Result was stale, as the digest in
`recomputeFollowUpJob` is. `IsBatch` is the `ORDER BY` with the `LIMIT` of
`pendingResultQuery`. The two
runs share the module: `intelligence_leases` has two workers and faults,
`intelligence_results` two consumers that share their identity (`server-<pid>`,
which two containers have in common) and a batch of two.

### WebExecution

The runtime awaits one operation at a time (`op`), in a race with the wall clock
and the lease's signal. An operation that lost goes on: its steps remain enabled
when `pc` has moved on, and `DispatchIsLive` says that it then dispatches
nothing. An action of the model is what runs between two awaits. The session
keeps a navigation generation, the observation that is current, the records of
what was typed and whether evidence is available. The page navigates at any
moment, at home or away, and reports through `exposeFunction`. A navigation may be
one within the document (a fragment, the history API): the listener drops the
records all the same, and the typed values stay; `cleared` counts the values left
without a record. The code has a second line of defence for them: an element that
still carries the marker of a record that is gone makes the evidence unavailable
(`sensitive-evidence-authority.ts` 189-226). Whether one still does is the page's
choice, because it may have replaced the element. A record of the Trace may be cut
short by the wall clock: `Record` then stores a prefix of its events and the run
goes on to its end as out of time. The plans mix inputs, clicks, a navigation and
explicit verification; the scripts that run inside the page are abstracted to
whether they succeed.

### Launcher

Every file operation is a step: read, write, link, rename, remove. A topology is
named after the `start` that made it, so the four identifying fields are one
value. The claims are the files that a supervisor or a cleaner renames the
shared file to. Commands overlap in every way: `commandStart` passes no lock to
`ProcessSupervisor`. Two history variables name the behaviours in which the
properties do not hold. `met`: two topologies were being cleaned up at the same
time, or a start recorded its topology while another start was about to remove or
to write the record. `untimely`: the topologies of which a supervisor has dropped a
request for its time; `PollDecides` chooses whether the request is in time, since
the supervisor's `now` is taken before the rename and the interval of its polls may
be as long as the maximum age. Section 6 says what the code does in these cases.

## 3. Runs

| Run | Question | Bounds | Result |
|---|---|---|---|
| `run_lease` | Does a run have one owner, one ending and one successor, over crashes of Core between any two writes? Do the rows implement `RunLifecycle`? | one scheduled run and two recovery identities, two sessions, two results, two pending calls, clock 0..3, duration 2 | holds, 203 260 states |
| `lease_window` | Can the Runner act on a lease that has run out in Core? | duration 9 (interval 3), margin 1, time up to 26, skew ±1, replies as late as they like | holds, 1.04 million states |
| `local_run` | Is a run offered twice? Does what is shown agree with what is stored? Is a stored completion settled for the user? Does a shutdown end? | two runs, two attempts, two connections, one crash or shutdown, every store operation may fail | holds, 317 537 states |
| `local_run_sink` | Does the completion sink return? | two runs, one connection, no fault | violated |
| `evidence_upload` | Is anything recorded lost, stored out of order, or never delivered? | two runs of three events, one Artifact of two chunks each, batches of at most two, one fault anywhere | holds, 147 770 states |
| `evidence_upload_finding` | Is an acknowledged finding stored? | one run, one fault | violated |
| `session_resume` | Which connection serves, and which token is accepted, over overlapping handshakes, crashes and a shutdown? | three streams, two rotations per session | holds, 1.14 million states |
| `mission_dispatch` | Is a Mission started once, and do its tables agree, over a fault between any two transactions? | two requests and keys, two Servers, one job, three results (passed, blocked, error), two sessions, two faults | holds, 910 136 states |
| `intelligence_leases` | Does an accepted Result stay findable and get settled, whatever expires when? | one job, two workers, two leases, one renewal, two faults | holds, 89 993 states |
| `intelligence_results` | Is each effect and follow-up made once by two consumers, and no wakeup lost? | two jobs of one case, two consumers with one identity, batches of two, one fault | holds, 1.72 million states |
| `web_execution` | What can a navigation, a lost lease or the wall clock do between two awaits of a run? | four plans, two steps, two navigations | holds, 624 146 states |
| `launcher` | Do stop requests reach their own topology, over shared files and a crash? | two starts, two stops, one fault | holds, 306 632 states |

Why the bounds are enough. In `RunLease` the interesting races are between two
sessions and two calls on one run and its successor; a second recovery identity
is what a second successor would need, and a clock of one more than the duration
reaches expiry after a renewal; the proofs then remove these bounds. In
`LeaseWindow`, 26 instants hold more than two full renewal rounds, which is the
period of the loop. In `LocalRun` the second run is the one the first waits for;
a second connection is needed for a stale generation, a second attempt for the
difference between a failed and the last attempt. In `EvidenceUpload` two chunks
and batches smaller than the Trace make every upload partial at some point, one
fault hits every step of a drain, and the second run shows what a blocked replay
does to its neighbours. Abandoning a run and losing its lease are not faults and
are not bounded, so that a fault in the replay that follows is covered; two
faults were explored, too (315 738 states), and show nothing new. In
`SessionResume` the third stream is the one that arrives while the second
supersedes the first, and a second rotation is what a replay that returned the
wrong replacement would need. In `MissionDispatch` the second Server is what it
takes to block a row whose run the other one has leased, the blocked result is the
one that such a row accepts, and the second key distinguishes a retry from a second
command. An instance with one Server, two jobs (so that the Mission's status depends
on order) and one fault was explored, too (371 896 states); the properties hold. In `IntelligenceQueue` the second lease of a job is the one
that races the first holder, and two Results on one version make the second
stale. In `WebExecution` a page that leaves and comes back takes two navigations,
and the second step shows what the first left behind. In `Launcher` the second
topology is the one that could be stopped by the first one's request, and two
stop commands are what it takes to displace a request.

Symmetry is used where runs, sessions or results are interchangeable and the run
checks no liveness property.

Deadlock is checked in `run_lease`, `lease_window` and the `EvidenceUpload` runs.
`local_run` reaches the deadlock that `local_run_sink` exhibits; the other models
stop when their bounded inputs are used up (all streams, requests, commands or
attempts), which the programs may do as well.

### Fairness

Only steps that a process takes by itself are fair: the passes and the live loop
of the coordinator, the frames of a connection, the timers of retries, the
Runner and its pumps, the calls of Core. These are callbacks of an event loop
that is never blocked, so weak fairness of the process is what the code has. The
restart of a Runner that has ended is part of its fair steps in
`EvidenceUpload`. That is an assumption about the operator or the supervisor
(the launcher's production units have no restart policy): the property says what
arrives if the Runner is always started again. Nothing is assumed of users,
failures, expiry or, in `LocalRun`, new connections.

`CompletionSettles` names the behaviours of the code that keep a completion from
the user: the attempts are used up, the sink waits for ever (section 6), the
store keeps failing, or `markOffered` and `markOfferOutcomeUnknown` both failed
and the row stays `dispatching`, which reconciliation does not look at before
the next restart. The property shows that there are no others. `ShutdownEnds`
has the blocked sink as its one exception.

`SessionResume` is fair to the promise chain and the continuations behind it
(`ServerStep`), to neither Runner nor network, and not to a completion on the chain
(`RunComplete`), whose sink need not return: `EstablishingEnds` has that as its one
exception.
`MissionDispatch` is fair to the loop's timer, to a Runner that takes offers and
completes, and to the lease window that stops a run. `IntelligenceQueue` is fair
to the consumer loops and to the expiry of a wakeup's claim, not to the workers.
`WebExecution` is fair to the runtime and the wall clock only: no page, model or
policy call need ever return, and `RunEnds` holds all the same. `Launcher` is
fair to commands that have begun and to live supervisors; a poll is strongly
fair, since a request that is displaced and put back again and again is seen by
a poll on a timer at some time.

`RecordedArrives` says that a recorded event reaches Core *or* the spool holds a
manifest that Core will refuse for good. The second case is real (section 6);
the property shows that it is the only one.

## 4. Proofs

`RunLeaseProofs` (TLAPS): for every set of runs, sessions, results and calls and
every lease duration,

* `OwnershipSafety`: `TypeOK`, `EndsOnce`, `RecoveredOnlyIfLost`,
  `OneSuccessor`, `SinkAuthoritative` and `HeldIsStored` are invariants;
* `Refinement`: `Spec => ImplementsLifecycle`, under the mapping `Status` (a row
  without owner is free, and otherwise lost, completed or owned);
* `EndedRowsStayFrozen` and `EvidenceNeedsOwnership`: the action properties.

Assumptions: `RunsDisjoint` (`generateRunId` makes new ids), `NoneIsNoValue`,
`TimesAreNat`. The inductive invariant is

    IInv == TypeOK /\ Serialized /\ CallsKnow /\ OffersKnow /\ LineageKnows
            /\ EndsOnce /\ OneSuccessor /\ SinkAuthoritative /\ HeldIsStored

The properties are about rows, and the steps that could break them act on what a
call read earlier. `Serialized` says one call at a time is past its first step;
`CallsKnow` says what remains true of the rows while a call is at each stage
(for instance: a recovery has found a row that no other run succeeds, and before
it marks the row lost, the row is not completed); `OffersKnow` says what an
offer in memory entails (a recovery offer is of a run that is already lost, and
its successor is the only one that will ever be granted); `LineageKnows` ties
the stored lineage to lost rows. There is one lemma per action, and the action
lemmas rest on frame lemmas for the conjuncts whose variables it leaves alone.
The refinement has one lemma per writing action (`MarkingLoses`,
`GrantingGrants`, `CompletingCompletes`) and one for all others, which stutter.

The same module extends `LeaseWindow`: `WindowInsideCoreLease` proves
`NeverPastCoreExpiry` and `RenewalInTime` for every duration of at least 3, every
safety margin, every behaviour of the wall clock and every delay of every reply. The
late accept is an exception inside the properties, and not a premise: once a
renewal has been answered, nothing is excepted any more. The window is longer than what is left of the lease in Core, by up to
the delay of a reply; the invariant says that the loop's timer runs out before
the difference matters.

In the other proof modules each property is a conjunct of the invariant or
follows from it. What the invariant adds is always of one kind: what a process
that has read something, and has not used it yet, may still rely on.

`SessionResumeProofs`, for every number of streams and rotations:
`NoSupersededServes` (`OneServing`), `ShutdownIsFinal` (`NothingAfterShutdown`)
and `SpoolTokenStaysGood` (`SpoolTokenAccepted`). `Handshakes` says what a stream
at each await of `establishSession` has done and who holds the generation,
`ChainKnows` what the opens and closes queued on the promise chain will find, and
`TokensKnow` that the token in the spool is the newest one or the one before it,
whose replacement is in the table; a rotation whose Welcome is lost is why one
step back has to be allowed.

`LocalRunProofs`, for every set of runs, any number of attempts, connections and
faults: `NeverOfferedTwice` (`OfferedOnce`), `PendingReachedNoRunner`
(`PendingIsUntouched`), `ShownHasAuthority` (`ShownIsStored`), and
`ChainHeldForQueuedPass`: the pass for which the completion sink holds the chain
is in the coordinator's queue or under way, which is one half of the deadlock of
section 6 and the reason why a sink can be left waiting but never be forgotten.
`PassKnows` and `OfferKnows` relate the row that a pass read to the row as it is
now, the chain and the promise of the offer; `SentKnows` says that an offer that
was sent has left its mark on the row.

`EvidenceUploadProofs`, for every set of runs, every length of a trace and of an
artifact, every batch size and any number of faults: `NoEventLost`
(`EventsKept`), `NoChunkLost` (`ChunksKept`), `StoredTraceHasEvidence`
(`TraceHasEvidence`) and `CompletionIsLast` (`CompletedHasTrace`). The half of
the invariant called `Protocol` relates the one request, call or answer in flight
to the stage of the pump that waits for it, and says that what an answer
acknowledges Core has stored; the other half, `Kept`, has the properties and
`VerifiedInFull`: an artifact that is verified has all its chunks. Without
`Protocol` an acknowledgement could be of anything and the spool would lose data.

`MissionDispatchProofs`, for every set of requests, keys, jobs and results:
`OneStart` (`StartedOnce`), `AcceptanceNeedsLease` (`AcceptedWasLeased`),
`ProjectionsStayTogether` (`ProjectionsAgree`), and, for a Mission that has a job
(a plan without jobs is refused, `test-plan-revision.ts` 146),
`MissionEndsWithJobs`: the Mission's status is the one that its jobs determine.
The invariant says what a loop that is about to mark a row as accepted or blocked
knows of the lease, and that a row which a loop has blocked can have no completion
but a blocked one.

`IntelligenceQueueProofs`, for every set of jobs, workers and consumers, every
batch size, any number of leases of a job, renewals and faults, and whether or not
the consumers share their id: `ResultsAreFound` (`AcceptedIsFound`),
`WakeupNotLost` (`NoLostWakeup`), `ResultsTakeEffectOnce` (`EffectOnce`) and
`OneFollowUp` (`FollowUpOnce`). The invariant is

    Inv == TypeOK /\ QueueInv /\ WakeupInv /\ CaseInv /\ FollowUpInv /\ TxnInv

`QueueInv` says that a worker's attempt is a lease of its job, that the lease of
each row of the inbox is completed with the renewals the row has, and that a job
has one row; since a claim releases only live leases and an append completes only
a live one, the lease of a Result is never touched again. `WakeupInv` says that a
consumer about to complete the generation there is has seen every Result disposed
of: a Result that arrives later raises the generation, and the completion then
leaves the wakeup pending, whoever the row says owns it. `CaseInv` has
`EffectOnce` and says that a Result with a disposition is bad or its base version
has passed, so it can have no effect any more. `FollowUpInv` says that follow-ups
belong one to one to recomputed Results. `TxnInv` says what a transaction that is
not committed has in its hands: its rows are different Results it has not
recorded; it has at most one effect, on the version there is, with its
disposition recorded or next to be recorded; its dispositions are new and each of
a bad Result or of a version it has seen pass; and it has one follow-up for each
recompute. Between transactions it says that no two have an effect (the row lock)
and no two a disposition of the same Result (its key), which is why the commit of
one leaves the claims about the other true.

`WebExecutionProofs`, for every set of plans, every step budget and any number of
navigations: `OnlyLiveDispatch` (the action property `DispatchIsLive`),
`DispatchReachesSeen` (`DispatchedWhereSeen`), `OkNeverLeft` (`OkStayedHome`),
`ShownIsMasked` (`ObservedIsMasked`) and `ActionsAccountedFor`
(`EveryActionAccounted`). `Live` says that an operation that the runtime no longer
awaits has its signal aborted; `ExecuteKnows` what the await an action has
reached says of its step and its document; `ActingKnows` that the action under
way is the last one and that every departure of the page is counted;
`TypedIsMasked` that typed values and records differ only by what a navigation
within the document has cleared, and between a dispatch and its evidence;
`SettledEnded` that an execution which has settled has an outcome for the action it
dispatched; `Accounting` what the runtime still owes for the last action. All
steps of the target fall into three kinds (`Quiet`, `Dispatched`, `Concluded`),
about which the invariants are proved.

`LauncherProofs`, for any number of topologies, stop commands and faults:
`NobodyElseStopped` (`OnlyOwnStopped`), from what a claimed request may name; and
`RecordStays` (`RecordedWhileUp`), for commands that overlap in every way. That invariant follows the ports: only one topology is up,
the later ones are not recorded yet, an earlier one that is being cleaned up is
down, and the record is in the file or in the hands of the one cleaner at work
(`OneCleaner`). The attempt to prove the property without the premise that no two
cleaners met is what led to the behaviour in section 6.

Assumptions on constants: those named in the modules, which TLC evaluates in every
run; and `Jobs # {}` for `MissionEndsWithJobs`.

Only model-checked: the promises that hold with exceptions, and liveness
(`CompletionSettles`, `ShutdownEnds`, `RecordedArrives`,
`EstablishingEnds`, `LeasedIsSettled`, `ResultsSettle`, `RunEnds`,
`StopTakesEffect`, `LeftoverGoes`), which is outside of what TLAPS can prove, as
are `ENABLED` and induction over data.

## 5. Not modelled

Besides the parts listed as such in `PROJECT.json`:

* sessions are registered and closed in `RunLease` without their resume tokens,
  and a resume in `EvidenceUpload` always keeps the session; what happens to the
  token and the session is `SessionResume`'s matter;
* the shutdown of the server with its dispatch loop (the daemon's is in
  `LocalRun`); the rejection of an offer; `markLost`, which nothing calls; `integrity_blocked`, which consistent
  stores never reach;
* hashes, redaction, encryption, tenants and quotas: conflicting content for the
  same sequence number or chunk is never produced by the Runner that is modelled;
* the PostgreSQL stores that run the same statements as the SQLite ones in a
  transaction per operation (the mission store and the queue are modelled);
* objective-only runs, the content of plans, decisions and verdicts; the scripts
  that run inside a page (mask snapshots, sensitive epochs, shadow roots) beyond
  their success or failure;
* the launcher's `--foreground`, `init` and `status`, the reuse of a PID, a `start`
  that fails after its record is in place, and a second name under which a cleaner
  looks for a claim (`runtime-state.ts` 150), which nobody else reads;
* which session accepts an offer: Core asks only that there is one, and the model
  lets the session accept that the offer was sent to; start requests that arrive
  after the first offer of a Mission (a bound of `MissionDispatch`); a session that
  can no longer be resumed while its Artifacts are uploaded;
* a Core without an Artifact store (the local daemon), which does not ask whether
  the Artifacts of an event are verified: `TraceHasEvidence` is about the
  self-hosted one;
* a stale Result for which no follow-up can be made (`createRecomputeFollowUp`
  returns null);
* the waiting of Playwright inside a click (`playwright-action-executor.ts` 426):
  an action is dispatched at the instant of the call, and `DispatchedWhereSeen` is
  about that instant;
* pure conversions and checks (contracts, wire mapping, the observation
  migration with its freeze gate, recording and exploration), which are most of
  the lines of the repository and keep no state between calls.

## 6. Findings

Two are runs that TLC refutes, quoted against a document of the repository in
`PROJECT.json`:

1. `local_run_sink`: the completion sink waits, inside the promise chain, for a
   pass queued behind a dispatch pass that waits for the promise chain, or for a
   frame queued behind the completion.
2. `evidence_upload_finding`: an event and its finding are stored in two
   transactions; after a failure between them the resend is a duplicate, which
   is acknowledged without the finding.

The modules state more promises that the code does not keep. Each is a definition
that can be put into the module's configuration as an INVARIANT or PROPERTY, and
TLC then shows the behaviour:

* `LeaseWindow!JumpIsFinal` (comment at `lease-window.ts` 19-21): a backward jump
  of the wall clock that no action meets is forgotten when the clock catches up
  or the lease is renewed.
* `LeaseWindow!ExpiredGainsNoPermit` (`docs/contexts/execution/CONTEXT.md` 28: "An
  expired, lost, cancelled, or blocked Run never gains a new action permit"): a
  reply to accept that is later than the lease opens a full window on an expired
  lease.
* `LocalRun!AcceptedIsApplied` (`docs/contexts/execution/CONTEXT.md` 20):
  reconciling a run that still executes counts as a failed attempt; a long run is
  given up and its completion is never applied.
* `EvidenceUpload!UploadedAfterExpiry` (`docs/testing/windows-m3-manual-checklist.md`
  195): a manifest that is not registered when its lease ends is refused by every
  replay, and the error ends the Runner each time.
* `SessionResume!ServingIsLive` (the test "keeps the live session identity after
  a successful resume", `execution-job-service.test.ts` 302): the close of the old
  connection, queued while its successor is being opened, closes the session that
  the successor serves.
* `MissionDispatch!OwnerCompletes` (`docs/contexts/execution/CONTEXT.md` 27): a
  completion that arrives before the loop has marked the dispatch accepted is
  refused under a valid lease.
* `IntelligenceQueue!StaleIsRecomputed` (comment of `IntelligenceResultApplier`):
  of two Results on one version, the one that loses the race inside the
  transaction is rejected as invalid instead of recomputed.
* `WebExecution!InputWhereSeen` (`docs/contexts/execution/CONTEXT.md` 33): the
  last check of the generation comes before the await that begins the sensitive
  epoch, and a value may be typed into the next document.
* `WebExecution!TypedIsRecorded` (`docs/contexts/execution/CONTEXT.md` 34: "audit
  and evidence retain references plus hashes/lengths, never the value"): a
  navigation within the document drops the records of the values typed into it
  (`browser-session.ts` 2475-2485); when the page has also replaced the element that
  carried the marker, nothing tells the next capture that a value is one of them.
* `WebExecution!UnknownIsError` (`docs/contexts/execution/CONTEXT.md` 8 and 35:
  "`ActionOutcomeUnknown` is an error with no automatic retry; budget or policy
  denial is blocked"): `executeStep` records the outcome (`execution-runtime.ts`
  542) before it looks at it (543-545); when the budget runs out in between, a run
  whose last action has no trustworthy result ends as blocked,
  `WallClockBudgetExceeded`.
* `Launcher!LiveIsRecorded` (comment at `runtime-state.ts` 6): after the Runner
  has crashed, `start` deletes the record of the live Core and then fails on its
  ports; `stop` says "not running" from then on.

Other behaviours that the launcher's properties except, or that the model shows:
two overlapping `start` commands clear or overwrite each other's record, although
the comment of `ProcessSupervisor` (`process-supervisor.ts` 50-55) says that it
"holds a single-instance lock for the lifetime of a started topology so a second
`start` fails fast"; a stop request that is published between the `Date.now()` of a
poll (`process-supervisor.ts` 305) and its rename counts as one from the future, is
claimed and deleted, and the topology runs on without any fault (`runtime-state.ts`
67-68; the poll interval may also equal the maximum age, `config.ts` 301, and then
a request can be too old at its first poll); with three topologies, two supervisors may clean up at once, each with the record
of a later topology in its hands; the one that puts its record back first makes the
other drop the newer one (`runtime-state.ts` 149-178), and the topology that is up
has no record any more, although cleaning up is to clear "only runtime state and
markers owned by the failed topology" (`tests/unit/local-launcher/quiesce.test.ts`);
a supervisor that still cleans up after the previous topology takes the new record
away for a moment, and a stop request that is polled meanwhile is dropped; after a
crash of Core its supervisor polls on and removes requests for later topologies;
`stop` reads the record and then the PIDs, and may report `SupervisorUnavailable`
for a shutdown that has succeeded.

## 7. Plan

1. *Done*: `RunLifecycle`, `RunLease`, `LeaseWindow`, `LocalRun`,
   `EvidenceUpload`, `SessionResume`, `MissionDispatch`, `IntelligenceQueue`,
   `WebExecution` and `Launcher`, with runs and proofs of every safety property
   that the runs check.
2. `MissionDispatch` with the shutdown of its process.
3. Investigation cases and review tasks (their transitions under optimistic
   versions), enrollment and revocation.

------------------------------ MODULE LocalRun ------------------------------
(***************************************************************************)
(* A run in local mode, from its creation to the completion shown to the   *)
(* user: the durable intake rows (SqliteLocalRunIntakeStore), the          *)
(* coordinator that offers runs and applies completions                    *)
(* (LocalRunCoordinator), the promise chain of the protocol application    *)
(* (CoreRunnerProtocolApplication.serialize), the frame queue of the       *)
(* Runner's connection (ServerRunnerConnection) and the Runner, which      *)
(* executes one offer at a time.                                           *)
(*                                                                         *)
(* Three queues serve one item at a time: the coordinator's passes, the    *)
(* protocol calls and the frames of a connection.  Who waits for whom      *)
(* across them is what this module is about.                               *)
(***************************************************************************)
EXTENDS Naturals, Sequences

CONSTANTS Runs,
          MaxAttempts,     \* maximumAttempts of the completion retry policy
          StoreFaults,     \* whether operations on the store may fail
          MaxConnections,  \* bound on the connections a Runner opens
          MaxCrashes,      \* bound on the crashes and shutdowns of Core
          None

ASSUME NoneIsNoRun   == None \notin Runs
ASSUME FaultsOrNot   == StoreFaults \in BOOLEAN
ASSUME BoundsAreNat  == /\ MaxAttempts \in Nat \ {0}
                        /\ MaxConnections \in Nat
                        /\ MaxCrashes \in Nat

VARIABLES
  \* local_run_intakes, one row per run
  dispatch,    \* "absent" (no row), "pending", "dispatching", "offered", "unknown"
  completion,  \* "awaiting", "applied", "exhausted"
  attempt,     \* completion_attempt
  due,         \* runs whose completion_next_attempt_at has come
  \* what RunOwnershipService stored
  leased, authority,    \* runs with a lease row; with a stored completion
  \* the coordinator
  queue,       \* passes in order: "startup", "dispatch", "live", "sink"; the
               \* first one runs
  pass,        \* where the first pass is
  liveNext,    \* the pass the live loop will queue next
  stopping,    \* shutdown: "no", "live" (awaits the live loop), "queue" (awaits
               \* the queue), "close" (closes the server), "down"
  \* the protocol application and the connection
  chain,       \* "free", or "sink": complete waits for the completion sink
  connected,   \* the Runner has a current connection
  generation,  \* its generation
  frames,      \* frames received on it, in order
  deferred,    \* the promise of the offer: "none", "pending", "resolved", "rejected"
  \* the Runner
  inbox,       \* offers it has not looked at
  runner,      \* what it does
  \* bookkeeping
  sent,        \* sent[r]: how many times r was offered to a Runner
  crashes

rowVars   == <<dispatch, completion, attempt, due>>
storeVars == <<leased, authority>>
loopVars  == <<liveNext, stopping>>
coordVars == <<queue, pass, loopVars>>
linkVars  == <<connected, generation, frames, deferred, inbox, runner>>
vars == <<dispatch, completion, attempt, due, leased, authority, queue, pass,
          liveNext, stopping, chain, connected, generation, frames, deferred,
          inbox, runner, sent, crashes>>

Idle == [does |-> "idle", run |-> None]

NoPass == [stage |-> "start", todo |-> {}, run |-> None, generation |-> 0]

Init ==
  /\ dispatch = [r \in Runs |-> "absent"]
  /\ completion = [r \in Runs |-> "awaiting"]
  /\ attempt = [r \in Runs |-> 0]
  /\ due = {}
  /\ leased = {} /\ authority = {}
  /\ queue = <<"startup">> /\ pass = NoPass /\ liveNext = "dispatch"
  /\ stopping = "no"
  /\ chain = "free"
  /\ connected = FALSE /\ generation = 0 /\ frames = <<>> /\ deferred = "none"
  /\ inbox = <<>> /\ runner = Idle
  /\ sent = [r \in Runs |-> 0]
  /\ crashes = 0
-----------------------------------------------------------------------------
(* Core serves users and Runners once its startup pass has ended.          *)
Up == \A i \in 1..Len(queue) : queue[i] # "startup"

(* The user creates a run.                                                 *)
Create(r) ==
  /\ Up /\ stopping # "down"
  /\ dispatch[r] = "absent"
  /\ dispatch' = [dispatch EXCEPT ![r] = "pending"]
  /\ due' = due \cup {r}
  /\ UNCHANGED <<completion, attempt, storeVars, coordVars, chain, linkVars,
                 sent, crashes>>

(* The retry delay of a run is over.                                       *)
BecomeDue(r) ==
  /\ dispatch[r] # "absent"
  /\ r \notin due
  /\ due' = due \cup {r}
  /\ UNCHANGED <<dispatch, completion, attempt, storeVars, coordVars, chain,
                 linkVars, sent, crashes>>

(* Mutant: the live loop does not look at the stop flag.                   *)
LiveEnqueueForever ==
  /\ \A i \in 1..Len(queue) : queue[i] = "sink"
  /\ stopping # "down"
  /\ queue' = Append(queue, liveNext)
  /\ liveNext' = IF liveNext = "dispatch" THEN "live" ELSE "dispatch"
  /\ UNCHANGED <<rowVars, storeVars, pass, stopping, chain, linkVars, sent,
                 crashes>>

(* The live loop queues dispatchPass and reconciliationPass in turn, each  *)
(* after the one before has ended; it looks at the stop flag once a round. *)
LiveEnqueue ==
  /\ \A i \in 1..Len(queue) : queue[i] = "sink"
  /\ stopping = "no" \/ liveNext = "live"
  /\ queue' = Append(queue, liveNext)
  /\ liveNext' = IF liveNext = "dispatch" THEN "live" ELSE "dispatch"
  /\ UNCHANGED <<rowVars, storeVars, pass, stopping, chain, linkVars, sent,
                 crashes>>

Running(passes, stage) ==
  queue # <<>> /\ Head(queue) \in passes /\ pass.stage = stage

(* The first pass has ended; the next one starts.                          *)
EndPass == queue' = Tail(queue) /\ pass' = NoPass
-----------------------------------------------------------------------------
(* A pass that begins after the stop flag was set does nothing.            *)
Unless(stopped, todo) == IF stopped THEN {} ELSE todo

(* pendingDispatches.                                                      *)
StartDispatch ==
  /\ Running({"dispatch"}, "start")
  /\ pass' = [NoPass EXCEPT !.stage = "loop",
                            !.todo = Unless(stopping # "no",
                                       {r \in Runs : dispatch[r] = "pending"})]
  /\ UNCHANGED <<rowVars, storeVars, queue, loopVars, chain, linkVars, sent,
                 crashes>>

(* A pending run is skipped without a connection; with one, beginOffer     *)
(* marks it before it is offered.                                          *)
BeginOffer(r) ==
  /\ Running({"dispatch"}, "loop")
  /\ r \in pass.todo
  /\ IF connected /\ dispatch[r] = "pending"
       THEN /\ dispatch' = [dispatch EXCEPT ![r] = "dispatching"]
            /\ pass' = [pass EXCEPT !.stage = "call", !.todo = @ \ {r},
                                    !.run = r, !.generation = generation]
       ELSE /\ pass' = [pass EXCEPT !.todo = @ \ {r}]
            /\ UNCHANGED dispatch
  /\ UNCHANGED <<completion, attempt, due, storeVars, queue, loopVars, chain,
                 linkVars, sent, crashes>>

(* Mutants: every offer counts as made; an uncertain offer is pending      *)
(* again.                                                                  *)
FinishDispatchOptimistic(state) ==
  /\ dispatch' = [dispatch EXCEPT ![pass.run] = "offered"]
  /\ pass' = [pass EXCEPT !.stage = "loop", !.run = None]

FinishDispatchRetry(state) ==
  /\ dispatch' = [dispatch EXCEPT ![pass.run] =
                    IF state = "unknown" THEN "pending" ELSE state]
  /\ pass' = [pass EXCEPT !.stage = "loop", !.run = None]

(* markOffered and markOfferOutcomeUnknown.                                *)
FinishDispatch(state) ==
  /\ dispatch' = [dispatch EXCEPT ![pass.run] = state]
  /\ pass' = [pass EXCEPT !.stage = "loop", !.run = None]

(* assertCurrent: the connection the pass took is the Runner's still.      *)
Current == connected /\ generation = pass.generation

(* connection.offer: without its connection the offer fails at once;       *)
CallOffer ==
  /\ Running({"dispatch"}, "call")
  /\ IF Current
       THEN pass' = [pass EXCEPT !.stage = "create"] /\ UNCHANGED dispatch
       ELSE FinishDispatch("unknown")
  /\ UNCHANGED <<completion, attempt, due, storeVars, queue, loopVars, chain,
                 linkVars, sent, crashes>>

(* createOffer takes its turn on the chain; then, if the connection is     *)
(* still there, the offer is sent and the pass waits for the Runner to     *)
(* accept it.                                                              *)
SendOffer ==
  /\ Running({"dispatch"}, "create")
  /\ chain = "free"
  /\ \/ /\ Current
        /\ inbox' = Append(inbox, pass.run)
        /\ sent' = [sent EXCEPT ![pass.run] = @ + 1]
        /\ deferred' = "pending"
        /\ pass' = [pass EXCEPT !.stage = "await"]
        /\ UNCHANGED dispatch
     \/ /\ ~Current \/ StoreFaults
        /\ FinishDispatch("unknown")
        /\ UNCHANGED <<inbox, sent, deferred>>
  /\ UNCHANGED <<completion, attempt, due, storeVars, queue, loopVars, chain,
                 connected, generation, frames, runner, crashes>>

(* The promise of the offer is settled; a failing markOffered is caught    *)
(* like a failing offer.                                                   *)
OfferSettled ==
  /\ Running({"dispatch"}, "await")
  /\ deferred \in {"resolved", "rejected"}
  /\ deferred' = "none"
  /\ \/ deferred = "resolved" /\ FinishDispatch("offered")
     \/ (deferred = "rejected" \/ StoreFaults) /\ FinishDispatch("unknown")
  /\ UNCHANGED <<completion, attempt, due, storeVars, queue, loopVars, chain,
                 connected, generation, frames, inbox, runner, sent, crashes>>

EndDispatch ==
  /\ Running({"dispatch"}, "loop")
  /\ pass.todo = {}
  /\ EndPass
  /\ UNCHANGED <<rowVars, storeVars, loopVars, chain, linkVars, sent, crashes>>

(* The store fails where nothing catches it, in pendingDispatches,         *)
(* beginOffer or markOfferOutcomeUnknown: the pass ends, the row stays as  *)
(* it is, and the live loop starts over.                                   *)
DispatchFails ==
  /\ StoreFaults
  /\ \/ Running({"dispatch"}, "start") /\ stopping = "no"
     \/ Running({"dispatch"}, "loop") /\ pass.todo # {}
     \/ Running({"dispatch"}, "call") /\ ~Current
     \/ Running({"dispatch"}, "create") /\ chain = "free"
     \/ Running({"dispatch"}, "await") /\ deferred # "pending"
  /\ EndPass
  /\ liveNext' = "dispatch"
  /\ deferred' = "none"
  /\ UNCHANGED <<rowVars, storeVars, stopping, chain, connected, generation, frames, inbox,
                 runner, sent, crashes>>
-----------------------------------------------------------------------------
(* dispose: the promise of an open offer is rejected, what was queued on   *)
(* the connection is dropped, and the Runner gives up what it was doing    *)
(* and will connect anew.                                                  *)
Dispose ==
  /\ connected' = FALSE
  /\ frames' = <<>>
  /\ deferred' = IF deferred = "pending" THEN "rejected" ELSE deferred
  /\ inbox' = <<>>
  /\ runner' = Idle
  /\ UNCHANGED generation

(* Mutant: runs with an uncertain offer are left out.                      *)
CandidatesOffered ==
  {r \in due : dispatch[r] = "offered" /\ completion[r] = "awaiting"}

(* pendingCompletions.                                                     *)
Candidates ==
  {r \in due : dispatch[r] \in {"offered", "unknown"} /\ completion[r] = "awaiting"}

Reconciling(stage) == Running({"startup", "live", "sink"}, stage)

StartReconcile ==
  /\ Reconciling("start")
  /\ pass' = [NoPass EXCEPT !.stage = "loop",
                            !.todo = Unless(stopping # "no", Candidates)]
  /\ UNCHANGED <<rowVars, storeVars, queue, loopVars, chain, linkVars, sent,
                 crashes>>

(* recordCompletionFailure: another attempt later, or none any more.       *)
RecordFailure(r) ==
  /\ attempt' = [attempt EXCEPT ![r] = @ + 1]
  /\ completion' = [completion EXCEPT ![r] =
                      IF attempt[r] + 1 >= MaxAttempts THEN "exhausted" ELSE @]
  /\ due' = due \ {r}

(* applyCompletion.                                                        *)
ApplyCompletion(r) ==
  /\ completion' = [completion EXCEPT ![r] = "applied"]
  /\ UNCHANGED <<attempt, due>>

(* reconcileCandidate: a stored completion is applied; none, or a store    *)
(* that fails, is a failed attempt.                                        *)
ReconcileCandidate(r) ==
  /\ Reconciling("loop")
  /\ r \in pass.todo
  /\ \/ r \in authority /\ ApplyCompletion(r)
     \/ (r \notin authority \/ StoreFaults) /\ RecordFailure(r)
  /\ pass' = [pass EXCEPT !.todo = @ \ {r}]
  /\ UNCHANGED <<dispatch, storeVars, queue, loopVars, chain, linkVars, sent,
                 crashes>>

(* shutdown awaits the queue as it was, which is at most the pass of one   *)
(* completion: the chain lets no second one in.                            *)
QueueAwaited == IF stopping = "queue" THEN "close" ELSE stopping

(* The end of a pass that complete waits for frees the chain, and the      *)
(* frame that started it is done.                                          *)
EndReconcile ==
  /\ Reconciling("loop")
  /\ pass.todo = {}
  /\ EndPass
  /\ IF Head(queue) = "sink"
       THEN /\ chain' = "free"
            /\ frames' = IF connected THEN Tail(frames) ELSE frames
            /\ stopping' = QueueAwaited
       ELSE UNCHANGED <<chain, frames, stopping>>
  /\ UNCHANGED <<rowVars, storeVars, liveNext, connected, generation, deferred,
                 inbox, runner, sent, crashes>>

(* The store fails in pendingCompletions, where a failed attempt is        *)
(* recorded, or in hasCompletionBlockers at the end: the pass ends.  The   *)
(* call that waits for it fails, and with it the connection; a daemon that *)
(* fails to start is started again.  For a live pass, which nobody waits   *)
(* for, a failure at the end is an EndReconcile like any other.            *)
ReconcileFails ==
  /\ StoreFaults
  /\ \/ Reconciling("start") /\ stopping = "no"
     \/ Reconciling("loop") /\ (pass.todo # {} \/ Head(queue) # "live")
  /\ pass' = NoPass
  /\ queue' = IF Head(queue) = "startup" THEN queue ELSE Tail(queue)
  /\ IF Head(queue) = "sink"
       THEN chain' = "free" /\ stopping' = QueueAwaited /\ Dispose
       ELSE UNCHANGED <<chain, stopping, linkVars>>
  /\ UNCHANGED <<rowVars, storeVars, liveNext, sent, crashes>>
-----------------------------------------------------------------------------
(* openSession takes its turn on the chain.                                *)
Connect ==
  /\ Up /\ stopping # "down"
  /\ ~connected
  /\ chain = "free"
  /\ generation < MaxConnections
  /\ connected' = TRUE
  /\ generation' = generation + 1
  /\ UNCHANGED <<rowVars, storeVars, coordVars, chain, frames, deferred, inbox,
                 runner, sent, crashes>>

(* The connection breaks, or a frame on it is refused.                     *)
Disconnect ==
  /\ connected
  /\ Dispose
  /\ UNCHANGED <<rowVars, storeVars, coordVars, chain, sent, crashes>>

NextFrame(kind) ==
  frames # <<>> /\ Head(frames).kind = kind /\ chain = "free"

(* handleFrame, accept_offer: the lease is granted, the Runner gets it and *)
(* the promise of the offer is resolved.                                   *)
HandleAccept ==
  /\ NextFrame("accept")
  /\ leased' = leased \cup {Head(frames).run}
  /\ runner' = [does |-> "running", run |-> Head(frames).run]
  /\ deferred' = IF deferred = "pending" THEN "resolved" ELSE deferred
  /\ frames' = Tail(frames)
  /\ UNCHANGED <<rowVars, authority, coordVars, chain, connected, generation,
                 inbox, sent, crashes>>

(* The connection breaks while accept stores the lease: the Runner never   *)
(* hears of it, and the promise of the offer is rejected.                  *)
AcceptUnanswered ==
  /\ NextFrame("accept")
  /\ leased' = leased \cup {Head(frames).run}
  /\ Dispose
  /\ UNCHANGED <<rowVars, authority, coordVars, chain, sent, crashes>>

(* handleFrame, complete_execution: the completion is stored, then the     *)
(* sink is called, which queues a reconciliation pass and waits for it.    *)
HandleComplete ==
  /\ NextFrame("complete")
  /\ authority' = authority \cup {Head(frames).run}
  /\ chain' = "sink"
  /\ queue' = Append(queue, "sink")
  /\ UNCHANGED <<rowVars, leased, pass, loopVars, linkVars, sent,
                 crashes>>

-----------------------------------------------------------------------------
(* The Runner's loop: nextOffer, accept, and wait for the lease.           *)
TakeOffer ==
  /\ runner.does = "idle"
  /\ inbox # <<>>
  /\ inbox' = Tail(inbox)
  /\ frames' = Append(frames, [kind |-> "accept", run |-> Head(inbox)])
  /\ runner' = [does |-> "accepting", run |-> Head(inbox)]
  /\ UNCHANGED <<rowVars, storeVars, coordVars, chain, connected, generation,
                 deferred, sent, crashes>>

(* The run ends: its completion is sent, and no answer is waited for.      *)
FinishRun ==
  /\ runner.does = "running"
  /\ frames' = Append(frames, [kind |-> "complete", run |-> runner.run])
  /\ runner' = Idle
  /\ UNCHANGED <<rowVars, storeVars, coordVars, chain, connected, generation,
                 deferred, inbox, sent, crashes>>

(* Mutant: an interrupted dispatch is pending again.                       *)
QuarantinedRetry == [r \in Runs |-> IF dispatch[r] = "dispatching" THEN "pending"
                                    ELSE dispatch[r]]

(* quarantineInterruptedDispatches.                                        *)
Quarantined == [r \in Runs |-> IF dispatch[r] = "dispatching" THEN "unknown"
                               ELSE dispatch[r]]

(* Memory and connection are gone with the process.                        *)
Forget ==
  /\ pass' = NoPass /\ liveNext' = "dispatch"
  /\ chain' = "free"
  /\ connected' = FALSE /\ frames' = <<>> /\ deferred' = "none"
  /\ inbox' = <<>> /\ runner' = Idle

(* startup: interrupted dispatches are quarantined, and a first            *)
(* reconciliation pass is queued.                                          *)
Startup ==
  /\ stopping' = "no"
  /\ dispatch' = Quarantined
  /\ queue' = <<"startup">>
  /\ Forget
  /\ UNCHANGED <<completion, attempt, due, storeVars, generation, sent>>

Crash ==
  /\ crashes < MaxCrashes
  /\ stopping # "down"
  /\ crashes' = crashes + 1
  /\ Startup

Start ==
  /\ stopping = "down"
  /\ Startup
  /\ UNCHANGED crashes
-----------------------------------------------------------------------------
(* The daemon is told to stop, by its supervisor's quiesce call, which     *)
(* leaves the user interface open, or by a signal, which closes it: the    *)
(* stop flag is set, and the live loop is waited for.                      *)
Stop ==
  /\ crashes < MaxCrashes
  /\ Up /\ stopping = "no"
  /\ crashes' = crashes + 1
  /\ stopping' = "live"
  /\ UNCHANGED <<rowVars, storeVars, queue, pass, liveNext, chain, linkVars, sent>>

(* The live loop has ended: neither of its passes is queued nor next.      *)
LiveEnded ==
  /\ stopping = "live"
  /\ liveNext = "dispatch"
  /\ \A i \in 1..Len(queue) : queue[i] = "sink"
  /\ stopping' = IF queue = <<>> THEN "close" ELSE "queue"
  /\ UNCHANGED <<rowVars, storeVars, queue, pass, liveNext, chain, linkVars, sent,
                 crashes>>

(* server.shutdown, and the process ends.                                  *)
CloseServer ==
  /\ stopping = "close"
  /\ stopping' = "down"
  /\ queue' = <<>>
  /\ Forget
  /\ UNCHANGED <<rowVars, storeVars, generation, sent, crashes>>

-----------------------------------------------------------------------------
CoordinatorStep ==
  \/ StartDispatch \/ CallOffer \/ SendOffer \/ OfferSettled \/ EndDispatch
  \/ StartReconcile \/ EndReconcile
  \/ \E r \in Runs : BeginOffer(r) \/ ReconcileCandidate(r)

ConnectionStep == HandleAccept \/ HandleComplete

RunnerStep == TakeOffer \/ FinishRun

ShutdownStep == LiveEnded \/ CloseServer

Next ==
  \/ CoordinatorStep \/ DispatchFails \/ ReconcileFails \/ LiveEnqueue
  \/ ConnectionStep \/ AcceptUnanswered \/ Connect \/ Disconnect
  \/ RunnerStep
  \/ Crash \/ Start \/ Stop \/ ShutdownStep
  \/ \E r \in Runs : Create(r) \/ BecomeDue(r)

Spec == Init /\ [][Next]_vars

(* The event loop runs what is ready, timers fire, and the Runner goes on; *)
(* nothing is assumed of users, failures and new connections.              *)
FairSpec ==
  /\ Spec
  /\ WF_vars(CoordinatorStep)
  /\ WF_vars(LiveEnqueue)
  /\ WF_vars(ConnectionStep)
  /\ WF_vars(RunnerStep)
  /\ WF_vars(ShutdownStep)
  /\ \A r \in Runs : WF_vars(BecomeDue(r))
-----------------------------------------------------------------------------
PassType == [stage : {"start", "loop", "call", "create", "await"}, todo : SUBSET Runs,
             run : Runs \cup {None}, generation : Nat]

FrameType == [kind : {"accept", "complete"}, run : Runs]

RunnerType == [does : {"idle", "accepting", "running"}, run : Runs \cup {None}]

(* Every variable keeps its type.                                          *)
TypeOK ==
  /\ dispatch \in [Runs -> {"absent", "pending", "dispatching", "offered", "unknown"}]
  /\ completion \in [Runs -> {"awaiting", "applied", "exhausted"}]
  /\ attempt \in [Runs -> 0..MaxAttempts]
  /\ due \subseteq Runs /\ leased \subseteq Runs /\ authority \subseteq Runs
  /\ queue \in Seq({"startup", "dispatch", "live", "sink"})
  /\ pass \in PassType
  /\ liveNext \in {"dispatch", "live"}
  /\ stopping \in {"no", "live", "queue", "close", "down"}
  /\ chain \in {"free", "sink"}
  /\ connected \in BOOLEAN /\ generation \in Nat
  /\ frames \in Seq(FrameType)
  /\ deferred \in {"none", "pending", "resolved", "rejected"}
  /\ inbox \in Seq(Runs)
  /\ runner \in RunnerType
  /\ sent \in [Runs -> Nat]
  /\ crashes \in Nat

(* A run is offered to a Runner at most once, over lost connections and    *)
(* crashes at any point of the offer ("quarantines offer uncertainty and   *)
(* never re-offers it").                                                   *)
OfferedOnce == \A r \in Runs : sent[r] <= 1

(* A run whose row is pending, which the next dispatch pass will offer,    *)
(* has not reached a Runner: over lost connections, failing stores and     *)
(* crashes, no row of an offer that may have been made falls back to       *)
(* pending.  (What the user sees is coarser: readRun shows a row that is   *)
(* dispatching as pending_runner too, and so a run that may be executing.) *)
PendingIsUntouched ==
  \A r \in Runs : dispatch[r] \in {"absent", "pending"} =>
    sent[r] = 0 /\ r \notin leased /\ r \notin authority

(* A run shown as running has a lease, and only a run whose completion is  *)
(* stored is shown with a result.                                          *)
ShownIsStored ==
  \A r \in Runs : /\ dispatch[r] = "offered" => r \in leased
                  /\ completion[r] = "applied" => r \in authority

(* The last attempt is the one that exhausts a run's retries.              *)
AttemptsBounded ==
  \A r \in Runs : completion[r] = "awaiting" => attempt[r] < MaxAttempts

(* The chain is held for the sink only while its pass is queued, so that   *)
(* somebody is there to free it.                                           *)
SinkPassQueued ==
  chain = "sink" <=> \E i \in 1..Len(queue) : queue[i] = "sink"

(* Once Core has stored the completion of a run, the run is settled for    *)
(* the user, unless the sink is stuck for ever (SinkReturns), the store    *)
(* failed at both ways to end the offer, which leaves the row for the next *)
(* startup, the daemon stays down, or the store never stops failing.       *)
CompletionSettles ==
  \/ []<><<DispatchFails \/ ReconcileFails>>_vars
  \/ \A r \in Runs :
       r \in authority ~> \/ completion[r] \in {"applied", "exhausted"}
                          \/ [](chain = "sink")
                          \/ [](dispatch[r] = "dispatching")
                          \/ [](stopping = "down")

(* A daemon that is told to stop does so, whatever its coordinator, the    *)
(* chain and the Runner are waiting for at that moment: the server that    *)
(* would reject their promises is closed last.  The exception is the sink  *)
(* that is stuck for ever (SinkReturns).                                   *)
ShutdownEnds ==
  stopping # "no" ~> stopping \in {"no", "down"} \/ [](chain = "sink")

(* "`RunCompletionSink` applies an accepted completion to the              *)
(* corresponding durable Run" (docs/contexts/execution/CONTEXT.md): a      *)
(* stored completion is applied in the end.                                *)
AcceptedIsApplied ==
  \A r \in Runs : r \in authority ~> completion[r] = "applied"

(* The same seam: the sink that complete waits for returns.                *)
SinkReturns == chain = "sink" ~> chain = "free"
=============================================================================

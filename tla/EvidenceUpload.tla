--------------------------- MODULE EvidenceUpload ---------------------------
(***************************************************************************)
(* The way of a run's evidence from the Runner to Core: Trace events and   *)
(* Artifacts are written to the Runner's spool (SqliteRunnerSpool), drained *)
(* by two pumps (ArtifactUploadPump, then TraceUploadPump) at the end of   *)
(* the run or, after a reconnect or a restart, by replayPendingRuns, and   *)
(* stored by Core (ArtifactUploadService, RunnerSessionService.ingest).    *)
(*                                                                         *)
(* The spool and Core's tables are durable; the Runner's process, Core's   *)
(* process and the connection may fail at any step.  An Artifact is        *)
(* identified by its run and the event that captures it.                   *)
(***************************************************************************)
EXTENDS Naturals, FiniteSets

CONSTANTS Runs,
          Length,        \* a run records events 1..Length; the last one ends it
          Observations,  \* the events that capture an Artifact first
          Findings,      \* the events that carry a finding
          Refs,          \* Refs[n]: the captures whose Artifacts event n names
          ChunkCount,    \* chunks of an Artifact
          BatchLimit,    \* traceBatchMaximumEvents
          MaxFaults,     \* bound on crashes, broken connections, store errors
          None

Events    == 1..Length
Chunks    == 1..ChunkCount
Artifacts == Runs \X Observations

ASSUME SizesAreNat == /\ Length \in Nat \ {0} /\ ChunkCount \in Nat \ {0}
                      /\ BatchLimit \in Nat \ {0} /\ MaxFaults \in Nat
ASSUME EventKinds  == Observations \subseteq Events /\ Findings \subseteq Events
ASSUME RefsArePast == /\ Refs \in [Events -> SUBSET Observations]
                      /\ \A n \in Events : \A m \in Refs[n] : m <= n
ASSUME NoneIsNew   == None \notin Runs /\ \A S \in SUBSET Chunks : None # S

VARIABLES
  \* the Runner's spool
  spooled,     \* spooled[r]: sequence numbers of r in spool_events
  manifests,   \* spool_artifact_manifests
  chunks,      \* chunks[a]: spool_artifact_chunks
  progress,    \* progress[a]: the chunks Core last reported missing, or None
  \* the Runner's process
  runner,      \* what it does
  recorded,    \* recorded[r]: events of r appended so far
  \* the connection
  connected,
  request,     \* the frame on its way to Core
  reply,       \* the answer on its way to the Runner
  \* Core
  call,        \* the call its promise chain executes
  lease,       \* lease[r]: "none", "live", "lost", "completed"
  cursor,      \* cursor[r]: next_sequence_number; trace_events holds what is below
  findings,    \* rows of findings, by run and event
  registered, verified,  \* artifact_upload_manifests, by status
  stored,      \* stored[a]: artifact_upload_chunks
  faults       \* faults so far

spoolVars == <<spooled, manifests, chunks, progress>>
linkVars  == <<connected, request, reply>>
coreVars  == <<call, lease, cursor, findings, registered, verified, stored>>
vars == <<spooled, manifests, chunks, progress, runner, recorded, connected,
          request, reply, call, lease, cursor, findings, registered, verified,
          stored, faults>>

Doing(what) == [does |-> what, run |-> None, todo |-> {}, stage |-> "none",
                arts |-> {}, next |-> 1]

NoFrame == [kind |-> "none", run |-> None, event |-> 0, chunk |-> 0, batch |-> {}]
NoReply == [kind |-> "none", next |-> 0, missing |-> {}]
NoCall  == [frame |-> NoFrame, stage |-> "none", next |-> 0, live |-> FALSE]

Init ==
  /\ spooled = [r \in Runs |-> {}] /\ manifests = {}
  /\ chunks = [a \in Artifacts |-> {}] /\ progress = [a \in Artifacts |-> None]
  /\ runner = Doing("idle") /\ recorded = [r \in Runs |-> 0]
  /\ connected = TRUE /\ request = NoFrame /\ reply = NoReply
  /\ call = NoCall
  /\ lease = [r \in Runs |-> "none"] /\ cursor = [r \in Runs |-> 1]
  /\ findings = {} /\ registered = {} /\ verified = {}
  /\ stored = [a \in Artifacts |-> {}]
  /\ faults = 0

First(S) == CHOOSE n \in S : \A m \in S : n <= m
ArtifactsOf(r) == {n \in Observations : <<r, n>> \in manifests}
-----------------------------------------------------------------------------
(* The Runner executes one run at a time.                                  *)

(* An offer is accepted: Core grants the lease, the Runner saves it.       *)
Accept(r) ==
  /\ runner.does = "idle" /\ connected
  /\ request = NoFrame /\ call = NoCall
  /\ lease[r] = "none"
  /\ lease' = [lease EXCEPT ![r] = "live"]
  /\ runner' = [Doing("execute") EXCEPT !.run = r]
  /\ UNCHANGED <<spoolVars, recorded, linkVars, call, cursor, findings,
                 registered, verified, stored, faults>>

(* The artifact a of the next event is captured, but not saved in full.    *)
Capturing(a) ==
  /\ runner.does = "execute" /\ runner.run = a[1]
  /\ a[2] = recorded[a[1]] + 1
  /\ chunks[a] # Chunks

SaveArtifactManifest(a) ==
  /\ Capturing(a) /\ a \notin manifests
  /\ manifests' = manifests \cup {a}
  /\ UNCHANGED <<spooled, chunks, progress, runner, recorded, linkVars,
                 coreVars, faults>>

SaveArtifactChunk(a) ==
  /\ Capturing(a) /\ a \in manifests
  /\ chunks' = [chunks EXCEPT ![a] = @ \cup {First(Chunks \ @)}]
  /\ UNCHANGED <<spooled, manifests, progress, runner, recorded, linkVars,
                 coreVars, faults>>

(* SpoolingTraceRecorder.append.                                           *)
AppendEvent(r) ==
  LET n == recorded[r] + 1 IN
    /\ runner.does = "execute" /\ runner.run = r
    /\ n \in Events
    /\ n \in Observations => chunks[<<r, n>>] = Chunks
    /\ spooled' = [spooled EXCEPT ![r] = @ \cup {n}]
    /\ recorded' = [recorded EXCEPT ![r] = n]
    /\ UNCHANGED <<manifests, chunks, progress, runner, linkVars, coreVars,
                   faults>>

(* A new pump for the run; ArtifactUploadPump.drain comes first.           *)
Drain(state, r) ==
  [state EXCEPT !.run = r, !.stage = "artifacts", !.arts = ArtifactsOf(r),
                !.next = 1]

BeginFinalize(r) ==
  /\ runner.does = "execute" /\ runner.run = r
  /\ recorded[r] = Length
  /\ runner' = Drain(Doing("finalize"), r)
  /\ UNCHANGED <<spoolVars, recorded, linkVars, coreVars, faults>>

(* The run fails: its target, the spool's hard limit, the end of the lease *)
(* window.  The loop of main reconnects.                                   *)
AbandonRun ==
  /\ runner.does \in {"execute", "finalize"}
  /\ runner' = Doing("connect")
  /\ UNCHANGED <<spoolVars, recorded, linkVars, coreVars, faults>>

(* A closed connection fails the offer loop and every request; in a replay *)
(* the error leaves main, and the process ends.                            *)
NoticeClosed ==
  /\ ~connected
  /\ \/ runner.does \in {"idle", "finalize"} /\ runner' = Doing("connect")
     \/ runner.does = "replay" /\ runner' = Doing("down")
  /\ UNCHANGED <<spoolVars, recorded, linkVars, coreVars, faults>>

Restart ==
  /\ runner.does = "down"
  /\ runner' = Doing("connect")
  /\ UNCHANGED <<spoolVars, recorded, linkVars, coreVars, faults>>

(* Mutant: the runs that only have Trace left are not replayed.            *)
PendingArtifactRuns == {r \in Runs : ArtifactsOf(r) # {}}

PendingRunIds == {r \in Runs : spooled[r] # {} \/ ArtifactsOf(r) # {}}

(* The new connection replaces the old one: what was under way on it is    *)
(* not answered any more.  replayPendingRuns follows.                      *)
Connect ==
  /\ runner.does = "connect"
  /\ connected' = TRUE /\ request' = NoFrame /\ reply' = NoReply
  /\ call' = [call EXCEPT !.live = FALSE]
  /\ runner' = [Doing("replay") EXCEPT !.todo = PendingRunIds]
  /\ UNCHANGED <<spoolVars, recorded, lease, cursor, findings, registered,
                 verified, stored, faults>>

ReplayRun(r) ==
  /\ runner.does = "replay" /\ runner.stage = "none"
  /\ r \in runner.todo
  /\ runner' = Drain([runner EXCEPT !.todo = @ \ {r}], r)
  /\ UNCHANGED <<spoolVars, recorded, linkVars, coreVars, faults>>

EndReplay ==
  /\ runner.does = "replay" /\ runner.stage = "none"
  /\ runner.todo = {}
  /\ runner' = Doing("idle")
  /\ UNCHANGED <<spoolVars, recorded, linkVars, coreVars, faults>>
-----------------------------------------------------------------------------
(* The pumps.  A pump sends a frame and waits for its answer.              *)

Waiting == request # NoFrame \/ reply # NoReply \/ call.live

Pumping(stage) == runner.stage = stage /\ connected /\ ~Waiting

Send(frame) ==
  /\ request' = frame
  /\ UNCHANGED <<spoolVars, recorded, connected, reply, coreVars, faults>>

(* The Artifact the pump works on, and its chunks to send.                 *)
Current == <<runner.run, First(runner.arts)>>

PendingArtifactChunks(a) == chunks[a] \cap progress[a]

RegisterManifest ==
  /\ Pumping("artifacts") /\ runner.arts # {}
  /\ progress[Current] = None
  /\ Send([NoFrame EXCEPT !.kind = "manifest", !.run = runner.run,
                          !.event = Current[2]])
  /\ UNCHANGED runner

UploadChunk ==
  /\ Pumping("artifacts") /\ runner.arts # {}
  /\ progress[Current] # None
  /\ PendingArtifactChunks(Current) # {}
  /\ Send([NoFrame EXCEPT !.kind = "chunk", !.run = runner.run,
                          !.event = Current[2],
                          !.chunk = First(PendingArtifactChunks(Current))])
  /\ UNCHANGED runner

(* Nothing is left to send for an Artifact Core has not acknowledged: it   *)
(* stays in the spool.                                                     *)
LeaveArtifact ==
  /\ Pumping("artifacts") /\ runner.arts # {}
  /\ progress[Current] # None
  /\ PendingArtifactChunks(Current) = {}
  /\ runner' = [runner EXCEPT !.arts = @ \ {Current[2]}]
  /\ UNCHANGED <<spoolVars, recorded, linkVars, coreVars, faults>>

ArtifactsDrained ==
  /\ Pumping("artifacts") /\ runner.arts = {}
  /\ runner' = [runner EXCEPT !.stage = "trace"]
  /\ UNCHANGED <<spoolVars, recorded, linkVars, coreVars, faults>>

(* Mutant: the chunks Core still misses are the ones dropped.              *)
AcknowledgeArtifactProgressInverted(a, missing) ==
  /\ manifests' = IF missing = {} THEN manifests \ {a} ELSE manifests
  /\ chunks' = [chunks EXCEPT ![a] = @ \ missing]
  /\ progress' = [progress EXCEPT ![a] = IF missing = {} THEN None ELSE missing]

(* acknowledgeArtifactProgress: the last acknowledgement removes the       *)
(* Artifact from the spool, the others the chunks Core has.                *)
AcknowledgeArtifactProgress(a, missing) ==
  /\ manifests' = IF missing = {} THEN manifests \ {a} ELSE manifests
  /\ chunks' = [chunks EXCEPT ![a] = @ \cap missing]
  /\ progress' = [progress EXCEPT ![a] = IF missing = {} THEN None ELSE missing]

ReceiveProgress ==
  /\ runner.stage = "artifacts" /\ reply.kind = "progress"
  /\ AcknowledgeArtifactProgress(Current, reply.missing)
  /\ runner' = IF reply.missing = {}
                 THEN [runner EXCEPT !.arts = @ \ {Current[2]}] ELSE runner
  /\ reply' = NoReply
  /\ UNCHANGED <<spooled, recorded, connected, request, coreVars, faults>>

(* spool.pending: in order, from the pump's cursor.                        *)
Pending == {n \in spooled[runner.run] : n >= runner.next}

FirstOf(S, k) == {n \in S : Cardinality({m \in S : m <= n}) <= k}

(* A batch is cut by the number of its events or by their bytes.           *)
SubmitBatch ==
  /\ Pumping("trace") /\ Pending # {}
  /\ \E k \in 1..BatchLimit :
       Send([NoFrame EXCEPT !.kind = "batch", !.run = runner.run,
                            !.batch = FirstOf(Pending, k)])
  /\ UNCHANGED runner

(* Mutant: the event Core expects next is deleted as well.                 *)
AcknowledgeNext(r, next) ==
  spooled' = [spooled EXCEPT ![r] = {n \in @ : n > next}]

(* spool.acknowledge: deletes the rows below the number Core expects.      *)
Acknowledge(r, next) ==
  spooled' = [spooled EXCEPT ![r] = {n \in @ : n >= next}]

ReceiveAck ==
  /\ runner.stage = "trace" /\ reply.kind = "ack"
  /\ Acknowledge(runner.run, reply.next)
  /\ runner' = [runner EXCEPT !.next = IF reply.next > @ THEN reply.next ELSE @]
  /\ reply' = NoReply
  /\ UNCHANGED <<manifests, chunks, progress, recorded, connected, request,
                 coreVars, faults>>

ReplayDrained ==
  /\ runner.does = "replay" /\ Pumping("trace") /\ Pending = {}
  /\ runner' = [runner EXCEPT !.run = None, !.stage = "none"]
  /\ UNCHANGED <<spoolVars, recorded, linkVars, coreVars, faults>>

(* Mutant: the run is completed after its first batch.                     *)
CompleteEarly ==
  /\ runner.does = "finalize" /\ Pumping("trace")
  /\ runner.next > 1
  /\ Send([NoFrame EXCEPT !.kind = "complete", !.run = runner.run])
  /\ runner' = Doing("idle")

(* The completion is written to the stream; it has no answer.              *)
Complete ==
  /\ runner.does = "finalize" /\ Pumping("trace") /\ Pending = {}
  /\ Send([NoFrame EXCEPT !.kind = "complete", !.run = runner.run])
  /\ runner' = Doing("idle")
-----------------------------------------------------------------------------
(* Core: one call at a time, each of its transactions a step.              *)

TakeFrame ==
  /\ request # NoFrame /\ call = NoCall
  /\ call' = [frame |-> request, stage |-> request.kind, live |-> TRUE,
              next |-> IF request.batch = {} THEN 0 ELSE First(request.batch)]
  /\ request' = NoFrame
  /\ UNCHANGED <<spoolVars, runner, recorded, connected, reply, lease, cursor,
                 findings, registered, verified, stored, faults>>

Artifact == <<call.frame.run, call.frame.event>>

(* The call ends with an answer, which a closed connection loses.          *)
Answer(answer) ==
  /\ call' = NoCall
  /\ reply' = IF call.live THEN answer ELSE reply
  /\ UNCHANGED <<connected, request>>

(* The call ends with an error, which closes its connection.               *)
Refuse ==
  /\ call' = NoCall
  /\ connected' = (connected /\ ~call.live)
  /\ request' = IF call.live THEN NoFrame ELSE request
  /\ UNCHANGED reply

(* registerArtifactManifest: mayStartAction, then registerManifest.  The   *)
(* connection has the session that owns the run: a Runner that comes back  *)
(* resumes it (SessionResume); one that cannot is left out here.           *)
ServeManifest ==
  /\ call.stage = "manifest"
  /\ \/ /\ lease[call.frame.run] = "live"
        /\ registered' = registered \cup {Artifact}
        /\ call' = [call EXCEPT !.stage = "progress"]
        /\ UNCHANGED linkVars
     \/ /\ lease[call.frame.run] # "live"
        /\ Refuse
        /\ UNCHANGED registered
  /\ UNCHANGED <<spoolVars, runner, recorded, lease, cursor, findings,
                 verified, stored, faults>>

(* uploadArtifactChunk: needs the registration, not the lease.             *)
ServeChunk ==
  /\ call.stage = "chunk"
  /\ IF Artifact \in registered
       THEN /\ stored' = IF Artifact \in verified THEN stored
                         ELSE [stored EXCEPT ![Artifact] =
                                 @ \cup {call.frame.chunk}]
            /\ call' = [call EXCEPT !.stage = "progress"]
            /\ UNCHANGED linkVars
       ELSE Refuse /\ UNCHANGED stored
  /\ UNCHANGED <<spoolVars, runner, recorded, lease, cursor, findings,
                 registered, verified, faults>>

(* Mutant: the Artifact is complete with its first chunk.                  *)
MissingRangesFirst(a) ==
  IF a \in verified \/ stored[a] # {} THEN {} ELSE Chunks

MissingRanges(a) == IF a \in verified THEN {} ELSE Chunks \ stored[a]

(* progressFor: an Artifact that misses nothing is verified and committed; *)
(* the object and the manifest that are written before markVerified may be *)
(* written again.                                                          *)
ServeProgress ==
  /\ call.stage = "progress"
  /\ verified' = IF MissingRanges(Artifact) = {} THEN verified \cup {Artifact}
                 ELSE verified
  /\ Answer([NoReply EXCEPT !.kind = "progress",
                            !.missing = MissingRanges(Artifact)])
  /\ UNCHANGED <<spoolVars, runner, recorded, lease, cursor, findings,
                 registered, stored, faults>>

Unacknowledged(r, n) == {m \in Refs[n] : <<r, m>> \notin verified}

(* TraceIngestor.ingest and appendTraceEvent: the Artifacts come first, in *)
(* a Core with an Artifact store (self-hosted); an event below the cursor  *)
(* is there already, and the same one, as the spool never changes it.      *)
AppendResult(r, n) ==
  IF Unacknowledged(r, n) # {} THEN "artifact_unacknowledged"
  ELSE CASE n < cursor[r] -> "duplicate"
         [] n > cursor[r] -> "sequence_gap"
         [] n = cursor[r] -> "accepted"

(* One event of a batch.                                                   *)
IngestEvent ==
  LET r == call.frame.run
      n == First(call.frame.batch)
      Ingested(next, stage) ==
        /\ call' = [call EXCEPT !.frame.batch = @ \ {n}, !.next = next,
                                !.stage = stage]
        /\ UNCHANGED linkVars
  IN /\ call.stage = "batch" /\ call.frame.batch # {}
     /\ CASE AppendResult(r, n) = "artifact_unacknowledged" ->
               Refuse /\ UNCHANGED cursor
          [] AppendResult(r, n) = "duplicate" ->
               Ingested(cursor[r], "batch") /\ UNCHANGED cursor
          [] AppendResult(r, n) = "sequence_gap" ->
               /\ Answer([NoReply EXCEPT !.kind = "ack", !.next = cursor[r]])
               /\ UNCHANGED cursor
          [] AppendResult(r, n) = "accepted" ->
               /\ cursor' = [cursor EXCEPT ![r] = n + 1]
               /\ Ingested(n + 1, IF n \in Findings THEN "finding" ELSE "batch")
     /\ UNCHANGED <<spoolVars, runner, recorded, lease, findings, registered,
                    verified, stored, faults>>

(* ingestFinding, in a transaction of its own, after an accepted event.    *)
IngestFinding ==
  /\ call.stage = "finding"
  /\ findings' = findings \cup {<<call.frame.run, call.next - 1>>}
  /\ call' = [call EXCEPT !.stage = "batch"]
  /\ UNCHANGED <<spoolVars, runner, recorded, linkVars, lease, cursor,
                 registered, verified, stored, faults>>

AnswerBatch ==
  /\ call.stage = "batch" /\ call.frame.batch = {}
  /\ Answer([NoReply EXCEPT !.kind = "ack", !.next = call.next])
  /\ UNCHANGED <<spoolVars, runner, recorded, lease, cursor, findings,
                 registered, verified, stored, faults>>

ServeComplete ==
  /\ call.stage = "complete"
  /\ \/ /\ lease[call.frame.run] = "live"
        /\ lease' = [lease EXCEPT ![call.frame.run] = "completed"]
        /\ call' = NoCall /\ UNCHANGED linkVars
     \/ /\ lease[call.frame.run] # "live"
        /\ Refuse /\ UNCHANGED lease
  /\ UNCHANGED <<spoolVars, runner, recorded, cursor, findings, registered,
                 verified, stored, faults>>

(* The lease of a run ends.                                                *)
Expire(r) ==
  /\ lease[r] = "live"
  /\ lease' = [lease EXCEPT ![r] = "lost"]
  /\ UNCHANGED <<spoolVars, runner, recorded, linkVars, call, cursor, findings,
                 registered, verified, stored, faults>>
-----------------------------------------------------------------------------
(* Faults.                                                                 *)

Fault == faults < MaxFaults /\ faults' = faults + 1

(* What was under way on a connection that breaks.                         *)
Break == connected' = FALSE /\ request' = NoFrame /\ reply' = NoReply

Disconnect ==
  /\ Fault /\ connected /\ Break
  /\ call' = [call EXCEPT !.live = FALSE]
  /\ UNCHANGED <<spoolVars, runner, recorded, lease, cursor, findings,
                 registered, verified, stored>>

(* The Runner's process ends; a connect that fails ends it, too.           *)
RunnerCrash ==
  /\ Fault /\ runner.does # "down" /\ Break
  /\ runner' = Doing("down")
  /\ call' = [call EXCEPT !.live = FALSE]
  /\ UNCHANGED <<spoolVars, recorded, lease, cursor, findings, registered,
                 verified, stored>>

(* Core ends and starts again.                                             *)
CoreCrash ==
  /\ Fault /\ (connected \/ call # NoCall) /\ Break
  /\ call' = NoCall
  /\ UNCHANGED <<spoolVars, runner, recorded, lease, cursor, findings,
                 registered, verified, stored>>

(* A transaction of the call fails and leaves nothing behind.              *)
StoreFault ==
  /\ Fault /\ call # NoCall /\ Refuse
  /\ UNCHANGED <<spoolVars, runner, recorded, lease, cursor, findings,
                 registered, verified, stored>>
-----------------------------------------------------------------------------
RunnerStep ==
  \/ \E a \in Artifacts : SaveArtifactManifest(a) \/ SaveArtifactChunk(a)
  \/ \E r \in Runs : AppendEvent(r) \/ BeginFinalize(r) \/ ReplayRun(r)
  \/ NoticeClosed \/ Restart \/ Connect \/ EndReplay
  \/ RegisterManifest \/ UploadChunk \/ LeaveArtifact \/ ArtifactsDrained
  \/ ReceiveProgress \/ SubmitBatch \/ ReceiveAck \/ ReplayDrained \/ Complete

CoreStep ==
  \/ TakeFrame \/ ServeManifest \/ ServeChunk \/ ServeProgress
  \/ IngestEvent \/ IngestFinding \/ AnswerBatch \/ ServeComplete

(* Every run has ended and the Runner waits for another one.               *)
Quiet ==
  /\ runner.does = "idle" /\ connected /\ request = NoFrame /\ call = NoCall
  /\ \A r \in Runs : lease[r] \in {"lost", "completed"}
  /\ UNCHANGED vars

Next ==
  \/ RunnerStep \/ CoreStep \/ AbandonRun
  \/ \E r \in Runs : Accept(r) \/ Expire(r)
  \/ Disconnect \/ RunnerCrash \/ CoreCrash \/ StoreFault
  \/ Quiet

Spec == Init /\ [][Next]_vars

(* The processes go on when they can, and whoever supervises the Runner    *)
(* starts it again when it has ended.                                      *)
FairSpec == Spec /\ WF_vars(RunnerStep) /\ WF_vars(CoreStep)
-----------------------------------------------------------------------------
FrameType == [kind : {"none", "manifest", "chunk", "batch", "complete"},
              run : Runs \cup {None}, event : 0..Length,
              chunk : 0..ChunkCount, batch : SUBSET Events]

RunnerType == [does : {"idle", "execute", "finalize", "connect", "replay", "down"},
               run : Runs \cup {None}, todo : SUBSET Runs,
               stage : {"none", "artifacts", "trace"},
               arts : SUBSET Observations, next : 1..(Length + 1)]

ReplyType == [kind : {"none", "progress", "ack"}, next : 0..(Length + 1),
              missing : SUBSET Chunks]

CallType == [frame : FrameType, live : BOOLEAN, next : 0..(Length + 1),
             stage : {"none", "manifest", "chunk", "progress", "batch",
                      "finding", "complete"}]

(* The states of the spool, of the processes and of Core's tables.         *)
TypeOK ==
  /\ spooled \in [Runs -> SUBSET Events] /\ manifests \subseteq Artifacts
  /\ chunks \in [Artifacts -> SUBSET Chunks]
  /\ progress \in [Artifacts -> {None} \cup SUBSET Chunks]
  /\ runner \in RunnerType
  /\ recorded \in [Runs -> 0..Length]
  /\ connected \in BOOLEAN /\ request \in FrameType
  /\ reply \in ReplyType
  /\ call \in CallType
  /\ lease \in [Runs -> {"none", "live", "lost", "completed"}]
  /\ cursor \in [Runs -> 1..(Length + 1)]
  /\ findings \subseteq Runs \X Findings
  /\ registered \subseteq Artifacts /\ verified \subseteq registered
  /\ stored \in [Artifacts -> SUBSET Chunks]
  /\ faults \in 0..MaxFaults

(* An event that was recorded is in the spool until Core has stored it:    *)
(* whatever crashes, is lost or resent, acknowledge deletes only rows that *)
(* are durable in Core ("a disconnect can never lose an already-recorded   *)
(* Trace event", spooling-trace-recorder.ts).                              *)
EventsKept ==
  \A r \in Runs : \A n \in 1..recorded[r] : n \in spooled[r] \/ n < cursor[r]

(* The same for Artifacts: each chunk of the Artifact of a recorded        *)
(* observation is in the spool or in Core, with whatever progress was      *)
(* saved, lost or reported twice.                                          *)
ChunksKept ==
  \A a \in Artifacts :
    a[2] <= recorded[a[1]] => chunks[a] \cup stored[a] = Chunks

(* Core never stores a Trace event that names an Artifact it does not have *)
(* in full (TraceIngestor.ingest, ArtifactUploadService.progressFor).      *)
TraceHasEvidence ==
  \A r \in Runs : \A n \in Events :
    n < cursor[r] => \A m \in Refs[n] : stored[<<r, m>>] = Chunks

(* The Runner never makes Core refuse a Trace event: whatever was lost and *)
(* resent, the first pump has delivered the Artifacts an event names when  *)
(* the second one sends it, and no event is sent ahead of its predecessor. *)
TraceAccepted ==
  call.stage = "batch" /\ call.frame.batch # {} =>
    AppendResult(call.frame.run, First(call.frame.batch))
      \in {"accepted", "duplicate"}

(* A run that Core shows as completed has its whole Trace: finalize drains *)
(* both pumps before it completes, and no fault lets it skip a batch.      *)
CompletedHasTrace ==
  \A r \in Runs : lease[r] = "completed" => cursor[r] = Length + 1

(* A manifest that Core has not registered, of a run whose lease is over:  *)
(* registerArtifactManifest refuses it for good.                           *)
Unregistrable ==
  \E a \in manifests : progress[a] = None /\ lease[a[1]] # "live"

(* What was recorded reaches Core, after any number of crashes, restarts   *)
(* and an expired lease, or the Runner holds an unregistrable manifest:    *)
(* the only obstacle that replayPendingRuns cannot get past.               *)
RecordedArrives ==
  \A r \in Runs : \A n \in Events :
    recorded[r] >= n ~> (cursor[r] > n \/ Unregistrable)

(* What is recorded and not uploaded can still be uploaded after the lease *)
(* has expired (docs/testing/windows-m3-manual-checklist.md:195).          *)
UploadedAfterExpiry ==
  \A r \in Runs : \A n \in Events : recorded[r] >= n ~> cursor[r] > n

(* An acknowledged finding event has been ingested: its row in findings is *)
(* there (docs/contexts/protocol/CONTEXT.md:6).                            *)
AcknowledgedFindingStored ==
  \A r \in Runs : \A n \in Findings :
    n <= recorded[r] /\ n \notin spooled[r] => <<r, n>> \in findings
=============================================================================

------------------------ MODULE EvidenceUploadProofs ------------------------
(***************************************************************************)
(* EvidenceUpload, for every number of runs, events, chunks and faults: no *)
(* recorded event and no chunk of a recorded Artifact is lost, Core holds  *)
(* the Artifacts of every event it has stored, and a completed run has its *)
(* whole Trace.                                                            *)
(***************************************************************************)
EXTENDS EvidenceUpload, NaturalsInduction, WellFoundedInduction, TLAPS

(* What the Runner knows of the run it works on.  Its cursor never runs    *)
(* ahead of Core's.                                                        *)
RunnerKnows ==
  /\ runner.does \in {"execute", "finalize"} => runner.run \in Runs
  /\ runner.does = "finalize" => recorded[runner.run] = Length
  /\ runner.stage # "none" =>
       /\ runner.does \in {"finalize", "replay"} /\ runner.run \in Runs
       /\ runner.next <= cursor[runner.run]

(* What a frame on its way to Core is about.                               *)
RequestKnows ==
  request # NoFrame =>
    /\ request.run \in Runs /\ request.kind # "none"
    /\ request.kind \in {"manifest", "chunk"} => request.event \in Observations
    /\ request.kind = "chunk" => request.chunk \in Chunks
    /\ request.kind = "complete" => cursor[request.run] = Length + 1

(* What the call that Core executes is about.                              *)
CallKnows ==
  call.stage # "none" =>
    /\ call.frame.run \in Runs
    /\ call.stage \in {"manifest", "chunk", "progress"} => call.frame.event \in Observations
    /\ call.stage = "chunk" => call.frame.chunk \in Chunks
    /\ call.stage = "batch" /\ call.frame.batch = {} => call.next <= cursor[call.frame.run]
    /\ call.stage = "finding" =>
         call.next <= cursor[call.frame.run] /\ call.next - 1 \in Findings
    /\ call.stage = "complete" => cursor[call.frame.run] = Length + 1

(* A pump waits for one answer at a time.                                  *)
OneAwaited ==
  /\ request # NoFrame => reply = NoReply /\ ~call.live
  /\ reply # NoReply => ~call.live

(* The answer a pump gets is the one to what it sent: a stage begins with  *)
(* nothing under way, and a frame of an older connection is not answered.  *)
IdleKnows ==
  /\ runner.does = "idle" =>
       /\ reply = NoReply
       /\ request # NoFrame => request.kind = "complete"
       /\ call.live => call.stage = "complete"
  /\ runner.does = "execute" => ~Waiting
  /\ runner.does = "replay" /\ runner.stage = "none" => ~Waiting

ArtifactPumpKnows ==
  runner.stage = "artifacts" =>
    /\ request # NoFrame => /\ request.kind \in {"manifest", "chunk"} /\ runner.arts # {}
                            /\ <<request.run, request.event>> = Current
    /\ call.live => /\ call.stage \in {"manifest", "chunk", "progress"} /\ runner.arts # {}
                    /\ Artifact = Current
    /\ reply # NoReply => /\ reply.kind = "progress" /\ runner.arts # {}
                          /\ Chunks \ reply.missing \subseteq stored[Current]

TracePumpKnows ==
  runner.stage = "trace" =>
    /\ request # NoFrame => request.kind = "batch" /\ request.run = runner.run
    /\ call.live => call.stage \in {"batch", "finding"} /\ call.frame.run = runner.run
    /\ reply # NoReply => reply.kind = "ack" /\ reply.next <= cursor[runner.run]

(* Core has verified only what it holds in full.                           *)
VerifiedInFull == \A a \in verified : stored[a] = Chunks

(* The Runner, the connection and Core agree on what is under way ...      *)
Protocol == /\ RunnerKnows /\ RequestKnows /\ CallKnows
            /\ OneAwaited /\ IdleKnows /\ ArtifactPumpKnows /\ TracePumpKnows

(* ... and nothing that was recorded is lost.                              *)
Kept == /\ VerifiedInFull /\ EventsKept /\ ChunksKept
        /\ TraceHasEvidence /\ CompletedHasTrace

IInv == TypeOK /\ Protocol /\ Kept
-----------------------------------------------------------------------------
(* A nonempty set of numbers has a first element.                          *)
LEMMA FirstIsLeast ==
  ASSUME NEW S \in SUBSET Nat, S # {}
  PROVE  First(S) \in S /\ \A m \in S : First(S) <= m
<1> DEFINE Less == {ss \in Nat \X Nat : ss[1] < ss[2]}
<1>1. IsWellFoundedOn(Less, Nat)
  BY NatLessThanWellFounded, Zenon DEF OpToRel, Less
<1>2. PICK n \in S : \A m \in S : <<m, n>> \notin Less
  BY <1>1, WFMin
<1>3. ASSUME NEW m \in S PROVE n <= m
  <2>1. m \in Nat /\ n \in Nat /\ ~(<<m, n>> \in Less)
    BY <1>2
  <2>2. m < n => <<m, n>> \in Less
    BY <2>1 DEF Less
  <2> QED
    BY <2>1, <2>2
<1> QED
  BY <1>2, <1>3 DEF First

(* An Artifact is a run and an event that captures one.                    *)
LEMMA ArtifactParts ==
  ASSUME NEW a \in Artifacts
  PROVE  a[1] \in Runs /\ a[2] \in Observations /\ a[2] \in Nat /\ a = <<a[1], a[2]>>
<1>1. Observations \subseteq Nat
  BY EventKinds, SizesAreNat DEF Events
<1>2. a[1] \in Runs /\ a[2] \in Observations /\ a = <<a[1], a[2]>>
  BY DEF Artifacts
<1> QED
  BY <1>1, <1>2

(* The sentinels have their types and are told apart by their kinds.       *)
LEMMA Sentinels ==
  /\ NoFrame \in FrameType /\ NoFrame.kind = "none"
  /\ NoReply \in ReplyType /\ NoReply.kind = "none"
  /\ NoCall \in CallType /\ NoCall.stage = "none" /\ NoCall.live = FALSE
BY SizesAreNat DEF NoFrame, NoReply, NoCall, FrameType, ReplyType, CallType, Events, Chunks

(* A Runner that does nothing for a run.                                   *)
LEMMA DoingIsRunner ==
  ASSUME NEW what \in {"idle", "execute", "finalize", "connect", "replay", "down"}
  PROVE  /\ Doing(what) \in RunnerType /\ Doing(what).does = what
         /\ Doing(what).stage = "none" /\ Doing(what).run = None
BY SizesAreNat DEF Doing, RunnerType

(* What is kept does not depend on the processes and the connection.       *)
LEMMA KeptFrame ==
  ASSUME Kept, UNCHANGED <<recorded, spooled, cursor, chunks, stored, verified, lease>>
  PROVE  Kept'
BY DEF Kept, VerifiedInFull, EventsKept, ChunksKept, TraceHasEvidence, CompletedHasTrace

(* What is under way does not depend on the spool.                         *)
LEMMA ProtocolFrame ==
  ASSUME Protocol, UNCHANGED <<runner, recorded, cursor, request, reply, call, stored>>
  PROVE  Protocol'
BY DEF Protocol, RunnerKnows, RequestKnows, CallKnows, OneAwaited, IdleKnows,
       ArtifactPumpKnows, TracePumpKnows, Waiting, Current, Artifact

(* The Runner turns to something else: it drops what it waits for, or it   *)
(* waits for nothing.                                                      *)
LEMMA RunnerMoves ==
  ASSUME IInv, runner' \in RunnerType,
         UNCHANGED <<spoolVars, recorded, linkVars, coreVars, faults>>,
         \/ runner'.does \in {"connect", "down"} /\ runner'.stage = "none"
         \/ /\ ~Waiting
            /\ runner'.does \in {"execute", "finalize"} => runner'.run \in Runs
            /\ runner'.does = "finalize" => recorded[runner'.run] = Length
            /\ runner'.stage # "none" =>
                 /\ runner'.does \in {"finalize", "replay"} /\ runner'.run \in Runs
                 /\ runner'.next <= cursor[runner'.run]
  PROVE  IInv'
<1>1. TypeOK'
  BY DEF IInv, TypeOK, spoolVars, linkVars, coreVars
<1>2. Kept'
  BY KeptFrame DEF IInv, spoolVars, coreVars
<1>3. RunnerKnows'
  BY DEF RunnerKnows, coreVars
<1>4. RequestKnows' /\ CallKnows' /\ OneAwaited'
  BY DEF IInv, Protocol, RequestKnows, CallKnows, OneAwaited, linkVars, coreVars
<1>5. IdleKnows' /\ ArtifactPumpKnows' /\ TracePumpKnows'
  BY DEF IdleKnows, ArtifactPumpKnows, TracePumpKnows, Waiting, linkVars, coreVars
<1> QED
  BY <1>1, <1>2, <1>3, <1>4, <1>5 DEF IInv, Protocol

(* An offer is accepted.                                                   *)
LEMMA AcceptKeeps ==
  ASSUME IInv, NEW r \in Runs, Accept(r)
  PROVE  IInv'
<1>0. /\ runner.does = "idle" /\ request = NoFrame /\ call = NoCall /\ lease[r] = "none"
      /\ lease' = [lease EXCEPT ![r] = "live"] /\ runner' = [Doing("execute") EXCEPT !.run = r]
      /\ UNCHANGED <<spoolVars, recorded, linkVars, call, cursor, findings,
                     registered, verified, stored, faults>>
  BY DEF Accept
<1>1. /\ runner' \in RunnerType /\ runner'.does = "execute" /\ runner'.run = r
      /\ runner'.stage = "none"
  BY <1>0, SizesAreNat DEF Doing, RunnerType
<1>2. ~Waiting
  BY <1>0, Sentinels DEF IInv, Protocol, IdleKnows, Waiting
<1>3. TypeOK'
  BY <1>0, <1>1 DEF IInv, TypeOK, spoolVars, linkVars
<1>4. Kept'
  <2>1. VerifiedInFull' /\ EventsKept' /\ ChunksKept' /\ TraceHasEvidence'
    BY <1>0 DEF IInv, Kept, VerifiedInFull, EventsKept, ChunksKept, TraceHasEvidence, spoolVars
  <2>2. CompletedHasTrace'
    BY <1>0 DEF IInv, TypeOK, Kept, CompletedHasTrace
  <2> QED
    BY <2>1, <2>2 DEF Kept
<1>5. RunnerKnows'
  BY <1>1 DEF RunnerKnows
<1>6. RequestKnows' /\ CallKnows' /\ OneAwaited'
  BY <1>0 DEF IInv, Protocol, RequestKnows, CallKnows, OneAwaited, linkVars
<1>7. IdleKnows' /\ ArtifactPumpKnows' /\ TracePumpKnows'
  BY <1>0, <1>1, <1>2 DEF IdleKnows, ArtifactPumpKnows, TracePumpKnows, Waiting, linkVars
<1> QED
  BY <1>3, <1>4, <1>5, <1>6, <1>7 DEF IInv, Protocol

(* An Artifact is saved, its manifest first.                               *)
LEMMA SaveArtifactKeeps ==
  ASSUME IInv, NEW a \in Artifacts, SaveArtifactManifest(a) \/ SaveArtifactChunk(a)
  PROVE  IInv'
<1>1. CASE SaveArtifactManifest(a)
  <2>1. TypeOK'
    BY <1>1 DEF SaveArtifactManifest, IInv, TypeOK, linkVars, coreVars
  <2> QED
    BY <1>1, <2>1, KeptFrame, ProtocolFrame DEF SaveArtifactManifest, IInv, linkVars, coreVars
<1>2. CASE SaveArtifactChunk(a)
  <2> DEFINE k == First(Chunks \ chunks[a])
  <2>1. k \in Chunks
    <3>1. Chunks \ chunks[a] \in SUBSET Nat /\ Chunks \ chunks[a] # {}
      <4>1. chunks[a] \subseteq Chunks /\ chunks[a] # Chunks
        BY <1>2 DEF SaveArtifactChunk, Capturing, IInv, TypeOK
      <4>2. Chunks \subseteq Nat
        BY SizesAreNat DEF Chunks
      <4> QED
        BY <4>1, <4>2
    <3> QED
      BY <3>1, FirstIsLeast
  <2>2. chunks' = [chunks EXCEPT ![a] = chunks[a] \cup {k}]
    BY <1>2 DEF SaveArtifactChunk
  <2> HIDE DEF k
  <2>3. /\ chunks' \in [Artifacts -> SUBSET Chunks]
        /\ \A b \in Artifacts : chunks[b] \subseteq chunks'[b]
    BY <2>1, <2>2 DEF IInv, TypeOK
  <2>4. UNCHANGED <<spooled, manifests, progress, runner, recorded, linkVars, coreVars, faults>>
    BY <1>2 DEF SaveArtifactChunk
  <2>5. TypeOK'
    BY <2>3, <2>4 DEF IInv, TypeOK, linkVars, coreVars
  <2>6. Protocol'
    BY <2>4, ProtocolFrame DEF IInv, linkVars, coreVars
  <2>7. VerifiedInFull' /\ EventsKept' /\ TraceHasEvidence' /\ CompletedHasTrace'
    BY <2>4 DEF IInv, Kept, VerifiedInFull, EventsKept, TraceHasEvidence, CompletedHasTrace, coreVars
  <2>8. ChunksKept'
    BY <2>3, <2>4 DEF IInv, TypeOK, Kept, ChunksKept, coreVars
  <2> QED
    BY <2>5, <2>6, <2>7, <2>8 DEF IInv, Kept
<1> QED
  BY <1>1, <1>2

(* An event is recorded in the spool, with its Artifact saved in full.     *)
LEMMA AppendEventKeeps ==
  ASSUME IInv, NEW r \in Runs, AppendEvent(r)
  PROVE  IInv'
<1> DEFINE n == recorded[r] + 1
<1>0. /\ runner.does = "execute" /\ runner.run = r /\ n \in Events
      /\ n \in Observations => chunks[<<r, n>>] = Chunks
      /\ spooled' = [spooled EXCEPT ![r] = spooled[r] \cup {n}]
      /\ recorded' = [recorded EXCEPT ![r] = n]
      /\ UNCHANGED <<manifests, chunks, progress, runner, linkVars, coreVars, faults>>
  BY DEF AppendEvent
<1>1. /\ recorded[r] \in 0..Length /\ recorded' \in [Runs -> 0..Length]
      /\ recorded'[r] = n /\ \A q \in Runs : q # r => recorded'[q] = recorded[q]
  BY <1>0, SizesAreNat DEF IInv, TypeOK, Events
<1>2. /\ spooled' \in [Runs -> SUBSET Events] /\ spooled'[r] = spooled[r] \cup {n}
      /\ \A q \in Runs : q # r => spooled'[q] = spooled[q]
  BY <1>0 DEF IInv, TypeOK
<1>3. TypeOK'
  BY <1>0, <1>1, <1>2 DEF IInv, TypeOK, linkVars, coreVars
<1>4. RunnerKnows'
  BY <1>0 DEF IInv, Protocol, RunnerKnows, coreVars
<1>5. RequestKnows' /\ CallKnows' /\ OneAwaited' /\ IdleKnows' /\ ArtifactPumpKnows' /\ TracePumpKnows'
  BY <1>0 DEF IInv, Protocol, RequestKnows, CallKnows, OneAwaited, IdleKnows,
              ArtifactPumpKnows, TracePumpKnows, Waiting, Current, Artifact, linkVars, coreVars
<1>6. VerifiedInFull' /\ TraceHasEvidence' /\ CompletedHasTrace'
  BY <1>0 DEF IInv, Kept, VerifiedInFull, TraceHasEvidence, CompletedHasTrace, coreVars
<1>7. EventsKept'
  <2> SUFFICES ASSUME NEW q \in Runs, NEW m \in 1..recorded'[q]
               PROVE  m \in spooled'[q] \/ m < cursor[q]
    BY <1>0 DEF EventsKept, coreVars
  <2>1. m = n \/ m \in 1..recorded[q] \/ q # r
    BY <1>1
  <2> QED
    BY <1>1, <1>2, <2>1 DEF IInv, Kept, EventsKept
<1>8. ChunksKept'
  <2> SUFFICES ASSUME NEW a \in Artifacts, a[2] <= recorded'[a[1]]
               PROVE  chunks[a] \cup stored[a] = Chunks
    BY <1>0 DEF ChunksKept, coreVars
  <2>1. a[1] \in Runs /\ a[2] \in Observations /\ a[2] \in Nat /\ a = <<a[1], a[2]>>
    BY ArtifactParts
  <2>2. a[2] <= recorded[a[1]] \/ (a[1] = r /\ a[2] = n)
    BY <1>1, <2>1
  <2>3. stored[a] \subseteq Chunks
    BY DEF IInv, TypeOK
  <2> QED
    BY <1>0, <2>1, <2>2, <2>3 DEF IInv, Kept, ChunksKept
<1> QED
  BY <1>3, <1>4, <1>5, <1>6, <1>7, <1>8 DEF IInv, Protocol, Kept

(* A pump of a run starts with its Artifacts, at the first event.          *)
LEMMA DrainIsRunner ==
  ASSUME NEW state \in RunnerType, NEW r \in Runs
  PROVE  /\ Drain(state, r) \in RunnerType /\ Drain(state, r).does = state.does
         /\ Drain(state, r).run = r /\ Drain(state, r).next = 1
<1>1. ArtifactsOf(r) \in SUBSET Observations /\ 1 \in 1..(Length + 1)
  BY SizesAreNat DEF ArtifactsOf
<1> QED
  BY <1>1 DEF Drain, RunnerType

(* The run is over; its evidence is to be delivered.                       *)
LEMMA BeginFinalizeKeeps ==
  ASSUME IInv, NEW r \in Runs, BeginFinalize(r)
  PROVE  IInv'
<1>1. /\ runner' \in RunnerType /\ runner'.does = "finalize" /\ runner'.run = r /\ runner'.next = 1
  BY DoingIsRunner, DrainIsRunner DEF BeginFinalize
<1>2. ~Waiting /\ recorded[r] = Length
  BY DEF BeginFinalize, IInv, Protocol, IdleKnows
<1>3. 1 <= cursor[r]
  BY SizesAreNat DEF IInv, TypeOK
<1> QED
  BY <1>1, <1>2, <1>3, RunnerMoves DEF BeginFinalize

(* The Runner gives up what it does, or starts again.                      *)
LEMMA GivingUpKeeps ==
  ASSUME IInv, AbandonRun \/ NoticeClosed \/ Restart
  PROVE  IInv'
<1>1. PICK what \in {"connect", "down"} : runner' = Doing(what)
  BY DEF AbandonRun, NoticeClosed, Restart
<1>2. runner' \in RunnerType /\ runner'.does \in {"connect", "down"} /\ runner'.stage = "none"
  BY <1>1, DoingIsRunner
<1>3. UNCHANGED <<spoolVars, recorded, linkVars, coreVars, faults>>
  BY DEF AbandonRun, NoticeClosed, Restart
<1> QED
  BY <1>2, <1>3, RunnerMoves

(* A run that the spool still holds is replayed.                           *)
LEMMA ReplayRunKeeps ==
  ASSUME IInv, NEW r \in Runs, ReplayRun(r)
  PROVE  IInv'
<1> DEFINE state == [runner EXCEPT !.todo = runner.todo \ {r}]
<1>1. state \in RunnerType /\ state.does = "replay" /\ runner' = Drain(state, r)
  BY DEF ReplayRun, IInv, TypeOK, RunnerType
<1>2. runner' \in RunnerType /\ runner'.does = "replay" /\ runner'.run = r /\ runner'.next = 1
  BY <1>1, DrainIsRunner
<1>3. ~Waiting
  BY DEF ReplayRun, IInv, Protocol, IdleKnows
<1>4. 1 <= cursor[r]
  BY SizesAreNat DEF IInv, TypeOK
<1> QED
  BY <1>2, <1>3, <1>4, RunnerMoves DEF ReplayRun

(* Everything is replayed.                                                 *)
LEMMA EndReplayKeeps ==
  ASSUME IInv, EndReplay
  PROVE  IInv'
<1>1. runner' \in RunnerType /\ runner'.does = "idle" /\ runner'.stage = "none"
  BY DoingIsRunner DEF EndReplay
<1>2. ~Waiting
  BY DEF EndReplay, IInv, Protocol, IdleKnows
<1> QED
  BY <1>1, <1>2, RunnerMoves DEF EndReplay

(* A pump goes on to its next Artifact, its next stage, or ends.           *)
LEMMA PumpMovesKeeps ==
  ASSUME IInv, LeaveArtifact \/ ArtifactsDrained \/ ReplayDrained
  PROVE  IInv'
<1>1. /\ ~Waiting /\ runner \in RunnerType /\ runner.stage # "none"
      /\ UNCHANGED <<spoolVars, recorded, linkVars, coreVars, faults>>
  BY DEF LeaveArtifact, ArtifactsDrained, ReplayDrained, Pumping, IInv, TypeOK
<1>2. /\ runner.does \in {"finalize", "replay"} /\ runner.run \in Runs
      /\ runner.next <= cursor[runner.run]
      /\ runner.does = "finalize" => recorded[runner.run] = Length
  BY <1>1 DEF IInv, Protocol, RunnerKnows
<1>3. CASE LeaveArtifact
  <2>1. /\ runner' \in RunnerType /\ runner'.does = runner.does /\ runner'.run = runner.run
        /\ runner'.next = runner.next
    BY <1>1, <1>3 DEF LeaveArtifact, RunnerType
  <2> QED
    BY <1>1, <1>2, <2>1, RunnerMoves
<1>4. CASE ArtifactsDrained
  <2>1. /\ runner' \in RunnerType /\ runner'.does = runner.does /\ runner'.run = runner.run
        /\ runner'.next = runner.next
    BY <1>1, <1>4 DEF ArtifactsDrained, RunnerType
  <2> QED
    BY <1>1, <1>2, <2>1, RunnerMoves
<1>5. CASE ReplayDrained
  <2>1. runner' \in RunnerType /\ runner'.does = "replay" /\ runner'.stage = "none"
    BY <1>1, <1>5 DEF ReplayDrained, RunnerType
  <2> QED
    BY <1>1, <2>1, RunnerMoves
<1> QED
  BY <1>3, <1>4, <1>5

(* The Runner connects anew: nothing is under way for it.                  *)
LEMMA ConnectKeeps ==
  ASSUME IInv, Connect
  PROVE  IInv'
<1>0. /\ connected' = TRUE /\ request' = NoFrame /\ reply' = NoReply
      /\ call' = [call EXCEPT !.live = FALSE]
      /\ runner' = [Doing("replay") EXCEPT !.todo = PendingRunIds]
      /\ UNCHANGED <<spoolVars, recorded, lease, cursor, findings, registered,
                     verified, stored, faults>>
  BY DEF Connect
<1>1. runner' \in RunnerType /\ runner'.does = "replay" /\ runner'.stage = "none"
  <2>1. PendingRunIds \in SUBSET Runs
    BY DEF PendingRunIds
  <2> QED
    BY <1>0, <2>1, SizesAreNat DEF Doing, RunnerType
<1>2. /\ call' \in CallType /\ call'.live = FALSE /\ call'.stage = call.stage
      /\ call'.frame = call.frame /\ call'.next = call.next
  BY <1>0 DEF IInv, TypeOK, CallType
<1>3. TypeOK'
  BY <1>0, <1>1, <1>2, Sentinels DEF IInv, TypeOK, spoolVars
<1>4. Kept'
  BY <1>0, KeptFrame DEF IInv, spoolVars
<1>5. RunnerKnows' /\ RequestKnows' /\ OneAwaited'
  BY <1>0, <1>1, <1>2 DEF RunnerKnows, RequestKnows, OneAwaited
<1>6. CallKnows'
  BY <1>0, <1>2 DEF IInv, Protocol, CallKnows
<1>7. IdleKnows' /\ ArtifactPumpKnows' /\ TracePumpKnows'
  BY <1>0, <1>1, <1>2 DEF IdleKnows, ArtifactPumpKnows, TracePumpKnows, Waiting
<1> QED
  BY <1>3, <1>4, <1>5, <1>6, <1>7 DEF IInv, Protocol

(* A pump, or the end of finalize, sends the frame f; nothing else is      *)
(* under way.                                                              *)
LEMMA SendKeeps ==
  ASSUME IInv, ~Waiting, NEW f \in FrameType, Send(f), f.kind # "none", f.run \in Runs,
         f.kind \in {"manifest", "chunk"} => f.event \in Observations,
         f.kind = "chunk" => f.chunk \in Chunks,
         f.kind = "complete" => cursor[f.run] = Length + 1,
         \/ /\ UNCHANGED runner /\ runner.stage = "artifacts" /\ runner.arts # {}
            /\ f.kind \in {"manifest", "chunk"} /\ <<f.run, f.event>> = Current
         \/ /\ UNCHANGED runner /\ runner.stage = "trace"
            /\ f.kind = "batch" /\ f.run = runner.run
         \/ runner' = Doing("idle") /\ f.kind = "complete"
  PROVE  IInv'
<1>0. /\ request' = f /\ UNCHANGED <<spoolVars, recorded, connected, reply, coreVars, faults>>
      /\ request = NoFrame /\ reply = NoReply /\ ~call.live
  BY DEF Send, Waiting
<1>1. runner' \in RunnerType
  BY DoingIsRunner DEF IInv, TypeOK
<1>2. TypeOK'
  BY <1>0, <1>1 DEF IInv, TypeOK, spoolVars, coreVars
<1>3. Kept'
  BY <1>0, KeptFrame DEF IInv, spoolVars, coreVars
<1>4. RunnerKnows'
  BY <1>0, DoingIsRunner DEF IInv, Protocol, RunnerKnows, coreVars
<1>5. RequestKnows'
  BY <1>0 DEF RequestKnows, coreVars
<1>6. CallKnows' /\ OneAwaited'
  BY <1>0 DEF IInv, Protocol, CallKnows, OneAwaited, coreVars
<1>7. IdleKnows'
  BY <1>0, DoingIsRunner DEF IInv, Protocol, RunnerKnows, IdleKnows, Waiting, coreVars
<1>8. ArtifactPumpKnows' /\ TracePumpKnows'
  BY <1>0, DoingIsRunner DEF ArtifactPumpKnows, TracePumpKnows, Current, coreVars
<1> QED
  BY <1>2, <1>3, <1>4, <1>5, <1>6, <1>7, <1>8 DEF IInv, Protocol

(* The Artifact a pump works on.                                           *)
LEMMA CurrentIsArtifact ==
  ASSUME IInv, runner.stage # "none", runner.arts # {}
  PROVE  /\ Current \in Artifacts /\ Current[1] = runner.run /\ Current[2] \in runner.arts
         /\ runner.run \in Runs /\ Current[2] \in Observations /\ Current[2] \in 0..Length
<1>1. runner.run \in Runs /\ runner.arts \subseteq Observations
  BY DEF IInv, TypeOK, RunnerType, Protocol, RunnerKnows
<1>2. \A n \in Observations : n \in Nat /\ n \in 0..Length
  BY EventKinds, SizesAreNat DEF Events
<1>3. First(runner.arts) \in runner.arts
  <2>1. runner.arts \in SUBSET Nat
    BY <1>1, <1>2
  <2> QED
    BY <2>1, FirstIsLeast
<1>4. First(runner.arts) \in Observations /\ First(runner.arts) \in 0..Length
  BY <1>1, <1>2, <1>3
<1> QED
  BY <1>1, <1>3, <1>4 DEF Current, Artifacts

(* The frame of a manifest.                                                *)
LEMMA ManifestFrame ==
  ASSUME NEW r \in Runs, NEW e \in 0..Length
  PROVE  /\ [NoFrame EXCEPT !.kind = "manifest", !.run = r, !.event = e] \in FrameType
         /\ [NoFrame EXCEPT !.kind = "manifest", !.run = r, !.event = e].kind = "manifest"
         /\ [NoFrame EXCEPT !.kind = "manifest", !.run = r, !.event = e].run = r
         /\ [NoFrame EXCEPT !.kind = "manifest", !.run = r, !.event = e].event = e
<1>1. NoFrame \in FrameType
  BY Sentinels
<1> QED
  BY <1>1 DEF FrameType

(* The frame of a batch.                                                   *)
LEMMA BatchFrame ==
  ASSUME NEW r \in Runs, NEW b \in SUBSET Events
  PROVE  /\ [NoFrame EXCEPT !.kind = "batch", !.run = r, !.batch = b] \in FrameType
         /\ [NoFrame EXCEPT !.kind = "batch", !.run = r, !.batch = b].kind = "batch"
         /\ [NoFrame EXCEPT !.kind = "batch", !.run = r, !.batch = b].run = r
<1>1. NoFrame \in FrameType
  BY Sentinels
<1> QED
  BY <1>1 DEF FrameType

(* The frame of a completion.                                              *)
LEMMA CompleteFrame ==
  ASSUME NEW r \in Runs
  PROVE  /\ [NoFrame EXCEPT !.kind = "complete", !.run = r] \in FrameType
         /\ [NoFrame EXCEPT !.kind = "complete", !.run = r].kind = "complete"
         /\ [NoFrame EXCEPT !.kind = "complete", !.run = r].run = r
<1>1. NoFrame \in FrameType
  BY Sentinels
<1> QED
  BY <1>1 DEF FrameType

(* The pumps send: a manifest, a chunk, a batch.                           *)
LEMMA PumpSendsKeeps ==
  ASSUME IInv, RegisterManifest \/ UploadChunk \/ SubmitBatch
  PROVE  IInv'
<1>0. ~Waiting /\ UNCHANGED runner
  BY DEF RegisterManifest, UploadChunk, SubmitBatch, Pumping
<1>1. CASE RegisterManifest
  <2>0. /\ runner.stage = "artifacts" /\ runner.arts # {}
        /\ Send([NoFrame EXCEPT !.kind = "manifest", !.run = runner.run, !.event = Current[2]])
    BY <1>1 DEF RegisterManifest, Pumping
  <2>1. /\ runner.run \in Runs /\ Current[2] \in Observations /\ Current[2] \in 0..Length
        /\ Current = <<runner.run, Current[2]>>
    BY <2>0, CurrentIsArtifact DEF Current
  <2>2. PICK e \in 0..Length : e = Current[2]
    BY <2>1
  <2> DEFINE f == [NoFrame EXCEPT !.kind = "manifest", !.run = runner.run, !.event = e]
  <2>3. f \in FrameType /\ f.kind = "manifest" /\ f.run = runner.run /\ f.event = e
    BY <2>1, ManifestFrame
  <2>4. Send(f)
    BY <2>0, <2>2
  <2> HIDE DEF f
  <2> QED
    BY <1>0, <2>0, <2>1, <2>2, <2>3, <2>4, SendKeeps
<1>2. CASE UploadChunk
  <2> DEFINE P == PendingArtifactChunks(Current)
             f == [NoFrame EXCEPT !.kind = "chunk", !.run = runner.run, !.event = Current[2],
                                  !.chunk = First(P)]
  <2>0. runner.stage = "artifacts" /\ runner.arts # {} /\ P # {} /\ Send(f)
    BY <1>2 DEF UploadChunk, Pumping
  <2>1. /\ runner.run \in Runs /\ Current[2] \in Observations /\ Current[2] \in 0..Length
        /\ Current = <<runner.run, Current[2]>> /\ Current \in Artifacts
    BY <2>0, CurrentIsArtifact DEF Current
  <2>2. P \subseteq Chunks /\ Chunks \subseteq Nat /\ Chunks \subseteq 0..ChunkCount
    BY <2>1, SizesAreNat DEF PendingArtifactChunks, IInv, TypeOK, Chunks
  <2>3. First(P) \in P
    <3>1. P \in SUBSET Nat
      BY <2>2
    <3> QED
      BY <2>0, <3>1, FirstIsLeast
  <2> HIDE DEF P
  <2>4. First(P) \in Chunks /\ First(P) \in 0..ChunkCount
    BY <2>2, <2>3
  <2>5. /\ f \in FrameType /\ f.kind = "chunk" /\ f.run = runner.run /\ f.event = Current[2]
        /\ f.chunk = First(P)
    BY <2>1, <2>4, SizesAreNat DEF NoFrame, FrameType
  <2> QED
    BY <1>0, <2>0, <2>1, <2>4, <2>5, SendKeeps
<1>3. CASE SubmitBatch
  <2>1. PICK k \in 1..BatchLimit :
          Send([NoFrame EXCEPT !.kind = "batch", !.run = runner.run, !.batch = FirstOf(Pending, k)])
    BY <1>3 DEF SubmitBatch
  <2> DEFINE f == [NoFrame EXCEPT !.kind = "batch", !.run = runner.run, !.batch = FirstOf(Pending, k)]
  <2>2. runner.stage = "trace" /\ runner.run \in Runs
    BY <1>3 DEF SubmitBatch, Pumping, IInv, Protocol, RunnerKnows
  <2>3. FirstOf(Pending, k) \in SUBSET Events
    BY <2>2 DEF FirstOf, Pending, IInv, TypeOK
  <2>4. f \in FrameType /\ f.kind = "batch" /\ f.run = runner.run
    BY <2>2, <2>3, BatchFrame, ZenonT(120)
  <2> QED
    BY <1>0, <2>1, <2>2, <2>4, SendKeeps
<1> QED
  BY <1>1, <1>2, <1>3

(* The completion is sent with the whole Trace in Core.                    *)
LEMMA CompleteKeeps ==
  ASSUME IInv, Complete
  PROVE  IInv'
<1> DEFINE r == runner.run
           f == [NoFrame EXCEPT !.kind = "complete", !.run = r]
<1>0. /\ runner.does = "finalize" /\ runner.stage = "trace" /\ ~Waiting /\ Pending = {}
      /\ Send(f) /\ runner' = Doing("idle")
  BY DEF Complete, Pumping
<1>1. r \in Runs /\ recorded[r] = Length /\ runner.next <= cursor[r]
  BY <1>0 DEF IInv, Protocol, RunnerKnows
<1>2. cursor[r] \in 1..(Length + 1) /\ runner.next \in 1..(Length + 1)
  BY <1>1 DEF IInv, TypeOK, RunnerType
<1>3. \A n \in 1..Length : n < cursor[r]
  <2> SUFFICES ASSUME NEW n \in 1..Length PROVE n < cursor[r]
    OBVIOUS
  <2>1. n \in spooled[r] \/ n < cursor[r]
    BY <1>1 DEF IInv, Kept, EventsKept
  <2>2. n \in spooled[r] => ~(n >= runner.next)
    BY <1>0 DEF Pending
  <2> QED
    BY <1>1, <1>2, <2>1, <2>2
<1>4. cursor[r] = Length + 1
  <2>1. Length \in 1..Length
    BY SizesAreNat
  <2> QED
    BY <1>2, <1>3, <2>1, SizesAreNat
<1>5. f \in FrameType /\ f.kind = "complete" /\ f.run = r
  BY <1>1, CompleteFrame
<1> QED
  BY <1>0, <1>1, <1>4, <1>5, SendKeeps

(* What Core has of an Artifact leaves the spool.                          *)
LEMMA ReceiveProgressKeeps ==
  ASSUME IInv, ReceiveProgress
  PROVE  IInv'
<1>0. /\ runner.stage = "artifacts" /\ reply.kind = "progress" /\ reply' = NoReply
      /\ AcknowledgeArtifactProgress(Current, reply.missing)
      /\ UNCHANGED <<spooled, recorded, connected, request, coreVars, faults>>
  BY DEF ReceiveProgress
<1>1. /\ reply # NoReply /\ runner.arts # {} /\ Chunks \ reply.missing \subseteq stored[Current]
      /\ reply.missing \subseteq Chunks
  <2>1. reply # NoReply
    BY <1>0, Sentinels
  <2> QED
    BY <1>0, <2>1 DEF IInv, TypeOK, ReplyType, Protocol, ArtifactPumpKnows
<1>2. request = NoFrame /\ ~call.live
  BY <1>1 DEF IInv, Protocol, OneAwaited
<1>3. Current \in Artifacts
  BY <1>0, <1>1, CurrentIsArtifact
<1>4. PICK a \in Artifacts : a = Current
  BY <1>3
<1>5. PICK m \in SUBSET Chunks : m = reply.missing
  BY <1>1
<1>6. /\ manifests' \in {manifests, manifests \ {a}}
      /\ chunks' = [chunks EXCEPT ![a] = chunks[a] \cap m]
      /\ \E v \in {None} \cup SUBSET Chunks : progress' = [progress EXCEPT ![a] = v]
  BY <1>0, <1>4, <1>5 DEF AcknowledgeArtifactProgress
<1>7. /\ chunks' \in [Artifacts -> SUBSET Chunks]
      /\ \A b \in Artifacts : b # a => chunks'[b] = chunks[b]
      /\ chunks'[a] = chunks[a] \cap m
  BY <1>6 DEF IInv, TypeOK
<1>8. progress' \in [Artifacts -> {None} \cup SUBSET Chunks]
  BY <1>6 DEF IInv, TypeOK
<1>9. /\ runner' \in RunnerType /\ runner'.does = runner.does /\ runner'.run = runner.run
      /\ runner'.stage = runner.stage /\ runner'.next = runner.next
  <2>1. runner \in RunnerType
    BY DEF IInv, TypeOK
  <2>2. runner' = runner \/ runner' = [runner EXCEPT !.arts = runner.arts \ {Current[2]}]
    BY DEF ReceiveProgress
  <2> QED
    BY <2>1, <2>2 DEF RunnerType
<1>10. TypeOK'
  BY <1>0, <1>6, <1>7, <1>8, <1>9, Sentinels DEF IInv, TypeOK, coreVars
<1>11. RunnerKnows' /\ RequestKnows' /\ CallKnows' /\ OneAwaited'
  BY <1>0, <1>9, <1>2 DEF IInv, Protocol, RunnerKnows, RequestKnows, CallKnows, OneAwaited, coreVars
<1>12. IdleKnows' /\ ArtifactPumpKnows' /\ TracePumpKnows'
  BY <1>0, <1>9, <1>2 DEF IInv, Protocol, RunnerKnows, IdleKnows, ArtifactPumpKnows, TracePumpKnows,
                          Waiting, coreVars
<1>13. VerifiedInFull' /\ EventsKept' /\ TraceHasEvidence' /\ CompletedHasTrace'
  BY <1>0 DEF IInv, Kept, VerifiedInFull, EventsKept, TraceHasEvidence, CompletedHasTrace, coreVars
<1>14. ChunksKept'
  <2> SUFFICES ASSUME NEW b \in Artifacts, b[2] <= recorded[b[1]]
               PROVE  chunks'[b] \cup stored[b] = Chunks
    BY <1>0 DEF ChunksKept, coreVars
  <2>1. chunks[b] \cup stored[b] = Chunks
    BY DEF IInv, Kept, ChunksKept
  <2>2. Chunks \ m \subseteq stored[a]
    BY <1>1, <1>4, <1>5
  <2> QED
    BY <1>7, <2>1, <2>2
<1> QED
  BY <1>10, <1>11, <1>12, <1>13, <1>14 DEF IInv, Protocol, Kept

(* What Core has of a Trace leaves the spool.                              *)
LEMMA ReceiveAckKeeps ==
  ASSUME IInv, ReceiveAck
  PROVE  IInv'
<1> DEFINE r == runner.run
<1>0. /\ runner.stage = "trace" /\ reply.kind = "ack" /\ reply' = NoReply
      /\ spooled' = [spooled EXCEPT ![r] = {n \in spooled[r] : n >= reply.next}]
      /\ runner' = [runner EXCEPT !.next = IF reply.next > runner.next THEN reply.next ELSE runner.next]
      /\ UNCHANGED <<manifests, chunks, progress, recorded, connected, request, coreVars, faults>>
  BY DEF ReceiveAck, Acknowledge
<1>1. reply # NoReply
  BY <1>0, Sentinels
<1>2. /\ request = NoFrame /\ ~call.live /\ reply.next <= cursor[r] /\ r \in Runs
      /\ runner.next <= cursor[r] /\ runner.does \in {"finalize", "replay"}
  BY <1>0, <1>1 DEF IInv, Protocol, OneAwaited, TracePumpKnows, RunnerKnows
<1>3. reply.next \in 0..(Length + 1) /\ runner.next \in 1..(Length + 1) /\ runner \in RunnerType
      /\ cursor[r] \in 1..(Length + 1)
  BY <1>2 DEF IInv, TypeOK, ReplyType, RunnerType
<1>4. PICK k \in 1..(Length + 1) :
        k <= cursor[r] /\ runner' = [runner EXCEPT !.next = k]
  <2>1. CASE reply.next > runner.next
    BY <1>0, <1>2, <1>3, <2>1, SizesAreNat
  <2>2. CASE ~(reply.next > runner.next)
    BY <1>0, <1>2, <1>3, <2>2
  <2> QED
    BY <2>1, <2>2
<1>5. /\ runner' \in RunnerType /\ runner'.does = runner.does /\ runner'.run = r
      /\ runner'.stage = "trace" /\ runner'.next = k
  BY <1>0, <1>3, <1>4 DEF RunnerType
<1>6. /\ spooled' \in [Runs -> SUBSET Events]
      /\ \A q \in Runs : q # r => spooled'[q] = spooled[q]
      /\ \A n \in spooled[r] : n >= reply.next => n \in spooled'[r]
  BY <1>0, <1>2 DEF IInv, TypeOK
<1>7. TypeOK'
  BY <1>0, <1>5, <1>6, Sentinels DEF IInv, TypeOK, coreVars
<1>8. RunnerKnows' /\ RequestKnows' /\ CallKnows' /\ OneAwaited'
  BY <1>0, <1>2, <1>4, <1>5 DEF IInv, Protocol, RunnerKnows, RequestKnows, CallKnows, OneAwaited, coreVars
<1>9. IdleKnows' /\ ArtifactPumpKnows' /\ TracePumpKnows'
  BY <1>0, <1>2, <1>5 DEF IdleKnows, ArtifactPumpKnows, TracePumpKnows, Waiting, coreVars
<1>10. VerifiedInFull' /\ ChunksKept' /\ TraceHasEvidence' /\ CompletedHasTrace'
  BY <1>0 DEF IInv, Kept, VerifiedInFull, ChunksKept, TraceHasEvidence, CompletedHasTrace, coreVars
<1>11. EventsKept'
  <2> SUFFICES ASSUME NEW q \in Runs, NEW n \in 1..recorded[q]
               PROVE  n \in spooled'[q] \/ n < cursor[q]
    BY <1>0 DEF EventsKept, coreVars
  <2>1. n \in spooled[q] \/ n < cursor[q]
    BY DEF IInv, Kept, EventsKept
  <2>2. ~(n >= reply.next) /\ q = r => n < cursor[q]
    BY <1>2, <1>3
  <2> QED
    BY <1>6, <2>1, <2>2
<1> QED
  BY <1>7, <1>8, <1>9, <1>10, <1>11 DEF IInv, Protocol, Kept

-----------------------------------------------------------------------------
(* Core takes the frame that arrived.                                      *)
LEMMA TakeFrameKeeps ==
  ASSUME IInv, TakeFrame
  PROVE  IInv'
<1> DEFINE k == IF request.batch = {} THEN 0 ELSE First(request.batch)
<1>0. /\ request # NoFrame /\ request' = NoFrame
      /\ call' = [frame |-> request, stage |-> request.kind, live |-> TRUE, next |-> k]
      /\ UNCHANGED <<spoolVars, runner, recorded, connected, reply, lease, cursor,
                     findings, registered, verified, stored, faults>>
  BY DEF TakeFrame
<1>1. request \in FrameType /\ request.batch \subseteq Events
  BY DEF IInv, TypeOK, FrameType
<1>2. k \in 0..(Length + 1) /\ (request.batch = {} => k = 0)
  <2>1. CASE request.batch = {}
    BY <2>1, SizesAreNat
  <2>2. CASE request.batch # {}
    <3>1. request.batch \in SUBSET Nat
      BY <1>1, SizesAreNat DEF Events
    <3>2. First(request.batch) \in Events
      BY <1>1, <2>2, <3>1, FirstIsLeast
    <3> QED
      BY <2>2, <3>2, SizesAreNat DEF Events
  <2> QED
    BY <2>1, <2>2
<1> HIDE DEF k
<1>3. /\ call'.frame = request /\ call'.stage = request.kind /\ call'.live = TRUE /\ call'.next = k
      /\ call' \in CallType
  BY <1>0, <1>1, <1>2 DEF CallType, FrameType
<1>4. reply = NoReply
  BY <1>0 DEF IInv, Protocol, OneAwaited
<1>5. TypeOK'
  BY <1>0, <1>3, Sentinels DEF IInv, TypeOK, spoolVars
<1>6. Kept'
  BY <1>0, KeptFrame DEF IInv, spoolVars
<1>7. RunnerKnows' /\ RequestKnows' /\ OneAwaited'
  BY <1>0, <1>4 DEF IInv, Protocol, RunnerKnows, RequestKnows, OneAwaited
<1>8. CallKnows'
  <2>1. request.run \in Runs /\ cursor[request.run] \in 1..(Length + 1)
    BY <1>0 DEF IInv, TypeOK, Protocol, RequestKnows
  <2>2. 0 <= cursor[request.run]
    BY <2>1
  <2> QED
    BY <1>0, <1>2, <1>3, <2>1, <2>2 DEF IInv, Protocol, RequestKnows, CallKnows, TypeOK, FrameType
<1>9. IdleKnows' /\ ArtifactPumpKnows' /\ TracePumpKnows'
  BY <1>0, <1>3, <1>4 DEF IInv, Protocol, IdleKnows, ArtifactPumpKnows, TracePumpKnows,
                          Waiting, Current, Artifact
<1> QED
  BY <1>5, <1>6, <1>7, <1>8, <1>9 DEF IInv, Protocol

(* A call fails: nothing is under way any more on its connection.          *)
LEMMA RefuseKeeps ==
  ASSUME IInv, Refuse, faults' \in 0..MaxFaults,
         UNCHANGED <<spoolVars, runner, recorded, lease, cursor, findings, registered,
                     verified, stored>>
  PROVE  IInv'
<1>0. /\ call' = NoCall /\ connected' \in BOOLEAN /\ request' \in {request, NoFrame} /\ reply' = reply
  BY DEF Refuse
<1>1. TypeOK'
  BY <1>0, Sentinels DEF IInv, TypeOK, spoolVars
<1>2. Kept'
  BY KeptFrame DEF IInv, spoolVars
<1>3. RunnerKnows' /\ RequestKnows' /\ CallKnows' /\ OneAwaited'
  BY <1>0, Sentinels DEF IInv, Protocol, RunnerKnows, RequestKnows, CallKnows, OneAwaited
<1>4. IdleKnows' /\ ArtifactPumpKnows' /\ TracePumpKnows'
  BY <1>0, Sentinels DEF IInv, Protocol, IdleKnows, ArtifactPumpKnows, TracePumpKnows,
                         Waiting, Current, Artifact
<1> QED
  BY <1>1, <1>2, <1>3, <1>4 DEF IInv, Protocol

(* A call ends: its answer reaches the pump that waits for it, or nobody.  *)
LEMMA AnswerLeaves ==
  ASSUME IInv, NEW ans \in ReplyType, ans.kind # "none", Answer(ans),
         \/ /\ call.stage = "progress" /\ ans.kind = "progress"
            /\ Chunks \ ans.missing \subseteq stored[Artifact]
         \/ /\ call.stage = "batch" /\ ans.kind = "ack" /\ ans.next <= cursor[call.frame.run],
         UNCHANGED <<runner, recorded, cursor, stored>>
  PROVE  /\ Protocol' /\ call' \in CallType /\ reply' \in ReplyType
         /\ UNCHANGED <<connected, request>>
<1>0. call' = NoCall /\ reply' = (IF call.live THEN ans ELSE reply) /\ UNCHANGED <<connected, request>>
  BY DEF Answer
<1>1. RunnerKnows' /\ RequestKnows' /\ CallKnows' /\ OneAwaited'
  BY <1>0, Sentinels DEF IInv, Protocol, RunnerKnows, RequestKnows, CallKnows, OneAwaited
<1>2. IdleKnows'
  BY <1>0, Sentinels DEF IInv, Protocol, IdleKnows, Waiting
<1>3. ArtifactPumpKnows'
  BY <1>0, Sentinels DEF IInv, Protocol, ArtifactPumpKnows, Current, Artifact
<1>4. TracePumpKnows'
  BY <1>0, Sentinels DEF IInv, Protocol, TracePumpKnows
<1> QED
  BY <1>0, <1>1, <1>2, <1>3, <1>4, Sentinels DEF IInv, TypeOK, Protocol

(* A call goes on to its next transaction, for the same frame.             *)
LEMMA CallMoves ==
  ASSUME IInv, call' \in CallType, call'.live = call.live,
         call'.frame.run = call.frame.run, call'.frame.event = call.frame.event,
         \/ call.stage \in {"manifest", "chunk"} /\ call'.stage = "progress"
         \/ /\ call.stage \in {"batch", "finding"} /\ call'.stage \in {"batch", "finding"}
            /\ call'.next <= cursor'[call.frame.run]
            /\ call'.stage = "finding" => call'.next - 1 \in Findings,
         \A r \in Runs : cursor'[r] \in Nat /\ cursor[r] <= cursor'[r],
         \A r \in Runs : cursor[r] = Length + 1 => cursor'[r] = Length + 1,
         \A a \in Artifacts : stored[a] \subseteq stored'[a],
         UNCHANGED <<runner, recorded, linkVars>>
  PROVE  Protocol'
<1>0. UNCHANGED <<runner, recorded, connected, request, reply>>
  BY DEF linkVars
<1>t. /\ \A r \in Runs : cursor[r] \in Nat /\ runner.next \in Nat /\ reply.next \in Nat
      /\ runner \in RunnerType /\ reply \in ReplyType
  BY SizesAreNat DEF IInv, TypeOK, RunnerType, ReplyType
<1>1. RunnerKnows'
  BY <1>0, <1>t DEF IInv, Protocol, RunnerKnows
<1>2. RequestKnows' /\ OneAwaited'
  BY <1>0 DEF IInv, Protocol, RequestKnows, OneAwaited
<1>3. CallKnows'
  BY DEF IInv, Protocol, CallKnows
<1>4. IdleKnows'
  BY <1>0 DEF IInv, Protocol, IdleKnows, Waiting
<1>5. ArtifactPumpKnows'
  <2> SUFFICES ASSUME runner.stage = "artifacts" PROVE ArtifactPumpKnows'
    BY <1>0 DEF ArtifactPumpKnows
  <2>1. runner.arts # {} => Current \in Artifacts
    BY CurrentIsArtifact
  <2>2. Current' = Current /\ Artifact' = Artifact
    BY <1>0 DEF Current, Artifact
  <2> HIDE DEF Current, Artifact
  <2>3. runner.arts # {} => stored[Current] \subseteq stored'[Current]
    BY <2>1
  <2> QED
    BY <1>0, <2>2, <2>3 DEF IInv, Protocol, ArtifactPumpKnows
<1>6. TracePumpKnows'
  BY <1>0, <1>t DEF IInv, Protocol, TracePumpKnows, RunnerKnows
<1> QED
  BY <1>1, <1>2, <1>3, <1>4, <1>5, <1>6 DEF Protocol

(* A manifest is registered.                                               *)
LEMMA ServeManifestKeeps ==
  ASSUME IInv, ServeManifest
  PROVE  IInv'
<1>0. /\ call.stage = "manifest"
      /\ UNCHANGED <<spoolVars, runner, recorded, lease, cursor, findings, verified, stored, faults>>
  BY DEF ServeManifest
<1>1. CASE Refuse /\ UNCHANGED registered
  <2>1. faults' \in 0..MaxFaults
    BY <1>0 DEF IInv, TypeOK
  <2> QED
    BY <1>0, <1>1, <2>1, RefuseKeeps
<1>2. CASE /\ registered' = registered \cup {Artifact}
           /\ call' = [call EXCEPT !.stage = "progress"] /\ UNCHANGED linkVars
  <2>1. Artifact \in Artifacts
    BY <1>0 DEF IInv, Protocol, CallKnows, Artifact, Artifacts
  <2>2. call \in CallType
    BY DEF IInv, TypeOK
  <2>3. /\ call' \in CallType /\ call'.live = call.live /\ call'.frame = call.frame
        /\ call'.stage = "progress"
    BY <1>2, <2>2 DEF CallType
  <2>4. /\ \A r \in Runs : cursor'[r] \in Nat /\ cursor[r] <= cursor'[r]
        /\ \A r \in Runs : cursor[r] = Length + 1 => cursor'[r] = Length + 1
        /\ \A a \in Artifacts : stored[a] \subseteq stored'[a]
    BY <1>0 DEF IInv, TypeOK
  <2>5. Protocol'
    BY <1>0, <1>2, <2>3, <2>4, CallMoves
  <2>6. TypeOK'
    BY <1>0, <1>2, <2>1, <2>3 DEF IInv, TypeOK, spoolVars, linkVars
  <2>7. Kept'
    BY <1>0, KeptFrame DEF IInv, spoolVars
  <2> QED
    BY <2>5, <2>6, <2>7 DEF IInv
<1> QED
  BY <1>1, <1>2 DEF ServeManifest

(* A chunk is stored, unless the Artifact is complete.                     *)
LEMMA ServeChunkKeeps ==
  ASSUME IInv, ServeChunk
  PROVE  IInv'
<1>0. /\ call.stage = "chunk"
      /\ UNCHANGED <<spoolVars, runner, recorded, lease, cursor, findings, registered,
                     verified, faults>>
  BY DEF ServeChunk
<1>1. CASE Refuse /\ UNCHANGED stored
  <2>1. faults' \in 0..MaxFaults
    BY <1>0 DEF IInv, TypeOK
  <2> QED
    BY <1>0, <1>1, <2>1, RefuseKeeps
<1>2. CASE /\ stored' = IF Artifact \in verified THEN stored
                        ELSE [stored EXCEPT ![Artifact] = @ \cup {call.frame.chunk}]
           /\ call' = [call EXCEPT !.stage = "progress"] /\ UNCHANGED linkVars
  <2>1. PICK a \in Artifacts : a = Artifact
    BY <1>0 DEF IInv, Protocol, CallKnows, Artifact, Artifacts
  <2>2. PICK k \in Chunks : k = call.frame.chunk
    BY <1>0 DEF IInv, Protocol, CallKnows
  <2>3. call \in CallType
    BY DEF IInv, TypeOK
  <2>4. /\ call' \in CallType /\ call'.live = call.live /\ call'.frame = call.frame
        /\ call'.stage = "progress"
    BY <1>2, <2>3 DEF CallType
  <2>5. /\ stored' \in [Artifacts -> SUBSET Chunks]
        /\ \A b \in Artifacts : stored[b] \subseteq stored'[b]
    <3>1. stored' = stored \/ stored' = [stored EXCEPT ![a] = stored[a] \cup {k}]
      BY <1>2, <2>1, <2>2
    <3> QED
      BY <3>1 DEF IInv, TypeOK
  <2>6. /\ \A r \in Runs : cursor'[r] \in Nat /\ cursor[r] <= cursor'[r]
        /\ \A r \in Runs : cursor[r] = Length + 1 => cursor'[r] = Length + 1
    BY <1>0 DEF IInv, TypeOK
  <2>7. Protocol'
    BY <1>0, <1>2, <2>4, <2>5, <2>6, CallMoves
  <2>8. TypeOK'
    BY <1>0, <1>2, <2>4, <2>5 DEF IInv, TypeOK, spoolVars, linkVars
  <2>9. EventsKept' /\ CompletedHasTrace'
    BY <1>0 DEF IInv, Kept, EventsKept, CompletedHasTrace, spoolVars
  <2>10. VerifiedInFull'
    <3>1. verified \subseteq Artifacts
      BY DEF IInv, TypeOK
    <3> QED
      BY <1>0, <2>5, <3>1 DEF IInv, Kept, VerifiedInFull
  <2>11. ChunksKept'
    <3>1. chunks \in [Artifacts -> SUBSET Chunks]
      BY DEF IInv, TypeOK
    <3> QED
      BY <1>0, <2>5, <3>1 DEF IInv, Kept, ChunksKept, spoolVars
  <2>12. TraceHasEvidence'
    <3> SUFFICES ASSUME NEW r \in Runs, NEW n \in Events, n < cursor[r], NEW m \in Refs[n]
                 PROVE  stored'[<<r, m>>] = Chunks
      BY <1>0 DEF TraceHasEvidence
    <3>1. <<r, m>> \in Artifacts
      BY RefsArePast DEF Artifacts
    <3>2. stored[<<r, m>>] = Chunks
      BY DEF IInv, Kept, TraceHasEvidence
    <3> QED
      BY <2>5, <3>1, <3>2
  <2> QED
    BY <2>7, <2>8, <2>9, <2>10, <2>11, <2>12 DEF IInv, Kept
<1> QED
  BY <1>1, <1>2 DEF ServeChunk

(* The two answers.                                                        *)
LEMMA ProgressReply ==
  ASSUME NEW m \in SUBSET Chunks
  PROVE  /\ [NoReply EXCEPT !.kind = "progress", !.missing = m] \in ReplyType
         /\ [NoReply EXCEPT !.kind = "progress", !.missing = m].kind = "progress"
         /\ [NoReply EXCEPT !.kind = "progress", !.missing = m].missing = m
<1>1. NoReply \in ReplyType
  BY Sentinels
<1> QED
  BY <1>1 DEF ReplyType

LEMMA AckReply ==
  ASSUME NEW n \in 0..(Length + 1)
  PROVE  /\ [NoReply EXCEPT !.kind = "ack", !.next = n] \in ReplyType
         /\ [NoReply EXCEPT !.kind = "ack", !.next = n].kind = "ack"
         /\ [NoReply EXCEPT !.kind = "ack", !.next = n].next = n
<1>1. NoReply \in ReplyType
  BY Sentinels
<1> QED
  BY <1>1 DEF ReplyType

(* The Runner learns what Core misses of an Artifact; nothing: verified.   *)
LEMMA ServeProgressKeeps ==
  ASSUME IInv, Artifact \in registered, ServeProgress
  PROVE  IInv'
<1> DEFINE m == MissingRanges(Artifact)
           ans == [NoReply EXCEPT !.kind = "progress", !.missing = m]
<1>0. /\ call.stage = "progress" /\ Answer(ans)
      /\ verified' = IF m = {} THEN verified \cup {Artifact} ELSE verified
      /\ UNCHANGED <<spoolVars, runner, recorded, lease, cursor, findings, registered,
                     stored, faults>>
  BY DEF ServeProgress
<1>1. PICK a \in Artifacts : a = Artifact
  BY DEF IInv, TypeOK
<1>2. stored[a] \subseteq Chunks
  BY <1>1 DEF IInv, TypeOK
<1>3. m \subseteq Chunks /\ Chunks \ m \subseteq stored[a]
  BY <1>1, <1>2 DEF MissingRanges, IInv, Kept, VerifiedInFull
<1> HIDE DEF m
<1>4. ans \in ReplyType /\ ans.kind = "progress" /\ ans.missing = m
  BY <1>3, ProgressReply
<1> HIDE DEF ans
<1>5. /\ Protocol' /\ call' \in CallType /\ reply' \in ReplyType
      /\ UNCHANGED <<connected, request>>
  BY <1>0, <1>1, <1>3, <1>4, AnswerLeaves
<1>6. \A b \in verified' : b \in verified \/ (b = a /\ m = {})
  BY <1>0, <1>1
<1>7. verified' \subseteq registered
  BY <1>0 DEF IInv, TypeOK
<1>8. TypeOK'
  BY <1>0, <1>5, <1>7 DEF IInv, TypeOK, spoolVars
<1>9. EventsKept' /\ ChunksKept' /\ TraceHasEvidence' /\ CompletedHasTrace'
  BY <1>0 DEF IInv, Kept, EventsKept, ChunksKept, TraceHasEvidence, CompletedHasTrace, spoolVars
<1>10. VerifiedInFull'
  BY <1>0, <1>2, <1>3, <1>6, SMTT(60) DEF IInv, Kept, VerifiedInFull
<1> QED
  BY <1>5, <1>8, <1>9, <1>10 DEF IInv, Kept

(* A call that goes on with the rest of its batch.                         *)
LEMMA FrameShrinks ==
  ASSUME NEW c \in CallType, NEW n, NEW f, f = [c.frame EXCEPT !.batch = c.frame.batch \ {n}]
  PROVE  f \in FrameType /\ f.run = c.frame.run /\ f.event = c.frame.event
<1>1. c.frame \in FrameType
  BY DEF CallType
<1> QED
  BY <1>1 DEF FrameType

(* One event of a batch: it is refused, known, ahead or stored.            *)
LEMMA IngestOutcome ==
  ASSUME IInv, IngestEvent
  PROVE  \E r \in Runs, n \in Events :
           /\ r = call.frame.run
           /\ \/ Refuse /\ UNCHANGED cursor
              \/ /\ call' = [call EXCEPT !.frame.batch = @ \ {n}, !.next = cursor[r], !.stage = "batch"]
                 /\ UNCHANGED linkVars /\ UNCHANGED cursor
              \/ Answer([NoReply EXCEPT !.kind = "ack", !.next = cursor[r]]) /\ UNCHANGED cursor
              \/ /\ AppendResult(r, n) = "accepted"
                 /\ cursor' = [cursor EXCEPT ![r] = n + 1]
                 /\ call' = [call EXCEPT !.frame.batch = @ \ {n}, !.next = n + 1,
                                         !.stage = IF n \in Findings THEN "finding" ELSE "batch"]
                 /\ UNCHANGED linkVars
<1>0. call.stage = "batch" /\ call.frame.batch # {} /\ call \in CallType
  BY DEF IngestEvent, IInv, TypeOK
<1>1. PICK r \in Runs : r = call.frame.run
  BY <1>0 DEF IInv, Protocol, CallKnows
<1>2. PICK n \in Events : n = First(call.frame.batch)
  <2>1. call.frame.batch \subseteq Events
    BY <1>0 DEF CallType, FrameType
  <2>2. call.frame.batch \in SUBSET Nat
    BY <2>1, SizesAreNat DEF Events
  <2> QED
    BY <1>0, <2>1, <2>2, FirstIsLeast
<1>3. AppendResult(r, n) \in {"artifact_unacknowledged", "duplicate", "sequence_gap", "accepted"}
  <2>1. n \in 1..Length /\ cursor[r] \in 1..(Length + 1) /\ Length \in Nat
    BY SizesAreNat DEF Events, IInv, TypeOK
  <2> QED
    BY <2>1 DEF AppendResult
<1> QED
  BY <1>1, <1>2, <1>3 DEF IngestEvent

LEMMA IngestEventKeeps ==
  ASSUME IInv, IngestEvent
  PROVE  IInv'
<1>0. /\ call.stage = "batch" /\ call.frame.batch # {} /\ call \in CallType
      /\ UNCHANGED <<spoolVars, runner, recorded, lease, findings, registered, verified,
                     stored, faults>>
  BY ZenonT(60) DEF IngestEvent, IInv, TypeOK
<1>1. PICK r \in Runs, n \in Events :
           /\ r = call.frame.run
           /\ \/ Refuse /\ UNCHANGED cursor
              \/ /\ call' = [call EXCEPT !.frame.batch = @ \ {n}, !.next = cursor[r], !.stage = "batch"]
                 /\ UNCHANGED linkVars /\ UNCHANGED cursor
              \/ Answer([NoReply EXCEPT !.kind = "ack", !.next = cursor[r]]) /\ UNCHANGED cursor
              \/ /\ AppendResult(r, n) = "accepted"
                 /\ cursor' = [cursor EXCEPT ![r] = n + 1]
                 /\ call' = [call EXCEPT !.frame.batch = @ \ {n}, !.next = n + 1,
                                         !.stage = IF n \in Findings THEN "finding" ELSE "batch"]
                 /\ UNCHANGED linkVars
  BY IngestOutcome
<1>2. r = call.frame.run
  BY <1>1
<1>3. n \in 1..Length /\ cursor[r] \in 1..(Length + 1) /\ Length \in Nat
  BY SizesAreNat DEF Events, IInv, TypeOK
<1>5. CASE Refuse /\ UNCHANGED cursor
  <2>1. faults' \in 0..MaxFaults
    BY <1>0 DEF IInv, TypeOK
  <2> QED
    BY <1>0, <1>5, <2>1, RefuseKeeps
<1>6. CASE /\ call' = [call EXCEPT !.frame.batch = @ \ {n}, !.next = cursor[r], !.stage = "batch"]
           /\ UNCHANGED linkVars /\ UNCHANGED cursor
  <2>1. cursor[r] \in 0..(Length + 1)
    BY <1>3
  <2>2. /\ call' \in CallType /\ call'.live = call.live /\ call'.frame.run = call.frame.run
        /\ call'.frame.event = call.frame.event /\ call'.next = cursor[r] /\ call'.stage = "batch"
    <3>1. call \in CallType /\ cursor[r] \in 0..(Length + 1) /\ "batch" \in {"batch", "finding"}
      BY <1>0, <2>1
    <3> DEFINE f == [call.frame EXCEPT !.batch = call.frame.batch \ {n}]
    <3>2. call' = [call EXCEPT !.frame = f, !.next = cursor[r], !.stage = "batch"]
      BY <1>6, <3>1 DEF CallType
    <3>3. f \in FrameType /\ f.run = call.frame.run /\ f.event = call.frame.event
      BY <3>1, FrameShrinks
    <3> HIDE DEF f
    <3>4. /\ call' \in CallType /\ call'.live = call.live /\ call'.frame = f /\ call'.next = cursor[r]
          /\ call'.stage = "batch"
      BY <3>1, <3>2, <3>3 DEF CallType
    <3> QED
      BY <3>3, <3>4
  <2>3. /\ \A q \in Runs : cursor'[q] \in Nat /\ cursor[q] <= cursor'[q]
        /\ \A q \in Runs : cursor[q] = Length + 1 => cursor'[q] = Length + 1
        /\ \A a \in Artifacts : stored[a] \subseteq stored'[a]
        /\ call'.next <= cursor'[call.frame.run]
    BY <1>0, <1>2, <1>3, <1>6, <2>2 DEF IInv, TypeOK
  <2>4. Protocol'
    BY <1>0, <1>6, <2>2, <2>3, CallMoves
  <2>5. TypeOK'
    BY <1>0, <1>6, <2>2 DEF IInv, TypeOK, spoolVars, linkVars
  <2>6. Kept'
    BY <1>0, <1>6, KeptFrame DEF IInv, spoolVars
  <2> QED
    BY <2>4, <2>5, <2>6 DEF IInv
<1>7. CASE Answer([NoReply EXCEPT !.kind = "ack", !.next = cursor[r]]) /\ UNCHANGED cursor
  <2> DEFINE ans == [NoReply EXCEPT !.kind = "ack", !.next = cursor[r]]
  <2>1. cursor[r] \in 0..(Length + 1) /\ cursor[r] <= cursor[r]
    BY <1>3
  <2>2. ans \in ReplyType /\ ans.kind = "ack" /\ ans.next = cursor[r] /\ Answer(ans)
    BY <1>7, <2>1, AckReply
  <2> HIDE DEF ans
  <2>3. /\ Protocol' /\ call' \in CallType /\ reply' \in ReplyType
        /\ UNCHANGED <<connected, request>>
    BY <1>0, <1>2, <1>7, <2>1, <2>2, AnswerLeaves
  <2>4. TypeOK'
    BY <1>0, <1>7, <2>3 DEF IInv, TypeOK, spoolVars
  <2>5. Kept'
    BY <1>0, <1>7, KeptFrame DEF IInv, spoolVars
  <2> QED
    BY <2>3, <2>4, <2>5 DEF IInv
<1>8. CASE /\ AppendResult(r, n) = "accepted"
           /\ cursor' = [cursor EXCEPT ![r] = n + 1]
           /\ call' = [call EXCEPT !.frame.batch = @ \ {n}, !.next = n + 1,
                                   !.stage = IF n \in Findings THEN "finding" ELSE "batch"]
           /\ UNCHANGED linkVars
  <2> DEFINE s == IF n \in Findings THEN "finding" ELSE "batch"
  <2>1. n = cursor[r] /\ \A m \in Refs[n] : <<r, m>> \in verified
    BY <1>3, <1>8 DEF AppendResult, Unacknowledged
  <2>2. /\ n + 1 \in 0..(Length + 1) /\ n + 1 \in 1..(Length + 1)
        /\ s \in {"batch", "finding"} /\ (s = "finding" => (n + 1) - 1 \in Findings)
    BY <1>3
  <2>3. call' = [call EXCEPT !.frame.batch = @ \ {n}, !.next = n + 1, !.stage = s]
    BY <1>8
  <2> HIDE DEF s
  <2>4. /\ call' \in CallType /\ call'.live = call.live /\ call'.frame.run = call.frame.run
        /\ call'.frame.event = call.frame.event /\ call'.next = n + 1 /\ call'.stage = s
    <3>1. call \in CallType /\ n + 1 \in 0..(Length + 1) /\ s \in {"batch", "finding"}
      BY <1>0, <2>2
    <3> DEFINE f == [call.frame EXCEPT !.batch = call.frame.batch \ {n}]
    <3>2. call' = [call EXCEPT !.frame = f, !.next = n + 1, !.stage = s]
      BY <2>3, <3>1 DEF CallType
    <3>3. f \in FrameType /\ f.run = call.frame.run /\ f.event = call.frame.event
      BY <3>1, FrameShrinks
    <3> HIDE DEF f
    <3>4. /\ call' \in CallType /\ call'.live = call.live /\ call'.frame = f /\ call'.next = n + 1
          /\ call'.stage = s
      BY <3>1, <3>2, <3>3 DEF CallType
    <3> QED
      BY <3>3, <3>4
  <2>5. /\ cursor' \in [Runs -> 1..(Length + 1)] /\ cursor'[r] = n + 1
        /\ \A q \in Runs : q # r => cursor'[q] = cursor[q]
    BY <1>8, <2>2 DEF IInv, TypeOK
  <2>6. \A q \in Runs : cursor[q] \in Nat /\ cursor'[q] \in Nat /\ cursor[q] <= cursor'[q]
    BY <1>3, <2>1, <2>5 DEF IInv, TypeOK
  <2>7. \A q \in Runs : cursor[q] = Length + 1 => cursor'[q] = Length + 1
    BY <1>3, <2>1, <2>5
  <2>8. Protocol'
    <3>1. call'.next <= cursor'[call.frame.run]
      BY <1>2, <1>3, <2>4, <2>5
    <3>2. \A a \in Artifacts : stored[a] \subseteq stored'[a]
      BY <1>0
    <3>3. call'.stage \in {"batch", "finding"} /\ (call'.stage = "finding" => call'.next - 1 \in Findings)
      BY <2>2, <2>4
    <3> QED
      BY <1>0, <1>8, <2>4, <2>6, <2>7, <3>1, <3>2, <3>3, CallMoves
  <2>9. TypeOK'
    BY <1>0, <1>8, <2>4, <2>5 DEF IInv, TypeOK, spoolVars, linkVars
  <2>10. VerifiedInFull' /\ ChunksKept'
    BY <1>0 DEF IInv, Kept, VerifiedInFull, ChunksKept, spoolVars
  <2>11. CompletedHasTrace'
    BY <1>0, <2>7 DEF IInv, Kept, CompletedHasTrace
  <2>12. EventsKept'
    <3> SUFFICES ASSUME NEW q \in Runs, NEW m \in 1..recorded[q]
                 PROVE  m \in spooled[q] \/ m < cursor'[q]
      BY <1>0 DEF EventsKept, spoolVars
    <3>1. m \in spooled[q] \/ m < cursor[q]
      BY DEF IInv, Kept, EventsKept
    <3>2. m \in Nat
      OBVIOUS
    <3> QED
      BY <2>6, <3>1, <3>2
  <2>13. TraceHasEvidence'
    <3> SUFFICES ASSUME NEW q \in Runs, NEW k \in Events, k < cursor'[q], NEW m \in Refs[k]
                 PROVE  stored[<<q, m>>] = Chunks
      BY <1>0 DEF TraceHasEvidence
    <3>1. k < cursor[q] \/ (q = r /\ k = n)
      BY <1>3, <2>1, <2>5, SizesAreNat DEF Events
    <3>2. CASE k < cursor[q]
      BY <3>2 DEF IInv, Kept, TraceHasEvidence
    <3>3. CASE q = r /\ k = n
      BY <2>1, <3>3 DEF IInv, Kept, VerifiedInFull
    <3> QED
      BY <3>1, <3>2, <3>3
  <2> QED
    BY <2>8, <2>9, <2>10, <2>11, <2>12, <2>13 DEF IInv, Kept
<1> QED
  BY <1>1, <1>5, <1>6, <1>7, <1>8

(* The finding of the event that was just stored.                          *)
LEMMA IngestFindingKeeps ==
  ASSUME IInv, IngestFinding
  PROVE  IInv'
<1>0. /\ call.stage = "finding" /\ call' = [call EXCEPT !.stage = "batch"] /\ call \in CallType
      /\ findings' = findings \cup {<<call.frame.run, call.next - 1>>}
      /\ UNCHANGED <<spoolVars, runner, recorded, linkVars, lease, cursor, registered,
                     verified, stored, faults>>
  BY DEF IngestFinding, IInv, TypeOK
<1>1. call.frame.run \in Runs /\ call.next <= cursor[call.frame.run] /\ call.next - 1 \in Findings
  BY <1>0 DEF IInv, Protocol, CallKnows
<1>2. /\ call' \in CallType /\ call'.live = call.live /\ call'.frame = call.frame
      /\ call'.next = call.next /\ call'.stage = "batch"
  BY <1>0 DEF CallType
<1>3. /\ \A q \in Runs : cursor'[q] \in Nat /\ cursor[q] <= cursor'[q]
      /\ \A q \in Runs : cursor[q] = Length + 1 => cursor'[q] = Length + 1
      /\ \A a \in Artifacts : stored[a] \subseteq stored'[a]
      /\ call'.next <= cursor'[call.frame.run]
  BY <1>0, <1>1, <1>2 DEF IInv, TypeOK
<1>4. Protocol'
  BY <1>0, <1>2, <1>3, CallMoves
<1>5. findings' \subseteq Runs \X Findings
  BY <1>0, <1>1 DEF IInv, TypeOK
<1>6. TypeOK'
  BY <1>0, <1>2, <1>5 DEF IInv, TypeOK, spoolVars, linkVars
<1>7. Kept'
  BY <1>0, KeptFrame DEF IInv, spoolVars
<1> QED
  BY <1>4, <1>6, <1>7 DEF IInv

(* The batch is answered with the number that Core expects next.           *)
LEMMA AnswerBatchKeeps ==
  ASSUME IInv, AnswerBatch
  PROVE  IInv'
<1> DEFINE ans == [NoReply EXCEPT !.kind = "ack", !.next = call.next]
<1>0. /\ call.stage = "batch" /\ call.frame.batch = {} /\ Answer(ans)
      /\ UNCHANGED <<spoolVars, runner, recorded, lease, cursor, findings, registered,
                     verified, stored, faults>>
  BY DEF AnswerBatch
<1>1. call.next \in 0..(Length + 1) /\ call.next <= cursor[call.frame.run]
  BY <1>0 DEF IInv, TypeOK, CallType, Protocol, CallKnows
<1>2. ans \in ReplyType /\ ans.kind = "ack" /\ ans.next = call.next
  BY <1>1, AckReply
<1> HIDE DEF ans
<1>3. /\ Protocol' /\ call' \in CallType /\ reply' \in ReplyType
      /\ UNCHANGED <<connected, request>>
  BY <1>0, <1>1, <1>2, AnswerLeaves
<1>4. TypeOK'
  BY <1>0, <1>3 DEF IInv, TypeOK, spoolVars
<1>5. Kept'
  BY <1>0, KeptFrame DEF IInv, spoolVars
<1> QED
  BY <1>3, <1>4, <1>5 DEF IInv

(* Core completes the run, or refuses to.                                  *)
LEMMA ServeCompleteKeeps ==
  ASSUME IInv, ServeComplete
  PROVE  IInv'
<1>0. /\ call.stage = "complete"
      /\ UNCHANGED <<spoolVars, runner, recorded, cursor, findings, registered, verified,
                     stored, faults>>
  BY DEF ServeComplete
<1>1. CASE Refuse /\ UNCHANGED lease
  <2>1. faults' \in 0..MaxFaults
    BY <1>0 DEF IInv, TypeOK
  <2> QED
    BY <1>0, <1>1, <2>1, RefuseKeeps
<1>2. CASE /\ lease' = [lease EXCEPT ![call.frame.run] = "completed"]
           /\ call' = NoCall /\ UNCHANGED linkVars
  <2>1. PICK r \in Runs : r = call.frame.run
    BY <1>0 DEF IInv, Protocol, CallKnows
  <2>2. cursor[r] = Length + 1
    BY <1>0, <2>1 DEF IInv, Protocol, CallKnows
  <2>3. /\ lease' \in [Runs -> {"none", "live", "lost", "completed"}]
        /\ \A q \in Runs : q # r => lease'[q] = lease[q]
    BY <1>2, <2>1 DEF IInv, TypeOK
  <2>4. TypeOK'
    BY <1>0, <1>2, <2>3, Sentinels DEF IInv, TypeOK, spoolVars, linkVars
  <2>5. RunnerKnows' /\ RequestKnows' /\ CallKnows' /\ OneAwaited'
    BY <1>0, <1>2, Sentinels DEF IInv, Protocol, RunnerKnows, RequestKnows, CallKnows, OneAwaited, linkVars
  <2>6. IdleKnows' /\ ArtifactPumpKnows' /\ TracePumpKnows'
    BY <1>0, <1>2, Sentinels DEF IInv, Protocol, IdleKnows, ArtifactPumpKnows, TracePumpKnows,
                                 Waiting, Current, Artifact, linkVars
  <2>7. VerifiedInFull' /\ EventsKept' /\ ChunksKept' /\ TraceHasEvidence'
    BY <1>0 DEF IInv, Kept, VerifiedInFull, EventsKept, ChunksKept, TraceHasEvidence, spoolVars
  <2>8. CompletedHasTrace'
    BY <1>0, <2>2, <2>3 DEF IInv, Kept, CompletedHasTrace
  <2> QED
    BY <2>4, <2>5, <2>6, <2>7, <2>8 DEF IInv, Protocol, Kept
<1> QED
  BY <1>1, <1>2 DEF ServeComplete

(* The lease of a run ends.                                                *)
LEMMA ExpireKeeps ==
  ASSUME IInv, NEW r \in Runs, Expire(r)
  PROVE  IInv'
<1>0. /\ lease' = [lease EXCEPT ![r] = "lost"]
      /\ UNCHANGED <<spoolVars, runner, recorded, linkVars, call, cursor, findings,
                     registered, verified, stored, faults>>
  BY DEF Expire
<1>1. TypeOK'
  BY <1>0 DEF IInv, TypeOK, spoolVars, linkVars
<1>2. Protocol'
  BY <1>0, ProtocolFrame DEF IInv, linkVars
<1>3. VerifiedInFull' /\ EventsKept' /\ ChunksKept' /\ TraceHasEvidence'
  BY <1>0 DEF IInv, Kept, VerifiedInFull, EventsKept, ChunksKept, TraceHasEvidence, spoolVars
<1>4. CompletedHasTrace'
  BY <1>0 DEF IInv, TypeOK, Kept, CompletedHasTrace
<1> QED
  BY <1>1, <1>2, <1>3, <1>4 DEF IInv, Kept

(* A call of a connection that is gone goes on, and is not answered.       *)
LEMMA CallOrphaned ==
  ASSUME NEW c \in CallType, NEW d, d = [c EXCEPT !.live = FALSE]
  PROVE  /\ d \in CallType /\ d.live = FALSE /\ d.stage = c.stage
         /\ d.frame = c.frame /\ d.next = c.next
BY DEF CallType

(* The connection breaks, the Runner or Core crashes, a transaction fails. *)
LEMMA FaultKeeps ==
  ASSUME IInv, Disconnect \/ RunnerCrash \/ CoreCrash \/ StoreFault
  PROVE  IInv'
<1>0. /\ faults' \in 0..MaxFaults
      /\ UNCHANGED <<spoolVars, recorded, lease, cursor, findings, registered, verified, stored>>
  <2>1. faults \in 0..MaxFaults /\ faults < MaxFaults /\ faults' = faults + 1 /\ MaxFaults \in Nat
    BY SizesAreNat DEF Disconnect, RunnerCrash, CoreCrash, StoreFault, Fault, IInv, TypeOK
  <2>2. UNCHANGED <<spoolVars, recorded, lease, cursor, findings, registered, verified, stored>>
    BY DEF Disconnect, RunnerCrash, CoreCrash, StoreFault
  <2> QED
    BY <2>1, <2>2
<1>1. CASE StoreFault
  BY <1>0, <1>1, RefuseKeeps DEF StoreFault
<1>2. CASE Disconnect \/ RunnerCrash \/ CoreCrash
  <2>1. /\ connected' = FALSE /\ request' = NoFrame /\ reply' = NoReply
        /\ runner' = runner \/ runner' = Doing("down")
        /\ call' = NoCall \/ call' = [call EXCEPT !.live = FALSE]
    BY <1>2 DEF Disconnect, RunnerCrash, CoreCrash, Break
  <2>2. /\ call' \in CallType /\ call'.live = FALSE
        /\ \/ call'.stage = "none"
           \/ call'.stage = call.stage /\ call'.frame = call.frame /\ call'.next = call.next
    BY <2>1, CallOrphaned, Sentinels DEF IInv, TypeOK
  <2>3. /\ runner' \in RunnerType
        /\ runner' = runner \/ (runner'.does = "down" /\ runner'.stage = "none")
    BY <2>1, DoingIsRunner DEF IInv, TypeOK
  <2>4. TypeOK'
    BY <1>0, <2>1, <2>2, <2>3, Sentinels DEF IInv, TypeOK, spoolVars
  <2>5. Kept'
    BY <1>0, KeptFrame DEF IInv, spoolVars
  <2>6. RunnerKnows' /\ RequestKnows' /\ OneAwaited'
    BY <1>0, <2>1, <2>2, <2>3 DEF IInv, Protocol, RunnerKnows, RequestKnows, OneAwaited
  <2>7. CallKnows'
    BY <1>0, <2>2 DEF IInv, Protocol, CallKnows
  <2>8. IdleKnows' /\ ArtifactPumpKnows' /\ TracePumpKnows'
    BY <2>1, <2>2, <2>3 DEF IdleKnows, ArtifactPumpKnows, TracePumpKnows, Waiting
  <2> QED
    BY <2>4, <2>5, <2>6, <2>7, <2>8 DEF IInv, Protocol
<1> QED
  BY <1>1, <1>2
-----------------------------------------------------------------------------
(* Progress is reported of Artifacts that are registered.                  *)
ProgressRegistered == call.stage = "progress" => Artifact \in registered

LEMMA InitEstablishes ==
  ASSUME Init
  PROVE  IInv /\ ProgressRegistered
<1>1. TypeOK
  BY SizesAreNat, Sentinels, DoingIsRunner DEF Init, TypeOK
<1>2. runner.does = "idle" /\ runner.stage = "none"
  BY DoingIsRunner DEF Init
<1>3. Protocol
  BY <1>2, Sentinels DEF Init, Protocol, RunnerKnows, RequestKnows, CallKnows, OneAwaited,
                         IdleKnows, ArtifactPumpKnows, TracePumpKnows, Waiting
<1>4. Kept
  <2>1. VerifiedInFull /\ EventsKept /\ CompletedHasTrace
    BY DEF Init, VerifiedInFull, EventsKept, CompletedHasTrace
  <2>2. ChunksKept
    <3> SUFFICES ASSUME NEW a \in Artifacts PROVE ~(a[2] <= recorded[a[1]])
      BY DEF ChunksKept
    <3>1. a[1] \in Runs /\ a[2] \in 1..Length
      BY ArtifactParts, EventKinds DEF Events
    <3> QED
      BY <3>1 DEF Init
  <2>3. TraceHasEvidence
    BY SizesAreNat, SMTT(60) DEF Init, TraceHasEvidence, Events
  <2> QED
    BY <2>1, <2>2, <2>3 DEF Kept
<1> QED
  BY <1>1, <1>3, <1>4, Sentinels DEF IInv, ProgressRegistered, Init

LEMMA RegisteredKeeps ==
  ASSUME IInv, ProgressRegistered, [Next]_vars
  PROVE  ProgressRegistered'
<1>1. CASE UNCHANGED <<call, registered>>
  BY <1>1 DEF ProgressRegistered, Artifact
<1>2. CASE call' = NoCall
  BY <1>2, Sentinels DEF ProgressRegistered
<1>3. CASE call' = [call EXCEPT !.live = FALSE] /\ UNCHANGED registered
  <2>1. call'.stage = call.stage /\ call'.frame = call.frame
    BY <1>3, CallOrphaned DEF IInv, TypeOK
  <2> QED
    BY <1>3, <2>1 DEF ProgressRegistered, Artifact
<1>4. CASE TakeFrame
  BY <1>4 DEF TakeFrame, IInv, TypeOK, FrameType, ProgressRegistered
<1>5. CASE ServeManifest /\ call' # NoCall
  BY <1>5 DEF ServeManifest, Refuse, IInv, TypeOK, CallType, ProgressRegistered, Artifact
<1>6. CASE ServeChunk /\ call' # NoCall
  BY <1>6 DEF ServeChunk, Refuse, IInv, TypeOK, CallType, ProgressRegistered, Artifact
<1>7. CASE IngestEvent /\ call' # NoCall
  <2>1. call \in CallType
    BY ZenonT(60) DEF IInv, TypeOK
  <2>2. call'.stage \in {"batch", "finding"}
    BY <1>7, <2>1, IngestOutcome DEF Refuse, Answer, CallType
  <2> QED
    BY <2>2 DEF ProgressRegistered
<1>8. CASE IngestFinding
  BY <1>8 DEF IngestFinding, IInv, TypeOK, CallType, ProgressRegistered
<1> QED
  BY <1>1, <1>2, <1>3, <1>4, <1>5, <1>6, <1>7, <1>8
     DEF Next, RunnerStep, CoreStep, vars, coreVars, SaveArtifactManifest, SaveArtifactChunk,
         AppendEvent, BeginFinalize, ReplayRun, NoticeClosed, Restart, Connect, EndReplay,
         RegisterManifest, UploadChunk, LeaveArtifact, ArtifactsDrained, ReceiveProgress,
         SubmitBatch, ReceiveAck, ReplayDrained, Complete, Send, ServeProgress, AnswerBatch,
         Answer, ServeComplete, Refuse, AbandonRun, Accept, Expire, Disconnect, RunnerCrash,
         CoreCrash, StoreFault, Quiet

LEMMA StepKeeps ==
  ASSUME IInv, ProgressRegistered, [Next]_vars
  PROVE  IInv'
<1>1. CASE RunnerStep
  BY <1>1, SaveArtifactKeeps, AppendEventKeeps, BeginFinalizeKeeps, ReplayRunKeeps, GivingUpKeeps,
     ConnectKeeps, EndReplayKeeps, PumpSendsKeeps, PumpMovesKeeps, ReceiveProgressKeeps,
     ReceiveAckKeeps, CompleteKeeps DEF RunnerStep
<1>2. CASE CoreStep
  <2>1. ASSUME ServeProgress PROVE IInv'
    <3>1. Artifact \in registered
      BY <2>1 DEF ServeProgress, ProgressRegistered
    <3> QED
      BY <2>1, <3>1, ServeProgressKeeps
  <2> QED
    BY <1>2, <2>1, TakeFrameKeeps, ServeManifestKeeps, ServeChunkKeeps, IngestEventKeeps,
       IngestFindingKeeps, AnswerBatchKeeps, ServeCompleteKeeps DEF CoreStep
<1>3. CASE AbandonRun \/ \E r \in Runs : Accept(r) \/ Expire(r)
  BY <1>3, GivingUpKeeps, AcceptKeeps, ExpireKeeps
<1>4. CASE Disconnect \/ RunnerCrash \/ CoreCrash \/ StoreFault
  BY <1>4, FaultKeeps
<1>5. CASE Quiet \/ UNCHANGED vars
  <2>1. UNCHANGED vars
    BY <1>5 DEF Quiet
  <2>2. TypeOK'
    BY <2>1 DEF IInv, TypeOK, vars
  <2> QED
    BY <2>1, <2>2, KeptFrame, ProtocolFrame DEF IInv, vars
<1> QED
  BY <1>1, <1>2, <1>3, <1>4, <1>5 DEF Next

LEMMA InvariantHolds == Spec => []IInv
<1> DEFINE Inv == IInv /\ ProgressRegistered
<1>1. Init => Inv
  BY InitEstablishes
<1>2. Inv /\ [Next]_vars => Inv'
  BY StepKeeps, RegisteredKeeps
<1>3. Inv => IInv
  OBVIOUS
<1> QED
  BY <1>1, <1>2, <1>3, PTL DEF Spec

(* A recorded event is in the spool until Core has stored it: what an      *)
(* acknowledgement deletes (SqliteRunnerSpool.acknowledge) is durable in   *)
(* Core, whatever crashes, breaks or is sent again.                        *)
THEOREM NoEventLost == Spec => []EventsKept
<1>1. IInv => EventsKept
  BY DEF IInv, Kept
<1> QED
  BY InvariantHolds, <1>1, PTL

(* The same for every chunk of the Artifact of a recorded observation      *)
(* (acknowledgeArtifactProgress): the progress a pump saves is never that  *)
(* of another Artifact or of more than Core holds.                         *)
THEOREM NoChunkLost == Spec => []ChunksKept
<1>1. IInv => ChunksKept
  BY DEF IInv, Kept
<1> QED
  BY InvariantHolds, <1>1, PTL

(* Core holds in full each Artifact that an event it has stored names      *)
(* (TraceIngestor.ingest).                                                 *)
THEOREM StoredTraceHasEvidence == Spec => []TraceHasEvidence
<1>1. IInv => TraceHasEvidence
  BY DEF IInv, Kept
<1> QED
  BY InvariantHolds, <1>1, PTL

(* A run is completed in Core only with its whole Trace stored: finalize   *)
(* drains the pumps first, and no lost or late frame completes a run.      *)
THEOREM CompletionIsLast == Spec => []CompletedHasTrace
<1>1. IInv => CompletedHasTrace
  BY DEF IInv, Kept
<1> QED
  BY InvariantHolds, <1>1, PTL
=============================================================================

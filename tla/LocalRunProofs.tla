--------------------------- MODULE LocalRunProofs ---------------------------
(***************************************************************************)
(* LocalRun, for every set of runs, any number of connections, crashes and *)
(* attempts, and with or without a store that fails: a run is offered at   *)
(* most once, one whose row is pending has reached no Runner, and what is  *)
(* shown to the user is what the store holds.                              *)
(***************************************************************************)
EXTENDS LocalRun, SequenceTheorems, TLAPS

(* What the running pass knows of the rows: nobody else changes them.      *)
PassKnows ==
  /\ pass.stage # "start" => queue # <<>>
  /\ pass.stage \in {"call", "create", "await"} =>
       Head(queue) = "dispatch" /\ pass.run \in Runs /\ dispatch[pass.run] = "dispatching"
  /\ pass.stage = "loop" /\ Head(queue) # "dispatch" =>
       \A r \in pass.todo : completion[r] = "awaiting"

(* One pass at most is a completion's, and the frame it came with stays at *)
(* the front of a connection that lives on.                                *)
SinkAlone ==
  /\ \A i, j \in 1..Len(queue) : queue[i] = "sink" /\ queue[j] = "sink" => i = j
  /\ chain = "sink" /\ connected => frames # <<>>

(* At most one offer is unanswered, the one the pass waits for: in the     *)
(* Runner's inbox or accepted in a frame that Core has not handled.        *)
OfferKnows ==
  /\ deferred # "none" => pass.stage = "await"
  /\ deferred = "resolved" => pass.run \in leased
  /\ \A i \in 1..Len(inbox) : deferred = "pending" /\ inbox[i] = pass.run /\ i = 1
  /\ \A i \in 1..Len(frames) : frames[i].kind = "accept" =>
       deferred = "pending" /\ frames[i].run = pass.run /\ Len(inbox) = 0
  /\ \A i, j \in 1..Len(frames) :
       frames[i].kind = "accept" /\ frames[j].kind = "accept" => i = j

(* What is on its way to a Runner or back was sent, and a run that was     *)
(* sent is neither pending nor about to be sent.                           *)
SentKnows ==
  /\ \A r \in Runs : dispatch[r] \in {"absent", "pending"} => sent[r] = 0
  /\ pass.stage \in {"call", "create"} => sent[pass.run] = 0
  /\ \A r \in leased \cup authority : sent[r] > 0
  /\ \A i \in 1..Len(inbox) : sent[inbox[i]] > 0
  /\ \A i \in 1..Len(frames) : sent[frames[i].run] > 0
  /\ runner.does # "idle" => runner.run \in Runs /\ sent[runner.run] > 0

IInv == /\ TypeOK
        /\ PassKnows
        /\ SinkAlone
        /\ SinkPassQueued
        /\ OfferKnows
        /\ SentKnows
        /\ AttemptsBounded
        /\ OfferedOnce
        /\ PendingIsUntouched
        /\ ShownIsStored
-----------------------------------------------------------------------------
Passes == {"startup", "dispatch", "live", "sink"}

(* A sequence with one more item.                                          *)
LEMMA AppendFacts ==
  ASSUME NEW S, NEW s \in Seq(S), NEW e \in S
  PROVE  /\ Append(s, e) \in Seq(S) /\ Append(s, e) # <<>>
         /\ Len(s) \in Nat /\ Len(Append(s, e)) = Len(s) + 1
         /\ \A i \in 1..Len(s) : Append(s, e)[i] = s[i]
         /\ Append(s, e)[Len(s) + 1] = e
         /\ s # <<>> => Head(Append(s, e)) = Head(s)
<1>1. /\ Append(s, e) \in Seq(S) /\ Len(s) \in Nat /\ Len(Append(s, e)) = Len(s) + 1
      /\ \A i \in 1..Len(s) : Append(s, e)[i] = s[i]
      /\ Append(s, e)[Len(s) + 1] = e
  BY AppendProperties, LenProperties
<1>2. Append(s, e) # <<>>
  BY <1>1, EmptySeq
<1>3. ASSUME s # <<>> PROVE Head(Append(s, e)) = Head(s)
  <2>1. Len(s) # 0
    BY <1>3, EmptySeq
  <2>2. Head(s) = s[1] /\ Head(Append(s, e)) = Append(s, e)[1] /\ 1 \in 1..Len(s)
    BY <1>1, <1>2, <1>3, <2>1, HeadTailProperties
  <2> QED
    BY <1>1, <2>2
<1> QED
  BY <1>1, <1>2, <1>3

(* A sequence without its first item.                                      *)
LEMMA TailFacts ==
  ASSUME NEW S, NEW s \in Seq(S), s # <<>>
  PROVE  /\ Head(s) = s[1] /\ Head(s) \in S /\ 1 \in 1..Len(s)
         /\ Tail(s) \in Seq(S) /\ Len(s) \in Nat /\ Len(Tail(s)) = Len(s) - 1
         /\ \A i \in 1..Len(Tail(s)) : i + 1 \in 1..Len(s) /\ i + 1 # 1 /\ Tail(s)[i] = s[i + 1]
         /\ \A i \in 1..Len(s) : i # 1 => i - 1 \in 1..Len(Tail(s)) /\ Tail(s)[i - 1] = s[i]
<1>1. /\ Head(s) = s[1] /\ Head(s) \in S /\ Tail(s) \in Seq(S) /\ Len(Tail(s)) = Len(s) - 1
      /\ \A i \in 1..Len(Tail(s)) : Tail(s)[i] = s[i + 1]
      /\ Len(s) \in Nat /\ Len(s) # 0
  BY HeadTailProperties, LenProperties, EmptySeq
<1> QED
  BY <1>1

(* PassKnows holds after a step that leaves the pass, its place at the     *)
(* front of the queue and the rows alone.                                  *)
LEMMA PassFrame ==
  ASSUME TypeOK, PassKnows, UNCHANGED <<pass, dispatch, completion>>,
         queue' = queue \/ \E e \in Passes : queue' = Append(queue, e)
  PROVE  PassKnows'
<1>1. queue' = queue \/ (queue' # <<>> /\ (queue # <<>> => Head(queue') = Head(queue)))
  <2>1. queue \in Seq(Passes)
    BY DEF TypeOK, Passes
  <2> QED
    BY <2>1, AppendFacts
<1> QED
  BY <1>1 DEF PassKnows

(* The chain and the completion's pass.                                    *)
LEMMA SinkFrame ==
  ASSUME SinkAlone, SinkPassQueued, UNCHANGED <<queue, chain>>,
         connected' => connected /\ (frames = <<>> \/ frames' # <<>>)
  PROVE  SinkAlone' /\ SinkPassQueued'
BY DEF SinkAlone, SinkPassQueued

(* The offer the pass waits for.                                           *)
LEMMA OfferFrame ==
  ASSUME OfferKnows, UNCHANGED <<deferred, leased, inbox, frames>>,
         deferred # "none" => UNCHANGED pass
  PROVE  OfferKnows'
BY DEF OfferKnows

(* What was sent.                                                          *)
LEMMA SentFrame ==
  ASSUME SentKnows, UNCHANGED <<sent, leased, authority, inbox, frames, runner>>,
         \A r \in Runs : dispatch'[r] \in {"absent", "pending"} => dispatch[r] \in {"absent", "pending"},
         pass'.stage \in {"call", "create"} => UNCHANGED pass
  PROVE  SentKnows'
BY DEF SentKnows

(* What is shown of a run follows from what is known.                      *)
LEMMA ShownFrame ==
  ASSUME PendingIsUntouched, ShownIsStored, UNCHANGED <<sent, leased, authority, completion>>,
         \A r \in Runs : dispatch'[r] \in {"absent", "pending"} => dispatch[r] \in {"absent", "pending"},
         \A r \in Runs : dispatch'[r] = "offered" => dispatch[r] = "offered"
  PROVE  PendingIsUntouched' /\ ShownIsStored'
BY DEF PendingIsUntouched, ShownIsStored

(* A run is created, or its retry delay is over.                           *)
LEMMA CreateKeeps ==
  ASSUME IInv, NEW r \in Runs, Create(r)
  PROVE  IInv'
<1>1. TypeOK'
  BY DEF IInv, TypeOK, Create, storeVars, coordVars, loopVars, linkVars
<1>2. PassKnows'
  BY DEF IInv, TypeOK, PassKnows, Create, storeVars, coordVars, loopVars, linkVars
<1>3. SinkAlone' /\ SinkPassQueued' /\ OfferKnows'
  BY SinkFrame, OfferFrame DEF IInv, Create, storeVars, coordVars, loopVars, linkVars
<1>4. SentKnows'
  BY SentFrame DEF IInv, TypeOK, Create, storeVars, coordVars, loopVars, linkVars
<1>5. AttemptsBounded' /\ OfferedOnce'
  BY DEF IInv, AttemptsBounded, OfferedOnce, Create
<1>6. PendingIsUntouched' /\ ShownIsStored'
  BY ShownFrame DEF IInv, TypeOK, Create, storeVars
<1> QED
  BY <1>1, <1>2, <1>3, <1>4, <1>5, <1>6 DEF IInv

(* The retry delay of a run is over; only due changes.                     *)
LEMMA BecomeDueKeeps ==
  ASSUME IInv, NEW r \in Runs, BecomeDue(r)
  PROVE  IInv'
<1>1. TypeOK'
  BY DEF IInv, TypeOK, BecomeDue, storeVars, coordVars, loopVars, linkVars
<1>2. PassKnows' /\ SinkAlone' /\ SinkPassQueued' /\ OfferKnows' /\ SentKnows'
  BY PassFrame, SinkFrame, OfferFrame, SentFrame
     DEF IInv, BecomeDue, storeVars, coordVars, loopVars, linkVars
<1>3. AttemptsBounded' /\ OfferedOnce'
  BY DEF IInv, AttemptsBounded, OfferedOnce, BecomeDue
<1>4. PendingIsUntouched' /\ ShownIsStored'
  BY ShownFrame DEF IInv, BecomeDue, storeVars
<1> QED
  BY <1>1, <1>2, <1>3, <1>4 DEF IInv

(* The live loop queues its next pass.                                     *)
LEMMA LiveEnqueueKeeps ==
  ASSUME IInv, LiveEnqueue
  PROVE  IInv'
<1>0. queue \in Seq(Passes) /\ liveNext \in Passes /\ liveNext # "sink" /\ queue' = Append(queue, liveNext)
  BY DEF IInv, TypeOK, Passes, LiveEnqueue
<1>a. /\ queue' \in Seq(Passes) /\ Len(queue) \in Nat /\ Len(queue') = Len(queue) + 1
      /\ \A i \in 1..Len(queue) : queue'[i] = queue[i]
      /\ queue'[Len(queue) + 1] = liveNext
  BY <1>0, AppendFacts
<1>1. TypeOK'
  BY <1>a DEF IInv, TypeOK, Passes, LiveEnqueue, rowVars, storeVars, linkVars
<1>2. PassKnows' /\ OfferKnows' /\ SentKnows'
  BY <1>0, PassFrame, OfferFrame, SentFrame DEF IInv, LiveEnqueue, rowVars, storeVars, linkVars
<1>3. SinkAlone' /\ SinkPassQueued'
  BY <1>0, <1>a DEF IInv, SinkAlone, SinkPassQueued, LiveEnqueue, linkVars
<1>4. AttemptsBounded' /\ OfferedOnce'
  BY DEF IInv, AttemptsBounded, OfferedOnce, LiveEnqueue, rowVars
<1>5. PendingIsUntouched' /\ ShownIsStored'
  BY ShownFrame DEF IInv, LiveEnqueue, rowVars, storeVars
<1> QED
  BY <1>1, <1>2, <1>3, <1>4, <1>5 DEF IInv

(* dispatchPass reads the pending rows.                                    *)
LEMMA StartDispatchKeeps ==
  ASSUME IInv, StartDispatch
  PROVE  IInv'
<1>1. /\ pass' \in PassType /\ pass'.stage = "loop" /\ pass.stage = "start"
      /\ queue # <<>> /\ Head(queue) = "dispatch"
      /\ UNCHANGED <<rowVars, storeVars, queue, loopVars, chain, linkVars, sent, crashes>>
  BY DEF StartDispatch, NoPass, PassType, Unless, Running
<1>2. TypeOK'
  BY <1>1 DEF IInv, TypeOK, rowVars, storeVars, loopVars, linkVars
<1>3. PassKnows'
  BY <1>1 DEF PassKnows
<1>4. SinkAlone' /\ SinkPassQueued'
  BY <1>1, SinkFrame DEF IInv, linkVars
<1>5. OfferKnows' /\ SentKnows'
  BY <1>1, OfferFrame, SentFrame DEF IInv, OfferKnows, rowVars, storeVars, linkVars
<1>6. AttemptsBounded' /\ OfferedOnce'
  BY <1>1 DEF IInv, AttemptsBounded, OfferedOnce, rowVars
<1>7. PendingIsUntouched' /\ ShownIsStored'
  BY <1>1, ShownFrame DEF IInv, rowVars, storeVars
<1> QED
  BY <1>2, <1>3, <1>4, <1>5, <1>6, <1>7 DEF IInv

(* pendingCompletions, at the start of a reconciliation pass.              *)
LEMMA StartReconcileKeeps ==
  ASSUME IInv, StartReconcile
  PROVE  IInv'
<1>1. /\ pass' \in PassType /\ pass'.stage = "loop" /\ pass.stage = "start"
      /\ \A r \in pass'.todo : completion[r] = "awaiting"
      /\ queue # <<>> /\ Head(queue) # "dispatch"
      /\ UNCHANGED <<rowVars, storeVars, queue, loopVars, chain, linkVars, sent, crashes>>
  BY DEF StartReconcile, Reconciling, Candidates, NoPass, PassType, Unless, Running, IInv, TypeOK
<1>2. TypeOK'
  BY <1>1 DEF IInv, TypeOK, rowVars, storeVars, loopVars, linkVars
<1>3. PassKnows'
  BY <1>1 DEF PassKnows, rowVars
<1>4. SinkAlone' /\ SinkPassQueued'
  BY <1>1, SinkFrame DEF IInv, linkVars
<1>5. OfferKnows' /\ SentKnows'
  BY <1>1, OfferFrame, SentFrame DEF IInv, OfferKnows, rowVars, storeVars, linkVars
<1>6. AttemptsBounded' /\ OfferedOnce'
  BY <1>1 DEF IInv, AttemptsBounded, OfferedOnce, rowVars
<1>7. PendingIsUntouched' /\ ShownIsStored'
  BY <1>1, ShownFrame DEF IInv, rowVars, storeVars
<1> QED
  BY <1>2, <1>3, <1>4, <1>5, <1>6, <1>7 DEF IInv

(* A pending run is marked, and about to be sent, or it is skipped.        *)
LEMMA BeginOfferKeeps ==
  ASSUME IInv, NEW r \in Runs, BeginOffer(r)
  PROVE  IInv'
<1>0. /\ queue # <<>> /\ Head(queue) = "dispatch" /\ pass.stage = "loop" /\ pass \in PassType
      /\ generation \in Nat
      /\ UNCHANGED <<completion, attempt, due, storeVars, queue, loopVars, chain,
                     linkVars, sent, crashes>>
  BY DEF IInv, TypeOK, BeginOffer, Running
<1>1. SinkAlone' /\ SinkPassQueued' /\ OfferKnows'
  BY <1>0, SinkFrame, OfferFrame DEF IInv, OfferKnows, storeVars, linkVars
<1>2. AttemptsBounded' /\ OfferedOnce'
  BY <1>0 DEF IInv, AttemptsBounded, OfferedOnce
<1>3. CASE connected /\ dispatch[r] = "pending"
  <2> DEFINE new == [pass EXCEPT !.stage = "call", !.todo = pass.todo \ {r},
                                 !.run = r, !.generation = generation]
  <2>1. new \in PassType /\ new.stage = "call" /\ new.run = r
    BY <1>0 DEF PassType
  <2>2. pass' = new
    BY <1>0, <1>3 DEF BeginOffer, PassType
  <2>3. dispatch' = [dispatch EXCEPT ![r] = "dispatching"]
    BY <1>3 DEF BeginOffer
  <2> HIDE DEF new
  <2>4. TypeOK'
    BY <1>0, <2>1, <2>2, <2>3 DEF IInv, TypeOK, storeVars, loopVars, linkVars
  <2>5. PassKnows'
    BY <1>0, <2>1, <2>2, <2>3 DEF IInv, TypeOK, PassKnows
  <2>6. SentKnows'
    BY <1>0, <1>3, <2>1, <2>2, <2>3 DEF IInv, TypeOK, SentKnows, storeVars, linkVars
  <2>7. PendingIsUntouched' /\ ShownIsStored'
    BY <1>0, <2>3, ShownFrame DEF IInv, TypeOK, storeVars
  <2> QED
    BY <1>1, <1>2, <2>4, <2>5, <2>6, <2>7 DEF IInv
<1>4. CASE ~(connected /\ dispatch[r] = "pending")
  <2>1. pass' = [pass EXCEPT !.todo = @ \ {r}] /\ dispatch' = dispatch
    BY <1>4 DEF BeginOffer
  <2>2. pass' \in PassType /\ pass'.stage = "loop"
    BY <1>0, <2>1 DEF PassType
  <2>3. TypeOK'
    BY <1>0, <2>1, <2>2 DEF IInv, TypeOK, storeVars, loopVars, linkVars
  <2>4. PassKnows'
    BY <1>0, <2>2 DEF PassKnows
  <2>5. SentKnows'
    BY <1>0, <2>1, <2>2, SentFrame DEF IInv, storeVars, linkVars
  <2>6. PendingIsUntouched' /\ ShownIsStored'
    BY <1>0, <2>1, ShownFrame DEF IInv, storeVars
  <2> QED
    BY <1>1, <1>2, <2>3, <2>4, <2>5, <2>6 DEF IInv
<1> QED
  BY <1>3, <1>4

(* The offer is settled in its row: the pass goes on without it.           *)
LEMMA FinishDispatchLeaves ==
  ASSUME TypeOK, PassKnows, queue # <<>>, Head(queue) = "dispatch",
         pass.stage \in {"call", "create", "await"}, UNCHANGED queue,
         NEW state \in {"offered", "unknown"}, FinishDispatch(state)
  PROVE  /\ pass' \in PassType /\ pass'.stage = "loop" /\ PassKnows'
         /\ pass.run \in Runs /\ dispatch[pass.run] = "dispatching"
         /\ dispatch' \in [Runs -> {"absent", "pending", "dispatching", "offered", "unknown"}]
         /\ dispatch' = [dispatch EXCEPT ![pass.run] = state]
         /\ \A r \in Runs : dispatch'[r] \in {"absent", "pending"} =>
              dispatch[r] \in {"absent", "pending"}
         /\ \A r \in Runs : dispatch'[r] = "offered" =>
              dispatch[r] = "offered" \/ (r = pass.run /\ state = "offered")
<1>1. pass.run \in Runs /\ dispatch[pass.run] = "dispatching"
  BY DEF PassKnows
<1>2. pass' \in PassType /\ pass'.stage = "loop"
  BY DEF FinishDispatch, TypeOK, PassType
<1>3. dispatch' = [dispatch EXCEPT ![pass.run] = state]
  BY DEF FinishDispatch
<1> QED
  BY <1>1, <1>2, <1>3 DEF TypeOK, PassKnows

(* connection.offer is called, or fails at once.                           *)
LEMMA CallOfferKeeps ==
  ASSUME IInv, CallOffer
  PROVE  IInv'
<1>0. /\ queue # <<>> /\ Head(queue) = "dispatch" /\ pass.stage = "call" /\ pass \in PassType
      /\ deferred = "none"
      /\ UNCHANGED <<completion, attempt, due, storeVars, queue, loopVars, chain,
                     linkVars, sent, crashes>>
  BY DEF IInv, TypeOK, OfferKnows, CallOffer, Running
<1>1. SinkAlone' /\ SinkPassQueued' /\ AttemptsBounded' /\ OfferedOnce'
  BY <1>0, SinkFrame DEF IInv, AttemptsBounded, OfferedOnce, linkVars
<1>2. CASE pass' = [pass EXCEPT !.stage = "create"] /\ UNCHANGED dispatch
  <2>1. pass' \in PassType /\ pass'.stage = "create" /\ pass'.run = pass.run
    BY <1>0, <1>2 DEF PassType
  <2>2. TypeOK'
    BY <1>0, <1>2, <2>1 DEF IInv, TypeOK, storeVars, loopVars, linkVars
  <2>3. PassKnows' /\ SentKnows'
    BY <1>0, <1>2, <2>1 DEF IInv, PassKnows, SentKnows, storeVars, linkVars
  <2>4. OfferKnows'
    BY <1>0, OfferFrame DEF IInv, storeVars, linkVars
  <2>5. PendingIsUntouched' /\ ShownIsStored'
    BY <1>0, <1>2, ShownFrame DEF IInv, storeVars
  <2> QED
    BY <1>1, <2>2, <2>3, <2>4, <2>5 DEF IInv
<1>3. CASE FinishDispatch("unknown")
  <2>1. /\ pass' \in PassType /\ pass'.stage = "loop" /\ PassKnows'
        /\ dispatch' \in [Runs -> {"absent", "pending", "dispatching", "offered", "unknown"}]
        /\ \A r \in Runs : dispatch'[r] \in {"absent", "pending"} =>
             dispatch[r] \in {"absent", "pending"}
        /\ \A r \in Runs : dispatch'[r] = "offered" => dispatch[r] = "offered"
    BY <1>0, <1>3, FinishDispatchLeaves DEF IInv
  <2>2. TypeOK'
    BY <1>0, <2>1 DEF IInv, TypeOK, storeVars, loopVars, linkVars
  <2>3. OfferKnows' /\ SentKnows'
    BY <1>0, <2>1, OfferFrame, SentFrame DEF IInv, storeVars, linkVars
  <2>4. PendingIsUntouched' /\ ShownIsStored'
    BY <1>0, <2>1, ShownFrame DEF IInv, storeVars
  <2> QED
    BY <1>1, <2>1, <2>2, <2>3, <2>4 DEF IInv
<1> QED
  BY <1>2, <1>3 DEF CallOffer

(* The offer is sent, or given up.                                         *)
LEMMA SendOfferKeeps ==
  ASSUME IInv, SendOffer
  PROVE  IInv'
<1>0. /\ queue # <<>> /\ Head(queue) = "dispatch" /\ pass.stage = "create" /\ pass \in PassType
      /\ pass.run \in Runs /\ dispatch[pass.run] = "dispatching"
      /\ sent[pass.run] = 0 /\ deferred = "none"
      /\ UNCHANGED <<completion, attempt, due, storeVars, queue, loopVars, chain,
                     connected, generation, frames, runner, crashes>>
  BY DEF IInv, TypeOK, PassKnows, SentKnows, OfferKnows, SendOffer, Running
<1>1. SinkAlone' /\ SinkPassQueued' /\ AttemptsBounded'
  BY <1>0, SinkFrame DEF IInv, AttemptsBounded
<1>2. CASE /\ inbox' = Append(inbox, pass.run) /\ sent' = [sent EXCEPT ![pass.run] = @ + 1]
           /\ deferred' = "pending" /\ pass' = [pass EXCEPT !.stage = "await"] /\ UNCHANGED dispatch
  <2>1. pass' \in PassType /\ pass'.stage = "await" /\ pass'.run = pass.run
    BY <1>0, <1>2 DEF PassType
  <2>2. inbox \in Seq(Runs) /\ Len(inbox) = 0
    <3>1. inbox \in Seq(Runs) /\ Len(inbox) \in Nat
      BY LenProperties DEF IInv, TypeOK
    <3> QED
      BY <1>0, <3>1 DEF IInv, OfferKnows
  <2>3. inbox' \in Seq(Runs) /\ Len(inbox') = 1 /\ inbox'[1] = pass.run
    BY <1>0, <1>2, <2>2, AppendFacts
  <2>4. /\ sent' \in [Runs -> Nat] /\ sent'[pass.run] = 1
        /\ \A r \in Runs : r # pass.run => sent'[r] = sent[r]
    BY <1>0, <1>2 DEF IInv, TypeOK
  <2>5. TypeOK'
    BY <1>0, <1>2, <2>1, <2>3, <2>4 DEF IInv, TypeOK, storeVars, loopVars
  <2>6. PassKnows'
    BY <1>0, <1>2, <2>1 DEF PassKnows
  <2>7. OfferKnows'
    BY <1>0, <1>2, <2>1, <2>3 DEF IInv, OfferKnows
  <2>8. SentKnows'
    <3>1. \A i \in 1..Len(frames) : frames[i] \in FrameType
      BY ElementOfSeq DEF IInv, TypeOK
    <3>2. \A r \in Runs : sent[r] > 0 => sent'[r] > 0
      BY <1>0, <2>4
    <3> QED
      BY <1>0, <1>2, <2>1, <2>3, <2>4, <3>1, <3>2, SMTT(60) DEF IInv, TypeOK, SentKnows, FrameType, storeVars
  <2>9. OfferedOnce' /\ PendingIsUntouched' /\ ShownIsStored'
    BY <1>0, <1>2, <2>4 DEF IInv, OfferedOnce, PendingIsUntouched, ShownIsStored, storeVars
  <2> QED
    BY <1>1, <2>5, <2>6, <2>7, <2>8, <2>9 DEF IInv
<1>3. CASE FinishDispatch("unknown") /\ UNCHANGED <<inbox, sent, deferred>>
  <2>1. /\ pass' \in PassType /\ pass'.stage = "loop" /\ PassKnows'
        /\ dispatch' \in [Runs -> {"absent", "pending", "dispatching", "offered", "unknown"}]
        /\ \A r \in Runs : dispatch'[r] \in {"absent", "pending"} =>
             dispatch[r] \in {"absent", "pending"}
        /\ \A r \in Runs : dispatch'[r] = "offered" => dispatch[r] = "offered"
    BY <1>0, <1>3, FinishDispatchLeaves DEF IInv
  <2>2. TypeOK'
    BY <1>0, <1>3, <2>1 DEF IInv, TypeOK, storeVars, loopVars
  <2>3. OfferKnows' /\ SentKnows'
    BY <1>0, <1>3, <2>1, OfferFrame, SentFrame DEF IInv, storeVars
  <2>4. OfferedOnce'
    BY <1>3 DEF IInv, OfferedOnce
  <2>5. PendingIsUntouched' /\ ShownIsStored'
    BY <1>0, <1>3, <2>1, ShownFrame DEF IInv, storeVars
  <2> QED
    BY <1>1, <2>1, <2>2, <2>3, <2>4, <2>5 DEF IInv
<1> QED
  BY <1>2, <1>3 DEF SendOffer

(* The promise of the offer is settled.                                    *)
LEMMA OfferSettledKeeps ==
  ASSUME IInv, OfferSettled
  PROVE  IInv'
<1>0. /\ queue # <<>> /\ Head(queue) = "dispatch" /\ pass.stage = "await"
      /\ deferred \in {"resolved", "rejected"} /\ deferred' = "none"
      /\ UNCHANGED <<completion, attempt, due, storeVars, queue, loopVars, chain,
                     connected, generation, frames, inbox, runner, sent, crashes>>
  BY DEF OfferSettled, Running
<1>1. PICK state \in {"offered", "unknown"} :
        FinishDispatch(state) /\ (state = "offered" => deferred = "resolved")
  BY DEF OfferSettled
<1>2. /\ pass' \in PassType /\ pass'.stage = "loop" /\ PassKnows'
      /\ dispatch' \in [Runs -> {"absent", "pending", "dispatching", "offered", "unknown"}]
      /\ \A r \in Runs : dispatch'[r] \in {"absent", "pending"} =>
           dispatch[r] \in {"absent", "pending"}
      /\ \A r \in Runs : dispatch'[r] = "offered" =>
           dispatch[r] = "offered" \/ (r = pass.run /\ state = "offered")
  BY <1>0, <1>1, FinishDispatchLeaves DEF IInv
<1>3. TypeOK'
  BY <1>0, <1>2 DEF IInv, TypeOK, storeVars, loopVars
<1>4. SinkAlone' /\ SinkPassQueued' /\ AttemptsBounded' /\ OfferedOnce'
  BY <1>0, SinkFrame DEF IInv, AttemptsBounded, OfferedOnce
<1>5. OfferKnows'
  BY <1>0 DEF IInv, OfferKnows
<1>6. SentKnows'
  BY <1>0, <1>2, SentFrame DEF IInv, storeVars
<1>7. PendingIsUntouched' /\ ShownIsStored'
  BY <1>0, <1>1, <1>2 DEF IInv, OfferKnows, PendingIsUntouched, ShownIsStored, storeVars
<1> QED
  BY <1>2, <1>3, <1>4, <1>5, <1>6, <1>7 DEF IInv

(* A pass that is no completion's ends.                                    *)
LEMMA EndPassLeaves ==
  ASSUME IInv, queue # <<>>, Head(queue) # "sink", EndPass, UNCHANGED chain,
         connected' => connected /\ (frames = <<>> \/ frames' # <<>>)
  PROVE  /\ queue' \in Seq(Passes) /\ pass' \in PassType /\ pass'.stage = "start"
         /\ PassKnows' /\ SinkAlone' /\ SinkPassQueued'
<1>1. queue \in Seq(Passes) /\ queue' = Tail(queue) /\ pass' = NoPass
  BY DEF IInv, TypeOK, Passes, EndPass
<1>2. pass' \in PassType /\ pass'.stage = "start"
  BY <1>1 DEF NoPass, PassType
<1>3. PassKnows'
  BY <1>2 DEF PassKnows
<1>4. /\ queue' \in Seq(Passes) /\ Head(queue) = queue[1]
      /\ \A i \in 1..Len(queue') : i + 1 \in 1..Len(queue) /\ queue'[i] = queue[i + 1]
      /\ \A i \in 1..Len(queue) : i # 1 => i - 1 \in 1..Len(queue') /\ queue'[i - 1] = queue[i]
  BY <1>1, TailFacts
<1>5. SinkPassQueued'
  BY <1>4, ZenonT(120) DEF IInv, SinkPassQueued
<1>6. SinkAlone'
  <2>1. \A i, j \in 1..Len(queue') : queue'[i] = "sink" /\ queue'[j] = "sink" => i + 1 = j + 1
    BY <1>4, SMTT(60) DEF IInv, SinkAlone
  <2>2. \A i, j \in 1..Len(queue') : i + 1 = j + 1 => i = j
    OBVIOUS
  <2> QED
    BY <2>1, <2>2 DEF IInv, SinkAlone
<1> QED
  BY <1>2, <1>3, <1>4, <1>5, <1>6

(* A dispatch pass ends, with all runs seen to or with a failing store.    *)
LEMMA EndDispatchKeeps ==
  ASSUME IInv, EndDispatch \/ DispatchFails
  PROVE  IInv'
<1>0. /\ queue # <<>> /\ Head(queue) # "sink" /\ EndPass
      /\ deferred' \in {deferred, "none"} /\ liveNext' \in {liveNext, "dispatch"}
      /\ deferred # "none" => deferred' = "none" /\ deferred # "pending"
      /\ UNCHANGED <<rowVars, storeVars, stopping, chain, connected, generation, frames, inbox,
                     runner, sent, crashes>>
  BY DEF IInv, OfferKnows, EndDispatch, DispatchFails, Running, loopVars, linkVars
<1>1. /\ queue' \in Seq(Passes) /\ pass' \in PassType /\ pass'.stage = "start"
      /\ PassKnows' /\ SinkAlone' /\ SinkPassQueued'
  BY <1>0, EndPassLeaves
<1>2. TypeOK'
  BY <1>0, <1>1 DEF IInv, TypeOK, Passes, rowVars, storeVars
<1>3. OfferKnows'
  BY <1>0 DEF IInv, OfferKnows, storeVars
<1>4. SentKnows'
  BY <1>0, <1>1, SentFrame DEF IInv, rowVars, storeVars
<1>5. AttemptsBounded' /\ OfferedOnce'
  BY <1>0 DEF IInv, AttemptsBounded, OfferedOnce, rowVars
<1>6. PendingIsUntouched' /\ ShownIsStored'
  BY <1>0, ShownFrame DEF IInv, rowVars, storeVars
<1> QED
  BY <1>1, <1>2, <1>3, <1>4, <1>5, <1>6 DEF IInv

(* A candidate of a reconciliation pass is applied or its attempt counted. *)
LEMMA ReconcileCandidateKeeps ==
  ASSUME IInv, NEW r \in Runs, ReconcileCandidate(r)
  PROVE  IInv'
<1>0. /\ queue # <<>> /\ Head(queue) # "dispatch" /\ pass.stage = "loop" /\ pass \in PassType
      /\ completion[r] = "awaiting" /\ attempt[r] < MaxAttempts
      /\ pass' = [pass EXCEPT !.todo = @ \ {r}]
      /\ UNCHANGED <<dispatch, storeVars, queue, loopVars, chain, linkVars, sent, crashes>>
  BY DEF IInv, TypeOK, PassKnows, AttemptsBounded, ReconcileCandidate, Reconciling, Running
<1>1. pass' \in PassType /\ pass'.stage = "loop" /\ pass'.todo = pass.todo \ {r}
  BY <1>0 DEF PassType
<1>2. /\ completion' \in [Runs -> {"awaiting", "applied", "exhausted"}]
      /\ attempt' \in [Runs -> 0..MaxAttempts] /\ due' \subseteq Runs
      /\ \A q \in Runs : q # r => completion'[q] = completion[q] /\ attempt'[q] = attempt[q]
      /\ completion'[r] = "applied" => r \in authority
      /\ completion'[r] = "awaiting" => attempt'[r] < MaxAttempts
  <2>1. CASE r \in authority /\ ApplyCompletion(r)
    BY <2>1 DEF ApplyCompletion, IInv, TypeOK
  <2>2. CASE RecordFailure(r)
    <3>1. attempt' = [attempt EXCEPT ![r] = attempt[r] + 1] /\ attempt[r] \in 0..MaxAttempts
      BY <2>2 DEF RecordFailure, IInv, TypeOK
    <3>2. attempt[r] + 1 \in 0..MaxAttempts
      BY <1>0, <3>1, BoundsAreNat
    <3>3. completion' = [completion EXCEPT ![r] =
                           IF attempt[r] + 1 >= MaxAttempts THEN "exhausted" ELSE "awaiting"]
      BY <1>0, <2>2 DEF RecordFailure, IInv, TypeOK
    <3> QED
      BY <2>2, <3>1, <3>2, <3>3, BoundsAreNat DEF RecordFailure, IInv, TypeOK
  <2> QED
    BY <2>1, <2>2 DEF ReconcileCandidate
<1>3. TypeOK'
  BY <1>0, <1>1, <1>2 DEF IInv, TypeOK, storeVars, loopVars, linkVars
<1>4. PassKnows'
  BY <1>0, <1>1, <1>2 DEF IInv, TypeOK, PassKnows, PassType
<1>5. SinkAlone' /\ SinkPassQueued' /\ OfferedOnce'
  BY <1>0, SinkFrame DEF IInv, OfferedOnce, linkVars
<1>6. OfferKnows' /\ SentKnows'
  BY <1>0, <1>1, OfferFrame, SentFrame DEF IInv, OfferKnows, storeVars, linkVars
<1>7. AttemptsBounded'
  BY <1>2 DEF IInv, AttemptsBounded
<1>8. PendingIsUntouched' /\ ShownIsStored'
  BY <1>0, <1>2 DEF IInv, PendingIsUntouched, ShownIsStored, storeVars
<1> QED
  BY <1>3, <1>4, <1>5, <1>6, <1>7, <1>8 DEF IInv

(* A frame that was handled leaves the connection's queue.                 *)
LEMMA FrameTaken ==
  ASSUME TypeOK, OfferKnows, SentKnows, frames # <<>>, frames' = Tail(frames)
  PROVE  /\ Head(frames) = frames[1] /\ 1 \in 1..Len(frames) /\ Head(frames).run \in Runs
         /\ sent[Head(frames).run] > 0
         /\ frames' \in Seq(FrameType)
         /\ \A i \in 1..Len(frames') : frames'[i].run \in Runs /\ sent[frames'[i].run] > 0
         /\ \A i \in 1..Len(frames') : frames'[i].kind = "accept" =>
              /\ deferred = "pending" /\ frames'[i].run = pass.run /\ Len(inbox) = 0
              /\ Head(frames).kind # "accept"
         /\ \A i, j \in 1..Len(frames') :
              frames'[i].kind = "accept" /\ frames'[j].kind = "accept" => i = j
<1>1. /\ Head(frames) = frames[1] /\ Head(frames) \in FrameType /\ 1 \in 1..Len(frames)
      /\ frames' \in Seq(FrameType)
      /\ \A i \in 1..Len(frames') : i + 1 \in 1..Len(frames) /\ i + 1 # 1 /\ frames'[i] = frames[i + 1]
  BY TailFacts DEF TypeOK
<1>2. \A i \in 1..Len(frames) : frames[i] \in FrameType
  BY ElementOfSeq DEF TypeOK
<1>3. \A i \in 1..Len(frames') : frames'[i].run \in Runs /\ sent[frames'[i].run] > 0
  BY <1>1, <1>2 DEF SentKnows, FrameType
<1>4. \A i \in 1..Len(frames') : frames'[i].kind = "accept" =>
        /\ deferred = "pending" /\ frames'[i].run = pass.run /\ Len(inbox) = 0
        /\ Head(frames).kind # "accept"
  BY <1>1 DEF OfferKnows
<1>5. \A i, j \in 1..Len(frames') :
        frames'[i].kind = "accept" /\ frames'[j].kind = "accept" => i + 1 = j + 1
  BY <1>1 DEF OfferKnows
<1>6. \A i, j \in 1..Len(frames') : i + 1 = j + 1 => i = j
  OBVIOUS
<1>7. Head(frames).run \in Runs /\ sent[Head(frames).run] > 0
  BY <1>1 DEF SentKnows, FrameType
<1> QED
  BY <1>1, <1>3, <1>4, <1>5, <1>6, <1>7

(* What a lost connection leaves: nothing is under way, and an open offer  *)
(* is rejected.                                                            *)
LEMMA DisposeLeaves ==
  ASSUME TypeOK, OfferKnows, Dispose, deferred # "none" => UNCHANGED pass, leased \subseteq leased'
  PROVE  /\ frames' \in Seq(FrameType) /\ Len(frames') = 0
         /\ inbox' \in Seq(Runs) /\ Len(inbox') = 0
         /\ runner' \in RunnerType /\ runner'.does = "idle"
         /\ deferred' \in {"none", "pending", "resolved", "rejected"}
         /\ connected' = FALSE /\ generation' = generation
         /\ OfferKnows'
<1>1. /\ frames' = <<>> /\ inbox' = <<>> /\ runner' = Idle
      /\ deferred' = IF deferred = "pending" THEN "rejected" ELSE deferred
      /\ connected' = FALSE /\ generation' = generation
  BY DEF Dispose
<1>2. frames' \in Seq(FrameType) /\ Len(frames') = 0 /\ inbox' \in Seq(Runs) /\ Len(inbox') = 0
  BY <1>1, EmptySeq
<1>3. runner' \in RunnerType /\ runner'.does = "idle"
  BY <1>1 DEF Idle, RunnerType
<1>4. OfferKnows'
  BY <1>1, <1>2 DEF OfferKnows
<1> QED
  BY <1>1, <1>2, <1>3, <1>4 DEF TypeOK

(* The pass that complete waits for ends, and no other is queued.          *)
LEMMA EndSinkPassLeaves ==
  ASSUME IInv, queue # <<>>, Head(queue) = "sink", queue' = Tail(queue), pass' = NoPass,
         chain' = "free"
  PROVE  /\ queue' \in Seq(Passes) /\ pass' \in PassType /\ pass'.stage = "start"
         /\ PassKnows' /\ SinkAlone' /\ SinkPassQueued' /\ chain = "sink"
<1>1. queue \in Seq(Passes)
  BY DEF IInv, TypeOK, Passes
<1>2. pass' \in PassType /\ pass'.stage = "start"
  BY DEF NoPass, PassType
<1>3. /\ queue' \in Seq(Passes) /\ Head(queue) = queue[1] /\ 1 \in 1..Len(queue)
      /\ \A i \in 1..Len(queue') : i + 1 \in 1..Len(queue) /\ i + 1 # 1 /\ queue'[i] = queue[i + 1]
  BY <1>1, TailFacts
<1>4. \A i \in 1..Len(queue') : queue'[i] # "sink"
  BY <1>3 DEF IInv, SinkAlone
<1>5. chain = "sink"
  BY <1>3 DEF IInv, SinkPassQueued
<1> QED
  BY <1>2, <1>3, <1>4, <1>5 DEF PassKnows, SinkAlone, SinkPassQueued

(* A reconciliation pass ends; a completion's frees the chain.             *)
LEMMA EndReconcileKeeps ==
  ASSUME IInv, EndReconcile
  PROVE  IInv'
<1>0. /\ queue # <<>> /\ pass.stage = "loop" /\ EndPass /\ deferred = "none"
      /\ UNCHANGED <<rowVars, storeVars, liveNext, connected, generation, deferred,
                     inbox, runner, sent, crashes>>
  BY DEF IInv, OfferKnows, EndReconcile, Reconciling, Running
<1>1. AttemptsBounded' /\ OfferedOnce'
  BY <1>0 DEF IInv, AttemptsBounded, OfferedOnce, rowVars
<1>2. PendingIsUntouched' /\ ShownIsStored'
  BY <1>0, ShownFrame DEF IInv, rowVars, storeVars
<1>3. CASE Head(queue) = "sink"
  <2>1. /\ chain' = "free" /\ frames' = (IF connected THEN Tail(frames) ELSE frames)
        /\ stopping' \in {stopping, "close"}
    BY <1>3 DEF EndReconcile, QueueAwaited
  <2>2. /\ queue' \in Seq(Passes) /\ pass' \in PassType /\ pass'.stage = "start"
        /\ PassKnows' /\ SinkAlone' /\ SinkPassQueued' /\ chain = "sink"
    BY <1>0, <1>3, <2>1, EndSinkPassLeaves DEF EndPass
  <2>3. CASE connected
    <3>1. frames # <<>> /\ frames' = Tail(frames)
      BY <2>1, <2>2, <2>3 DEF IInv, SinkAlone
    <3>2. TypeOK'
      BY <1>0, <2>1, <2>2, <3>1, FrameTaken DEF IInv, TypeOK, Passes, rowVars, storeVars
    <3>3. OfferKnows'
      BY <1>0, <3>1, FrameTaken DEF IInv, OfferKnows, storeVars
    <3>4. SentKnows'
      BY <1>0, <2>2, <3>1, FrameTaken DEF IInv, SentKnows, rowVars, storeVars
    <3> QED
      BY <1>1, <1>2, <2>2, <3>2, <3>3, <3>4 DEF IInv
  <2>4. CASE ~connected
    <3>1. frames' = frames
      BY <2>1, <2>4
    <3>2. TypeOK'
      BY <1>0, <2>1, <2>2, <3>1 DEF IInv, TypeOK, Passes, rowVars, storeVars
    <3>3. OfferKnows' /\ SentKnows'
      BY <1>0, <2>2, <3>1, OfferFrame, SentFrame DEF IInv, rowVars, storeVars
    <3> QED
      BY <1>1, <1>2, <2>2, <3>2, <3>3 DEF IInv
  <2> QED
    BY <2>3, <2>4
<1>4. CASE Head(queue) # "sink"
  <2>1. UNCHANGED <<chain, frames, stopping>>
    BY <1>4 DEF EndReconcile
  <2>2. /\ queue' \in Seq(Passes) /\ pass' \in PassType /\ pass'.stage = "start"
        /\ PassKnows' /\ SinkAlone' /\ SinkPassQueued'
    BY <1>0, <1>4, <2>1, EndPassLeaves
  <2>3. TypeOK'
    BY <1>0, <2>1, <2>2 DEF IInv, TypeOK, Passes, rowVars, storeVars
  <2>4. OfferKnows' /\ SentKnows'
    BY <1>0, <2>1, <2>2, OfferFrame, SentFrame DEF IInv, rowVars, storeVars
  <2> QED
    BY <1>1, <1>2, <2>2, <2>3, <2>4 DEF IInv
<1> QED
  BY <1>3, <1>4

(* The store fails in a reconciliation pass; a completion's pass takes the *)
(* connection with it, and the startup pass is run again.                  *)
LEMMA ReconcileFailsKeeps ==
  ASSUME IInv, ReconcileFails
  PROVE  IInv'
<1>0. /\ queue # <<>> /\ pass.stage # "await" /\ deferred = "none" /\ pass' = NoPass
      /\ UNCHANGED <<rowVars, storeVars, liveNext, sent, crashes>>
  BY DEF IInv, OfferKnows, ReconcileFails, Reconciling, Running
<1>1. AttemptsBounded' /\ OfferedOnce'
  BY <1>0 DEF IInv, AttemptsBounded, OfferedOnce, rowVars
<1>2. PendingIsUntouched' /\ ShownIsStored'
  BY <1>0, ShownFrame DEF IInv, rowVars, storeVars
<1>3. CASE Head(queue) = "sink"
  <2>1. chain' = "free" /\ queue' = Tail(queue) /\ stopping' \in {stopping, "close"} /\ Dispose
    BY <1>3 DEF ReconcileFails, QueueAwaited
  <2>2. /\ queue' \in Seq(Passes) /\ pass' \in PassType /\ pass'.stage = "start"
        /\ PassKnows' /\ SinkAlone' /\ SinkPassQueued'
    BY <1>0, <1>3, <2>1, EndSinkPassLeaves
  <2>3. /\ frames' \in Seq(FrameType) /\ Len(frames') = 0
        /\ inbox' \in Seq(Runs) /\ Len(inbox') = 0
        /\ runner' \in RunnerType /\ runner'.does = "idle"
        /\ deferred' \in {"none", "pending", "resolved", "rejected"}
        /\ connected' = FALSE /\ generation' = generation
        /\ OfferKnows'
    BY <1>0, <2>1, DisposeLeaves DEF IInv, storeVars
  <2>4. TypeOK'
    BY <1>0, <2>1, <2>2, <2>3 DEF IInv, TypeOK, Passes, rowVars, storeVars
  <2>5. SentKnows'
    BY <1>0, <2>2, <2>3 DEF IInv, SentKnows, rowVars, storeVars
  <2> QED
    BY <1>1, <1>2, <2>2, <2>3, <2>4, <2>5 DEF IInv
<1>4. CASE Head(queue) # "sink"
  <2>1. UNCHANGED <<chain, stopping, linkVars>>
    BY <1>4 DEF ReconcileFails
  <2>2. CASE Head(queue) = "startup"
    <3>1. queue' = queue
      BY <2>2 DEF ReconcileFails
    <3>2. pass' \in PassType /\ pass'.stage = "start"
      BY <1>0 DEF NoPass, PassType
    <3>3. TypeOK'
      BY <1>0, <2>1, <3>1, <3>2 DEF IInv, TypeOK, rowVars, storeVars, linkVars
    <3>4. PassKnows'
      BY <3>2 DEF PassKnows
    <3>5. SinkAlone' /\ SinkPassQueued' /\ OfferKnows' /\ SentKnows'
      BY <1>0, <2>1, <3>1, <3>2, SinkFrame, OfferFrame, SentFrame
         DEF IInv, rowVars, storeVars, linkVars
    <3> QED
      BY <1>1, <1>2, <3>3, <3>4, <3>5 DEF IInv
  <2>3. CASE Head(queue) # "startup"
    <3>1. EndPass
      BY <1>0, <2>3 DEF ReconcileFails, EndPass
    <3>2. /\ queue' \in Seq(Passes) /\ pass' \in PassType /\ pass'.stage = "start"
          /\ PassKnows' /\ SinkAlone' /\ SinkPassQueued'
      BY <1>0, <1>4, <2>1, <3>1, EndPassLeaves DEF linkVars
    <3>3. TypeOK'
      BY <1>0, <2>1, <3>2 DEF IInv, TypeOK, Passes, rowVars, storeVars, linkVars
    <3>4. OfferKnows' /\ SentKnows'
      BY <1>0, <2>1, <3>2, OfferFrame, SentFrame DEF IInv, rowVars, storeVars, linkVars
    <3> QED
      BY <1>1, <1>2, <3>2, <3>3, <3>4 DEF IInv
  <2> QED
    BY <2>2, <2>3
<1> QED
  BY <1>3, <1>4

(* What the store shows, and the attempts, after a step that leaves the    *)
(* rows alone and grants or completes only what was sent.                  *)
LEMMA RowsFrame ==
  ASSUME IInv, UNCHANGED <<rowVars, sent>>, leased \subseteq leased', authority \subseteq authority',
         \A r \in leased' \cup authority' : r \in Runs /\ sent[r] > 0
  PROVE  AttemptsBounded' /\ OfferedOnce' /\ PendingIsUntouched' /\ ShownIsStored'
<1>1. \A r \in Runs : dispatch[r] \in {"absent", "pending"} => sent[r] = 0
  BY DEF IInv, SentKnows
<1>2. \A r \in Runs : sent[r] = 0 => ~(sent[r] > 0)
  OBVIOUS
<1> QED
  BY <1>1, <1>2 DEF IInv, AttemptsBounded, OfferedOnce, PendingIsUntouched, ShownIsStored, rowVars

(* The Runner connects; the chain was free.                                *)
LEMMA ConnectKeeps ==
  ASSUME IInv, Connect
  PROVE  IInv'
<1>0. /\ chain = "free" /\ connected' = TRUE /\ generation' = generation + 1
      /\ UNCHANGED <<rowVars, storeVars, queue, pass, loopVars, chain, frames, deferred, inbox,
                     runner, sent, crashes>>
  BY DEF Connect, coordVars
<1>1. TypeOK'
  BY <1>0 DEF IInv, TypeOK, rowVars, storeVars, loopVars
<1>2. PassKnows' /\ OfferKnows' /\ SentKnows'
  BY <1>0, PassFrame, OfferFrame, SentFrame DEF IInv, rowVars, storeVars
<1>3. SinkAlone' /\ SinkPassQueued'
  BY <1>0 DEF IInv, SinkAlone, SinkPassQueued
<1>4. AttemptsBounded' /\ OfferedOnce' /\ PendingIsUntouched' /\ ShownIsStored'
  BY <1>0, RowsFrame DEF IInv, TypeOK, SentKnows, storeVars
<1> QED
  BY <1>1, <1>2, <1>3, <1>4 DEF IInv

(* The connection is lost.                                                 *)
LEMMA DisconnectKeeps ==
  ASSUME IInv, Disconnect
  PROVE  IInv'
<1>0. Dispose /\ UNCHANGED <<rowVars, storeVars, queue, pass, loopVars, chain, sent, crashes>>
  BY DEF Disconnect, coordVars
<1>1. /\ frames' \in Seq(FrameType) /\ Len(frames') = 0
      /\ inbox' \in Seq(Runs) /\ Len(inbox') = 0
      /\ runner' \in RunnerType /\ runner'.does = "idle"
      /\ deferred' \in {"none", "pending", "resolved", "rejected"}
      /\ connected' = FALSE /\ generation' = generation
      /\ OfferKnows'
  BY <1>0, DisposeLeaves DEF IInv, storeVars
<1>2. TypeOK'
  BY <1>0, <1>1 DEF IInv, TypeOK, rowVars, storeVars, loopVars
<1>3. PassKnows' /\ SinkAlone' /\ SinkPassQueued'
  BY <1>0, <1>1, PassFrame, SinkFrame DEF IInv, rowVars
<1>4. SentKnows'
  BY <1>0, <1>1 DEF IInv, SentKnows, rowVars, storeVars
<1>5. AttemptsBounded' /\ OfferedOnce' /\ PendingIsUntouched' /\ ShownIsStored'
  BY <1>0, RowsFrame DEF IInv, TypeOK, SentKnows, storeVars
<1> QED
  BY <1>1, <1>2, <1>3, <1>4, <1>5 DEF IInv

(* The Runner's acceptance is stored, and it learns of it: the promise     *)
(* that is resolved is the one of this run.                                *)
LEMMA HandleAcceptKeeps ==
  ASSUME IInv, HandleAccept
  PROVE  IInv'
<1> DEFINE r == Head(frames).run
<1>0. /\ frames # <<>> /\ Head(frames).kind = "accept" /\ frames' = Tail(frames) /\ chain = "free"
      /\ leased' = leased \cup {r}
      /\ runner' = [does |-> "running", run |-> r]
      /\ deferred' = IF deferred = "pending" THEN "resolved" ELSE deferred
      /\ UNCHANGED <<rowVars, authority, queue, pass, loopVars, chain, connected, generation,
                     inbox, sent, crashes>>
  BY DEF HandleAccept, NextFrame, coordVars
<1>1. /\ r \in Runs /\ sent[r] > 0 /\ frames' \in Seq(FrameType)
      /\ \A i \in 1..Len(frames') : frames'[i].run \in Runs /\ sent[frames'[i].run] > 0
      /\ \A i \in 1..Len(frames') : frames'[i].kind # "accept"
      /\ Head(frames) = frames[1] /\ 1 \in 1..Len(frames)
  BY <1>0, FrameTaken DEF IInv
<1>2. deferred = "pending" /\ r = pass.run /\ Len(inbox) = 0 /\ deferred' = "resolved"
  BY <1>0, <1>1 DEF IInv, OfferKnows
<1>3. runner' \in RunnerType /\ runner'.does = "running" /\ runner'.run = r
  BY <1>0, <1>1 DEF RunnerType
<1>4. TypeOK'
  BY <1>0, <1>1, <1>2, <1>3 DEF IInv, TypeOK, rowVars, loopVars
<1>5. PassKnows'
  BY <1>0, PassFrame DEF IInv, rowVars
<1>6. SinkAlone' /\ SinkPassQueued'
  BY <1>0 DEF IInv, SinkAlone, SinkPassQueued
<1>7. OfferKnows'
  BY <1>0, <1>1, <1>2 DEF IInv, OfferKnows
<1>8. SentKnows'
  BY <1>0, <1>1, <1>3 DEF IInv, SentKnows, rowVars
<1>9. AttemptsBounded' /\ OfferedOnce' /\ PendingIsUntouched' /\ ShownIsStored'
  BY <1>0, <1>1, RowsFrame DEF IInv, TypeOK, SentKnows
<1> QED
  BY <1>4, <1>5, <1>6, <1>7, <1>8, <1>9 DEF IInv

(* The acceptance is stored, and the connection is lost before the answer. *)
LEMMA AcceptUnansweredKeeps ==
  ASSUME IInv, AcceptUnanswered
  PROVE  IInv'
<1> DEFINE r == Head(frames).run
<1>0. /\ frames # <<>> /\ leased' = leased \cup {r} /\ Dispose
      /\ UNCHANGED <<rowVars, authority, queue, pass, loopVars, chain, sent, crashes>>
  BY DEF AcceptUnanswered, NextFrame, coordVars
<1>1. r \in Runs /\ sent[r] > 0
  <2>1. Head(frames) = frames[1] /\ Head(frames) \in FrameType /\ 1 \in 1..Len(frames)
    BY <1>0, TailFacts DEF IInv, TypeOK
  <2> QED
    BY <2>1 DEF IInv, SentKnows, FrameType
<1>2. /\ frames' \in Seq(FrameType) /\ Len(frames') = 0
      /\ inbox' \in Seq(Runs) /\ Len(inbox') = 0
      /\ runner' \in RunnerType /\ runner'.does = "idle"
      /\ deferred' \in {"none", "pending", "resolved", "rejected"}
      /\ connected' = FALSE /\ generation' = generation
      /\ OfferKnows'
  BY <1>0, DisposeLeaves DEF IInv
<1>3. TypeOK'
  BY <1>0, <1>1, <1>2 DEF IInv, TypeOK, rowVars, loopVars
<1>4. PassKnows' /\ SinkAlone' /\ SinkPassQueued'
  BY <1>0, <1>2, PassFrame, SinkFrame DEF IInv, rowVars
<1>5. SentKnows'
  BY <1>0, <1>1, <1>2 DEF IInv, SentKnows, rowVars
<1>6. AttemptsBounded' /\ OfferedOnce' /\ PendingIsUntouched' /\ ShownIsStored'
  BY <1>0, <1>1, RowsFrame DEF IInv, TypeOK, SentKnows
<1> QED
  BY <1>2, <1>3, <1>4, <1>5, <1>6 DEF IInv

(* A completion is stored, and its pass queued.                            *)
LEMMA HandleCompleteKeeps ==
  ASSUME IInv, HandleComplete
  PROVE  IInv'
<1> DEFINE r == Head(frames).run
<1>0. /\ frames # <<>> /\ chain = "free" /\ chain' = "sink"
      /\ authority' = authority \cup {r} /\ queue' = Append(queue, "sink")
      /\ UNCHANGED <<rowVars, leased, pass, loopVars, linkVars, sent, crashes>>
  BY DEF HandleComplete, NextFrame
<1>1. r \in Runs /\ sent[r] > 0
  <2>1. Head(frames) = frames[1] /\ Head(frames) \in FrameType /\ 1 \in 1..Len(frames)
    BY <1>0, TailFacts DEF IInv, TypeOK
  <2> QED
    BY <2>1 DEF IInv, SentKnows, FrameType
<1>2. queue \in Seq(Passes) /\ "sink" \in Passes
  BY DEF IInv, TypeOK, Passes
<1>3. /\ queue' \in Seq(Passes) /\ Len(queue) \in Nat /\ Len(queue') = Len(queue) + 1
      /\ \A i \in 1..Len(queue) : queue'[i] = queue[i]
      /\ queue'[Len(queue) + 1] = "sink"
  BY <1>0, <1>2, AppendFacts
<1>4. TypeOK'
  BY <1>0, <1>1, <1>3 DEF IInv, TypeOK, Passes, rowVars, loopVars, linkVars
<1>5. PassKnows'
  BY <1>0, <1>2, PassFrame DEF IInv, rowVars
<1>6. SinkAlone' /\ SinkPassQueued'
  <2>1. \A i \in 1..Len(queue) : queue[i] # "sink"
    BY <1>0 DEF IInv, SinkPassQueued
  <2> QED
    BY <1>0, <1>3, <2>1 DEF SinkAlone, SinkPassQueued, linkVars
<1>7. OfferKnows'
  BY <1>0, OfferFrame DEF IInv, linkVars
<1>8. SentKnows'
  BY <1>0, <1>1 DEF IInv, SentKnows, rowVars, linkVars
<1>9. AttemptsBounded' /\ OfferedOnce' /\ PendingIsUntouched' /\ ShownIsStored'
  BY <1>0, <1>1, RowsFrame DEF IInv, TypeOK, SentKnows
<1> QED
  BY <1>4, <1>5, <1>6, <1>7, <1>8, <1>9 DEF IInv

(* The Runner writes a frame f.                                            *)
LEMMA FrameWritten ==
  ASSUME TypeOK, NEW f \in FrameType, frames' = Append(frames, f)
  PROVE  /\ frames' \in Seq(FrameType) /\ frames' # <<>>
         /\ Len(frames) \in Nat /\ Len(frames') = Len(frames) + 1
         /\ \A i \in 1..Len(frames) : frames'[i] = frames[i]
         /\ frames'[Len(frames) + 1] = f
BY AppendFacts DEF TypeOK

(* The Runner takes the offer from its inbox and accepts it.               *)
LEMMA TakeOfferKeeps ==
  ASSUME IInv, TakeOffer
  PROVE  IInv'
<1> DEFINE r == Head(inbox)
           f == [kind |-> "accept", run |-> r]
<1>0. /\ inbox # <<>> /\ inbox' = Tail(inbox) /\ frames' = Append(frames, f)
      /\ runner' = [does |-> "accepting", run |-> r]
      /\ UNCHANGED <<rowVars, storeVars, queue, pass, loopVars, chain, connected, generation,
                     deferred, sent, crashes>>
  BY DEF TakeOffer, coordVars
<1>1. /\ r = inbox[1] /\ r \in Runs /\ 1 \in 1..Len(inbox) /\ inbox' \in Seq(Runs)
      /\ Len(inbox) \in Nat /\ Len(inbox') = Len(inbox) - 1
  BY <1>0, TailFacts DEF IInv, TypeOK
<1>2. deferred = "pending" /\ r = pass.run /\ Len(inbox) = 1 /\ sent[r] > 0
  <2>1. Len(inbox) \in 1..Len(inbox)
    BY <1>1
  <2> QED
    BY <1>1, <2>1 DEF IInv, OfferKnows, SentKnows
<1>3. Len(inbox') = 0 /\ \A i \in 1..Len(frames) : frames[i].kind # "accept"
  BY <1>1, <1>2 DEF IInv, OfferKnows
<1>4. f \in FrameType /\ f.kind = "accept" /\ f.run = r
  BY <1>1 DEF FrameType
<1>5. runner' \in RunnerType /\ runner'.run = r
  BY <1>0, <1>1 DEF RunnerType
<1> HIDE DEF f, r
<1>6. /\ frames' \in Seq(FrameType) /\ frames' # <<>>
      /\ Len(frames) \in Nat /\ Len(frames') = Len(frames) + 1
      /\ \A i \in 1..Len(frames) : frames'[i] = frames[i]
      /\ frames'[Len(frames) + 1] = f
  BY <1>0, <1>4, FrameWritten DEF IInv
<1>7. TypeOK'
  BY <1>0, <1>1, <1>5, <1>6, SMTT(60) DEF IInv, TypeOK, rowVars, storeVars, loopVars
<1>8. PassKnows' /\ SinkAlone' /\ SinkPassQueued'
  BY <1>0, <1>6, PassFrame, SinkFrame DEF IInv, rowVars
<1>9. OfferKnows'
  <2>1. \A i \in 1..Len(frames') : frames'[i].kind = "accept" =>
          i = Len(frames) + 1 /\ frames'[i].run = pass.run
    BY <1>2, <1>3, <1>4, <1>6
  <2>2. \A i \in 1..Len(inbox') : FALSE
    BY <1>3
  <2> QED
    BY <1>0, <1>2, <1>3, <2>1, <2>2 DEF IInv, OfferKnows, storeVars
<1>10. SentKnows'
  <2>1. /\ \A q \in Runs : dispatch'[q] \in {"absent", "pending"} => sent'[q] = 0
        /\ pass'.stage \in {"call", "create"} => sent'[pass'.run] = 0
        /\ \A q \in leased' \cup authority' : sent'[q] > 0
    BY <1>0 DEF IInv, SentKnows, rowVars, storeVars
  <2>2. \A i \in 1..Len(inbox') : sent'[inbox'[i]] > 0
    BY <1>3
  <2>3. \A i \in 1..Len(frames') : sent'[frames'[i].run] > 0
    <3>1. \A i \in 1..Len(frames) : sent'[frames'[i].run] > 0
      BY <1>0, <1>6 DEF IInv, SentKnows
    <3>2. sent'[frames'[Len(frames) + 1].run] > 0
      BY <1>0, <1>2, <1>4, <1>6
    <3> QED
      BY <1>6, <3>1, <3>2
  <2>4. runner'.run \in Runs /\ sent'[runner'.run] > 0
    BY <1>0, <1>1, <1>2, <1>5
  <2> QED
    BY <2>1, <2>2, <2>3, <2>4 DEF SentKnows
<1>11. AttemptsBounded' /\ OfferedOnce' /\ PendingIsUntouched' /\ ShownIsStored'
  BY <1>0, RowsFrame DEF IInv, TypeOK, SentKnows, storeVars
<1> QED
  BY <1>7, <1>8, <1>9, <1>10, <1>11 DEF IInv

(* The Runner sends the completion of its run.                             *)
LEMMA FinishRunKeeps ==
  ASSUME IInv, FinishRun
  PROVE  IInv'
<1> DEFINE f == [kind |-> "complete", run |-> runner.run]
<1>0. /\ runner.does = "running" /\ frames' = Append(frames, f) /\ runner' = Idle
      /\ UNCHANGED <<rowVars, storeVars, queue, pass, loopVars, chain, connected, generation,
                     deferred, inbox, sent, crashes>>
  BY DEF FinishRun, coordVars
<1>1. runner.run \in Runs /\ sent[runner.run] > 0
  BY <1>0 DEF IInv, SentKnows
<1>2. f \in FrameType /\ f.kind = "complete" /\ f.run = runner.run
  BY <1>1 DEF FrameType
<1>3. runner' \in RunnerType /\ runner'.does = "idle"
  BY <1>0 DEF RunnerType, Idle
<1> HIDE DEF f
<1>4. /\ frames' \in Seq(FrameType) /\ frames' # <<>>
      /\ Len(frames) \in Nat /\ Len(frames') = Len(frames) + 1
      /\ \A i \in 1..Len(frames) : frames'[i] = frames[i]
      /\ frames'[Len(frames) + 1] = f
  BY <1>0, <1>2, FrameWritten DEF IInv
<1>5. TypeOK'
  BY <1>0, <1>3, <1>4 DEF IInv, TypeOK, rowVars, storeVars, loopVars
<1>6. PassKnows' /\ SinkAlone' /\ SinkPassQueued'
  BY <1>0, <1>4, PassFrame, SinkFrame DEF IInv, rowVars
<1>7. OfferKnows'
  BY <1>0, <1>2, <1>4 DEF IInv, OfferKnows, storeVars
<1>8. SentKnows'
  BY <1>0, <1>1, <1>2, <1>3, <1>4 DEF IInv, SentKnows, rowVars, storeVars
<1>9. AttemptsBounded' /\ OfferedOnce' /\ PendingIsUntouched' /\ ShownIsStored'
  BY <1>0, RowsFrame DEF IInv, TypeOK, SentKnows, storeVars
<1> QED
  BY <1>5, <1>6, <1>7, <1>8, <1>9 DEF IInv

(* What is left when memory and connection are gone.                       *)
LEMMA ForgetLeaves ==
  ASSUME IInv, Forget, UNCHANGED storeVars, UNCHANGED <<sent, completion, attempt>>,
         queue' \in Seq(Passes), \A i \in 1..Len(queue') : queue'[i] # "sink",
         \A r \in Runs : dispatch'[r] \in {"absent", "pending"} => dispatch[r] \in {"absent", "pending"},
         \A r \in Runs : dispatch'[r] = "offered" => dispatch[r] = "offered"
  PROVE  /\ pass' \in PassType /\ liveNext' \in {"dispatch", "live"}
         /\ chain' = "free" /\ connected' = FALSE
         /\ frames' \in Seq(FrameType) /\ inbox' \in Seq(Runs)
         /\ deferred' = "none" /\ runner' \in RunnerType
         /\ PassKnows' /\ SinkAlone' /\ SinkPassQueued' /\ OfferKnows' /\ SentKnows'
         /\ AttemptsBounded' /\ OfferedOnce' /\ PendingIsUntouched' /\ ShownIsStored'
<1>1. /\ pass' = NoPass /\ liveNext' = "dispatch" /\ chain' = "free" /\ connected' = FALSE
      /\ frames' = <<>> /\ deferred' = "none" /\ inbox' = <<>> /\ runner' = Idle
  BY DEF Forget
<1>2. frames' \in Seq(FrameType) /\ Len(frames') = 0 /\ inbox' \in Seq(Runs) /\ Len(inbox') = 0
  BY <1>1, EmptySeq
<1>3. pass' \in PassType /\ pass'.stage = "start" /\ runner' \in RunnerType /\ runner'.does = "idle"
  BY <1>1 DEF NoPass, PassType, Idle, RunnerType
<1>4. PassKnows' /\ OfferKnows' /\ SinkAlone' /\ SinkPassQueued'
  BY <1>1, <1>2, <1>3 DEF PassKnows, OfferKnows, SinkAlone, SinkPassQueued
<1>5. SentKnows'
  BY <1>2, <1>3 DEF IInv, SentKnows, storeVars
<1>6. AttemptsBounded' /\ OfferedOnce'
  BY DEF IInv, AttemptsBounded, OfferedOnce
<1>7. PendingIsUntouched' /\ ShownIsStored'
  BY ShownFrame DEF IInv, storeVars
<1> QED
  BY <1>1, <1>2, <1>3, <1>4, <1>5, <1>6, <1>7

(* Core starts again, after a crash or a shutdown.                         *)
LEMMA StartupKeeps ==
  ASSUME IInv, Startup, crashes' \in {crashes, crashes + 1}
  PROVE  IInv'
<1>0. /\ stopping' = "no" /\ dispatch' = Quarantined /\ queue' = <<"startup">> /\ Forget
      /\ UNCHANGED <<completion, attempt, due, storeVars, generation, sent>>
  BY DEF Startup
<1>1. queue' \in Seq(Passes) /\ \A i \in 1..Len(queue') : queue'[i] # "sink"
  BY <1>0 DEF Passes
<1>2. /\ dispatch' \in [Runs -> {"absent", "pending", "dispatching", "offered", "unknown"}]
      /\ \A r \in Runs : dispatch'[r] \in {"absent", "pending"} => dispatch[r] \in {"absent", "pending"}
      /\ \A r \in Runs : dispatch'[r] = "offered" => dispatch[r] = "offered"
  BY <1>0 DEF IInv, TypeOK, Quarantined
<1>3. /\ pass' \in PassType /\ liveNext' \in {"dispatch", "live"}
      /\ chain' = "free" /\ connected' = FALSE
      /\ frames' \in Seq(FrameType) /\ inbox' \in Seq(Runs)
      /\ deferred' = "none" /\ runner' \in RunnerType
      /\ PassKnows' /\ SinkAlone' /\ SinkPassQueued' /\ OfferKnows' /\ SentKnows'
      /\ AttemptsBounded' /\ OfferedOnce' /\ PendingIsUntouched' /\ ShownIsStored'
  BY <1>0, <1>1, <1>2, ForgetLeaves
<1>4. stopping' = "no" /\ UNCHANGED <<completion, attempt, due, storeVars, generation, sent>>
  BY <1>0
<1>5. crashes' \in Nat
  BY DEF IInv, TypeOK
<1>6. /\ completion' \in [Runs -> {"awaiting", "applied", "exhausted"}]
      /\ attempt' \in [Runs -> 0..MaxAttempts] /\ sent' \in [Runs -> Nat]
      /\ due' \subseteq Runs /\ leased' \subseteq Runs /\ authority' \subseteq Runs
      /\ generation' \in Nat
  BY <1>4 DEF IInv, TypeOK, storeVars
<1>7. TypeOK'
  BY <1>1, <1>2, <1>3, <1>4, <1>5, <1>6 DEF TypeOK, Passes
<1> QED
  BY <1>3, <1>7 DEF IInv

(* The server is closed.                                                   *)
LEMMA CloseServerKeeps ==
  ASSUME IInv, CloseServer
  PROVE  IInv'
<1>0. /\ stopping' = "down" /\ queue' = <<>> /\ Forget
      /\ UNCHANGED <<dispatch, completion, attempt, due, storeVars, generation, sent, crashes>>
  BY DEF CloseServer, rowVars
<1>1. queue' \in Seq(Passes) /\ \A i \in 1..Len(queue') : queue'[i] # "sink"
  BY <1>0, EmptySeq
<1>2. /\ pass' \in PassType /\ liveNext' \in {"dispatch", "live"}
      /\ chain' = "free" /\ connected' = FALSE
      /\ frames' \in Seq(FrameType) /\ inbox' \in Seq(Runs)
      /\ deferred' = "none" /\ runner' \in RunnerType
      /\ PassKnows' /\ SinkAlone' /\ SinkPassQueued' /\ OfferKnows' /\ SentKnows'
      /\ AttemptsBounded' /\ OfferedOnce' /\ PendingIsUntouched' /\ ShownIsStored'
  BY <1>0, <1>1, ForgetLeaves
<1>3. TypeOK'
  BY <1>0, <1>1, <1>2 DEF IInv, TypeOK, Passes, storeVars
<1> QED
  BY <1>2, <1>3 DEF IInv

(* The stop flag, the stage of a shutdown and the count of crashes are of  *)
(* no concern to the invariant; nor is a step in which nothing changes.    *)
LEMMA StoppingKeeps ==
  ASSUME IInv, stopping' \in {"no", "live", "queue", "close", "down"}, crashes' \in {crashes, crashes + 1},
         UNCHANGED <<rowVars, storeVars, queue, pass, liveNext, chain, linkVars, sent>>
  PROVE  IInv'
<1>1. TypeOK'
  BY DEF IInv, TypeOK, rowVars, storeVars, linkVars
<1>2. PassKnows' /\ SinkAlone' /\ SinkPassQueued' /\ OfferKnows' /\ SentKnows'
  BY PassFrame, SinkFrame, OfferFrame, SentFrame DEF IInv, rowVars, storeVars, linkVars
<1>3. AttemptsBounded' /\ OfferedOnce' /\ PendingIsUntouched' /\ ShownIsStored'
  BY RowsFrame DEF IInv, TypeOK, SentKnows, storeVars
<1> QED
  BY <1>1, <1>2, <1>3 DEF IInv

(* Nothing has happened yet.                                               *)
LEMMA InitEstablishes == Init => IInv
<1> SUFFICES ASSUME Init PROVE IInv
  OBVIOUS
<1>1. /\ frames \in Seq(FrameType) /\ Len(frames) = 0 /\ inbox \in Seq(Runs) /\ Len(inbox) = 0
      /\ queue \in Seq(Passes) /\ \A i \in 1..Len(queue) : queue[i] # "sink"
  BY EmptySeq DEF Init, Passes
<1>2. pass \in PassType /\ pass.stage = "start" /\ runner \in RunnerType /\ runner.does = "idle"
  BY DEF Init, NoPass, PassType, Idle, RunnerType
<1>a. /\ dispatch \in [Runs -> {"absent", "pending", "dispatching", "offered", "unknown"}]
      /\ completion \in [Runs -> {"awaiting", "applied", "exhausted"}]
      /\ attempt \in [Runs -> 0..MaxAttempts] /\ sent \in [Runs -> Nat]
  BY BoundsAreNat DEF Init
<1>b. /\ due = {} /\ leased = {} /\ authority = {} /\ liveNext = "dispatch" /\ stopping = "no"
      /\ chain = "free" /\ connected = FALSE /\ generation = 0 /\ deferred = "none"
      /\ crashes = 0
  BY DEF Init
<1>3. TypeOK
  BY <1>1, <1>2, <1>a, <1>b DEF TypeOK, Passes
<1>4. PassKnows /\ OfferKnows /\ SinkAlone /\ SinkPassQueued
  BY <1>1, <1>2 DEF Init, PassKnows, OfferKnows, SinkAlone, SinkPassQueued
<1>5. SentKnows /\ AttemptsBounded /\ OfferedOnce /\ PendingIsUntouched /\ ShownIsStored
  BY <1>1, <1>2, BoundsAreNat
     DEF Init, SentKnows, AttemptsBounded, OfferedOnce, PendingIsUntouched, ShownIsStored
<1> QED
  BY <1>3, <1>4, <1>5 DEF IInv

(* Every step keeps the invariant.                                         *)
LEMMA StepKeeps ==
  ASSUME IInv, [Next]_vars
  PROVE  IInv'
<1>0. crashes \in Nat /\ stopping \in {"no", "live", "queue", "close", "down"}
  BY DEF IInv, TypeOK
<1>1. CASE UNCHANGED vars
  BY <1>0, <1>1, StoppingKeeps DEF vars, rowVars, storeVars, linkVars
<1>2. CASE CoordinatorStep
  BY <1>2, StartDispatchKeeps, CallOfferKeeps, SendOfferKeeps, OfferSettledKeeps, EndDispatchKeeps,
     StartReconcileKeeps, EndReconcileKeeps, BeginOfferKeeps, ReconcileCandidateKeeps
     DEF CoordinatorStep
<1>3. CASE DispatchFails \/ ReconcileFails \/ LiveEnqueue
  BY <1>3, EndDispatchKeeps, ReconcileFailsKeeps, LiveEnqueueKeeps
<1>4. CASE ConnectionStep \/ AcceptUnanswered \/ Connect \/ Disconnect
  BY <1>4, HandleAcceptKeeps, HandleCompleteKeeps, AcceptUnansweredKeeps, ConnectKeeps,
     DisconnectKeeps DEF ConnectionStep
<1>5. CASE RunnerStep
  BY <1>5, TakeOfferKeeps, FinishRunKeeps DEF RunnerStep
<1>6. CASE Crash \/ Start
  BY <1>6, StartupKeeps DEF Crash, Start
<1>7. CASE Stop \/ LiveEnded
  BY <1>0, <1>7, StoppingKeeps DEF Stop, LiveEnded
<1>8. CASE CloseServer
  BY <1>8, CloseServerKeeps
<1>9. CASE \E r \in Runs : Create(r) \/ BecomeDue(r)
  BY <1>9, CreateKeeps, BecomeDueKeeps
<1> QED
  BY <1>1, <1>2, <1>3, <1>4, <1>5, <1>6, <1>7, <1>8, <1>9 DEF Next, ShutdownStep

(* The invariant holds in every reachable state.                           *)
LEMMA InvariantHolds == Spec => []IInv
<1>1. IInv /\ [Next]_vars => IInv'
  BY StepKeeps
<1> QED
  BY <1>1, InitEstablishes, PTL DEF Spec
-----------------------------------------------------------------------------
(* No crash, lost connection or failing store makes Core offer a run a     *)
(* second time (beginOffer, quarantineInterruptedDispatches).              *)
THEOREM NeverOfferedTwice == Spec => []OfferedOnce
<1>1. IInv => OfferedOnce
  BY DEF IInv
<1> QED
  BY <1>1, InvariantHolds, PTL

(* A run whose row is pending was never sent, has no lease and no          *)
(* completion, so that it can safely be dispatched.                        *)
THEOREM PendingReachedNoRunner == Spec => []PendingIsUntouched
<1>1. IInv => PendingIsUntouched
  BY DEF IInv
<1> QED
  BY <1>1, InvariantHolds, PTL

(* markOffered is written only for a run whose lease is stored, and        *)
(* applyCompletion only for a run whose completion is.                     *)
THEOREM ShownHasAuthority == Spec => []ShownIsStored
<1>1. IInv => ShownIsStored
  BY DEF IInv
<1> QED
  BY <1>1, InvariantHolds, PTL

(* While complete holds the chain, the pass that frees it is queued; the   *)
(* retries of a run end with the attempt that exhausts them.               *)
THEOREM ChainHeldForQueuedPass == Spec => [](SinkPassQueued /\ AttemptsBounded)
<1>1. IInv => SinkPassQueued /\ AttemptsBounded
  BY DEF IInv
<1> QED
  BY <1>1, InvariantHolds, PTL
=============================================================================

------------------------- MODULE WebExecutionProofs -------------------------
(***************************************************************************)
(* For every set of plans, every step budget and every number of           *)
(* navigations: an action is dispatched only by a run that still awaits it *)
(* under a live lease, to the document that was observed for it; it is ok  *)
(* only if the page stayed, is accounted for when the run completes, and   *)
(* what it typed is masked in every later observation.                     *)
(*                                                                         *)
(* The invariant says what an operation that has lost its race may still   *)
(* do.  Live: an operation that goes on alone has its signal aborted.      *)
(* ExecuteKnows: what the await an action has reached says of its step and *)
(* of its document.  ActingKnows: the action under way is the last one,    *)
(* and a departure of the page during it has been counted.  TypedIsMasked: *)
(* typed values and records differ only between a dispatch and its         *)
(* evidence, and then by one, and by the values that a navigation within   *)
(* the document has left without a record.                                 *)
(***************************************************************************)
EXTENDS WebExecution, TLAPS

Steps == {"click", "input", "navigate", "verify"}

Ops ==
  [kind : Awaiting \cup {"none"},
   at : {"start", "round", "register", "artifacts", "reads", "value", "epoch",
         "ready", "acting"},
   gen : Nat, attempt : Nat, res : {"none", "ok", "failed", "threw"},
   err : {"none", "blocked", "error", "clock", "other"},
   timedOut : BOOLEAN, dispatched : BOOLEAN, cross : Nat]

Sessions ==
  [open : BOOLEAN, home : BOOLEAN, gen : Nat, cross : Nat, navs : Nat, obs : Nat,
   latch : BOOLEAN, active : BOOLEAN, pending : BOOLEAN, records : Nat, typed : Nat,
   cleared : Nat]

Acts ==
  [step : Nat, kind : Steps, seen : Nat, at : Nat, left : BOOLEAN,
   outcome : {"none", "ok", "unknown"}]

Events ==
  [stage : {"observation", "decision", "action_resolved", "policy",
            "action_executed", "verification", "finding", "run_completed"},
   step : Nat, ok : BOOLEAN]

TypeOK ==
  /\ plan \in Seq(Steps)
  /\ pc \in Awaiting \cup {"step", "caught", "terminal", "done", "threw"}
  /\ step \in Nat \ {0}
  /\ graph \in Nat
  /\ bound \in Nat
  /\ late \in BOOLEAN
  /\ window \in BOOLEAN
  /\ aborted \in {"no", "expired", "other"}
  /\ op \in Ops
  /\ sess \in Sessions
  /\ acts \in Seq(Acts)
  /\ trace \in Seq(Events)

(* An operation that is under way is the one the runtime awaits, or its    *)
(* signal is aborted; only an action under way has been dispatched.        *)
Live ==
  /\ pc \in Awaiting => pc = op.kind
  /\ op.res = "none" => pc = op.kind \/ op.timedOut \/ aborted # "no"
  /\ op.res = "none" => op.kind \in Awaiting
  /\ op.res = "none" /\ op.dispatched => op.at = "acting"
  /\ op.at = "acting" => op.dispatched
  /\ op.dispatched => op.kind = "execute"
  /\ pc = "step" => op.res # "none"
  /\ aborted # "no" => ~window

Executing(at) == op.kind = "execute" /\ op.res = "none" /\ op.at = at

(* What the await reached says of the step and of the document.            *)
ExecuteKnows ==
  /\ Executing("ready") => StepKind = "navigate"
  /\ Executing("value") \/ Executing("epoch") => StepKind = "input"
  /\ Executing("acting") => StepKind \in {"click", "input", "navigate"}
  /\ op.kind = "execute" /\ op.res = "none" /\ op.at # "start" => op.gen <= sess.gen

(* The action under way is the last one, and the page has not left the     *)
(* target during it without being counted.                                 *)
ActingKnows ==
  Executing("acting") =>
    /\ acts # <<>>
    /\ acts[Len(acts)].outcome = "none"
    /\ op.cross <= sess.cross
    /\ acts[Len(acts)].left => op.cross < sess.cross

(* An operation that was settled after its dispatch has ended its action.  *)
SettledEnded ==
  op.dispatched /\ op.res # "none" =>
    acts # <<>> /\ acts[Len(acts)].outcome # "none"

(* Every value typed into the document has its record, except between a    *)
(* dispatch and its evidence.                                              *)
TypedIsMasked ==
  sess.open /\ ~sess.latch =>
    IF Executing("acting") /\ StepKind = "input"
      THEN sess.gen = op.gen => sess.typed = sess.records + sess.cleared + 1
      ELSE sess.typed = sess.records + sess.cleared

NothingShown == Executing("acting") => sess.obs = None

Masking == TypedIsMasked /\ NothingShown /\ ObservedIsMasked

InTrace(a) ==
  \E n \in DOMAIN trace :
    trace[n] = [stage |-> "action_executed", step |-> a.step, ok |-> TRUE]

(* What the runtime still owes for an action that is not in the trace.     *)
Owed(a) ==
  \/ pc \in {"execute", "caught"} /\ op.dispatched /\ a.step = step
  \/ /\ pc \in {"terminal", "done"}
     /\ result = "unknown" \/ (result = "clock" /\ a.outcome # "none")
  \/ pc = "threw"

Accounting ==
  \A i \in DOMAIN acts : InTrace(acts[i]) \/ (i = Len(acts) /\ Owed(acts[i]))

IInv ==
  /\ TypeOK /\ Live /\ ExecuteKnows /\ ActingKnows /\ SettledEnded
  /\ DispatchedWhereSeen /\ OkStayedHome /\ Masking /\ Accounting

-----------------------------------------------------------------------------
(* The helpers of the model, field by field.                               *)

LEMMA NewOpFields ==
  ASSUME NEW k \in Awaiting
  PROVE  /\ NewOp(k) \in Ops
         /\ NewOp(k).kind = k /\ NewOp(k).at = "start" /\ NewOp(k).res = "none"
         /\ NewOp(k).dispatched = FALSE
  BY DEF NewOp, Ops, Awaiting, None

LEMMA SettleFields ==
  ASSUME op \in Ops,
         NEW res \in {"none", "ok", "failed", "threw"},
         NEW err \in {"none", "blocked", "error", "clock", "other"},
         Settle(res, err)
  PROVE  /\ op' \in Ops
         /\ op'.res = res
         /\ op'.kind = op.kind /\ op'.at = op.at /\ op'.gen = op.gen
         /\ op'.timedOut = op.timedOut /\ op'.dispatched = op.dispatched
         /\ op'.cross = op.cross
  BY DEF Settle, Ops

LEMMA MoveFields ==
  ASSUME op \in Ops,
         NEW at \in {"start", "round", "register", "artifacts", "reads", "value",
                     "epoch", "ready", "acting"},
         Move(at)
  PROVE  /\ op' \in Ops
         /\ op'.at = at
         /\ op'.kind = op.kind /\ op'.res = op.res /\ op'.gen = op.gen
         /\ op'.timedOut = op.timedOut /\ op'.dispatched = op.dispatched
         /\ op'.cross = op.cross
  BY DEF Move, Ops

LEMMA NavigatedToFields ==
  ASSUME NEW s \in Sessions, NEW home \in BOOLEAN, NEW left \in Nat
  PROVE  /\ NavigatedTo(s, home, left) \in Sessions
         /\ NavigatedTo(s, home, left).open = s.open
         /\ NavigatedTo(s, home, left).home = home
         /\ NavigatedTo(s, home, left).gen = s.gen + 1
         /\ NavigatedTo(s, home, left).latch = s.latch
         /\ NavigatedTo(s, home, left).obs = None
         /\ NavigatedTo(s, home, left).typed = left
         /\ NavigatedTo(s, home, left).cleared = left
         /\ NavigatedTo(s, home, left).records = 0
         /\ home => NavigatedTo(s, home, left).cross = s.cross
         /\ ~home => NavigatedTo(s, home, left).cross = s.cross + 1
<1> DEFINE g == s.gen + 1
           c == IF home THEN s.cross ELSE s.cross + 1
           n == NavigatedTo(s, home, left)
<1>1. g \in Nat /\ c \in Nat
  BY DEF Sessions
<1>2. n = [s EXCEPT !.gen = g, !.home = home, !.cross = c, !.obs = 0,
                    !.active = FALSE, !.pending = FALSE, !.records = 0,
                    !.typed = left, !.cleared = left]
  BY DEF NavigatedTo, Sessions, None
<1> HIDE DEF g, c, n
<1>3. n \in Sessions
  BY <1>1, <1>2, ZenonT(120) DEF Sessions
<1>4. /\ n.open = s.open /\ n.home = home /\ n.gen = g /\ n.latch = s.latch
      /\ n.obs = 0 /\ n.typed = left /\ n.cleared = left /\ n.records = 0
      /\ n.cross = c
  BY <1>2 DEF Sessions
<1> QED
  BY <1>3, <1>4 DEF n, g, c, None

(* Every navigation: nothing is shown, and what is left in the page is     *)
(* counted as cleared.                                                     *)
LEMMA NavigationFields ==
  ASSUME NEW s \in Sessions, NEW n \in Navigations(s)
  PROVE  /\ n \in Sessions
         /\ n.open = s.open /\ n.gen = s.gen + 1
         /\ n.latch = s.latch /\ n.obs = None
         /\ n.records = 0 /\ n.cleared = n.typed
         /\ n.home \in BOOLEAN
         /\ n.home => n.cross = s.cross
         /\ ~n.home => n.cross = s.cross + 1
<1>1. s.home \in BOOLEAN /\ s.typed \in Nat
  BY DEF Sessions
<1>2. PICK home \in BOOLEAN, left \in Nat : n = NavigatedTo(s, home, left)
  BY <1>1 DEF Navigations
<1> QED
  BY <1>2, NavigatedToFields

LEMMA UnavailableFields ==
  ASSUME NEW s \in Sessions
  PROVE  /\ Unavailable(s) \in Sessions
         /\ Unavailable(s).open = s.open /\ Unavailable(s).home = s.home
         /\ Unavailable(s).gen = s.gen /\ Unavailable(s).cross = s.cross
         /\ Unavailable(s).obs = s.obs
         /\ Unavailable(s).latch = TRUE
         /\ Unavailable(s).typed = s.typed /\ Unavailable(s).records = s.records
         /\ Unavailable(s).cleared = s.cleared
  BY DEF Unavailable, Sessions

(* What follows the value of an input: the session as it was, or latched.  *)
LEMMA EvidenceFields ==
  ASSUME NEW s \in Sessions, NEW e \in Evidence(s)
  PROVE  /\ e \in Sessions
         /\ e.open = s.open /\ e.home = s.home /\ e.gen = s.gen
         /\ e.cross = s.cross /\ e.obs = s.obs /\ e.typed = s.typed
         /\ e.cleared = s.cleared
         /\ \/ e.latch = TRUE /\ e.records = s.records
            \/ e.latch = s.latch /\ e.records = s.records + 1 /\ s.gen = op.gen
<1>1. CASE e = Unavailable(s)
  BY <1>1, UnavailableFields
<1>2. CASE /\ s.gen = op.gen
           /\ e = [s EXCEPT !.active = FALSE, !.pending = TRUE, !.records = @ + 1]
  <2> DEFINE r == s.records + 1
  <2>1. r \in Nat
    BY DEF Sessions
  <2>2. e = [s EXCEPT !.active = FALSE, !.pending = TRUE, !.records = r]
    BY <1>2
  <2> HIDE DEF r
  <2>3. e \in Sessions
    BY <2>1, <2>2 DEF Sessions
  <2>4. /\ e.open = s.open /\ e.home = s.home /\ e.gen = s.gen
        /\ e.cross = s.cross /\ e.obs = s.obs /\ e.typed = s.typed
        /\ e.latch = s.latch /\ e.records = r /\ e.cleared = s.cleared
    BY <2>2 DEF Sessions
  <2> QED
    BY <1>2, <2>3, <2>4 DEF r
<1> QED
  BY <1>1, <1>2 DEF Evidence

(* An update of the last action changes no other.                          *)
LEMMA LastActUpdated ==
  ASSUME NEW q \in Seq(Acts), q # <<>>, NEW a \in Acts
  PROVE  /\ [q EXCEPT ![Len(q)] = a] \in Seq(Acts)
         /\ Len([q EXCEPT ![Len(q)] = a]) = Len(q)
         /\ [q EXCEPT ![Len(q)] = a] # <<>>
         /\ \A i \in DOMAIN q :
              [q EXCEPT ![Len(q)] = a][i] = IF i = Len(q) THEN a ELSE q[i]
  OBVIOUS

LEMMA LeavesFields ==
  ASSUME acts \in Seq(Acts), NEW home \in BOOLEAN
  PROVE  /\ Leaves(home) \in Seq(Acts)
         /\ Len(Leaves(home)) = Len(acts)
         /\ \A i \in DOMAIN acts :
              /\ Leaves(home)[i].step = acts[i].step
              /\ Leaves(home)[i].kind = acts[i].kind
              /\ Leaves(home)[i].seen = acts[i].seen
              /\ Leaves(home)[i].at = acts[i].at
              /\ Leaves(home)[i].outcome = acts[i].outcome
              /\ home \/ acts[i].outcome # "none" =>
                   Leaves(home)[i].left = acts[i].left
<1>1. CASE ~(~home /\ acts # <<>> /\ acts[Len(acts)].outcome = "none")
  BY <1>1 DEF Leaves
<1>2. CASE ~home /\ acts # <<>> /\ acts[Len(acts)].outcome = "none"
  <2> DEFINE a == [acts[Len(acts)] EXCEPT !.left = TRUE]
  <2>1. Len(acts) \in DOMAIN acts /\ acts[Len(acts)] \in Acts
    BY <1>2
  <2>2. /\ a \in Acts
        /\ a.step = acts[Len(acts)].step /\ a.kind = acts[Len(acts)].kind
        /\ a.seen = acts[Len(acts)].seen /\ a.at = acts[Len(acts)].at
        /\ a.outcome = "none"
    BY <1>2, <2>1 DEF Acts
  <2>3. Leaves(home) = [acts EXCEPT ![Len(acts)] = a]
    BY <1>2 DEF Leaves
  <2> HIDE DEF a
  <2> QED
    BY <1>2, <2>1, <2>2, <2>3, LastActUpdated
<1> QED
  BY <1>1, <1>2

LEMMA EndedFields ==
  ASSUME acts \in Seq(Acts), acts # <<>>, NEW o \in {"ok", "unknown"}
  PROVE  /\ Ended(o) \in Seq(Acts)
         /\ Len(Ended(o)) = Len(acts)
         /\ \A i \in DOMAIN acts :
              /\ Ended(o)[i].step = acts[i].step
              /\ Ended(o)[i].kind = acts[i].kind
              /\ Ended(o)[i].seen = acts[i].seen
              /\ Ended(o)[i].at = acts[i].at
              /\ Ended(o)[i].left = acts[i].left
              /\ Ended(o)[i].outcome = IF i = Len(acts) THEN o ELSE acts[i].outcome
<1> DEFINE a == [acts[Len(acts)] EXCEPT !.outcome = o]
<1>1. Len(acts) \in DOMAIN acts /\ acts[Len(acts)] \in Acts
  OBVIOUS
<1>2. /\ a \in Acts
      /\ a.step = acts[Len(acts)].step /\ a.kind = acts[Len(acts)].kind
      /\ a.seen = acts[Len(acts)].seen /\ a.at = acts[Len(acts)].at
      /\ a.left = acts[Len(acts)].left /\ a.outcome = o
  BY <1>1 DEF Acts
<1>3. Ended(o) = [acts EXCEPT ![Len(acts)] = a]
  BY DEF Ended
<1> HIDE DEF a
<1> QED
  BY <1>1, <1>2, <1>3, LastActUpdated

LEMMA PageNavigatesShape ==
  ASSUME sess \in Sessions, PageNavigates
  PROVE  \E home \in BOOLEAN :
           /\ acts' = Leaves(home)
           /\ sess' \in Sessions
           /\ sess'.open = sess.open /\ sess'.gen = sess.gen + 1
           /\ sess'.latch = sess.latch /\ sess'.obs = None
           /\ sess'.records = 0 /\ sess'.cleared = sess'.typed
           /\ home => sess'.cross = sess.cross
           /\ ~home => sess'.cross = sess.cross + 1
<1>1. PICK n \in Navigations(sess) :
        /\ sess' = [n EXCEPT !.navs = @ + 1]
        /\ acts' = Leaves(n.home)
  BY DEF PageNavigates
<1> DEFINE m == n.navs + 1
<1>2. n \in Sessions /\ n.home \in BOOLEAN
  BY NavigationFields
<1>3. m \in Nat
  BY <1>2 DEF Sessions
<1>4. sess' = [n EXCEPT !.navs = m]
  BY <1>1
<1> HIDE DEF m
<1>5. /\ sess' \in Sessions
      /\ sess'.open = n.open /\ sess'.gen = n.gen /\ sess'.latch = n.latch
      /\ sess'.obs = n.obs /\ sess'.typed = n.typed /\ sess'.records = n.records
      /\ sess'.cleared = n.cleared /\ sess'.cross = n.cross
  BY <1>2, <1>3, <1>4 DEF Sessions
<1> QED
  BY <1>1, <1>2, <1>5, NavigationFields

LEMMA CloseTargetShape ==
  ASSUME sess \in Sessions, CloseTarget
  PROVE  /\ sess'.open = FALSE /\ sess'.gen = sess.gen /\ sess'.cross = sess.cross
         /\ sess'.obs = sess.obs
         /\ UNCHANGED <<rtVars, envVars, op, acts, trace>>
  BY DEF CloseTarget, Sessions

(* The error paths end the run, with a completion or without one.          *)
LEMMA ThrowEnds ==
  ASSUME NEW e, Throw(e)
  PROVE  /\ (pc' = "terminal" /\ result' = e) \/ pc' = "threw"
         /\ e \in {"clock", "unknown"} => pc' = "terminal" /\ result' = e
  BY DEF Throw, Mapped

LEMMA StartOpStarts ==
  ASSUME NEW k \in Awaiting, StartOp(k)
  PROVE  \/ pc' = k /\ op' = NewOp(k)
         \/ pc' \in {"terminal", "threw"} /\ op' = op
  BY DEF StartOp, Throw

LEMMA StageIsEvent ==
  ASSUME TypeOK,
         NEW s \in {"observation", "decision", "action_resolved", "policy",
                    "action_executed", "verification", "finding", "run_completed"}
  PROVE  Stage(s) \in Seq(Events) /\ Len(Stage(s)) = 1
  BY DEF Stage, Events, TypeOK

TraceGrows ==
  /\ trace' \in Seq(Events)
  /\ \A n \in DOMAIN trace : n \in DOMAIN trace' /\ trace'[n] = trace[n]

LEMMA TraceExtended ==
  ASSUME TypeOK, NEW q \in Seq(Events), trace' = trace \o q
  PROVE  TraceGrows
  BY DEF TypeOK, TraceGrows

LEMMA TraceKept ==
  ASSUME TypeOK, trace' = trace
  PROVE  TraceGrows
  BY DEF TypeOK, TraceGrows

(* An event once recorded stays recorded.                                  *)
LEMMA InTraceStays ==
  ASSUME TraceGrows, NEW a, NEW b, b.step = a.step, InTrace(a)
  PROVE  \E n \in DOMAIN trace' :
           trace'[n] = [stage |-> "action_executed", step |-> b.step, ok |-> TRUE]
  BY DEF InTrace, TraceGrows

(* What TakeResult may do: end the run, start the next operation of the    *)
(* step, or go on to the next step; an action that was dispatched is then  *)
(* in the trace, or its run has failed.                                    *)
RunStops ==
  /\ op' = op /\ step' = step
  /\ pc' \in {"terminal", "threw"}
  /\ \/ ~op.dispatched
     \/ pc' = "threw"
     \/ result' = "unknown"
     \/ result' = "clock" /\ op.res # "none"

OpFollows(k) == pc # "execute" /\ pc' = k /\ op' = NewOp(k) /\ step' = step

StepFollows ==
  /\ op' = op /\ step' = step + 1 /\ pc' = "step"
  /\ pc = "execute" => op.res = "ok" /\ trace' = trace \o Stage("action_executed")

(* The ways in which recordStage fails; the last may leave events behind.  *)
NotRecorded ==
  /\ op.res # "none"
  /\ UNCHANGED <<op, step>> /\ late' \in BOOLEAN
  /\ TraceGrows
  /\ Throw("clock") \/ Throw("spool")

LEMMA RecordCases ==
  ASSUME TypeOK, NEW events \in Seq(Events), NEW Then, Record(events, Then),
         op.res # "none"
  PROVE  \/ NotRecorded
         \/ trace' = trace \o events /\ late' = late /\ Then
<1>0. late \in BOOLEAN
  BY DEF TypeOK
<1>1. CASE \/ late /\ Throw("clock") /\ UNCHANGED <<op, step, trace, late>>
           \/ ~late /\ Throw("spool") /\ UNCHANGED <<op, step, trace, late>>
  BY <1>0, <1>1, TraceKept DEF NotRecorded
<1>2. CASE /\ ~late /\ late' = TRUE /\ Throw("clock")
           /\ \E n \in 0..Len(events) : trace' = trace \o SubSeq(events, 1, n)
           /\ UNCHANGED <<op, step>>
  <2>1. PICK n \in 0..Len(events) : trace' = trace \o SubSeq(events, 1, n)
    BY <1>2
  <2>2. SubSeq(events, 1, n) \in Seq(Events)
    BY SMTT(60)
  <2>3. TraceGrows
    BY <2>1, <2>2, TraceExtended
  <2> QED
    BY <1>2, <2>3 DEF NotRecorded
<1> QED
  BY <1>1, <1>2 DEF Record

LEMMA NotRecordedStops ==
  ASSUME NotRecorded
  PROVE  TraceGrows /\ RunStops /\ late' \in BOOLEAN
  BY ThrowEnds DEF RunStops, NotRecorded, Throw, Mapped

LEMMA TakeResultShape ==
  ASSUME TypeOK, Live, TakeResult
  PROVE  /\ graph' \in Nat /\ bound' \in Nat /\ late' \in BOOLEAN
         /\ TraceGrows
         /\ \/ RunStops
            \/ \E k \in Awaiting : OpFollows(k)
            \/ StepFollows
<1> USE DEF TakeResult
<1>1. pc \in Awaiting /\ pc = op.kind /\ op.res # "none" /\ op.gen \in Nat
  BY DEF Live, TypeOK, Ops
<1>2. graph' \in Nat /\ bound' \in Nat
  BY <1>1 DEF TypeOK
<1>3. pc # "execute" => ~op.dispatched
  BY <1>1 DEF Live
<1> late \in BOOLEAN
  BY DEF TypeOK
<1>4. CASE op.res = "threw"
  <2>1. UNCHANGED <<op, step, trace>> /\ late' \in BOOLEAN
    BY <1>4
  <2>2. CASE op.kind = "execute" /\ op.dispatched
    <3>1. Throw("unknown")
      BY <1>4, <2>2
    <3> QED
      BY <1>2, <2>1, <3>1, ThrowEnds, TraceKept DEF RunStops
  <2>3. CASE ~(op.kind = "execute" /\ op.dispatched)
    <3>1. Throw(op.err) /\ ~op.dispatched
      BY <1>1, <1>3, <1>4, <2>3
    <3> QED
      BY <1>2, <2>1, <3>1, ThrowEnds, TraceKept DEF RunStops
  <2> QED
    BY <2>2, <2>3
<1>5. CASE op.res # "threw" /\ pc = "capture"
  <2> DEFINE k == IF StepKind = "verify" THEN "verify" ELSE "decide"
  <2>1. Record(Stage("observation"), StartOp(k) /\ UNCHANGED step)
    BY <1>5
  <2>2. \/ NotRecorded
        \/ late' = late /\ trace' = trace \o Stage("observation") /\ StartOp(k) /\ step' = step
    BY <1>1, <2>1, StageIsEvent, RecordCases
  <2>3. k \in Awaiting
    BY DEF Awaiting
  <2> HIDE DEF k
  <2> QED
    BY <1>2, <1>3, <1>5, <2>2, <2>3, NotRecordedStops, StartOpStarts, StageIsEvent,
       TraceExtended DEF RunStops, OpFollows
<1>6. CASE op.res # "threw" /\ pc = "decide"
  <2>1. Record(Stage("decision"), StartOp("resolve") /\ UNCHANGED step)
    BY <1>6
  <2>2. \/ NotRecorded
        \/ late' = late /\ trace' = trace \o Stage("decision") /\ StartOp("resolve") /\ step' = step
    BY <1>1, <2>1, StageIsEvent, RecordCases
  <2>3. "resolve" \in Awaiting
    BY DEF Awaiting
  <2> QED
    BY <1>2, <1>3, <1>6, <2>2, <2>3, NotRecordedStops, StartOpStarts, StageIsEvent,
       TraceExtended DEF RunStops, OpFollows
<1>7. CASE op.res # "threw" /\ pc = "resolve"
  <2>1. Record(Stage("action_resolved"), StartOp("authorize") /\ UNCHANGED step)
    BY <1>7
  <2>2. \/ NotRecorded
        \/ /\ trace' = trace \o Stage("action_resolved") /\ late' = late
           /\ StartOp("authorize") /\ step' = step
    BY <1>1, <2>1, StageIsEvent, RecordCases
  <2>3. "authorize" \in Awaiting
    BY DEF Awaiting
  <2> QED
    BY <1>2, <1>3, <1>7, <2>2, <2>3, NotRecordedStops, StartOpStarts, StageIsEvent,
       TraceExtended DEF RunStops, OpFollows
<1>8. CASE op.res # "threw" /\ pc = "authorize"
  <2>1. Record(Stage("policy"),
               IF op.res = "ok"
                 THEN /\ \/ StartOp("execute")
                         \/ Throw("blocked") /\ UNCHANGED op
                      /\ UNCHANGED step
                 ELSE Complete("blocked") /\ UNCHANGED <<op, step>>)
    BY <1>8
  <2>2. \/ NotRecorded
        \/ /\ trace' = trace \o Stage("policy") /\ late' = late
           /\ step' = step
           /\ \/ StartOp("execute")
              \/ Throw("blocked") /\ op' = op
              \/ Complete("blocked") /\ op' = op
    BY <1>1, <2>1, StageIsEvent, RecordCases
  <2>3. "execute" \in Awaiting
    BY DEF Awaiting
  <2> QED
    BY <1>2, <1>3, <1>8, <2>2, <2>3, NotRecordedStops, StartOpStarts, StageIsEvent,
       TraceExtended, ThrowEnds DEF RunStops, OpFollows, Complete
<1>9. CASE op.res # "threw" /\ pc = "execute"
  <2>1. Record(Stage("action_executed"), AfterOutcome)
    BY <1>9
  <2>2. \/ NotRecorded
        \/ late' = late /\ trace' = trace \o Stage("action_executed") /\ AfterOutcome
    BY <1>1, <2>1, StageIsEvent, RecordCases
  <2>3. AfterOutcome => \/ RunStops
                        \/ /\ op' = op /\ step' = step + 1 /\ pc' = "step"
                           /\ op.res = "ok"
    BY DEF AfterOutcome, NextStep, Complete, RunStops
  <2> QED
    BY <1>2, <1>9, <2>2, <2>3, NotRecordedStops, StageIsEvent, TraceExtended
    DEF StepFollows
<1>10. CASE op.res # "threw" /\ pc = "verify"
  <2>0. /\ Stage("verification") \in Seq(Events)
        /\ Stage("verification") \o Stage("finding") \in Seq(Events)
    BY StageIsEvent
  <2>1. \/ Record(Stage("verification"), NextStep)
        \/ Record(Stage("verification") \o Stage("finding"),
                  Complete("finding") /\ UNCHANGED <<op, step>>)
    BY <1>10
  <2>2. \/ NotRecorded
        \/ late' = late /\ trace' = trace \o Stage("verification") /\ NextStep
        \/ /\ trace' = trace \o (Stage("verification") \o Stage("finding")) /\ late' = late
           /\ Complete("finding") /\ op' = op /\ step' = step
    <3>1. CASE Record(Stage("verification"), NextStep)
      BY <1>1, <2>0, <3>1, RecordCases
    <3>2. CASE Record(Stage("verification") \o Stage("finding"),
                      Complete("finding") /\ UNCHANGED <<op, step>>)
      <4> DEFINE events == Stage("verification") \o Stage("finding")
                 Then == Complete("finding") /\ UNCHANGED <<op, step>>
      <4>1. Record(events, Then) /\ events \in Seq(Events)
        BY <2>0, <3>2
      <4>2. NotRecorded \/ (trace' = trace \o events /\ late' = late /\ Then)
        <5> HIDE DEF events, Then
        <5> QED
          BY <1>1, <4>1, RecordCases
      <4> QED
        BY <4>2
    <3> QED
      BY <2>1, <3>1, <3>2
  <2> QED
    BY <1>2, <1>3, <1>10, <2>0, <2>2, NotRecordedStops, TraceExtended
    DEF RunStops, StepFollows, Complete, NextStep
<1> QED
  BY <1>1, <1>4, <1>5, <1>6, <1>7, <1>8, <1>9, <1>10 DEF Awaiting

(* The three ways a dispatch point can go: the action is dispatched, it is *)
(* refused, or it fails before; and what each does to the operation.       *)
LEMMA DispatchFields ==
  ASSUME TypeOK, NEW s \in Sessions, Dispatch(s)
  PROVE  /\ op' \in Ops
         /\ op'.kind = op.kind /\ op'.res = op.res /\ op'.gen = op.gen
         /\ op'.timedOut = op.timedOut
         /\ op'.at = "acting" /\ op'.dispatched = TRUE /\ op'.cross = s.cross
         /\ sess' = s
         /\ acts' \in Seq(Acts) /\ Len(acts') = Len(acts) + 1
         /\ \A i \in DOMAIN acts : acts'[i] = acts[i]
         /\ acts'[Len(acts')].step = step /\ acts'[Len(acts')].kind = StepKind
         /\ acts'[Len(acts')].seen = op.gen /\ acts'[Len(acts')].at = s.gen
         /\ acts'[Len(acts')].left = FALSE /\ acts'[Len(acts')].outcome = "none"
<1> DEFINE a == [step |-> step, kind |-> StepKind, seen |-> op.gen,
                 at |-> s.gen, left |-> FALSE, outcome |-> "none"]
<1>1. s.cross \in Nat /\ s.gen \in Nat /\ op.gen \in Nat
  BY DEF Sessions, Ops, TypeOK
<1>2. StepKind \in Steps
  BY DEF StepKind, Steps, TypeOK
<1>3. a \in Acts
  BY <1>1, <1>2 DEF Acts, TypeOK
<1>4. op' = [op EXCEPT !.at = "acting", !.dispatched = TRUE, !.cross = s.cross]
  BY DEF Dispatch
<1>5. /\ op' \in Ops
      /\ op'.kind = op.kind /\ op'.res = op.res /\ op'.gen = op.gen
      /\ op'.timedOut = op.timedOut
      /\ op'.at = "acting" /\ op'.dispatched = TRUE /\ op'.cross = s.cross
  BY <1>1, <1>4 DEF Ops, TypeOK
<1>6. acts' = Append(acts, a) /\ sess' = s
  BY DEF Dispatch
<1>7. /\ a.step = step /\ a.kind = StepKind /\ a.seen = op.gen /\ a.at = s.gen
      /\ a.left = FALSE /\ a.outcome = "none"
  OBVIOUS
<1> HIDE DEF a
<1> QED
  BY <1>3, <1>5, <1>6, <1>7 DEF TypeOK

LEMMA RefuseFields ==
  ASSUME TypeOK, RefuseDispatch, ~Authorized
  PROVE  /\ op' \in Ops
         /\ op'.kind = op.kind /\ op'.at = op.at /\ op'.gen = op.gen
         /\ op'.timedOut = op.timedOut /\ op'.dispatched = op.dispatched
         /\ op'.cross = op.cross
         /\ op'.res = "threw"
         /\ pc' = pc \/ (pc \in Awaiting /\ pc' = "caught")
         /\ \/ aborted' = aborted /\ window' = window
            \/ aborted' = "expired" /\ window' = FALSE
         /\ UNCHANGED <<plan, step, graph, bound, result, late, acts, trace>>
<1> DEFINE e == IF aborted = "no" /\ ~op.timedOut THEN "blocked" ELSE "other"
<1>1. op' = [op EXCEPT !.res = "threw", !.err = e]
  BY DEF RefuseDispatch
<1>2. e \in {"blocked", "other"}
  OBVIOUS
<1> HIDE DEF e
<1>3. /\ op' \in Ops
      /\ op'.kind = op.kind /\ op'.at = op.at /\ op'.gen = op.gen
      /\ op'.timedOut = op.timedOut /\ op'.dispatched = op.dispatched
      /\ op'.cross = op.cross
      /\ op'.res = "threw"
  BY <1>1, <1>2 DEF Ops, TypeOK
<1> QED
  BY <1>3 DEF RefuseDispatch, AbortWith

(* A session that an action of the executor has hidden or released.        *)
LEMMA HiddenFields ==
  ASSUME NEW s \in Sessions, NEW t, t = [s EXCEPT !.obs = None]
  PROVE  /\ t \in Sessions
         /\ t.open = s.open /\ t.home = s.home /\ t.gen = s.gen
         /\ t.cross = s.cross /\ t.latch = s.latch /\ t.obs = None
         /\ t.typed = s.typed /\ t.records = s.records /\ t.cleared = s.cleared
  BY DEF Sessions, None

LEMMA ActiveFields ==
  ASSUME NEW s \in Sessions, NEW b \in BOOLEAN, NEW t, t = [s EXCEPT !.active = b]
  PROVE  /\ t \in Sessions
         /\ t.open = s.open /\ t.home = s.home /\ t.gen = s.gen
         /\ t.cross = s.cross /\ t.latch = s.latch /\ t.obs = s.obs
         /\ t.typed = s.typed /\ t.records = s.records /\ t.cleared = s.cleared
  BY DEF Sessions

LEMMA TypedFields ==
  ASSUME NEW s \in Sessions, NEW t,
         t = [[s EXCEPT !.obs = None] EXCEPT !.typed = @ + 1]
  PROVE  /\ t \in Sessions
         /\ t.open = s.open /\ t.home = s.home /\ t.gen = s.gen
         /\ t.cross = s.cross /\ t.latch = s.latch /\ t.obs = None
         /\ t.typed = s.typed + 1 /\ t.records = s.records /\ t.cleared = s.cleared
<1> DEFINE n == s.typed + 1
<1>1. n \in Nat
  BY DEF Sessions
<1>2. t = [s EXCEPT !.obs = 0, !.typed = n]
  BY DEF Sessions, None
<1> HIDE DEF n
<1>3. t \in Sessions
  <2> DEFINE h == [s EXCEPT !.obs = 0]
  <2>1. h \in Sessions
    BY DEF Sessions
  <2>2. t = [h EXCEPT !.typed = n]
    BY <1>2 DEF Sessions
  <2> HIDE DEF h
  <2> QED
    BY <1>1, <2>1, <2>2 DEF Sessions
<1>4. /\ t.open = s.open /\ t.home = s.home /\ t.gen = s.gen
      /\ t.cross = s.cross /\ t.latch = s.latch /\ t.obs = 0
      /\ t.typed = n /\ t.records = s.records /\ t.cleared = s.cleared
  BY <1>2 DEF Sessions
<1> QED
  BY <1>3, <1>4 DEF n, None

-----------------------------------------------------------------------------
LEMMA TypeInit == Init => TypeOK
<1> SUFFICES ASSUME Init PROVE TypeOK
  OBVIOUS
<1>1. plan \in Seq(Steps)
  BY PlansAreSteps DEF Init, Steps
<1>2. op \in Ops
  BY DEF Init, NewOp, Ops, None, Awaiting
<1>3. sess \in Sessions
  BY DEF Init, Sessions, None
<1>4. acts \in Seq(Acts) /\ trace \in Seq(Events)
  BY DEF Init
<1>5. late \in BOOLEAN /\ window \in BOOLEAN
  BY DEF Init
<1>6. pc = "step" /\ step = 1 /\ graph = 0 /\ bound = 0 /\ aborted = "no"
  BY DEF Init, None
<1> QED
  BY <1>1, <1>2, <1>3, <1>4, <1>5, <1>6 DEF TypeOK

(* The actions that leave the runtime, the lease and the trace alone.      *)
LEMMA TypeFrame ==
  ASSUME TypeOK, OpFrame, op' \in Ops, sess' \in Sessions, acts' \in Seq(Acts)
  PROVE  TypeOK'
  BY DEF TypeOK, OpFrame, rtVars, envVars

LEMMA TypeStep ==
  ASSUME TypeOK, Live, ActingKnows, [Next]_vars
  PROVE  TypeOK'
<1>0. op \in Ops /\ sess \in Sessions /\ acts \in Seq(Acts)
  BY DEF TypeOK
<1>1. CASE BeginStep
  <2>1. /\ op' \in Ops
        /\ pc' \in Awaiting \cup {"step", "caught", "terminal", "done", "threw"}
    <3>1. CASE StartOp("capture")
      <4>1. "capture" \in Awaiting
        BY DEF Awaiting
      <4> QED
        BY <1>0, <3>1, <4>1, StartOpStarts, NewOpFields
    <3>2. CASE ~StartOp("capture")
      BY <1>0, <1>1, <3>2 DEF BeginStep, Complete, Throw
    <3> QED
      BY <3>1, <3>2
  <2> QED
    BY <1>1, <2>1 DEF BeginStep, TypeOK, envVars
<1>2. CASE TakeResult
  <2>1. /\ graph' \in Nat /\ bound' \in Nat /\ trace' \in Seq(Events)
        /\ late' \in BOOLEAN
    BY <1>2, TakeResultShape DEF TraceGrows
  <2>2. CASE RunStops
    BY <1>2, <2>1, <2>2 DEF RunStops, TakeResult, TypeOK, envVars
  <2>3. CASE \E k \in Awaiting : OpFollows(k)
    BY <1>2, <2>1, <2>3, NewOpFields, ZenonT(120) DEF OpFollows, TakeResult, TypeOK, envVars
  <2>4. CASE StepFollows
    BY <1>2, <2>1, <2>4 DEF StepFollows, TakeResult, TypeOK, envVars
  <2> QED
    BY <1>2, <2>2, <2>3, <2>4, TakeResultShape
<1>3. CASE Catch
  <2>1. pc' \in {"terminal", "threw"}
    BY <1>3 DEF Catch, Throw
  <2> QED
    BY <1>3, <2>1 DEF Catch, TypeOK, envVars
<1>4. CASE RecordTerminal
  <2>1. trace' \in Seq(Events)
    BY <1>4, StageIsEvent, TraceExtended, TraceKept DEF RecordTerminal, TraceGrows
  <2> QED
    BY <1>4, <2>1 DEF RecordTerminal, TypeOK, envVars
<1>5. CASE DeadlineFires
  <2>1. op' \in Ops
    BY <1>0, <1>5 DEF DeadlineFires, Ops
  <2> QED
    BY <1>5, <2>1 DEF DeadlineFires, TypeOK, envVars
<1>6. CASE ExternalReturns
  <2>1. op' \in Ops
    BY <1>0, <1>6, SettleFields DEF ExternalReturns
  <2> QED
    BY <1>0, <1>6, <2>1, TypeFrame DEF ExternalReturns
<1>7. CASE PageReadFails
  <2>1. op' \in Ops
    BY <1>0, <1>7, SettleFields DEF PageReadFails
  <2> QED
    BY <1>0, <1>7, <2>1, TypeFrame DEF PageReadFails
<1>8. CASE CaptureStart
  <2>1. sess.open /\ Available => op' \in Ops
    BY <1>0, <1>8, ZenonT(120) DEF CaptureStart, Ops, Sessions
  <2>2. op' \in Ops
    BY <1>0, <1>8, <2>1, SettleFields DEF CaptureStart
  <2> QED
    BY <1>0, <1>8, <2>2, TypeFrame DEF CaptureStart
<1>9. CASE CaptureRound
  <2>1. [op EXCEPT !.attempt = 2] \in Ops
    BY <1>0 DEF Ops
  <2>2. op' \in Ops /\ sess' \in Sessions
    BY <1>0, <1>9, <2>1, SettleFields, MoveFields, UnavailableFields DEF CaptureRound
  <2> QED
    BY <1>0, <1>9, <2>2, TypeFrame DEF CaptureRound
<1>10. CASE CaptureRegister
  <2>1. \A p \in {FALSE, sess.pending} :
          [sess EXCEPT !.obs = op.gen, !.pending = p] \in Sessions
    BY <1>0 DEF Ops, Sessions
  <2>2. op' \in Ops /\ sess' \in Sessions
    BY <1>0, <1>10, <2>1, SettleFields, MoveFields DEF CaptureRegister
  <2> QED
    BY <1>0, <1>10, <2>2, TypeFrame DEF CaptureRegister
<1>11. CASE CaptureArtifacts
  <2>1. op' \in Ops
    BY <1>0, <1>11, SettleFields DEF CaptureArtifacts
  <2> QED
    BY <1>0, <1>11, <2>1, TypeFrame DEF CaptureArtifacts
<1>12. CASE ResolveStart
  <2>1. [op EXCEPT !.at = "reads", !.gen = graph] \in Ops
    BY <1>0 DEF Ops, TypeOK
  <2>2. op' \in Ops
    BY <1>0, <1>12, <2>1, SettleFields DEF ResolveStart
  <2> QED
    BY <1>0, <1>12, <2>2, TypeFrame DEF ResolveStart
<1>13. CASE ResolveBind
  <2>1. op' \in Ops
    BY <1>0, <1>13, SettleFields DEF ResolveBind
  <2> QED
    BY <1>0, <1>13, <2>1, TypeFrame DEF ResolveBind
<1>14. CASE ExecuteStart
  <2>1. \A at \in {"ready", "reads"} : [op EXCEPT !.gen = bound, !.at = at] \in Ops
    BY <1>0 DEF Ops, TypeOK
  <2>2. op' \in Ops /\ sess' \in Sessions
    BY <1>0, <1>14, <2>1, SettleFields, HiddenFields, ActiveFields DEF ExecuteStart
  <2> QED
    BY <1>0, <1>14, <2>2, TypeFrame DEF ExecuteStart
<1>15. CASE ExecuteReads
  <2>1. op' \in Ops
    BY <1>0, <1>15, SettleFields, MoveFields DEF ExecuteReads
  <2> QED
    BY <1>0, <1>15, <2>1, TypeFrame DEF ExecuteReads
<1>16. CASE ExecuteValue
  <2>1. op' \in Ops /\ sess' \in Sessions
    BY <1>0, <1>16, SettleFields, MoveFields, HiddenFields, ActiveFields, UnavailableFields
    DEF ExecuteValue, OpenDispatch
  <2> QED
    BY <1>0, <1>16, <2>1, TypeFrame DEF ExecuteValue
<1>17. CASE DispatchPlain
  <2> DEFINE s == [sess EXCEPT !.obs = None]
  <2>0. s \in Sessions
    BY <1>0, HiddenFields, ActiveFields
  <2>1. CASE Settle("failed", "none") /\ UNCHANGED <<sess, acts>> /\ OpFrame
    BY <1>0, <2>1, SettleFields, TypeFrame
  <2>2. CASE Dispatch(s)
    <3> HIDE DEF s
    <3> QED
      BY <2>0, <2>2, DispatchFields DEF Dispatch, TypeOK, rtVars, envVars
  <2>3. CASE ~Authorized /\ RefuseDispatch /\ sess' = s
    <3> HIDE DEF s
    <3> QED
      BY <2>0, <2>3, RefuseFields DEF TypeOK
  <2> QED
    BY <1>17, <2>1, <2>2, <2>3 DEF DispatchPlain
<1>18. CASE DispatchInput
  <2> DEFINE s == [sess EXCEPT !.obs = None]
             t == [s EXCEPT !.typed = @ + 1]
             u == [s EXCEPT !.active = FALSE]
  <2>0. s \in Sessions /\ t \in Sessions /\ u \in Sessions
    BY <1>0, HiddenFields, ActiveFields, TypedFields
  <2>1. CASE /\ \/ Settle("threw", "error") /\ sess' = Unavailable(sess)
                \/ Settle("threw", "other") /\ sess' = [sess EXCEPT !.active = FALSE]
             /\ UNCHANGED acts
             /\ OpFrame
    BY <1>0, <2>1, SettleFields, UnavailableFields, HiddenFields, ActiveFields, TypeFrame
  <2>2. CASE Dispatch(t)
    <3> HIDE DEF t
    <3> QED
      BY <2>0, <2>2, DispatchFields DEF Dispatch, TypeOK, rtVars, envVars
  <2>3. CASE ~Authorized /\ RefuseDispatch /\ sess' = u
    <3> HIDE DEF u
    <3> QED
      BY <2>0, <2>3, RefuseFields DEF TypeOK
  <2> QED
    BY <1>18, <2>1, <2>2, <2>3 DEF DispatchInput
<1>19. CASE ActionReturns
  <2>0. acts # <<>>
    BY <1>19 DEF ActionReturns, OpRuns, ActingKnows, Executing
  <2>1. ASSUME NEW s \in Sessions, Conclude(s)
        PROVE  op' \in Ops /\ sess' \in Sessions /\ acts' \in Seq(Acts)
    BY <1>0, <2>0, <2>1, SettleFields, EndedFields DEF Conclude
  <2>2. \E s \in Sessions : Conclude(s)
    BY <1>0, <1>19, NavigationFields, EvidenceFields DEF ActionReturns
  <2> QED
    BY <1>0, <1>19, <2>1, <2>2, TypeFrame DEF ActionReturns
<1>20. CASE ActionFails
  <2>0. acts # <<>>
    BY <1>20 DEF ActionFails, OpRuns, ActingKnows, Executing
  <2>1. op' \in Ops /\ sess' \in Sessions /\ acts' \in Seq(Acts)
    BY <1>0, <1>20, <2>0, SettleFields, EndedFields, UnavailableFields
    DEF ActionFails
  <2> QED
    BY <1>20, <2>1, TypeFrame DEF ActionFails
<1>21. CASE Abort
  BY <1>21 DEF Abort, AbortWith, TypeOK
<1>22. CASE BudgetRunsOut
  BY <1>22 DEF BudgetRunsOut, TypeOK, rtVars
<1>23. CASE WindowCloses
  BY <1>23 DEF WindowCloses, TypeOK, rtVars
<1>24. CASE PageNavigates
  <2>1. sess' \in Sessions /\ acts' \in Seq(Acts)
    BY <1>0, <1>24, PageNavigatesShape, LeavesFields
  <2> QED
    BY <1>0, <1>24, <2>1, TypeFrame DEF PageNavigates, OpFrame
<1>25. CASE PageNotifies
  BY <1>0, <1>25, UnavailableFields, TypeFrame DEF PageNotifies, OpFrame
<1>26. CASE CloseTarget
  <2>1. sess' \in Sessions
    BY <1>0, <1>26 DEF CloseTarget, Sessions
  <2> QED
    BY <1>0, <1>26, <2>1, TypeFrame DEF CloseTarget, OpFrame
<1>27. CASE UNCHANGED vars
  BY <1>27 DEF vars, TypeOK
<1> QED
  BY <1>1, <1>2, <1>3, <1>4, <1>5, <1>6, <1>7, <1>8, <1>9, <1>10, <1>11, <1>12,
     <1>13, <1>14, <1>15, <1>16, <1>17, <1>18, <1>19, <1>20, <1>21, <1>22, <1>23,
     <1>24, <1>25, <1>26, <1>27
  DEF Next, Runtime, Target, Environment

-----------------------------------------------------------------------------
(* The steps of an operation that neither dispatch nor end an action: the  *)
(* reads, the checks and the refusals.  Only a capture can show something, *)
(* and only while the evidence is available.                               *)
Quiet ==
  /\ op.res = "none" /\ op.at # "acting" /\ op'.at # "acting"
  /\ op'.kind = op.kind /\ op'.timedOut = op.timedOut
  /\ op'.dispatched = op.dispatched
  /\ op.kind = "execute" /\ op'.res = "none" =>
       /\ op'.at = "ready" => StepKind = "navigate"
       /\ op'.at \in {"value", "epoch"} => StepKind = "input"
       /\ op'.gen <= sess.gen
  /\ sess'.open = sess.open /\ sess'.gen = sess.gen
  /\ sess'.typed = sess.typed /\ sess'.records = sess.records
  /\ sess'.cleared = sess.cleared
  /\ sess.latch => sess'.latch
  /\ sess'.obs \in {sess.obs, None} \/ ~sess.latch
  /\ UNCHANGED <<plan, step, result, acts, trace>>
  /\ pc' = pc \/ (pc \in Awaiting /\ pc' = "caught" /\ op'.res # "none")
  /\ \/ aborted' = aborted /\ window' = window
     \/ aborted' # "no" /\ ~window'

(* The point of no return.                                                 *)
Dispatched ==
  /\ op.kind = "execute" /\ op.res = "none" /\ op.at # "acting"
  /\ Authorized
  /\ StepKind \in {"click", "input", "navigate"}
  /\ op.gen <= sess.gen
  /\ StepKind # "input" => sess.gen = op.gen
  /\ op'.kind = op.kind /\ op'.res = op.res /\ op'.gen = op.gen
  /\ op'.timedOut = op.timedOut
  /\ op'.at = "acting" /\ op'.dispatched = TRUE /\ op'.cross = sess.cross
  /\ sess'.open = sess.open /\ sess'.gen = sess.gen /\ sess'.cross = sess.cross
  /\ sess'.latch = sess.latch /\ sess'.records = sess.records /\ sess'.obs = None
  /\ sess'.cleared = sess.cleared
  /\ sess'.typed = IF StepKind = "input" THEN sess.typed + 1 ELSE sess.typed
  /\ Len(acts') = Len(acts) + 1
  /\ \A i \in DOMAIN acts : acts'[i] = acts[i]
  /\ acts'[Len(acts')].step = step /\ acts'[Len(acts')].kind = StepKind
  /\ acts'[Len(acts')].seen = op.gen /\ acts'[Len(acts')].at = sess.gen
  /\ acts'[Len(acts')].left = FALSE /\ acts'[Len(acts')].outcome = "none"
  /\ UNCHANGED <<plan, step, pc, result, aborted, window, trace>>

LEMMA ReadsAreQuiet ==
  ASSUME TypeOK, Live,
         \/ ExternalReturns \/ PageReadFails \/ CaptureStart \/ CaptureRound
         \/ CaptureRegister \/ CaptureArtifacts \/ ResolveStart \/ ResolveBind
  PROVE  Quiet
<1>0. op \in Ops /\ sess \in Sessions /\ acts \in Seq(Acts) /\ graph \in Nat
  BY DEF TypeOK
<1>1. op.kind # "execute" => op.at # "acting"
  BY <1>0 DEF Live
<1> USE DEF OpFrame, rtVars, envVars, OpRuns
<1>2. CASE ExternalReturns
  BY <1>0, <1>1, <1>2, SettleFields DEF ExternalReturns, Quiet
<1>3. CASE PageReadFails
  BY <1>0, <1>1, <1>3, SettleFields DEF PageReadFails, Quiet
<1>4. CASE CaptureStart
  <2>1. sess.open /\ Available =>
          /\ op'.at = "round" /\ op'.kind = op.kind /\ op'.timedOut = op.timedOut
          /\ op'.dispatched = op.dispatched
    BY <1>0, <1>4 DEF CaptureStart, Ops
  <2> QED
    BY <1>0, <1>1, <1>4, <2>1, SettleFields DEF CaptureStart, Quiet
<1>5. CASE CaptureRound
  <2>1. op' = [op EXCEPT !.attempt = 2] =>
          /\ op'.at = op.at /\ op'.kind = op.kind /\ op'.timedOut = op.timedOut
          /\ op'.dispatched = op.dispatched
    BY <1>0 DEF Ops
  <2> QED
    BY <1>0, <1>1, <1>5, <2>1, SettleFields, MoveFields, UnavailableFields, ZenonT(120)
    DEF CaptureRound, Quiet
<1>6. CASE CaptureRegister
  <2>1. ASSUME NEW p, sess' = [sess EXCEPT !.obs = op.gen, !.pending = p]
        PROVE  /\ sess'.open = sess.open /\ sess'.gen = sess.gen
               /\ sess'.typed = sess.typed /\ sess'.records = sess.records
               /\ sess'.cleared = sess.cleared
               /\ sess'.latch = sess.latch
    BY <1>0, <2>1 DEF Sessions
  <2> QED
    BY <1>0, <1>1, <1>6, <2>1, SettleFields, MoveFields
    DEF CaptureRegister, Quiet, Available
<1>7. CASE CaptureArtifacts
  BY <1>0, <1>1, <1>7, SettleFields DEF CaptureArtifacts, Quiet
<1>8. CASE ResolveStart
  <2>1. op' = [op EXCEPT !.at = "reads", !.gen = graph] =>
          /\ op'.at = "reads" /\ op'.kind = op.kind /\ op'.timedOut = op.timedOut
          /\ op'.dispatched = op.dispatched
    BY <1>0 DEF Ops
  <2> QED
    BY <1>0, <1>1, <1>8, <2>1, SettleFields DEF ResolveStart, Quiet
<1>9. CASE ResolveBind
  BY <1>0, <1>1, <1>9, SettleFields DEF ResolveBind, Quiet
<1> QED
  BY <1>2, <1>3, <1>4, <1>5, <1>6, <1>7, <1>8, <1>9

LEMMA ChecksAreQuiet ==
  ASSUME TypeOK, Live, ExecuteKnows, ExecuteStart \/ ExecuteReads \/ ExecuteValue
  PROVE  Quiet
<1>0. op \in Ops /\ sess \in Sessions /\ acts \in Seq(Acts) /\ bound \in Nat
  BY DEF TypeOK
<1>1. sess.gen \in Nat
  BY <1>0 DEF Sessions
<1> USE DEF OpFrame, rtVars, envVars, OpRuns
<1>2. CASE ExecuteStart
  <2>1. ASSUME NEW at \in {"ready", "reads"},
               op' = [op EXCEPT !.gen = bound, !.at = at]
        PROVE  /\ op'.at = at /\ op'.kind = op.kind /\ op'.timedOut = op.timedOut
               /\ op'.dispatched = op.dispatched /\ op'.gen = bound
    BY <1>0, <2>1 DEF Ops
  <2>2. /\ sess'.open = sess.open /\ sess'.gen = sess.gen
        /\ sess'.typed = sess.typed /\ sess'.records = sess.records
        /\ sess'.cleared = sess.cleared
        /\ sess'.latch = sess.latch
        /\ sess'.obs \in {sess.obs, None}
    BY <1>0, <1>2, HiddenFields, ActiveFields DEF ExecuteStart
  <2>3. CASE Settle(IF sess.open THEN "failed" ELSE "threw", "error")
    BY <1>0, <1>2, <2>2, <2>3, SettleFields DEF ExecuteStart, Quiet
  <2>4. CASE ~Settle(IF sess.open THEN "failed" ELSE "threw", "error")
    <3>1. /\ sess.gen = bound
          /\ op' = [op EXCEPT !.gen = bound,
                              !.at = IF StepKind = "navigate" THEN "ready" ELSE "reads"]
      BY <1>2, <2>4 DEF ExecuteStart
    <3>2. /\ op'.at = (IF StepKind = "navigate" THEN "ready" ELSE "reads")
          /\ op'.kind = op.kind /\ op'.timedOut = op.timedOut
          /\ op'.dispatched = op.dispatched /\ op'.gen = bound
      BY <2>1, <3>1
    <3> QED
      BY <1>1, <1>2, <2>2, <3>1, <3>2 DEF ExecuteStart, Quiet
  <2> QED
    BY <2>3, <2>4
<1>3. CASE ExecuteReads
  BY <1>0, <1>1, <1>3, SettleFields, MoveFields
  DEF ExecuteReads, Quiet, ExecuteKnows, Executing
<1>4. CASE ExecuteValue
  <2>1. /\ sess'.open = sess.open /\ sess'.gen = sess.gen
        /\ sess'.typed = sess.typed /\ sess'.records = sess.records
        /\ sess'.cleared = sess.cleared
        /\ sess.latch => sess'.latch
        /\ sess'.obs = sess.obs
    <3>1. \/ sess' = sess
          \/ sess' = Unavailable(sess)
          \/ sess' = [sess EXCEPT !.active = TRUE]
      BY <1>4 DEF ExecuteValue, OpenDispatch
    <3>2. CASE sess' = Unavailable(sess)
      BY <1>0, <3>2, UnavailableFields
    <3>3. CASE sess' = [sess EXCEPT !.active = TRUE]
      BY <1>0, <3>3, ActiveFields
    <3> QED
      BY <3>1, <3>2, <3>3
  <2>2. /\ op'.kind = op.kind /\ op'.timedOut = op.timedOut /\ op'.gen = op.gen
        /\ op'.dispatched = op.dispatched /\ op'.at \in {op.at, "epoch"}
    BY <1>0, <1>4, SettleFields, MoveFields DEF ExecuteValue, OpenDispatch
  <2> QED
    BY <1>1, <1>4, <2>1, <2>2 DEF ExecuteValue, Quiet, ExecuteKnows, Executing
<1> QED
  BY <1>2, <1>3, <1>4

LEMMA DispatchPoint ==
  ASSUME TypeOK, Live, ExecuteKnows, DispatchPlain \/ DispatchInput
  PROVE  Quiet \/ Dispatched
<1>0. op \in Ops /\ sess \in Sessions /\ acts \in Seq(Acts)
  BY DEF TypeOK
<1> DEFINE s == [sess EXCEPT !.obs = None]
           t == [s EXCEPT !.typed = @ + 1]
           u == [s EXCEPT !.active = FALSE]
<1>1. /\ s \in Sessions
      /\ s.open = sess.open /\ s.gen = sess.gen /\ s.cross = sess.cross
      /\ s.latch = sess.latch /\ s.typed = sess.typed
      /\ s.records = sess.records /\ s.obs = None /\ s.cleared = sess.cleared
  BY <1>0, HiddenFields, ActiveFields
<1>2. /\ t \in Sessions
      /\ t.open = sess.open /\ t.gen = sess.gen /\ t.cross = sess.cross
      /\ t.latch = sess.latch /\ t.typed = sess.typed + 1
      /\ t.records = sess.records /\ t.obs = None /\ t.cleared = sess.cleared
  BY <1>0, TypedFields
<1>3. /\ u \in Sessions
      /\ u.open = sess.open /\ u.gen = sess.gen
      /\ u.latch = sess.latch /\ u.typed = sess.typed
      /\ u.records = sess.records /\ u.obs = None /\ u.cleared = sess.cleared
  BY <1>1, HiddenFields, ActiveFields, ZenonT(120)
<1>4. sess.gen \in Nat /\ op.gen \in Nat
  BY <1>0 DEF Sessions, Ops
<1>5. CASE DispatchPlain
  <2>1. /\ op.kind = "execute" /\ op.res = "none" /\ op.at # "acting"
        /\ StepKind \in {"click", "navigate"}
        /\ op.gen <= sess.gen
    BY <1>5 DEF DispatchPlain, OpRuns, ExecuteKnows, Executing
  <2>2. CASE Settle("failed", "none") /\ UNCHANGED <<sess, acts>> /\ OpFrame
    BY <1>0, <2>1, <2>2, SettleFields DEF Quiet, OpFrame, rtVars, envVars
  <2>3. CASE Authority /\ Authorized /\ Dispatch(s)
    <3> HIDE DEF s
    <3> QED
      BY <1>1, <2>1, <2>3, DispatchFields
      DEF Dispatched, Dispatch, Authority, rtVars, envVars
  <2>4. CASE ~Authorized /\ RefuseDispatch /\ sess' = s
    <3> HIDE DEF s
    <3> QED
      BY <1>1, <2>1, <2>4, RefuseFields DEF Quiet
  <2> QED
    BY <1>5, <2>2, <2>3, <2>4 DEF DispatchPlain
<1>6. CASE DispatchInput
  <2>1. /\ op.kind = "execute" /\ op.res = "none" /\ op.at # "acting"
        /\ StepKind = "input"
        /\ op.gen <= sess.gen
    BY <1>6 DEF DispatchInput, OpRuns, ExecuteKnows, Executing
  <2>2. CASE /\ \/ Settle("threw", "error") /\ sess' = Unavailable(sess)
                \/ Settle("threw", "other") /\ sess' = [sess EXCEPT !.active = FALSE]
             /\ UNCHANGED acts
             /\ OpFrame
    <3>1. /\ sess'.open = sess.open /\ sess'.gen = sess.gen
          /\ sess'.typed = sess.typed /\ sess'.records = sess.records
          /\ sess'.cleared = sess.cleared
          /\ sess.latch => sess'.latch
          /\ sess'.obs = sess.obs
      <4>1. CASE sess' = Unavailable(sess)
        BY <1>0, <4>1, UnavailableFields
      <4>2. CASE sess' = [sess EXCEPT !.active = FALSE]
        BY <1>0, <4>2, ActiveFields
      <4> QED
        BY <2>2, <4>1, <4>2
    <3> QED
      BY <1>0, <2>1, <2>2, <3>1, SettleFields DEF Quiet, OpFrame, rtVars, envVars
  <2>3. CASE Authorized /\ Dispatch(t)
    <3> HIDE DEF t
    <3> QED
      BY <1>2, <2>1, <2>3, DispatchFields, ZenonT(120)
      DEF Dispatched, Dispatch, rtVars, envVars
  <2>4. CASE ~Authorized /\ RefuseDispatch /\ sess' = u
    <3> HIDE DEF u
    <3> QED
      BY <1>3, <2>1, <2>4, RefuseFields DEF Quiet
  <2> QED
    BY <1>6, <2>2, <2>3, <2>4 DEF DispatchInput
<1> QED
  BY <1>5, <1>6

(* The end of an action: it is ok only if the page has not left, and what  *)
(* was typed has its record or the evidence is unavailable.                *)
Concluded ==
  /\ Executing("acting")
  /\ op'.res # "none" /\ op'.kind = op.kind /\ op'.at = op.at
  /\ op'.timedOut = op.timedOut /\ op'.dispatched = op.dispatched
  /\ Len(acts') = Len(acts)
  /\ \A i \in DOMAIN acts :
       /\ acts'[i].step = acts[i].step /\ acts'[i].kind = acts[i].kind
       /\ acts'[i].seen = acts[i].seen /\ acts'[i].at = acts[i].at
       /\ acts'[i].left = acts[i].left
       /\ acts'[i].outcome = "ok" => acts[i].outcome = "ok" \/ ~acts[i].left
       /\ i = Len(acts) \/ acts[i].outcome # "none" => acts'[i].outcome # "none"
  /\ sess'.obs = None
  /\ sess'.open /\ ~sess'.latch => sess'.typed = sess'.records + sess'.cleared
  /\ OpFrame

LEMMA EndIsConcluded ==
  ASSUME TypeOK, ExecuteKnows, ActingKnows, Masking, ActionReturns \/ ActionFails
  PROVE  Concluded
<1>0. op \in Ops /\ sess \in Sessions /\ acts \in Seq(Acts)
  BY DEF TypeOK
<1>1. /\ Executing("acting")
      /\ acts # <<>> /\ Len(acts) \in DOMAIN acts
      /\ op.cross <= sess.cross
      /\ acts[Len(acts)].left => op.cross < sess.cross
      /\ StepKind \in {"click", "input", "navigate"}
      /\ op.gen <= sess.gen /\ sess.obs = None
  BY <1>0 DEF ActionReturns, ActionFails, OpRuns, Executing, ActingKnows, ExecuteKnows,
              Masking, NothingShown
<1>2. /\ op.cross \in Nat /\ sess.cross \in Nat /\ op.gen \in Nat /\ sess.gen \in Nat
      /\ sess.typed \in Nat /\ sess.records \in Nat /\ sess.cleared \in Nat
  BY <1>0 DEF Ops, Sessions
<1>3. OpFrame
  BY DEF ActionReturns, ActionFails
<1>4. sess.open /\ ~sess.latch =>
        IF StepKind = "input"
          THEN sess.gen = op.gen => sess.typed = sess.records + sess.cleared + 1
          ELSE sess.typed = sess.records + sess.cleared
  BY <1>1 DEF Masking, TypedIsMasked
<1>5. ASSUME NEW s \in Sessions, Conclude(s), s.obs = None,
             s.home => s.cross = sess.cross \/ s.cross # op.cross,
             s.open /\ ~s.latch => s.typed = s.records + s.cleared
      PROVE  Concluded
  <2>1. CASE KnownOutcome(s)
    <3>1. Settle("ok", "none") /\ acts' = Ended("ok") /\ sess' = s
      BY <1>5, <2>1 DEF Conclude
    <3>2. ~acts[Len(acts)].left
      BY <1>1, <1>2, <1>5, <2>1 DEF KnownOutcome
    <3>3. op'.res = "ok" /\ op'.kind = op.kind /\ op'.at = op.at
          /\ op'.timedOut = op.timedOut /\ op'.dispatched = op.dispatched
      BY <1>0, <3>1, SettleFields
    <3> QED
      BY <1>0, <1>1, <1>3, <1>5, <3>1, <3>2, <3>3, EndedFields DEF Concluded
  <2>2. CASE ~KnownOutcome(s)
    <3>1. Settle("failed", "none") /\ acts' = Ended("unknown") /\ sess' = s
      BY <1>5, <2>2 DEF Conclude
    <3>2. op'.res = "failed" /\ op'.kind = op.kind /\ op'.at = op.at
          /\ op'.timedOut = op.timedOut /\ op'.dispatched = op.dispatched
      BY <1>0, <3>1, SettleFields
    <3> QED
      BY <1>0, <1>1, <1>3, <1>5, <3>1, <3>2, EndedFields DEF Concluded
  <2> QED
    BY <2>1, <2>2
<1>6. CASE ActionReturns /\ StepKind = "navigate"
  <2>1. PICK s \in Navigations(sess) : Conclude(s)
    BY <1>6 DEF ActionReturns
  <2>2. /\ s \in Sessions /\ s.obs = None
        /\ s.home => s.cross = sess.cross
        /\ s.typed = s.records + s.cleared
    <3>1. s.cleared \in Nat /\ s.records = 0 /\ s.cleared = s.typed
      BY <1>0, NavigationFields DEF Sessions
    <3> QED
      BY <1>0, <3>1, NavigationFields
  <2> QED
    BY <1>5, <2>1, <2>2
<1>7. CASE ActionReturns /\ StepKind = "click"
  <2>1. Conclude(sess)
    BY <1>7 DEF ActionReturns
  <2> QED
    BY <1>0, <1>1, <1>4, <1>5, <1>7, <2>1
<1>8. CASE ActionReturns /\ StepKind = "input"
  <2>1. PICK s \in Evidence(sess) : Conclude(s)
    BY <1>8 DEF ActionReturns
  <2>2. /\ s \in Sessions
        /\ s.open = sess.open /\ s.home = sess.home /\ s.gen = sess.gen
        /\ s.cross = sess.cross /\ s.obs = sess.obs /\ s.typed = sess.typed
        /\ s.cleared = sess.cleared
        /\ \/ s.latch = TRUE /\ s.records = sess.records
           \/ s.latch = sess.latch /\ s.records = sess.records + 1
              /\ sess.gen = op.gen
    BY <1>0, <2>1, EvidenceFields
  <2>3. s.open /\ ~s.latch => s.typed = s.records + s.cleared
    BY <1>2, <1>4, <1>8, <2>2
  <2> QED
    BY <1>1, <1>5, <2>1, <2>2, <2>3
<1>9. CASE ActionFails
  <2>1. Settle("failed", "none") /\ acts' = Ended("unknown")
    BY <1>9 DEF ActionFails
  <2>2. op'.res = "failed" /\ op'.kind = op.kind /\ op'.at = op.at
        /\ op'.timedOut = op.timedOut /\ op'.dispatched = op.dispatched
    BY <1>0, <2>1, SettleFields
  <2>3. /\ sess'.obs = None
        /\ sess'.open /\ ~sess'.latch => sess'.typed = sess'.records + sess'.cleared
    BY <1>0, <1>1, <1>4, <1>9, UnavailableFields DEF ActionFails
  <2> QED
    BY <1>0, <1>1, <1>3, <2>1, <2>2, <2>3, EndedFields DEF Concluded
<1> QED
  BY <1>1, <1>6, <1>7, <1>8, <1>9

(* Every step, as the invariants below see it.                             *)
LEMMA StepCases ==
  ASSUME TypeOK, Live, ExecuteKnows, ActingKnows, Masking, [Next]_vars
  PROVE  \/ BeginStep \/ TakeResult \/ Catch \/ RecordTerminal \/ DeadlineFires
         \/ Quiet \/ Dispatched \/ Concluded
         \/ Abort \/ BudgetRunsOut \/ WindowCloses
         \/ PageNavigates \/ PageNotifies \/ CloseTarget
         \/ UNCHANGED vars
  BY ReadsAreQuiet, ChecksAreQuiet, DispatchPoint, EndIsConcluded
  DEF Next, Runtime, Target, Environment

-----------------------------------------------------------------------------
LEMMA DeadlineFields ==
  ASSUME TypeOK, DeadlineFires
  PROVE  /\ op'.kind = op.kind /\ op'.at = op.at /\ op'.res = op.res
         /\ op'.gen = op.gen /\ op'.cross = op.cross
         /\ op'.dispatched = op.dispatched /\ op'.timedOut = TRUE
  BY DEF DeadlineFires, Ops, TypeOK

LEMMA BeginStepShape ==
  ASSUME BeginStep
  PROVE  /\ pc = "step"
         /\ UNCHANGED <<plan, step, graph, bound, envVars, sess, acts, trace>>
         /\ \/ pc' \in {"terminal", "threw"} /\ op' = op
            \/ pc' = "capture" /\ op' = NewOp("capture")
<1>1. "capture" \in Awaiting
  BY DEF Awaiting
<1> QED
  BY <1>1, StartOpStarts DEF BeginStep, Complete, Throw

LEMMA CaptureIsNew ==
  /\ "capture" \in Awaiting
  /\ NewOp("capture").kind = "capture" /\ NewOp("capture").at = "start"
  /\ NewOp("capture").res = "none" /\ NewOp("capture").dispatched = FALSE
<1>1. "capture" \in Awaiting
  BY DEF Awaiting
<1> QED
  BY <1>1, NewOpFields

LEMMA LiveStep ==
  ASSUME TypeOK, Live, ExecuteKnows, ActingKnows, Masking, [Next]_vars
  PROVE  Live'
<1>0. /\ "step" \notin Awaiting /\ "caught" \notin Awaiting
      /\ "terminal" \notin Awaiting /\ "threw" \notin Awaiting
      /\ "done" \notin Awaiting /\ "execute" \in Awaiting
  BY DEF Awaiting
<1>1. CASE BeginStep
  BY <1>0, <1>1, BeginStepShape, CaptureIsNew DEF Live, envVars
<1>2. CASE TakeResult
  <2>1. op.res # "none" /\ aborted' = aborted /\ window' = window
    BY <1>2 DEF TakeResult
  <2>2. CASE RunStops
    BY <1>0, <2>1, <2>2 DEF RunStops, Live
  <2>3. CASE \E k \in Awaiting : OpFollows(k)
    BY <1>0, <2>1, <2>3, NewOpFields, ZenonT(120) DEF OpFollows, Live
  <2>4. CASE StepFollows
    BY <1>0, <2>1, <2>4 DEF StepFollows, Live
  <2> QED
    BY <1>2, <2>2, <2>3, <2>4, TakeResultShape
<1>3. CASE Catch
  <2>1. pc' \in {"terminal", "threw"} /\ UNCHANGED <<op, aborted, window>>
    BY <1>3 DEF Catch, Throw, envVars
  <2> QED
    BY <1>0, <1>3, <2>1 DEF Live, Catch
<1>4. CASE RecordTerminal
  BY <1>0, <1>4 DEF Live, RecordTerminal, envVars
<1>5. CASE DeadlineFires
  BY <1>0, <1>5, DeadlineFields DEF Live, DeadlineFires, envVars
<1>6. CASE Quiet
  BY <1>0, <1>6 DEF Live, Quiet
<1>7. CASE Dispatched
  BY <1>0, <1>7 DEF Live, Dispatched
<1>8. CASE Concluded
  BY <1>0, <1>8 DEF Live, Concluded, Executing, OpFrame, rtVars, envVars
<1>9. CASE Abort
  BY <1>0, <1>9 DEF Live, Abort, AbortWith
<1>10. CASE BudgetRunsOut \/ WindowCloses \/ PageNavigates \/ PageNotifies \/ CloseTarget
  <2>1. UNCHANGED <<op, pc, aborted>> /\ (window' => window)
    BY <1>10 DEF BudgetRunsOut, WindowCloses, PageNavigates, PageNotifies, CloseTarget,
                 rtVars, envVars
  <2> QED
    BY <2>1 DEF Live
<1>11. CASE UNCHANGED vars
  BY <1>11 DEF vars, Live
<1> QED
  BY <1>1, <1>2, <1>3, <1>4, <1>5, <1>6, <1>7, <1>8, <1>9, <1>10, <1>11, StepCases

(* The steps of the runtime that start no operation leave no action under  *)
(* way, or leave it alone.                                                 *)
LEMMA RuntimeSteps ==
  ASSUME TypeOK, Live, BeginStep \/ TakeResult \/ Catch \/ RecordTerminal
  PROVE  /\ UNCHANGED <<plan, sess, acts>>
         /\ \/ op' = op /\ step' = step
            \/ op' = op /\ op.res # "none" /\ step' = step + 1
            \/ /\ op'.at = "start" /\ op'.dispatched = FALSE
               /\ op.res # "none" /\ step' = step
<1>1. CASE BeginStep
  BY <1>1, BeginStepShape, CaptureIsNew DEF Live
<1>2. CASE TakeResult
  <2>1. op.res # "none" /\ UNCHANGED <<plan, sess, acts>>
    BY <1>2 DEF TakeResult
  <2> QED
    BY <1>2, <2>1, TakeResultShape, NewOpFields DEF RunStops, OpFollows, StepFollows
<1>3. CASE Catch \/ RecordTerminal
  BY <1>3 DEF Catch, RecordTerminal
<1> QED
  BY <1>1, <1>2, <1>3

LEMMA ExecuteKnowsStep ==
  ASSUME TypeOK, Live, ExecuteKnows, ActingKnows, Masking, [Next]_vars
  PROVE  ExecuteKnows'
<1>0. op.gen \in Nat /\ sess.gen \in Nat /\ sess \in Sessions
  BY DEF TypeOK, Ops, Sessions
<1>1. CASE BeginStep \/ TakeResult \/ Catch \/ RecordTerminal
  BY <1>1, RuntimeSteps DEF ExecuteKnows, Executing, StepKind
<1>2. CASE DeadlineFires
  BY <1>2, DeadlineFields DEF DeadlineFires, ExecuteKnows, Executing, StepKind
<1>3. CASE Quiet
  BY <1>3 DEF Quiet, ExecuteKnows, Executing, StepKind
<1>4. CASE Dispatched
  BY <1>4 DEF Dispatched, ExecuteKnows, Executing, StepKind
<1>5. CASE Concluded
  BY <1>5 DEF Concluded, ExecuteKnows, Executing
<1>6. CASE PageNavigates
  <2>1. sess'.gen = sess.gen + 1
    BY <1>0, <1>6, PageNavigatesShape
  <2> QED
    BY <1>0, <1>6, <2>1
    DEF PageNavigates, ExecuteKnows, Executing, StepKind, rtVars
<1>7. CASE Abort \/ BudgetRunsOut \/ WindowCloses \/ PageNotifies \/ CloseTarget
  <2>1. UNCHANGED <<op, plan, step>> /\ sess'.gen = sess.gen
    BY <1>0, <1>7, UnavailableFields, CloseTargetShape
    DEF Abort, BudgetRunsOut, WindowCloses, PageNotifies, rtVars
  <2> QED
    BY <2>1 DEF ExecuteKnows, Executing, StepKind
<1>8. CASE UNCHANGED vars
  BY <1>8 DEF vars, ExecuteKnows, Executing, StepKind
<1> QED
  BY <1>1, <1>2, <1>3, <1>4, <1>5, <1>6, <1>7, <1>8, StepCases

LEMMA ActingKnowsStep ==
  ASSUME TypeOK, Live, ExecuteKnows, ActingKnows, Masking, [Next]_vars
  PROVE  ActingKnows'
<1>0. /\ op.cross \in Nat /\ sess.cross \in Nat
      /\ sess \in Sessions /\ acts \in Seq(Acts)
  BY DEF TypeOK, Ops, Sessions
<1>1. CASE BeginStep \/ TakeResult \/ Catch \/ RecordTerminal
  BY <1>1, RuntimeSteps DEF ActingKnows, Executing
<1>2. CASE DeadlineFires
  BY <1>2, DeadlineFields DEF DeadlineFires, ActingKnows, Executing
<1>3. CASE Quiet
  BY <1>3 DEF Quiet, ActingKnows, Executing
<1>4. CASE Dispatched
  BY <1>0, <1>4 DEF Dispatched, ActingKnows, Executing
<1>5. CASE Concluded
  BY <1>5 DEF Concluded, ActingKnows, Executing
<1>6. CASE PageNavigates
  <2> SUFFICES ASSUME Executing("acting")'
               PROVE  /\ acts' # <<>>
                      /\ acts'[Len(acts')].outcome = "none"
                      /\ op'.cross <= sess'.cross
                      /\ acts'[Len(acts')].left => op'.cross < sess'.cross
    BY DEF ActingKnows
  <2>1. op' = op
    BY <1>6 DEF PageNavigates
  <2>2. /\ acts # <<>> /\ Len(acts) \in DOMAIN acts
        /\ acts[Len(acts)].outcome = "none"
        /\ op.cross <= sess.cross
        /\ acts[Len(acts)].left => op.cross < sess.cross
    BY <1>0, <2>1 DEF ActingKnows, Executing
  <2>3. PICK home \in BOOLEAN :
          /\ acts' = Leaves(home)
          /\ home => sess'.cross = sess.cross
          /\ ~home => sess'.cross = sess.cross + 1
    BY <1>0, <1>6, PageNavigatesShape
  <2>4. /\ Len(acts') = Len(acts) /\ acts' \in Seq(Acts)
        /\ acts'[Len(acts)].outcome = "none"
        /\ home => acts'[Len(acts)].left = acts[Len(acts)].left
    BY <1>0, <2>2, <2>3, LeavesFields
  <2> QED
    BY <1>0, <2>1, <2>2, <2>3, <2>4
<1>7. CASE Abort \/ BudgetRunsOut \/ WindowCloses \/ PageNotifies \/ CloseTarget
  <2>1. UNCHANGED <<op, acts>> /\ sess'.cross = sess.cross
    BY <1>0, <1>7, UnavailableFields, CloseTargetShape
    DEF Abort, BudgetRunsOut, WindowCloses, PageNotifies, rtVars
  <2> QED
    BY <2>1 DEF ActingKnows, Executing
<1>8. CASE UNCHANGED vars
  BY <1>8 DEF vars, ActingKnows, Executing
<1> QED
  BY <1>1, <1>2, <1>3, <1>4, <1>5, <1>6, <1>7, <1>8, StepCases

LEMMA SettledEndedStep ==
  ASSUME TypeOK, Live, ExecuteKnows, ActingKnows, SettledEnded, Masking, [Next]_vars
  PROVE  SettledEnded'
<1>0. sess \in Sessions /\ acts \in Seq(Acts) /\ acts' \in Seq(Acts)
  <2>1. TypeOK'
    BY TypeStep
  <2> QED
    BY <2>1 DEF TypeOK
<1>1. CASE BeginStep \/ TakeResult \/ Catch \/ RecordTerminal
  BY <1>1, RuntimeSteps DEF SettledEnded
<1>2. CASE DeadlineFires
  BY <1>2, DeadlineFields DEF DeadlineFires, SettledEnded
<1>3. CASE Quiet
  <2>1. ~op.dispatched
    BY <1>3 DEF Quiet, Live
  <2> QED
    BY <1>3, <2>1 DEF Quiet, SettledEnded
<1>4. CASE Dispatched
  BY <1>4 DEF Dispatched, SettledEnded
<1>5. CASE Concluded
  <2>1. acts # <<>> /\ Len(acts) \in DOMAIN acts
    BY <1>0, <1>5 DEF Concluded, ActingKnows
  <2> QED
    BY <1>0, <1>5, <2>1 DEF Concluded, SettledEnded
<1>6. CASE PageNavigates
  <2>1. PICK home \in BOOLEAN : acts' = Leaves(home)
    BY <1>0, <1>6, PageNavigatesShape
  <2>2. op' = op
    BY <1>6 DEF PageNavigates
  <2>3. acts # <<>> => Len(acts) \in DOMAIN acts
    BY <1>0
  <2> QED
    BY <1>0, <2>1, <2>2, <2>3, LeavesFields DEF SettledEnded
<1>7. CASE \/ Abort \/ BudgetRunsOut \/ WindowCloses \/ PageNotifies \/ CloseTarget
           \/ UNCHANGED vars
  <2>1. UNCHANGED <<op, acts>>
    BY <1>7 DEF Abort, BudgetRunsOut, WindowCloses, PageNotifies, CloseTarget, vars
  <2> QED
    BY <2>1 DEF SettledEnded
<1> QED
  BY <1>1, <1>2, <1>3, <1>4, <1>5, <1>6, <1>7, StepCases

(* What the steps do to the actions: nothing, a dispatch, a mark or an end.*)
LEMMA ActsStep ==
  ASSUME TypeOK, Live, ExecuteKnows, ActingKnows, Masking,
         DispatchedWhereSeen, OkStayedHome, [Next]_vars
  PROVE  DispatchedWhereSeen' /\ OkStayedHome'
<1>0. sess \in Sessions /\ acts \in Seq(Acts) /\ acts' \in Seq(Acts)
  <2>1. TypeOK'
    BY TypeStep
  <2> QED
    BY <2>1 DEF TypeOK
<1>1. CASE BeginStep \/ TakeResult \/ Catch \/ RecordTerminal
  BY <1>1, RuntimeSteps DEF DispatchedWhereSeen, OkStayedHome
<1>2. CASE \/ DeadlineFires \/ Quiet \/ Abort \/ BudgetRunsOut \/ WindowCloses
           \/ PageNotifies \/ CloseTarget \/ UNCHANGED vars
  <2>1. acts' = acts
    BY <1>2 DEF DeadlineFires, Quiet, Abort, BudgetRunsOut, WindowCloses, PageNotifies,
                CloseTarget, vars
  <2> QED
    BY <2>1 DEF DispatchedWhereSeen, OkStayedHome
<1>3. CASE Dispatched
  <2>1. /\ Len(acts') = Len(acts) + 1
        /\ \A i \in DOMAIN acts : acts'[i] = acts[i]
        /\ acts'[Len(acts')].kind # "input" =>
             acts'[Len(acts')].at = acts'[Len(acts')].seen
        /\ acts'[Len(acts')].outcome = "none"
    BY <1>3 DEF Dispatched
  <2>2. \A i \in DOMAIN acts' : i \in DOMAIN acts \/ i = Len(acts')
    BY <1>0, <2>1
  <2> QED
    BY <2>1, <2>2 DEF DispatchedWhereSeen, OkStayedHome
<1>4. CASE Concluded
  <2>1. DOMAIN acts' = DOMAIN acts
    BY <1>0, <1>4 DEF Concluded
  <2> QED
    BY <1>4, <2>1 DEF Concluded, DispatchedWhereSeen, OkStayedHome
<1>5. CASE PageNavigates
  <2>1. PICK home \in BOOLEAN : acts' = Leaves(home)
    BY <1>0, <1>5, PageNavigatesShape
  <2>2. DOMAIN acts' = DOMAIN acts
    BY <1>0, <2>1, LeavesFields
  <2> QED
    BY <1>0, <2>1, <2>2, LeavesFields DEF DispatchedWhereSeen, OkStayedHome
<1> QED
  BY <1>1, <1>2, <1>3, <1>4, <1>5, StepCases

LEMMA MaskingStep ==
  ASSUME TypeOK, Live, ExecuteKnows, ActingKnows, Masking, [Next]_vars
  PROVE  Masking'
<1>0. /\ sess \in Sessions
      /\ sess.typed \in Nat /\ sess.records \in Nat /\ sess.cleared \in Nat
      /\ sess.gen \in Nat
      /\ op.gen \in Nat
  BY DEF TypeOK, Sessions, Ops
<1> USE DEF Masking, TypedIsMasked, NothingShown, ObservedIsMasked, Executing
<1>1. CASE BeginStep \/ TakeResult \/ Catch \/ RecordTerminal
  BY <1>1, RuntimeSteps DEF StepKind
<1>2. CASE DeadlineFires
  BY <1>2, DeadlineFields DEF DeadlineFires, StepKind
<1>3. CASE Quiet
  BY <1>3 DEF Quiet, StepKind
<1>4. CASE Dispatched
  BY <1>0, <1>4 DEF Dispatched, StepKind
<1>5. CASE Concluded
  BY <1>5 DEF Concluded
<1>6. CASE PageNavigates
  <2>1. /\ sess'.gen = sess.gen + 1 /\ sess'.obs = None
        /\ sess'.typed = sess'.records + sess'.cleared
    <3>1. /\ sess' \in Sessions /\ sess'.gen = sess.gen + 1 /\ sess'.obs = None
          /\ sess'.records = 0 /\ sess'.cleared = sess'.typed
      BY <1>0, <1>6, PageNavigatesShape
    <3>2. sess'.cleared \in Nat
      BY <3>1 DEF Sessions
    <3> QED
      BY <3>1, <3>2
  <2>2. UNCHANGED <<op, plan, step>>
    BY <1>6 DEF PageNavigates, rtVars
  <2>3. Executing("acting") => op.gen <= sess.gen
    BY DEF ExecuteKnows
  <2> QED
    BY <1>0, <2>1, <2>2, <2>3 DEF StepKind
<1>7. CASE PageNotifies
  BY <1>0, <1>7, UnavailableFields DEF PageNotifies, StepKind, rtVars
<1>8. CASE CloseTarget
  BY <1>0, <1>8, CloseTargetShape DEF StepKind, rtVars
<1>9. CASE Abort \/ BudgetRunsOut \/ WindowCloses \/ UNCHANGED vars
  <2>1. UNCHANGED <<op, plan, step, sess>>
    BY <1>9 DEF Abort, BudgetRunsOut, WindowCloses, rtVars, vars
  <2> QED
    BY <2>1 DEF StepKind
<1> QED
  BY <1>1, <1>2, <1>3, <1>4, <1>5, <1>6, <1>7, <1>8, <1>9, StepCases

(* An action that is in the trace stays there; the others are the last     *)
(* action, which the step must account for or go on owing.                 *)
LEMMA AccountingKept ==
  ASSUME TraceGrows, Accounting,
         DOMAIN acts' = DOMAIN acts, Len(acts') = Len(acts),
         \A i \in DOMAIN acts : acts'[i].step = acts[i].step,
         \A i \in DOMAIN acts :
           i = Len(acts) /\ Owed(acts[i]) => InTrace(acts[i])' \/ Owed(acts[i])'
  PROVE  Accounting'
<1> SUFFICES ASSUME NEW i \in DOMAIN acts
             PROVE  InTrace(acts[i])' \/ (i = Len(acts') /\ Owed(acts[i])')
  BY DEF Accounting
<1>1. CASE InTrace(acts[i])
  <2>1. \E n \in DOMAIN trace' :
          trace'[n] = [stage |-> "action_executed", step |-> acts'[i].step, ok |-> TRUE]
    BY <1>1, InTraceStays
  <2> QED
    BY <2>1 DEF InTrace
<1>2. CASE i = Len(acts) /\ Owed(acts[i])
  BY <1>2
<1> QED
  BY <1>1, <1>2 DEF Accounting

(* An action is dispatched only by the run that awaits it.                 *)
LEMMA DispatchedIsAwaited ==
  ASSUME TypeOK, Live, Dispatched
  PROVE  pc = "execute" /\ aborted = "no" /\ window /\ ~op.dispatched
  BY DEF Live, Dispatched, Authorized

LEMMA AccountingStep ==
  ASSUME TypeOK, Live, ExecuteKnows, ActingKnows, SettledEnded, Masking, Accounting,
         [Next]_vars
  PROVE  Accounting'
<1>0. acts \in Seq(Acts) /\ acts' \in Seq(Acts) /\ trace \in Seq(Events)
  <2>1. TypeOK'
    BY TypeStep
  <2> QED
    BY <2>1 DEF TypeOK
<1>1. CASE BeginStep
  <2>1. pc = "step" /\ UNCHANGED <<acts, trace>>
    BY <1>1, BeginStepShape
  <2> QED
    BY <2>1, AccountingKept, TraceKept DEF Owed
<1>2. CASE TakeResult
  <2>1. acts' = acts /\ pc \in Awaiting /\ TraceGrows
    BY <1>2, TakeResultShape DEF TakeResult
  <2>2. \A i \in DOMAIN acts :
          Owed(acts[i]) => pc = "execute" /\ op.dispatched /\ acts[i].step = step
    BY <2>1 DEF Owed, Awaiting
  <2>3. CASE RunStops
    BY <2>1, <2>2, <2>3, AccountingKept DEF RunStops, Owed, SettledEnded
  <2>4. CASE \E k \in Awaiting : OpFollows(k)
    BY <2>1, <2>2, <2>4, AccountingKept DEF OpFollows
  <2>5. CASE StepFollows
    <3>1. ASSUME NEW i \in DOMAIN acts, Owed(acts[i])
          PROVE  InTrace(acts[i])'
      <4>1. op.res = "ok" /\ trace' = trace \o Stage("action_executed")
        BY <2>2, <2>5, <3>1 DEF StepFollows
      <4>2. /\ Len(trace) + 1 \in DOMAIN trace'
            /\ trace'[Len(trace) + 1] =
                 [stage |-> "action_executed", step |-> step, ok |-> TRUE]
        <5> DEFINE e == [stage |-> "action_executed", step |-> step, ok |-> TRUE]
        <5>1. trace' = trace \o <<e>>
          BY <4>1 DEF Stage
        <5> HIDE DEF e
        <5>2. Len(trace) + 1 \in DOMAIN trace' /\ trace'[Len(trace) + 1] = e
          BY <1>0, <5>1
        <5> QED
          BY <5>2 DEF e
      <4>3. acts'[i].step = step
        BY <2>1, <2>2, <3>1
      <4> QED
        BY <4>2, <4>3 DEF InTrace
    <3> QED
      BY <2>1, <3>1, AccountingKept
  <2> QED
    BY <1>2, <2>3, <2>4, <2>5, TakeResultShape
<1>3. CASE Catch
  <2>1. pc = "caught" /\ UNCHANGED <<acts, trace, op, step>>
    BY <1>3 DEF Catch
  <2>2. op.dispatched => Throw("unknown")
    <3>1. op.dispatched => op.kind = "execute"
      BY DEF Live
    <3> QED
      BY <1>3, <3>1 DEF Catch
  <2>3. op.dispatched => pc' = "terminal" /\ result' = "unknown"
    BY <2>2, ThrowEnds
  <2> QED
    BY <2>1, <2>3, AccountingKept, TraceKept DEF Owed
<1>4. CASE RecordTerminal
  <2>1. /\ pc = "terminal" /\ pc' \in {"done", "threw"}
        /\ UNCHANGED <<acts, result>>
    BY <1>4 DEF RecordTerminal
  <2>2. TraceGrows
    BY <1>4, StageIsEvent, TraceExtended, TraceKept DEF RecordTerminal
  <2> QED
    BY <2>1, <2>2, AccountingKept DEF Owed
<1>5. CASE DeadlineFires
  <2>1. UNCHANGED <<acts, trace, step>> /\ pc \in Awaiting /\ pc' = "caught"
    BY <1>5 DEF DeadlineFires
  <2> QED
    BY <1>5, <2>1, DeadlineFields, AccountingKept, TraceKept DEF Owed, Awaiting
<1>6. CASE Quiet
  <2>1. /\ UNCHANGED <<acts, trace, step, result>> /\ op'.dispatched = op.dispatched
        /\ pc' = pc \/ (pc \in Awaiting /\ pc' = "caught")
    BY <1>6 DEF Quiet
  <2> QED
    BY <2>1, AccountingKept, TraceKept DEF Owed, Awaiting
<1>7. CASE Dispatched
  <2>1. pc = "execute" /\ ~op.dispatched
    BY <1>7, DispatchedIsAwaited
  <2>2. \A i \in DOMAIN acts : InTrace(acts[i])
    BY <2>1 DEF Accounting, Owed
  <2>3. /\ Len(acts') = Len(acts) + 1
        /\ \A i \in DOMAIN acts : acts'[i] = acts[i]
        /\ acts'[Len(acts')].step = step
        /\ op'.dispatched = TRUE
        /\ UNCHANGED <<trace, pc, step>>
    BY <1>7 DEF Dispatched
  <2>4. \A i \in DOMAIN acts' : i \in DOMAIN acts \/ i = Len(acts')
    BY <1>0, <2>3
  <2>5. \A i \in DOMAIN acts : InTrace(acts[i])'
    BY <2>2, <2>3 DEF InTrace
  <2>6. Owed(acts[Len(acts)])'
    BY <2>1, <2>3 DEF Owed
  <2> QED
    BY <2>4, <2>5, <2>6 DEF Accounting
<1>8. CASE Concluded
  <2>1. /\ op'.dispatched = op.dispatched
        /\ UNCHANGED <<pc, step, result, trace>>
        /\ Len(acts') = Len(acts)
        /\ \A i \in DOMAIN acts :
             /\ acts'[i].step = acts[i].step
             /\ acts[i].outcome # "none" => acts'[i].outcome # "none"
    BY <1>8 DEF Concluded, OpFrame, rtVars
  <2>2. DOMAIN acts' = DOMAIN acts
    BY <1>0, <2>1
  <2> QED
    BY <2>1, <2>2, AccountingKept, TraceKept DEF Owed
<1>9. CASE Abort
  <2>1. /\ UNCHANGED <<acts, trace, step, result, op>>
        /\ pc' = pc \/ (pc \in Awaiting /\ pc' = "caught")
    BY <1>9 DEF Abort, AbortWith
  <2> QED
    BY <2>1, AccountingKept, TraceKept DEF Owed, Awaiting
<1>10. CASE PageNavigates
  <2>1. UNCHANGED <<trace, pc, step, result, op>>
    BY <1>10 DEF PageNavigates, rtVars
  <2>2. sess \in Sessions
    BY DEF TypeOK
  <2>3. PICK home \in BOOLEAN : acts' = Leaves(home)
    BY <1>10, <2>2, PageNavigatesShape
  <2>4. /\ Len(acts') = Len(acts)
        /\ \A i \in DOMAIN acts :
             acts'[i].step = acts[i].step /\ acts'[i].outcome = acts[i].outcome
    BY <1>0, <2>3, LeavesFields
  <2>5. DOMAIN acts' = DOMAIN acts
    BY <1>0, <2>4
  <2> QED
    BY <2>1, <2>4, <2>5, AccountingKept, TraceKept DEF Owed
<1>11. CASE \/ BudgetRunsOut \/ WindowCloses \/ PageNotifies \/ CloseTarget
            \/ UNCHANGED vars
  <2>1. UNCHANGED <<acts, trace, pc, step, result, op>>
    BY <1>11 DEF BudgetRunsOut, WindowCloses, PageNotifies, CloseTarget, vars, rtVars
  <2> QED
    BY <2>1, AccountingKept, TraceKept DEF Owed
<1> QED
  BY <1>1, <1>2, <1>3, <1>4, <1>5, <1>6, <1>7, <1>8, <1>9, <1>10, <1>11, StepCases
-----------------------------------------------------------------------------
LEMMA IInvInit == Init => IInv
<1> SUFFICES ASSUME Init PROVE IInv
  OBVIOUS
<1>1. /\ op.kind = "none" /\ op.at = "start" /\ op.res = "ok" /\ op.dispatched = FALSE
  BY DEF Init, NewOp
<1>2. sess.obs = 0 /\ sess.typed = 0 /\ sess.records = 0 /\ sess.cleared = 0
  BY DEF Init, None
<1>3. pc = "step" /\ aborted = "no" /\ acts = <<>>
  BY DEF Init
<1>4. Live /\ ExecuteKnows /\ ActingKnows /\ SettledEnded
  BY <1>1, <1>3 DEF Live, ExecuteKnows, ActingKnows, SettledEnded, Executing, Awaiting
<1>5. Masking
  BY <1>1, <1>2 DEF Masking, TypedIsMasked, NothingShown, ObservedIsMasked, Executing,
                    None
<1>6. DispatchedWhereSeen /\ OkStayedHome /\ Accounting
  BY <1>3 DEF DispatchedWhereSeen, OkStayedHome, Accounting
<1> QED
  BY <1>4, <1>5, <1>6, TypeInit DEF IInv

LEMMA IInvStep == IInv /\ [Next]_vars => IInv'
  BY TypeStep, LiveStep, ExecuteKnowsStep, ActingKnowsStep, SettledEndedStep, ActsStep,
     MaskingStep, AccountingStep
  DEF IInv

LEMMA Invariance == Spec => []IInv
  BY IInvInit, IInvStep, PTL DEF Spec

(* An action other than an input reaches the document that was observed    *)
(* for it (PlaywrightActionExecutor compares the generation and dispatches *)
(* without an await between).                                              *)
THEOREM DispatchReachesSeen == Spec => []DispatchedWhereSeen
<1>1. IInv => DispatchedWhereSeen
  BY DEF IInv
<1> QED
  BY <1>1, Invariance, PTL

(* An action is ok only if the page has not left the target since its      *)
(* dispatch, not even to come back (hasKnownActionOutcome).                *)
THEOREM OkNeverLeft == Spec => []OkStayedHome
<1>1. IInv => OkStayedHome
  BY DEF IInv
<1> QED
  BY <1>1, Invariance, PTL

(* No observation is shown of a document into which a value was typed that *)
(* has no record to mask it by (completeInputSensitiveEvidence), but for   *)
(* the values of before a navigation within that document.                 *)
THEOREM ShownIsMasked == Spec => []ObservedIsMasked
<1>1. IInv => ObservedIsMasked
  BY DEF IInv, Masking
<1> QED
  BY <1>1, Invariance, PTL

(* When the run completes, each action it dispatched is ok in the trace,   *)
(* or it is the last and the completion says unknown, or out of time with  *)
(* the outcome already there (executeStep and completionFromError).        *)
THEOREM ActionsAccountedFor == Spec => []EveryActionAccounted
<1>1. IInv => EveryActionAccounted
  BY DEF IInv, Accounting, Owed, InTrace, EveryActionAccounted
<1> QED
  BY <1>1, Invariance, PTL

(* An operation that lost its race to the wall clock or to the lease       *)
(* dispatches nothing (assertAuthorizedForDispatch).                       *)
THEOREM OnlyLiveDispatch == Spec => DispatchIsLive
<1> DEFINE Act == Len(acts') > Len(acts) => pc = "execute" /\ aborted = "no" /\ window
<1>1. IInv /\ [Next]_vars => [Act]_vars
  <2> SUFFICES ASSUME IInv, [Next]_vars, Len(acts') > Len(acts)
               PROVE  pc = "execute" /\ aborted = "no" /\ window
    OBVIOUS
  <2> USE DEF IInv
  <2>0. acts \in Seq(Acts) /\ sess \in Sessions
    BY DEF TypeOK
  <2>1. CASE Dispatched
    BY <2>1, DispatchedIsAwaited
  <2>2. CASE \/ BeginStep \/ TakeResult \/ Catch \/ RecordTerminal \/ DeadlineFires
             \/ Quiet \/ Concluded \/ Abort \/ BudgetRunsOut \/ WindowCloses
             \/ PageNotifies \/ CloseTarget \/ UNCHANGED vars
    <3>1. Len(acts') = Len(acts)
      BY <2>2 DEF BeginStep, TakeResult, Catch, RecordTerminal, DeadlineFires, Quiet,
                  Concluded, Abort, BudgetRunsOut, WindowCloses, PageNotifies,
                  CloseTarget, vars
    <3> QED
      BY <2>0, <3>1
  <2>3. CASE PageNavigates
    <3>1. PICK home \in BOOLEAN : acts' = Leaves(home)
      BY <2>0, <2>3, PageNavigatesShape
    <3> QED
      BY <2>0, <3>1, LeavesFields
  <2> QED
    BY <2>1, <2>2, <2>3, StepCases
<1> QED
  BY <1>1, Invariance, PTL DEF Spec, DispatchIsLive
=============================================================================

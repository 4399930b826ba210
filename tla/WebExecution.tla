---------------------------- MODULE WebExecution ----------------------------
(***************************************************************************)
(* One run of a plan on a web page: the runtime that takes the steps       *)
(* (ExecutionRuntime), the lease that may be lost under it                 *)
(* (AcceptedLeaseLifecycle), and the browser session whose page may        *)
(* navigate at any moment (PlaywrightBrowserSession with its observer,     *)
(* resolver and executor).                                                 *)
(*                                                                         *)
(* The runtime awaits one operation at a time, in a race with the wall     *)
(* clock and the lease.  An operation that has lost the race goes on: it   *)
(* cannot be stopped, only be refused its effect.  An action below is what *)
(* runs between two awaits.  "click" stands for the actions on an element  *)
(* without a value, "input" for those with one, "navigate" for those on    *)
(* the page.                                                               *)
(***************************************************************************)
EXTENDS Integers, Sequences, FiniteSets, Functions

CONSTANTS Plans,          \* the plans of the offers, sequences of step kinds
          MaxSteps,       \* budget.maximumStepsPerJob
          MaxNavigations  \* bound on the navigations the page makes by itself

ASSUME BudgetIsPositive == MaxSteps \in Nat \ {0}
ASSUME PlansAreSteps == Plans \subseteq Seq({"click", "input", "navigate", "verify"})

VARIABLES plan,
          pc,       \* where the runtime is; the kind of the operation it awaits
          step,     \* the current step
          graph,    \* the observation the step works on
          bound,    \* the generation its resolved action is bound to
          result,   \* the ExecutionCompletion
          late,     \* the wall-clock budget is used up
          window,   \* the lease window permits a new action
          aborted,  \* the lease's signal: "no", "expired", "other" (its reason)
          op,       \* the operation last started
          sess,     \* the browser session
          acts,     \* history: the actions dispatched
          trace     \* the events recorded

vars == <<plan, pc, step, graph, bound, result, late, window, aborted, op, sess,
          acts, trace>>
rtVars  == <<plan, pc, step, graph, bound, result>>
envVars == <<late, window, aborted>>

None == 0

Awaiting == {"capture", "decide", "resolve", "authorize", "execute", "verify"}

(* The plan, followed by a verification when it has none of its own.       *)
StepCount == Len(plan) + (IF "verify" \in Range(plan) THEN 0 ELSE 1)
StepKind  == IF step <= Len(plan) THEN plan[step] ELSE "verify"

(* at: the await the operation is in.  timedOut: its own controller is     *)
(* aborted.  dispatched, cross: its permit.                                *)
NewOp(k) ==
  [kind |-> k, at |-> "start", gen |-> None, attempt |-> 1, res |-> "none",
   err |-> "none", timedOut |-> FALSE, dispatched |-> FALSE, cross |-> 0]

Init ==
  /\ plan \in Plans
  /\ pc = "step" /\ step = 1
  /\ graph = None /\ bound = None
  /\ result = "none"
  /\ late = FALSE /\ window = TRUE /\ aborted = "no"
  /\ op = [NewOp("none") EXCEPT !.res = "ok"]
  /\ sess = [open |-> TRUE, home |-> TRUE, gen |-> 1, cross |-> 0, navs |-> 0,
             obs |-> None, latch |-> FALSE, active |-> FALSE, pending |-> FALSE,
             records |-> 0, typed |-> 0, cleared |-> 0]
  /\ acts = <<>>
  /\ trace = <<>>
-----------------------------------------------------------------------------
(* completionFromError, or an error it does not know: run rejects.         *)
Mapped(e) == e \in {"blocked", "error", "clock", "unknown"}

Throw(e) ==
  /\ pc' = IF Mapped(e) THEN "terminal" ELSE "threw"
  /\ result' = IF Mapped(e) THEN e ELSE "none"

Complete(c) == pc' = "terminal" /\ result' = c

(* What the reason of the aborted signal becomes.                          *)
AbortError == IF aborted = "expired" THEN "blocked" ELSE "other"

(* withinWallClock up to the call of the operation.                        *)
StartOp(k) ==
  CASE late                     -> Throw("clock") /\ UNCHANGED op
    [] ~late /\ aborted # "no"  -> Throw(AbortError) /\ UNCHANGED op
    [] OTHER                    -> pc' = k /\ op' = NewOp(k) /\ UNCHANGED result

(* Mutant: the race has no deadline.                                       *)
DeadlineNever == FALSE /\ UNCHANGED vars

(* The deadline wins the race: the operation's signal is aborted first.    *)
DeadlineFires ==
  /\ pc \in Awaiting
  /\ op.res = "none"
  /\ late
  /\ op' = [op EXCEPT !.timedOut = TRUE, !.err = "clock"]
  /\ pc' = "caught"
  /\ UNCHANGED <<plan, step, graph, bound, result, envVars, sess, acts, trace>>

(* The lease's signal is aborted; it wins a race that is not decided.      *)
AbortWith(reason) ==
  /\ aborted' = reason
  /\ window' = FALSE
  /\ IF pc \in Awaiting /\ op.res = "none"
       THEN pc' = "caught"
       ELSE UNCHANGED pc

(* The renewal of the lease fails, or the caller cancels the run.          *)
Abort ==
  /\ aborted = "no"
  /\ AbortWith("other")
  /\ UNCHANGED <<plan, step, graph, bound, result, late, op, sess, acts, trace>>

(* The race was lost: after the dispatch the outcome is unknown.           *)
Catch ==
  /\ pc = "caught"
  /\ Throw(IF op.kind = "execute" /\ op.dispatched THEN "unknown"
           ELSE IF op.timedOut THEN "clock" ELSE AbortError)
  /\ UNCHANGED <<plan, step, graph, bound, envVars, op, sess, acts, trace>>

(* Time passes: the budget is used up; the window closes.                  *)
BudgetRunsOut ==
  /\ ~late /\ late' = TRUE
  /\ UNCHANGED <<rtVars, window, aborted, op, sess, acts, trace>>

WindowCloses ==
  /\ window /\ window' = FALSE
  /\ UNCHANGED <<rtVars, late, aborted, op, sess, acts, trace>>
-----------------------------------------------------------------------------
(* The head of the loop over the steps; the verification that follows the  *)
(* plan takes no step of the budget.                                       *)
BeginStep ==
  /\ pc = "step"
  /\ IF step > StepCount THEN Complete("passed") /\ UNCHANGED op
     ELSE IF late THEN Throw("clock") /\ UNCHANGED op
     ELSE IF step > MaxSteps /\ step <= Len(plan) THEN Throw("blocked") /\ UNCHANGED op
     ELSE StartOp("capture")
  /\ UNCHANGED <<plan, step, graph, bound, envVars, sess, acts, trace>>

(* recordStage: not started once the budget is used up.  The spool may     *)
(* refuse the event, an error that ends the run without a completion; and  *)
(* the budget may run out while it appends, which is not undone.           *)
Record(events, Then) ==
  \/ late /\ Throw("clock") /\ UNCHANGED <<op, step, trace, late>>
  \/ ~late /\ trace' = trace \o events /\ UNCHANGED late /\ Then
  \/ ~late /\ Throw("spool") /\ UNCHANGED <<op, step, trace, late>>
  \/ /\ ~late /\ late' = TRUE /\ Throw("clock")
     /\ \E n \in 0..Len(events) : trace' = trace \o SubSeq(events, 1, n)
     /\ UNCHANGED <<op, step>>

NextStep == step' = step + 1 /\ pc' = "step" /\ UNCHANGED <<op, result>>

(* Mutant: a failure after the dispatch is taken for one before it.        *)
AfterOutcomeBlocked ==
  IF op.res = "ok" THEN NextStep
                   ELSE Complete("blocked") /\ UNCHANGED <<op, step>>

(* executeStep after the executor's answer.                                *)
AfterOutcome ==
  IF op.res = "ok"
    THEN NextStep
    ELSE /\ Complete(IF op.dispatched THEN "unknown" ELSE "blocked")
         /\ UNCHANGED <<op, step>>

Stage(s) == <<[stage |-> s, step |-> step, ok |-> op.res = "ok"]>>

(* The operation the runtime awaits has been settled.  A model budget that *)
(* is used up blocks an action the policy has allowed.                     *)
TakeResult ==
  /\ pc \in Awaiting
  /\ op.res # "none"
  /\ graph' = IF pc = "capture" /\ op.res = "ok" THEN op.gen ELSE graph
  /\ bound' = IF pc = "resolve" /\ op.res = "ok" THEN op.gen ELSE bound
  /\ IF op.res = "threw"
       THEN /\ Throw(IF op.kind = "execute" /\ op.dispatched THEN "unknown"
                                                             ELSE op.err)
            /\ UNCHANGED <<op, step, trace, late>>
       ELSE CASE pc = "capture" ->
                   Record(Stage("observation"),
                          /\ StartOp(IF StepKind = "verify" THEN "verify"
                                                            ELSE "decide")
                          /\ UNCHANGED step)
              [] pc = "decide" ->
                   Record(Stage("decision"), StartOp("resolve") /\ UNCHANGED step)
              [] pc = "resolve" ->
                   Record(Stage("action_resolved"),
                          StartOp("authorize") /\ UNCHANGED step)
              [] pc = "authorize" ->
                   Record(Stage("policy"),
                          IF op.res = "ok"
                            THEN /\ \/ StartOp("execute")
                                    \/ Throw("blocked") /\ UNCHANGED op
                                 /\ UNCHANGED step
                            ELSE Complete("blocked") /\ UNCHANGED <<op, step>>)
              [] pc = "execute" ->
                   Record(Stage("action_executed"), AfterOutcome)
              [] pc = "verify" ->
                   IF op.res = "ok"
                     THEN Record(Stage("verification"), NextStep)
                     ELSE Record(Stage("verification") \o Stage("finding"),
                                 Complete("finding") /\ UNCHANGED <<op, step>>)
  /\ UNCHANGED <<plan, window, aborted, sess, acts>>

(* recordTerminal; a failure to record is an error of run itself.          *)
RecordTerminal ==
  /\ pc = "terminal"
  /\ \/ pc' = "done" /\ trace' = trace \o Stage("run_completed")
     \/ pc' = "threw" /\ UNCHANGED trace
  /\ UNCHANGED <<plan, step, graph, bound, result, envVars, op, sess, acts>>

(* RunnerOfferRuntime closes the target when the run is over.              *)
CloseTarget ==
  /\ pc \in {"done", "threw"}
  /\ sess.open
  /\ sess' = [sess EXCEPT !.open = FALSE, !.latch = FALSE, !.active = FALSE,
                          !.pending = FALSE, !.records = 0]
  /\ UNCHANGED <<rtVars, envVars, op, acts, trace>>
-----------------------------------------------------------------------------
(* The listener of framenavigated: the records go, the latch is kept.      *)
(* cleared counts the values that are left in the page without a record.   *)
NavigatedTo(s, home, left) ==
  [s EXCEPT !.gen = @ + 1, !.home = home,
            !.cross = IF home THEN @ ELSE @ + 1,
            !.obs = None, !.active = FALSE, !.pending = FALSE, !.records = 0,
            !.typed = left, !.cleared = left]

(* A new document; or the same one (a fragment, the history API), for which*)
(* the browser raises the same event, with all that was typed into it.     *)
Navigations(s) ==
  {NavigatedTo(s, home, 0) : home \in BOOLEAN} \cup {NavigatedTo(s, s.home, s.typed)}

(* Marks the action under way, if any, as one during which the page left   *)
(* the origin of the target.                                               *)
Leaves(home) ==
  IF ~home /\ acts # <<>> /\ acts[Len(acts)].outcome = "none"
    THEN [acts EXCEPT ![Len(acts)].left = TRUE]
    ELSE acts

(* framenavigated: the page navigates, within the target or out of it.     *)
PageNavigates ==
  /\ sess.open
  /\ sess.navs < MaxNavigations
  /\ \E s \in Navigations(sess) :
       /\ sess' = [s EXCEPT !.navs = @ + 1]
       /\ acts' = Leaves(s.home)
  /\ UNCHANGED <<rtVars, envVars, op, trace>>

(* markSensitiveEvidenceUnavailable.                                       *)
Unavailable(s) ==
  [s EXCEPT !.latch = TRUE, !.active = FALSE, !.pending = FALSE]

(* The page's runtime reports a mutation it cannot account for.            *)
PageNotifies ==
  /\ sess.open /\ ~sess.latch
  /\ sess' = Unavailable(sess)
  /\ UNCHANGED <<rtVars, envVars, op, acts, trace>>

Available == ~sess.latch /\ ~sess.active

(* assertPageTargetOrigin with the generation the operation began in.      *)
Authority == sess.home /\ sess.gen = op.gen

OpRuns(kind, at) == op.kind = kind /\ op.at = at /\ op.res = "none"

Settle(res, err) == op' = [op EXCEPT !.res = res, !.err = err]
Move(at)         == op' = [op EXCEPT !.at = at]

OpFrame == UNCHANGED <<rtVars, envVars, trace>>
-----------------------------------------------------------------------------
(* The model's decision, the policy gate's and the verifier's.             *)
ExternalReturns ==
  /\ op.kind \in {"decide", "authorize", "verify"}
  /\ op.res = "none"
  /\ \/ Settle("ok", "none")
     \/ op.kind # "decide" /\ Settle("failed", "none")
     \/ \E e \in {"blocked", "error"} : op.kind # "authorize" /\ Settle("threw", e)
  /\ UNCHANGED <<sess, acts>>
  /\ OpFrame

(* A read of the page fails: with an error of the target, or one that the  *)
(* runtime does not know.                                                  *)
PageReadFails ==
  /\ op.kind \in {"capture", "resolve"}
  /\ op.at # "start"
  /\ op.res = "none"
  /\ \E e \in {"blocked", "other"} : Settle("threw", e)
  /\ UNCHANGED <<sess, acts>>
  /\ OpFrame

(* PlaywrightObserver.capture.                                             *)
CaptureStart ==
  /\ OpRuns("capture", "start")
  /\ IF sess.open /\ Available
       THEN op' = [op EXCEPT !.at = "round", !.gen = sess.gen]
       ELSE Settle("threw", "error")
  /\ UNCHANGED <<sess, acts>>
  /\ OpFrame

(* One attempt: collect, screenshot, collect again.  A second attempt is   *)
(* made when the masks have moved meanwhile, never a third.  An element    *)
(* that carries the marker of a record that is gone makes the evidence     *)
(* unavailable; whether one still stands is the page's choice.             *)
CaptureRound ==
  /\ OpRuns("capture", "round")
  /\ sess.open
  /\ IF ~Authority \/ ~Available
       THEN Settle("threw", IF Authority THEN "error" ELSE "blocked") /\ UNCHANGED sess
       ELSE \/ Move("register") /\ UNCHANGED sess
            \/ /\ op.attempt = 1 /\ sess.records > 0
               /\ op' = [op EXCEPT !.attempt = 2]
               /\ UNCHANGED sess
            \/ Settle("threw", "error") /\ sess' = Unavailable(sess)
  /\ UNCHANGED acts
  /\ OpFrame

(* The evidence of the last input is retired with the capture, unless the  *)
(* page still has callbacks of it to run.                                  *)
CaptureRegister ==
  /\ OpRuns("capture", "register")
  /\ sess.open
  /\ IF ~Authority \/ ~Available
       THEN Settle("threw", IF Authority THEN "error" ELSE "blocked") /\ UNCHANGED sess
       ELSE /\ Move("artifacts")
            /\ \E p \in {FALSE, sess.pending} :
                 sess' = [sess EXCEPT !.obs = op.gen, !.pending = p]
  /\ UNCHANGED acts
  /\ OpFrame

(* SpoolingArtifactObserver: the artifacts of the observation.             *)
CaptureArtifacts ==
  /\ OpRuns("capture", "artifacts")
  /\ IF sess.open /\ sess.home /\ sess.obs = op.gen
       THEN Settle("ok", "none")
       ELSE Settle("threw", "blocked")
  /\ UNCHANGED <<sess, acts>>
  /\ OpFrame

(* PlaywrightActionResolver.resolve: the observation must be the current   *)
(* one before and after the reads.                                         *)
ResolveStart ==
  /\ OpRuns("resolve", "start")
  /\ IF sess.open /\ sess.obs = graph
       THEN op' = [op EXCEPT !.at = "reads", !.gen = graph]
       ELSE Settle("threw", "blocked")
  /\ UNCHANGED <<sess, acts>>
  /\ OpFrame

ResolveBind ==
  /\ OpRuns("resolve", "reads")
  /\ IF Authority /\ sess.obs = op.gen
       THEN Settle("ok", "none")
       ELSE Settle("threw", "blocked")
  /\ UNCHANGED <<sess, acts>>
  /\ OpFrame
-----------------------------------------------------------------------------
(* PlaywrightActionExecutor.execute up to the first await: the action is   *)
(* bound to the current generation, an element's to the observation too.   *)
ExecuteStart ==
  /\ OpRuns("execute", "start")
  /\ IF sess.gen = bound /\ (StepKind = "navigate" \/ sess.obs = bound) /\ sess.open
       THEN /\ op' = [op EXCEPT !.gen = bound,
                                !.at = IF StepKind = "navigate" THEN "ready" ELSE "reads"]
            /\ sess' = IF StepKind = "navigate" THEN [sess EXCEPT !.obs = None]
                                                ELSE sess
       ELSE /\ Settle(IF sess.open THEN "failed" ELSE "threw", "error")
            /\ UNCHANGED sess
  /\ UNCHANGED acts
  /\ OpFrame

(* The element is counted, visible and enabled, its link within the        *)
(* target, or the action fails; an input then asks for its value.          *)
ExecuteReads ==
  /\ OpRuns("execute", "reads")
  /\ \/ StepKind = "input" /\ Authority /\ sess.obs = op.gen /\ Move("value")
     \/ Settle("failed", "none")
  /\ UNCHANGED <<sess, acts>>
  /\ OpFrame

(* prepareSensitiveEvidenceRecord, which may fail (a limit of the records  *)
(* or of a form), and beginSensitiveEvidenceDispatch.                      *)
OpenDispatch ==
  IF aborted # "no" \/ op.timedOut
    THEN Settle("threw", "other") /\ UNCHANGED sess
    ELSE \/ Settle("threw", "error") /\ UNCHANGED sess
         \/ /\ Available /\ sess.pending
            /\ Settle("threw", "error") /\ sess' = Unavailable(sess)
         \/ /\ Available /\ ~sess.pending
            /\ Move("epoch") /\ sess' = [sess EXCEPT !.active = TRUE]

(* The value is resolved or not; guardElementAction; the sensitive         *)
(* dispatch is opened, unless the evidence of an earlier one is pending.   *)
ExecuteValue ==
  /\ OpRuns("execute", "value")
  /\ \/ Settle("failed", "none") /\ UNCHANGED sess
     \/ Authority /\ sess.obs = op.gen /\ OpenDispatch
  /\ UNCHANGED acts
  /\ OpFrame

(* Mutant: only the lease is asked, not the operation's own signal.        *)
AuthorizedByLease == aborted = "no" /\ window

(* assertAuthorizedForDispatch: neither the operation's signal is aborted  *)
(* nor the lease window closed.                                            *)
Authorized == aborted = "no" /\ ~op.timedOut /\ window

(* A window found closed is an expired lease: the run is aborted.          *)
RefuseDispatch ==
  /\ op' = [op EXCEPT !.res = "threw",
                      !.err = IF aborted = "no" /\ ~op.timedOut THEN "blocked"
                                                                ELSE "other"]
  /\ IF aborted = "no" /\ ~op.timedOut
       THEN AbortWith("expired")
       ELSE UNCHANGED <<pc, window, aborted>>
  /\ UNCHANGED <<plan, step, graph, bound, result, late, acts, trace>>

(* The point of no return.                                                 *)
Dispatch(s) ==
  /\ op' = [op EXCEPT !.at = "acting", !.dispatched = TRUE, !.cross = s.cross]
  /\ acts' = Append(acts, [step |-> step, kind |-> StepKind, seen |-> op.gen,
                           at |-> s.gen, left |-> FALSE, outcome |-> "none"])
  /\ sess' = s
  /\ UNCHANGED <<rtVars, envVars, trace>>

(* Mutant: the generation is not compared again before the dispatch.       *)
DispatchUnchecked ==
  /\ OpRuns("execute", IF StepKind = "click" THEN "reads" ELSE "ready")
  /\ LET s == [sess EXCEPT !.obs = None] IN
       IF Authorized THEN Dispatch(s) ELSE RefuseDispatch /\ sess' = s

(* A click, a scroll or a navigation: the generation is compared and the   *)
(* action dispatched without an await between.                             *)
DispatchPlain ==
  /\ OpRuns("execute", IF StepKind = "click" THEN "reads" ELSE "ready")
  /\ LET s == [sess EXCEPT !.obs = None] IN
       IF ~Authority \/ (StepKind # "navigate" /\ sess.obs # op.gen)
         THEN Settle("failed", "none") /\ UNCHANGED <<sess, acts>> /\ OpFrame
         ELSE IF Authorized THEN Dispatch(s) ELSE RefuseDispatch /\ sess' = s

(* An input or a selection: the page has been told of the value, which     *)
(* takes an await and may fail; the generation is not compared again.      *)
DispatchInput ==
  /\ OpRuns("execute", "epoch")
  /\ sess.open
  /\ LET s == [sess EXCEPT !.obs = None] IN
     \/ /\ Settle("threw", "error")
        /\ sess' = Unavailable(sess)
        /\ UNCHANGED acts
        /\ OpFrame
     \/ /\ Settle("threw", "other")
        /\ sess' = [sess EXCEPT !.active = FALSE]
        /\ UNCHANGED acts
        /\ OpFrame
     \/ /\ Authorized
        /\ Dispatch([s EXCEPT !.typed = @ + 1])
     \/ /\ ~Authorized
        /\ RefuseDispatch
        /\ sess' = [s EXCEPT !.active = FALSE]
-----------------------------------------------------------------------------
Ended(outcome) == [acts EXCEPT ![Len(acts)].outcome = outcome]

(* Mutant: a page that is back is taken for one that never left.           *)
KnownIfHome(s) == s.home

(* hasKnownActionOutcome.                                                  *)
KnownOutcome(s) == s.home /\ s.cross = op.cross

(* The action is over, and its outcome known or not.                       *)
Conclude(s) ==
  /\ sess' = s
  /\ IF KnownOutcome(s)
       THEN Settle("ok", "none") /\ acts' = Ended("ok")
       ELSE Settle("failed", "none") /\ acts' = Ended("unknown")

(* Mutant: evidence that cannot be completed is only cancelled.            *)
EvidenceCancelled(s) ==
  {[s EXCEPT !.active = FALSE],
   [s EXCEPT !.active = FALSE, !.pending = TRUE, !.records = @ + 1]}

(* completeInputSensitiveEvidence: a record of the value for the document  *)
(* it was prepared for; everything else makes the evidence unavailable.    *)
Evidence(s) ==
  IF s.gen = op.gen
    THEN {Unavailable(s),
          [s EXCEPT !.active = FALSE, !.pending = TRUE, !.records = @ + 1]}
    ELSE {Unavailable(s)}

(* A dispatched action returns: a navigation of the executor commits a     *)
(* document, an input completes its evidence.                              *)
ActionReturns ==
  /\ OpRuns("execute", "acting")
  /\ sess.open
  /\ CASE StepKind = "navigate" ->
            \E s \in Navigations(sess) : Conclude(s)
       [] StepKind = "click"    -> Conclude(sess)
       [] OTHER                 -> \E s \in Evidence(sess) : Conclude(s)
  /\ OpFrame

(* A dispatched action fails: a time-out, a closed page, a rejected call.  *)
ActionFails ==
  /\ OpRuns("execute", "acting")
  /\ Settle("failed", "none")
  /\ acts' = Ended("unknown")
  /\ sess' = IF StepKind = "input" THEN Unavailable(sess) ELSE sess
  /\ OpFrame
-----------------------------------------------------------------------------
Runtime == \/ BeginStep \/ TakeResult \/ Catch \/ RecordTerminal \/ DeadlineFires

Target ==
  \/ ExternalReturns \/ PageReadFails
  \/ CaptureStart \/ CaptureRound \/ CaptureRegister \/ CaptureArtifacts
  \/ ResolveStart \/ ResolveBind
  \/ ExecuteStart \/ ExecuteReads \/ ExecuteValue
  \/ DispatchPlain \/ DispatchInput \/ ActionReturns \/ ActionFails

Environment ==
  \/ Abort \/ BudgetRunsOut \/ WindowCloses \/ PageNavigates \/ PageNotifies
  \/ CloseTarget

Next == Runtime \/ Target \/ Environment

Spec == Init /\ [][Next]_vars

(* The event loop serves the runtime and its timers and time passes; no    *)
(* operation of the target, the model or the policy need ever return.      *)
FairSpec == Spec /\ WF_vars(Runtime) /\ WF_vars(BudgetRunsOut)
-----------------------------------------------------------------------------
(* "An expired, lost, cancelled, or blocked Run never gains a new action   *)
(* permit" (docs/contexts/execution/CONTEXT.md): an action is dispatched   *)
(* only while its run awaits it under an open window; an operation that    *)
(* lost its race to the wall clock or the lease dispatches nothing.        *)
DispatchIsLive ==
  [][Len(acts') > Len(acts) => pc = "execute" /\ aborted = "no" /\ window]_vars

(* "State-changing actions invalidate stale observation descriptors": an   *)
(* action is dispatched to the document that was observed for it.  (An     *)
(* input is not: see InputWhereSeen.)                                      *)
DispatchedWhereSeen ==
  \A i \in DOMAIN acts :
    acts[i].kind # "input" => acts[i].at = acts[i].seen

(* "A model may select only current-observation nodes": the same for the   *)
(* actions with a value.                                                   *)
InputWhereSeen ==
  \A i \in DOMAIN acts :
    acts[i].kind = "input" => acts[i].at = acts[i].seen

(* An action is reported ok only if the page has not left the target's     *)
(* origin since the dispatch, not even to come back.                       *)
OkStayedHome ==
  \A i \in DOMAIN acts : acts[i].outcome = "ok" => ~acts[i].left

(* No dispatched action goes unaccounted: when the run completes, the      *)
(* trace holds its ok, or it is the last one and the completion says that  *)
(* its outcome is unknown, or its outcome had come in and the budget ran   *)
(* out before that was recorded.  An action whose outcome is awaited is    *)
(* never written off as out of time, and none as blocked.  (In the case of *)
(* the budget the completion is blocked even if the outcome is a failure:  *)
(* see UnknownIsError.)                                                    *)
EveryActionAccounted ==
  pc = "done" =>
    \A i \in DOMAIN acts :
      \/ \E n \in DOMAIN trace :
           trace[n] = [stage |-> "action_executed", step |-> acts[i].step,
                       ok |-> TRUE]
      \/ /\ i = Len(acts)
         /\ \/ result = "unknown"
            \/ result = "clock" /\ acts[i].outcome # "none"

(* "ActionOutcomeUnknown is an error ...; budget or policy denial is       *)
(* blocked" (docs/contexts/execution/CONTEXT.md): a run that completes     *)
(* after an action without a trustworthy result says so.  It does not when *)
(* the budget runs out between the failure and its record (executeStep     *)
(* records before it looks at the outcome).                                *)
UnknownIsError ==
  pc = "done" => \A i \in DOMAIN acts : acts[i].outcome = "unknown" => result = "unknown"

(* An observation that is shown never predates the evidence: every value   *)
(* typed into the document it shows has a record to mask it by, except the *)
(* values typed before a navigation within the document, whose records are *)
(* cleared (see TypedIsRecorded).                                          *)
ObservedIsMasked ==
  sess.open /\ sess.obs # None => sess.records + sess.cleared = sess.typed

(* "audit and evidence retain references plus hashes/lengths, never the    *)
(* value" (docs/contexts/execution/CONTEXT.md), with no exception: does    *)
(* not hold after a navigation within the document, once the page has      *)
(* replaced the element that carries the marker and kept the value.        *)
TypedIsRecorded == sess.open /\ sess.obs # None => sess.records = sess.typed

(* The run ends, whatever hangs: the page, the model, the policy.          *)
RunEnds == <>(pc \in {"done", "threw"})
=============================================================================

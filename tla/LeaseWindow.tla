---------------------------- MODULE LeaseWindow -----------------------------
(***************************************************************************)
(* The time a Runner may act on one accepted lease: the Runner's action    *)
(* window (LeaseWindow), the loop that renews the lease                    *)
(* (LeaseRenewalController), the checks made before and after every        *)
(* operation (AcceptedLeaseLifecycle) and the one thing that matters of    *)
(* Core, the expiry it stored (RunOwnershipService).                       *)
(*                                                                         *)
(* time is the real one: Core's clock and the Runner's monotonic clock     *)
(* follow it, the Runner's wall clock may be set (skew).  The Runner's     *)
(* timers are punctual: time does not pass a timer that is due.  Names are *)
(* chosen so that this module can be extended together with RunLease.      *)
(***************************************************************************)
EXTENDS Integers

CONSTANTS LeaseDurationMs, \* leaseDurationMs of the offer
          SafetyMargin,    \* actionDeadlineSafetyMarginMs
          MaxSkew,         \* bound on the jumps of the wall clock
          Horizon          \* bound on time

ASSUME LeaseLongEnough == LeaseDurationMs \in Nat /\ LeaseDurationMs >= 3
ASSUME BoundsAreNat    == /\ SafetyMargin \in Nat
                          /\ MaxSkew \in Nat
                          /\ Horizon \in Nat

VARIABLES time, skew,
          phase,       \* "offered", "granted" (reply under way), "leased"
          coreExpiry,  \* expires_at in Core's lease row
          coreLost,    \* lost_at is set in Core's lease row
          deadline, expiry, baseline, closed,  \* the LeaseWindow
          loop,        \* the renewal loop: "off", "wait", "inflight", "ended"
          timer,       \* when the timer of that state fires
          net,         \* the renew call: "none", "request", "renewed", "refused"
          cancelled,   \* callerSignal is aborted
          aborted,     \* executionAbort is aborted
          stopped,     \* stop() was called: the run is being finished
          delay        \* history: how long after Core computed the expiry the
                       \* reply came that the window was last opened on

coreVars   == <<coreExpiry, coreLost>>
windowVars == <<deadline, expiry, baseline, closed>>
loopVars   == <<loop, timer>>
flags      == <<cancelled, aborted, stopped>>
allVars == <<time, skew, phase, coreExpiry, coreLost, deadline, expiry,
             baseline, closed, loop, timer, net, cancelled, aborted, stopped, delay>>

(* intervalMs: the time to wait before a renewal, and its deadline.        *)
Interval == IF LeaseDurationMs \div 3 > 1 THEN LeaseDurationMs \div 3 ELSE 1

Wall == time + skew

HasExpired == time >= expiry

(* LeaseWindow.mayStartAction.                                             *)
WindowOpen == ~closed /\ time < deadline /\ Wall >= baseline

(* AcceptedLeaseLifecycle.mayStartAction: the signal of the run is not     *)
(* aborted, and its window is open.                                        *)
MayStartAction == phase = "leased" /\ ~cancelled /\ ~aborted /\ WindowOpen
-----------------------------------------------------------------------------
WindowInit ==
  /\ time = 0 /\ skew = 0
  /\ phase = "offered"
  /\ coreExpiry = 0 /\ coreLost = FALSE
  /\ deadline = 0 /\ expiry = 0 /\ baseline = 0 /\ closed = FALSE
  /\ loop = "off" /\ timer = 0
  /\ net = "none"
  /\ cancelled = FALSE /\ aborted = FALSE /\ stopped = FALSE /\ delay = 0

(* Time passes, but not beyond a timer that is due.  No timer bounds the   *)
(* reply to accept.                                                        *)
TimePasses ==
  /\ time < Horizon
  /\ loop \in {"wait", "inflight"} => time < timer
  /\ time' = time + 1
  /\ UNCHANGED <<skew, delay, phase, coreVars, windowVars, loopVars, net, flags>>

(* The Runner's wall clock is set.                                         *)
SetWallClock ==
  /\ \E d \in -MaxSkew..MaxSkew : d # skew /\ skew' = d
  /\ UNCHANGED <<time, delay, phase, coreVars, windowVars, loopVars, net, flags>>
-----------------------------------------------------------------------------
(* Core grants the lease; the reply travels to the Runner.                 *)
CoreGrant ==
  /\ phase = "offered"
  /\ phase' = "granted"
  /\ coreExpiry' = time + LeaseDurationMs
  /\ UNCHANGED <<time, skew, delay, coreLost, windowVars, loopVars, net, flags>>

(* Core marks an expired lease lost: the run may be recovered elsewhere.   *)
CoreExpire ==
  /\ phase # "offered"
  /\ ~coreLost
  /\ coreExpiry <= time
  /\ coreLost' = TRUE
  /\ UNCHANGED <<time, skew, delay, phase, coreExpiry, windowVars, loopVars, net,
                 flags>>

(* Core's renew: refused for a lost lease; an expired one is marked lost.  *)
CoreRenew ==
  /\ net = "request"
  /\ LET valid == ~coreLost /\ coreExpiry > time IN
       /\ coreLost' = ~valid
       /\ coreExpiry' = IF valid THEN time + LeaseDurationMs ELSE coreExpiry
       /\ net' = IF valid THEN "renewed" ELSE "refused"
  /\ UNCHANGED <<time, skew, delay, phase, windowVars, loopVars, flags>>
-----------------------------------------------------------------------------
(* LeaseWindow, constructed or renewed at this instant.                    *)
OpenWindow ==
  /\ deadline' = time + LeaseDurationMs - SafetyMargin
  /\ expiry' = time + LeaseDurationMs
  /\ baseline' = Wall
  /\ delay' = time - (coreExpiry - LeaseDurationMs)

ArmTimer == timer' = time + Interval

(* The reply to accept arrives: a window from the instant of receipt, and  *)
(* the renewal loop starts with a wait.                                    *)
ReceiveLease ==
  /\ phase = "granted"
  /\ phase' = "leased"
  /\ OpenWindow
  /\ loop' = "wait"
  /\ ArmTimer
  /\ UNCHANGED <<time, skew, coreVars, closed, net, flags>>

(* Mutant: the loop ends without telling the execution.                    *)
FailLoopSilently ==
  /\ loop' = "ended"
  /\ UNCHANGED <<windowVars, timer, flags>>

(* fail, or the time-out's equivalent: window closed, execution aborted,   *)
(* the loop throws.                                                        *)
FailLoop ==
  /\ closed' = TRUE
  /\ aborted' = TRUE
  /\ loop' = "ended"
  /\ UNCHANGED <<deadline, expiry, baseline, timer, cancelled, stopped>>

(* The wait is over: an expired lease is given up, any other is renewed,   *)
(* under a deadline.                                                       *)
SendRenew ==
  /\ loop = "wait"
  /\ time >= timer
  /\ IF HasExpired
       THEN FailLoop /\ UNCHANGED net
       ELSE /\ loop' = "inflight"
            /\ ArmTimer
            /\ net' = "request"
            /\ UNCHANGED <<windowVars, flags>>
  /\ UNCHANGED <<time, skew, delay, phase, coreVars>>

(* The renewal is answered: the window restarts at the instant of receipt; *)
(* a loop that was told to stop ends.                                      *)
ReceiveRenewed ==
  /\ loop = "inflight"
  /\ net = "renewed"
  /\ net' = "none"
  /\ OpenWindow
  /\ loop' = IF cancelled \/ stopped THEN "ended" ELSE "wait"
  /\ ArmTimer
  /\ UNCHANGED <<time, skew, phase, coreVars, closed, flags>>

(* The renewal is refused, or the connection is lost at any moment of it.  *)
RenewFails ==
  /\ loop = "inflight"
  /\ FailLoop
  /\ UNCHANGED <<time, skew, delay, phase, coreVars, net>>

(* The deadline of the renewal wins the race.  The request may still reach *)
(* Core later.                                                             *)
RenewTimeout ==
  /\ loop = "inflight"
  /\ time >= timer
  /\ FailLoop
  /\ UNCHANGED <<time, skew, delay, phase, coreVars, net>>
-----------------------------------------------------------------------------
(* assertActionActive before an action: one that is refused closes the     *)
(* window and aborts the execution; the renewal loop goes on until stop.   *)
RefuseAction ==
  /\ phase = "leased"
  /\ ~cancelled /\ ~aborted /\ ~stopped
  /\ ~WindowOpen
  /\ closed' = TRUE
  /\ aborted' = TRUE
  /\ UNCHANGED <<time, skew, delay, phase, coreVars, deadline, expiry,
                 baseline, loopVars, net, cancelled, stopped>>

(* assertLeaseActive around any other operation under the lease.           *)
RefuseOperation ==
  /\ phase = "leased"
  /\ ~cancelled /\ ~aborted
  /\ HasExpired
  /\ closed' = TRUE
  /\ aborted' = TRUE
  /\ UNCHANGED <<time, skew, delay, phase, coreVars, deadline, expiry,
                 baseline, loopVars, net, cancelled, stopped>>

(* A waiting loop ends as soon as its signal is aborted; one that awaits a *)
(* reply ends after it.                                                    *)
EndWait == loop' = IF loop = "wait" THEN "ended" ELSE loop

(* The caller aborts the run.                                              *)
Cancel ==
  /\ phase = "leased"
  /\ ~cancelled
  /\ cancelled' = TRUE
  /\ EndWait
  /\ UNCHANGED <<time, skew, delay, phase, coreVars, windowVars, timer, net,
                 aborted, stopped>>

(* finish and dispose: stop.                                               *)
Stop ==
  /\ phase = "leased"
  /\ ~stopped
  /\ stopped' = TRUE
  /\ EndWait
  /\ UNCHANGED <<time, skew, delay, phase, coreVars, windowVars, timer, net,
                 cancelled, aborted>>

WindowNext == \/ TimePasses \/ SetWallClock
              \/ CoreGrant \/ CoreExpire \/ CoreRenew
              \/ ReceiveLease \/ SendRenew \/ ReceiveRenewed \/ RenewFails
              \/ RenewTimeout
              \/ RefuseAction \/ RefuseOperation \/ Cancel \/ Stop

WindowSpec == WindowInit /\ [][WindowNext]_allVars
-----------------------------------------------------------------------------
(* Every variable keeps its type.                                          *)
WindowTypeOK ==
  /\ time \in Nat /\ skew \in Int
  /\ phase \in {"offered", "granted", "leased"}
  /\ coreExpiry \in Nat /\ coreLost \in BOOLEAN 
  /\ deadline \in Int /\ expiry \in Int /\ baseline \in Int /\ closed \in BOOLEAN
  /\ loop \in {"off", "wait", "inflight", "ended"}
  /\ timer \in Nat
  /\ net \in {"none", "request", "renewed", "refused"}
  /\ cancelled \in BOOLEAN /\ aborted \in BOOLEAN /\ stopped \in BOOLEAN
  /\ delay \in Int

(* The permission of a run that executes ends with Core's lease at the     *)
(* latest: the window starts at the receipt of a reply, up to one interval *)
(* after Core computed the expiry, and is longer than what is left of it;  *)
(* what keeps the Runner inside is the deadline of the next renewal.  The  *)
(* exception is an accept that is answered later than that: client.ts      *)
(* gives the request no deadline, and until the first renewal is answered  *)
(* the window may outlast the lease.                                       *)
NeverPastCoreExpiry ==
  MayStartAction /\ ~stopped /\ delay <= Interval => time <= coreExpiry

(* A renewal that reaches Core before the Runner gives it up finds a lease *)
(* that has not run out: a third of the duration is soon enough.           *)
RenewalInTime ==
  loop = "inflight" /\ net = "request" /\ delay <= Interval => time <= coreExpiry

(* "An expired, lost, cancelled, or blocked Run never gains a new action   *)
(* permit" (docs/contexts/execution/CONTEXT.md): no step gives permission  *)
(* when Core's lease has run out.                                          *)
ExpiredGainsNoPermit ==
  [][phase # "offered" /\ time > coreExpiry /\ ~MayStartAction
       => ~MayStartAction']_allVars

(* "A later wall-clock reading is never converted back into permission to  *)
(* act" (comment of LeaseWindow): after a backward jump of the wall clock  *)
(* below the baseline, no step gives permission again.                     *)
JumpIsFinal == [][phase = "leased" /\ Wall < baseline => ~MayStartAction']_allVars
=============================================================================

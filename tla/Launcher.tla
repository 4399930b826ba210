------------------------------- MODULE Launcher -------------------------------
(***************************************************************************)
(* The Local launcher: `qualigence-local start` brings up Core, Runner and *)
(* a detached supervisor and records them in runtime-state.json; `stop`    *)
(* reads that record and publishes local-stop-request.json; the supervisor *)
(* polls for a request that names its own topology, stops Runner and Core  *)
(* and removes the files.  Commands and supervisors share nothing but the  *)
(* files of one data directory, and every file operation is a step.        *)
(*                                                                         *)
(* A topology is named after the start command that creates it, so its     *)
(* four identifying fields (three PIDs and startedAt) are one value, and   *)
(* a PID is never reused.  The clocks are not modelled: a supervisor that  *)
(* takes a request may find it in time or not.  Nothing keeps start        *)
(* commands apart: ProcessSupervisor can hold a lock, but commandStart     *)
(* gives it none.  Starts are detached (no --foreground) and Core and      *)
(* Runner have no restart policy, as commandStart builds them.             *)
(***************************************************************************)
EXTENDS Naturals, FiniteSets

CONSTANTS
    Starts,     \* the start commands, each with the topology it may create
    Stops,      \* the stop commands
    NoFile,     \* an absent file
    MaxFaults   \* bound: crashes, killed commands and failed steps

ASSUME LauncherAssumption ==
    NoFile \notin Starts /\ MaxFaults \in Nat

Parts == {"core", "runner", "supervisor"}

VARIABLES
    state,      \* runtime-state.json: the topology recorded
    request,    \* local-stop-request.json: the topology to be stopped
    claim,      \* local-stop-request.<pid>.claim of every supervisor
    stateClaim, \* runtime-state.<...>.claim of whoever cleans up a topology
    up,         \* the processes of every topology that are alive
    start,      \* where every start command is
    sup,        \* where every detached supervisor is
    clean,      \* where clearOwnedTopologyFiles is, for every topology
    stop,       \* where every stop command is, and what it holds
    faults,
    met,        \* history: two processes met over the record
    untimely    \* history: the topologies that a request was dropped for its
                \* time

files == <<state, request, claim, stateClaim>>
vars == <<files, up, start, sup, clean, stop, faults, met, untimely>>

NewStop == [pc |-> "idle", target |-> NoFile, held |-> NoFile, seen |-> NoFile]

Init ==
    /\ state = NoFile
    /\ request = NoFile
    /\ claim = [t \in Starts |-> NoFile]
    /\ stateClaim = [t \in Starts |-> NoFile]
    /\ up = [t \in Starts |-> {}]
    /\ start = [t \in Starts |-> "idle"]
    /\ sup = [t \in Starts |-> "none"]
    /\ clean = [t \in Starts |-> "no"]
    /\ stop = [s \in Stops |-> NewStop]
    /\ faults = 0
    /\ met = FALSE
    /\ untimely = {}

FileOrTopology == Starts \cup {NoFile}

Fault == faults < MaxFaults /\ faults' = faults + 1

Cleaners == {t \in Starts : clean[t] \notin {"no", "done"}}

\* clearOwnedTopologyFiles begins for t.
BeginCleaning(t) ==
    /\ clean' = [clean EXCEPT ![t] = "read"]
    /\ met' = (met \/ Cleaners \ {t} # {})

-----------------------------------------------------------------------------
(* The start command.                                                      *)

\* isTopologyRunning: all three recorded processes are alive.
TopologyRunning(t) == t # NoFile /\ up[t] = Parts

StartEnded == {"idle", "refused", "failed", "killed", "done"}

\* commandStart reads the record; one that is not running is removed.
StartReads(t) ==
    /\ start[t] = "idle"
    /\ start' = [start EXCEPT ![t] = IF TopologyRunning(state) THEN "refused"
                                     ELSE IF state # NoFile THEN "clear" ELSE "core"]
    /\ UNCHANGED <<files, up, sup, clean, stop, faults, met, untimely>>

\* clearRuntimeState removes the file, whatever it holds by now.
ClearState(t) ==
    /\ start[t] = "clear"
    /\ state' = NoFile
    /\ start' = [start EXCEPT ![t] = "core"]
    /\ UNCHANGED <<request, claim, stateClaim, up, sup, clean, stop, faults, met, untimely>>

\* The Core of another topology still holds the ports: the new one exits.
PortsTaken == \E u \in Starts : "core" \in up[u]

SpawnCore(t) ==
    /\ start[t] = "core"
    /\ IF PortsTaken
         THEN start' = [start EXCEPT ![t] = "failed"] /\ UNCHANGED up
         ELSE /\ up' = [up EXCEPT ![t] = @ \cup {"core"}]
              /\ start' = [start EXCEPT ![t] = "runner"]
    /\ UNCHANGED <<files, sup, clean, stop, faults, met, untimely>>

\* The Runner becomes ready only against a live Core (/health/ready).
SpawnRunner(t) ==
    /\ start[t] = "runner"
    /\ IF "core" \in up[t]
         THEN /\ up' = [up EXCEPT ![t] = @ \cup {"runner"}]
              /\ start' = [start EXCEPT ![t] = "handoff"]
         ELSE start' = [start EXCEPT ![t] = "rollback"] /\ UNCHANGED up
    /\ UNCHANGED <<files, sup, clean, stop, faults, met, untimely>>

\* handoffDetachedSupervisor: the supervisor accepts only live processes.
Handoff(t) ==
    /\ start[t] = "handoff"
    /\ IF {"core", "runner"} \subseteq up[t]
         THEN /\ up' = [up EXCEPT ![t] = Parts]
              /\ sup' = [sup EXCEPT ![t] = "polling"]
              /\ start' = [start EXCEPT ![t] = "write"]
         ELSE start' = [start EXCEPT ![t] = "rollback"] /\ UNCHANGED <<up, sup>>
    /\ UNCHANGED <<files, clean, stop, faults, met, untimely>>

\* writeRuntimeState renames over whatever record there is.
WriteState(t) ==
    /\ start[t] = "write"
    /\ state' = t
    /\ start' = [start EXCEPT ![t] = "done"]
    /\ met' = (met \/ \E u \in Starts \ {t} : start[u] \in {"clear", "write"})
    /\ UNCHANGED <<request, claim, stateClaim, up, sup, clean, stop, faults, untimely>>

\* A step of the start throws: a process never becomes ready, the record
\* cannot be written.  Once the topology is known its files are cleaned too.
StartFails(t) ==
    /\ start[t] \in {"runner", "handoff", "write"}
    /\ Fault
    /\ start' = [start EXCEPT ![t] = IF @ = "write" THEN "rollbackAll" ELSE "rollback"]
    /\ UNCHANGED <<files, up, sup, clean, stop, met, untimely>>

\* The catch block: the supervisor is reaped first (a supervisor that is gone
\* makes the rollback fail, so the files stay), then Runner and Core.
Rollback(t) ==
    /\ start[t] \in {"rollback", "rollbackAll"}
    /\ up' = [up EXCEPT ![t] = {}]
    /\ sup' = [sup EXCEPT ![t] = IF @ = "none" THEN "none" ELSE "gone"]
    /\ IF start[t] = "rollbackAll" /\ "supervisor" \in up[t]
         THEN BeginCleaning(t) /\ start' = [start EXCEPT ![t] = "cleaning"]
         ELSE start' = [start EXCEPT ![t] = "failed"] /\ UNCHANGED <<clean, met>>
    /\ UNCHANGED <<files, stop, faults, untimely>>

\* The command is killed; the processes it spawned are detached and stay.
StartKilled(t) ==
    /\ start[t] \notin StartEnded
    /\ Fault
    /\ start' = [start EXCEPT ![t] = "killed"]
    /\ clean' = [clean EXCEPT ![t] = IF start[t] = "cleaning" THEN "done" ELSE @]
    /\ UNCHANGED <<files, up, sup, stop, met, untimely>>

Starting(t) ==
    \/ StartReads(t) \/ ClearState(t) \/ SpawnCore(t) \/ SpawnRunner(t)
    \/ Handoff(t) \/ WriteState(t) \/ Rollback(t)

-----------------------------------------------------------------------------
(* The detached supervisor.                                                *)

\* claimMatchingStopRequest renames the request to its private claim file,
PollClaims(t) ==
    /\ sup[t] = "polling"
    /\ request # NoFile
    /\ claim' = [claim EXCEPT ![t] = request]
    /\ request' = NoFile
    /\ sup' = [sup EXCEPT ![t] = "claimed"]
    /\ UNCHANGED <<state, stateClaim, up, start, clean, stop, faults, met, untimely>>

\* A request that names another topology stops this one.
NamesAny(t) == state = t

\* The record and the request both name this topology.
Names(t) == state = t /\ claim[t] = t

\* A request that does not match is put back for its owner.
PollReturns(t) ==
    /\ sup[t] = "claimed"
    /\ \E inTime \in BOOLEAN :
         LET matches == Names(t) /\ inTime IN
         /\ sup' = [sup EXCEPT ![t] = IF matches THEN "runner" ELSE "polling"]
         /\ untimely' = IF Names(t) /\ ~inTime THEN untimely \cup {t} ELSE untimely
         /\ request' = IF matches THEN request ELSE claim[t]
    /\ claim' = [claim EXCEPT ![t] = NoFile]
    /\ UNCHANGED <<state, stateClaim, up, start, clean, stop, faults, met>>

\* then compares the request and the record with its own topology, and the
\* request's time with a clock that was read before the rename: a request may
\* be too old by then (a poll may come no sooner than the maximum age), or
\* have been stamped after that reading.  The claim is removed whether it
\* matches or not.
PollDecides(t) ==
    /\ sup[t] = "claimed"
    /\ \E inTime \in BOOLEAN :
         /\ sup' = [sup EXCEPT ![t] = IF Names(t) /\ inTime THEN "runner" ELSE "polling"]
         /\ untimely' = IF Names(t) /\ ~inTime THEN untimely \cup {t} ELSE untimely
    /\ claim' = [claim EXCEPT ![t] = NoFile]
    /\ UNCHANGED <<state, request, stateClaim, up, start, clean, stop, faults, met>>

\* rollback stops the Runner and then the Core.  PidProcessUnit refuses a
\* process that is already gone; the other one is stopped all the same, but
\* the supervisor then exits without touching the files.
StopRunner(t) ==
    /\ sup[t] = "runner"
    /\ up' = [up EXCEPT ![t] = @ \ {"runner"}]
    /\ sup' = [sup EXCEPT ![t] = IF "runner" \in up[t] THEN "core" ELSE "coreThenFail"]
    /\ UNCHANGED <<files, start, clean, stop, faults, met, untimely>>

StopCore(t) ==
    /\ sup[t] \in {"core", "coreThenFail"}
    /\ IF sup[t] = "core" /\ "core" \in up[t]
         THEN /\ up' = [up EXCEPT ![t] = @ \ {"core"}]
              /\ sup' = [sup EXCEPT ![t] = "replay"]
         ELSE /\ up' = [up EXCEPT ![t] = @ \ {"core", "supervisor"}]
              /\ sup' = [sup EXCEPT ![t] = "gone"]
    /\ UNCHANGED <<files, start, clean, stop, faults, met, untimely>>

\* removeMatchingReplay claims a request that has come in the meantime,
ReplayClaims(t) ==
    /\ sup[t] = "replay"
    /\ IF request # NoFile
         THEN /\ claim' = [claim EXCEPT ![t] = request]
              /\ request' = NoFile
              /\ sup' = [sup EXCEPT ![t] = "replayed"]
              /\ UNCHANGED <<clean, met>>
         ELSE /\ sup' = [sup EXCEPT ![t] = "cleaning"]
              /\ BeginCleaning(t)
              /\ UNCHANGED <<claim, request>>
    /\ UNCHANGED <<state, stateClaim, up, start, stop, faults, untimely>>

\* and renames it back, over a newer one, when it names another topology.
ReplayDecides(t) ==
    /\ sup[t] = "replayed"
    /\ request' = IF claim[t] = t THEN request ELSE claim[t]
    /\ claim' = [claim EXCEPT ![t] = NoFile]
    /\ sup' = [sup EXCEPT ![t] = "cleaning"]
    /\ BeginCleaning(t)
    /\ UNCHANGED <<state, stateClaim, up, start, stop, faults, untimely>>

Supervising(t) ==
    \/ PollClaims(t) \/ PollDecides(t) \/ StopRunner(t) \/ StopCore(t)
    \/ ReplayClaims(t) \/ ReplayDecides(t)

-----------------------------------------------------------------------------
(* clearOwnedTopologyFiles, run by the supervisor or by a failed start.    *)

\* The request is read, and removed only if it is this topology's own,
CleanReads(t) ==
    /\ clean[t] = "read"
    /\ clean' = [clean EXCEPT ![t] = IF request = t THEN "remove" ELSE "state"]
    /\ UNCHANGED <<files, up, start, sup, stop, faults, met, untimely>>

\* but by path: what is removed is what is there by then.
CleanRemoves(t) ==
    /\ clean[t] = "remove"
    /\ request' = NoFile
    /\ clean' = [clean EXCEPT ![t] = "state"]
    /\ UNCHANGED <<state, claim, stateClaim, up, start, sup, stop, faults, met, untimely>>

\* The cleaner is done, and with it the start command or the supervisor.
Cleaned(t) ==
    /\ clean' = [clean EXCEPT ![t] = "done"]
    /\ IF start[t] = "cleaning"
         THEN start' = [start EXCEPT ![t] = "failed"] /\ UNCHANGED <<sup, up>>
         ELSE /\ sup' = [sup EXCEPT ![t] = "gone"]
              /\ up' = [up EXCEPT ![t] = {}]
              /\ UNCHANGED start

\* The record is renamed away before it is looked at.
CleanClaims(t) ==
    /\ clean[t] = "state"
    /\ IF state = NoFile
         THEN Cleaned(t) /\ UNCHANGED <<state, stateClaim>>
         ELSE /\ stateClaim' = [stateClaim EXCEPT ![t] = state]
              /\ state' = NoFile
              /\ clean' = [clean EXCEPT ![t] = "restore"]
              /\ UNCHANGED <<start, sup, up>>
    /\ UNCHANGED <<request, claim, stop, faults, met, untimely>>

\* The claimed record is dropped without a look at whose it is.
NotRestored(t) == state

\* What clearOwnedTopologyFiles leaves as the record: its own is dropped;
\* another one is linked back unless there is a newer one.
Restored(t) ==
    IF stateClaim[t] # t /\ state = NoFile THEN stateClaim[t] ELSE state

CleanRestores(t) ==
    /\ clean[t] = "restore"
    /\ state' = Restored(t)
    /\ stateClaim' = [stateClaim EXCEPT ![t] = NoFile]
    /\ Cleaned(t)
    /\ UNCHANGED <<request, claim, stop, faults, met, untimely>>

Cleaning(t) == CleanReads(t) \/ CleanRemoves(t) \/ CleanClaims(t) \/ CleanRestores(t)

-----------------------------------------------------------------------------
(* The stop command.                                                       *)

StopTo(s, pc) == stop' = [stop EXCEPT ![s].pc = pc]

\* commandStop reads the record.
StopReads(s) ==
    /\ stop[s].pc = "idle"
    /\ stop' = [stop EXCEPT ![s].target = state,
                            ![s].pc = IF state = NoFile THEN "notRunning"
                                      ELSE IF "supervisor" \in up[state] THEN "publish"
                                      ELSE "unavailable"]
    /\ UNCHANGED <<files, up, start, sup, clean, faults, met, untimely>>

\* publishStopRequest links its file to the canonical name,
Publish(s) ==
    /\ stop[s].pc = "publish"
    /\ IF request = NoFile
         THEN request' = stop[s].target /\ StopTo(s, "waiting")
         ELSE UNCHANGED request /\ StopTo(s, "displace")
    /\ UNCHANGED <<state, claim, stateClaim, up, start, sup, clean, faults, met, untimely>>

\* or, when one is there, renames that one away to see whose it is,
Displace(s) ==
    /\ stop[s].pc = "displace"
    /\ IF request # NoFile
         THEN /\ stop' = [stop EXCEPT ![s].held = request, ![s].pc = "putBack"]
              /\ request' = NoFile
         ELSE UNCHANGED request /\ StopTo(s, "publish")
    /\ UNCHANGED <<state, claim, stateClaim, up, start, sup, clean, faults, met, untimely>>

\* (A displaced request is not linked back.)
PutBackNothing(s) ==
    /\ stop[s].pc = "putBack"
    /\ stop' = [stop EXCEPT ![s].held = NoFile,
                            ![s].pc = IF stop[s].held = stop[s].target
                                        THEN "waiting" ELSE "invalid"]
    /\ UNCHANGED <<files, up, start, sup, clean, faults, met, untimely>>

\* links it back unless there is another by now, and gives up if it named a
\* different topology;
PutBack(s) ==
    /\ stop[s].pc = "putBack"
    /\ request' = IF request = NoFile THEN stop[s].held ELSE request
    /\ stop' = [stop EXCEPT ![s].held = NoFile,
                            ![s].pc = IF stop[s].held = stop[s].target
                                        THEN "confirm" ELSE "invalid"]
    /\ UNCHANGED <<state, claim, stateClaim, up, start, sup, clean, faults, met, untimely>>

\* otherwise it must still be there, or everything starts again.
Confirm(s) ==
    /\ stop[s].pc = "confirm"
    /\ StopTo(s, IF request = stop[s].target THEN "waiting" ELSE "publish")
    /\ UNCHANGED <<files, up, start, sup, clean, faults, met, untimely>>

\* The wait loop reads the record,
WaitReads(s) ==
    /\ stop[s].pc = "waiting"
    /\ stop' = [stop EXCEPT ![s].seen = state, ![s].pc = "check"]
    /\ UNCHANGED <<files, up, start, sup, clean, faults, met, untimely>>

\* and then looks at the processes.
WaitOutcome(s) ==
    LET t == stop[s].target IN
    IF stop[s].seen = NoFile /\ up[t] = {} THEN "stopped"
    ELSE IF stop[s].seen \notin {NoFile, t} THEN "changed"
    ELSE IF "supervisor" \notin up[t] THEN "unavailable"
    ELSE "waiting"

WaitChecks(s) ==
    /\ stop[s].pc = "check"
    /\ StopTo(s, WaitOutcome(s))
    /\ UNCHANGED <<files, up, start, sup, clean, faults, met, untimely>>

\* stopRequestWaitTimeoutMs passes.
WaitTimesOut(s) ==
    /\ stop[s].pc = "waiting"
    /\ StopTo(s, "timedOut")
    /\ UNCHANGED <<files, up, start, sup, clean, faults, met, untimely>>

Stopping(s) ==
    \/ StopReads(s) \/ Publish(s) \/ Displace(s) \/ PutBack(s) \/ Confirm(s)
    \/ WaitReads(s) \/ WaitChecks(s)

-----------------------------------------------------------------------------
(* Core, Runner or the supervisor dies; private claim files are left over. *)
Crash(t, p) ==
    /\ p \in up[t]
    /\ Fault
    /\ up' = [up EXCEPT ![t] = @ \ {p}]
    /\ IF p = "supervisor"
         THEN /\ sup' = [sup EXCEPT ![t] = "gone"]
              /\ clean' = [clean EXCEPT ![t] = IF sup[t] = "cleaning" THEN "done" ELSE @]
         ELSE UNCHANGED <<sup, clean>>
    /\ UNCHANGED <<files, start, stop, met, untimely>>

Next ==
    \/ \E t \in Starts :
         \/ Starting(t)
         \/ Supervising(t)
         \/ Cleaning(t)
         \/ StartFails(t)
         \/ StartKilled(t)
         \/ \E p \in Parts : Crash(t, p)
    \/ \E s \in Stops : Stopping(s) \/ WaitTimesOut(s)

Spec == Init /\ [][Next]_vars

\* A command that has begun and a supervisor that is alive keep going: each
\* is an event loop with nothing to wait for but timers and files.  A poll on
\* a timer does not miss for ever a request that is there again and again.
FairSpec ==
    /\ Spec
    /\ \A t \in Starts : /\ WF_vars(start[t] # "idle" /\ Starting(t))
                         /\ WF_vars(Supervising(t))
                         /\ SF_vars(PollClaims(t))
                         /\ WF_vars(Cleaning(t))
    /\ \A s \in Stops : WF_vars(stop[s].pc # "idle" /\ Stopping(s))

-----------------------------------------------------------------------------
(* Properties.                                                             *)

ShuttingDown(t) ==
    sup[t] \in {"runner", "core", "coreThenFail", "replay", "replayed", "cleaning"}

\* A supervisor shuts its topology down only for a stop command that read that
\* very topology from the record: a request that was displaced, put back,
\* renamed over or left behind by an earlier topology never stops a new one.
OnlyOwnStopped ==
    \A t \in Starts : ShuttingDown(t) => \E s \in Stops : stop[s].target = t

\* A topology that was started and is complete is on record, or its record is
\* in the claim file of a cleaner: `status`, `stop` and the next `start` find
\* it again when the cleaner has linked it back.  The exceptions (met): two
\* cleaners at work at the same time, where the one that holds the record of a
\* whole topology drops it if the other has linked back that of an old one;
\* and a start that records its topology while another start is about to
\* remove or to write the record.
RecordedWhileUp ==
    ~met =>
        \A t \in Starts : start[t] = "done" /\ up[t] = Parts =>
            state = t \/ \E u \in Starts : stateClaim[u] = t

\* As long as nothing has crashed, a published stop request brings its whole
\* topology down, however many stop commands displace each other's requests.
\* The exceptions: a request for that topology was dropped for its time; the
\* supervisor of the previous topology is still cleaning up, and while it has
\* the record in its hands the request is taken for a stale one, or it removes
\* the request by its path; two starts met over the record.
StopTakesEffect ==
    \A t \in Starts :
        request = t /\ state = t /\ [](\A u \in Starts \ {t} : ~ShuttingDown(u))
            ~> up[t] = {} \/ faults > 0 \/ met \/ t \in untimely

\* A request left behind by a topology that is gone does not stay to make
\* later stop commands fail: a supervisor that keeps polling removes it for
\* good.
LeftoverGoes ==
    \A t, u \in Starts : <>[]~(request = u /\ up[u] = {} /\ sup[t] = "polling")

\* Once a start has succeeded, its supervisor and Core are on record as long
\* as they run: `stop` does not say "not running" of them.
LiveIsRecorded ==
    \A t \in Starts :
        /\ start[t] = "done" /\ sup[t] = "polling" /\ "core" \in up[t]
        /\ \A u \in Starts : start[u] \in StartEnded
        => state = t \/ \E u \in Starts : stateClaim[u] = t
===============================================================================

--------------------------- MODULE LauncherProofs ---------------------------
(***************************************************************************)
(* Launcher, for every number of start and stop commands and of faults: a  *)
(* supervisor stops only for a command that meant its topology, and as     *)
(* long as no two processes have met over the record, a complete topology  *)
(* keeps it.                                                               *)
(***************************************************************************)
EXTENDS Launcher, TLAPS

StopType == [pc : {"idle", "notRunning", "publish", "unavailable", "displace", "putBack", "confirm",
                   "invalid", "waiting", "check", "stopped", "changed", "timedOut"},
             target : FileOrTopology, held : FileOrTopology, seen : FileOrTopology]

FilesOK == /\ state \in FileOrTopology /\ request \in FileOrTopology
           /\ claim \in [Starts -> FileOrTopology] /\ stateClaim \in [Starts -> FileOrTopology]

ProcessesOK ==
  /\ up \in [Starts -> SUBSET Parts]
  /\ start \in [Starts -> StartEnded \cup {"clear", "core", "runner", "handoff", "write",
                                           "rollback", "rollbackAll", "cleaning"}]
  /\ sup \in [Starts -> {"none", "polling", "claimed", "runner", "core", "coreThenFail",
                         "replay", "replayed", "cleaning", "gone"}]
  /\ clean \in [Starts -> {"no", "read", "remove", "state", "restore", "done"}]

(* The states of the files, of the commands and of the processes.          *)
TypeOK == FilesOK /\ ProcessesOK /\ stop \in [Stops -> StopType]

Asked(t) == \E s \in Stops : stop[s].target = t

(* A request, wherever it was renamed to, names a topology that a stop     *)
(* command has read from the record.                                       *)
RequestsAsked ==
  /\ request # NoFile => Asked(request)
  /\ \A t \in Starts : claim[t] # NoFile => Asked(claim[t])
  /\ \A s \in Stops : stop[s].held # NoFile => Asked(stop[s].held)
  /\ \A s \in Stops : stop[s].pc = "idle" => stop[s].target = NoFile

StopInv == TypeOK /\ RequestsAsked /\ OnlyOwnStopped
-----------------------------------------------------------------------------
(* A start command goes on.                                                *)
LEMMA StartingType ==
  ASSUME TypeOK, NEW t \in Starts, Starting(t) \/ StartFails(t) \/ StartKilled(t)
  PROVE  TypeOK'
<1>1. FilesOK'
  BY DEF TypeOK, FilesOK, Starting, StartReads, ClearState, SpawnCore, SpawnRunner, Handoff,
         WriteState, Rollback, BeginCleaning, StartFails, StartKilled, files, FileOrTopology
<1>2. ProcessesOK'
  BY DEF TypeOK, ProcessesOK, Starting, StartReads, ClearState, SpawnCore, SpawnRunner, Handoff,
         WriteState, Rollback, BeginCleaning, StartFails, StartKilled, Parts, StartEnded
<1>3. UNCHANGED stop
  BY DEF Starting, StartReads, ClearState, SpawnCore, SpawnRunner, Handoff,
         WriteState, Rollback, BeginCleaning, StartFails, StartKilled
<1> QED
  BY <1>1, <1>2, <1>3 DEF TypeOK

(* A supervisor or a cleaner goes on, or a process dies.                   *)
LEMMA SupervisingType ==
  ASSUME TypeOK, NEW t \in Starts,
         Supervising(t) \/ Cleaning(t) \/ \E p \in Parts : Crash(t, p)
  PROVE  TypeOK'
<1>1. FilesOK'
  BY DEF TypeOK, FilesOK, Supervising, PollClaims, PollDecides, StopRunner, StopCore,
         ReplayClaims, ReplayDecides, BeginCleaning, Cleaning, CleanReads, CleanRemoves, CleanClaims,
         CleanRestores, Restored, Crash, files, FileOrTopology
<1>2. ProcessesOK'
  BY DEF TypeOK, ProcessesOK, Supervising, PollClaims, PollDecides, StopRunner, StopCore,
         ReplayClaims, ReplayDecides, BeginCleaning, Cleaning, CleanReads, CleanRemoves, CleanClaims,
         CleanRestores, Cleaned, Crash, StartEnded
<1>3. UNCHANGED stop
  BY DEF Supervising, PollClaims, PollDecides, StopRunner, StopCore, ReplayClaims, ReplayDecides,
         BeginCleaning, Cleaning, CleanReads, CleanRemoves, CleanClaims, CleanRestores, Crash
<1> QED
  BY <1>1, <1>2, <1>3 DEF TypeOK

(* A stop command goes on; its target stays once it is read.               *)
LEMMA StoppingType ==
  ASSUME TypeOK, NEW s \in Stops, Stopping(s) \/ WaitTimesOut(s)
  PROVE  TypeOK'
<1>1. FilesOK'
  BY DEF TypeOK, FilesOK, StopType, Stopping, WaitTimesOut, StopReads, Publish, Displace, PutBack,
         Confirm, WaitReads, WaitChecks, files
<1>2. ProcessesOK'
  BY DEF TypeOK, ProcessesOK, Stopping, WaitTimesOut, StopReads, Publish, Displace, PutBack,
         Confirm, WaitReads, WaitChecks
<1>3. stop' \in [Stops -> StopType]
  BY DEF TypeOK, FilesOK, StopType, Stopping, WaitTimesOut, StopReads, Publish, Displace, PutBack,
         Confirm, WaitReads, WaitChecks, WaitOutcome, StopTo, FileOrTopology
<1> QED
  BY <1>1, <1>2, <1>3 DEF TypeOK

-----------------------------------------------------------------------------
(* Requests change hands, and a supervisor acts on one only if it is its   *)
(* own.                                                                    *)
LEMMA OthersKeepRequests ==
  ASSUME StopInv, NEW t \in Starts,
         \/ Starting(t) \/ StartFails(t) \/ StartKilled(t)
         \/ Supervising(t) \/ Cleaning(t) \/ \E p \in Parts : Crash(t, p)
  PROVE  RequestsAsked' /\ OnlyOwnStopped'
<1>0. UNCHANGED stop
  BY DEF Starting, StartReads, ClearState, SpawnCore, SpawnRunner, Handoff, WriteState, Rollback,
         BeginCleaning, StartFails, StartKilled, Supervising, PollClaims, PollDecides, StopRunner, StopCore,
         ReplayClaims, ReplayDecides, BeginCleaning, Cleaning, CleanReads, CleanRemoves, CleanClaims,
         CleanRestores, Crash
<1>1. NoFile \notin Starts
  BY LauncherAssumption
<1>2. CASE UNCHANGED <<request, claim>> /\ \A u \in Starts : ShuttingDown(u)' => ShuttingDown(u)
  BY <1>0, <1>2 DEF StopInv, RequestsAsked, OnlyOwnStopped, Asked
<1>3. CASE Starting(t) \/ StartFails(t) \/ StartKilled(t)
  <2>1. /\ UNCHANGED <<request, claim>>
        /\ sup' \in {sup, [sup EXCEPT ![t] = "polling"], [sup EXCEPT ![t] = "gone"],
                     [sup EXCEPT ![t] = "none"]}
    BY <1>3 DEF Starting, StartReads, ClearState, SpawnCore, SpawnRunner, Handoff, WriteState,
                Rollback, BeginCleaning, StartFails, StartKilled, files
  <2> QED
    BY <1>2, <2>1 DEF ShuttingDown, StopInv, TypeOK, ProcessesOK
<1>4. CASE PollClaims(t)
  BY <1>0, <1>4 DEF PollClaims, StopInv, TypeOK, FilesOK, ProcessesOK, RequestsAsked,
                    OnlyOwnStopped, ShuttingDown, Asked
<1>5. CASE PollDecides(t)
  BY <1>0, <1>1, <1>5 DEF PollDecides, Names, StopInv, TypeOK, FilesOK, ProcessesOK,
                          RequestsAsked, OnlyOwnStopped, ShuttingDown, Asked
<1>6. CASE StopRunner(t) \/ StopCore(t)
  BY <1>2, <1>6 DEF StopRunner, StopCore, StopInv, TypeOK, ProcessesOK, ShuttingDown, files
<1>7. CASE ReplayClaims(t) \/ ReplayDecides(t)
  BY <1>0, <1>7 DEF ReplayClaims, ReplayDecides, BeginCleaning, StopInv, TypeOK, FilesOK, ProcessesOK,
                    RequestsAsked, OnlyOwnStopped, ShuttingDown, Asked
<1>8. CASE Cleaning(t)
  <2>1. /\ UNCHANGED claim /\ request' \in {request, NoFile}
        /\ sup' \in {sup, [sup EXCEPT ![t] = "gone"]}
    BY <1>8 DEF Cleaning, CleanReads, CleanRemoves, CleanClaims, CleanRestores, Cleaned, files
  <2> QED
    BY <1>0, <2>1 DEF StopInv, TypeOK, ProcessesOK, RequestsAsked, OnlyOwnStopped, ShuttingDown, Asked
<1>9. CASE \E p \in Parts : Crash(t, p)
  BY <1>2, <1>9 DEF Crash, StopInv, TypeOK, ProcessesOK, ShuttingDown, files
<1> QED
  BY <1>3, <1>4, <1>5, <1>6, <1>7, <1>8, <1>9 DEF Supervising

LEMMA StoppingKeepsRequests ==
  ASSUME StopInv, NEW s \in Stops, Stopping(s) \/ WaitTimesOut(s)
  PROVE  RequestsAsked' /\ OnlyOwnStopped'
<1>0. UNCHANGED <<claim, sup>>
  BY DEF Stopping, WaitTimesOut, StopReads, Publish, Displace, PutBack, Confirm, WaitReads,
         WaitChecks, files
<1>1. NoFile \notin Starts
  BY LauncherAssumption
<1>2. \A r \in Stops : stop[r].target # NoFile => stop'[r].target = stop[r].target
  BY DEF StopInv, RequestsAsked, TypeOK, StopType, Stopping, WaitTimesOut, StopReads, Publish,
         Displace, PutBack, Confirm, WaitReads, WaitChecks, StopTo
<1>3. \A t : t # NoFile /\ Asked(t) => \E r \in Stops : stop'[r].target = t
  BY <1>2 DEF Asked
<1>4. OnlyOwnStopped'
  BY <1>0, <1>1, <1>3 DEF StopInv, OnlyOwnStopped, ShuttingDown, Asked
<1>5. \A r \in Stops : stop'[r].pc = "idle" => stop'[r].target = NoFile
  BY DEF StopInv, RequestsAsked, TypeOK, StopType, Stopping, WaitTimesOut, StopReads, Publish,
         Displace, PutBack, Confirm, WaitReads, WaitChecks, WaitOutcome, StopTo
<1>6. \A r \in Stops : stop'[r].held = stop[r].held \/ stop'[r].held \in {request, NoFile}
  BY DEF StopInv, TypeOK, StopType, Stopping, WaitTimesOut, StopReads, Publish,
         Displace, PutBack, Confirm, WaitReads, WaitChecks, StopTo
<1>7. request' \in {request, NoFile, stop[s].target, stop[s].held}
  BY DEF Stopping, WaitTimesOut, StopReads, Publish, Displace, PutBack, Confirm, WaitReads,
         WaitChecks, files
<1>8. RequestsAsked'
  <2>1. Asked(stop[s].target)
    BY DEF Asked
  <2>2. request' # NoFile => \E q \in Stops : stop'[q].target = request'
    BY <1>3, <1>7, <2>1 DEF StopInv, RequestsAsked
  <2>3. \A r \in Stops : stop'[r].held # NoFile => \E q \in Stops : stop'[q].target = stop'[r].held
    BY <1>3, <1>6 DEF StopInv, RequestsAsked
  <2>4. \A t \in Starts : claim'[t] # NoFile => \E q \in Stops : stop'[q].target = claim'[t]
    BY <1>0, <1>3 DEF StopInv, RequestsAsked
  <2> QED
    BY <1>5, <2>2, <2>3, <2>4 DEF RequestsAsked, Asked
<1> QED
  BY <1>4, <1>8

LEMMA StopStepKeeps ==
  ASSUME StopInv, [Next]_vars
  PROVE  StopInv'
<1>1. ASSUME NEW t \in Starts,
             \/ Starting(t) \/ StartFails(t) \/ StartKilled(t)
             \/ Supervising(t) \/ Cleaning(t) \/ \E p \in Parts : Crash(t, p)
      PROVE  StopInv'
  BY <1>1, StartingType, SupervisingType, OthersKeepRequests DEF StopInv
<1>2. ASSUME NEW s \in Stops, Stopping(s) \/ WaitTimesOut(s)
      PROVE  StopInv'
  BY <1>2, StoppingType, StoppingKeepsRequests DEF StopInv
<1>3. CASE UNCHANGED vars
  BY <1>3 DEF vars, files, StopInv, TypeOK, FilesOK, ProcessesOK, RequestsAsked, Asked,
              OnlyOwnStopped, ShuttingDown
<1> QED
  BY <1>1, <1>2, <1>3 DEF Next

LEMMA StopInvHolds == Spec => []StopInv
<1>1. Init => StopInv
  BY LauncherAssumption
     DEF Init, NewStop, StopInv, TypeOK, FilesOK, ProcessesOK, StopType, FileOrTopology, StartEnded,
         RequestsAsked, OnlyOwnStopped, ShuttingDown
<1> QED
  BY <1>1, StopStepKeeps, PTL DEF Spec

(* A supervisor shuts down only what a stop command asked for: a request   *)
(* that was displaced, put back, renamed over or left behind by an earlier *)
(* topology never stops another one (claimMatchingStopRequest,             *)
(* publishStopRequest).                                                    *)
THEOREM NobodyElseStopped == Spec => []OnlyOwnStopped
<1>1. StopInv => OnlyOwnStopped
  BY DEF StopInv
<1> QED
  BY StopInvHolds, <1>1, PTL

-----------------------------------------------------------------------------
(* The ports belong to one Core at a time ...                              *)
OneCore == \A t, u \in Starts : "core" \in up[t] /\ "core" \in up[u] => t = u

(* ... and a start that is about to write its record writes over that of   *)
(* no topology with a Core.                                                *)
WriteAlone ==
  ~met => \A t, u \in Starts : start[t] = "write" /\ start[u] = "done" => "core" \notin up[u]

(* Nothing supervises a topology before its handoff, nothing shuts down or *)
(* cleans up one that has not been recorded, and what is cleaned up has    *)
(* lost its Core.                                                          *)
NotYetUp ==
  \A t \in Starts : start[t] \in {"idle", "clear", "core", "runner", "handoff"} =>
                      sup[t] = "none" /\ "supervisor" \notin up[t]
NotYetRecorded ==
  \A t \in Starts :
    start[t] \in {"idle", "clear", "core", "runner", "handoff", "write", "rollback", "rollbackAll"} =>
      /\ clean[t] = "no" /\ ~ShuttingDown(t)
      /\ state # t /\ \A u \in Starts : stateClaim[u] # t
CleanedIsDown ==
  \A t \in Starts :
    /\ clean[t] # "no" \/ start[t] = "cleaning" \/ sup[t] \in {"replay", "replayed", "cleaning"} =>
         "core" \notin up[t]
    /\ clean[t] # "no" \/ start[t] = "cleaning" => sup[t] \in {"none", "cleaning", "gone"}

(* Cleaners that have not met come one after the other.                    *)
OneCleaner == ~met => \A t, u \in Starts : t \in Cleaners /\ u \in Cleaners => t = u

Whole(t) == start[t] = "done" /\ up[t] = Parts

(* The record of t is in the claim file that a killed cleaner left over.   *)
LeftOver(t) == \E u \in Starts \ {t} : stateClaim[u] = t /\ clean[u] = "done"

(* The record of t is in the hands of a cleaner, and no other took its     *)
(* place.                                                                  *)
InHands(t) == /\ state = NoFile
              /\ \E u \in Starts \ {t} : stateClaim[u] = t /\ clean[u] = "restore"

(* A start that is about to remove the record removes no whole topology's. *)
ClearingIsSafe ==
  ~met => \A t, u \in Starts : start[u] = "clear" /\ Whole(t) => LeftOver(t)

RecordKept == ~met => \A t \in Starts : Whole(t) => state = t \/ InHands(t) \/ LeftOver(t)

RecordInv == /\ OneCore /\ WriteAlone /\ NotYetUp /\ NotYetRecorded /\ CleanedIsDown
             /\ OneCleaner /\ ClearingIsSafe /\ RecordKept

(* A step that completes no topology, moves no record and starts no        *)
(* removal of one.                                                         *)
LEMMA RecordFrame ==
  ASSUME ClearingIsSafe, RecordKept, ~met' => ~met,
         \A t \in Starts : Whole(t)' => Whole(t),
         \A t \in Starts : start'[t] = "clear" => start[t] = "clear",
         UNCHANGED <<state, stateClaim>>,
         \A u \in Starts : /\ clean[u] = "done" => clean'[u] = "done"
                           /\ clean[u] = "restore" => clean'[u] \in {"restore", "done"}
  PROVE  ClearingIsSafe' /\ RecordKept'
<1>1. \A t \in Starts : LeftOver(t) => LeftOver(t)'
  BY DEF LeftOver
<1>2. \A t \in Starts : InHands(t) => InHands(t)' \/ LeftOver(t)'
  BY DEF InHands, LeftOver
<1> QED
  BY <1>1, <1>2 DEF ClearingIsSafe, RecordKept

(* A cleaner begins alone, or they have met.                               *)
LEMMA CleanersMeet ==
  ASSUME OneCleaner, NEW t \in Starts,
         \/ (~met' => ~met) /\ Cleaners' \subseteq Cleaners
         \/ clean \in [Starts -> {"no", "read", "remove", "state", "restore", "done"}] /\ BeginCleaning(t)
  PROVE  (~met' => ~met) /\ OneCleaner'
<1>1. CASE (~met' => ~met) /\ Cleaners' \subseteq Cleaners
  BY <1>1 DEF OneCleaner
<1>2. CASE /\ clean \in [Starts -> {"no", "read", "remove", "state", "restore", "done"}]
           /\ BeginCleaning(t)
  <2>1. \A u \in Starts : u \in Cleaners' => u = t \/ u \in Cleaners
    BY <1>2 DEF BeginCleaning, Cleaners
  <2>2. ~met' => ~met /\ \A u \in Cleaners : u = t
    BY <1>2 DEF BeginCleaning
  <2> QED
    BY <2>1, <2>2 DEF OneCleaner
<1> QED
  BY <1>1, <1>2

LEMMA StartingMeets ==
  ASSUME TypeOK, RecordInv, NEW t \in Starts,
         Starting(t) \/ StartFails(t) \/ StartKilled(t)
  PROVE  (~met' => ~met) /\ OneCleaner'
<1>1. (UNCHANGED clean /\ (~met' => ~met)) \/ BeginCleaning(t)
        \/ (UNCHANGED met /\ clean' = [clean EXCEPT ![t] = "done"])
  BY DEF Starting, StartReads, ClearState, SpawnCore, SpawnRunner, Handoff, WriteState, Rollback,
         StartFails, StartKilled, TypeOK, ProcessesOK
<1>2. ((~met' => ~met) /\ Cleaners' \subseteq Cleaners) \/ BeginCleaning(t)
  BY <1>1 DEF Cleaners, TypeOK, ProcessesOK
<1> QED
  BY <1>2, CleanersMeet DEF RecordInv, TypeOK, ProcessesOK

LEMMA SupervisingMeets ==
  ASSUME TypeOK, RecordInv, NEW t \in Starts,
         Supervising(t) \/ Cleaning(t) \/ \E p \in Parts : Crash(t, p)
  PROVE  (~met' => ~met) /\ OneCleaner'
<1>1. \/ UNCHANGED <<clean, met>>
      \/ BeginCleaning(t)
      \/ /\ UNCHANGED met
         /\ \E c \in {"remove", "state", "restore", "done"} : clean' = [clean EXCEPT ![t] = c]
         /\ clean[t] \notin {"no", "done"} \/ clean'[t] = "done"
  BY DEF Supervising, PollClaims, PollDecides, StopRunner, StopCore, ReplayClaims, ReplayDecides,
         Cleaning, CleanReads, CleanRemoves, CleanClaims, CleanRestores, Cleaned, Crash,
         TypeOK, ProcessesOK
<1>2. (UNCHANGED met /\ Cleaners' \subseteq Cleaners) \/ BeginCleaning(t)
  BY <1>1 DEF Cleaners, TypeOK, ProcessesOK
<1> QED
  BY <1>2, CleanersMeet DEF RecordInv, TypeOK, ProcessesOK

(* A stop command only reads.                                              *)
LEMMA StoppingKeepsRecord ==
  ASSUME RecordInv, NEW s \in Stops, Stopping(s) \/ WaitTimesOut(s)
  PROVE  RecordInv'
<1>1. UNCHANGED <<state, claim, stateClaim, up, start, sup, clean, met>>
  BY DEF Stopping, WaitTimesOut, StopReads, Publish, Displace, PutBack, Confirm, WaitReads,
         WaitChecks, files
<1> QED
  BY <1>1, RecordFrame DEF RecordInv, OneCore, WriteAlone, NotYetUp, NotYetRecorded, CleanedIsDown,
                           OneCleaner, Cleaners, Whole, ShuttingDown

(* The start command: the ports keep a second Core away, ...               *)
LEMMA StartingKeepsProcesses ==
  ASSUME TypeOK, RecordInv, NEW t \in Starts,
         Starting(t) \/ StartFails(t) \/ StartKilled(t)
  PROVE  OneCore' /\ WriteAlone' /\ NotYetUp' /\ NotYetRecorded' /\ CleanedIsDown'
<1>1. OneCore'
  BY DEF Starting, StartReads, ClearState, SpawnCore, SpawnRunner, Handoff, WriteState, Rollback,
         BeginCleaning, StartFails, StartKilled, TypeOK, ProcessesOK, RecordInv, OneCore, PortsTaken,
         Parts
<1>2. WriteAlone'
  <2> SUFFICES ASSUME ~met', NEW v \in Starts, NEW u \in Starts,
                      start'[v] = "write", start'[u] = "done"
               PROVE  "core" \notin up'[u]
    BY DEF WriteAlone
  <2>1. ~met
    BY StartingMeets
  <2>2. \A w \in Starts \ {t} : start'[w] = start[w] /\ up'[w] = up[w]
    BY DEF Starting, StartReads, ClearState, SpawnCore, SpawnRunner, Handoff, WriteState, Rollback,
           BeginCleaning, StartFails, StartKilled, TypeOK, ProcessesOK
  <2>3. CASE v = t /\ start[t] # "write"
    <3>1. "core" \in up'[t]
      BY <2>3 DEF Starting, StartReads, ClearState, SpawnCore, SpawnRunner, Handoff, WriteState,
             Rollback, BeginCleaning, StartFails, StartKilled, TypeOK, ProcessesOK, Parts
    <3> QED
      BY <1>1, <2>3, <3>1 DEF OneCore
  <2>4. CASE u = t /\ v # t
    BY <2>2, <2>4 DEF Starting, StartReads, ClearState, SpawnCore, SpawnRunner, Handoff, WriteState,
             Rollback, BeginCleaning, StartFails, StartKilled, StartEnded, TypeOK, ProcessesOK
  <2>5. CASE (v = t => start[t] = "write") /\ u # t
    BY <2>1, <2>2, <2>5 DEF RecordInv, WriteAlone
  <2> QED
    BY <2>3, <2>4, <2>5
<1>3. NotYetUp'
  BY DEF Starting, StartReads, ClearState, SpawnCore, SpawnRunner, Handoff, WriteState, Rollback,
         BeginCleaning, StartFails, StartKilled, TypeOK, ProcessesOK, RecordInv, NotYetUp
<1>4. CleanedIsDown'
  BY DEF Starting, StartReads, ClearState, SpawnCore, SpawnRunner, Handoff, WriteState, Rollback,
         BeginCleaning, StartFails, StartKilled, TypeOK, ProcessesOK, RecordInv, NotYetUp, NotYetRecorded,
         CleanedIsDown
<1>5. NotYetRecorded'
  <2>1. NoFile # t /\ UNCHANGED stateClaim
    BY LauncherAssumption DEF Starting, StartReads, ClearState, SpawnCore, SpawnRunner, Handoff,
       WriteState, Rollback, BeginCleaning, StartFails, StartKilled, files
  <2>2. \A u \in Starts \ {t} : UNCHANGED <<start[u], sup[u], clean[u]>>
    BY DEF Starting, StartReads, ClearState, SpawnCore, SpawnRunner, Handoff, WriteState, Rollback,
           BeginCleaning, StartFails, StartKilled, TypeOK, ProcessesOK
  <2>3. state' \in {state, NoFile, t}
    BY DEF Starting, StartReads, ClearState, SpawnCore, SpawnRunner, Handoff, WriteState, Rollback,
           BeginCleaning, StartFails, StartKilled, files
  <2>4. NoFile \notin Starts
    BY LauncherAssumption
  <2>5. start'[t] \in {"idle", "clear", "core", "runner", "handoff", "write", "rollback", "rollbackAll"} =>
          /\ start[t] \in {"idle", "clear", "core", "runner", "handoff", "write", "rollback", "rollbackAll"}
          /\ clean'[t] = clean[t] /\ state' \in {state, NoFile} /\ sup'[t] \in {sup[t], "polling"}
    BY DEF Starting, StartReads, ClearState, SpawnCore, SpawnRunner, Handoff, WriteState, Rollback,
           BeginCleaning, StartFails, StartKilled, TypeOK, ProcessesOK, files
  <2> QED
    BY <2>1, <2>2, <2>3, <2>4, <2>5 DEF RecordInv, NotYetRecorded, ShuttingDown
<1> QED
  BY <1>1, <1>2, <1>3, <1>4, <1>5

(* ... and a supervisor takes its Core down before it cleans up.           *)
LEMMA SupervisingKeepsProcesses ==
  ASSUME TypeOK, RecordInv, NEW t \in Starts,
         Supervising(t) \/ Cleaning(t) \/ \E p \in Parts : Crash(t, p)
  PROVE  OneCore' /\ WriteAlone' /\ NotYetUp' /\ NotYetRecorded' /\ CleanedIsDown'
<1>1. /\ start' = start \/ (start[t] = "cleaning" /\ start' = [start EXCEPT ![t] = "failed"])
      /\ \A u \in Starts : up'[u] \subseteq up[u]
  BY DEF Supervising, PollClaims, PollDecides, StopRunner, StopCore, ReplayClaims, ReplayDecides,
         BeginCleaning, Cleaning, CleanReads, CleanRemoves, CleanClaims, CleanRestores, Cleaned, Crash,
         TypeOK, ProcessesOK
<1>2. OneCore' /\ WriteAlone'
  BY <1>1, SupervisingMeets DEF TypeOK, ProcessesOK, RecordInv, OneCore, WriteAlone, StartEnded
<1>3. NotYetUp'
  BY <1>1 DEF Supervising, PollClaims, PollDecides, StopRunner, StopCore, ReplayClaims, ReplayDecides,
         BeginCleaning, Cleaning, CleanReads, CleanRemoves, CleanClaims, CleanRestores, Cleaned, Crash,
         TypeOK, ProcessesOK, RecordInv, NotYetUp, NotYetRecorded
<1>4. CleanedIsDown'
  BY <1>1 DEF Supervising, PollClaims, PollDecides, StopRunner, StopCore, ReplayClaims, ReplayDecides,
         BeginCleaning, Cleaning, CleanReads, CleanRemoves, CleanClaims, CleanRestores, Cleaned, Crash,
         TypeOK, ProcessesOK, RecordInv, CleanedIsDown
<1>5. NotYetRecorded'
  <2>1. NoFile \notin Starts
    BY LauncherAssumption
  <2>2. \A u \in Starts \ {t} : UNCHANGED <<sup[u], clean[u]>>
    BY DEF Supervising, PollClaims, PollDecides, StopRunner, StopCore, ReplayClaims, ReplayDecides,
           BeginCleaning, Cleaning, CleanReads, CleanRemoves, CleanClaims, CleanRestores, Cleaned, Crash,
           TypeOK, ProcessesOK
  <2>3. state' \in {state, NoFile, stateClaim[t]}
    BY DEF Supervising, PollClaims, PollDecides, StopRunner, StopCore, ReplayClaims, ReplayDecides,
           BeginCleaning, Cleaning, CleanReads, CleanRemoves, CleanClaims, CleanRestores, Restored, Crash, files
  <2>4. \A u \in Starts : stateClaim'[u] \in {stateClaim[u], NoFile, state}
    BY DEF Supervising, PollClaims, PollDecides, StopRunner, StopCore, ReplayClaims, ReplayDecides,
           BeginCleaning, Cleaning, CleanReads, CleanRemoves, CleanClaims, CleanRestores, Crash, files,
           TypeOK, FilesOK
  <2>5. state # t /\ ~ShuttingDown(t) /\ clean[t] = "no" => ~ShuttingDown(t)' /\ clean'[t] = "no"
    BY DEF Supervising, PollClaims, PollDecides, Names, StopRunner, StopCore, ReplayClaims,
           ReplayDecides, BeginCleaning, Cleaning, CleanReads, CleanRemoves, CleanClaims, CleanRestores, Crash,
           TypeOK, ProcessesOK, ShuttingDown
  <2>6. \A u \in Starts : start'[u] = start[u] \/ start'[u] = "failed"
    BY <1>1 DEF TypeOK, ProcessesOK
  <2> QED
    BY <2>1, <2>2, <2>3, <2>4, <2>5, <2>6 DEF RecordInv, NotYetRecorded, ShuttingDown
<1> QED
  BY <1>2, <1>3, <1>4, <1>5

(* The record, while a start command goes on.                              *)
LEMMA StartingKeepsRecord ==
  ASSUME TypeOK, RecordInv, NEW t \in Starts,
         Starting(t) \/ StartFails(t) \/ StartKilled(t)
  PROVE  ClearingIsSafe' /\ RecordKept'
<1>0. /\ UNCHANGED stateClaim
      /\ ~met' => ~met
      /\ \A u \in Starts : /\ clean[u] = "done" => clean'[u] = "done"
                           /\ clean[u] = "restore" => clean'[u] \in {"restore", "done"}
  <2>1. /\ UNCHANGED stateClaim
        /\ \/ UNCHANGED clean
           \/ start[t] = "rollbackAll" /\ clean' = [clean EXCEPT ![t] = "read"] /\ Rollback(t)
           \/ start[t] = "cleaning" /\ clean' = [clean EXCEPT ![t] = "done"]
    BY DEF TypeOK, ProcessesOK, Starting, StartReads, ClearState, SpawnCore, SpawnRunner, Handoff,
           WriteState, Rollback, BeginCleaning, StartFails, StartKilled, files
  <2> QED
    BY <2>1, StartingMeets DEF TypeOK, ProcessesOK, RecordInv, NotYetRecorded
<1>1. CASE StartReads(t)
  <2>1. /\ UNCHANGED <<state, clean, up>>
        /\ start'[t] # "done" /\ (start'[t] = "clear" => state # NoFile /\ ~TopologyRunning(state))
        /\ \A u \in Starts \ {t} : start'[u] = start[u]
    BY <1>1 DEF StartReads, TypeOK, ProcessesOK, files
  <2>2. \A u \in Starts : Whole(u)' => Whole(u)
    BY <2>1 DEF Whole
  <2>3. \A u \in Starts : (LeftOver(u) => LeftOver(u)') /\ (InHands(u) => InHands(u)')
    BY <1>0, <2>1 DEF LeftOver, InHands
  <2>4. RecordKept'
    BY <1>0, <2>1, <2>2, <2>3 DEF RecordInv, RecordKept
  <2>5. ClearingIsSafe'
    <3> SUFFICES ASSUME ~met, NEW u \in Starts, NEW v \in Starts,
                        start'[v] = "clear", Whole(u)
                 PROVE  LeftOver(u)
      BY <1>0, <2>2, <2>3 DEF ClearingIsSafe
    <3>1. CASE v = t
      <4>1. state # u /\ ~InHands(u)
        BY <2>1, <3>1, LauncherAssumption DEF TopologyRunning, Whole, InHands
      <4> QED
        BY <4>1 DEF RecordInv, RecordKept
    <3>2. CASE v # t
      BY <2>1, <3>2 DEF RecordInv, ClearingIsSafe
    <3> QED
      BY <3>1, <3>2
  <2> QED
    BY <2>4, <2>5
<1>2. CASE ClearState(t)
  <2>1. /\ start[t] = "clear" /\ UNCHANGED <<clean, up>>
        /\ start' = [start EXCEPT ![t] = "core"]
    BY <1>2 DEF ClearState
  <2>2. \A u \in Starts : (Whole(u)' => Whole(u)) /\ (LeftOver(u) => LeftOver(u)')
    BY <1>0, <2>1 DEF Whole, LeftOver, TypeOK, ProcessesOK
  <2>3. ~met' => \A u \in Starts : Whole(u)' => LeftOver(u)'
    BY <1>0, <2>1, <2>2 DEF RecordInv, ClearingIsSafe
  <2> QED
    BY <2>3 DEF ClearingIsSafe, RecordKept
<1>3. CASE WriteState(t)
  <2>1. /\ start[t] = "write" /\ UNCHANGED <<clean, up>> /\ state' = t
        /\ start' = [start EXCEPT ![t] = "done"]
        /\ ~met' => \A u \in Starts \ {t} : start[u] # "clear"
    BY <1>3 DEF WriteState
  <2>2. ~met' => \A u \in Starts : Whole(u)' => u = t
    BY <1>0, <2>1 DEF Whole, RecordInv, WriteAlone, Parts, TypeOK, ProcessesOK
  <2>3. ~met' => \A u \in Starts : start'[u] # "clear"
    BY <2>1 DEF TypeOK, ProcessesOK
  <2> QED
    BY <2>1, <2>2, <2>3 DEF ClearingIsSafe, RecordKept
<1>4. CASE SpawnCore(t) \/ SpawnRunner(t) \/ Handoff(t) \/ Rollback(t) \/ StartFails(t) \/ StartKilled(t)
  <2>1. /\ UNCHANGED state /\ start'[t] \notin {"done", "clear"}
        /\ \A u \in Starts \ {t} : start'[u] = start[u] /\ up'[u] = up[u]
    BY <1>4 DEF SpawnCore, SpawnRunner, Handoff, Rollback, BeginCleaning, StartFails, StartKilled, files,
                TypeOK, ProcessesOK
  <2>2. \A u \in Starts : (Whole(u)' => Whole(u)) /\ (start'[u] = "clear" => start[u] = "clear")
    BY <2>1 DEF Whole
  <2> QED
    BY <1>0, <2>1, <2>2, RecordFrame DEF RecordInv
<1> QED
  BY <1>1, <1>2, <1>3, <1>4 DEF Starting

(* The record, while a supervisor or a cleaner goes on.                    *)
LEMMA SupervisingKeepsRecord ==
  ASSUME TypeOK, RecordInv, NEW t \in Starts,
         Supervising(t) \/ Cleaning(t) \/ \E p \in Parts : Crash(t, p)
  PROVE  ClearingIsSafe' /\ RecordKept'
<1>1. \A u \in Starts : Whole(u)' => Whole(u)
  BY SMTT(60) DEF Supervising, PollClaims, PollDecides, StopRunner, StopCore, ReplayClaims, ReplayDecides,
         BeginCleaning, Cleaning, CleanReads, CleanRemoves, CleanClaims, CleanRestores, Cleaned, Crash,
         TypeOK, ProcessesOK, Whole, Parts
<1>2. \A u \in Starts : start'[u] = "clear" => start[u] = "clear"
  BY DEF Supervising, PollClaims, PollDecides, StopRunner, StopCore, ReplayClaims, ReplayDecides,
         BeginCleaning, Cleaning, CleanReads, CleanRemoves, CleanClaims, CleanRestores, Cleaned, Crash,
         TypeOK, ProcessesOK
<1>3. ~met' => ~met
  BY SupervisingMeets
<1>4. \A u \in Starts : clean[u] = "done" => clean'[u] = "done"
  BY DEF Supervising, PollClaims, PollDecides, StopRunner, StopCore, ReplayClaims, ReplayDecides,
         BeginCleaning, Cleaning, CleanReads, CleanRemoves, CleanClaims, CleanRestores, Cleaned, Crash,
         TypeOK, ProcessesOK, RecordInv, CleanedIsDown
<1>5. CASE UNCHANGED <<state, stateClaim>> /\ ~CleanRestores(t)
  <2>1. \A u \in Starts : clean[u] = "restore" => clean'[u] \in {"restore", "done"}
    BY <1>5 DEF Supervising, PollClaims, PollDecides, StopRunner, StopCore, ReplayClaims, ReplayDecides,
           BeginCleaning, Cleaning, CleanReads, CleanRemoves, CleanClaims, CleanRestores, Cleaned, Crash,
           TypeOK, ProcessesOK, RecordInv, CleanedIsDown
  <2> QED
    BY <1>1, <1>2, <1>3, <1>4, <1>5, <2>1, RecordFrame DEF RecordInv
<1>6. CASE CleanClaims(t) /\ state # NoFile
  <2>1. /\ clean[t] = "state" /\ state' = NoFile
        /\ stateClaim' = [stateClaim EXCEPT ![t] = state] /\ clean' = [clean EXCEPT ![t] = "restore"]
    BY <1>6 DEF CleanClaims
  <2>2. stateClaim'[t] = state /\ clean'[t] = "restore" /\ ~Whole(t)
    BY <2>1 DEF TypeOK, FilesOK, ProcessesOK, RecordInv, CleanedIsDown, Whole, Parts
  <2>3. \A u \in Starts : LeftOver(u) => LeftOver(u)'
    BY <2>1 DEF LeftOver, TypeOK, FilesOK, ProcessesOK
  <2>4. \A u \in Starts : Whole(u) /\ state = u => InHands(u)'
    BY <2>1, <2>2 DEF InHands
  <2>5. \A u \in Starts : ~InHands(u)
    BY <1>6 DEF InHands
  <2> QED
    BY <1>1, <1>2, <1>3, <2>3, <2>4, <2>5 DEF RecordInv, ClearingIsSafe, RecordKept
<1>7. CASE CleanRestores(t)
  <2>1. /\ clean[t] = "restore" /\ state' = Restored(t)
        /\ stateClaim' = [stateClaim EXCEPT ![t] = NoFile] /\ clean' = [clean EXCEPT ![t] = "done"]
    BY <1>7 DEF CleanRestores, Cleaned
  <2>2. \A u \in Starts : LeftOver(u) => LeftOver(u)'
    BY <2>1 DEF LeftOver, TypeOK, FilesOK, ProcessesOK
  <2>3. \A u \in Starts : state = u => state' = u
    BY <2>1, LauncherAssumption DEF Restored
  <2>4. ASSUME ~met, NEW u \in Starts, InHands(u) PROVE state' = u
    <3>1. PICK v \in Starts \ {u} : stateClaim[v] = u /\ clean[v] = "restore"
      BY <2>4 DEF InHands
    <3>2. v = t
      BY <2>1, <2>4, <3>1 DEF RecordInv, OneCleaner, Cleaners
    <3> QED
      BY <2>1, <2>4, <3>1, <3>2 DEF Restored, InHands
  <2> QED
    BY <1>1, <1>2, <1>3, <2>2, <2>3, <2>4 DEF RecordInv, ClearingIsSafe, RecordKept
<1> QED
  BY <1>5, <1>6, <1>7
     DEF Supervising, PollClaims, PollDecides, StopRunner, StopCore, ReplayClaims, ReplayDecides,
         BeginCleaning, Cleaning, CleanReads, CleanRemoves, CleanClaims, CleanRestores, Cleaned, Crash, files

LEMMA RecordInvHolds ==
  Spec => []RecordInv
<1>1. Init => RecordInv
  BY LauncherAssumption
     DEF Init, RecordInv, OneCore, WriteAlone, NotYetUp, NotYetRecorded, CleanedIsDown,
         OneCleaner, Cleaners, ClearingIsSafe, RecordKept, Whole, StartEnded, ShuttingDown
<1>2. ASSUME StopInv, RecordInv, [Next]_vars PROVE RecordInv'
  <2>1. ASSUME NEW t \in Starts, Starting(t) \/ StartFails(t) \/ StartKilled(t)
        PROVE  RecordInv'
    BY <1>2, <2>1, StartingKeepsProcesses, StartingMeets, StartingKeepsRecord DEF StopInv, RecordInv
  <2>2. ASSUME NEW t \in Starts, Supervising(t) \/ Cleaning(t) \/ \E p \in Parts : Crash(t, p)
        PROVE  RecordInv'
    BY <1>2, <2>2, SupervisingKeepsProcesses, SupervisingMeets, SupervisingKeepsRecord DEF StopInv, RecordInv
  <2>3. ASSUME NEW s \in Stops, Stopping(s) \/ WaitTimesOut(s)
        PROVE  RecordInv'
    BY <1>2, <2>3, StoppingKeepsRecord
  <2>4. CASE UNCHANGED vars
    BY <1>2, <2>4, RecordFrame
       DEF vars, files, RecordInv, OneCore, WriteAlone, NotYetUp, NotYetRecorded, CleanedIsDown,
           OneCleaner, Cleaners, Whole, ShuttingDown
  <2> QED
    BY <1>2, <2>1, <2>2, <2>3, <2>4 DEF Next
<1> QED
  BY <1>1, <1>2, StopInvHolds, PTL DEF Spec

(* Each complete topology has its record, on its path or in a claim file,  *)
(* unless two cleaners were at work at the same time or a start wrote its  *)
(* record while another was about to remove or to write it                 *)
(* (writeRuntimeState, clearRuntimeState, clearOwnedTopologyFiles).        *)
THEOREM RecordStays ==
  Spec => []RecordedWhileUp
<1>1. RecordInv => RecordedWhileUp
  BY DEF RecordInv, RecordKept, RecordedWhileUp, Whole, InHands, LeftOver
<1> QED
  BY RecordInvHolds, <1>1, PTL
=============================================================================

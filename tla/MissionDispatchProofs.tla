------------------------ MODULE MissionDispatchProofs ------------------------
(***************************************************************************)
(* MissionDispatch, for every set of Servers, jobs, requests, keys and     *)
(* mismatches and any number of faults: one start command schedules the    *)
(* Mission, a dispatch is recorded as accepted only for a leased run, the  *)
(* projections of a completion agree, and the Mission ends with its jobs.  *)
(***************************************************************************)
EXTENDS MissionDispatch, TLAPS

LoopStages == {"idle", "next", "checked", "offering", "conflict", "unavailable",
               "accept", "block"}

RequestType == [pc : {"new", "loaded", "done", "conflict"}, key : Keys \cup {None},
                result : Requests \cup {None}]

LoopType == [pc : LoopStages, todo : SUBSET Jobs, job : Jobs \cup {None}]

(* What the tables and the requests hold.                                  *)
TablesOK ==
    /\ mission \in {"approved", "running", "blocked", "completed"}
    /\ started \in Requests \cup {None}
    /\ request \in [Requests -> RequestType]
    /\ outbox \in [Jobs -> {"none", "pending", "accepted", "blocked"}]
    /\ attempt \in [Jobs -> {"none", "pending_dispatch", "accepted", "blocked"} \cup Results]
    /\ jobStatus \in [Jobs -> {"queued"} \cup Terminal]
    /\ lease \in [Jobs -> {"none", "active", "lost", "completed"}]

(* What the processes hold.                                                *)
ProcessesOK ==
    /\ loop \in [Servers -> LoopType]
    /\ sent \subseteq Servers \X Jobs
    /\ accepting \subseteq Servers \X Jobs
    /\ runner \in [job : Jobs \cup {None}, pc : {"idle", "accepting", "executing"}]

(* Before the Mission is scheduled nothing has been dispatched; afterwards *)
(* the command that did it has its answer.                                 *)
StartKnows ==
    /\ started # None => request[started].pc = "done"
    /\ started = None =>
         /\ mission = "approved"
         /\ \A q \in Requests : request[q].pc # "done"
         /\ \A j \in Jobs : outbox[j] = "none" /\ attempt[j] = "none"
                            /\ jobStatus[j] = "queued" /\ lease[j] = "none"
         /\ \A l \in Servers : loop[l] = Idle
         /\ sent = {} /\ accepting = {}

(* What a dispatch loop knows of the row it is at.                         *)
LoopsKnow ==
    \A l \in Servers :
        /\ loop[l].pc \notin {"idle", "next"} => loop[l].job \in Jobs
        /\ loop[l].pc = "accept" => lease[loop[l].job] # "none"

(* An attempt is accepted, blocked or finished after its outbox row is.    *)
AttemptsKnow ==
    \A j \in Jobs :
        /\ attempt[j] = "accepted" => outbox[j] = "accepted"
        /\ attempt[j] \in Results => outbox[j] \in {"accepted", "blocked"}

IInv == /\ TablesOK
        /\ ProcessesOK
        /\ StartKnows
        /\ LoopsKnow
        /\ AttemptsKnow
        /\ StartedOnce
        /\ AcceptedWasLeased
        /\ ProjectionsAgree
-----------------------------------------------------------------------------
(* A conjunct of the invariant holds after a step that leaves alone the    *)
(* variables it speaks of; here, the tables.                               *)
LEMMA TablesFrame ==
  ASSUME IInv, UNCHANGED <<db, request>>
  PROVE  TablesOK' /\ AttemptsKnow' /\ StartedOnce' /\ AcceptedWasLeased' /\ ProjectionsAgree'
BY DEF IInv, TablesOK, AttemptsKnow, StartedOnce, AcceptedWasLeased, ProjectionsAgree, db, RequestType

(* The same for the start command.                                         *)
LEMMA StartFrame ==
  ASSUME StartKnows, UNCHANGED <<db, request, loop, sent, accepting>>
  PROVE  StartKnows'
BY DEF StartKnows, db

(* The same once the Mission is scheduled.                                 *)
LEMMA ScheduledFrame ==
  ASSUME StartKnows, started # None, UNCHANGED <<started, request>>
  PROVE  StartKnows'
BY DEF StartKnows

(* The same for the loops, which a lease does not go back on.              *)
LEMMA LoopsFrame ==
  ASSUME LoopsKnow, UNCHANGED loop, \A j \in Jobs : lease[j] # "none" => lease'[j] # "none"
  PROVE  LoopsKnow'
BY DEF LoopsKnow

(* The loop goes on with its row.                                          *)
LEMMA GotoLeaves ==
  ASSUME loop \in [Servers -> LoopType], NEW l \in Servers, NEW pc \in LoopStages, Goto(l, pc)
  PROVE  /\ loop' \in [Servers -> LoopType]
         /\ loop'[l].pc = pc /\ loop'[l].job = loop[l].job
         /\ \A m \in Servers \ {l} : loop'[m] = loop[m]
BY DEF Goto, LoopType

(* The loop is done with its row.                                          *)
LEMMA NextRowLeaves ==
  ASSUME loop \in [Servers -> LoopType], NEW l \in Servers, NextRow(l)
  PROVE  /\ loop' \in [Servers -> LoopType]
         /\ loop'[l].pc \in {"idle", "next"}
         /\ \A m \in Servers \ {l} : loop'[m] = loop[m]
<1> DEFINE new == IF loop[l].todo = {} THEN Idle ELSE [loop[l] EXCEPT !.pc = "next", !.job = None]
<1>1. loop[l] \in LoopType /\ loop' = [loop EXCEPT ![l] = new]
  BY DEF NextRow
<1>2. new \in LoopType /\ new.pc \in {"idle", "next"}
  BY <1>1 DEF LoopType, LoopStages, Idle
<1> QED
  BY <1>1, <1>2

(* A loop that stays where it is, or is sent to accept a leased row, knows *)
(* what it must.                                                           *)
LEMMA LoopMoves ==
  ASSUME IInv, NEW l \in Servers, UNCHANGED lease,
         \A m \in Servers \ {l} : loop'[m] = loop[m],
         \/ loop'[l].pc \in {"idle", "next"}
         \/ /\ loop'[l].job = loop[l].job /\ loop[l].job \in Jobs
            /\ loop'[l].pc = "accept" => lease[loop[l].job] # "none"
  PROVE  LoopsKnow'
BY DEF IInv, LoopsKnow

(* A start request is answered from the stored command, or goes on.        *)
LEMMA BeginStartKeeps ==
  ASSUME IInv, NEW q \in Requests, NEW k \in Keys, BeginStart(q, k)
  PROVE  IInv'
<1>1. TablesOK'
  BY DEF IInv, TablesOK, BeginStart, db, RequestType
<1>2. ProcessesOK'
  BY DEF IInv, ProcessesOK, BeginStart, wire, LoopType
<1>3. StartKnows'
  BY DispatchAssumption DEF IInv, TablesOK, StartKnows, BeginStart, db, wire, RequestType
<1>4. StartedOnce'
  BY DispatchAssumption DEF IInv, TablesOK, StartKnows, StartedOnce, BeginStart, db, RequestType
<1>5. LoopsKnow' /\ AttemptsKnow' /\ AcceptedWasLeased' /\ ProjectionsAgree'
  BY DEF IInv, LoopsKnow, AttemptsKnow, AcceptedWasLeased, ProjectionsAgree, BeginStart, db
<1> QED
  BY <1>1, <1>2, <1>3, <1>4, <1>5 DEF IInv

(* One command schedules the Mission; the others are replays or conflicts. *)
LEMMA ScheduleMissionKeeps ==
  ASSUME IInv, NEW q \in Requests, ScheduleMission(q)
  PROVE  IInv'
<1>1. TablesOK'
  BY DEF IInv, TablesOK, ScheduleMission, Answer, RequestType
<1>2. ProcessesOK'
  BY DEF IInv, ProcessesOK, ScheduleMission, wire, LoopType
<1>3. StartKnows'
  BY DispatchAssumption DEF IInv, TablesOK, StartKnows, ScheduleMission, Answer, wire, RequestType
<1>4. StartedOnce'
  BY DispatchAssumption DEF IInv, TablesOK, StartKnows, StartedOnce, ScheduleMission, Answer, RequestType
<1>5. LoopsKnow'
  BY DEF IInv, LoopsKnow, ScheduleMission
<1>6. AttemptsKnow' /\ AcceptedWasLeased' /\ ProjectionsAgree'
  BY DispatchAssumption
     DEF IInv, TablesOK, StartKnows, AttemptsKnow, AcceptedWasLeased, ProjectionsAgree, ScheduleMission
<1> QED
  BY <1>1, <1>2, <1>3, <1>4, <1>5, <1>6 DEF IInv

(* The pending rows are read.                                              *)
LEMMA ReadPendingKeeps ==
  ASSUME IInv, NEW l \in Servers, ReadPending(l)
  PROVE  IInv'
<1>1. TablesOK' /\ AttemptsKnow' /\ StartedOnce' /\ AcceptedWasLeased' /\ ProjectionsAgree'
  BY TablesFrame DEF ReadPending
<1>2. ProcessesOK'
  BY DEF IInv, ProcessesOK, ReadPending, wire, LoopType, LoopStages
<1>3. StartKnows'
  BY ScheduledFrame DEF IInv, StartKnows, ReadPending, db
<1>4. LoopsKnow'
  BY DEF IInv, ProcessesOK, LoopType, LoopsKnow, ReadPending, db
<1> QED
  BY <1>1, <1>2, <1>3, <1>4 DEF IInv

(* A row whose run has a lease is about to be accepted or blocked.         *)
LEMMA CheckLeaseKeeps ==
  ASSUME IInv, NEW l \in Servers, NEW j \in Jobs, CheckLease(l, j)
  PROVE  IInv'
<1>1. TablesOK' /\ AttemptsKnow' /\ StartedOnce' /\ AcceptedWasLeased' /\ ProjectionsAgree'
  BY TablesFrame DEF CheckLease
<1>2. ProcessesOK'
  BY DEF IInv, ProcessesOK, CheckLease, Existing, wire, LoopType, LoopStages
<1>3. StartKnows'
  BY ScheduledFrame DEF IInv, StartKnows, CheckLease, Idle, db
<1>4. LoopsKnow'
  BY DEF IInv, ProcessesOK, LoopType, LoopsKnow, CheckLease, Existing, db
<1> QED
  BY <1>1, <1>2, <1>3, <1>4 DEF IInv

(* The job is offered, or it is decided that it is not.                    *)
LEMMA OfferJobKeeps ==
  ASSUME IInv, NEW l \in Servers, OfferJob(l)
  PROVE  IInv'
<1>0. /\ loop \in [Servers -> LoopType] /\ loop[l].job \in Jobs
      /\ \/ NextRow(l) \/ \E pc \in {"block", "conflict", "offering"} : Goto(l, pc)
  BY DEF IInv, ProcessesOK, LoopsKnow, OfferJob
<1>1. TablesOK' /\ AttemptsKnow' /\ StartedOnce' /\ AcceptedWasLeased' /\ ProjectionsAgree'
  BY TablesFrame DEF OfferJob
<1>2. ProcessesOK'
  <2>1. loop' \in [Servers -> LoopType]
    BY <1>0, GotoLeaves, NextRowLeaves DEF LoopStages
  <2>2. sent' \subseteq sent \cup {<<l, loop[l].job>>} /\ UNCHANGED <<accepting, runner>>
    BY DEF OfferJob
  <2> QED
    BY <1>0, <2>1, <2>2 DEF IInv, ProcessesOK
<1>3. StartKnows'
  BY ScheduledFrame DEF IInv, StartKnows, OfferJob, Idle, db
<1>4. LoopsKnow'
  BY <1>0, GotoLeaves, NextRowLeaves, LoopMoves DEF OfferJob, db, LoopStages
<1> QED
  BY <1>1, <1>2, <1>3, <1>4 DEF IInv

(* After a failed offer the lease is looked for once more.                 *)
LEMMA ReconcileKeeps ==
  ASSUME IInv, NEW l \in Servers, Reconcile(l)
  PROVE  IInv'
<1>0. /\ loop \in [Servers -> LoopType] /\ loop[l].job \in Jobs
      /\ \/ NextRow(l) \/ Goto(l, "block")
         \/ Goto(l, "accept") /\ lease[loop[l].job] # "none"
  BY DEF IInv, ProcessesOK, LoopsKnow, Reconcile, Existing
<1>1. TablesOK' /\ AttemptsKnow' /\ StartedOnce' /\ AcceptedWasLeased' /\ ProjectionsAgree'
  BY TablesFrame DEF Reconcile
<1>2. ProcessesOK'
  BY <1>0, GotoLeaves, NextRowLeaves DEF IInv, ProcessesOK, Reconcile, wire, LoopStages
<1>3. StartKnows'
  BY ScheduledFrame DEF IInv, StartKnows, Reconcile, Idle, db
<1>4. LoopsKnow'
  BY <1>0, GotoLeaves, NextRowLeaves, LoopMoves DEF Reconcile, db, LoopStages
<1> QED
  BY <1>1, <1>2, <1>3, <1>4 DEF IInv

(* A row that is still pending is recorded as accepted, with its attempt.  *)
LEMMA MarkAcceptedKeeps ==
  ASSUME IInv, NEW l \in Servers, MarkAccepted(l)
  PROVE  IInv'
<1>0. loop[l].job \in Jobs /\ lease[loop[l].job] # "none" /\ loop[l] # Idle
  BY DEF IInv, LoopsKnow, MarkAccepted, Idle
<1>1. TablesOK'
  BY DEF IInv, TablesOK, MarkAccepted
<1>2. ProcessesOK'
  BY NextRowLeaves DEF IInv, ProcessesOK, MarkAccepted, wire
<1>3. StartKnows'
  BY <1>0, ScheduledFrame DEF IInv, StartKnows, MarkAccepted
<1>4. LoopsKnow'
  BY NextRowLeaves, LoopMoves DEF IInv, ProcessesOK, MarkAccepted
<1>5. StartedOnce'
  BY DEF IInv, StartedOnce, MarkAccepted
<1>6. AttemptsKnow' /\ AcceptedWasLeased'
  BY <1>0 DEF IInv, TablesOK, AttemptsKnow, AcceptedWasLeased, MarkAccepted
<1>7. ProjectionsAgree'
  BY <1>0 DEF IInv, TablesOK, ProjectionsAgree, MarkAccepted
<1> QED
  BY <1>1, <1>2, <1>3, <1>4, <1>5, <1>6, <1>7 DEF IInv

(* A row that is still pending is recorded as blocked, with its attempt.   *)
LEMMA MarkBlockedKeeps ==
  ASSUME IInv, NEW l \in Servers, MarkBlocked(l)
  PROVE  IInv'
<1>0. /\ loop[l].job \in Jobs /\ loop[l] # Idle
      /\ \/ NextRow(l) \/ Goto(l, "block")
         \/ Goto(l, "accept") /\ lease[loop[l].job] # "none"
  BY DEF IInv, LoopsKnow, MarkBlocked, Existing, Idle
<1>1. TablesOK'
  BY DEF IInv, TablesOK, MarkBlocked
<1>2. ProcessesOK'
  BY <1>0, GotoLeaves, NextRowLeaves DEF IInv, ProcessesOK, MarkBlocked, wire, LoopStages
<1>3. StartKnows'
  BY <1>0, ScheduledFrame DEF IInv, StartKnows, MarkBlocked
<1>4. LoopsKnow'
  BY <1>0, GotoLeaves, NextRowLeaves, LoopMoves DEF IInv, ProcessesOK, MarkBlocked, LoopStages
<1>5. StartedOnce'
  BY DEF IInv, StartedOnce, MarkBlocked
<1>6. AttemptsKnow' /\ AcceptedWasLeased'
  BY <1>0 DEF IInv, TablesOK, AttemptsKnow, AcceptedWasLeased, MarkBlocked
<1>7. ProjectionsAgree'
  BY <1>0 DEF IInv, TablesOK, ProjectionsAgree, MarkBlocked
<1> QED
  BY <1>1, <1>2, <1>3, <1>4, <1>5, <1>6, <1>7 DEF IInv

(* The Runner connects.                                                    *)
LEMMA ConnectKeeps ==
  ASSUME IInv, NEW l \in Servers, Connect(l)
  PROVE  IInv'
<1>1. TablesOK' /\ AttemptsKnow' /\ StartedOnce' /\ AcceptedWasLeased' /\ ProjectionsAgree'
  BY TablesFrame DEF Connect
<1>2. ProcessesOK'
  BY DEF IInv, ProcessesOK, Connect
<1>3. StartKnows' /\ LoopsKnow'
  BY StartFrame, LoopsFrame DEF IInv, Connect, db
<1> QED
  BY <1>1, <1>2, <1>3 DEF IInv

(* A connection is lost, and the offers on it are rejected.                *)
LEMMA DropKeeps ==
  ASSUME IInv, Drop, UNCHANGED accepting
  PROVE  /\ ProcessesOK'
         /\ UNCHANGED <<db, request>> => StartKnows'
         /\ (\A j \in Jobs : lease[j] # "none" => lease'[j] # "none") => LoopsKnow'
<1>1. ProcessesOK'
  BY DEF IInv, ProcessesOK, Drop, NoRunner, LoopType, LoopStages
<1>2. ASSUME UNCHANGED <<db, request>> PROVE StartKnows'
  BY <1>2, SMTT(60) DEF IInv, StartKnows, Drop, Idle, db
<1>3. ASSUME \A j \in Jobs : lease[j] # "none" => lease'[j] # "none" PROVE LoopsKnow'
  BY <1>3 DEF IInv, ProcessesOK, LoopType, LoopsKnow, Drop
<1> QED
  BY <1>1, <1>2, <1>3

(* The same, with the tables as they were.                                 *)
LEMMA DisconnectKeeps ==
  ASSUME IInv, Disconnect
  PROVE  IInv'
<1>1. TablesOK' /\ AttemptsKnow' /\ StartedOnce' /\ AcceptedWasLeased' /\ ProjectionsAgree'
  BY TablesFrame DEF Disconnect
<1>2. ProcessesOK' /\ StartKnows' /\ LoopsKnow'
  BY DropKeeps DEF Disconnect, db
<1> QED
  BY <1>1, <1>2 DEF IInv

(* The Runner takes an offer from its queue.                               *)
LEMMA AcceptOfferKeeps ==
  ASSUME IInv, NEW l \in Servers, NEW j \in Jobs, AcceptOffer(l, j)
  PROVE  IInv'
<1>1. TablesOK' /\ AttemptsKnow' /\ StartedOnce' /\ AcceptedWasLeased' /\ ProjectionsAgree'
  BY TablesFrame DEF AcceptOffer
<1>2. ProcessesOK'
  BY DEF IInv, ProcessesOK, AcceptOffer
<1>3. StartKnows' /\ LoopsKnow'
  BY ScheduledFrame, LoopsFrame DEF IInv, StartKnows, AcceptOffer, db
<1> QED
  BY <1>1, <1>2, <1>3 DEF IInv

(* The lease is granted, and the loop that waits for it hears of it.       *)
LEMMA GrantLeaseKeeps ==
  ASSUME IInv, NEW l \in Servers, NEW j \in Jobs, GrantLease(l, j)
  PROVE  IInv'
<1>0. lease'[j] # "none" /\ \A i \in Jobs : lease[i] # "none" => lease'[i] = lease[i]
  BY DEF IInv, TablesOK, GrantLease
<1>1. TablesOK'
  BY DEF IInv, TablesOK, GrantLease
<1>2. ProcessesOK'
  BY DEF IInv, ProcessesOK, GrantLease, LoopType, LoopStages
<1>3. StartKnows'
  BY ScheduledFrame DEF IInv, StartKnows, GrantLease
<1>4. LoopsKnow'
  BY <1>0 DEF IInv, ProcessesOK, LoopType, LoopsKnow, GrantLease
<1>5. StartedOnce' /\ AttemptsKnow' /\ AcceptedWasLeased'
  BY <1>0 DEF IInv, StartedOnce, AttemptsKnow, AcceptedWasLeased, GrantLease
<1>6. ProjectionsAgree'
  BY DEF IInv, TablesOK, ProjectionsAgree, GrantLease
<1> QED
  BY <1>1, <1>2, <1>3, <1>4, <1>5, <1>6 DEF IInv

(* An accept is lost with its connection.                                  *)
LEMMA LoseAcceptKeeps ==
  ASSUME IInv, NEW l \in Servers, NEW j \in Jobs, LoseAccept(l, j)
  PROVE  IInv'
<1>1. TablesOK' /\ AttemptsKnow' /\ StartedOnce' /\ AcceptedWasLeased' /\ ProjectionsAgree'
  BY TablesFrame DEF LoseAccept
<1>2. ProcessesOK'
  BY DEF IInv, ProcessesOK, LoseAccept
<1>3. StartKnows' /\ LoopsKnow'
  BY ScheduledFrame, LoopsFrame DEF IInv, StartKnows, LoseAccept, db
<1> QED
  BY <1>1, <1>2, <1>3 DEF IInv

(* A lease is lost; it was not completed.                                  *)
LEMMA LoseLeaseKeeps ==
  ASSUME IInv, NEW j \in Jobs, LoseLease(j)
  PROVE  IInv'
<1>1. TablesOK'
  BY DEF IInv, TablesOK, LoseLease
<1>2. ProcessesOK'
  BY DEF IInv, ProcessesOK, LoseLease, wire
<1>3. StartKnows'
  BY ScheduledFrame DEF IInv, StartKnows, LoseLease
<1>4. LoopsKnow'
  BY LoopsFrame DEF IInv, TablesOK, LoseLease
<1>5. StartedOnce' /\ AttemptsKnow' /\ AcceptedWasLeased'
  BY DEF IInv, TablesOK, StartedOnce, AttemptsKnow, AcceptedWasLeased, LoseLease
<1>6. ProjectionsAgree'
  BY DEF IInv, TablesOK, ProjectionsAgree, LoseLease
<1> QED
  BY <1>1, <1>2, <1>3, <1>4, <1>5, <1>6 DEF IInv

(* A completion ends lease, attempt and job together, or is refused.       *)
LEMMA CompleteKeeps ==
  ASSUME IInv, NEW j \in Jobs, NEW r \in Results, Complete(j, r)
  PROVE  IInv'
<1>0. started # None
  BY DEF IInv, StartKnows, Complete
<1>1. CASE Projectable(j, r)
  <2>1. /\ lease' = [lease EXCEPT ![j] = "completed"]
        /\ attempt' = [attempt EXCEPT ![j] = r]
        /\ jobStatus' = [jobStatus EXCEPT ![j] = JobStatusFor(r)]
        /\ mission' = IF mission = "running" THEN MissionStatusAfter(jobStatus') ELSE mission
        /\ runner' = NoRunner
        /\ UNCHANGED <<started, outbox, request, loop, sent, accepting>>
    BY <1>1 DEF Complete, Project
  <2>2. JobStatusFor(r) \in Terminal /\ r # "accepted"
    BY DispatchAssumption DEF JobStatusFor, Terminal
  <2>3. TablesOK'
    BY <2>1, <2>2 DEF IInv, TablesOK, MissionStatusAfter
  <2>4. ProcessesOK'
    BY <2>1 DEF IInv, ProcessesOK, NoRunner
  <2>5. StartKnows' /\ LoopsKnow'
    BY <1>0, <2>1, ScheduledFrame, LoopsFrame DEF IInv, TablesOK
  <2>6. StartedOnce' /\ AttemptsKnow' /\ AcceptedWasLeased'
    BY <1>1, <2>1, <2>2 DEF Projectable, IInv, TablesOK, StartedOnce, AttemptsKnow, AcceptedWasLeased
  <2>7. ProjectionsAgree'
    BY <1>1, <2>1, <2>2 DEF IInv, TablesOK, AttemptsKnow, ProjectionsAgree, Projectable
  <2> QED
    BY <2>3, <2>4, <2>5, <2>6, <2>7 DEF IInv
<1>2. CASE ~Projectable(j, r)
  <2>1. UNCHANGED <<db, request, accepting>> /\ Drop
    BY <1>2 DEF Complete, Project, db
  <2> QED
    BY <2>1, TablesFrame, DropKeeps DEF IInv, db
<1> QED
  BY <1>1, <1>2

(* The projection of a stored completion changes nothing but the status of *)
(* the Mission, which follows from the jobs.                               *)
LEMMA ProjectedAgain ==
  ASSUME IInv, NEW j \in Jobs, CompleteAgain(j)
  PROVE  /\ UNCHANGED <<lease, attempt, jobStatus>>
         /\ mission' = IF mission = "running" THEN MissionStatusAfter(jobStatus) ELSE mission
         /\ UNCHANGED <<started, outbox, request, loop, wire>>
         /\ started # None
<1>1. /\ lease[j] = "completed" /\ JobStatusFor(attempt[j]) = jobStatus[j]
      /\ lease' = [lease EXCEPT ![j] = "completed"]
      /\ attempt' = [attempt EXCEPT ![j] = attempt[j]]
      /\ jobStatus' = [jobStatus EXCEPT ![j] = JobStatusFor(attempt[j])]
      /\ mission' = IF mission = "running" THEN MissionStatusAfter(jobStatus') ELSE mission
  BY DEF CompleteAgain, Project, Projectable, IInv, ProjectionsAgree
<1>2. UNCHANGED <<lease, attempt, jobStatus>>
  BY <1>1 DEF IInv, TablesOK
<1> QED
  BY <1>1, <1>2 DEF CompleteAgain, IInv, StartKnows

(* A completion that is sent again finds what it left.                     *)
LEMMA CompleteAgainKeeps ==
  ASSUME IInv, NEW j \in Jobs, CompleteAgain(j)
  PROVE  IInv'
<1>1. TablesOK'
  BY ProjectedAgain DEF IInv, TablesOK, MissionStatusAfter
<1>2. ProcessesOK'
  BY ProjectedAgain DEF IInv, ProcessesOK, wire
<1>3. StartKnows' /\ LoopsKnow'
  BY ProjectedAgain, ScheduledFrame, LoopsFrame DEF IInv
<1>4. AttemptsKnow' /\ StartedOnce' /\ AcceptedWasLeased' /\ ProjectionsAgree'
  BY ProjectedAgain DEF IInv, AttemptsKnow, StartedOnce, AcceptedWasLeased, ProjectionsAgree
<1> QED
  BY <1>1, <1>2, <1>3, <1>4 DEF IInv

(* The Runner gives up a run whose lease is gone.                          *)
LEMMA StopRunKeeps ==
  ASSUME IInv, StopRun
  PROVE  IInv'
<1>1. TablesOK' /\ AttemptsKnow' /\ StartedOnce' /\ AcceptedWasLeased' /\ ProjectionsAgree'
  BY TablesFrame DEF StopRun
<1>2. ProcessesOK'
  BY DEF IInv, ProcessesOK, StopRun, NoRunner
<1>3. StartKnows' /\ LoopsKnow'
  BY StartFrame, LoopsFrame DEF IInv, StopRun, db
<1> QED
  BY <1>1, <1>2, <1>3 DEF IInv

(* The policy of the Mission expires.                                      *)
LEMMA PolicyExpiresKeeps ==
  ASSUME IInv, PolicyExpires
  PROVE  IInv'
<1>1. TablesOK' /\ AttemptsKnow' /\ StartedOnce' /\ AcceptedWasLeased' /\ ProjectionsAgree'
  BY TablesFrame DEF PolicyExpires
<1>2. ProcessesOK'
  BY DEF IInv, ProcessesOK, PolicyExpires, wire
<1>3. StartKnows' /\ LoopsKnow'
  BY StartFrame, LoopsFrame DEF IInv, PolicyExpires, wire, db
<1> QED
  BY <1>1, <1>2, <1>3 DEF IInv

(* A Server dies and comes back without what it had in memory.             *)
LEMMA RestartKeeps ==
  ASSUME IInv, NEW l \in Servers, Restart(l)
  PROVE  IInv'
<1>1. TablesOK' /\ AttemptsKnow' /\ StartedOnce' /\ AcceptedWasLeased' /\ ProjectionsAgree'
  BY TablesFrame DEF Restart
<1>2. ProcessesOK'
  BY DEF IInv, ProcessesOK, Restart, NoRunner, Idle, LoopType, LoopStages
<1>3. StartKnows'
  BY DEF IInv, StartKnows, ProcessesOK, Restart, Idle, db
<1>4. LoopsKnow'
  BY DEF IInv, ProcessesOK, LoopType, LoopsKnow, Restart, Idle, db
<1> QED
  BY <1>1, <1>2, <1>3, <1>4 DEF IInv

(* The initial state satisfies the inductive invariant.                    *)
LEMMA InitEstablishes == Init => IInv
<1> SUFFICES ASSUME Init PROVE IInv
  OBVIOUS
<1>1. TablesOK /\ ProcessesOK
  BY DEF Init, TablesOK, ProcessesOK, RequestType, LoopType, LoopStages, Idle, NoRunner
<1>2. StartKnows /\ LoopsKnow /\ AttemptsKnow
  BY DispatchAssumption DEF Init, StartKnows, LoopsKnow, AttemptsKnow, Idle
<1>3. StartedOnce /\ AcceptedWasLeased /\ ProjectionsAgree
  BY DEF Init, StartedOnce, AcceptedWasLeased, ProjectionsAgree, Terminal
<1> QED
  BY <1>1, <1>2, <1>3 DEF IInv

(* Every step preserves the inductive invariant.                           *)
LEMMA StepKeeps ==
  ASSUME IInv, [Next]_vars
  PROVE  IInv'
<1>1. CASE UNCHANGED vars
  <2>1. ProcessesOK'
    BY <1>1 DEF IInv, ProcessesOK, vars, wire
  <2> QED
    BY <1>1, <2>1, TablesFrame, StartFrame, LoopsFrame DEF IInv, vars, wire, db
<1>2. CASE \E q \in Requests : ScheduleMission(q) \/ \E k \in Keys : BeginStart(q, k)
  BY <1>2, ScheduleMissionKeeps, BeginStartKeeps
<1>3. CASE \E l \in Servers : LoopStep(l)
  BY <1>3, ReadPendingKeeps, OfferJobKeeps, ReconcileKeeps, MarkAcceptedKeeps,
     MarkBlockedKeeps, CheckLeaseKeeps DEF LoopStep
<1>4. CASE \E l \in Servers : RunnerStep(l) \/ Restart(l)
  BY <1>4, ConnectKeeps, AcceptOfferKeeps, GrantLeaseKeeps, LoseAcceptKeeps,
     RestartKeeps DEF RunnerStep
<1>5. CASE Disconnect \/ StopRun \/ PolicyExpires
  BY <1>5, DisconnectKeeps, StopRunKeeps, PolicyExpiresKeeps
<1>6. CASE \E j \in Jobs : LoseLease(j) \/ CompleteAgain(j) \/ \E r \in Results : Complete(j, r)
  BY <1>6, LoseLeaseKeeps, CompleteAgainKeeps, CompleteKeeps
<1> QED
  BY <1>1, <1>2, <1>3, <1>4, <1>5, <1>6 DEF Next

(* The inductive invariant holds in every reachable state.                 *)
LEMMA InvariantHolds == Spec => []IInv
<1>1. IInv /\ [Next]_vars => IInv'
  BY StepKeeps
<1> QED
  BY InitEstablishes, <1>1, PTL DEF Spec

(* Replays of a start command return the one command that scheduled the    *)
(* Mission, however many requests with whatever keys overlap.              *)
THEOREM OneStart == Spec => []StartedOnce
<1>1. IInv => StartedOnce
  BY DEF IInv
<1> QED
  BY InvariantHolds, <1>1, PTL

(* A row of the outbox is accepted only when its run was leased, whatever  *)
(* was lost between the offer, the lease and the acknowledgement.          *)
THEOREM AcceptanceNeedsLease == Spec => []AcceptedWasLeased
<1>1. IInv => AcceptedWasLeased
  BY DEF IInv
<1> QED
  BY InvariantHolds, <1>1, PTL

(* Outbox, attempt, job and lease agree, whatever the dispatch loops of    *)
(* several Servers record while a completion or its duplicate is           *)
(* projected: a row that a loop blocked ends, if at all, with a blocked    *)
(* completion.                                                             *)
THEOREM ProjectionsStayTogether == Spec => []ProjectionsAgree
<1>1. IInv => ProjectionsAgree
  BY SMTT(60) DEF IInv
<1> QED
  BY InvariantHolds, <1>1, PTL

(* Only the start command and an accepted completion change the status of  *)
(* the Mission or of a job.                                                *)
LEMMA OtherStepsKeepStatus ==
  ASSUME [Next]_vars, \A q \in Requests : ~ScheduleMission(q),
         \A j \in Jobs : ~CompleteAgain(j),
         \A j \in Jobs, r \in Results : ~Complete(j, r)
  PROVE  UNCHANGED <<mission, jobStatus>>
BY ZenonT(120) DEF Next, vars, db, LoopStep, RunnerStep, BeginStart, ReadPending, CheckLease,
       OfferJob, Reconcile, MarkAccepted, MarkBlocked, Connect, AcceptOffer,
       GrantLease, LoseAccept, Restart, Disconnect, LoseLease, StopRun, PolicyExpires

(* A Mission with jobs ends exactly when they say so, whichever completes  *)
(* last and however many were never dispatched: missionStatusAfterComple-  *)
(* tion decides on all the jobs and never on a Mission that has ended.     *)
THEOREM MissionEndsWithJobs ==
  ASSUME Jobs # {}
  PROVE  Spec => []MissionFollowsJobs
<1>1. Init => MissionFollowsJobs
  BY DEF Init, MissionFollowsJobs
<1>2. ASSUME IInv, MissionFollowsJobs, [Next]_vars PROVE MissionFollowsJobs'
  <2>1. ASSUME UNCHANGED <<mission, jobStatus>> PROVE MissionFollowsJobs'
    BY <1>2, <2>1 DEF MissionFollowsJobs
  <2>2. ASSUME NEW q \in Requests, ScheduleMission(q) PROVE MissionFollowsJobs'
    <3>1. CASE started # None
      BY <2>1, <2>2, <3>1 DEF ScheduleMission
    <3>2. CASE started = None
      <4>1. mission' = "running" /\ \A j \in Jobs : jobStatus'[j] = "queued"
        BY <1>2, <2>2, <3>2 DEF IInv, StartKnows, ScheduleMission
      <4> QED
        BY <4>1 DEF MissionFollowsJobs, Terminal
    <3> QED
      BY <3>1, <3>2
  <2>3. ASSUME NEW j \in Jobs, NEW r \in Results, Complete(j, r) PROVE MissionFollowsJobs'
    <3>1. CASE ~Projectable(j, r)
      BY <2>1, <2>3, <3>1 DEF Complete, Project
    <3>2. CASE Projectable(j, r)
      <4>1. /\ jobStatus' = [jobStatus EXCEPT ![j] = JobStatusFor(r)]
            /\ mission' = IF mission = "running" THEN MissionStatusAfter(jobStatus') ELSE mission
            /\ lease[j] = "active"
        BY <2>3, <3>2 DEF Complete, Project
      <4>2. JobStatusFor(r) \in Terminal /\ jobStatus \in [Jobs -> {"queued"} \cup Terminal]
        BY <1>2, DispatchAssumption DEF JobStatusFor, Terminal, IInv, TablesOK
      <4>3. jobStatus' \in [Jobs -> {"queued"} \cup Terminal] /\ jobStatus[j] = "queued"
        BY <1>2, <4>1, <4>2 DEF IInv, ProjectionsAgree
      <4>4. CASE mission = "running"
        BY <4>1, <4>3, <4>4 DEF MissionStatusAfter, MissionFollowsJobs, Terminal
      <4>5. CASE mission # "running"
        BY <1>2, <4>1, <4>2, <4>3, <4>5 DEF MissionFollowsJobs, Terminal
      <4> QED
        BY <4>4, <4>5
    <3> QED
      BY <3>1, <3>2
  <2>4. ASSUME NEW j \in Jobs, CompleteAgain(j) PROVE MissionFollowsJobs'
    <3>1. /\ jobStatus' = jobStatus
          /\ mission' = IF mission = "running" THEN MissionStatusAfter(jobStatus) ELSE mission
      BY <1>2, <2>4, ProjectedAgain
    <3>2. mission' = mission
      BY <1>2, <3>1 DEF MissionFollowsJobs, MissionStatusAfter, Terminal, IInv, TablesOK
    <3> QED
      BY <2>1, <3>1, <3>2
  <2> QED
    BY <1>2, <2>1, <2>2, <2>3, <2>4, OtherStepsKeepStatus
<1> QED
  BY InvariantHolds, <1>1, <1>2, PTL DEF Spec
=============================================================================

--------------------------- MODULE MissionDispatch ---------------------------
(***************************************************************************)
(* From the start of a Mission to its last completion in the self-hosted   *)
(* Server: the idempotent start command, the dispatch outbox, the dispatch *)
(* loops that offer its rows to the bound Runner and record the outcome,   *)
(* and the completion projection that ends attempts, jobs and the Mission. *)
(* Every database operation is a transaction of its own, so one action.    *)
(*                                                                         *)
(* A server is one Server process with its dispatch loop, its gRPC server  *)
(* and the offers its protocol application remembers; the database is      *)
(* shared.  There is one Mission, one attempt per job and one Runner, the  *)
(* one the Mission is bound to.                                            *)
(***************************************************************************)
EXTENDS Naturals, FiniteSets

CONSTANTS
    Servers,     \* the Server processes
    Jobs,        \* the logical jobs of the Mission
    Requests,    \* the start requests that clients send
    Keys,        \* their idempotency keys
    Results,     \* the completion statuses a Runner reports
    Mismatches,  \* the sets of jobs that may not fit the Runner
    None,
    StopOnBlocked, \* missions.stop_on_blocked
    MaxSession,  \* bound: the sessions the Runner opens
    MaxFaults    \* bound: lost connections, failed transactions and restarts

ASSUME DispatchAssumption ==
    /\ None \notin Servers \cup Jobs \cup Requests
    /\ Results \subseteq {"passed", "finding", "blocked", "error"}
    /\ Mismatches \subseteq SUBSET Jobs
    /\ StopOnBlocked \in BOOLEAN
    /\ MaxSession \in Nat \ {0} /\ MaxFaults \in Nat

VARIABLES
    mission,   \* missions.status
    started,   \* mission_start_commands: the request that scheduled the Mission
    request,   \* where every start request is
    outbox,    \* mission_dispatch_outbox.status per job
    attempt,   \* mission_job_attempts.status per job
    jobStatus, \* execution_jobs.status per job
    lease,     \* runner_leases of the job's run
    loop,      \* the dispatch loop of every server
    offer,     \* offersByRun: the session every server's offer is bound to
    sent,      \* the offers in the Runner's queue: pairs <<server, job>>
    accepting, \* the accepts on a server's promise chain: pairs <<server, job>>
    conn,      \* the Runner's connection: server and session
    runner,    \* the job the Runner works on, and whether it has the lease
    expired,   \* the execution policy has expired
    mismatch,  \* the jobs that the Runner's scope or capabilities do not fit
    faults,    \* how many faults have happened
    refused    \* history: runs whose completion was refused under a valid lease

db == <<mission, started, outbox, attempt, jobStatus, lease>>
wire == <<sent, accepting, conn, runner>>
vars == <<db, request, loop, offer, wire, expired, mismatch, faults, refused>>

Idle == [pc |-> "idle", todo |-> {}, job |-> None]
NoRunner == [job |-> None, pc |-> "idle"]

Init ==
    /\ mission = "approved"
    /\ started = None
    /\ request = [q \in Requests |-> [pc |-> "new", key |-> None, result |-> None]]
    /\ outbox = [j \in Jobs |-> "none"]
    /\ attempt = [j \in Jobs |-> "none"]
    /\ jobStatus = [j \in Jobs |-> "queued"]
    /\ lease = [j \in Jobs |-> "none"]
    /\ loop = [l \in Servers |-> Idle]
    /\ offer = [l \in Servers |-> [j \in Jobs |-> 0]]
    /\ sent = {}
    /\ accepting = {}
    /\ conn = [server |-> None, session |-> 0]
    /\ runner = NoRunner
    /\ expired = FALSE
    /\ mismatch \in Mismatches
    /\ faults = 0
    /\ refused = {}

----------------------------------------------------------------------------
(* Starting the Mission *)

Answer(q, pc, result) == request' = [request EXCEPT ![q].pc = pc, ![q].result = result]

\* replayMissionSchedule and loadMissionForScheduling, before the transaction.
\* Bound: requests arrive before the first row is offered; they read nothing
\* that the dispatch changes.
BeginStart(q, key) ==
    /\ request[q].pc = "new"
    /\ \A l \in Servers : loop[l] = Idle /\ \A j \in Jobs : offer[l][j] = 0
    /\ request' = [request EXCEPT ![q] =
         IF started # None /\ request[started].key = key
         THEN [pc |-> "done", key |-> key, result |-> started]
         ELSE [pc |-> "loaded", key |-> key, result |-> None]]
    /\ UNCHANGED <<db, loop, offer, wire, expired, mismatch, faults, refused>>

\* Mutant: the key is not looked up again under the lock, nor the Mission's
\* status compared.
ScheduleAgain(q) ==
    /\ request[q].pc = "loaded"
    /\ Answer(q, "done", q)
    /\ started' = q
    /\ mission' = "running"
    /\ outbox' = [j \in Jobs |-> "pending"]
    /\ attempt' = [j \in Jobs |-> "pending_dispatch"]
    /\ UNCHANGED <<jobStatus, lease, loop, offer, wire, expired, mismatch, faults, refused>>

\* scheduleMission: under the key's lock, replay, refuse a Mission that another
\* key has started, or record everything at once.
ScheduleMission(q) ==
    /\ request[q].pc = "loaded"
    /\ IF started # None
       THEN /\ IF request[started].key = request[q].key
               THEN Answer(q, "done", started)
               ELSE Answer(q, "conflict", None)
            /\ UNCHANGED <<mission, started, outbox, attempt>>
       ELSE /\ Answer(q, "done", q)
            /\ started' = q
            /\ mission' = "running"
            /\ outbox' = [j \in Jobs |-> "pending"]
            /\ attempt' = [j \in Jobs |-> "pending_dispatch"]
    /\ UNCHANGED <<jobStatus, lease, loop, offer, wire, expired, mismatch, faults, refused>>

----------------------------------------------------------------------------
(* The dispatch loop *)

Fault == faults < MaxFaults /\ faults' = faults + 1

Goto(l, pc) == loop' = [loop EXCEPT ![l].pc = pc]
NextRow(l) == loop' = [loop EXCEPT ![l] =
    IF @.todo = {} THEN Idle ELSE [@ EXCEPT !.pc = "next", !.job = None]]

\* runOnce: the rows that are pending now.
ReadPending(l) ==
    /\ loop[l].pc = "idle"
    /\ \E j \in Jobs : outbox[j] = "pending"
    /\ loop' = [loop EXCEPT ![l] = [pc |-> "next", job |-> None,
                                    todo |-> {j \in Jobs : outbox[j] = "pending"}]]
    /\ UNCHANGED <<db, request, offer, wire, expired, mismatch, faults, refused>>

\* What acceptExistingLease decides, absent a lease.
Existing(j, otherwise) ==
    CASE lease[j] = "none" -> otherwise
      [] lease[j] = "lost" -> "block"
      [] OTHER -> "accept"

\* Mutant: a row whose run is leased already is left alone.
CheckSkips(l, j) ==
    /\ loop[l].pc = "next" /\ j \in loop[l].todo
    /\ loop' = [loop EXCEPT ![l] =
         IF lease[j] = "none"
         THEN [pc |-> "checked", job |-> j, todo |-> @.todo \ {j}]
         ELSE IF @.todo = {j} THEN Idle ELSE [@ EXCEPT !.todo = @ \ {j}]]
    /\ UNCHANGED <<db, request, offer, wire, expired, mismatch, faults, refused>>

\* dispatch, first await: a lease that exists already is accepted or blocked.
CheckLease(l, j) ==
    /\ loop[l].pc = "next" /\ j \in loop[l].todo
    /\ loop' = [loop EXCEPT ![l] = [pc |-> Existing(j, "checked"), job |-> j, todo |-> @.todo \ {j}]]
    /\ UNCHANGED <<db, request, offer, wire, expired, mismatch, faults, refused>>

\* Mutant: the row counts as accepted once the offer is sent.
OfferTrusted(l) ==
    LET j == loop[l].job IN
    /\ loop[l].pc = "checked" /\ ~expired /\ conn.server = l
    /\ j \notin mismatch /\ offer[l][j] \in {0, conn.session}
    /\ Goto(l, "accept")
    /\ offer' = [offer EXCEPT ![l][j] = conn.session]
    /\ sent' = sent \cup {<<l, j>>}
    /\ UNCHANGED <<db, request, accepting, conn, runner, expired, mismatch, faults, refused>>

\* dispatch up to the offer: expired policy, offline Runner, mismatch; then
\* createOffer, which returns the offer it remembers, refuses one that is bound
\* to another session or whose run has a lease, or makes a new one.
OfferJob(l) ==
    LET j == loop[l].job IN
    /\ loop[l].pc = "checked"
    /\ CASE expired -> Goto(l, "block") /\ UNCHANGED <<offer, sent>>
         [] ~expired /\ conn.server # l -> NextRow(l) /\ UNCHANGED <<offer, sent>>
         [] ~expired /\ conn.server = l /\ j \in mismatch ->
              Goto(l, "block") /\ UNCHANGED <<offer, sent>>
         [] OTHER ->
              IF \/ offer[l][j] \notin {0, conn.session}
                 \/ offer[l][j] = 0 /\ lease[j] # "none"
              THEN Goto(l, "conflict") /\ UNCHANGED <<offer, sent>>
              ELSE /\ Goto(l, "offering")
                   /\ offer' = [offer EXCEPT ![l][j] = conn.session]
                   /\ sent' = sent \cup {<<l, j>>}
    /\ UNCHANGED <<db, request, accepting, conn, runner, expired, mismatch, faults, refused>>

\* The catch around offer: look for the lease once more.  A failed read counts
\* as no lease.
Reconcile(l) ==
    /\ loop[l].pc \in {"conflict", "unavailable"}
    /\ \E readable \in BOOLEAN :
         LET none == IF loop[l].pc = "conflict" THEN "block" ELSE "defer"
             goal == IF readable THEN Existing(loop[l].job, none) ELSE none
         IN /\ IF readable THEN UNCHANGED faults ELSE Fault
            /\ IF goal = "defer" THEN NextRow(l) ELSE Goto(l, goal)
    /\ UNCHANGED <<db, request, offer, wire, expired, mismatch, refused>>

\* markDispatchAccepted: compare and set on the pending row.  A conflict or a
\* failed transaction leaves the row for a later cycle.
MarkAccepted(l) ==
    /\ loop[l].pc = "accept"
    /\ NextRow(l)
    /\ LET j == loop[l].job IN
         \/ /\ outbox' = IF outbox[j] = "pending" THEN [outbox EXCEPT ![j] = "accepted"] ELSE outbox
            /\ attempt' = IF outbox[j] = "pending" THEN [attempt EXCEPT ![j] = "accepted"] ELSE attempt
            /\ UNCHANGED faults
         \/ Fault /\ UNCHANGED <<outbox, attempt>>
    /\ UNCHANGED <<mission, started, jobStatus, lease>>
    /\ UNCHANGED <<request, offer, wire, expired, mismatch, refused>>

\* markDispatchBlocked.  On a version conflict the loop looks for the lease
\* again and accepts instead, or defers.
MarkBlocked(l) ==
    LET j == loop[l].job IN
    /\ loop[l].pc = "block"
    /\ \/ /\ outbox[j] = "pending"
          /\ outbox' = [outbox EXCEPT ![j] = "blocked"]
          /\ attempt' = [attempt EXCEPT ![j] = "blocked"]
          /\ NextRow(l)
          /\ UNCHANGED faults
       \/ /\ outbox[j] # "pending"
          /\ IF outbox[j] = "accepted" /\ Existing(j, "defer") # "defer"
             THEN Goto(l, Existing(j, "defer"))
             ELSE NextRow(l)
          /\ UNCHANGED <<outbox, attempt, faults>>
       \/ Fault /\ NextRow(l) /\ UNCHANGED <<outbox, attempt>>
    /\ UNCHANGED <<mission, started, jobStatus, lease>>
    /\ UNCHANGED <<request, offer, wire, expired, mismatch, refused>>

----------------------------------------------------------------------------
(* The Runner and its connection *)

\* The Runner connects to a server, with its session resumed or a new one.
Connect(l) ==
    /\ conn.server = None
    /\ \E s \in {conn.session, conn.session + 1} :
         /\ s \in 1..MaxSession
         /\ conn' = [server |-> l, session |-> s]
    /\ UNCHANGED <<db, request, loop, offer, sent, accepting, runner, expired, mismatch, faults, refused>>

\* The connection is disposed: every deferred offer is rejected and the Runner
\* loses its queue and the work it was doing.
Drop ==
    /\ conn' = [conn EXCEPT !.server = None]
    /\ sent' = {}
    /\ runner' = NoRunner
    /\ loop' = [l \in Servers |->
                 IF loop[l].pc = "offering" THEN [loop[l] EXCEPT !.pc = "unavailable"] ELSE loop[l]]

Disconnect ==
    /\ conn.server # None
    /\ Fault
    /\ Drop
    /\ UNCHANGED <<db, request, offer, accepting, expired, mismatch, refused>>

AcceptOffer(l, j) ==
    /\ <<l, j>> \in sent /\ runner.pc = "idle"
    /\ sent' = sent \ {<<l, j>>}
    /\ accepting' = accepting \cup {<<l, j>>}
    /\ runner' = [job |-> j, pc |-> "accepting"]
    /\ UNCHANGED <<db, request, loop, offer, conn, expired, mismatch, faults, refused>>

\* accept on the promise chain: grantLease, or the lease it granted before.  It
\* may run after its connection is gone; then the Runner learns nothing.
GrantLease(l, j) ==
    /\ <<l, j>> \in accepting
    /\ accepting' = accepting \ {<<l, j>>}
    /\ lease' = [lease EXCEPT ![j] = IF @ = "none" THEN "active" ELSE @]
    /\ IF conn.server = l /\ runner = [job |-> j, pc |-> "accepting"]
       THEN /\ runner' = [runner EXCEPT !.pc = "executing"]
            /\ loop' = [loop EXCEPT ![l].pc =
                          IF @ = "offering" /\ loop[l].job = j THEN "accept" ELSE @]
       ELSE UNCHANGED <<runner, loop>>
    /\ UNCHANGED <<mission, started, outbox, attempt, jobStatus>>
    /\ UNCHANGED <<request, offer, sent, conn, expired, mismatch, faults, refused>>

\* An accept whose connection was disposed before it reached the chain.
LoseAccept(l, j) ==
    /\ <<l, j>> \in accepting /\ runner # [job |-> j, pc |-> "accepting"]
    /\ accepting' = accepting \ {<<l, j>>}
    /\ UNCHANGED <<db, request, loop, offer, sent, conn, runner, expired, mismatch, faults, refused>>

\* A lease nobody renews.  It lasts longer than the pause between two database
\* calls of a dispatch.
LoseLease(j) ==
    /\ lease[j] = "active"
    /\ \A l \in Servers : loop[l].job = j => loop[l].pc # "checked"
    /\ lease' = [lease EXCEPT ![j] = "lost"]
    /\ UNCHANGED <<mission, started, outbox, attempt, jobStatus>>
    /\ UNCHANGED <<request, loop, offer, wire, expired, mismatch, faults, refused>>

JobStatusFor(result) ==
    CASE result \in {"passed", "finding"} -> "completed"
      [] result = "blocked" -> "blocked"
      [] result = "error" -> "failed"

Terminal == {"completed", "blocked", "failed"}

\* missionStatusAfterCompletion, under the Mission's row lock.
MissionStatusAfter(status) ==
    LET hasBlocked == \E j \in Jobs : status[j] \in {"blocked", "failed"}
        allTerminal == \A j \in Jobs : status[j] \in Terminal
    IN CASE hasBlocked /\ (StopOnBlocked \/ allTerminal) -> "blocked"
         [] ~hasBlocked /\ allTerminal -> "completed"
         [] OTHER -> "running"

\* Mutant: the attempt need not have been accepted.
ProjectAny(j, result) ==
    /\ jobStatus' = [jobStatus EXCEPT ![j] = JobStatusFor(result)]
    /\ attempt' = [attempt EXCEPT ![j] = result]
    /\ mission' = IF mission = "running" THEN MissionStatusAfter(jobStatus') ELSE mission
    /\ lease' = [lease EXCEPT ![j] = "completed"]
    /\ UNCHANGED refused

\* The attempt is recorded as accepted, or has the status of the completion
\* already: projected before, or blocked by the loop and completed as blocked.
Projectable(j, result) == attempt[j] \in {"accepted", result}

\* completeLease with its projection, in one transaction, for a new completion
\* and for a duplicate.  An attempt that it does not fit rolls everything back
\* and fails the call.
Project(j, result) ==
    IF Projectable(j, result)
    THEN /\ lease' = [lease EXCEPT ![j] = "completed"]
         /\ attempt' = [attempt EXCEPT ![j] = result]
         /\ jobStatus' = [jobStatus EXCEPT ![j] = JobStatusFor(result)]
         /\ mission' = IF mission = "running" THEN MissionStatusAfter(jobStatus') ELSE mission
         /\ UNCHANGED refused
    ELSE /\ refused' = refused \cup {j}
         /\ UNCHANGED <<lease, attempt, jobStatus, mission>>

\* The Runner completes the job: the frame has no answer, and a refused one
\* ends the connection.
Complete(j, result) ==
    /\ runner = [job |-> j, pc |-> "executing"]
    /\ lease[j] = "active"
    /\ Project(j, result)
    /\ IF Projectable(j, result)
       THEN runner' = NoRunner /\ UNCHANGED <<conn, sent, loop>>
       ELSE Drop
    /\ UNCHANGED <<started, outbox, request, offer, accepting, expired, mismatch, faults>>

\* A completion that the Runner sends again is found to be a duplicate of the
\* stored one, which is projected once more.
CompleteAgain(j) ==
    /\ conn.server # None
    /\ lease[j] = "completed"
    /\ Project(j, attempt[j])
    /\ UNCHANGED <<started, outbox, request, loop, offer, wire, expired, mismatch, faults>>

\* The Runner's lease window closes over a lease that was lost.
StopRun ==
    /\ runner.pc = "executing" /\ lease[runner.job] # "active"
    /\ runner' = NoRunner
    /\ UNCHANGED <<db, request, loop, offer, sent, accepting, conn, expired, mismatch, faults, refused>>

PolicyExpires ==
    /\ ~expired
    /\ expired' = TRUE
    /\ UNCHANGED <<db, request, loop, offer, wire, mismatch, faults, refused>>

\* A Server process dies and is started again: its loop and its offers are
\* forgotten, and its connection is lost.
Restart(l) ==
    /\ Fault
    /\ loop' = [loop EXCEPT ![l] = Idle]
    /\ offer' = [offer EXCEPT ![l] = [j \in Jobs |-> 0]]
    /\ accepting' = {a \in accepting : a[1] # l}
    /\ IF conn.server = l
       THEN /\ conn' = [conn EXCEPT !.server = None]
            /\ sent' = {}
            /\ runner' = NoRunner
       ELSE UNCHANGED <<conn, sent, runner>>
    /\ UNCHANGED <<db, request, expired, mismatch, refused>>

LoopStep(l) ==
    \/ ReadPending(l) \/ OfferJob(l) \/ Reconcile(l)
    \/ MarkAccepted(l) \/ MarkBlocked(l)
    \/ \E j \in Jobs : CheckLease(l, j)

RunnerStep(l) ==
    \/ Connect(l)
    \/ \E j \in Jobs : AcceptOffer(l, j) \/ GrantLease(l, j) \/ LoseAccept(l, j)

Next ==
    \/ \E q \in Requests : ScheduleMission(q) \/ \E k \in Keys : BeginStart(q, k)
    \/ \E l \in Servers : LoopStep(l) \/ RunnerStep(l) \/ Restart(l)
    \/ Disconnect
    \/ \E j \in Jobs : LoseLease(j) \/ CompleteAgain(j) \/ \E r \in Results : Complete(j, r)
    \/ StopRun
    \/ PolicyExpires

Spec == Init /\ [][Next]_vars

\* The loops are driven by timers; the Runner reconnects, takes the offers of
\* its queue and completes its job.
FairSpec ==
    /\ Spec
    /\ \A l \in Servers : WF_vars(LoopStep(l)) /\ WF_vars(RunnerStep(l))
    /\ WF_vars(StopRun) /\ WF_vars(\E j \in Jobs, r \in Results : Complete(j, r))

----------------------------------------------------------------------------
\* Replays of a start command return the runs of the one command that
\* scheduled the Mission, and no second command allocates any.
StartedOnce ==
    \A q \in Requests : request[q].pc = "done" =>
        request[q].result = started /\ request[q].key = request[started].key

\* A dispatch is recorded as accepted only when its run was leased, over
\* restarts, lost connections and sessions that end while it is offered.
AcceptedWasLeased == \A j \in Jobs : outbox[j] = "accepted" => lease[j] # "none"

\* Outbox, attempt, job and lease, which the loop and the projection write in
\* different transactions, tell one story.  A job is finished with its lease,
\* and its attempt has the matching result; what the loop recorded of the row
\* stays true, so a row it blocked has no other completion than a blocked one.
ProjectionsAgree ==
    \A j \in Jobs :
        /\ jobStatus[j] \in Terminal <=> lease[j] = "completed"
        /\ lease[j] = "completed" =>
             /\ attempt[j] \in Results /\ JobStatusFor(attempt[j]) = jobStatus[j]
             /\ outbox[j] \in {"accepted", "blocked"}
        /\ outbox[j] = "blocked" => attempt[j] = "blocked"
        /\ outbox[j] = "accepted" => attempt[j] = "accepted" \/ lease[j] = "completed"

\* The Mission ends exactly when its jobs say so, whichever of them completes
\* last and however many were never dispatched.
MissionFollowsJobs ==
    LET done == \A j \in Jobs : jobStatus[j] \in Terminal
        good == \A j \in Jobs : jobStatus[j] \in {"queued", "completed"}
    IN /\ mission = "completed" => done /\ good
       /\ mission = "blocked" => ~good /\ (StopOnBlocked \/ done)
       /\ mission = "running" => ~done /\ (StopOnBlocked => good)

\* A run that was leased is settled in the outbox in the end, whatever failed
\* between the lease and the acknowledgement.
LeasedIsSettled ==
    \A j \in Jobs : lease[j] # "none" ~> outbox[j] \in {"accepted", "blocked"}

\* "A Run has one authoritative owner and one terminal completion": the
\* completion that the owner of a valid lease presents is never refused.  The
\* code does not have this property.
OwnerCompletes == refused = {}
=============================================================================

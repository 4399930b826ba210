--------------------------- MODULE IntelligenceQueue ---------------------------
(***************************************************************************)
(* Model work of one tenant on one Investigation, from the job that a      *)
(* Worker leases to the disposition of its Result: the leases and the      *)
(* Result inbox behind the Worker-facing SQL functions, the Worker loop,   *)
(* the tenant's wakeup, the Server's consumer loops and the transaction in *)
(* which a consumer applies a batch of Results.                            *)
(*                                                                         *)
(* Time is not counted: a lease or a claim expires when an action says so. *)
(* The SQL functions compare with transaction_timestamp(), so what a       *)
(* transaction thinks of an expiry is fixed when it begins and used when   *)
(* its statements run.  Transactions are READ COMMITTED: a consumer's      *)
(* reads see what is committed now and its own writes.                     *)
(***************************************************************************)
EXTENDS Naturals, Sequences, FiniteSets

CONSTANTS
    InitialJobs, \* names of the jobs enqueued on version 1 of the case
    Workers,     \* Intelligence Workers
    Consumers,   \* Server processes with a Result consumer loop
    None,
    SameId,      \* whether the Servers share their configured consumerId
    BatchSize,   \* resultBatchSize
    MaxAttempts, \* bound: leases of a job
    MaxRenewals, \* bound: renewals of a lease
    MaxFaults    \* bound: lost answers, aborted transactions and crashes

ASSUME QueueAssumption ==
    /\ None \notin Workers \cup Consumers \cup InitialJobs
    /\ SameId \in BOOLEAN
    /\ BatchSize \in Nat \ {0}
    /\ MaxAttempts \in Nat /\ MaxRenewals \in Nat /\ MaxFaults \in Nat

VARIABLES
    leases,      \* intelligence_jobs with the intelligence_leases of each
    inbox,       \* intelligence_result_inbox, in the order of accepted_at
    disposition, \* intelligence_result_dispositions.status of a job's Result
    ledger,      \* intelligence_applied_results: the jobs whose Result took effect
    version,     \* investigation_cases.version
    wakeup,      \* the tenant's row of intelligence_result_wakeups
    worker,      \* the step every Worker is at
    consumer,    \* the step every consumer is at, with its transaction's writes
    faults

queue == <<leases, inbox>>
applied == <<disposition, ledger, version>>
vars == <<queue, applied, wakeup, worker, consumer, faults>>

Jobs == DOMAIN leases

\* A job's id goes with the version it is computed on.
Enqueued == InitialJobs \X {1}
Base(j) == j[2]

\* recomputeFollowUpJob: the id and the key are a digest of the stale job and
\* the version it is computed anew on.
FollowUp(j, v) == <<j, v>>

IdleWorker == [pc |-> "idle", job |-> None, attempt |-> 0, fresh |-> FALSE, seen |-> 0]
NoWrites == [disposition |-> {}, ledger |-> {}, jobs |-> {}]
IdleConsumer == [pc |-> "idle", gen |-> 0, todo |-> <<>>, outcome |-> None,
                 again |-> FALSE, writes |-> NoWrites]

Init ==
    /\ leases = [j \in Enqueued |-> <<>>]
    /\ inbox = <<>>
    /\ disposition = [j \in {} |-> None]
    /\ ledger = {}
    /\ version = 1
    /\ wakeup = [gen |-> 0, status |-> "idle", owner |-> None, leaseGen |-> 0, expired |-> FALSE]
    /\ worker = [w \in Workers |-> IdleWorker]
    /\ consumer = [c \in Consumers |-> IdleConsumer]
    /\ faults = 0

Fault == faults < MaxFaults /\ faults' = faults + 1

----------------------------------------------------------------------------
(* The Worker-facing queue *)

Live(l) == l.state = "live"
HasResult(j) == \E i \in DOMAIN inbox : inbox[i].job = j
Claimed(j) == \E w \in Workers : worker[w].pc = "claiming" /\ worker[w].job = j

\* worker_claim_intelligence_lease, its select: a job without a Result and
\* without a live lease, whose row no other claim has locked.  The attempt
\* remembered is the expired one to release, 0 if there is none.
SelectJob(w, j) ==
    /\ worker[w].pc = "idle"
    /\ Len(leases[j]) < MaxAttempts
    /\ ~HasResult(j) /\ ~Claimed(j)
    /\ \A a \in DOMAIN leases[j] : Live(leases[j][a]) => leases[j][a].expired
    /\ worker' = [worker EXCEPT ![w] = [IdleWorker EXCEPT !.pc = "claiming", !.job = j,
         !.attempt = IF \E a \in DOMAIN leases[j] : Live(leases[j][a]) THEN Len(leases[j]) ELSE 0]]
    /\ UNCHANGED <<queue, applied, wakeup, consumer, faults>>

\* Mutant: the release does not ask whether the lease has completed meanwhile.
ReleaseAll(j, a) ==
    IF a = 0 THEN leases[j] ELSE [leases[j] EXCEPT ![a].state = "released"]

\* The update that releases the expired lease, unless its owner's append or
\* renewal has committed since the select.
ReleaseExpired(j, a) ==
    IF a # 0 /\ Live(leases[j][a]) /\ leases[j][a].expired
    THEN [leases[j] EXCEPT ![a].state = "released"]
    ELSE leases[j]

\* The rest of the claim.  The index on live leases refuses a second one, and
\* the claim fails with its transaction.
InsertLease(w) ==
    LET j == worker[w].job
        released == ReleaseExpired(j, worker[w].attempt)
    IN
    /\ worker[w].pc = "claiming"
    /\ IF \E a \in DOMAIN released : Live(released[a])
       THEN worker' = [worker EXCEPT ![w] = IdleWorker] /\ UNCHANGED leases
       ELSE /\ leases' = [leases EXCEPT ![j] = Append(released,
                 [worker |-> w, state |-> "live", expired |-> FALSE, renewals |-> 0])]
            /\ worker' = [worker EXCEPT ![w].pc = "working", ![w].attempt = Len(released) + 1]
    /\ UNCHANGED <<inbox, applied, wakeup, consumer, faults>>

ExpireLease(j) ==
    /\ \E a \in DOMAIN leases[j] :
         /\ Live(leases[j][a]) /\ ~leases[j][a].expired
         /\ leases' = [leases EXCEPT ![j][a].expired = TRUE]
    /\ UNCHANGED <<inbox, applied, wakeup, worker, consumer, faults>>

Mine(w) == leases[worker[w].job][worker[w].attempt]
Step(w, pc) == worker' = [worker EXCEPT ![w].pc = pc]

\* A renewal of startRenewalLoop, or the append once that loop has stopped,
\* begins: its timestamp is fixed.
Begin(w, pc) ==
    /\ worker[w].pc = "working"
    /\ pc = "renewing" => Mine(w).renewals < MaxRenewals
    /\ worker' = [worker EXCEPT ![w].pc = pc, ![w].fresh = ~Mine(w).expired,
                                ![w].seen = IF pc = "appending" THEN Len(inbox) ELSE 0]
    /\ UNCHANGED <<queue, applied, wakeup, consumer, faults>>

Renewed(l) == [l EXCEPT !.expired = FALSE, !.renewals = @ + 1]

\* worker_renew_intelligence_lease.  An error, or a lost answer, ends the
\* renewal loop, and the Result will not be appended.
Renew(w) ==
    LET renewed == Live(Mine(w)) /\ worker[w].fresh IN
    /\ worker[w].pc = "renewing"
    /\ leases' = IF renewed
                 THEN [leases EXCEPT ![worker[w].job][worker[w].attempt] = Renewed(Mine(w))]
                 ELSE leases
    /\ \/ Step(w, IF renewed THEN "working" ELSE "failing") /\ UNCHANGED faults
       \/ Step(w, "failing") /\ Fault
    /\ UNCHANGED <<inbox, applied, wakeup, consumer>>

\* signalWakeupSql
SignalWakeup == [wakeup EXCEPT !.gen = @ + 1, !.status = "pending"]

\* worker_append_intelligence_result: under the lease's row lock, refuse a key
\* that another attempt has used or a lease that is not live and unexpired;
\* else insert the Result, complete the lease and signal the tenant.  The
\* Result may sort before those that committed while this append was running.
AppendResult(w, verdict) ==
    LET j == worker[w].job
        accepted == ~HasResult(j) /\ Live(Mine(w)) /\ worker[w].fresh
    IN
    /\ worker[w].pc = "appending"
    /\ IF accepted
       THEN /\ \E n \in worker[w].seen .. Len(inbox) :
                 inbox' = SubSeq(inbox, 1, n)
                            \o <<[job |-> j, attempt |-> worker[w].attempt,
                                  renewals |-> Mine(w).renewals, verdict |-> verdict]>>
                            \o SubSeq(inbox, n + 1, Len(inbox))
            /\ leases' = [leases EXCEPT ![j][worker[w].attempt].state = "completed"]
            /\ wakeup' = SignalWakeup
       ELSE UNCHANGED <<queue, wakeup>>
    /\ \/ accepted /\ worker' = [worker EXCEPT ![w] = IdleWorker] /\ UNCHANGED faults
       \/ ~accepted /\ Step(w, "failing") /\ UNCHANGED faults
       \/ accepted /\ Step(w, "failing") /\ Fault
    /\ UNCHANGED <<applied, consumer>>

\* The catch of runStep: processing, renewal or append failed, or the loop is
\* aborted.  worker_abandon_intelligence_lease releases a lease that is live.
Abandon(w) ==
    /\ worker[w].pc \in {"working", "failing"}
    /\ worker' = [worker EXCEPT ![w] = IdleWorker]
    /\ leases' = IF Live(Mine(w))
                 THEN [leases EXCEPT ![worker[w].job][worker[w].attempt].state = "released"]
                 ELSE leases
    /\ UNCHANGED <<inbox, applied, wakeup, consumer, faults>>

CrashWorker(w) ==
    /\ worker[w].pc # "idle"
    /\ Fault
    /\ worker' = [worker EXCEPT ![w] = IdleWorker]
    /\ UNCHANGED <<queue, applied, wakeup, consumer>>

----------------------------------------------------------------------------
(* The wakeup and the consumer loop *)

Owner(c) == IF SameId THEN "server" ELSE c
Set(c, r) == consumer' = [consumer EXCEPT ![c] = r]

\* Mutant: a claim is honoured until its owner gives it back.
DueUnowned == wakeup.status = "pending" /\ wakeup.owner = None

\* The candidate rows of server_claim_intelligence_result_wakeups.
Due == wakeup.status = "pending" /\ (wakeup.owner = None \/ wakeup.expired)

ClaimWakeup(c) ==
    /\ consumer[c].pc = "idle" /\ Due
    /\ wakeup' = [wakeup EXCEPT !.owner = Owner(c), !.leaseGen = wakeup.gen, !.expired = FALSE]
    /\ Set(c, [IdleConsumer EXCEPT !.pc = "claimed", !.gen = wakeup.gen])
    /\ UNCHANGED <<queue, applied, worker, faults>>

ExpireWakeup ==
    /\ wakeup.owner # None /\ ~wakeup.expired
    /\ wakeup' = [wakeup EXCEPT !.expired = TRUE]
    /\ UNCHANGED <<queue, applied, worker, consumer, faults>>

\* pendingResultQuery: no disposition, and the lease of the Result is completed,
\* not released, and has the expiry the Result was accepted under.
Pending(r) ==
    LET l == leases[r.job][r.attempt] IN
    /\ r.job \notin DOMAIN disposition
    /\ l.state = "completed" /\ l.renewals = r.renewals

\* Its limit and order: the n rows at these places are the oldest pending ones,
\* all of them or as many as the batch may have.
IsBatch(at, n) ==
    /\ \A k, l \in 1..n : k < l => at[k] < at[l]
    /\ \A k \in 1..n : Pending(inbox[at[k]])
    /\ \A i \in DOMAIN inbox : Pending(inbox[i]) =>
         \/ \E k \in 1..n : at[k] = i
         \/ n = BatchSize /\ \A k \in 1..n : at[k] < i

\* consumeForTenant opens its transaction and selects the batch.
ReadBatch(c) ==
    /\ consumer[c].pc = "claimed"
    /\ \E n \in 0..BatchSize : \E at \in [1..n -> DOMAIN inbox] :
         /\ IsBatch(at, n)
         /\ Set(c, [consumer[c] EXCEPT !.pc = IF n = 0 THEN "commit" ELSE "find",
                                       !.todo = [k \in 1..n |-> inbox[at[k]]]])
    /\ UNCHANGED <<queue, applied, wakeup, worker, faults>>

Row(c) == Head(consumer[c].todo)
Goto(c, pc, outcome) == Set(c, [consumer[c] EXCEPT !.pc = pc, !.outcome = outcome])

\* The version a consumer reads: its own update, if it has made one.
Seen(c) == version + Cardinality(consumer[c].writes.ledger)

\* decodePendingPayload and IntelligenceResultApplier.apply up to the ledger: a
\* bad Result may be malformed, which is found first.
FindApplied(c) ==
    /\ consumer[c].pc = "find"
    /\ \/ Row(c).verdict = "bad" /\ Goto(c, "record", "rejected")
       \/ IF Row(c).job \in ledger THEN Goto(c, "record", "duplicate")
                                   ELSE Goto(c, "version", None)
    /\ UNCHANGED <<queue, applied, wakeup, worker, faults>>

\* The rest of its checks: the base version, then the content of the Result.
CheckVersion(c) ==
    /\ consumer[c].pc = "version"
    /\ IF Seen(c) # Base(Row(c).job) THEN Goto(c, "record", "recompute")
       ELSE IF Row(c).verdict = "bad" THEN Goto(c, "record", "rejected")
       ELSE Goto(c, "load", None)
    /\ UNCHANGED <<queue, applied, wakeup, worker, faults>>

\* execute: the case is read again, and its command refuses another version
\* with an InvestigationError, which the consumer records as a rejection.
LoadCase(c) ==
    /\ consumer[c].pc = "load"
    /\ IF Seen(c) # Base(Row(c).job) THEN Goto(c, "record", "rejected") ELSE Goto(c, "update", None)
    /\ UNCHANGED <<queue, applied, wakeup, worker, faults>>

\* Another transaction has updated the case's row and holds its lock.
Locked(c) == \E d \in Consumers \ {c} : consumer[d].writes.ledger # {}

WithEffect(c) == [consumer[c].writes EXCEPT !.ledger = @ \cup {Row(c).job}]

\* Mutant: the update is not conditional on the version that was read.
UpdateBlindly(c) ==
    /\ consumer[c].pc = "update" /\ ~Locked(c)
    /\ Set(c, [consumer[c] EXCEPT !.pc = "record", !.outcome = "applied", !.writes = WithEffect(c)])
    /\ UNCHANGED <<queue, applied, wakeup, worker, faults>>

\* persistInvestigationTransition waits for the row, and fails the transaction
\* if the row is not at the version it had; then the ledger is written.
UpdateCase(c) ==
    /\ consumer[c].pc = "update" /\ ~Locked(c)
    /\ Set(c, IF Seen(c) = Base(Row(c).job)
              THEN [consumer[c] EXCEPT !.pc = "record", !.outcome = "applied",
                                       !.writes = WithEffect(c)]
              ELSE [consumer[c] EXCEPT !.pc = "finish", !.again = TRUE, !.writes = NoWrites])
    /\ UNCHANGED <<queue, applied, wakeup, worker, faults>>

Writes(c) == {d.job : d \in consumer[c].writes.disposition}

\* The first disposition of a Result stands.
IsFirst(c) == Row(c).job \notin DOMAIN disposition
Standing(c) == IF IsFirst(c) THEN consumer[c].outcome ELSE disposition[Row(c).job]

\* Mutant: the follow-up does not depend on whose disposition was recorded.
AfterRecordAlways(c) ==
    IF consumer[c].outcome = "recompute"
    THEN consumer[c].writes.jobs \cup {FollowUp(Row(c).job, Seen(c))}
    ELSE consumer[c].writes.jobs

\* createRecomputeFollowUp, only by the transaction that recorded "recompute".
AfterRecord(c) ==
    IF IsFirst(c) /\ consumer[c].outcome = "recompute"
    THEN consumer[c].writes.jobs \cup {FollowUp(Row(c).job, Seen(c))}
    ELSE consumer[c].writes.jobs

WithRecord(c) ==
    [consumer[c].writes EXCEPT
       !.disposition = IF IsFirst(c)
                       THEN @ \cup {[job |-> Row(c).job, status |-> consumer[c].outcome]} ELSE @,
       !.jobs = AfterRecord(c)]

\* TransactionResultDispositionRecorder.record, and what follows it.  An insert
\* of a key that another transaction has inserted waits for it.
RecordDisposition(c) ==
    /\ consumer[c].pc = "record"
    /\ \A d \in Consumers \ {c} : Row(c).job \notin Writes(d)
    /\ Set(c, [consumer[c] EXCEPT
         !.pc = IF Len(consumer[c].todo) > 1 THEN "find" ELSE "commit",
         !.todo = Tail(@), !.outcome = None,
         !.again = @ \/ Standing(c) = "recompute", !.writes = WithRecord(c)])
    /\ UNCHANGED <<queue, applied, wakeup, worker, faults>>

\* What is left is read, and the transaction commits; its answer may be lost.
Commit(c) ==
    LET w == consumer[c].writes
        done == DOMAIN disposition \cup Writes(c)
        more == \E i \in DOMAIN inbox : Pending(inbox[i]) /\ inbox[i].job \notin done
    IN
    /\ consumer[c].pc = "commit"
    /\ disposition' = [j \in done |->
         IF j \in DOMAIN disposition THEN disposition[j]
         ELSE (CHOOSE d \in w.disposition : d.job = j).status]
    /\ ledger' = ledger \cup w.ledger
    /\ version' = Seen(c)
    /\ leases' = [j \in Jobs \cup w.jobs |-> IF j \in Jobs THEN leases[j] ELSE <<>>]
    /\ \/ Set(c, [consumer[c] EXCEPT !.pc = "finish", !.again = @ \/ more, !.writes = NoWrites])
          /\ UNCHANGED faults
       \/ Set(c, [consumer[c] EXCEPT !.pc = "finish", !.again = TRUE, !.writes = NoWrites])
          /\ Fault
    /\ UNCHANGED <<inbox, wakeup, worker>>

\* Mutant: whoever holds the claim puts the wakeup to sleep.
CompleteAny(gen) == [wakeup EXCEPT !.status = "idle", !.owner = None, !.expired = FALSE]

\* server_complete_intelligence_result_wakeup
CompleteWakeup(gen) ==
    [wakeup EXCEPT !.status = IF wakeup.gen = gen THEN "idle" ELSE "pending",
                   !.owner = None, !.expired = FALSE]

\* server_retry_intelligence_result_wakeup; when it is due again is left open.
RetryWakeup == [wakeup EXCEPT !.status = "pending", !.owner = None, !.expired = FALSE]

\* The end of consumeClaim: complete, or retry after an error, a recompute or a
\* bounded batch.  A claim that is no longer this one's changes nothing.
FinishClaim(c) ==
    LET gen == consumer[c].gen
        mine == wakeup.owner = Owner(c) /\ wakeup.leaseGen = gen
    IN
    /\ consumer[c].pc = "finish"
    /\ wakeup' = IF ~mine THEN wakeup
                 ELSE IF consumer[c].again THEN RetryWakeup ELSE CompleteWakeup(gen)
    /\ Set(c, IdleConsumer)
    /\ UNCHANGED <<queue, applied, worker, faults>>

\* The transaction fails or is aborted, or the whole process dies.
AbortBatch(c) ==
    /\ consumer[c].pc \notin {"idle", "finish"}
    /\ Fault
    /\ \/ Set(c, [consumer[c] EXCEPT !.pc = "finish", !.again = TRUE, !.writes = NoWrites,
                                     !.todo = <<>>, !.outcome = None])
       \/ Set(c, IdleConsumer)
    /\ UNCHANGED <<queue, applied, wakeup, worker>>

----------------------------------------------------------------------------
WorkerStep(w) ==
    \/ \E j \in Jobs : SelectJob(w, j)
    \/ InsertLease(w)
    \/ \E pc \in {"renewing", "appending"} : Begin(w, pc)
    \/ Renew(w)
    \/ \E verdict \in {"good", "bad"} : AppendResult(w, verdict)
    \/ Abandon(w) \/ CrashWorker(w)

ConsumerStep(c) ==
    \/ ClaimWakeup(c) \/ ReadBatch(c)
    \/ FindApplied(c) \/ CheckVersion(c) \/ LoadCase(c) \/ UpdateCase(c)
    \/ RecordDisposition(c) \/ Commit(c) \/ FinishClaim(c)

Next ==
    \/ \E w \in Workers : WorkerStep(w)
    \/ \E j \in Jobs : ExpireLease(j)
    \/ \E c \in Consumers : ConsumerStep(c) \/ AbortBatch(c)
    \/ ExpireWakeup

Spec == Init /\ [][Next]_vars

\* The consumer loops are driven by timers, and time passes.
FairSpec ==
    /\ Spec
    /\ \A c \in Consumers : WF_vars(ConsumerStep(c))
    /\ WF_vars(ExpireWakeup)

----------------------------------------------------------------------------
Accepted == {inbox[i].job : i \in DOMAIN inbox}

\* An accepted Result stays one that the consumer can find until it has a
\* disposition: no claim or renewal that raced its append takes its lease away.
AcceptedIsFound ==
    \A i \in DOMAIN inbox : inbox[i].job \notin DOMAIN disposition => Pending(inbox[i])

\* A wakeup sleeps only when every accepted Result has its disposition: a stale
\* owner cannot clear newer work.
NoLostWakeup == wakeup.status = "idle" => Accepted \subseteq DOMAIN disposition

\* Every effect is one version of the case, recorded once and with its
\* disposition, whichever consumers worked on the Result at the same time.
EffectOnce ==
    /\ version = 1 + Cardinality(ledger)
    /\ ledger = {j \in DOMAIN disposition : disposition[j] = "applied"}

\* A Result that is recomputed has its one follow-up job, and no other has any.
FollowUpOnce ==
    \A j \in Jobs :
        Cardinality({v \in 2..version : FollowUp(j, v) \in Jobs})
          = IF j \in DOMAIN disposition /\ disposition[j] = "recompute" THEN 1 ELSE 0

\* "restart never loses accepted Results": each gets its disposition.
ResultsSettle == \A j \in Enqueued : j \in Accepted ~> j \in DOMAIN disposition

\* "rejects stale results whose base aggregate version has moved on (returning
\* recompute)": a Result with nothing wrong but its base version is never
\* rejected.  The code does not have this property.
StaleIsRecomputed ==
    \A i \in DOMAIN inbox :
        inbox[i].verdict = "good" /\ inbox[i].job \in DOMAIN disposition
          => disposition[inbox[i].job] # "rejected"
=============================================================================

----------------------- MODULE IntelligenceQueueProofs -----------------------
(***************************************************************************)
(* IntelligenceQueue, for every set of jobs, Workers and consumers, every  *)
(* batch size and any number of attempts, renewals and faults: an accepted *)
(* Result stays in reach of the consumers, the wakeup never sleeps on one, *)
(* a Result takes effect once and with its disposition, and a recomputed   *)
(* Result has one follow-up job.                                           *)
(***************************************************************************)
EXTENDS IntelligenceQueue, Integers, FiniteSetTheorems, SequenceTheorems, TLAPS

Outcomes == {"applied", "duplicate", "recompute", "rejected"}
Busy == {"find", "version", "load", "update", "record"}
Working == {"working", "renewing", "appending", "failing"}

Lease == [worker : Workers, state : {"live", "released", "completed"},
          expired : BOOLEAN, renewals : Nat]
ResultRow == [job : Jobs, attempt : Nat, renewals : Nat, verdict : {"good", "bad"}]
WakeupState ==
    [gen : Nat, status : {"idle", "pending"}, owner : Consumers \cup {"server", None},
     leaseGen : Nat, expired : BOOLEAN]
WorkerState ==
    [pc : Working \cup {"idle", "claiming"}, job : Jobs \cup {None}, attempt : Nat,
     fresh : BOOLEAN, seen : Nat]
TxnWrites ==
    [disposition : SUBSET [job : Jobs, status : Outcomes], ledger : SUBSET Jobs,
     jobs : SUBSET (Jobs \X Nat)]
ConsumerState ==
    [pc : Busy \cup {"idle", "claimed", "commit", "finish"}, gen : Nat, todo : Seq(ResultRow),
     outcome : Outcomes \cup {None}, again : BOOLEAN, writes : TxnWrites]

(* A consumer that works on a row has one, and records what it decided.    *)
WellFormed(r) ==
    /\ r \in ConsumerState
    /\ IsFiniteSet(r.writes.ledger)
    /\ r.pc \in Busy => r.todo # <<>>
    /\ r.pc = "record" => r.outcome \in Outcomes

TypeOK ==
    /\ leases \in [Jobs -> Seq(Lease)]
    /\ inbox \in Seq(ResultRow)
    /\ disposition \in [DOMAIN disposition -> Outcomes]
    /\ version \in Nat
    /\ wakeup \in WakeupState
    /\ worker \in [Workers -> WorkerState]
    /\ consumer \in [Consumers -> ConsumerState]
    /\ \A c \in Consumers : WellFormed(consumer[c])

(* A Worker's attempt is one of the leases of its job, and an append sorts *)
(* its Result into what is left of the inbox it began with.                *)
Holding(r) ==
    /\ r.pc # "idle" => r.job \in Jobs
    /\ r.pc \in Working => r.attempt \in DOMAIN leases[r.job]
    /\ r.pc = "claiming" => r.attempt = 0 \/ r.attempt \in DOMAIN leases[r.job]
    /\ r.pc = "appending" => r.seen <= Len(inbox)

(* The lease a Result was accepted under.                                  *)
RowHeld(r) ==
    /\ r.attempt \in DOMAIN leases[r.job]
    /\ leases[r.job][r.attempt].state = "completed"
    /\ leases[r.job][r.attempt].renewals = r.renewals

OneRow == \A i, k \in DOMAIN inbox : inbox[i].job = inbox[k].job => i = k

QueueInv ==
    /\ \A w \in Workers : Holding(worker[w])
    /\ \A i \in DOMAIN inbox : RowHeld(inbox[i])
    /\ OneRow

(* A claim is of a generation there has been, and one that will complete   *)
(* the generation there is has seen every Result disposed of.              *)
ClaimOK(r) ==
    /\ r.gen <= wakeup.gen
    /\ r.pc = "finish" /\ ~r.again /\ r.gen = wakeup.gen => Accepted \subseteq DOMAIN disposition

WakeupInv == NoLostWakeup /\ \A c \in Consumers : ClaimOK(consumer[c])

InInbox(r) == \E i \in DOMAIN inbox : inbox[i] = r
Bad(j) == \E i \in DOMAIN inbox : inbox[i].job = j /\ inbox[i].verdict = "bad"
Good(j) == \E i \in DOMAIN inbox : inbox[i].job = j /\ inbox[i].verdict = "good"

(* What disposes of a Result: the case has left its version behind, or the *)
(* Result itself is refused.                                               *)
Passed(j, v) == Base(j) < v \/ Bad(j)

CaseInv ==
    /\ IsFiniteSet(ledger) /\ EffectOnce
    /\ DOMAIN disposition \subseteq Jobs
    /\ \A j \in Jobs : j = <<j[1], j[2]>> /\ j[2] \in 1..version
    /\ \A j \in DOMAIN disposition : Passed(j, version)
    /\ \A j \in ledger : Base(j) < version

IsFollowUp(k) == k[2] # 1

FollowUpInv ==
    /\ \A k \in Jobs : IsFollowUp(k) =>
         k[1] \in DOMAIN disposition /\ disposition[k[1]] = "recompute"
    /\ \A k, l \in Jobs : IsFollowUp(k) /\ IsFollowUp(l) /\ k[1] = l[1] => k = l
    /\ \A j \in DOMAIN disposition : disposition[j] = "recompute" =>
         \E v \in 2..version : FollowUp(j, v) \in Jobs

(* Seen and Writes, of a transaction.                                      *)
Sees(r) == version + Cardinality(r.writes.ledger)
Recorded(r) == {d.job : d \in r.writes.disposition}

(* The rows to do are Results of different jobs, none of them recorded.    *)
Batch(r) ==
    r.pc \in Busy =>
      /\ \A k \in DOMAIN r.todo : InInbox(r.todo[k]) /\ r.todo[k].job \notin Recorded(r)
      /\ \A k, l \in DOMAIN r.todo : r.todo[k].job = r.todo[l].job => k = l

Quiet(r) == r.pc \in {"idle", "claimed", "finish"} => r.writes = NoWrites

(* A transaction has one effect at most, on the version there is, and with *)
(* its disposition or about to record it.                                  *)
Effect(r) ==
    /\ \A j \in r.writes.ledger :
         /\ Base(j) = version /\ Good(j)
         /\ \/ [job |-> j, status |-> "applied"] \in r.writes.disposition
            \/ r.pc = "record" /\ r.outcome = "applied" /\ r.todo[1].job = j
    /\ \A j, k \in r.writes.ledger : j = k

(* What it has recorded.                                                   *)
Dispositions(r) ==
    /\ \A d \in r.writes.disposition :
         /\ d.job \notin DOMAIN disposition
         /\ Passed(d.job, Sees(r))
         /\ d.status = "recompute" => Base(d.job) < Sees(r)
         /\ d.status = "applied" => d.job \in r.writes.ledger
    /\ \A d, e \in r.writes.disposition : d.job = e.job => d = e

(* What it has decided on the row it is at.                                *)
Deciding(r) ==
    /\ r.pc \in {"load", "update"} => r.todo[1].verdict = "good"
    /\ r.pc = "record" =>
         /\ Passed(r.todo[1].job, Sees(r))
         /\ r.outcome = "recompute" => Base(r.todo[1].job) < Sees(r)
         /\ r.outcome = "applied" => r.todo[1].job \in r.writes.ledger

(* It enqueues one follow-up for each Result it recomputes.                *)
FollowUps(r) ==
    /\ \A k \in r.writes.jobs :
         /\ k[2] \in 2..Sees(r)
         /\ [job |-> k[1], status |-> "recompute"] \in r.writes.disposition
    /\ \A k, l \in r.writes.jobs : k[1] = l[1] => k = l
    /\ \A d \in r.writes.disposition : d.status = "recompute" =>
         \E v \in 2..Sees(r) : FollowUp(d.job, v) \in r.writes.jobs

Txn(r) == Batch(r) /\ Quiet(r) /\ Effect(r) /\ Dispositions(r) /\ Deciding(r) /\ FollowUps(r)

(* The row lock of the case and the keys of the dispositions keep two      *)
(* transactions apart.                                                     *)
Apart(r, s) ==
    /\ r.writes.ledger = {} \/ s.writes.ledger = {}
    /\ Recorded(r) \cap Recorded(s) = {}

TxnInv ==
    /\ \A c \in Consumers : Txn(consumer[c])
    /\ \A c, d \in Consumers : c # d => Apart(consumer[c], consumer[d])

Inv == TypeOK /\ QueueInv /\ WakeupInv /\ CaseInv /\ FollowUpInv /\ TxnInv

----------------------------------------------------------------------------
(* Leases *)

(* A step of the queue keeps the leases there are and every completed one. *)
LeasesKept ==
    /\ Jobs \subseteq Jobs'
    /\ \A j \in Jobs :
         /\ DOMAIN leases[j] \subseteq DOMAIN leases'[j]
         /\ \A a \in DOMAIN leases[j] :
              leases[j][a].state = "completed" => leases'[j][a] = leases[j][a]

(* The two ways in which the leases of a job change.                       *)
LEMMA ReplaceLeases ==
    ASSUME leases \in [Jobs -> Seq(Lease)], NEW j \in Jobs, NEW s \in Seq(Lease),
           leases' = [leases EXCEPT ![j] = s],
           DOMAIN leases[j] \subseteq DOMAIN s,
           \A a \in DOMAIN leases[j] : leases[j][a].state = "completed" => s[a] = leases[j][a]
    PROVE  Jobs' = Jobs /\ leases' \in [Jobs' -> Seq(Lease)] /\ LeasesKept /\ leases'[j] = s
  BY DEF LeasesKept, Jobs

LEMMA ChangeLease ==
    ASSUME leases \in [Jobs -> Seq(Lease)], NEW j \in Jobs, NEW a \in DOMAIN leases[j],
           NEW l \in Lease, leases[j][a].state # "completed",
           leases' = [leases EXCEPT ![j] = [leases[j] EXCEPT ![a] = l]]
    PROVE  /\ Jobs' = Jobs /\ leases' \in [Jobs' -> Seq(Lease)] /\ LeasesKept
           /\ DOMAIN leases'[j] = DOMAIN leases[j]
           /\ leases'[j][a] = l
<1> DEFINE s == [leases[j] EXCEPT ![a] = l]
<1>1. leases[j] \in Seq(Lease) /\ DOMAIN leases[j] = 1..Len(leases[j]) /\ Len(leases[j]) \in Nat
  BY LenProperties
<1>2. s \in Seq(Lease) /\ DOMAIN s = DOMAIN leases[j] /\ s[a] = l
      /\ \A b \in DOMAIN leases[j] : b # a => s[b] = leases[j][b]
  BY <1>1, ExceptSeq
<1> HIDE DEF s
<1>3. \A b \in DOMAIN leases[j] : leases[j][b].state = "completed" => s[b] = leases[j][b]
  BY <1>2
<1>4. leases' = [leases EXCEPT ![j] = s]
  BY DEF s
<1> QED
  BY <1>2, <1>3, <1>4, ReplaceLeases, ZenonT(60)

LEMMA LeaseAt ==
    ASSUME leases \in [Jobs -> Seq(Lease)], NEW j \in Jobs, NEW a \in DOMAIN leases[j]
    PROVE  leases[j][a] \in Lease
  BY LenProperties, ElementOfSeq

(* A lease that a queue function updates.                                  *)
LEMMA LeaseFields ==
    ASSUME NEW l \in Lease
    PROVE  /\ \A s \in {"live", "released", "completed"} :
                [l EXCEPT !.state = s] \in Lease /\ [l EXCEPT !.state = s].state = s
                /\ [l EXCEPT !.state = s].renewals = l.renewals
           /\ [l EXCEPT !.expired = TRUE] \in Lease
           /\ Renewed(l) \in Lease
           /\ l.state \in {"live", "released", "completed"} /\ l.renewals \in Nat
<1>1. ASSUME NEW s \in {"live", "released", "completed"}
      PROVE  [l EXCEPT !.state = s] \in Lease /\ [l EXCEPT !.state = s].state = s
             /\ [l EXCEPT !.state = s].renewals = l.renewals
  BY DEF Lease
<1>2. [l EXCEPT !.expired = TRUE] \in Lease
  BY DEF Lease
<1>3. ASSUME NEW n \in Nat PROVE [l EXCEPT !.expired = FALSE, !.renewals = n] \in Lease
  BY DEF Lease
<1>4. l.state \in {"live", "released", "completed"} /\ l.renewals \in Nat
  BY DEF Lease
<1>5. l.renewals + 1 \in Nat
  BY <1>4
<1>6. Renewed(l) \in Lease
  BY <1>3, <1>5 DEF Renewed
<1> QED
  BY <1>1, <1>2, <1>4, <1>6

----------------------------------------------------------------------------
(* The queue *)

QueueTypes ==
    /\ leases \in [Jobs -> Seq(Lease)]
    /\ inbox \in Seq(ResultRow)
    /\ worker \in [Workers -> WorkerState]

InboxGrows == \A i \in DOMAIN inbox : \E k \in DOMAIN inbox' : inbox'[k] = inbox[i]

LEMMA RowsStay ==
    ASSUME LeasesKept, NEW r, r.job \in Jobs, RowHeld(r)
    PROVE  RowHeld(r)'
  BY DEF LeasesKept, RowHeld

LEMMA InboxRow ==
    ASSUME inbox \in Seq(ResultRow), NEW i \in DOMAIN inbox
    PROVE  inbox[i] \in ResultRow /\ inbox[i].job \in Jobs
<1>1. inbox[i] \in ResultRow
  BY LenProperties, ElementOfSeq
<1> QED
  BY <1>1 DEF ResultRow

(* A step that leaves the inbox and moves one Worker.                      *)
LEMMA WorkerMoves ==
    ASSUME QueueTypes, QueueInv, Jobs' = Jobs, leases' \in [Jobs' -> Seq(Lease)], LeasesKept,
           UNCHANGED inbox, NEW w \in Workers, NEW r \in WorkerState,
           worker' = [worker EXCEPT ![w] = r], Holding(r)'
    PROVE  QueueTypes' /\ QueueInv' /\ LeasesKept /\ InboxGrows
<1>1. ResultRow' = ResultRow /\ WorkerState' = WorkerState
  BY DEF ResultRow, WorkerState
<1>2. QueueTypes'
  BY <1>1 DEF QueueTypes
<1>3. ASSUME NEW v \in Workers
      PROVE  Holding(worker[v])'
  <2>1. CASE v = w
    BY <2>1 DEF QueueTypes
  <2>2. CASE v # w
    <3>1. worker'[v] = worker[v] /\ Holding(worker[v]) /\ worker[v] \in WorkerState
      BY <2>2 DEF QueueTypes, QueueInv
    <3> DEFINE q == worker[v]
    <3>2. Holding(q) => (q.pc # "idle" => q.job \in Jobs)
      BY DEF Holding
    <3>3. (worker[v].pc = "idle") => Holding(worker[v])'
      BY <3>1 DEF Holding, Working
    <3>4. ASSUME worker[v].pc # "idle" PROVE Holding(worker[v])'
      BY <3>1, <3>2, <3>4 DEF Holding, LeasesKept
    <3> QED
      BY <3>3, <3>4
  <2> QED
    BY <2>1, <2>2
<1>4. ASSUME NEW i \in DOMAIN inbox
      PROVE  RowHeld(inbox[i])'
  <2>1. inbox[i].job \in Jobs /\ RowHeld(inbox[i])
    BY InboxRow DEF QueueTypes, QueueInv
  <2> QED
    BY <2>1, RowsStay
<1>5. QueueInv'
  BY <1>3, <1>4 DEF QueueInv, OneRow
<1>6. InboxGrows
  BY DEF InboxGrows
<1> QED
  BY <1>2, <1>5, <1>6

(* A step in which nothing of the queue changes.                           *)
LEMMA QueueStill ==
    ASSUME QueueTypes, QueueInv, UNCHANGED <<queue, worker>>
    PROVE  QueueTypes' /\ QueueInv' /\ LeasesKept /\ InboxGrows
<1>1. QueueTypes'
  BY DEF QueueTypes, queue, ResultRow, WorkerState, Jobs
<1>2. QueueInv'
  BY DEF QueueInv, queue, Holding, RowHeld, OneRow, Jobs
<1>3. LeasesKept /\ InboxGrows
  BY DEF LeasesKept, InboxGrows, queue, Jobs
<1> QED
  BY <1>1, <1>2, <1>3

(* The states of a Worker.                                                 *)
LEMMA WorkerFields ==
    ASSUME NEW r \in WorkerState
    PROVE  r.pc \in Working \cup {"idle", "claiming"} /\ r.attempt \in Nat /\ r.seen \in Nat
  BY DEF WorkerState

LEMMA WorkerAtStep ==
    ASSUME NEW r \in WorkerState, NEW pc \in Working, NEW q, q = [r EXCEPT !.pc = pc]
    PROVE  q \in WorkerState /\ q.pc = pc /\ q.job = r.job /\ q.attempt = r.attempt
           /\ q.seen = r.seen
<1>1. q \in WorkerState
  BY DEF WorkerState
<1>2. q.pc = pc /\ q.job = r.job /\ q.attempt = r.attempt /\ q.seen = r.seen
  BY DEF WorkerState
<1> QED
  BY <1>1, <1>2

LEMMA IdleHolds ==
    IdleWorker \in WorkerState /\ IdleWorker.pc = "idle" /\ Holding(IdleWorker)
    /\ Holding(IdleWorker)'
<1>1. IdleWorker \in WorkerState /\ IdleWorker.pc = "idle"
  BY DEF IdleWorker, WorkerState
<1> HIDE DEF IdleWorker
<1> QED
  BY <1>1 DEF Holding, Working

LEMMA SelectJobKeeps ==
    ASSUME QueueTypes, QueueInv, NEW w \in Workers, NEW j \in Jobs, SelectJob(w, j)
    PROVE  QueueTypes' /\ QueueInv' /\ LeasesKept /\ InboxGrows
<1> DEFINE live == \E a \in DOMAIN leases[j] : Live(leases[j][a])
           n == IF live THEN Len(leases[j]) ELSE 0
<1>0. PICK r : r = [IdleWorker EXCEPT !.pc = "claiming", !.job = j, !.attempt = n]
  OBVIOUS
<1>1. worker' = [worker EXCEPT ![w] = r] /\ UNCHANGED <<leases, inbox>>
  BY <1>0 DEF SelectJob, queue
<1>2. leases[j] \in Seq(Lease) /\ DOMAIN leases[j] = 1..Len(leases[j]) /\ Len(leases[j]) \in Nat
  BY LenProperties DEF QueueTypes
<1>3. n \in Nat /\ (n = 0 \/ n \in DOMAIN leases[j])
  BY <1>2
<1> HIDE DEF n
<1>4. r \in WorkerState /\ r.pc = "claiming" /\ r.job = j /\ r.attempt = n
  BY <1>0, <1>3 DEF IdleWorker, WorkerState
<1>5. Holding(r)'
  BY <1>1, <1>3, <1>4 DEF Holding, Working, Jobs
<1>6. Jobs' = Jobs /\ leases' \in [Jobs' -> Seq(Lease)] /\ LeasesKept
  BY <1>1 DEF Jobs, LeasesKept, QueueTypes
<1> QED
  BY <1>1, <1>4, <1>5, <1>6, WorkerMoves

(* What the claim leaves of the leases of its job.                         *)
LEMMA ReleasedLeases ==
    ASSUME leases \in [Jobs -> Seq(Lease)], NEW j \in Jobs, NEW a \in Nat,
           a = 0 \/ a \in DOMAIN leases[j]
    PROVE  LET s == ReleaseExpired(j, a) IN
           /\ s \in Seq(Lease) /\ DOMAIN s = DOMAIN leases[j]
           /\ \A b \in DOMAIN leases[j] :
                leases[j][b].state = "completed" => s[b] = leases[j][b]
<1> DEFINE s == ReleaseExpired(j, a)
           l == [leases[j][a] EXCEPT !.state = "released"]
<1>1. leases[j] \in Seq(Lease) /\ DOMAIN leases[j] = 1..Len(leases[j]) /\ Len(leases[j]) \in Nat
  BY LenProperties
<1>2. CASE a # 0 /\ Live(leases[j][a]) /\ leases[j][a].expired
  <2>1. a \in DOMAIN leases[j] /\ leases[j][a] \in Lease /\ leases[j][a].state = "live"
    BY <1>2, LeaseAt DEF Live
  <2>2. l \in Lease
    BY <2>1, LeaseFields
  <2>3. s = [leases[j] EXCEPT ![a] = l]
    BY <1>2 DEF ReleaseExpired
  <2> HIDE DEF l
  <2>4. s \in Seq(Lease) /\ Len(s) = Len(leases[j])
        /\ \A b \in 1..Len(leases[j]) : s[b] = IF b = a THEN l ELSE leases[j][b]
    BY <1>1, <2>1, <2>2, <2>3, ExceptSeq
  <2>5. DOMAIN s = DOMAIN leases[j]
    BY <1>1, <2>3
  <2> HIDE DEF s
  <2>6. \A b \in DOMAIN leases[j] : leases[j][b].state = "completed" => s[b] = leases[j][b]
    BY <1>1, <2>1, <2>4
  <2> QED
    BY <2>4, <2>5, <2>6 DEF s
<1>3. CASE ~(a # 0 /\ Live(leases[j][a]) /\ leases[j][a].expired)
  <2>1. s = leases[j]
    BY <1>3 DEF ReleaseExpired
  <2> QED
    BY <1>1, <2>1
<1> QED
  BY <1>2, <1>3

LEMMA InsertLeaseKeeps ==
    ASSUME QueueTypes, QueueInv, NEW w \in Workers, InsertLease(w)
    PROVE  QueueTypes' /\ QueueInv' /\ LeasesKept /\ InboxGrows
<1> DEFINE j == worker[w].job
           s == ReleaseExpired(j, worker[w].attempt)
           l == [worker |-> w, state |-> "live", expired |-> FALSE, renewals |-> 0]
<1>1. worker[w] \in WorkerState /\ worker[w].pc = "claiming" /\ Holding(worker[w])
  BY DEF QueueTypes, QueueInv, InsertLease
<1>2. j \in Jobs /\ worker[w].attempt \in Nat
      /\ (worker[w].attempt = 0 \/ worker[w].attempt \in DOMAIN leases[j])
  BY <1>1, WorkerFields DEF Holding
<1>3. s \in Seq(Lease) /\ DOMAIN s = DOMAIN leases[j]
      /\ \A b \in DOMAIN leases[j] : leases[j][b].state = "completed" => s[b] = leases[j][b]
  BY <1>2, ReleasedLeases DEF QueueTypes
<1>4. UNCHANGED inbox
  BY DEF InsertLease
<1>5. CASE \E a \in DOMAIN s : Live(s[a])
  <2>1. worker' = [worker EXCEPT ![w] = IdleWorker] /\ UNCHANGED leases
    BY <1>5 DEF InsertLease
  <2>2. Jobs' = Jobs /\ leases' \in [Jobs' -> Seq(Lease)] /\ LeasesKept
    BY <2>1 DEF Jobs, LeasesKept, QueueTypes
  <2> QED
    BY <1>4, <2>1, <2>2, IdleHolds, WorkerMoves
<1>6. CASE ~ \E a \in DOMAIN s : Live(s[a])
  <2> DEFINE t == Append(s, l)
  <2>0. PICK r : r = [worker[w] EXCEPT !.pc = "working", !.attempt = Len(s) + 1]
    OBVIOUS
  <2>1. leases' = [leases EXCEPT ![j] = t] /\ worker' = [worker EXCEPT ![w] = r]
    BY <1>6, <2>0 DEF InsertLease, QueueTypes
  <2>2. l \in Lease
    BY DEF Lease
  <2> HIDE DEF l, s
  <2>3. Len(s) \in Nat /\ DOMAIN s = 1..Len(s)
    BY <1>3, LenProperties
  <2>4. t \in Seq(Lease) /\ Len(t) = Len(s) + 1 /\ \A b \in 1..Len(s) : t[b] = s[b]
    BY <1>3, <2>2, AppendProperties
  <2>5. DOMAIN t = 1..(Len(s) + 1)
    BY <2>4, LenProperties
  <2> HIDE DEF t
  <2>6. DOMAIN leases[j] \subseteq DOMAIN t
        /\ \A b \in DOMAIN leases[j] : leases[j][b].state = "completed" => t[b] = leases[j][b]
    BY <1>3, <2>3, <2>4, <2>5
  <2> HIDE DEF j
  <2>7. Jobs' = Jobs /\ leases' \in [Jobs' -> Seq(Lease)] /\ LeasesKept /\ leases'[j] = t
    BY <1>2, <2>1, <2>4, <2>6, ReplaceLeases DEF QueueTypes
  <2>8. r \in WorkerState /\ r.pc = "working" /\ r.job = j /\ r.attempt = Len(s) + 1
    <3>1. PICK n \in Nat : n = Len(s) + 1
      BY <2>3
    <3>2. r = [worker[w] EXCEPT !.pc = "working", !.attempt = n]
      BY <2>0, <3>1
    <3>3. r \in WorkerState /\ r.pc = "working" /\ r.job = worker[w].job /\ r.attempt = n
      BY <1>1, <3>2 DEF WorkerState, Working
    <3> QED
      BY <3>1, <3>3 DEF j
  <2>9. Holding(r)'
    BY <1>2, <2>3, <2>5, <2>7, <2>8 DEF Holding, Working
  <2> QED
    BY <1>4, <2>1, <2>7, <2>8, <2>9, WorkerMoves
<1> QED
  BY <1>5, <1>6

LEMMA ExpireLeaseKeeps ==
    ASSUME QueueTypes, QueueInv, NEW j \in Jobs, ExpireLease(j)
    PROVE  QueueTypes' /\ QueueInv' /\ LeasesKept /\ InboxGrows
<1>1. PICK a \in DOMAIN leases[j] :
        /\ Live(leases[j][a]) /\ ~leases[j][a].expired
        /\ leases' = [leases EXCEPT ![j][a].expired = TRUE]
  BY DEF ExpireLease
<1>2. leases[j][a] \in Lease
  BY LeaseAt DEF QueueTypes
<1>3. PICK l \in Lease : l = [leases[j][a] EXCEPT !.expired = TRUE]
  BY <1>2, LeaseFields
<1>4. leases' = [leases EXCEPT ![j] = [leases[j] EXCEPT ![a] = l]]
  BY <1>1, <1>3
<1>5. Jobs' = Jobs /\ leases' \in [Jobs' -> Seq(Lease)] /\ LeasesKept
  <2>1. leases \in [Jobs -> Seq(Lease)] /\ leases[j][a].state # "completed"
    BY <1>1 DEF Live, QueueTypes
  <2> QED
    BY <1>4, <2>1, ChangeLease, ZenonT(60)
<1>6. UNCHANGED <<inbox, worker>>
  BY DEF ExpireLease
<1>7. ASSUME NEW w \in Workers
      PROVE  QueueTypes' /\ QueueInv' /\ LeasesKept /\ InboxGrows
  <2>1. PICK r : r = worker[w]
    OBVIOUS
  <2>2. r \in WorkerState /\ worker' = [worker EXCEPT ![w] = r] /\ Holding(r)
    BY <1>6, <2>1 DEF QueueTypes, QueueInv
  <2>3. Holding(r)'
    BY <1>5, <1>6, <2>2 DEF Holding, LeasesKept, Working
  <2> QED
    BY <1>5, <1>6, <2>2, <2>3, WorkerMoves
<1>8. CASE Workers = {}
  <2>1. QueueTypes'
    BY <1>5, <1>6 DEF QueueTypes, ResultRow, WorkerState
  <2>2. \A i \in DOMAIN inbox : RowHeld(inbox[i])'
    BY <1>5, <1>6, InboxRow, RowsStay DEF QueueTypes, QueueInv
  <2>3. QueueInv'
    BY <1>6, <1>8, <2>2 DEF QueueInv, OneRow
  <2> QED
    BY <1>5, <1>6, <2>1, <2>3 DEF InboxGrows
<1> QED
  BY <1>7, <1>8

LEMMA BeginKeeps ==
    ASSUME QueueTypes, QueueInv, NEW w \in Workers, NEW pc \in {"renewing", "appending"},
           Begin(w, pc)
    PROVE  QueueTypes' /\ QueueInv' /\ LeasesKept /\ InboxGrows
<1>1. worker[w] \in WorkerState /\ worker[w].pc = "working" /\ Holding(worker[w])
  BY DEF QueueTypes, QueueInv, Begin
<1>2. UNCHANGED <<leases, inbox>>
  BY DEF Begin, queue
<1>3. worker[w].job \in Jobs /\ worker[w].attempt \in DOMAIN leases[worker[w].job]
  BY <1>1 DEF Holding, Working
<1>4. Mine(w) \in Lease
  BY <1>3, LeaseAt DEF Mine, QueueTypes
<1>5. Len(inbox) \in Nat
  BY LenProperties DEF QueueTypes
<1>6. PICK n \in Nat : n = IF pc = "appending" THEN Len(inbox) ELSE 0
  BY <1>5
<1>7. PICK b \in BOOLEAN : b = ~Mine(w).expired
  BY Zenon
<1>8. PICK r : r = [worker[w] EXCEPT !.pc = pc, !.fresh = b, !.seen = n]
  OBVIOUS
<1>9. r \in WorkerState
  BY <1>1, <1>8 DEF WorkerState, Working
<1>10. r.pc = pc /\ r.job = worker[w].job /\ r.attempt = worker[w].attempt /\ r.seen = n
  BY <1>1, <1>8 DEF WorkerState
<1>11. worker' = [worker EXCEPT ![w] = r]
  BY <1>6, <1>7, <1>8 DEF Begin
<1>12. Holding(r)'
  BY <1>2, <1>3, <1>5, <1>6, <1>10 DEF Holding, Working, Jobs
<1>13. Jobs' = Jobs /\ leases' \in [Jobs' -> Seq(Lease)] /\ LeasesKept
  BY <1>2 DEF Jobs, LeasesKept, QueueTypes
<1> QED
  BY <1>2, <1>9, <1>11, <1>12, <1>13, WorkerMoves

(* A Worker that keeps its job and attempt.                                *)
LEMMA WorkerGoesOn ==
    ASSUME QueueTypes, QueueInv, NEW w \in Workers, worker[w].pc \in Working,
           NEW pc \in Working \ {"appending"}, Step(w, pc), UNCHANGED inbox,
           Jobs' = Jobs, leases' \in [Jobs' -> Seq(Lease)], LeasesKept
    PROVE  QueueTypes' /\ QueueInv' /\ LeasesKept /\ InboxGrows
<1>1. worker[w] \in WorkerState /\ Holding(worker[w])
  BY DEF QueueTypes, QueueInv
<1>2. PICK r : r = [worker[w] EXCEPT !.pc = pc]
  OBVIOUS
<1>3. r \in WorkerState /\ r.pc = pc /\ r.job = worker[w].job /\ r.attempt = worker[w].attempt
  BY <1>1, <1>2, WorkerAtStep
<1>4. worker' = [worker EXCEPT ![w] = r]
  BY <1>2 DEF Step
<1>5. worker[w].job \in Jobs /\ worker[w].attempt \in DOMAIN leases[worker[w].job]
  BY <1>1 DEF Holding, Working
<1>6. Holding(r)'
  BY <1>3, <1>5 DEF Holding, LeasesKept, Working
<1> QED
  BY <1>3, <1>4, <1>6, WorkerMoves

(* The leases after an update of the one a Worker holds.                   *)
LEMMA UpdateMine ==
    ASSUME QueueTypes, QueueInv, NEW w \in Workers, worker[w].pc \in Working, Live(Mine(w)),
           NEW l \in Lease,
           leases' = [leases EXCEPT ![worker[w].job][worker[w].attempt] = l]
    PROVE  /\ Jobs' = Jobs /\ leases' \in [Jobs' -> Seq(Lease)] /\ LeasesKept
           /\ worker[w].attempt \in DOMAIN leases'[worker[w].job]
           /\ leases'[worker[w].job][worker[w].attempt] = l
<1>1. PICK j, a : j = worker[w].job /\ a = worker[w].attempt
  OBVIOUS
<1>2. j \in Jobs /\ a \in DOMAIN leases[j]
  BY <1>1 DEF Holding, QueueInv, Working
<1>3. leases[j][a].state # "completed"
  BY <1>1 DEF Live, Mine
<1>4. leases' = [leases EXCEPT ![j] = [leases[j] EXCEPT ![a] = l]]
  BY <1>1
<1>5. /\ Jobs' = Jobs /\ leases' \in [Jobs' -> Seq(Lease)] /\ LeasesKept
      /\ DOMAIN leases'[j] = DOMAIN leases[j] /\ leases'[j][a] = l
  <2>1. leases \in [Jobs -> Seq(Lease)]
    BY DEF QueueTypes
  <2> QED
    BY <1>2, <1>3, <1>4, <2>1, ChangeLease, ZenonT(60)
<1> QED
  BY <1>1, <1>2, <1>5

LEMMA RenewKeeps ==
    ASSUME QueueTypes, QueueInv, NEW w \in Workers, Renew(w)
    PROVE  QueueTypes' /\ QueueInv' /\ LeasesKept /\ InboxGrows
<1> DEFINE renewed == Live(Mine(w)) /\ worker[w].fresh
<1>1. worker[w].pc \in Working /\ UNCHANGED inbox
  BY DEF Renew, Working
<1>2. Jobs' = Jobs /\ leases' \in [Jobs' -> Seq(Lease)] /\ LeasesKept
  <2>1. CASE renewed
    <3>1. Mine(w) \in Lease
      BY <1>1, LeaseAt DEF Mine, QueueTypes, QueueInv, Holding, Working
    <3>2. PICK l \in Lease : l = Renewed(Mine(w))
      BY <3>1, LeaseFields
    <3>3. leases' = [leases EXCEPT ![worker[w].job][worker[w].attempt] = l]
      BY <2>1, <3>2 DEF Renew
    <3> QED
      BY <1>1, <2>1, <3>3, UpdateMine
  <2>2. CASE ~renewed
    BY <2>2 DEF Renew, Jobs, LeasesKept, QueueTypes
  <2> QED
    BY <2>1, <2>2
<1>3. PICK pc \in {"working", "failing"} : Step(w, pc)
  BY DEF Renew
<1> QED
  BY <1>1, <1>2, <1>3, WorkerGoesOn DEF Working

LEMMA AbandonKeeps ==
    ASSUME QueueTypes, QueueInv, NEW w \in Workers, Abandon(w)
    PROVE  QueueTypes' /\ QueueInv' /\ LeasesKept /\ InboxGrows
<1>1. worker[w].pc \in Working /\ UNCHANGED inbox /\ worker' = [worker EXCEPT ![w] = IdleWorker]
  BY DEF Abandon, Working
<1>2. Jobs' = Jobs /\ leases' \in [Jobs' -> Seq(Lease)] /\ LeasesKept
  <2>1. CASE Live(Mine(w))
    <3>1. Mine(w) \in Lease
      BY <1>1, LeaseAt DEF Mine, QueueTypes, QueueInv, Holding, Working
    <3>2. PICK l \in Lease : l = [Mine(w) EXCEPT !.state = "released"]
      BY <3>1, LeaseFields
    <3>3. leases' = [leases EXCEPT ![worker[w].job][worker[w].attempt] = l]
      BY <2>1, <3>2 DEF Abandon, Mine
    <3> QED
      BY <1>1, <2>1, <3>3, UpdateMine
  <2>2. CASE ~Live(Mine(w))
    BY <2>2 DEF Abandon, Jobs, LeasesKept, QueueTypes
  <2> QED
    BY <2>1, <2>2
<1> QED
  BY <1>1, <1>2, IdleHolds, WorkerMoves

LEMMA CrashWorkerKeeps ==
    ASSUME QueueTypes, QueueInv, NEW w \in Workers, CrashWorker(w)
    PROVE  QueueTypes' /\ QueueInv' /\ LeasesKept /\ InboxGrows
<1>1. UNCHANGED <<leases, inbox>> /\ worker' = [worker EXCEPT ![w] = IdleWorker]
  BY DEF CrashWorker, queue
<1>2. Jobs' = Jobs /\ leases' \in [Jobs' -> Seq(Lease)] /\ LeasesKept
  BY <1>1 DEF Jobs, LeasesKept, QueueTypes
<1> QED
  BY <1>1, <1>2, IdleHolds, WorkerMoves

(* A row sorted into the inbox after the first n.                          *)
LEMMA SplitAt ==
    ASSUME NEW S, NEW s \in Seq(S), NEW n \in 0..Len(s)
    PROVE  LET a == SubSeq(s, 1, n)
               b == SubSeq(s, n + 1, Len(s))
           IN /\ a \in Seq(S) /\ Len(a) = n /\ \A i \in 1..n : a[i] = s[i]
              /\ b \in Seq(S) /\ Len(b) = Len(s) - n /\ \A i \in 1..(Len(s) - n) : b[i] = s[n + i]
<1>1. Len(s) \in Nat /\ n \in Nat /\ n <= Len(s) /\ \A i \in 1..Len(s) : s[i] \in S
  BY LenProperties, ElementOfSeq
<1>2. PICK a : a = SubSeq(s, 1, n)
  OBVIOUS
<1>3. PICK b : b = SubSeq(s, n + 1, Len(s))
  OBVIOUS
<1>4. a \in Seq(S) /\ Len(a) = n /\ \A i \in 1..n : a[i] = s[i]
  <2>1. 1 \in Int /\ n \in Int /\ \A i \in 1..n : s[i] \in S
    BY <1>1
  <2>2. /\ SubSeq(s, 1, n) \in Seq(S)
        /\ Len(SubSeq(s, 1, n)) = IF 1 <= n THEN n - 1 + 1 ELSE 0
        /\ \A i \in 1 .. n - 1 + 1 : SubSeq(s, 1, n)[i] = s[1 + i - 1]
    BY <2>1, SubSeqProperties
  <2> QED
    BY <1>1, <1>2, <2>2
<1>5. b \in Seq(S) /\ Len(b) = Len(s) - n /\ \A i \in 1..(Len(s) - n) : b[i] = s[n + i]
  <2>1. n + 1 \in Int /\ Len(s) \in Int /\ \A i \in (n + 1)..Len(s) : s[i] \in S
    BY <1>1
  <2>2. /\ SubSeq(s, n + 1, Len(s)) \in Seq(S)
        /\ Len(SubSeq(s, n + 1, Len(s))) = IF n + 1 <= Len(s) THEN Len(s) - (n + 1) + 1 ELSE 0
        /\ \A i \in 1 .. Len(s) - (n + 1) + 1 :
             SubSeq(s, n + 1, Len(s))[i] = s[(n + 1) + i - 1]
    BY <2>1, SubSeqProperties
  <2>3. Len(b) = Len(s) - n
    BY <1>1, <1>3, <2>2
  <2>4. ASSUME NEW i \in 1..(Len(s) - n) PROVE b[i] = s[n + i]
    <3>1. i \in 1 .. Len(s) - (n + 1) + 1 /\ (n + 1) + i - 1 = n + i
      BY <1>1
    <3> QED
      BY <1>3, <2>2, <3>1
  <2> QED
    BY <1>3, <2>2, <2>3, <2>4
<1> QED
  BY <1>2, <1>3, <1>4, <1>5, Zenon

Inserted(s, n, e) == SubSeq(s, 1, n) \o <<e>> \o SubSeq(s, n + 1, Len(s))

HasInsertion(t, S, s, n, e) ==
    /\ t \in Seq(S) /\ Len(t) = Len(s) + 1
    /\ \A i \in 1..(Len(s) + 1) :
         t[i] = IF i <= n THEN s[i] ELSE IF i = n + 1 THEN e ELSE s[i - 1]

LEMMA Insertion ==
    ASSUME NEW S, NEW s \in Seq(S), NEW e \in S, NEW n \in 0..Len(s)
    PROVE  HasInsertion(Inserted(s, n, e), S, s, n, e)
<1>1. Len(s) \in Nat /\ n \in Nat /\ n <= Len(s)
  BY LenProperties
<1>2. PICK a : a = SubSeq(s, 1, n)
  OBVIOUS
<1>3. PICK b : b = SubSeq(s, n + 1, Len(s))
  OBVIOUS
<1>4. /\ a \in Seq(S) /\ Len(a) = n /\ \A i \in 1..n : a[i] = s[i]
      /\ b \in Seq(S) /\ Len(b) = Len(s) - n /\ \A i \in 1..(Len(s) - n) : b[i] = s[n + i]
  BY <1>2, <1>3, SplitAt, ZenonT(60)
<1>5. <<e>> \in Seq(S) /\ Len(<<e>>) = 1
  OBVIOUS
<1>6. /\ a \o <<e>> \in Seq(S) /\ Len(a \o <<e>>) = Len(a) + Len(<<e>>)
      /\ \A i \in 1 .. Len(a) + Len(<<e>>) :
           (a \o <<e>>)[i] = IF i <= Len(a) THEN a[i] ELSE <<e>>[i - Len(a)]
  <2>1. a \in Seq(S) /\ <<e>> \in Seq(S)
    BY <1>4, <1>5
  <2> QED
    BY <2>1, ConcatProperties, ZenonT(60)
<1>7. PICK c : c = a \o <<e>>
  OBVIOUS
<1>8. /\ c \in Seq(S) /\ Len(c) = n + 1
      /\ \A i \in 1..(n + 1) : c[i] = IF i <= n THEN a[i] ELSE <<e>>[i - n]
  BY <1>4, <1>5, <1>6, <1>7, Zenon
<1>9. /\ c \o b \in Seq(S) /\ Len(c \o b) = Len(c) + Len(b)
      /\ \A i \in 1 .. Len(c) + Len(b) :
           (c \o b)[i] = IF i <= Len(c) THEN c[i] ELSE b[i - Len(c)]
  <2>1. c \in Seq(S) /\ b \in Seq(S)
    BY <1>4, <1>8
  <2> QED
    BY <2>1, ConcatProperties, ZenonT(120)
<1>10. PICK t : t = c \o b
  OBVIOUS
<1>11. Len(c) + Len(b) = Len(s) + 1
  BY <1>1, <1>4, <1>8
<1>12. /\ t \in Seq(S) /\ Len(t) = Len(s) + 1
       /\ \A i \in 1..(Len(s) + 1) : t[i] = IF i <= n + 1 THEN c[i] ELSE b[i - (n + 1)]
  BY <1>8, <1>9, <1>10, <1>11, Zenon
<1>13. \A i \in 1..(Len(s) + 1) :
         t[i] = IF i <= n THEN s[i] ELSE IF i = n + 1 THEN e ELSE s[i - 1]
  <2>1. ASSUME NEW i \in 1..(Len(s) + 1)
        PROVE  t[i] = IF i <= n THEN s[i] ELSE IF i = n + 1 THEN e ELSE s[i - 1]
    <3>1. CASE i <= n
      BY <1>1, <1>4, <1>8, <1>12, <3>1
    <3>2. CASE i = n + 1
      <4>1. i \in 1..(n + 1) /\ ~(i <= n) /\ i <= n + 1 /\ i - n = 1
        BY <1>1, <3>2
      <4>2. c[i] = <<e>>[1]
        BY <1>8, <4>1
      <4> QED
        BY <1>12, <3>2, <4>1, <4>2
    <3>3. CASE i > n + 1
      <4>1. i - (n + 1) \in 1..(Len(s) - n) /\ n + (i - (n + 1)) = i - 1
        BY <1>1, <3>3
      <4>2. b[i - (n + 1)] = s[i - 1]
        BY <1>4, <4>1, SMTT(60)
      <4> QED
        BY <1>1, <1>12, <3>3, <4>2
    <3> QED
      BY <1>1, <3>1, <3>2, <3>3
  <2> QED
    BY <2>1
<1> QED
  BY <1>2, <1>3, <1>7, <1>10, <1>12, <1>13, Zenon DEF Inserted, HasInsertion

LEMMA AppendResultKeeps ==
    ASSUME QueueTypes, QueueInv, NEW w \in Workers, NEW verdict \in {"good", "bad"},
           AppendResult(w, verdict)
    PROVE  QueueTypes' /\ QueueInv' /\ LeasesKept /\ InboxGrows
<1> DEFINE accepted == ~HasResult(worker[w].job) /\ Live(Mine(w)) /\ worker[w].fresh
<1>1. worker[w].pc = "appending" /\ worker[w].pc \in Working
      /\ worker[w] \in WorkerState /\ Holding(worker[w])
  BY DEF AppendResult, Working, QueueTypes, QueueInv
<1>2. worker[w].job \in Jobs /\ worker[w].attempt \in DOMAIN leases[worker[w].job]
      /\ worker[w].seen <= Len(inbox) /\ worker[w].seen \in Nat /\ worker[w].attempt \in Nat
  BY <1>1, WorkerFields DEF Holding
<1>3. CASE ~accepted
  <2>1. UNCHANGED <<leases, inbox>> /\ Step(w, "failing")
    BY <1>3 DEF AppendResult, queue
  <2>2. Jobs' = Jobs /\ leases' \in [Jobs' -> Seq(Lease)] /\ LeasesKept
    BY <2>1 DEF Jobs, LeasesKept, QueueTypes
  <2> QED
    BY <1>1, <2>1, <2>2, WorkerGoesOn DEF Working
<1>4. CASE accepted
  <2>1. PICK j, a : j = worker[w].job /\ a = worker[w].attempt
    OBVIOUS
  <2>2. Mine(w) \in Lease /\ Mine(w).renewals \in Nat
    BY <1>2, LeaseAt, LeaseFields DEF Mine, QueueTypes
  <2>3. PICK e : e = [job |-> j, attempt |-> a, renewals |-> Mine(w).renewals, verdict |-> verdict]
    OBVIOUS
  <2>4. PICK n \in worker[w].seen .. Len(inbox) :
          inbox' = SubSeq(inbox, 1, n) \o <<e>> \o SubSeq(inbox, n + 1, Len(inbox))
    BY <1>4, <2>1, <2>3 DEF AppendResult
  <2>5. PICK l \in Lease : l = [Mine(w) EXCEPT !.state = "completed"]
    BY <2>2, LeaseFields
  <2>6. leases' = [leases EXCEPT ![worker[w].job][worker[w].attempt] = l]
    BY <1>4, <2>5 DEF AppendResult, Mine
  <2>7. /\ Jobs' = Jobs /\ leases' \in [Jobs' -> Seq(Lease)] /\ LeasesKept
        /\ a \in DOMAIN leases'[j] /\ leases'[j][a] = l
    BY <1>1, <1>4, <2>1, <2>6, UpdateMine
  <2>8. e \in ResultRow /\ e.job = j /\ e.attempt = a /\ e.renewals = Mine(w).renewals
    BY <1>2, <2>1, <2>2, <2>3 DEF ResultRow
  <2>9. ResultRow' = ResultRow /\ WorkerState' = WorkerState
    BY <2>7 DEF ResultRow, WorkerState
  <2>10. Len(inbox) \in Nat /\ DOMAIN inbox = 1..Len(inbox) /\ n \in 0..Len(inbox)
    BY <1>2, LenProperties DEF QueueTypes
  <2>11. /\ inbox' \in Seq(ResultRow) /\ Len(inbox') = Len(inbox) + 1
         /\ DOMAIN inbox' = 1..(Len(inbox) + 1)
         /\ \A i \in 1..(Len(inbox) + 1) :
              inbox'[i] = IF i <= n THEN inbox[i] ELSE IF i = n + 1 THEN e ELSE inbox[i - 1]
    <3>1. inbox \in Seq(ResultRow)
      BY DEF QueueTypes
    <3>2. /\ inbox' \in Seq(ResultRow) /\ Len(inbox') = Len(inbox) + 1
          /\ \A i \in 1..(Len(inbox) + 1) :
               inbox'[i] = IF i <= n THEN inbox[i] ELSE IF i = n + 1 THEN e ELSE inbox[i - 1]
      <4>1. HasInsertion(Inserted(inbox, n, e), ResultRow, inbox, n, e)
        BY <2>8, <2>10, <3>1, Insertion
      <4>2. inbox' = Inserted(inbox, n, e)
        BY <2>4, Zenon DEF Inserted
      <4>3. HasInsertion(inbox', ResultRow, inbox, n, e)
        BY <4>1, <4>2, Zenon
      <4> QED
        BY <4>3 DEF HasInsertion
    <3> QED
      BY <3>2, LenProperties
  <2>12. RowHeld(e)'
    <3>1. l.state = "completed" /\ l.renewals = Mine(w).renewals
      BY <2>2, <2>5, LeaseFields
    <3> QED
      BY <2>7, <2>8, <3>1 DEF RowHeld
  <2>13. \A i \in DOMAIN inbox : inbox[i].job # j
    BY <1>4, <2>1 DEF HasResult
  <2>14. \A i \in DOMAIN inbox' : RowHeld(inbox[i])'
    <3>1. ASSUME NEW i \in DOMAIN inbox' PROVE RowHeld(inbox[i])'
      <4>1. PICK r : r = inbox'[i]
        OBVIOUS
      <4>2. r = e \/ \E k \in DOMAIN inbox : r = inbox[k]
        <5>1. CASE i <= n
          BY <2>10, <2>11, <4>1, <5>1
        <5>2. CASE i = n + 1
          BY <2>10, <2>11, <4>1, <5>2
        <5>3. CASE i > n + 1
          <6>1. i - 1 \in DOMAIN inbox /\ ~(i <= n) /\ i # n + 1
            BY <2>10, <2>11, <5>3
          <6> QED
            BY <2>11, <4>1, <6>1
        <5> QED
          BY <2>10, <2>11, <5>1, <5>2, <5>3
      <4>3. ASSUME NEW k \in DOMAIN inbox, r = inbox[k] PROVE RowHeld(r)'
        <5>1. inbox[k].job \in Jobs /\ RowHeld(inbox[k])
          BY InboxRow DEF QueueTypes, QueueInv
        <5> QED
          BY <2>7, <4>3, <5>1, RowsStay
      <4>4. RowHeld(r)'
        BY <2>12, <4>2, <4>3
      <4> QED
        BY <4>1, <4>4 DEF RowHeld
    <3> QED
      BY <3>1
  <2>15. OneRow'
    <3>1. ASSUME NEW i \in DOMAIN inbox', NEW k \in DOMAIN inbox', i < k
          PROVE  inbox'[i].job # inbox'[k].job
      <4>1. i \in Nat /\ k \in Nat /\ n \in Nat
        BY <2>10, <2>11
      <4>2. CASE i = n + 1
        <5>1. inbox'[i] = e /\ inbox'[k] = inbox[k - 1] /\ k - 1 \in DOMAIN inbox
          BY <2>10, <2>11, <3>1, <4>1, <4>2
        <5> QED
          BY <2>8, <2>13, <5>1
      <4>3. CASE k = n + 1
        <5>1. inbox'[k] = e /\ inbox'[i] = inbox[i] /\ i \in DOMAIN inbox
          BY <2>10, <2>11, <3>1, <4>1, <4>3
        <5> QED
          BY <2>8, <2>13, <5>1
      <4>4. CASE i # n + 1 /\ k # n + 1
        <5>1. PICK x \in DOMAIN inbox, y \in DOMAIN inbox :
                x # y /\ inbox'[i] = inbox[x] /\ inbox'[k] = inbox[y]
          <6>1. CASE k <= n
            BY <2>10, <2>11, <3>1, <4>1, <6>1
          <6>2. CASE i <= n /\ k > n + 1
            BY <2>10, <2>11, <4>1, <6>2, SMTT(60)
          <6>3. CASE i > n + 1
            BY <2>10, <2>11, <3>1, <4>1, <6>3, SMTT(60)
          <6> QED
            BY <3>1, <4>1, <4>4, <6>1, <6>2, <6>3
        <5> QED
          BY <5>1 DEF QueueInv, OneRow
      <4> QED
        BY <4>2, <4>3, <4>4
    <3>2. \A i, k \in DOMAIN inbox' : i < k \/ k < i \/ i = k
      BY <2>10, <2>11
    <3> QED
      BY <3>1, <3>2 DEF OneRow
  <2>16. InboxGrows
    <3>1. ASSUME NEW i \in DOMAIN inbox
          PROVE  \E k \in DOMAIN inbox' : inbox'[k] = inbox[i]
      <4>1. i \in Nat /\ n \in Nat
        BY <2>10
      <4>2. CASE i <= n
        BY <2>10, <2>11, <4>1, <4>2
      <4>3. CASE i > n
        <5>1. i + 1 \in DOMAIN inbox' /\ ~(i + 1 <= n) /\ i + 1 # n + 1 /\ (i + 1) - 1 = i
          BY <2>10, <2>11, <4>1, <4>3
        <5>2. inbox'[i + 1] = inbox[i]
          BY <2>11, <5>1
        <5> QED
          BY <5>1, <5>2
      <4> QED
        BY <4>1, <4>2, <4>3
    <3> QED
      BY <3>1 DEF InboxGrows
  <2>17. worker' \in [Workers -> WorkerState] /\ \A v \in Workers : Holding(worker[v])'
    <3>1. PICK r : /\ r \in WorkerState /\ worker' = [worker EXCEPT ![w] = r]
                   /\ (r.pc = "idle" \/ (r.pc = "failing" /\ r.job = j /\ r.attempt = a))
      <4>1. CASE worker' = [worker EXCEPT ![w] = IdleWorker]
        BY <4>1, IdleHolds
      <4>2. CASE Step(w, "failing")
        <5>1. PICK r : r = [worker[w] EXCEPT !.pc = "failing"]
          OBVIOUS
        <5>2. r \in WorkerState /\ r.pc = "failing" /\ r.job = j /\ r.attempt = a
          BY <1>1, <2>1, <5>1, WorkerAtStep DEF Working
        <5>3. worker' = [worker EXCEPT ![w] = r]
          BY <4>2, <5>1 DEF Step
        <5> QED
          BY <5>2, <5>3
      <4> QED
        BY <4>1, <4>2 DEF AppendResult
    <3>2. Holding(r)'
      BY <1>2, <2>1, <2>7, <3>1 DEF Holding, Working
    <3>3. ASSUME NEW v \in Workers PROVE Holding(worker[v])'
      <4>1. CASE v = w
        BY <3>1, <3>2, <4>1 DEF QueueTypes
      <4>2. CASE v # w
        <5>1. PICK q : q = worker[v]
          OBVIOUS
        <5>2. worker'[v] = q /\ Holding(q) /\ q \in WorkerState
          BY <3>1, <4>2, <5>1 DEF QueueTypes, QueueInv
        <5>3. q.seen <= Len(inbox) => q.seen <= Len(inbox')
          BY <2>10, <2>11, <5>2, WorkerFields
        <5>4. ASSUME q.pc = "idle" PROVE Holding(q)'
          BY <5>2, <5>4 DEF Holding, Working
        <5>5. ASSUME q.pc # "idle" PROVE Holding(q)'
          BY <2>7, <5>2, <5>3, <5>5 DEF Holding, LeasesKept
        <5>6. Holding(q)'
          BY <5>4, <5>5
        <5> QED
          BY <5>2, <5>6
      <4> QED
        BY <4>1, <4>2
    <3> QED
      BY <3>1, <3>3 DEF QueueTypes
  <2> QED
    BY <2>7, <2>9, <2>11, <2>14, <2>15, <2>16, <2>17 DEF QueueTypes, QueueInv
<1> QED
  BY <1>3, <1>4

----------------------------------------------------------------------------
(* The consumers *)

(* What the transactions and the case see of the inbox and the jobs grows. *)
LEMMA JobsGrow ==
    ASSUME Jobs \subseteq Jobs'
    PROVE  /\ ResultRow \subseteq ResultRow' /\ WorkerState \subseteq WorkerState'
           /\ TxnWrites \subseteq TxnWrites' /\ ConsumerState \subseteq ConsumerState'
<1>1. ResultRow \subseteq ResultRow'
  BY DEF ResultRow
<1>2. WorkerState \subseteq WorkerState'
  BY DEF WorkerState
<1>3. TxnWrites \subseteq TxnWrites'
  <2>1. [job : Jobs, status : Outcomes] \subseteq [job : Jobs', status : Outcomes]
        /\ Jobs \X Nat \subseteq Jobs' \X Nat
    OBVIOUS
  <2>2. ASSUME NEW A, NEW B, A \subseteq B PROVE SUBSET A \subseteq SUBSET B
    BY <2>2, Zenon
  <2>3. PICK R, Q, P, O : /\ R = SUBSET [job : Jobs, status : Outcomes] /\ Q = SUBSET (Jobs \X Nat)
                       /\ P = SUBSET [job : Jobs', status : Outcomes] /\ O = SUBSET (Jobs' \X Nat)
    BY Zenon
  <2>4. R \subseteq P /\ Q \subseteq O /\ SUBSET Jobs \subseteq SUBSET Jobs'
    BY <2>1, <2>2, <2>3, Zenon
  <2>5. PICK J, K : J = SUBSET Jobs /\ K = SUBSET Jobs'
    BY Zenon
  <2>6. [disposition : R, ledger : J, jobs : Q] \subseteq [disposition : P, ledger : K, jobs : O]
    BY <2>4, <2>5
  <2> QED
    BY <2>3, <2>5, <2>6, Zenon DEF TxnWrites
<1>4. ConsumerState \subseteq ConsumerState'
  <2>1. PICK R, Q : R = Seq(ResultRow) /\ Q = Seq(ResultRow')
    BY Zenon
  <2>2. R \subseteq Q
    <3>1. ASSUME NEW s \in Seq(ResultRow) PROVE s \in Seq(ResultRow')
      BY <1>1, SeqMonotonic
    <3> QED
      BY <2>1, <3>1, Zenon
  <2>3. PICK V, W : V = TxnWrites /\ W = TxnWrites'
    BY Zenon
  <2>4. PICK O, P : O = Outcomes \cup {None} /\ P = Busy \cup {"idle", "claimed", "commit", "finish"}
    BY Zenon
  <2>5. [pc : P, gen : Nat, todo : R, outcome : O, again : BOOLEAN, writes : V]
          \subseteq [pc : P, gen : Nat, todo : Q, outcome : O, again : BOOLEAN, writes : W]
    BY <1>3, <2>2, <2>3
  <2> QED
    BY <2>1, <2>3, <2>4, <2>5, Zenon DEF ConsumerState
<1> QED
  BY <1>1, <1>2, <1>3, <1>4

(* A transaction that the step of another leaves as it is.                 *)
LEMMA TxnStill ==
    ASSUME UNCHANGED <<leases, inbox, disposition, version>>, NEW r
    PROVE  /\ WellFormed(r) => WellFormed(r)'
           /\ Txn(r) => Txn(r)'
<1>1. Jobs' = Jobs
  BY DEF Jobs
<1>2. ConsumerState' = ConsumerState
  BY <1>1 DEF ConsumerState, ResultRow, TxnWrites
<1>3. WellFormed(r) => WellFormed(r)'
  BY <1>2 DEF WellFormed
<1>4. Sees(r)' = Sees(r) /\ \A j : Good(j)' = Good(j) /\ \A v : Passed(j, v)' = Passed(j, v)
  BY DEF Sees, Good, Passed, Bad
<1>5. Batch(r) => Batch(r)'
  BY DEF Batch, InInbox
<1>6. Effect(r) => Effect(r)'
  BY <1>4 DEF Effect
<1>7. Dispositions(r) => Dispositions(r)'
  BY <1>4 DEF Dispositions
<1>8. Deciding(r) => Deciding(r)'
  BY <1>4 DEF Deciding
<1>9. FollowUps(r) => FollowUps(r)'
  BY <1>4 DEF FollowUps
<1> QED
  BY <1>3, <1>5, <1>6, <1>7, <1>8, <1>9 DEF Txn, Quiet

(* Where a consumer may go while the rest stays as it is.                  *)
Allowed(c, r) ==
    /\ WellFormed(r) /\ Txn(r)
    /\ \A d \in Consumers \ {c} : Apart(r, consumer[d])

LEMMA ConsumerMoves ==
    ASSUME Inv, NEW c \in Consumers, NEW r, Allowed(c, r), Set(c, r),
           UNCHANGED <<queue, applied, worker>>, wakeup' \in WakeupState
    PROVE  TypeOK' /\ QueueInv' /\ CaseInv' /\ FollowUpInv' /\ TxnInv'
<1>1. UNCHANGED <<leases, inbox, disposition, ledger, version>> /\ Jobs' = Jobs
  BY DEF queue, applied, Jobs
<1>2. r \in ConsumerState /\ consumer \in [Consumers -> ConsumerState]
  BY DEF Allowed, WellFormed, Inv, TypeOK
<1>3. consumer' \in [Consumers -> ConsumerState] /\ consumer'[c] = r
      /\ \A d \in Consumers \ {c} : consumer'[d] = consumer[d]
  BY <1>2 DEF Set
<1>4. ASSUME NEW d \in Consumers
      PROVE  WellFormed(consumer[d])' /\ Txn(consumer[d])'
  <2>1. PICK q : q = consumer'[d]
    BY Zenon
  <2>2. WellFormed(q) /\ Txn(q)
    BY <1>3, <2>1, Zenon DEF Allowed, Inv, TypeOK, TxnInv
  <2>3. WellFormed(q)' /\ Txn(q)'
    BY <1>1, <2>2, TxnStill
  <2> QED
    BY <2>1, <2>3, Zenon
<1>5. ASSUME NEW d \in Consumers, NEW e \in Consumers, d # e
      PROVE  Apart(consumer'[d], consumer'[e])
  <2>1. \A x, y : Apart(x, y) => Apart(y, x)
    BY Zenon DEF Apart
  <2> QED
    <3>1. CASE d = c
      BY <1>3, <1>5, <3>1 DEF Allowed
    <3>2. CASE e = c
      BY <1>3, <1>5, <2>1, <3>2 DEF Allowed
    <3>3. CASE d # c /\ e # c
      BY <1>3, <1>5, <3>3 DEF Inv, TxnInv
    <3> QED
      BY <3>1, <3>2, <3>3
<1>6. TxnInv'
  BY <1>4, <1>5, Zenon DEF TxnInv, Apart, Recorded
<1>7. TypeOK'
  <2>1. ResultRow' = ResultRow /\ WorkerState' = WorkerState /\ ConsumerState' = ConsumerState
    BY <1>1 DEF ResultRow, WorkerState, ConsumerState, TxnWrites
  <2> QED
    BY <1>1, <1>3, <1>4, <2>1 DEF Inv, TypeOK
<1>8. QueueInv'
  BY <1>1, QueueStill DEF Inv, TypeOK, QueueTypes
<1>9. CaseInv' /\ FollowUpInv'
  BY <1>1, SMTT(60) DEF Inv, CaseInv, FollowUpInv, EffectOnce, Passed, Bad
<1> QED
  BY <1>6, <1>7, <1>8, <1>9

LEMMA WakeupMoves ==
    ASSUME Inv, NEW c \in Consumers, NEW r, ClaimOK(r), Set(c, r),
           UNCHANGED <<inbox, disposition>>, wakeup'.gen = wakeup.gen,
           wakeup'.status = "idle" => Accepted \subseteq DOMAIN disposition
    PROVE  WakeupInv'
<1>1. ASSUME NEW q, ClaimOK(q) PROVE ClaimOK(q)'
  BY <1>1 DEF ClaimOK, Accepted
<1>2. ASSUME NEW d \in Consumers PROVE ClaimOK(consumer[d])'
  <2>1. PICK q : q = consumer'[d]
    BY Zenon
  <2>2. ClaimOK(q)
    BY <2>1 DEF Set, Inv, TypeOK, WakeupInv
  <2> QED
    BY <1>1, <2>1, <2>2, Zenon
<1>3. NoLostWakeup'
  BY DEF NoLostWakeup, Accepted
<1> QED
  BY <1>2, <1>3 DEF WakeupInv

(* A transaction's effects, and the version it reads.                      *)
LEMMA LedgerSize ==
    ASSUME version \in Nat, NEW r, Effect(r)
    PROVE  /\ r.writes.ledger = {} => Sees(r) = version
           /\ r.writes.ledger # {} => Sees(r) = version + 1
           /\ Sees(r) \in Nat /\ version <= Sees(r)
<1>1. CASE r.writes.ledger = {}
  BY <1>1, FS_EmptySet DEF Sees
<1>2. CASE r.writes.ledger # {}
  <2>1. PICK j : r.writes.ledger = {j}
    BY <1>2 DEF Effect
  <2>2. Cardinality(r.writes.ledger) = 1
    BY <2>1, FS_Singleton
  <2> QED
    BY <1>2, <2>2 DEF Sees
<1> QED
  BY <1>1, <1>2

LEMMA ConsumerFields ==
    ASSUME NEW q \in ConsumerState
    PROVE  /\ q.pc \in Busy \cup {"idle", "claimed", "commit", "finish"} /\ q.gen \in Nat
           /\ q.todo \in Seq(ResultRow) /\ q.outcome \in Outcomes \cup {None}
           /\ q.writes \in TxnWrites
  BY DEF ConsumerState

(* The row a consumer is at.                                               *)
LEMMA AtRow ==
    ASSUME Inv, NEW c \in Consumers, consumer[c].pc \in Busy
    PROVE  /\ Row(c) = consumer[c].todo[1] /\ 1 \in DOMAIN consumer[c].todo
           /\ Row(c) \in ResultRow /\ InInbox(Row(c))
           /\ Row(c).job \in Jobs /\ Row(c).job \notin Recorded(consumer[c])
           /\ Base(Row(c).job) \in Nat /\ 1 <= Base(Row(c).job) /\ Base(Row(c).job) <= version
           /\ version \in Nat /\ Seen(c) = Sees(consumer[c]) /\ Seen(c) \in Nat
           /\ version <= Seen(c)
<1>1. PICK q : q = consumer[c]
  OBVIOUS
<1>2. q \in ConsumerState /\ q.todo # <<>> /\ Batch(q) /\ Effect(q) /\ q.pc \in Busy
  BY <1>1 DEF Inv, TypeOK, WellFormed, TxnInv, Txn
<1>3. q.todo \in Seq(ResultRow) /\ DOMAIN q.todo = 1..Len(q.todo) /\ Len(q.todo) \in Nat
  BY <1>2, ConsumerFields, LenProperties
<1>4. 1 \in DOMAIN q.todo /\ Head(q.todo) = q.todo[1] /\ q.todo[1] \in ResultRow
  BY <1>2, <1>3
<1>5. InInbox(q.todo[1]) /\ q.todo[1].job \notin Recorded(q)
  BY <1>2, <1>4 DEF Batch
<1>6. q.todo[1].job \in Jobs
  BY <1>4 DEF ResultRow
<1>7. version \in Nat /\ Base(q.todo[1].job) \in 1..version
  BY <1>6 DEF Inv, TypeOK, CaseInv, Base
<1>8. Seen(c) = Sees(q)
  BY <1>1 DEF Seen, Sees
<1>9. Sees(q) \in Nat /\ version <= Sees(q)
  BY <1>2, <1>7, LedgerSize
<1> QED
  BY <1>1, <1>4, <1>5, <1>6, <1>7, <1>8, <1>9 DEF Row

LEMMA GotoAllowed ==
    ASSUME Inv, NEW c \in Consumers, consumer[c].pc \in Busy \ {"record"},
           NEW pc \in Busy, NEW o \in Outcomes \cup {None}, pc = "record" => o \in Outcomes,
           NEW r, r = [consumer[c] EXCEPT !.pc = pc, !.outcome = o],
           pc \in {"load", "update"} => Row(c).verdict = "good",
           pc = "record" => /\ Passed(Row(c).job, Seen(c)) /\ o # "applied"
                            /\ o = "recompute" => Base(Row(c).job) < Seen(c)
    PROVE  Allowed(c, r) /\ ClaimOK(r)
<1>1. PICK q : q = consumer[c]
  OBVIOUS
<1>2. WellFormed(q) /\ Txn(q) /\ q.pc \in Busy \ {"record"} /\ ClaimOK(q)
      /\ \A d \in Consumers \ {c} : Apart(q, consumer[d])
  BY <1>1 DEF Inv, TypeOK, TxnInv, WakeupInv
<1>3. q \in ConsumerState
  BY <1>2 DEF WellFormed
<1>4. r \in ConsumerState
  BY <1>1, <1>3 DEF ConsumerState
<1>5. r.pc = pc /\ r.outcome = o /\ r.todo = q.todo /\ r.gen = q.gen /\ r.writes = q.writes
  BY <1>1, <1>3 DEF ConsumerState
<1>6. WellFormed(r)
  BY <1>2, <1>4, <1>5 DEF WellFormed
<1>7. Sees(r) = Sees(q) /\ Recorded(r) = Recorded(q)
  BY <1>5 DEF Sees, Recorded
<1>8. Batch(r) /\ Quiet(r)
  BY <1>2, <1>5, <1>7 DEF Txn, Batch, Quiet, Busy
<1>9. Effect(r)
  BY <1>2, <1>5 DEF Txn, Effect
<1>10. Dispositions(r) /\ FollowUps(r)
  BY <1>2, <1>5, <1>7 DEF Txn, Dispositions, FollowUps
<1>11. Deciding(r)
  <2>1. Row(c) = r.todo[1] /\ Seen(c) = Sees(r)
    BY <1>1, <1>5, <1>7, AtRow
  <2> QED
    BY <1>5, <2>1 DEF Deciding
<1>12. \A d \in Consumers \ {c} : Apart(r, consumer[d])
  BY <1>2, <1>5, <1>7 DEF Apart
<1>13. ClaimOK(r)
  BY <1>2, <1>5 DEF ClaimOK, Busy
<1> QED
  BY <1>6, <1>8, <1>9, <1>10, <1>11, <1>12, <1>13 DEF Allowed, Txn

LEMMA FindAppliedAllowed ==
    ASSUME Inv, NEW c \in Consumers, FindApplied(c)
    PROVE  \E r : Set(c, r) /\ Allowed(c, r) /\ ClaimOK(r)
<1>1. consumer[c].pc \in Busy \ {"record"}
  BY DEF FindApplied, Busy
<1>0. CASE Row(c).verdict = "bad" /\ Goto(c, "record", "rejected")
  <2>1. PICK r : r = [consumer[c] EXCEPT !.pc = "record", !.outcome = "rejected"]
    OBVIOUS
  <2>2. Set(c, r)
    BY <1>0, <2>1 DEF Goto
  <2>3. Passed(Row(c).job, Seen(c))
    <3>1. InInbox(Row(c))
      BY <1>1, AtRow, ZenonT(60)
    <3> QED
      BY <1>0, <3>1, Zenon DEF Passed, Bad, InInbox
  <2>4. Allowed(c, r) /\ ClaimOK(r)
    BY <1>1, <2>1, <2>3, GotoAllowed DEF Busy, Outcomes
  <2> QED
    BY <2>2, <2>4
<1>2. CASE Row(c).job \in ledger /\ Goto(c, "record", "duplicate")
  <2>1. PICK r : r = [consumer[c] EXCEPT !.pc = "record", !.outcome = "duplicate"]
    OBVIOUS
  <2>2. Set(c, r)
    BY <1>2, <2>1 DEF Goto
  <2>3. Passed(Row(c).job, Seen(c))
    <3>1. Base(Row(c).job) < version
      BY <1>2, Zenon DEF Inv, CaseInv
    <3>2. Base(Row(c).job) \in Nat /\ version \in Nat /\ Seen(c) \in Nat /\ version <= Seen(c)
      BY <1>1, AtRow, ZenonT(60)
    <3> QED
      BY <3>1, <3>2 DEF Passed
  <2>4. Allowed(c, r) /\ ClaimOK(r)
    BY <1>1, <2>1, <2>3, GotoAllowed DEF Busy, Outcomes
  <2> QED
    BY <2>2, <2>4
<1>3. CASE Goto(c, "version", None)
  <2>1. PICK r : r = [consumer[c] EXCEPT !.pc = "version", !.outcome = None]
    OBVIOUS
  <2>2. Set(c, r)
    BY <1>3, <2>1, SMTT(60) DEF Goto
  <2>3. Allowed(c, r) /\ ClaimOK(r)
    BY <1>1, <2>1, GotoAllowed DEF Busy
  <2> QED
    BY <2>2, <2>3
<1> QED
  BY <1>0, <1>2, <1>3 DEF FindApplied

LEMMA CheckVersionAllowed ==
    ASSUME Inv, NEW c \in Consumers, CheckVersion(c)
    PROVE  \E r : Set(c, r) /\ Allowed(c, r) /\ ClaimOK(r)
<1>1. consumer[c].pc \in Busy \ {"record"}
  BY DEF CheckVersion, Busy
<1>2. CASE Seen(c) # Base(Row(c).job)
  <2>1. PICK r : r = [consumer[c] EXCEPT !.pc = "record", !.outcome = "recompute"]
    OBVIOUS
  <2>2. Set(c, r)
    BY <1>2, <2>1 DEF CheckVersion, Goto
  <2>3. Base(Row(c).job) < Seen(c) /\ Passed(Row(c).job, Seen(c))
    <3>1. Base(Row(c).job) \in Nat /\ Base(Row(c).job) <= version /\ version \in Nat
          /\ Seen(c) \in Nat /\ version <= Seen(c)
      BY <1>1, AtRow, ZenonT(60)
    <3> QED
      BY <1>2, <3>1 DEF Passed
  <2>4. Allowed(c, r) /\ ClaimOK(r)
    BY <1>1, <2>1, <2>3, GotoAllowed DEF Busy, Outcomes
  <2> QED
    BY <2>2, <2>4
<1>3. CASE Seen(c) = Base(Row(c).job) /\ Row(c).verdict = "bad"
  <2>1. PICK r : r = [consumer[c] EXCEPT !.pc = "record", !.outcome = "rejected"]
    OBVIOUS
  <2>2. Set(c, r)
    BY <1>3, <2>1 DEF CheckVersion, Goto
  <2>3. Passed(Row(c).job, Seen(c))
    <3>1. InInbox(Row(c))
      BY <1>1, AtRow, ZenonT(60)
    <3> QED
      BY <1>3, <3>1, Zenon DEF Passed, Bad, InInbox
  <2>4. Allowed(c, r) /\ ClaimOK(r)
    BY <1>1, <2>1, <2>3, GotoAllowed DEF Busy, Outcomes
  <2> QED
    BY <2>2, <2>4
<1>4. CASE Seen(c) = Base(Row(c).job) /\ Row(c).verdict # "bad"
  <2>1. PICK r : r = [consumer[c] EXCEPT !.pc = "load", !.outcome = None]
    OBVIOUS
  <2>2. Set(c, r)
    BY <1>4, <2>1 DEF CheckVersion, Goto
  <2>3. Row(c).verdict = "good"
    <3>1. Row(c) \in ResultRow
      BY <1>1, AtRow, ZenonT(60)
    <3> QED
      BY <1>4, <3>1 DEF ResultRow
  <2>4. Allowed(c, r) /\ ClaimOK(r)
    BY <1>1, <2>1, <2>3, GotoAllowed DEF Busy
  <2> QED
    BY <2>2, <2>4
<1> QED
  BY <1>2, <1>3, <1>4

LEMMA LoadCaseAllowed ==
    ASSUME Inv, NEW c \in Consumers, LoadCase(c)
    PROVE  \E r : Set(c, r) /\ Allowed(c, r) /\ ClaimOK(r)
<1>1. consumer[c].pc \in Busy \ {"record"} /\ consumer[c].pc = "load"
  BY DEF LoadCase, Busy
<1>2. CASE Seen(c) # Base(Row(c).job)
  <2>1. PICK r : r = [consumer[c] EXCEPT !.pc = "record", !.outcome = "rejected"]
    OBVIOUS
  <2>2. Set(c, r)
    BY <1>2, <2>1 DEF LoadCase, Goto
  <2>3. Passed(Row(c).job, Seen(c))
    <3>1. Base(Row(c).job) \in Nat /\ Base(Row(c).job) <= version /\ version \in Nat
          /\ Seen(c) \in Nat /\ version <= Seen(c)
      BY <1>1, AtRow, ZenonT(60)
    <3> QED
      BY <1>2, <3>1 DEF Passed
  <2>4. Allowed(c, r) /\ ClaimOK(r)
    BY <1>1, <2>1, <2>3, GotoAllowed DEF Busy, Outcomes
  <2> QED
    BY <2>2, <2>4
<1>3. CASE Seen(c) = Base(Row(c).job)
  <2>1. PICK r : r = [consumer[c] EXCEPT !.pc = "update", !.outcome = None]
    OBVIOUS
  <2>2. Set(c, r)
    BY <1>3, <2>1 DEF LoadCase, Goto
  <2>3. Row(c).verdict = "good"
    <3>1. Row(c) = consumer[c].todo[1]
      BY <1>1, AtRow, ZenonT(60)
    <3> QED
      BY <1>1, <3>1, SMTT(60) DEF Inv, TxnInv, Txn, Deciding
  <2>4. Allowed(c, r) /\ ClaimOK(r)
    BY <1>1, <2>1, <2>3, GotoAllowed DEF Busy
  <2> QED
    BY <2>2, <2>4
<1> QED
  BY <1>2, <1>3

(* A transaction that has written nothing yet, or none at all.             *)
LEMMA NothingWritten ==
    ASSUME NEW r, r.writes = NoWrites, Batch(r), r.pc \notin {"load", "update", "record"}
    PROVE  Txn(r) /\ \A s : Apart(r, s)
<1>1. r.writes.disposition = {} /\ r.writes.ledger = {} /\ r.writes.jobs = {}
  BY DEF NoWrites
<1>2. Recorded(r) = {}
  BY <1>1 DEF Recorded
<1>3. Quiet(r) /\ Effect(r) /\ Dispositions(r) /\ Deciding(r) /\ FollowUps(r)
  BY <1>1 DEF Quiet, Effect, Dispositions, Deciding, FollowUps
<1> QED
  BY <1>1, <1>2, <1>3 DEF Txn, Apart

LEMMA NoWritesType == NoWrites \in TxnWrites /\ IsFiniteSet(NoWrites.ledger)
  BY FS_EmptySet DEF NoWrites, TxnWrites

LEMMA IdleAllowed ==
    ASSUME Inv, NEW c \in Consumers
    PROVE  Allowed(c, IdleConsumer) /\ ClaimOK(IdleConsumer)
<1>1. IdleConsumer \in ConsumerState
  BY NoWritesType DEF IdleConsumer, ConsumerState
<1>2. IdleConsumer.pc = "idle" /\ IdleConsumer.writes = NoWrites /\ IdleConsumer.gen = 0
  BY DEF IdleConsumer
<1>3. WellFormed(IdleConsumer)
  BY <1>1, <1>2, NoWritesType DEF WellFormed, Busy
<1>4. Batch(IdleConsumer)
  BY <1>2 DEF Batch, Busy
<1>5. Txn(IdleConsumer) /\ \A s : Apart(IdleConsumer, s)
  BY <1>2, <1>4, NothingWritten
<1>6. wakeup.gen \in Nat
  BY DEF Inv, TypeOK, WakeupState
<1> QED
  BY <1>2, <1>3, <1>5, <1>6 DEF Allowed, ClaimOK

(* The transaction is rolled back, and the claim will be retried.          *)
LEMMA RolledBack ==
    ASSUME Inv, NEW c \in Consumers, NEW r, r \in ConsumerState, r.gen = consumer[c].gen,
           r.pc = "finish", r.again, r.writes = NoWrites
    PROVE  Allowed(c, r) /\ ClaimOK(r)
<1>1. WellFormed(r)
  BY NoWritesType DEF WellFormed, Busy
<1>2. Batch(r)
  BY DEF Batch, Busy
<1>3. Txn(r) /\ \A s : Apart(r, s)
  BY <1>2, NothingWritten
<1> QED
  BY <1>1, <1>3 DEF Allowed, ClaimOK, Inv, WakeupInv

LEMMA AbortBatchAllowed ==
    ASSUME Inv, NEW c \in Consumers, AbortBatch(c)
    PROVE  \E r : Set(c, r) /\ Allowed(c, r) /\ ClaimOK(r)
<1>1. CASE Set(c, IdleConsumer)
  BY <1>1, IdleAllowed
<1>2. CASE Set(c, [consumer[c] EXCEPT !.pc = "finish", !.again = TRUE, !.writes = NoWrites,
                                      !.todo = <<>>, !.outcome = None])
  <2>1. PICK r : r = [consumer[c] EXCEPT !.pc = "finish", !.again = TRUE, !.writes = NoWrites,
                                         !.todo = <<>>, !.outcome = None]
    OBVIOUS
  <2>2. consumer[c] \in ConsumerState
    BY DEF Inv, TypeOK
  <2>3. PICK S : S = Seq(ResultRow) /\ <<>> \in S
    BY EmptySeq
  <2>4. r \in ConsumerState
    BY <2>1, <2>2, <2>3, NoWritesType DEF ConsumerState
  <2>5. r.gen = consumer[c].gen /\ r.pc = "finish" /\ r.again /\ r.writes = NoWrites
    BY <2>1, <2>2 DEF ConsumerState
  <2>6. Allowed(c, r) /\ ClaimOK(r)
    BY <2>4, <2>5, RolledBack
  <2> QED
    BY <1>2, <2>1, <2>6
<1> QED
  BY <1>1, <1>2 DEF AbortBatch

LEMMA ReadBatchAllowed ==
    ASSUME Inv, NEW c \in Consumers, ReadBatch(c)
    PROVE  \E r : Set(c, r) /\ Allowed(c, r) /\ ClaimOK(r)
<1>1. PICK n \in 0..BatchSize : \E at \in [1..n -> DOMAIN inbox] :
        /\ IsBatch(at, n)
        /\ Set(c, [consumer[c] EXCEPT !.pc = IF n = 0 THEN "commit" ELSE "find",
                                      !.todo = [k \in 1..n |-> inbox[at[k]]]])
  BY DEF ReadBatch
<1>2. PICK at \in [1..n -> DOMAIN inbox] :
        /\ IsBatch(at, n)
        /\ Set(c, [consumer[c] EXCEPT !.pc = IF n = 0 THEN "commit" ELSE "find",
                                      !.todo = [k \in 1..n |-> inbox[at[k]]]])
  BY <1>1
<1>3. PICK pc : pc = IF n = 0 THEN "commit" ELSE "find"
  OBVIOUS
<1>4. PICK todo : todo = [k \in 1..n |-> inbox[at[k]]]
  OBVIOUS
<1>5. PICK r : r = [consumer[c] EXCEPT !.pc = pc, !.todo = todo]
  OBVIOUS
<1>6. Set(c, r)
  BY <1>2, <1>3, <1>4, <1>5
<1>7. n \in Nat
  BY QueueAssumption
<1>8. inbox \in Seq(ResultRow) /\ \A i \in DOMAIN inbox : inbox[i] \in ResultRow
  BY InboxRow DEF Inv, TypeOK
<1>9. todo \in Seq(ResultRow) /\ Len(todo) = n /\ DOMAIN todo = 1..n
      /\ \A k \in 1..n : todo[k] = inbox[at[k]]
  BY <1>4, <1>7, <1>8
<1>10. consumer[c] \in ConsumerState /\ consumer[c].pc = "claimed"
       /\ consumer[c].writes = NoWrites /\ ClaimOK(consumer[c])
  BY DEF ReadBatch, Inv, TypeOK, TxnInv, Txn, Quiet, WakeupInv
<1>11. pc \in Busy \cup {"idle", "claimed", "commit", "finish"}
  BY <1>3 DEF Busy
<1>12. r \in ConsumerState
  <2>1. PICK S : S = Seq(ResultRow) /\ todo \in S
    BY <1>9
  <2> QED
    BY <1>5, <1>10, <1>11, <2>1 DEF ConsumerState
<1>13. r.pc = pc /\ r.todo = todo /\ r.gen = consumer[c].gen /\ r.writes = NoWrites
  BY <1>5, <1>10 DEF ConsumerState
<1>14. pc \in Busy => todo # <<>>
  BY <1>3, <1>7, <1>9 DEF Busy
<1>15. WellFormed(r)
  BY <1>3, <1>12, <1>13, <1>14, NoWritesType DEF WellFormed
<1>16. Batch(r)
  <2>1. \A k \in 1..n : InInbox(todo[k])
    BY <1>9 DEF InInbox
  <2>2. ASSUME NEW k \in 1..n, NEW l \in 1..n, todo[k].job = todo[l].job PROVE k = l
    <3>1. at[k] = at[l]
      BY <1>9, <2>2 DEF Inv, QueueInv, OneRow
    <3>2. \A x, y \in 1..n : x < y => at[x] < at[y]
      BY <1>2 DEF IsBatch
    <3>3. k \in Nat /\ l \in Nat /\ at[k] \in Nat
      BY <1>7, <1>8, LenProperties
    <3> QED
      BY <3>1, <3>2, <3>3
  <2>3. Recorded(r) = {}
    BY <1>13 DEF Recorded, NoWrites
  <2> QED
    BY <1>9, <1>13, <2>1, <2>2, <2>3 DEF Batch
<1>17. Txn(r) /\ \A s : Apart(r, s)
  BY <1>3, <1>13, <1>16, NothingWritten
<1>18. ClaimOK(r)
  BY <1>3, <1>10, <1>13 DEF ClaimOK
<1> QED
  BY <1>6, <1>15, <1>17, <1>18 DEF Allowed

(* The Result of a job has one verdict.                                    *)
LEMMA GoodNotBad ==
    ASSUME OneRow, NEW j, Good(j)
    PROVE  ~Bad(j)
  BY DEF OneRow, Good, Bad

(* What a transaction has applied no other has disposed of.                *)
LEMMA EffectFresh ==
    ASSUME Inv, NEW c \in Consumers, NEW j \in consumer[c].writes.ledger
    PROVE  j \notin DOMAIN disposition
<1>1. Base(j) = version /\ Good(j) /\ version \in Nat
  BY DEF Inv, TypeOK, TxnInv, Txn, Effect
<1>2. ~Bad(j)
  BY <1>1, GoodNotBad DEF Inv, QueueInv
<1>3. ~Passed(j, version)
  BY <1>1, <1>2 DEF Passed
<1> QED
  BY <1>3 DEF Inv, CaseInv

LEMMA UpdateCaseAllowed ==
    ASSUME Inv, NEW c \in Consumers, UpdateCase(c)
    PROVE  \E r : Set(c, r) /\ Allowed(c, r) /\ ClaimOK(r)
<1>1. PICK q : q = consumer[c]
  OBVIOUS
<1>2. WellFormed(q) /\ Txn(q) /\ q.pc = "update" /\ q.pc \in Busy /\ ClaimOK(q)
      /\ \A d \in Consumers \ {c} : Apart(q, consumer[d])
  BY <1>1 DEF Inv, TypeOK, TxnInv, WakeupInv, UpdateCase, Busy
<1>3. q \in ConsumerState
  BY <1>2 DEF WellFormed
<1>4. CASE Seen(c) = Base(Row(c).job)
  <2>1. PICK w : w = WithEffect(c)
    OBVIOUS
  <2>2. PICK r : r = [consumer[c] EXCEPT !.pc = "record", !.outcome = "applied", !.writes = w]
    OBVIOUS
  <2>3. Set(c, r)
    BY <1>4, <2>1, <2>2 DEF UpdateCase
  <2>4. PICK j : j = Row(c).job
    OBVIOUS
  <2>5. /\ Row(c) = q.todo[1] /\ InInbox(Row(c)) /\ j \in Jobs /\ j \notin Recorded(q)
        /\ version \in Nat /\ Base(j) \in Nat /\ Base(j) <= version
        /\ Seen(c) = Sees(q) /\ version <= Sees(q) /\ Base(j) = Sees(q)
    BY <1>1, <1>2, <1>4, <2>4, AtRow
  <2>6. Base(j) = version /\ Sees(q) = version /\ q.writes.ledger = {}
    BY <1>2, <2>5, LedgerSize DEF Txn
  <2>7. q.writes \in TxnWrites
    BY <1>3, ConsumerFields
  <2>8. w \in TxnWrites /\ w.ledger = {j} /\ w.disposition = q.writes.disposition
        /\ w.jobs = q.writes.jobs
    <3>1. w = [q.writes EXCEPT !.ledger = {j}]
      BY <1>1, <2>1, <2>4, <2>6 DEF WithEffect
    <3>2. w.ledger = {j} /\ w.disposition = q.writes.disposition /\ w.jobs = q.writes.jobs
      BY <2>7, <3>1 DEF TxnWrites
    <3>3. w \in TxnWrites
      BY <2>5, <2>7, <3>1 DEF TxnWrites
    <3> QED
      BY <3>2, <3>3
  <2>9. r \in ConsumerState
    BY <1>1, <1>3, <2>2, <2>8 DEF ConsumerState, Busy, Outcomes
  <2>10. r.pc = "record" /\ r.outcome = "applied" /\ r.todo = q.todo /\ r.gen = q.gen
         /\ r.writes = w
    BY <1>1, <1>3, <2>2 DEF ConsumerState
  <2>11. WellFormed(r)
    BY <1>2, <2>8, <2>9, <2>10, FS_Singleton DEF WellFormed, Outcomes
  <2>12. Recorded(r) = Recorded(q)
    BY <2>8, <2>10 DEF Recorded
  <2>13. Good(j)
    BY <1>2, <2>4, <2>5 DEF Txn, Deciding, Good, InInbox
  <2>14. Batch(r) /\ Quiet(r)
    BY <1>2, <2>10, <2>12 DEF Txn, Batch, Quiet
  <2>15. Effect(r)
    BY <2>4, <2>5, <2>6, <2>8, <2>10, <2>13 DEF Effect
  <2>16. Sees(r) = version + 1
    BY <2>5, <2>8, <2>10, <2>15, LedgerSize
  <2>17. Deciding(r)
    BY <2>4, <2>5, <2>6, <2>8, <2>10, <2>16 DEF Deciding, Passed
  <2>18. Dispositions(r)
    <3>1. ASSUME NEW d \in r.writes.disposition
          PROVE  /\ d.job \notin DOMAIN disposition /\ Passed(d.job, Sees(r))
                 /\ d.status = "recompute" => Base(d.job) < Sees(r)
                 /\ d.status = "applied" => d.job \in r.writes.ledger
      <4>1. d \in q.writes.disposition /\ d.job \in Jobs
        BY <2>7, <2>8, <2>10 DEF TxnWrites
      <4>2. Base(d.job) \in Nat
        BY <2>5, <4>1 DEF Inv, CaseInv, Base
      <4>3. Base(d.job) < Sees(q) => Base(d.job) < Sees(r)
        BY <2>5, <2>6, <2>16, <4>2
      <4> QED
        BY <1>2, <2>6, <4>1, <4>3 DEF Txn, Dispositions, Passed
    <3>2. \A d, e \in r.writes.disposition : d.job = e.job => d = e
      BY <1>2, <2>8, <2>10 DEF Txn, Dispositions
    <3> QED
      BY <3>1, <3>2 DEF Dispositions
  <2>19. FollowUps(r)
    <3>1. 2..Sees(q) \subseteq 2..Sees(r)
      BY <2>5, <2>6, <2>16
    <3> QED
      BY <1>2, <2>8, <2>10, <3>1 DEF Txn, FollowUps
  <2>20. ASSUME NEW d \in Consumers \ {c} PROVE Apart(r, consumer[d])
    <3>1. consumer[d].writes.ledger = {}
      BY DEF UpdateCase, Locked
    <3> QED
      BY <1>2, <2>12, <3>1 DEF Apart
  <2>21. ClaimOK(r)
    BY <1>2, <2>10 DEF ClaimOK
  <2> QED
    BY <2>3, <2>11, <2>14, <2>15, <2>17, <2>18, <2>19, <2>20, <2>21 DEF Allowed, Txn
<1>5. CASE Seen(c) # Base(Row(c).job)
  <2>1. PICK r : r = [consumer[c] EXCEPT !.pc = "finish", !.again = TRUE, !.writes = NoWrites]
    OBVIOUS
  <2>2. Set(c, r)
    BY <1>5, <2>1 DEF UpdateCase
  <2>3. r \in ConsumerState
    BY <1>1, <1>3, <2>1, NoWritesType DEF ConsumerState
  <2>4. r.gen = consumer[c].gen /\ r.pc = "finish" /\ r.again /\ r.writes = NoWrites
    BY <1>1, <1>3, <2>1 DEF ConsumerState
  <2>5. Allowed(c, r) /\ ClaimOK(r)
    BY <2>3, <2>4, RolledBack
  <2> QED
    BY <2>2, <2>5
<1> QED
  BY <1>4, <1>5

(* The rows left once the first is done.                                   *)
LEMMA RowsLeft ==
    ASSUME NEW s \in Seq(ResultRow), s # <<>>
    PROVE  /\ Tail(s) \in Seq(ResultRow) /\ Len(s) \in Nat
           /\ Len(s) > 1 => Tail(s) # <<>>
           /\ \A k \in DOMAIN Tail(s) : k + 1 \in DOMAIN s /\ k \in Nat \ {0} /\ Tail(s)[k] = s[k + 1]
<1>1. PICK t : t = Tail(s)
  OBVIOUS
<1>2. t \in Seq(ResultRow) /\ Len(t) = Len(s) - 1 /\ \A i \in 1..Len(t) : t[i] = s[i + 1]
  BY <1>1, HeadTailProperties
<1>3. Len(s) \in Nat /\ DOMAIN s = 1..Len(s) /\ Len(t) \in Nat /\ DOMAIN t = 1..Len(t)
  BY <1>2, LenProperties
<1>4. Len(s) > 1 => t # <<>>
  BY <1>2, <1>3
<1>5. ASSUME NEW k \in DOMAIN t PROVE k + 1 \in DOMAIN s /\ k \in Nat \ {0} /\ t[k] = s[k + 1]
  BY <1>2, <1>3
<1> QED
  BY <1>1, <1>2, <1>3, <1>4, <1>5

LEMMA RecordDispositionAllowed ==
    ASSUME Inv, NEW c \in Consumers, RecordDisposition(c)
    PROVE  \E r : Set(c, r) /\ Allowed(c, r) /\ ClaimOK(r)
<1>1. PICK q : q = consumer[c]
  OBVIOUS
<1>2. PICK j : j = Row(c).job
  OBVIOUS
<1>3. PICK b \in BOOLEAN : b = (consumer[c].again \/ Standing(c) = "recompute")
  BY Zenon
<1>4. PICK w : w = WithRecord(c)
  OBVIOUS
<1>5. PICK d0 : d0 = [job |-> j, status |-> q.outcome]
  OBVIOUS
<1>6. PICK todo : todo = Tail(q.todo)
  OBVIOUS
<1>7. PICK pc : pc = IF Len(q.todo) > 1 THEN "find" ELSE "commit"
  OBVIOUS
<1>8. PICK r : r = [q EXCEPT !.pc = pc, !.todo = todo, !.outcome = None,
                             !.again = b, !.writes = w]
  OBVIOUS
<1>9. Set(c, r)
  <2>1. Set(c, [consumer[c] EXCEPT
         !.pc = IF Len(consumer[c].todo) > 1 THEN "find" ELSE "commit",
         !.todo = Tail(consumer[c].todo), !.outcome = None,
         !.again = consumer[c].again \/ Standing(c) = "recompute", !.writes = WithRecord(c)])
    BY Zenon DEF RecordDisposition
  <2> QED
    BY <1>1, <1>3, <1>4, <1>6, <1>7, <1>8, <2>1, Zenon
<1>10. WellFormed(q) /\ Txn(q) /\ q.pc = "record" /\ q.pc \in Busy /\ ClaimOK(q)
       /\ \A d \in Consumers \ {c} : Apart(q, consumer[d])
  BY <1>1 DEF Inv, TypeOK, TxnInv, WakeupInv, RecordDisposition, Busy
<1>11. q \in ConsumerState /\ q.outcome \in Outcomes /\ q.todo # <<>> /\ q.todo \in Seq(ResultRow)
       /\ q.writes \in TxnWrites /\ IsFiniteSet(q.writes.ledger)
  BY <1>10, ConsumerFields DEF WellFormed
<1>12. /\ Row(c) = q.todo[1] /\ 1 \in DOMAIN q.todo /\ j \in Jobs /\ j \notin Recorded(q)
       /\ version \in Nat /\ Base(j) \in Nat /\ 1 <= Base(j)
       /\ Seen(c) = Sees(q) /\ Sees(q) \in Nat
  BY <1>1, <1>2, <1>10, AtRow
<1>13. d0 \in [job : Jobs, status : Outcomes] /\ d0.job = j /\ d0.status = q.outcome
  BY <1>5, <1>11, <1>12
<1>14. PICK D : D = IF IsFirst(c) THEN q.writes.disposition \cup {d0} ELSE q.writes.disposition
  OBVIOUS
<1>15. PICK J : J = AfterRecord(c)
  OBVIOUS
<1>16. w = [q.writes EXCEPT !.disposition = D, !.jobs = J]
  BY <1>1, <1>2, <1>4, <1>5, <1>14, <1>15 DEF WithRecord
<1>17. D \subseteq [job : Jobs, status : Outcomes] /\ J \subseteq Jobs \X Nat
  <2>1. q.writes.disposition \subseteq [job : Jobs, status : Outcomes]
        /\ q.writes.jobs \subseteq Jobs \X Nat
    BY <1>11 DEF TxnWrites
  <2>2. D \subseteq [job : Jobs, status : Outcomes]
    BY <1>13, <1>14, <2>1, Zenon
  <2>3. FollowUp(Row(c).job, Seen(c)) \in Jobs \X Nat
    BY <1>2, <1>12 DEF FollowUp
  <2>4. J \subseteq Jobs \X Nat
    BY <1>1, <1>15, <2>1, <2>3, Zenon DEF AfterRecord
  <2> QED
    BY <2>2, <2>4
<1>18. w \in TxnWrites /\ w.disposition = D /\ w.jobs = J /\ w.ledger = q.writes.ledger
  <2>1. w \in TxnWrites
    BY <1>11, <1>16, <1>17 DEF TxnWrites
  <2>2. w.disposition = D /\ w.jobs = J /\ w.ledger = q.writes.ledger
    BY <1>11, <1>16 DEF TxnWrites
  <2> QED
    BY <2>1, <2>2
<1>19. /\ todo \in Seq(ResultRow) /\ (pc \in Busy => todo # <<>>)
       /\ \A k \in DOMAIN todo : k + 1 \in DOMAIN q.todo /\ k \in Nat \ {0} /\ todo[k] = q.todo[k + 1]
  BY <1>6, <1>7, <1>11, RowsLeft DEF Busy
<1>20. r \in ConsumerState
  <2>1. PICK S : S = Seq(ResultRow)
    OBVIOUS
  <2>2. pc \in Busy \cup {"idle", "claimed", "commit", "finish"}
    BY <1>7 DEF Busy
  <2> QED
    BY <1>8, <1>11, <1>18, <1>19, <2>1, <2>2 DEF ConsumerState
<1>21. r.pc = pc /\ r.todo = todo /\ r.gen = q.gen /\ r.writes = w
  BY <1>8, <1>11 DEF ConsumerState
<1>22. pc \in {"find", "commit"}
  BY <1>7
<1>23. WellFormed(r)
  BY <1>11, <1>18, <1>19, <1>20, <1>21, <1>22 DEF WellFormed
<1>24. Sees(r) = Sees(q)
  BY <1>18, <1>21 DEF Sees
<1>25. Recorded(r) \subseteq Recorded(q) \cup {j}
  BY <1>13, <1>14, <1>18, <1>21, Zenon DEF Recorded
<1>26. Batch(r) /\ Quiet(r)
  <2>1. ASSUME NEW k \in DOMAIN todo
        PROVE  InInbox(todo[k]) /\ todo[k].job \notin Recorded(r)
    <3>1. k + 1 \in DOMAIN q.todo /\ k + 1 # 1 /\ todo[k] = q.todo[k + 1]
      BY <1>19
    <3>2. q.todo[k + 1].job # j
      BY <1>2, <1>10, <1>12, <3>1 DEF Txn, Batch
    <3>3. InInbox(q.todo[k + 1]) /\ q.todo[k + 1].job \notin Recorded(q)
      BY <1>10, <3>1 DEF Txn, Batch
    <3> QED
      BY <1>25, <3>1, <3>2, <3>3
  <2>2. ASSUME NEW k \in DOMAIN todo, NEW l \in DOMAIN todo, todo[k].job = todo[l].job
        PROVE  k = l
    <3>1. k + 1 = l + 1
      BY <1>10, <1>19, <2>2 DEF Txn, Batch
    <3> QED
      BY <1>19, <3>1
  <2> QED
    BY <1>21, <1>22, <2>1, <2>2 DEF Batch, Quiet
<1>27. Effect(r)
  <2>1. ASSUME NEW k \in r.writes.ledger
        PROVE  [job |-> k, status |-> "applied"] \in r.writes.disposition
    <3>1. k \in q.writes.ledger
      BY <1>18, <1>21
    <3>2. CASE [job |-> k, status |-> "applied"] \in q.writes.disposition
      BY <1>14, <1>18, <1>21, <3>2
    <3>3. CASE q.outcome = "applied" /\ q.todo[1].job = k
      <4>1. k = j /\ IsFirst(c)
        BY <1>1, <1>2, <1>12, <3>1, <3>3, EffectFresh DEF IsFirst
      <4>2. [job |-> k, status |-> "applied"] = d0
        BY <1>5, <3>3, <4>1
      <4> QED
        BY <1>14, <1>18, <1>21, <4>1, <4>2, Zenon
    <3> QED
      BY <1>10, <3>1, <3>2, <3>3 DEF Txn, Effect
  <2> QED
    BY <1>10, <1>18, <1>21, <2>1 DEF Txn, Effect
<1>28. Dispositions(r)
  <2>1. ASSUME NEW d \in r.writes.disposition
        PROVE  /\ d.job \notin DOMAIN disposition /\ Passed(d.job, Sees(r))
               /\ d.status = "recompute" => Base(d.job) < Sees(r)
               /\ d.status = "applied" => d.job \in r.writes.ledger
    <3>1. CASE d \in q.writes.disposition
      BY <1>10, <1>18, <1>21, <1>24, <3>1 DEF Txn, Dispositions
    <3>2. CASE d = d0 /\ IsFirst(c)
      <4>1. j \notin DOMAIN disposition
        BY <1>2, <3>2 DEF IsFirst
      <4>2. /\ Passed(j, Sees(q))
            /\ q.outcome = "recompute" => Base(j) < Sees(q)
            /\ q.outcome = "applied" => j \in q.writes.ledger
        BY <1>2, <1>10, <1>12 DEF Txn, Deciding
      <4> QED
        BY <1>13, <1>18, <1>21, <1>24, <3>2, <4>1, <4>2
    <3> QED
      BY <1>14, <1>18, <1>21, <3>1, <3>2
  <2>2. ASSUME NEW d \in r.writes.disposition, NEW e \in r.writes.disposition, d.job = e.job
        PROVE  d = e
    <3>1. (d \in q.writes.disposition \/ d = d0) /\ (e \in q.writes.disposition \/ e = d0)
      BY <1>14, <1>18, <1>21
    <3>2. \A f \in q.writes.disposition : f.job # j
      BY <1>12 DEF Recorded
    <3> QED
      BY <1>10, <1>13, <2>2, <3>1, <3>2 DEF Txn, Dispositions
  <2> QED
    BY <2>1, <2>2 DEF Dispositions
<1>29. Deciding(r)
  BY <1>21, <1>22 DEF Deciding
<1>30. FollowUps(r)
  <2>1. CASE ~(IsFirst(c) /\ q.outcome = "recompute")
    <3>1. J = q.writes.jobs
      BY <1>1, <1>15, <2>1 DEF AfterRecord
    <3>2. D = q.writes.disposition \/ (D = q.writes.disposition \cup {d0} /\ d0.status # "recompute")
      BY <1>13, <1>14, <2>1
    <3>3. q.writes.disposition \subseteq D
          /\ \A d \in D : d.status = "recompute" => d \in q.writes.disposition
      BY <3>2
    <3> QED
      BY <1>10, <1>18, <1>21, <1>24, <3>1, <3>3 DEF Txn, FollowUps
  <2>2. CASE IsFirst(c) /\ q.outcome = "recompute"
    <3>1. PICK f : f = FollowUp(j, Sees(q))
      OBVIOUS
    <3>2. J = q.writes.jobs \cup {f} /\ D = q.writes.disposition \cup {d0}
      BY <1>1, <1>2, <1>12, <1>14, <1>15, <2>2, <3>1 DEF AfterRecord
    <3>3. f[1] = j /\ f[2] = Sees(q) /\ f = <<j, Sees(q)>>
      BY <3>1 DEF FollowUp
    <3>4. Sees(q) \in 2..Sees(q)
      <4>1. Base(j) < Sees(q)
        BY <1>2, <1>10, <1>12, <2>2 DEF Txn, Deciding
      <4> QED
        BY <1>12, <4>1
    <3>5. [job |-> j, status |-> "recompute"] = d0
      BY <1>5, <2>2
    <3>6. ASSUME NEW k \in J
          PROVE  k[2] \in 2..Sees(q) /\ [job |-> k[1], status |-> "recompute"] \in D
      <4>1. CASE k = f
        BY <3>2, <3>3, <3>4, <3>5, <4>1
      <4>2. CASE k \in q.writes.jobs
        BY <1>10, <3>2, <4>2 DEF Txn, FollowUps
      <4> QED
        BY <3>2, <4>1, <4>2
    <3>7. ASSUME NEW k \in q.writes.jobs PROVE k[1] # j
      <4>1. [job |-> k[1], status |-> "recompute"] \in q.writes.disposition
        BY <1>10 DEF Txn, FollowUps
      <4>2. k[1] \in Recorded(q)
        BY <4>1 DEF Recorded
      <4> QED
        BY <1>12, <4>2
    <3>8. \A k, l \in J : k[1] = l[1] => k = l
      BY <1>10, <3>2, <3>3, <3>7 DEF Txn, FollowUps
    <3>9. ASSUME NEW d \in D, d.status = "recompute"
          PROVE  \E v \in 2..Sees(q) : FollowUp(d.job, v) \in J
      <4>1. CASE d = d0
        BY <1>13, <3>1, <3>2, <3>4, <4>1
      <4>2. CASE d \in q.writes.disposition
        BY <1>10, <3>2, <3>9, <4>2 DEF Txn, FollowUps
      <4> QED
        BY <3>2, <4>1, <4>2
    <3> QED
      BY <1>18, <1>21, <1>24, <3>6, <3>8, <3>9 DEF FollowUps
  <2> QED
    BY <2>1, <2>2
<1>31. ASSUME NEW d \in Consumers \ {c} PROVE Apart(r, consumer[d])
  <2>1. j \notin Recorded(consumer[d])
    BY <1>2 DEF RecordDisposition, Writes, Recorded
  <2> QED
    BY <1>10, <1>18, <1>21, <1>25, <2>1 DEF Apart
<1>32. ClaimOK(r)
  BY <1>10, <1>21, <1>22 DEF ClaimOK
<1> QED
  BY <1>9, <1>23, <1>26, <1>27, <1>28, <1>29, <1>30, <1>31, <1>32 DEF Allowed, Txn

(* The steps of a consumer before it commits.                              *)
LEMMA BatchStep ==
    ASSUME Inv, NEW c \in Consumers,
           \/ ReadBatch(c) \/ FindApplied(c) \/ CheckVersion(c) \/ LoadCase(c) \/ UpdateCase(c)
           \/ RecordDisposition(c) \/ AbortBatch(c)
    PROVE  Inv'
<1>1. PICK r : Set(c, r) /\ Allowed(c, r) /\ ClaimOK(r)
  BY ReadBatchAllowed, FindAppliedAllowed, CheckVersionAllowed, LoadCaseAllowed,
     UpdateCaseAllowed, RecordDispositionAllowed, AbortBatchAllowed, Zenon
<1>2. UNCHANGED <<queue, applied, worker, wakeup>>
  BY DEF ReadBatch, FindApplied, CheckVersion, LoadCase, UpdateCase, RecordDisposition, AbortBatch
<1>3. wakeup' \in WakeupState /\ (wakeup'.status = "idle" => Accepted \subseteq DOMAIN disposition)
  BY <1>2 DEF Inv, TypeOK, WakeupInv, NoLostWakeup
<1>4. TypeOK' /\ QueueInv' /\ CaseInv' /\ FollowUpInv' /\ TxnInv'
  BY <1>1, <1>2, <1>3, ConsumerMoves
<1>5. WakeupInv'
  BY <1>1, <1>2, <1>3, WakeupMoves DEF queue, applied
<1> QED
  BY <1>4, <1>5 DEF Inv

LEMMA WakeupFields ==
    ASSUME NEW u \in WakeupState
    PROVE  u.gen \in Nat /\ u.status \in {"idle", "pending"}
  BY DEF WakeupState

LEMMA ClaimWakeupKeeps ==
    ASSUME Inv, NEW c \in Consumers, ClaimWakeup(c)
    PROVE  Inv'
<1>1. PICK u : u = wakeup
  OBVIOUS
<1>2. u \in WakeupState /\ u.gen \in Nat /\ u.status \in {"idle", "pending"}
  BY <1>1, WakeupFields DEF Inv, TypeOK
<1>3. PICK r : r = [IdleConsumer EXCEPT !.pc = "claimed", !.gen = u.gen]
  OBVIOUS
<1>4. PICK o : o = Owner(c)
  OBVIOUS
<1>5. PICK v : v = [u EXCEPT !.owner = o, !.leaseGen = u.gen, !.expired = FALSE]
  OBVIOUS
<1>6. Set(c, r) /\ wakeup' = v /\ UNCHANGED <<queue, applied, worker>>
  BY <1>1, <1>3, <1>4, <1>5 DEF ClaimWakeup
<1>7. o \in Consumers \cup {"server", None}
  BY <1>4 DEF Owner
<1>8. v \in WakeupState
  BY <1>2, <1>5, <1>7 DEF WakeupState
<1>9. v.gen = u.gen /\ v.status = u.status
  BY <1>2, <1>5 DEF WakeupState
<1>10. r \in ConsumerState
  <2>1. PICK q : q = IdleConsumer
    OBVIOUS
  <2>2. q \in ConsumerState
    BY <2>1, NoWritesType DEF IdleConsumer, ConsumerState
  <2> QED
    BY <1>2, <1>3, <2>1, <2>2 DEF ConsumerState
<1>11. r.pc = "claimed" /\ r.gen = u.gen /\ r.writes = NoWrites
  BY <1>3 DEF IdleConsumer
<1>12. WellFormed(r) /\ Batch(r)
  BY <1>10, <1>11, NoWritesType DEF WellFormed, Batch, Busy
<1>13. Txn(r) /\ \A s : Apart(r, s)
  BY <1>11, <1>12, NothingWritten
<1>14. Allowed(c, r) /\ ClaimOK(r)
  BY <1>1, <1>2, <1>11, <1>12, <1>13 DEF Allowed, ClaimOK
<1>15. TypeOK' /\ QueueInv' /\ CaseInv' /\ FollowUpInv' /\ TxnInv'
  BY <1>6, <1>8, <1>14, ConsumerMoves
<1>16. wakeup'.gen = wakeup.gen
       /\ (wakeup'.status = "idle" => Accepted \subseteq DOMAIN disposition)
  BY <1>1, <1>6, <1>9 DEF Inv, WakeupInv, NoLostWakeup
<1>17. WakeupInv'
  BY <1>6, <1>14, <1>16, WakeupMoves DEF queue, applied
<1> QED
  BY <1>15, <1>17 DEF Inv

LEMMA FinishClaimKeeps ==
    ASSUME Inv, NEW c \in Consumers, FinishClaim(c)
    PROVE  Inv'
<1>1. PICK u : u = wakeup
  OBVIOUS
<1>2. u \in WakeupState
  BY <1>1 DEF Inv, TypeOK
<1>3. Set(c, IdleConsumer) /\ UNCHANGED <<queue, applied, worker>>
  BY DEF FinishClaim
<1>4. Allowed(c, IdleConsumer) /\ ClaimOK(IdleConsumer)
  BY IdleAllowed
<1>5. /\ wakeup' \in WakeupState /\ wakeup'.gen = wakeup.gen
      /\ wakeup'.status = "idle" => Accepted \subseteq DOMAIN disposition
  <2>1. CASE wakeup' = wakeup
    BY <2>1 DEF Inv, TypeOK, WakeupInv, NoLostWakeup
  <2>2. CASE wakeup' = RetryWakeup
    <3>1. PICK v : v = [u EXCEPT !.status = "pending", !.owner = None, !.expired = FALSE]
      OBVIOUS
    <3>2. v \in WakeupState
      BY <1>2, <3>1 DEF WakeupState
    <3>3. v.gen = u.gen /\ v.status = "pending"
      BY <1>2, <3>1 DEF WakeupState
    <3>4. wakeup' = v
      BY <1>1, <2>2, <3>1 DEF RetryWakeup
    <3> QED
      BY <1>1, <3>2, <3>3, <3>4
  <2>3. CASE wakeup' = CompleteWakeup(consumer[c].gen) /\ ~consumer[c].again
    <3>1. PICK s : s = IF u.gen = consumer[c].gen THEN "idle" ELSE "pending"
      OBVIOUS
    <3>2. PICK v : v = [u EXCEPT !.status = s, !.owner = None, !.expired = FALSE]
      OBVIOUS
    <3>3. v \in WakeupState
      BY <1>2, <3>1, <3>2 DEF WakeupState
    <3>4. v.gen = u.gen /\ v.status = s
      BY <1>2, <3>2 DEF WakeupState
    <3>5. wakeup' = v
      BY <1>1, <2>3, <3>1, <3>2 DEF CompleteWakeup
    <3>6. s = "idle" => Accepted \subseteq DOMAIN disposition
      BY <1>1, <2>3, <3>1 DEF FinishClaim, Inv, WakeupInv, ClaimOK
    <3> QED
      BY <1>1, <3>3, <3>4, <3>5, <3>6
  <2> QED
    BY <2>1, <2>2, <2>3 DEF FinishClaim
<1>6. TypeOK' /\ QueueInv' /\ CaseInv' /\ FollowUpInv' /\ TxnInv'
  BY <1>3, <1>4, <1>5, ConsumerMoves
<1>7. WakeupInv'
  BY <1>3, <1>4, <1>5, WakeupMoves DEF queue, applied
<1> QED
  BY <1>6, <1>7 DEF Inv

(* A step of the queue, seen by the consumers: rows arrive, with a signal. *)
LEMMA TxnSeesMore ==
    ASSUME InboxGrows, Jobs' = Jobs, UNCHANGED <<disposition, version>>, NEW r
    PROVE  /\ WellFormed(r) => WellFormed(r)'
           /\ Txn(r) => Txn(r)'
           /\ \A j, v : Passed(j, v) => Passed(j, v)'
<1>1. ConsumerState' = ConsumerState
  BY DEF ConsumerState, ResultRow, TxnWrites
<1>2. WellFormed(r) => WellFormed(r)'
  BY <1>1 DEF WellFormed
<1>3. /\ Sees(r)' = Sees(r)
      /\ \A j : Good(j) => Good(j)'
      /\ \A j, v : Passed(j, v) => Passed(j, v)'
      /\ \A q : InInbox(q) => InInbox(q)'
  <2>1. \A j : (Good(j) => Good(j)') /\ (Bad(j) => Bad(j)')
    BY DEF InboxGrows, Good, Bad
  <2>2. \A q : InInbox(q) => InInbox(q)'
    BY DEF InboxGrows, InInbox
  <2> QED
    BY <2>1, <2>2 DEF Passed, Sees
<1>4. Batch(r) => Batch(r)'
  BY <1>3 DEF Batch
<1>5. Effect(r) => Effect(r)'
  BY <1>3 DEF Effect
<1>6. Dispositions(r) => Dispositions(r)'
  BY <1>3 DEF Dispositions
<1>7. Deciding(r) => Deciding(r)'
  BY <1>3 DEF Deciding
<1>8. FollowUps(r) => FollowUps(r)'
  BY <1>3 DEF FollowUps
<1> QED
  BY <1>2, <1>3, <1>4, <1>5, <1>6, <1>7, <1>8 DEF Txn, Quiet

LEMMA QueueStepKeeps ==
    ASSUME Inv, QueueTypes', QueueInv', InboxGrows, Jobs' = Jobs, UNCHANGED <<applied, consumer>>,
           (UNCHANGED <<inbox, wakeup>>) \/ wakeup' = SignalWakeup
    PROVE  Inv'
<1>1. UNCHANGED <<disposition, ledger, version>>
  BY DEF applied
<1>2. wakeup \in WakeupState
  BY DEF Inv, TypeOK
<1>3. wakeup' = SignalWakeup => wakeup' \in WakeupState /\ wakeup'.gen = wakeup.gen + 1
                                 /\ wakeup'.status = "pending"
  <2>1. PICK n \in Nat : n = wakeup.gen + 1
    BY <1>2, WakeupFields
  <2>2. PICK v : v = [wakeup EXCEPT !.gen = n, !.status = "pending"]
    OBVIOUS
  <2>3. v \in WakeupState
    BY <1>2, <2>2 DEF WakeupState
  <2>4. v.gen = n /\ v.status = "pending"
    BY <1>2, <2>2 DEF WakeupState
  <2>5. SignalWakeup = v
    BY <2>1, <2>2 DEF SignalWakeup
  <2> QED
    BY <2>1, <2>3, <2>4, <2>5
<1>4. ASSUME NEW c \in Consumers
      PROVE  WellFormed(consumer[c])' /\ Txn(consumer[c])' /\ ClaimOK(consumer[c])'
  <2>1. PICK q : q = consumer[c] /\ q = consumer'[c]
    OBVIOUS
  <2>2. WellFormed(q) /\ Txn(q) /\ ClaimOK(q)
    BY <2>1 DEF Inv, TypeOK, TxnInv, WakeupInv
  <2>3. WellFormed(q)' /\ Txn(q)'
    BY <1>1, <2>2, TxnSeesMore
  <2>4. ClaimOK(q)'
    <3>1. CASE UNCHANGED <<inbox, wakeup>>
      BY <1>1, <2>2, <3>1 DEF ClaimOK, Accepted
    <3>2. CASE wakeup' = SignalWakeup
      <4>1. q.gen \in Nat /\ wakeup.gen \in Nat /\ wakeup'.gen = wakeup.gen + 1
        BY <1>2, <1>3, <2>2, <3>2, ConsumerFields, WakeupFields DEF WellFormed
      <4> QED
        BY <2>2, <4>1 DEF ClaimOK
    <3> QED
      BY <3>1, <3>2
  <2> QED
    BY <2>1, <2>3, <2>4, Zenon
<1>5. TypeOK'
  <2>1. ConsumerState' = ConsumerState
    BY DEF ConsumerState, ResultRow, TxnWrites
  <2>2. wakeup' \in WakeupState
    BY <1>2, <1>3
  <2> QED
    BY <1>1, <1>4, <2>1, <2>2 DEF Inv, TypeOK, QueueTypes
<1>6. WakeupInv'
  <2>1. NoLostWakeup'
    BY <1>1, <1>3 DEF NoLostWakeup, Inv, WakeupInv, Accepted
  <2> QED
    BY <1>4, <2>1 DEF WakeupInv
<1>7. CaseInv' /\ FollowUpInv'
  <2>1. \A j, v : Passed(j, v) => Passed(j, v)'
    BY <1>1, TxnSeesMore
  <2> QED
    BY <1>1, <2>1 DEF Inv, CaseInv, FollowUpInv, EffectOnce
<1>8. TxnInv'
  BY <1>4 DEF Inv, TxnInv, Apart, Recorded
<1> QED
  BY <1>5, <1>6, <1>7, <1>8 DEF Inv

LEMMA WorkerStepKeeps ==
    ASSUME Inv, NEW w \in Workers, WorkerStep(w)
    PROVE  Inv'
<1>1. QueueTypes /\ QueueInv
  BY DEF Inv, TypeOK, QueueTypes
<1> DEFINE Kept == /\ QueueTypes' /\ QueueInv' /\ InboxGrows
                   /\ Jobs' = Jobs /\ UNCHANGED <<applied, consumer>>
                   /\ (UNCHANGED <<inbox, wakeup>>) \/ wakeup' = SignalWakeup
<1>2. ASSUME NEW j \in Jobs, SelectJob(w, j) PROVE Kept
  <2>1. QueueTypes' /\ QueueInv' /\ InboxGrows
    BY <1>1, <1>2, SelectJobKeeps
  <2> QED
    BY <1>2, <2>1, Zenon DEF SelectJob, queue, Jobs
<1>3. ASSUME InsertLease(w) PROVE Kept
  <2>1. QueueTypes' /\ QueueInv' /\ InboxGrows
    BY <1>1, <1>3, InsertLeaseKeeps
  <2>2. Jobs' = Jobs
    BY <1>3 DEF InsertLease, Jobs
  <2> QED
    BY <1>3, <2>1, <2>2, Zenon DEF InsertLease
<1>4. ASSUME NEW pc \in {"renewing", "appending"}, Begin(w, pc) PROVE Kept
  <2>1. QueueTypes' /\ QueueInv' /\ InboxGrows
    BY <1>1, <1>4, BeginKeeps
  <2> QED
    BY <1>4, <2>1, Zenon DEF Begin, queue, Jobs
<1>5. ASSUME Renew(w) PROVE Kept
  <2>1. QueueTypes' /\ QueueInv' /\ InboxGrows
    BY <1>1, <1>5, RenewKeeps
  <2>2. Jobs' = Jobs
    BY <1>5 DEF Renew, Jobs
  <2> QED
    BY <1>5, <2>1, <2>2, Zenon DEF Renew
<1>6. ASSUME NEW verdict \in {"good", "bad"}, AppendResult(w, verdict) PROVE Kept
  <2>1. QueueTypes' /\ QueueInv' /\ InboxGrows
    BY <1>1, <1>6, AppendResultKeeps
  <2>2. Jobs' = Jobs
    BY <1>6 DEF AppendResult, queue, Jobs
  <2>3. (UNCHANGED <<inbox, wakeup>>) \/ wakeup' = SignalWakeup
    BY <1>6, Zenon DEF AppendResult, queue
  <2> QED
    BY <1>6, <2>1, <2>2, <2>3, Zenon DEF AppendResult
<1>7. ASSUME Abandon(w) PROVE Kept
  <2>1. QueueTypes' /\ QueueInv' /\ InboxGrows
    BY <1>1, <1>7, AbandonKeeps
  <2>2. Jobs' = Jobs
    BY <1>7 DEF Abandon, Jobs
  <2> QED
    BY <1>7, <2>1, <2>2, Zenon DEF Abandon
<1>8. ASSUME CrashWorker(w) PROVE Kept
  <2>1. QueueTypes' /\ QueueInv' /\ InboxGrows
    BY <1>1, <1>8, CrashWorkerKeeps
  <2> QED
    BY <1>8, <2>1, Zenon DEF CrashWorker, queue, Jobs
<1>9. ASSUME Kept PROVE Inv'
  BY <1>9, QueueStepKeeps
<1> HIDE DEF Kept
<1>10. (\E j \in Jobs : SelectJob(w, j)) \/ (\E verdict \in {"good", "bad"} : AppendResult(w, verdict))
         \/ (\E pc \in {"renewing", "appending"} : Begin(w, pc))
       => Kept
  BY <1>2, <1>4, <1>6, Zenon
<1>11. InsertLease(w) \/ Renew(w) \/ Abandon(w) \/ CrashWorker(w) => Kept
  BY <1>3, <1>5, <1>7, <1>8, Zenon
<1> QED
  BY <1>9, <1>10, <1>11, Zenon DEF WorkerStep

LEMMA TimePasses ==
    ASSUME Inv, (\E j \in Jobs : ExpireLease(j)) \/ ExpireWakeup
    PROVE  Inv'
<1>1. QueueTypes /\ QueueInv
  BY DEF Inv, TypeOK, QueueTypes
<1>2. CASE \E j \in Jobs : ExpireLease(j)
  <2>1. QueueTypes' /\ QueueInv' /\ InboxGrows
    BY <1>1, <1>2, ExpireLeaseKeeps
  <2>2. Jobs' = Jobs /\ UNCHANGED <<applied, consumer, inbox, wakeup>>
    BY <1>2 DEF ExpireLease, Jobs
  <2> QED
    BY <2>1, <2>2, QueueStepKeeps
<1>3. CASE ExpireWakeup
  <2>1. UNCHANGED <<queue, applied, worker, consumer>>
    BY <1>3 DEF ExpireWakeup
  <2>2. UNCHANGED <<leases, inbox, disposition, ledger, version, worker, consumer>> /\ Jobs' = Jobs
    BY <2>1 DEF queue, applied, Jobs
  <2>3. wakeup \in WakeupState
    BY DEF Inv, TypeOK
  <2>4. wakeup' = [wakeup EXCEPT !.expired = TRUE]
    BY <1>3 DEF ExpireWakeup
  <2>5. wakeup' \in WakeupState
    BY <2>3, <2>4 DEF WakeupState
  <2>6. wakeup'.gen = wakeup.gen /\ wakeup'.status = wakeup.status
    BY <2>3, <2>4 DEF WakeupState
  <2>7. ASSUME NEW c \in Consumers PROVE ClaimOK(consumer[c])'
    BY <2>2, <2>6 DEF Inv, WakeupInv, ClaimOK, Accepted
  <2>8. WakeupInv'
    BY <2>2, <2>6, <2>7 DEF Inv, WakeupInv, NoLostWakeup, Accepted
  <2>9. TypeOK'
    <3>1. ResultRow' = ResultRow /\ WorkerState' = WorkerState /\ ConsumerState' = ConsumerState
      BY <2>2 DEF ResultRow, WorkerState, ConsumerState, TxnWrites
    <3>2. \A c \in Consumers : WellFormed(consumer[c])'
      BY <2>2, <3>1 DEF Inv, TypeOK, WellFormed
    <3> QED
      BY <2>2, <2>5, <3>1, <3>2 DEF Inv, TypeOK
  <2>10. QueueInv'
    BY <1>1, <2>1, QueueStill
  <2>11. CaseInv' /\ FollowUpInv'
    BY <2>2 DEF Inv, CaseInv, FollowUpInv, EffectOnce, Passed, Bad
  <2>12. TxnInv'
    <3>1. ASSUME NEW c \in Consumers PROVE Txn(consumer[c])'
      <4>1. PICK q : q = consumer[c] /\ q = consumer'[c]
        BY <2>2
      <4>2. Txn(q)'
        BY <2>2, <4>1, TxnStill DEF Inv, TxnInv
      <4> QED
        BY <4>1, <4>2, Zenon
    <3> QED
      BY <2>2, <3>1 DEF Inv, TxnInv, Apart, Recorded
  <2> QED
    BY <2>8, <2>9, <2>10, <2>11, <2>12 DEF Inv
<1> QED
  BY <1>2, <1>3

----------------------------------------------------------------------------
(* The commit *)

(* A Result without a disposition is one a consumer finds.                 *)
LEMMA RowPending ==
    ASSUME QueueInv, NEW i \in DOMAIN inbox, inbox[i].job \notin DOMAIN disposition
    PROVE  Pending(inbox[i])
  BY DEF QueueInv, RowHeld, Pending

(* What the transaction leaves behind.                                     *)
Committed(q) ==
    /\ DOMAIN disposition' = DOMAIN disposition \cup Recorded(q)
    /\ \A j \in DOMAIN disposition : disposition'[j] = disposition[j]
    /\ \A d \in q.writes.disposition : disposition'[d.job] = d.status
    /\ ledger' = ledger \cup q.writes.ledger
    /\ version' = Sees(q)
    /\ Jobs' = Jobs \cup q.writes.jobs
    /\ leases' \in [Jobs' -> Seq(Lease)]
    /\ \A j \in Jobs : leases'[j] = leases[j]
    /\ UNCHANGED <<inbox, wakeup, worker>>

(* What the consumer is left with: a claim that completes has seen that    *)
(* nothing is left.                                                        *)
Done(q, r) ==
    /\ r \in ConsumerState /\ r.pc = "finish" /\ r.gen = q.gen /\ r.writes = NoWrites
    /\ ~r.again => \A i \in DOMAIN inbox :
                     Pending(inbox[i]) => inbox[i].job \in DOMAIN disposition \cup Recorded(q)

(* A transaction that is about to commit.                                  *)
Complete(q) ==
    /\ WellFormed(q) /\ Txn(q) /\ q.pc = "commit" /\ q.writes \in TxnWrites
    /\ \A j \in q.writes.ledger : [job |-> j, status |-> "applied"] \in q.writes.disposition

LEMMA AboutToCommit ==
    ASSUME Inv, NEW c \in Consumers, consumer[c].pc = "commit"
    PROVE  Complete(consumer[c])
<1>1. WellFormed(consumer[c]) /\ Txn(consumer[c])
  BY DEF Inv, TypeOK, TxnInv
<1>2. consumer[c].writes \in TxnWrites
  BY <1>1, ConsumerFields DEF WellFormed
<1>3. \A j \in consumer[c].writes.ledger :
        [job |-> j, status |-> "applied"] \in consumer[c].writes.disposition
  BY <1>1 DEF Txn, Effect
<1> QED
  BY <1>1, <1>2, <1>3 DEF Complete

LEMMA CommitWrites ==
    ASSUME Inv, NEW c \in Consumers, Commit(c)
    PROVE  Committed(consumer[c])
<1>1. PICK q : q = consumer[c]
  OBVIOUS
<1>2. Complete(q)
  BY <1>1, AboutToCommit DEF Commit
<1>3. Writes(c) = Recorded(q)
  BY <1>1 DEF Writes, Recorded
<1>4. disposition' = [j \in DOMAIN disposition \cup Recorded(q) |->
         IF j \in DOMAIN disposition THEN disposition[j]
         ELSE (CHOOSE d \in q.writes.disposition : d.job = j).status]
  BY <1>1, <1>3 DEF Commit
<1>5. DOMAIN disposition' = DOMAIN disposition \cup Recorded(q)
      /\ \A j \in DOMAIN disposition : disposition'[j] = disposition[j]
  BY <1>4
<1>6. ASSUME NEW d \in q.writes.disposition PROVE disposition'[d.job] = d.status
  <2>1. d.job \notin DOMAIN disposition
        /\ \A e \in q.writes.disposition : e.job = d.job => e = d
    BY <1>2 DEF Complete, Txn, Dispositions
  <2>2. (CHOOSE e \in q.writes.disposition : e.job = d.job) = d
    BY <2>1
  <2>3. d.job \in DOMAIN disposition \cup Recorded(q)
    BY DEF Recorded
  <2> QED
    BY <1>4, <2>1, <2>2, <2>3
<1>7. ledger' = ledger \cup q.writes.ledger /\ version' = Sees(q)
      /\ UNCHANGED <<inbox, wakeup, worker>>
  BY <1>1 DEF Commit, Seen, Sees
<1>8. leases' = [j \in Jobs \cup q.writes.jobs |-> IF j \in Jobs THEN leases[j] ELSE <<>>]
  BY <1>1 DEF Commit
<1>9. Jobs' = Jobs \cup q.writes.jobs /\ \A j \in Jobs : leases'[j] = leases[j]
  BY <1>8 DEF Jobs
<1>10. leases' \in [Jobs' -> Seq(Lease)]
  <2>1. PICK S : S = Seq(Lease) /\ <<>> \in S
    BY EmptySeq
  <2>2. PICK J : J = Jobs /\ leases \in [J -> S]
    BY <2>1 DEF Inv, TypeOK
  <2>3. leases' = [j \in J \cup q.writes.jobs |-> IF j \in J THEN leases[j] ELSE <<>>]
    BY <1>8, <2>2
  <2>4. leases' \in [J \cup q.writes.jobs -> S]
    BY <2>1, <2>2, <2>3
  <2> QED
    BY <1>9, <2>1, <2>2, <2>4
<1> QED
  BY <1>1, <1>5, <1>6, <1>7, <1>9, <1>10 DEF Committed

LEMMA CommitDone ==
    ASSUME Inv, NEW c \in Consumers, Commit(c)
    PROVE  \E r : Set(c, r) /\ Done(consumer[c], r)
<1>1. PICK q : q = consumer[c]
  OBVIOUS
<1>2. q \in ConsumerState
  BY <1>1 DEF Inv, TypeOK
<1>3. PICK more \in BOOLEAN : more = \E i \in DOMAIN inbox :
          Pending(inbox[i]) /\ inbox[i].job \notin DOMAIN disposition \cup Recorded(q)
  BY Zenon
<1>4. PICK b \in BOOLEAN : (~b => ~more)
        /\ Set(c, [q EXCEPT !.pc = "finish", !.again = b, !.writes = NoWrites])
  <2>1. CASE Set(c, [q EXCEPT !.pc = "finish", !.again = TRUE, !.writes = NoWrites])
    BY <2>1
  <2>2. CASE Set(c, [q EXCEPT !.pc = "finish", !.again = q.again \/ more, !.writes = NoWrites])
    <3>1. PICK b \in BOOLEAN : b = (q.again \/ more)
      BY Zenon
    <3> QED
      BY <2>2, <3>1, Zenon
  <2>3. Writes(c) = Recorded(q)
    BY <1>1 DEF Writes, Recorded
  <2>4. \/ Set(c, [q EXCEPT !.pc = "finish", !.again = q.again \/ more, !.writes = NoWrites])
        \/ Set(c, [q EXCEPT !.pc = "finish", !.again = TRUE, !.writes = NoWrites])
    BY <1>1, <1>3, <2>3, Zenon DEF Commit
  <2> QED
    BY <2>1, <2>2, <2>4
<1>5. PICK r : r = [q EXCEPT !.pc = "finish", !.again = b, !.writes = NoWrites]
  OBVIOUS
<1>6. r \in ConsumerState
  BY <1>2, <1>5, NoWritesType DEF ConsumerState
<1>7. r.pc = "finish" /\ r.again = b /\ r.gen = q.gen /\ r.writes = NoWrites
  BY <1>2, <1>5 DEF ConsumerState
<1>8. ~b => \A i \in DOMAIN inbox :
              Pending(inbox[i]) => inbox[i].job \in DOMAIN disposition \cup Recorded(q)
  BY <1>3, <1>4, Zenon
<1>9. Done(q, r)
  BY <1>6, <1>7, <1>8, Zenon DEF Done
<1> QED
  BY <1>1, <1>4, <1>5, <1>9

LEMMA CommitQueue ==
    ASSUME Inv, NEW q, Committed(q)
    PROVE  QueueTypes' /\ QueueInv'
<1>1. Jobs \subseteq Jobs' /\ UNCHANGED <<inbox, worker>> /\ \A j \in Jobs : leases'[j] = leases[j]
  BY DEF Committed
<1>2. inbox \in Seq(ResultRow') /\ worker \in [Workers -> WorkerState']
  <2>1. inbox \in Seq(ResultRow) /\ worker \in [Workers -> WorkerState]
    BY DEF Inv, TypeOK
  <2>2. ResultRow \subseteq ResultRow' /\ WorkerState \subseteq WorkerState'
    BY <1>1, JobsGrow
  <2> QED
    BY <2>1, <2>2, SeqMonotonic
<1>3. QueueTypes'
  BY <1>1, <1>2 DEF QueueTypes, Committed
<1>4. ASSUME NEW w \in Workers PROVE Holding(worker[w])'
  <2>1. PICK r : r = worker[w] /\ r = worker'[w]
    BY <1>1
  <2>2. Holding(r)
    BY <2>1 DEF Inv, QueueInv
  <2>3. Holding(r)'
    <3>1. CASE r.pc = "idle"
      BY <3>1 DEF Holding, Working
    <3>2. CASE r.pc # "idle"
      BY <1>1, <2>2, <3>2 DEF Holding
    <3> QED
      BY <3>1, <3>2
  <2> QED
    BY <2>1, <2>3, Zenon
<1>5. ASSUME NEW i \in DOMAIN inbox PROVE RowHeld(inbox[i])'
  <2>1. inbox[i].job \in Jobs /\ RowHeld(inbox[i])
    BY InboxRow DEF Inv, TypeOK, QueueInv
  <2> QED
    BY <1>1, <2>1 DEF RowHeld
<1>6. QueueInv'
  BY <1>1, <1>4, <1>5 DEF Inv, QueueInv, OneRow
<1> QED
  BY <1>3, <1>6

(* The version moves with the effect.                                      *)
LEMMA CommitVersion ==
    ASSUME Inv, NEW q, Complete(q), Committed(q)
    PROVE  /\ version \in Nat /\ version' \in Nat /\ version <= version'
           /\ q.writes.ledger = {} => version' = version
           /\ q.writes.ledger # {} => version' = version + 1
<1>1. version \in Nat /\ version' = Sees(q) /\ Effect(q)
  BY DEF Inv, TypeOK, Complete, Txn, Committed
<1> QED
  BY <1>1, LedgerSize

LEMMA JobVersion ==
    ASSUME Inv, NEW j \in Jobs
    PROVE  Base(j) \in Nat /\ 1 <= Base(j) /\ Base(j) <= version
  BY DEF Inv, TypeOK, CaseInv, Base

LEMMA RecordedJobs ==
    ASSUME NEW q, q.writes \in TxnWrites, NEW d \in q.writes.disposition
    PROVE  d.job \in Jobs /\ d.status \in Outcomes /\ d.job \in Recorded(q)
           /\ d = [job |-> d.job, status |-> d.status]
<1>1. d \in [job : Jobs, status : Outcomes]
  BY DEF TxnWrites
<1> QED
  BY <1>1 DEF Recorded

LEMMA CommitCase ==
    ASSUME Inv, NEW q, Complete(q), Committed(q)
    PROVE  CaseInv'
<1> DEFINE w == q.writes
<1>1. version \in Nat /\ version' \in Nat /\ version <= version'
      /\ (w.ledger = {} => version' = version) /\ (w.ledger # {} => version' = version + 1)
  BY CommitVersion
<1>2. /\ \A j \in w.ledger : Base(j) = version /\ [job |-> j, status |-> "applied"] \in w.disposition
      /\ \A j, k \in w.ledger : j = k
  BY DEF Complete, Txn, Effect
<1>3. IsFiniteSet(ledger) /\ version = 1 + Cardinality(ledger) /\ Cardinality(ledger) \in Nat
      /\ \A j \in ledger : Base(j) < version
  BY FS_CardinalityType DEF Inv, CaseInv, EffectOnce
<1>4. ledger' = ledger \cup w.ledger
  BY DEF Committed
<1>5. IsFiniteSet(ledger') /\ version' = 1 + Cardinality(ledger')
  <2>1. CASE w.ledger = {}
    <3>1. ledger' = ledger
      BY <1>4, <2>1
    <3> QED
      BY <1>1, <1>3, <2>1, <3>1
  <2>2. CASE w.ledger # {}
    <3>1. PICK j : j \in w.ledger /\ w.ledger = {j}
      BY <1>2, <2>2
    <3>2. j \notin ledger
      BY <1>1, <1>2, <1>3, <3>1
    <3>3. ledger' = ledger \cup {j}
      BY <1>4, <3>1
    <3>4. IsFiniteSet(ledger') /\ Cardinality(ledger') = Cardinality(ledger) + 1
      BY <1>3, <3>2, <3>3, FS_AddElement
    <3> QED
      BY <1>1, <1>3, <2>2, <3>4
  <2> QED
    BY <2>1, <2>2
<1>6. ledger' = {j \in DOMAIN disposition' : disposition'[j] = "applied"}
  <2>1. ledger = {j \in DOMAIN disposition : disposition[j] = "applied"}
    BY DEF Inv, CaseInv, EffectOnce
  <2>2. ASSUME NEW j \in ledger' PROVE j \in DOMAIN disposition' /\ disposition'[j] = "applied"
    <3>1. CASE j \in ledger
      BY <2>1, <3>1 DEF Committed
    <3>2. CASE j \in w.ledger
      <4>1. PICK d \in w.disposition : d.job = j /\ d.status = "applied"
        BY <1>2, <3>2
      <4>2. j \in Recorded(q)
        BY <4>1 DEF Recorded
      <4> QED
        BY <4>1, <4>2 DEF Committed
    <3> QED
      BY <1>4, <3>1, <3>2
  <2>3. ASSUME NEW j \in DOMAIN disposition', disposition'[j] = "applied" PROVE j \in ledger'
    <3>1. CASE j \in DOMAIN disposition
      BY <1>4, <2>1, <2>3, <3>1 DEF Committed
    <3>2. CASE j \in Recorded(q)
      <4>1. PICK d \in w.disposition : d.job = j
        BY <3>2 DEF Recorded
      <4>2. d.status = "applied"
        BY <2>3, <4>1 DEF Committed
      <4> QED
        BY <1>4, <4>1, <4>2 DEF Complete, Txn, Dispositions
    <3> QED
      BY <3>1, <3>2 DEF Committed
  <2> QED
    BY <2>2, <2>3
<1>7. DOMAIN disposition' \subseteq Jobs'
  <2>1. Recorded(q) \subseteq Jobs
    BY RecordedJobs DEF Complete, Recorded
  <2> QED
    BY <2>1 DEF Committed, Inv, CaseInv
<1>8. ASSUME NEW j \in Jobs' PROVE j = <<j[1], j[2]>> /\ j[2] \in 1..version'
  <2>1. CASE j \in Jobs
    BY <1>1, <2>1 DEF Inv, CaseInv
  <2>2. CASE j \in w.jobs
    <3>1. j[2] \in 2..Sees(q)
      BY <2>2 DEF Complete, Txn, FollowUps
    <3>2. j \in Jobs \X Nat
      BY <2>2 DEF Complete, TxnWrites
    <3> QED
      BY <1>1, <3>1, <3>2 DEF Committed
  <2> QED
    BY <2>1, <2>2 DEF Committed
<1>9. ASSUME NEW j \in DOMAIN disposition' PROVE Passed(j, version)'
  <2>1. Bad(j)' = Bad(j)
    BY DEF Bad, Committed
  <2>2. CASE j \in DOMAIN disposition
    <3>1. Passed(j, version) /\ j \in Jobs
      BY <2>2 DEF Inv, CaseInv
    <3>2. Base(j) \in Nat
      BY <3>1, JobVersion
    <3> QED
      BY <1>1, <2>1, <3>1, <3>2 DEF Passed
  <2>3. CASE j \in Recorded(q)
    <3>1. Passed(j, Sees(q))
      BY <2>3 DEF Complete, Txn, Dispositions, Recorded
    <3> QED
      BY <2>1, <3>1 DEF Passed, Committed
  <2> QED
    BY <2>2, <2>3 DEF Committed
<1>10. ASSUME NEW j \in ledger' PROVE Base(j) < version'
  <2>1. CASE j \in ledger
    <3>1. j \in Jobs
      BY <2>1 DEF Inv, CaseInv, EffectOnce
    <3> QED
      BY <1>1, <1>3, <2>1, <3>1, JobVersion
  <2>2. CASE j \in w.ledger
    <3>1. w.ledger # {} /\ Base(j) = version
      BY <1>2, <2>2, Zenon
    <3> QED
      BY <1>1, <3>1
  <2> QED
    BY <1>4, <2>1, <2>2
<1> QED
  BY <1>5, <1>6, <1>7, <1>8, <1>9, <1>10 DEF CaseInv, EffectOnce

LEMMA CommitFollowUps ==
    ASSUME Inv, NEW q, Complete(q), Committed(q)
    PROVE  FollowUpInv'
<1> DEFINE w == q.writes
<1>1. version \in Nat /\ version' \in Nat /\ version <= version' /\ version' = Sees(q)
  BY CommitVersion DEF Committed
<1>2. \A d \in w.disposition : d.job \notin DOMAIN disposition
  BY DEF Complete, Txn, Dispositions
<1>3. ASSUME NEW k \in w.jobs
      PROVE  k[1] \in DOMAIN disposition' /\ disposition'[k[1]] = "recompute"
             /\ k[1] \notin DOMAIN disposition
  <2>1. PICK d \in w.disposition : d.job = k[1] /\ d.status = "recompute"
    BY DEF Complete, Txn, FollowUps
  <2>2. k[1] \in Recorded(q)
    BY <2>1 DEF Recorded
  <2> QED
    BY <1>2, <2>1, <2>2 DEF Committed
<1>4. ASSUME NEW k \in Jobs', IsFollowUp(k)
      PROVE  k[1] \in DOMAIN disposition' /\ disposition'[k[1]] = "recompute"
  <2>1. CASE k \in Jobs
    BY <1>4, <2>1 DEF Inv, FollowUpInv, Committed
  <2>2. CASE k \in w.jobs
    BY <1>3, <2>2
  <2> QED
    BY <2>1, <2>2 DEF Committed
<1>5. ASSUME NEW k \in Jobs', NEW l \in Jobs', IsFollowUp(k), IsFollowUp(l), k[1] = l[1]
      PROVE  k = l
  <2>1. CASE k \in Jobs /\ l \in Jobs
    BY <1>5, <2>1 DEF Inv, FollowUpInv
  <2>2. CASE k \in w.jobs /\ l \in w.jobs
    BY <1>5, <2>2 DEF Complete, Txn, FollowUps
  <2>3. \A m \in Jobs : IsFollowUp(m) => m[1] \in DOMAIN disposition
    BY DEF Inv, FollowUpInv
  <2>4. CASE k \in Jobs /\ l \in w.jobs
    BY <1>3, <1>5, <2>3, <2>4
  <2>5. CASE k \in w.jobs /\ l \in Jobs
    BY <1>3, <1>5, <2>3, <2>5
  <2> QED
    BY <2>1, <2>2, <2>4, <2>5 DEF Committed
<1>6. ASSUME NEW j \in DOMAIN disposition', disposition'[j] = "recompute"
      PROVE  \E v \in 2..version' : FollowUp(j, v) \in Jobs'
  <2>1. CASE j \in DOMAIN disposition
    <3>1. PICK v \in 2..version : FollowUp(j, v) \in Jobs
      BY <1>6, <2>1 DEF Inv, FollowUpInv, Committed
    <3>2. v \in 2..version' /\ FollowUp(j, v) \in Jobs'
      BY <1>1, <3>1 DEF Committed
    <3> QED
      BY <3>2
  <2>2. CASE j \in Recorded(q)
    <3>1. PICK d \in w.disposition : d.job = j
      BY <2>2 DEF Recorded
    <3>2. d.status = "recompute"
      BY <1>6, <3>1 DEF Committed
    <3>3. PICK v \in 2..Sees(q) : FollowUp(j, v) \in w.jobs
      BY <3>1, <3>2 DEF Complete, Txn, FollowUps
    <3> QED
      BY <1>1, <3>3 DEF Committed
  <2> QED
    BY <2>1, <2>2 DEF Committed
<1> QED
  BY <1>4, <1>5, <1>6 DEF FollowUpInv, IsFollowUp, FollowUp

(* What another transaction sees of the commit.                            *)
LEMMA CommitOther ==
    ASSUME Inv, NEW q, Complete(q), Committed(q), NEW s, WellFormed(s), Txn(s), Apart(q, s)
    PROVE  WellFormed(s)' /\ Txn(s)'
<1>1. version \in Nat /\ version' \in Nat /\ version <= version'
      /\ (s.writes.ledger # {} => version' = version)
  BY CommitVersion DEF Apart
<1>2. s \in ConsumerState /\ s.writes \in TxnWrites /\ s.todo \in Seq(ResultRow)
  BY ConsumerFields DEF WellFormed
<1>3. WellFormed(s)'
  <2>1. Jobs \subseteq Jobs'
    BY DEF Committed
  <2>2. s \in ConsumerState'
    BY <1>2, <2>1, JobsGrow
  <2> QED
    BY <2>2 DEF WellFormed
<1>4. Sees(s) \in Nat /\ Sees(s)' \in Nat /\ Sees(s) <= Sees(s)'
  <2>1. Cardinality(s.writes.ledger) \in Nat
    BY FS_CardinalityType DEF WellFormed
  <2> QED
    BY <1>1, <2>1 DEF Sees
<1>5. \A j : Good(j)' = Good(j) /\ Bad(j)' = Bad(j) /\ \A r : InInbox(r)' = InInbox(r)
  BY DEF Good, Bad, InInbox, Committed
<1>6. ASSUME NEW j \in Jobs
      PROVE  /\ Base(j) < Sees(s) => Base(j) < Sees(s)'
             /\ Passed(j, Sees(s)) => Passed(j, Sees(s))'
  <2>1. Base(j) < Sees(s) => Base(j) < Sees(s)'
    BY <1>4, JobVersion
  <2> QED
    BY <1>5, <2>1 DEF Passed
<1>7. Batch(s)' /\ Quiet(s)'
  BY <1>5 DEF Txn, Batch, Quiet, Committed, Recorded
<1>8. Effect(s)'
  BY <1>1, <1>5 DEF Txn, Effect
<1>9. Dispositions(s)'
  <2>1. ASSUME NEW d \in s.writes.disposition
        PROVE  /\ d.job \notin DOMAIN disposition' /\ Passed(d.job, Sees(s))'
               /\ d.status = "recompute" => Base(d.job) < Sees(s)'
               /\ d.status = "applied" => d.job \in s.writes.ledger
    <3>1. d.job \in Jobs /\ d.job \in Recorded(s)
      BY <1>2, RecordedJobs
    <3>2. /\ d.job \notin DOMAIN disposition /\ Passed(d.job, Sees(s))
          /\ d.status = "recompute" => Base(d.job) < Sees(s)
          /\ d.status = "applied" => d.job \in s.writes.ledger
      BY DEF Txn, Dispositions
    <3>3. d.job \notin DOMAIN disposition'
      BY <3>1, <3>2 DEF Apart, Committed
    <3> QED
      BY <1>6, <3>1, <3>2, <3>3
  <2> QED
    BY <2>1 DEF Txn, Dispositions
<1>10. Deciding(s)'
  <2>1. CASE s.pc = "record"
    <3>1. s.todo # <<>>
      BY <2>1 DEF WellFormed, Busy
    <3>2. s.todo[1] \in ResultRow
      BY <1>2, <3>1
    <3>3. s.todo[1].job \in Jobs
      BY <3>2 DEF ResultRow
    <3> QED
      BY <1>6, <2>1, <3>3 DEF Txn, Deciding
  <2>2. CASE s.pc # "record"
    BY <2>2 DEF Txn, Deciding
  <2> QED
    BY <2>1, <2>2
<1>11. FollowUps(s)'
  <2>1. 2..Sees(s) \subseteq 2..Sees(s)'
    BY <1>4
  <2> QED
    BY <2>1 DEF Txn, FollowUps
<1> QED
  BY <1>3, <1>7, <1>8, <1>9, <1>10, <1>11 DEF Txn

LEMMA CommitKeeps ==
    ASSUME Inv, NEW c \in Consumers, Commit(c)
    PROVE  Inv'
<1>1. PICK q : q = consumer[c]
  OBVIOUS
<1>2. Complete(q) /\ Committed(q)
  BY <1>1, AboutToCommit, CommitWrites DEF Commit
<1>3. PICK r : Set(c, r) /\ Done(q, r)
  BY <1>1, CommitDone
<1>4. consumer \in [Consumers -> ConsumerState] /\ r \in ConsumerState
      /\ ConsumerState \subseteq ConsumerState' /\ Jobs \subseteq Jobs'
  BY <1>2, <1>3, JobsGrow DEF Inv, TypeOK, Done, Committed
<1>5. consumer' \in [Consumers -> ConsumerState'] /\ consumer'[c] = r
      /\ \A d \in Consumers \ {c} : consumer'[d] = consumer[d]
  BY <1>3, <1>4 DEF Set
<1>6. r.pc = "finish" /\ r.gen = q.gen /\ r.writes = NoWrites
  BY <1>3 DEF Done
<1>7. WellFormed(r)' /\ Txn(r)' /\ \A s : Apart(r, s) /\ Apart(s, r)
  <2>1. WellFormed(r)'
    BY <1>4, <1>6, NoWritesType DEF WellFormed, Busy
  <2>2. Batch(r) /\ Batch(r)'
    BY <1>6 DEF Batch, Busy
  <2>3. \A s : Apart(r, s)
    BY <1>6, <2>2, NothingWritten
  <2>4. r.writes.disposition = {} /\ r.writes.ledger = {} /\ r.writes.jobs = {}
    BY <1>6 DEF NoWrites
  <2>5. Quiet(r)' /\ Effect(r)' /\ Dispositions(r)' /\ Deciding(r)' /\ FollowUps(r)'
    BY <1>6, <2>4 DEF Quiet, Effect, Dispositions, Deciding, FollowUps
  <2> QED
    BY <2>1, <2>2, <2>3, <2>5, Zenon DEF Txn, Apart
<1>8. ASSUME NEW d \in Consumers PROVE WellFormed(consumer[d])' /\ Txn(consumer[d])'
  <2>1. PICK s : s = consumer'[d]
    OBVIOUS
  <2>2. CASE d = c
    BY <1>5, <1>7, <2>1, <2>2, Zenon
  <2>3. CASE d # c
    <3>1. s = consumer[d]
      BY <1>5, <2>1, <2>3
    <3>2. WellFormed(s) /\ Txn(s) /\ Apart(q, s)
      BY <1>1, <2>3, <3>1 DEF Inv, TypeOK, TxnInv
    <3>3. WellFormed(s)' /\ Txn(s)'
      BY <1>2, <3>2, CommitOther
    <3> QED
      BY <2>1, <3>3, Zenon
  <2> QED
    BY <2>2, <2>3
<1>9. TxnInv'
  <2>1. ASSUME NEW d \in Consumers, NEW e \in Consumers, d # e
        PROVE  Apart(consumer'[d], consumer'[e])
    BY <1>5, <1>7, <2>1 DEF Inv, TxnInv
  <2> QED
    BY <1>8, <2>1, Zenon DEF TxnInv, Apart, Recorded
<1>10. QueueTypes' /\ QueueInv'
  BY <1>2, CommitQueue
<1>11. CaseInv' /\ FollowUpInv'
  BY <1>2, CommitCase, CommitFollowUps
<1>12. TypeOK'
  <2>1. disposition' \in [DOMAIN disposition' -> Outcomes]
    <3>1. ASSUME NEW j \in DOMAIN disposition' PROVE disposition'[j] \in Outcomes
      <4>1. CASE j \in DOMAIN disposition
        BY <1>2, <4>1 DEF Committed, Inv, TypeOK
      <4>2. CASE j \in Recorded(q)
        <5>1. PICK d \in q.writes.disposition : d.job = j
          BY <4>2 DEF Recorded
        <5> QED
          BY <1>2, <5>1, RecordedJobs DEF Committed, Complete
      <4> QED
        BY <1>2, <4>1, <4>2 DEF Committed
    <3>2. disposition' = [j \in DOMAIN disposition' |-> disposition'[j]]
      BY <1>1 DEF Commit
    <3> QED
      BY <3>1, <3>2
  <2>2. version' \in Nat
    BY <1>2, CommitVersion
  <2>3. wakeup' \in WakeupState
    BY <1>2 DEF Committed, Inv, TypeOK
  <2> QED
    BY <1>5, <1>8, <1>10, <2>1, <2>2, <2>3 DEF TypeOK, QueueTypes
<1>13. WakeupInv'
  <2>1. UNCHANGED <<inbox, wakeup>> /\ DOMAIN disposition \subseteq DOMAIN disposition'
    BY <1>2 DEF Committed
  <2>2. NoLostWakeup'
    BY <2>1 DEF Inv, WakeupInv, NoLostWakeup, Accepted
  <2>3. ASSUME NEW s, ClaimOK(s) PROVE ClaimOK(s)'
    BY <2>1, <2>3 DEF ClaimOK, Accepted
  <2>4. ClaimOK(r)'
    <3>1. ASSUME ~r.again PROVE Accepted' \subseteq DOMAIN disposition'
      <4>1. ASSUME NEW i \in DOMAIN inbox PROVE inbox[i].job \in DOMAIN disposition'
        <5>1. inbox[i].job \notin DOMAIN disposition => Pending(inbox[i])
          BY RowPending DEF Inv
        <5> QED
          BY <1>2, <1>3, <3>1, <5>1 DEF Done, Committed
      <4> QED
        BY <2>1, <4>1 DEF Accepted
    <3>2. r.gen <= wakeup.gen
      BY <1>1, <1>6 DEF Inv, WakeupInv, ClaimOK
    <3> QED
      BY <2>1, <3>1, <3>2 DEF ClaimOK
  <2>5. ASSUME NEW d \in Consumers PROVE ClaimOK(consumer[d])'
    <3>1. PICK s : s = consumer'[d]
      OBVIOUS
    <3>2. ClaimOK(s)'
      BY <1>5, <2>3, <2>4, <3>1 DEF Inv, WakeupInv
    <3> QED
      BY <3>1, <3>2, Zenon
  <2> QED
    BY <2>2, <2>5 DEF WakeupInv
<1> QED
  BY <1>9, <1>10, <1>11, <1>12, <1>13, ZenonT(60) DEF Inv

----------------------------------------------------------------------------
(* The results *)

LEMMA InitInv == Init => Inv
<1> SUFFICES ASSUME Init PROVE Inv
  OBVIOUS
<1>1. /\ leases = [j \in Enqueued |-> <<>>] /\ inbox = <<>> /\ disposition = [j \in {} |-> None]
      /\ ledger = {} /\ version = 1 /\ worker = [w \in Workers |-> IdleWorker]
      /\ consumer = [c \in Consumers |-> IdleConsumer]
      /\ wakeup = [gen |-> 0, status |-> "idle", owner |-> None, leaseGen |-> 0, expired |-> FALSE]
  BY DEF Init
<1>2. DOMAIN inbox = {} /\ DOMAIN disposition = {} /\ Jobs = Enqueued
  BY <1>1 DEF Jobs
<1>3. IdleConsumer \in ConsumerState
  BY NoWritesType DEF IdleConsumer, ConsumerState
<1>4. IdleConsumer.pc = "idle" /\ IdleConsumer.writes = NoWrites /\ IdleConsumer.gen = 0
  BY DEF IdleConsumer
<1>5. WellFormed(IdleConsumer) /\ Batch(IdleConsumer)
  BY <1>3, <1>4, NoWritesType DEF WellFormed, Batch, Busy
<1>6. Txn(IdleConsumer) /\ \A s : Apart(IdleConsumer, s)
  BY <1>4, <1>5, NothingWritten
<1>7. wakeup \in WakeupState /\ wakeup.gen = 0
  BY <1>1 DEF WakeupState
<1>8. TypeOK
  <2>1. leases \in [Jobs -> Seq(Lease)] /\ inbox \in Seq(ResultRow)
    BY <1>1, <1>2
  <2>2. disposition \in [DOMAIN disposition -> Outcomes] /\ version \in Nat
    BY <1>1, <1>2
  <2>3. worker \in [Workers -> WorkerState]
    BY <1>1, IdleHolds
  <2> QED
    BY <1>1, <1>3, <1>5, <1>7, <2>1, <2>2, <2>3 DEF TypeOK
<1>9. QueueInv
  BY <1>1, <1>2, IdleHolds DEF QueueInv, OneRow
<1>10. WakeupInv
  BY <1>1, <1>2, <1>4, <1>7 DEF WakeupInv, NoLostWakeup, ClaimOK, Accepted
<1>11. CaseInv
  <2>1. IsFiniteSet(ledger) /\ Cardinality(ledger) = 0
    BY <1>1, FS_EmptySet
  <2>2. \A j \in Jobs : j = <<j[1], j[2]>> /\ j[2] \in 1..version
    BY <1>1, <1>2 DEF Enqueued
  <2> QED
    BY <1>1, <1>2, <2>1, <2>2 DEF CaseInv, EffectOnce
<1>12. FollowUpInv
  BY <1>2 DEF FollowUpInv, IsFollowUp, Enqueued
<1>13. TxnInv
  BY <1>1, <1>6 DEF TxnInv
<1> QED
  BY <1>8, <1>9, <1>10, <1>11, <1>12, <1>13 DEF Inv

LEMMA StutterInv == Inv /\ UNCHANGED vars => Inv'
<1> SUFFICES ASSUME Inv, UNCHANGED vars PROVE Inv'
  OBVIOUS
<1>1. UNCHANGED <<queue, applied, worker, consumer, wakeup>>
  BY DEF vars
<1>2. QueueTypes' /\ QueueInv' /\ InboxGrows
  BY <1>1, QueueStill DEF Inv, TypeOK, QueueTypes
<1>3. Jobs' = Jobs /\ UNCHANGED <<inbox, wakeup>>
  BY <1>1 DEF queue, Jobs
<1> QED
  BY <1>1, <1>2, <1>3, QueueStepKeeps

LEMMA InvInductive == Inv /\ [Next]_vars => Inv'
<1> SUFFICES ASSUME Inv, [Next]_vars PROVE Inv'
  OBVIOUS
<1>1. ASSUME NEW w \in Workers, WorkerStep(w) PROVE Inv'
  BY <1>1, WorkerStepKeeps
<1>2. CASE (\E j \in Jobs : ExpireLease(j)) \/ ExpireWakeup
  BY <1>2, TimePasses
<1>3. ASSUME NEW c \in Consumers, ConsumerStep(c) \/ AbortBatch(c) PROVE Inv'
  BY <1>3, ClaimWakeupKeeps, BatchStep, CommitKeeps, FinishClaimKeeps DEF ConsumerStep
<1>4. CASE UNCHANGED vars
  BY <1>4, StutterInv
<1> QED
  BY <1>1, <1>2, <1>3, <1>4 DEF Next

LEMMA InvHolds == Spec => []Inv
  BY InitInv, InvInductive, PTL DEF Spec

(* A Result that worker_append_intelligence_result has accepted is matched *)
(* by pendingResultQuery until it has a disposition: no claim, renewal or  *)
(* abandonment that races the append takes its lease away.                 *)
THEOREM ResultsAreFound == Spec => []AcceptedIsFound
<1>1. Inv => AcceptedIsFound
  BY RowPending DEF Inv, AcceptedIsFound
<1> QED
  BY <1>1, InvHolds, PTL

(* The tenant's wakeup is idle only when every accepted Result has its     *)
(* disposition, whichever owners hold, lose or complete their claims.      *)
THEOREM WakeupNotLost == Spec => []NoLostWakeup
<1>1. Inv => NoLostWakeup
  BY DEF Inv, WakeupInv
<1> QED
  BY <1>1, InvHolds, PTL

(* However many consumers work on the same Results, each effect moves the  *)
(* case by one version and commits with its ledger row and its applied     *)
(* disposition.                                                            *)
THEOREM ResultsTakeEffectOnce == Spec => []EffectOnce
<1>1. Inv => EffectOnce
  BY DEF Inv, CaseInv
<1> QED
  BY <1>1, InvHolds, PTL

(* createRecomputeFollowUp enqueues one job for every Result recorded as   *)
(* recompute, and none for any other.                                      *)
THEOREM OneFollowUp == Spec => []FollowUpOnce
<1>1. ASSUME Inv PROVE FollowUpOnce
  <2> SUFFICES ASSUME NEW j \in Jobs
               PROVE  Cardinality({v \in 2..version : FollowUp(j, v) \in Jobs})
                        = IF j \in DOMAIN disposition /\ disposition[j] = "recompute" THEN 1 ELSE 0
    BY DEF FollowUpOnce
  <2> DEFINE S == {v \in 2..version : FollowUp(j, v) \in Jobs}
  <2>1. FollowUpInv /\ version \in Nat
    BY <1>1 DEF Inv, TypeOK
  <2>2. ASSUME NEW v \in S
        PROVE  FollowUp(j, v) \in Jobs /\ IsFollowUp(FollowUp(j, v))
               /\ FollowUp(j, v)[1] = j /\ FollowUp(j, v)[2] = v
    BY <2>1 DEF FollowUp, IsFollowUp
  <2>3. CASE j \in DOMAIN disposition /\ disposition[j] = "recompute"
    <3>1. PICK v \in 2..version : FollowUp(j, v) \in Jobs
      BY <2>1, <2>3 DEF FollowUpInv
    <3>2. v \in S
      BY <3>1
    <3>3. \A u \in S : u = v
      <4>1. ASSUME NEW u \in S PROVE u = v
        <5>1. FollowUp(j, u) = FollowUp(j, v)
          BY <2>1, <2>2, <3>2 DEF FollowUpInv
        <5> QED
          BY <2>2, <3>2, <5>1
      <4> QED
        BY <4>1
    <3>4. S = {v}
      BY <3>2, <3>3
    <3>5. Cardinality(S) = 1
      BY <3>4, FS_Singleton
    <3> QED
      BY <2>3, <3>5
  <2>4. CASE ~(j \in DOMAIN disposition /\ disposition[j] = "recompute")
    <3>1. S = {}
      BY <2>1, <2>2, <2>4 DEF FollowUpInv
    <3>2. Cardinality(S) = 0
      BY <3>1, FS_EmptySet
    <3> QED
      BY <2>4, <3>2
  <2> QED
    BY <2>3, <2>4
<1> QED
  BY <1>1, InvHolds, PTL
=============================================================================

------------------------------ MODULE RunLease ------------------------------
(***************************************************************************)
(* Core's Run ownership: the durable lease and completion rows             *)
(* (RunnerControlStore), the decisions taken on them (RunOwnershipService, *)
(* ExecutionJobService) and the protocol calls that reach them             *)
(* (CoreRunnerProtocolApplication).                                        *)
(*                                                                         *)
(* Every protocol call runs on one promise chain, so one call at a time is *)
(* past its first step; between two store operations of that call the      *)
(* clock moves and the Core process may crash.  A call is therefore        *)
(* modelled as one step per store write: the first step reads the store    *)
(* and decides, the later ones write.                                      *)
(*                                                                         *)
(* The lease token and epoch are not state here: a row is inserted once    *)
(* per run id with epoch 1 and one random token, so a Runner that holds    *)
(* "the lease of r" always presents the token and epoch of r's only row.   *)
(***************************************************************************)
EXTENDS Naturals

CONSTANTS JobRuns,        \* run ids the schedulers offer
          FreshRuns,      \* run ids createRecoveryRun may generate
          Sessions,       \* Runner session ids
          Completions,    \* terminal results a Runner may report
          Slots,          \* protocol calls that may be pending at once
          LeaseDuration,
          MaxTime,        \* bound on the clock
          None

Runs == JobRuns \cup FreshRuns

ASSUME RunsDisjoint  == JobRuns \cap FreshRuns = {}
ASSUME NoneIsNoValue == None \notin Runs \cup Sessions \cup Completions
ASSUME TimesAreNat   == LeaseDuration \in Nat \ {0} /\ MaxTime \in Nat

VARIABLES
  now,          \* Core's clock
  \* execution_leases: one row per run id (owner None: no row)
  owner, expiresAt, lost, completed, recoveryOf,
  \* execution_completions: the stored terminal result (None: no row)
  result,
  recorded,     \* run ids with an execution_runs row
  evidence,     \* run ids for which an artifact manifest was registered
  sunk,         \* sunk[r]: results handed to the completion sink for r
  \* memory of the Core process
  live,         \* registered sessions
  offers,       \* offers[k]: the offer made for requested run id k
  generated,    \* run ids handed out by generateRunId
  op,           \* op[c]: the protocol call in slot c
  \* the Runners
  held          \* held[s]: leases whose grant reached the Runner of s

storeVars  == <<owner, expiresAt, lost, completed, recoveryOf, result>>
memoryVars == <<live, offers, generated>>
effectVars == <<recorded, evidence, sunk>>
vars == <<now, owner, expiresAt, lost, completed, recoveryOf, result, recorded,
          evidence, sunk, live, offers, generated, op, held>>

-----------------------------------------------------------------------------
Stages == {"idle", "recover", "markRecovered", "offerFresh", "grant",
           "granted", "expire", "storedExpire", "renew", "completeLease",
           "sink", "sinkStored", "register"}

OpType == [stage : Stages, session : Sessions \cup {None},
           run : Runs \cup {None}, at : Nat,
           completion : Completions \cup {None}]

IdleOp == [stage |-> "idle", session |-> None, run |-> None, at |-> 0,
           completion |-> None]

(* A call for run (or requested run) r of session s that goes on at stage  *)
(* g; at is the instant it read before the store write to come.            *)
Call(g, s, r, t, x) ==
  [stage |-> g, session |-> s, run |-> r, at |-> t, completion |-> x]

OfferType == [session : Sessions \cup {None}, run : Runs \cup {None},
              recoveryOf : JobRuns \cup {None}, leased : BOOLEAN]

NoOffer == [session |-> None, run |-> None, recoveryOf |-> None,
            leased |-> FALSE]

(* Mutant: calls are not queued behind one another.                        *)
ChainFreeUnserialized == TRUE

(* serialize: the next call starts when every earlier one has settled.     *)
ChainFree == \A c \in Slots : op[c].stage = "idle"

Finish(c) == op' = [op EXCEPT ![c] = IdleOp]

Expired(r, t) == expiresAt[r] <= t

(* The rows markLeaseLost leaves: it touches a row that is neither lost    *)
(* nor completed, and no other.                                            *)
MarkLeaseLost(r) ==
  [lost EXCEPT ![r] = @ \/ (owner[r] # None /\ ~completed[r])]

(* requireOwner: the session is registered and the stored row names it.    *)
RequireOwner(s, r) == s \in live /\ owner[r] = s
-----------------------------------------------------------------------------
Init ==
  /\ now = 0
  /\ owner      = [r \in Runs |-> None]
  /\ expiresAt  = [r \in Runs |-> 0]
  /\ lost       = [r \in Runs |-> FALSE]
  /\ completed  = [r \in Runs |-> FALSE]
  /\ recoveryOf = [r \in Runs |-> None]
  /\ result     = [r \in Runs |-> None]
  /\ recorded = {}
  /\ evidence = {}
  /\ sunk = [r \in Runs |-> {}]
  /\ live = {}
  /\ offers = [k \in JobRuns |-> NoOffer]
  /\ generated = {}
  /\ op = [c \in Slots |-> IdleOp]
  /\ held = [s \in Sessions |-> {}]

(* Date.now: a wall clock, which the host may also set back.               *)
Tick ==
  /\ \E t \in 0..MaxTime : t # now /\ now' = t
  /\ UNCHANGED <<storeVars, effectVars, memoryVars, op, held>>

(* The Core process dies and restarts: sessions, offers and the calls in   *)
(* progress are gone, the rows stay.  Random ids never repeat, so the ids  *)
(* already generated stay used.                                            *)
Crash ==
  /\ live' = {}
  /\ offers' = [k \in JobRuns |-> NoOffer]
  /\ op' = [c \in Slots |-> IdleOp]
  /\ UNCHANGED <<now, storeVars, effectVars, generated, held>>

OpenSession(s) ==
  /\ ChainFree
  /\ s \notin live
  /\ live' = live \cup {s}
  /\ UNCHANGED <<now, storeVars, effectVars, offers, generated, op, held>>

CloseSession(s) ==
  /\ ChainFree
  /\ s \in live
  /\ live' = live \ {s}
  /\ UNCHANGED <<now, storeVars, effectVars, offers, generated, op, held>>
-----------------------------------------------------------------------------
(* createOffer for a run id that has no lease row.  An offer already made  *)
(* for k is returned again (or refused, for another session) and changes   *)
(* nothing, so k must have none.                                           *)
OfferNew(s, k) ==
  /\ ChainFree
  /\ s \in live
  /\ offers[k] = NoOffer
  /\ owner[k] = None
  /\ offers' = [offers EXCEPT ![k] = [session |-> s, run |-> k,
                                      recoveryOf |-> None, leased |-> FALSE]]
  /\ UNCHANGED <<now, storeVars, effectVars, live, generated, op, held>>

(* resolveRecovery's decision on a stored row: a lost, a completed and a   *)
(* live run are refused; only an expired one goes on to createRecoveryRun. *)
MayRecover(k) ==
  owner[k] # None /\ ~lost[k] /\ ~completed[k] /\ Expired(k, now)

OfferRecovery(c, s, k) ==
  /\ ChainFree
  /\ s \in live
  /\ offers[k] = NoOffer
  /\ MayRecover(k)
  /\ op' = [op EXCEPT ![c] = Call("recover", s, k, now, None)]
  /\ UNCHANGED <<now, storeVars, effectVars, memoryVars, held>>

(* createRecoveryRun reads the row again: a completed or a live run is     *)
(* refused, otherwise the old run is about to be marked lost.              *)
CreateRecoveryRun(c) ==
  LET k == op[c].run IN
  /\ op[c].stage = "recover"
  /\ op' = [op EXCEPT ![c] =
              IF ~completed[k] /\ (lost[k] \/ Expired(k, now))
                THEN [@ EXCEPT !.stage = "markRecovered"] ELSE IdleOp]
  /\ UNCHANGED <<now, storeVars, effectVars, memoryVars, held>>

(* Mutant: the fresh run is created without marking the old one lost.      *)
MarkRecoveredSkipped(c) ==
  /\ op[c].stage = "markRecovered"
  /\ op' = [op EXCEPT ![c].stage = "offerFresh"]
  /\ UNCHANGED <<now, storeVars, effectVars, memoryVars, held>>

(* The boolean that markLeaseLost returns is not looked at.                *)
MarkRecovered(c) ==
  /\ op[c].stage = "markRecovered"
  /\ lost' = MarkLeaseLost(op[c].run)
  /\ op' = [op EXCEPT ![c].stage = "offerFresh"]
  /\ UNCHANGED <<now, owner, expiresAt, completed, recoveryOf, result,
                 effectVars, memoryVars, held>>

(* The recovered job under a new run id; createOffer files the offer under *)
(* the run id that was asked for.                                          *)
OfferFresh(c, f) ==
  LET k == op[c].run IN
  /\ op[c].stage = "offerFresh"
  /\ f \notin generated
  /\ generated' = generated \cup {f}
  /\ offers' = [offers EXCEPT ![k] =
                  [session |-> op[c].session, run |-> f, recoveryOf |-> k,
                   leased |-> FALSE]]
  /\ Finish(c)
  /\ UNCHANGED <<now, storeVars, effectVars, live, held>>
-----------------------------------------------------------------------------
(* accept of an offer without a lease: expiresAt is computed, then the row *)
(* is inserted, for the session the offer was made to.  Core does not ask  *)
(* which session accepts; a Runner accepts the offers it was sent, on the  *)
(* session it was sent them.                                               *)
Accept(c, s, k) ==
  /\ ChainFree
  /\ s \in live
  /\ offers[k].session = s
  /\ ~offers[k].leased
  /\ op' = [op EXCEPT ![c] = Call("grant", s, k, now + LeaseDuration, None)]
  /\ UNCHANGED <<now, storeVars, effectVars, memoryVars, held>>

(* Mutant: the run is not recorded.                                        *)
RecordRunForgotten(k) == recorded

(* recordRun is called for a run that was offered under its own id: the    *)
(* offer of a recovered run is not found under the recovered run's id.     *)
RecordRun(k) ==
  IF offers[k].run = k THEN recorded \cup {k} ELSE recorded

(* accept of an offer that already has its lease returns that lease.       *)
AcceptAgain(s, k) ==
  /\ ChainFree
  /\ s \in live
  /\ offers[k].session = s
  /\ offers[k].leased
  /\ recorded' = RecordRun(k)
  /\ held' = [held EXCEPT ![s] = @ \cup {offers[k].run}]
  /\ UNCHANGED <<now, storeVars, evidence, sunk, memoryVars, op>>

(* grantLease inserts the row unless the run id has one; a row is never    *)
(* overwritten.                                                            *)
GrantLease(c) ==
  LET o == offers[op[c].run]
      r == o.run
  IN
  /\ op[c].stage = "grant"
  /\ IF owner[r] = None
       THEN /\ owner' = [owner EXCEPT ![r] = o.session]
            /\ expiresAt' = [expiresAt EXCEPT ![r] = op[c].at]
            /\ recoveryOf' = [recoveryOf EXCEPT ![r] = o.recoveryOf]
            /\ op' = [op EXCEPT ![c].stage = "granted"]
       ELSE /\ Finish(c)
            /\ UNCHANGED <<owner, expiresAt, recoveryOf>>
  /\ UNCHANGED <<now, lost, completed, result, effectVars, memoryVars, held>>

(* After the insert: the offer remembers its lease, recordRun is called,   *)
(* and the reply is sent; recordRun may fail (and then no reply is sent)   *)
(* and the reply may be lost with the connection.                          *)
Granted(c) ==
  LET k == op[c].run
      s == op[c].session
  IN
  /\ op[c].stage = "granted"
  /\ offers' = [offers EXCEPT ![k].leased = TRUE]
  /\ \/ UNCHANGED <<recorded, held>>
     \/ /\ recorded' = RecordRun(k)
        /\ held' \in {held, [held EXCEPT ![s] = @ \cup {offers[k].run}]}
  /\ Finish(c)
  /\ UNCHANGED <<now, storeVars, evidence, sunk, live, generated>>
-----------------------------------------------------------------------------
(* A call that presents the lease of r, on a row that is neither lost nor  *)
(* completed; on any other row it is refused and changes nothing           *)
(* (requireMatchingLease, mayStartAction; complete is dealt with below).   *)
PresentLease(s, r) ==
  /\ ChainFree
  /\ r \in held[s]
  /\ RequireOwner(s, r)
  /\ ~lost[r]
  /\ ~completed[r]

(* requireMatchingLease meets an expired row: it will be marked lost.      *)
PresentExpired(c, s, r) ==
  /\ PresentLease(s, r)
  /\ Expired(r, now)
  /\ op' = [op EXCEPT ![c] = Call("expire", s, r, now, None)]
  /\ UNCHANGED <<now, storeVars, effectVars, memoryVars, held>>

ExpireLease(c) ==
  /\ op[c].stage = "expire"
  /\ lost' = MarkLeaseLost(op[c].run)
  /\ Finish(c)
  /\ UNCHANGED <<now, owner, expiresAt, completed, recoveryOf, result,
                 effectVars, memoryVars, held>>

(* renew: the new expiry is computed before the row is read (a row found   *)
(* expired then is PresentExpired's) ...                                   *)
Renew(c, s, r) ==
  /\ PresentLease(s, r)
  /\ op' = [op EXCEPT ![c] = Call("renew", s, r, now + LeaseDuration, None)]
  /\ UNCHANGED <<now, storeVars, effectVars, memoryVars, held>>

(* ... and written by renewLease if the row is still live; else the call   *)
(* is rejected and the row stays as it is.                                 *)
RenewLease(c) ==
  LET r == op[c].run IN
  /\ op[c].stage = "renew"
  /\ expiresAt' = [expiresAt EXCEPT ![r] =
                     IF ~lost[r] /\ ~completed[r] /\ ~Expired(r, now)
                       THEN op[c].at ELSE @]
  /\ Finish(c)
  /\ UNCHANGED <<now, owner, lost, completed, recoveryOf, result, effectVars,
                 memoryVars, held>>
-----------------------------------------------------------------------------
(* complete, with the lease or, on a connection that never saw it, on the  *)
(* authority of the stored row (completeStored): a run that is live or     *)
(* already completed goes on to the completion transaction.                *)
Complete(c, s, r, x) ==
  /\ ChainFree
  /\ r \in held[s]
  /\ RequireOwner(s, r)
  /\ ~lost[r]
  /\ completed[r] \/ ~Expired(r, now)
  /\ op' = [op EXCEPT ![c] = Call("completeLease", s, r, now, x)]
  /\ UNCHANGED <<now, storeVars, effectVars, memoryVars, held>>

(* completeStored on an expired row: mark it lost; if the row could not be *)
(* marked because it completed meanwhile, complete against it after all.   *)
CompleteStoredExpired(c, s, r, x) ==
  /\ PresentLease(s, r)
  /\ Expired(r, now)
  /\ op' = [op EXCEPT ![c] = Call("storedExpire", s, r, now, x)]
  /\ UNCHANGED <<now, storeVars, effectVars, memoryVars, held>>

StoredExpire(c) ==
  LET r == op[c].run IN
  /\ op[c].stage = "storedExpire"
  /\ lost' = MarkLeaseLost(r)
  /\ op' = [op EXCEPT ![c] = IF completed[r]
                               THEN [@ EXCEPT !.stage = "completeLease"]
                               ELSE IdleOp]
  /\ UNCHANGED <<now, owner, expiresAt, completed, recoveryOf, result,
                 effectVars, memoryVars, held>>

(* Mutant: the last completion wins.                                       *)
WinsOverStored(c) ==
  LET r == op[c].run IN ~lost[r] /\ ~Expired(r, op[c].at)

(* completeLease, one transaction: a lost row is rejected; a stored result *)
(* makes the call a duplicate or a conflict; an expired row is rejected;   *)
(* else the row is completed and the result stored.                        *)
Wins(c) ==
  LET r == op[c].run IN
  ~lost[r] /\ result[r] = None /\ ~Expired(r, op[c].at) /\ ~completed[r]

Duplicate(c) ==
  LET r == op[c].run IN ~lost[r] /\ result[r] = op[c].completion

(* Mutant: completed_at is not set with the result.                        *)
CompletedRowsKept(c) == completed

CompletedRows(c) == [completed EXCEPT ![op[c].run] = @ \/ Wins(c)]

CompleteLease(c) ==
  LET r == op[c].run IN
  /\ op[c].stage = "completeLease"
  /\ completed' = CompletedRows(c)
  /\ result' = [result EXCEPT ![r] = IF Wins(c) THEN op[c].completion ELSE @]
  /\ op' = [op EXCEPT ![c] = IF Wins(c) THEN [@ EXCEPT !.stage = "sink"]
                             ELSE IF Duplicate(c)
                               THEN [@ EXCEPT !.stage = "sinkStored"] ELSE IdleOp]
  /\ UNCHANGED <<now, owner, expiresAt, lost, recoveryOf, effectVars,
                 memoryVars, held>>

(* invokeCompletionSink, for a session still registered: the sink gets the *)
(* completion that was presented or, for a duplicate, the stored one, read *)
(* again.  The sink itself may fail.                                       *)
InvokeSink(c) ==
  LET r == op[c].run
      authoritative == IF op[c].stage = "sink" THEN op[c].completion ELSE result[r]
  IN
  /\ op[c].stage \in {"sink", "sinkStored"}
  /\ \/ UNCHANGED sunk
     \/ /\ op[c].session \in live
        /\ authoritative # None
        /\ sunk' = [sunk EXCEPT ![r] = @ \cup {authoritative}]
  /\ Finish(c)
  /\ UNCHANGED <<now, storeVars, recorded, evidence, memoryVars, held>>

(* registerArtifactManifest: Core's own mayStartAction, then the write.    *)
RegisterManifest(c, s, r) ==
  /\ PresentLease(s, r)
  /\ ~Expired(r, now)
  /\ op' = [op EXCEPT ![c] = Call("register", s, r, now, None)]
  /\ UNCHANGED <<now, storeVars, effectVars, memoryVars, held>>

StoreManifest(c) ==
  /\ op[c].stage = "register"
  /\ evidence' = evidence \cup {op[c].run}
  /\ Finish(c)
  /\ UNCHANGED <<now, storeVars, recorded, sunk, memoryVars, held>>
-----------------------------------------------------------------------------
Next ==
  \/ Tick
  \/ Crash
  \/ \E s \in Sessions : OpenSession(s) \/ CloseSession(s)
  \/ \E s \in Sessions, k \in JobRuns : OfferNew(s, k) \/ AcceptAgain(s, k)
  \/ \E c \in Slots, s \in Sessions, k \in JobRuns :
       OfferRecovery(c, s, k) \/ Accept(c, s, k)
  \/ \E c \in Slots, s \in Sessions, r \in Runs :
       \/ PresentExpired(c, s, r)
       \/ Renew(c, s, r)
       \/ RegisterManifest(c, s, r)
       \/ \E x \in Completions :
            Complete(c, s, r, x) \/ CompleteStoredExpired(c, s, r, x)
  \/ \E c \in Slots :
       \/ CreateRecoveryRun(c)
       \/ MarkRecovered(c)
       \/ \E f \in FreshRuns : OfferFresh(c, f)
       \/ GrantLease(c)
       \/ Granted(c)
       \/ ExpireLease(c)
       \/ RenewLease(c)
       \/ StoredExpire(c)
       \/ CompleteLease(c)
       \/ InvokeSink(c)
       \/ StoreManifest(c)

Spec == Init /\ [][Next]_vars
-----------------------------------------------------------------------------
(* Every variable keeps its type.                                          *)
TypeOK ==
  /\ now \in Nat
  /\ owner \in [Runs -> Sessions \cup {None}]
  /\ expiresAt \in [Runs -> Nat]
  /\ lost \in [Runs -> BOOLEAN]
  /\ completed \in [Runs -> BOOLEAN]
  /\ recoveryOf \in [Runs -> JobRuns \cup {None}]
  /\ result \in [Runs -> Completions \cup {None}]
  /\ recorded \in SUBSET JobRuns
  /\ evidence \in SUBSET Runs
  /\ sunk \in [Runs -> SUBSET Completions]
  /\ live \in SUBSET Sessions
  /\ offers \in [JobRuns -> OfferType]
  /\ generated \in SUBSET FreshRuns
  /\ op \in [Slots -> OpType]
  /\ held \in [Sessions -> SUBSET Runs]

(* A run ends once: no row is both lost and completed, only a granted row  *)
(* ends, and the completed rows are exactly those with a stored result     *)
(* (completeLease and markLeaseLost race through the awaits of the calls   *)
(* that lead to them).                                                     *)
EndsOnce ==
  \A r \in Runs :
    /\ ~(lost[r] /\ completed[r])
    /\ lost[r] \/ completed[r] => owner[r] # None
    /\ completed[r] <=> result[r] # None

(* A run is executed again only once it can no longer be completed: every  *)
(* recovery, offered or granted, is of a run that is lost (comment of      *)
(* createRecoveryRun, which does not look at what markLeaseLost returns).  *)
RecoveredOnlyIfLost ==
  /\ \A k \in JobRuns : offers[k].recoveryOf # None => lost[offers[k].recoveryOf]
  /\ \A r \in Runs : recoveryOf[r] # None => lost[recoveryOf[r]]

(* A lost run is re-executed under one new run id at most, over crashes of *)
(* Core and repeated offers.                                               *)
OneSuccessor ==
  \A q, r \in Runs : recoveryOf[q] # None /\ recoveryOf[q] = recoveryOf[r] => q = r

(* The completion sink never gets a result other than the stored one,      *)
(* whichever completion was retried, and nothing for a run that has none.  *)
SinkAuthoritative ==
  \A r \in Runs : \A x \in sunk[r] : result[r] = x

(* A Runner that holds the lease of a run is the owner in the stored row,  *)
(* and a run it was offered under its own id has its execution_runs row:   *)
(* accept replies only after both writes.                                  *)
HeldIsStored ==
  \A s \in Sessions : \A r \in held[s] :
    owner[r] = s /\ (r \in JobRuns => r \in recorded)

(* New evidence is admitted only for a run that is still owned, although   *)
(* the write comes some awaits after Core's mayStartAction.                *)
EvidenceOnlyWhileOwned ==
  [][\A r \in evidence' \ evidence : ~lost[r] /\ ~completed[r]]_vars

(* Nothing changes the row of a run that is lost or completed: no renewal, *)
(* no late completion and no second grant revives it.                      *)
EndedRowsFrozen ==
  [][\A r \in Runs : lost[r] \/ completed[r] =>
       /\ owner'[r] = owner[r]
       /\ expiresAt'[r] = expiresAt[r]
       /\ lost'[r] = lost[r]
       /\ completed'[r] = completed[r]
       /\ recoveryOf'[r] = recoveryOf[r]
       /\ result'[r] = result[r]]_vars

(* The state of a run's row, in the terms of RunLifecycle.                 *)
Status == [r \in Runs |-> IF owner[r] = None THEN "free"
                          ELSE IF lost[r] THEN "lost"
                          ELSE IF completed[r] THEN "completed"
                          ELSE "owned"]

Lifecycle == INSTANCE RunLifecycle
               WITH Owners  <- Sessions,
                    Results <- Completions,
                    status  <- Status,
                    holder  <- owner,
                    outcome <- result,
                    parent  <- recoveryOf

(* The lease rows implement the life of a run that RunLifecycle promises:  *)
(* one grant, one ending, one successor, across all the steps of a call.   *)
ImplementsLifecycle == Lifecycle!Spec
=============================================================================

--------------------------- MODULE RunLeaseProofs ---------------------------
(***************************************************************************)
(* RunLease, for every set of runs, sessions, results and calls: a run     *)
(* ends once, is recovered only when it is lost and by one run only, ended *)
(* rows are frozen, and the lease rows implement RunLifecycle.  The last   *)
(* part is about the Runner's window on such a lease.                      *)
(***************************************************************************)
EXTENDS RunLease, LeaseWindow, TLAPS

Busy(c) == op[c].stage # "idle"

RecoveryStages == {"recover", "markRecovered", "offerFresh"}

(* The promise chain: one call at a time is past its first step.           *)
Serialized == \A c, d \in Slots : Busy(c) /\ Busy(d) => c = d

(* What a call in progress knows at each of its stages.                    *)
CallsKnow ==
  \A c \in Slots : Busy(c) =>
    /\ op[c].run \in Runs
    /\ op[c].session \in Sessions
    /\ op[c].stage \in RecoveryStages \cup {"grant", "granted"} =>
         op[c].run \in JobRuns
    /\ op[c].stage \in RecoveryStages =>
         /\ owner[op[c].run] # None
         /\ \A q \in Runs : recoveryOf[q] # op[c].run
    /\ op[c].stage = "markRecovered" => ~completed[op[c].run]
    /\ op[c].stage = "offerFresh" => lost[op[c].run]
    /\ op[c].stage \in {"grant", "granted"} =>
         offers[op[c].run].session = op[c].session
    /\ op[c].stage = "granted" =>
         owner[offers[op[c].run].run] = op[c].session
    /\ op[c].stage = "register" => ~lost[op[c].run] /\ ~completed[op[c].run]
    /\ op[c].stage \in {"storedExpire", "completeLease"} =>
         op[c].completion # None /\ owner[op[c].run] # None
    /\ op[c].stage = "sink" =>
         op[c].completion # None /\ result[op[c].run] = op[c].completion

(* What an offer in memory stands for.                                     *)
OffersKnow ==
  \A k \in JobRuns : offers[k] # NoOffer =>
    /\ offers[k].session \in Sessions
    /\ offers[k].leased => owner[offers[k].run] = offers[k].session
    /\ \/ offers[k].run = k /\ offers[k].recoveryOf = None
       \/ /\ offers[k].run \in generated
          /\ offers[k].recoveryOf = k
          /\ lost[k]
          /\ \A q \in Runs : recoveryOf[q] = k => q = offers[k].run

(* What the recovery lineage in the rows stands for.                       *)
LineageKnows ==
  \A r \in Runs : recoveryOf[r] # None =>
    /\ owner[r] # None
    /\ lost[recoveryOf[r]]

IInv == /\ TypeOK
        /\ Serialized
        /\ CallsKnow
        /\ OffersKnow
        /\ LineageKnows
        /\ EndsOnce
        /\ OneSuccessor
        /\ SinkAuthoritative
        /\ HeldIsStored
-----------------------------------------------------------------------------
(* A conjunct of the invariant holds after a step that leaves alone the    *)
(* variables it speaks of; here, for the one call in progress.             *)
LEMMA SerializedFrame ==
  ASSUME Serialized, UNCHANGED <<op>>
  PROVE  Serialized'
BY DEF Serialized, Busy

(* The same for what is known of the calls in progress.                    *)
LEMMA CallsKnowFrame ==
  ASSUME CallsKnow, UNCHANGED <<op, owner, recoveryOf, completed, lost, offers, result>>
  PROVE  CallsKnow'
BY DEF CallsKnow, Busy, RecoveryStages

(* The same for what is known of the offers.                               *)
LEMMA OffersKnowFrame ==
  ASSUME OffersKnow, UNCHANGED <<offers, owner, generated, lost, recoveryOf>>
  PROVE  OffersKnow'
BY DEF OffersKnow, NoOffer

(* The same for what is known of the lineage.                              *)
LEMMA LineageKnowsFrame ==
  ASSUME LineageKnows, UNCHANGED <<recoveryOf, owner, lost>>
  PROVE  LineageKnows'
BY DEF LineageKnows

(* The same for what is known of the endings.                              *)
LEMMA EndsOnceFrame ==
  ASSUME EndsOnce, UNCHANGED <<lost, completed, owner, result>>
  PROVE  EndsOnce'
BY DEF EndsOnce

(* The same for what is known of the successors.                           *)
LEMMA OneSuccessorFrame ==
  ASSUME OneSuccessor, UNCHANGED <<recoveryOf>>
  PROVE  OneSuccessor'
BY DEF OneSuccessor

(* The same for what is known of the results at the sink.                  *)
LEMMA SinkAuthoritativeFrame ==
  ASSUME SinkAuthoritative, UNCHANGED <<sunk, result>>
  PROVE  SinkAuthoritative'
BY DEF SinkAuthoritative

(* The same for what is known of the leases held.                          *)
LEMMA HeldIsStoredFrame ==
  ASSUME HeldIsStored, UNCHANGED <<held, owner, recorded>>
  PROVE  HeldIsStored'
BY DEF HeldIsStored

(* The clock moves.                                                        *)
LEMMA TickKeeps ==
  ASSUME IInv, Tick
  PROVE  IInv'
<1>1. TypeOK'
  BY DEF IInv, TypeOK, OfferType, OpType, Runs, Stages, Tick, effectVars,
       memoryVars, storeVars
<1>2. Serialized' /\ CallsKnow' /\ OffersKnow' /\ LineageKnows' /\ EndsOnce'
      /\ OneSuccessor' /\ SinkAuthoritative' /\ HeldIsStored'
  BY SerializedFrame, CallsKnowFrame, OffersKnowFrame, LineageKnowsFrame,
       EndsOnceFrame, OneSuccessorFrame, SinkAuthoritativeFrame,
       HeldIsStoredFrame DEF IInv, Tick, effectVars, memoryVars, storeVars
<1> QED
  BY <1>1, <1>2 DEF IInv

(* A crash empties the memory of the process and nothing else.             *)
LEMMA CrashKeeps ==
  ASSUME IInv, Crash
  PROVE  IInv'
<1>1. TypeOK'
  BY DEF IInv, TypeOK, Crash, IdleOp, NoOffer, OfferType, OpType, Runs,
       Stages, effectVars, storeVars
<1>2. Serialized'
  BY DEF IInv, Serialized, Busy, Crash, IdleOp, NoOffer, effectVars,
       storeVars
<1>3. CallsKnow'
  BY DEF IInv, CallsKnow, Busy, Crash, IdleOp, NoOffer, RecoveryStages,
       Runs, effectVars, storeVars
<1>4. OffersKnow'
  BY DEF IInv, OffersKnow, Crash, IdleOp, NoOffer, Runs, effectVars,
       storeVars
<1>5. LineageKnows' /\ EndsOnce' /\ OneSuccessor' /\ SinkAuthoritative' /\
      HeldIsStored'
  BY LineageKnowsFrame, EndsOnceFrame, OneSuccessorFrame,
       SinkAuthoritativeFrame, HeldIsStoredFrame DEF IInv, Crash, effectVars,
       storeVars
<1> QED
  BY <1>1, <1>2, <1>3, <1>4, <1>5 DEF IInv

(* A session is registered.                                                *)
LEMMA OpenSessionKeeps ==
  ASSUME IInv, NEW s \in Sessions, OpenSession(s)
  PROVE  IInv'
<1>1. TypeOK'
  BY DEF IInv, TypeOK, ChainFree, OfferType, OpType, OpenSession, Runs,
       Stages, effectVars, storeVars
<1>2. Serialized' /\ CallsKnow' /\ OffersKnow' /\ LineageKnows' /\ EndsOnce'
      /\ OneSuccessor' /\ SinkAuthoritative' /\ HeldIsStored'
  BY SerializedFrame, CallsKnowFrame, OffersKnowFrame, LineageKnowsFrame,
       EndsOnceFrame, OneSuccessorFrame, SinkAuthoritativeFrame,
       HeldIsStoredFrame DEF IInv, OpenSession, effectVars, storeVars
<1> QED
  BY <1>1, <1>2 DEF IInv

(* A session is removed.                                                   *)
LEMMA CloseSessionKeeps ==
  ASSUME IInv, NEW s \in Sessions, CloseSession(s)
  PROVE  IInv'
<1>1. TypeOK'
  BY DEF IInv, TypeOK, ChainFree, CloseSession, OfferType, OpType, Runs,
       Stages, effectVars, storeVars
<1>2. Serialized' /\ CallsKnow' /\ OffersKnow' /\ LineageKnows' /\ EndsOnce'
      /\ OneSuccessor' /\ SinkAuthoritative' /\ HeldIsStored'
  BY SerializedFrame, CallsKnowFrame, OffersKnowFrame, LineageKnowsFrame,
       EndsOnceFrame, OneSuccessorFrame, SinkAuthoritativeFrame,
       HeldIsStoredFrame DEF IInv, CloseSession, effectVars, storeVars
<1> QED
  BY <1>1, <1>2 DEF IInv

(* An offer of a run under its own id.                                     *)
LEMMA OfferNewKeeps ==
  ASSUME IInv, NEW s \in Sessions, NEW k \in JobRuns, OfferNew(s, k)
  PROVE  IInv'
<1>1. TypeOK'
  BY DEF IInv, TypeOK, ChainFree, NoOffer, OfferNew, OfferType, OpType,
       Runs, Stages, effectVars, storeVars
<1>2. CallsKnow'
  BY DEF IInv, CallsKnow, Busy, ChainFree, NoOffer, OfferNew,
       RecoveryStages, Runs, effectVars, storeVars
<1>3. OffersKnow'
  <2>1. offers'[k] = [session |-> s, run |-> k, recoveryOf |-> None,
                      leased |-> FALSE]
    BY DEF IInv, TypeOK, OfferNew
  <2>2. \A j \in JobRuns : j # k => offers'[j] = offers[j]
    BY DEF IInv, TypeOK, OfferNew
  <2>3. UNCHANGED <<owner, generated, lost, recoveryOf>>
    BY DEF OfferNew, storeVars
  <2> QED
    BY <2>1, <2>2, <2>3 DEF IInv, OffersKnow, NoOffer
<1>4. Serialized' /\ LineageKnows' /\ EndsOnce' /\ OneSuccessor' /\
      SinkAuthoritative' /\ HeldIsStored'
  BY SerializedFrame, LineageKnowsFrame, EndsOnceFrame, OneSuccessorFrame,
       SinkAuthoritativeFrame, HeldIsStoredFrame DEF IInv, OfferNew, effectVars,
       storeVars
<1> QED
  BY <1>1, <1>2, <1>3, <1>4 DEF IInv

(* The lease of an accepted offer is handed out again, after its row was   *)
(* written.                                                                *)
LEMMA AcceptAgainKeeps ==
  ASSUME IInv, NEW s \in Sessions, NEW k \in JobRuns, AcceptAgain(s, k)
  PROVE  IInv'
<1>1. TypeOK'
  BY DEF IInv, OffersKnow, TypeOK, AcceptAgain, ChainFree, NoOffer,
       OfferType, OpType, RecordRun, Runs, Stages, memoryVars, storeVars
<1>2. HeldIsStored'
  BY RunsDisjoint DEF IInv, HeldIsStored, OffersKnow, TypeOK, AcceptAgain,
       ChainFree, NoOffer, OfferType, OpType, RecordRun, Runs, Stages,
       memoryVars, storeVars
<1>3. Serialized' /\ CallsKnow' /\ OffersKnow' /\ LineageKnows' /\ EndsOnce'
      /\ OneSuccessor' /\ SinkAuthoritative'
  BY SerializedFrame, CallsKnowFrame, OffersKnowFrame, LineageKnowsFrame,
       EndsOnceFrame, OneSuccessorFrame, SinkAuthoritativeFrame DEF IInv,
       AcceptAgain, memoryVars, storeVars
<1> QED
  BY <1>1, <1>2, <1>3 DEF IInv

(* A run about to be recovered is not lost, so no run succeeds it.         *)
LEMMA OfferRecoveryKeeps ==
  ASSUME IInv, NEW c \in Slots, NEW s \in Sessions, NEW k \in JobRuns,
         OfferRecovery(c, s, k)
  PROVE  IInv'
<1>1. TypeOK'
  BY DEF IInv, TypeOK, Call, ChainFree, Expired, MayRecover, NoOffer,
       OfferRecovery, OfferType, OpType, Runs, Stages, effectVars, memoryVars,
       storeVars
<1>2. Serialized'
  BY DEF IInv, Serialized, Busy, Call, ChainFree, Expired, MayRecover,
       NoOffer, OfferRecovery, effectVars, memoryVars, storeVars
<1>3. CallsKnow'
  BY NoneIsNoValue DEF IInv, CallsKnow, LineageKnows, Busy, Call,
       ChainFree, Expired, MayRecover, NoOffer, OfferRecovery, RecoveryStages,
       Runs, effectVars, memoryVars, storeVars
<1>4. OffersKnow' /\ LineageKnows' /\ EndsOnce' /\ OneSuccessor' /\
      SinkAuthoritative' /\ HeldIsStored'
  BY OffersKnowFrame, LineageKnowsFrame, EndsOnceFrame, OneSuccessorFrame,
       SinkAuthoritativeFrame, HeldIsStoredFrame DEF IInv, OfferRecovery,
       effectVars, memoryVars, storeVars
<1> QED
  BY <1>1, <1>2, <1>3, <1>4 DEF IInv

(* The first step of accept writes nothing.                                *)
LEMMA AcceptKeeps ==
  ASSUME IInv, NEW c \in Slots, NEW s \in Sessions, NEW k \in JobRuns,
         Accept(c, s, k)
  PROVE  IInv'
<1>1. TypeOK'
  BY TimesAreNat DEF IInv, TypeOK, Accept, Call, ChainFree, OfferType,
       OpType, Runs, Stages, effectVars, memoryVars, storeVars
<1>2. Serialized'
  BY DEF IInv, Serialized, Accept, Busy, Call, ChainFree, effectVars,
       memoryVars, storeVars
<1>3. CallsKnow'
  BY DEF IInv, CallsKnow, Accept, Busy, Call, ChainFree, RecoveryStages,
       Runs, effectVars, memoryVars, storeVars
<1>4. OffersKnow' /\ LineageKnows' /\ EndsOnce' /\ OneSuccessor' /\
      SinkAuthoritative' /\ HeldIsStored'
  BY OffersKnowFrame, LineageKnowsFrame, EndsOnceFrame, OneSuccessorFrame,
       SinkAuthoritativeFrame, HeldIsStoredFrame DEF IInv, Accept, effectVars,
       memoryVars, storeVars
<1> QED
  BY <1>1, <1>2, <1>3, <1>4 DEF IInv

(* An expired lease is presented.                                          *)
LEMMA PresentExpiredKeeps ==
  ASSUME IInv, NEW c \in Slots, NEW s \in Sessions, NEW r \in Runs,
         PresentExpired(c, s, r)
  PROVE  IInv'
<1>1. TypeOK'
  BY DEF IInv, TypeOK, Call, ChainFree, Expired, OfferType, OpType,
       PresentExpired, PresentLease, RequireOwner, Runs, Stages, effectVars,
       memoryVars, storeVars
<1>2. Serialized'
  BY DEF IInv, Serialized, Busy, Call, ChainFree, Expired, PresentExpired,
       PresentLease, RequireOwner, effectVars, memoryVars, storeVars
<1>3. CallsKnow'
  BY DEF IInv, CallsKnow, Busy, Call, ChainFree, Expired, PresentExpired,
       PresentLease, RecoveryStages, RequireOwner, Runs, effectVars, memoryVars,
       storeVars
<1>4. OffersKnow' /\ LineageKnows' /\ EndsOnce' /\ OneSuccessor' /\
      SinkAuthoritative' /\ HeldIsStored'
  BY OffersKnowFrame, LineageKnowsFrame, EndsOnceFrame, OneSuccessorFrame,
       SinkAuthoritativeFrame, HeldIsStoredFrame DEF IInv, PresentExpired,
       effectVars, memoryVars, storeVars
<1> QED
  BY <1>1, <1>2, <1>3, <1>4 DEF IInv

(* The first step of renew writes nothing.                                 *)
LEMMA RenewKeeps ==
  ASSUME IInv, NEW c \in Slots, NEW s \in Sessions, NEW r \in Runs, Renew(c,
         s, r)
  PROVE  IInv'
<1>1. TypeOK'
  BY TimesAreNat DEF IInv, TypeOK, Call, ChainFree, OfferType, OpType,
       PresentLease, Renew, RequireOwner, Runs, Stages, effectVars, memoryVars,
       storeVars
<1>2. Serialized'
  BY DEF IInv, Serialized, Busy, Call, ChainFree, PresentLease, Renew,
       RequireOwner, effectVars, memoryVars, storeVars
<1>3. CallsKnow'
  BY DEF IInv, CallsKnow, Busy, Call, ChainFree, PresentLease,
       RecoveryStages, Renew, RequireOwner, Runs, effectVars, memoryVars,
       storeVars
<1>4. OffersKnow' /\ LineageKnows' /\ EndsOnce' /\ OneSuccessor' /\
      SinkAuthoritative' /\ HeldIsStored'
  BY OffersKnowFrame, LineageKnowsFrame, EndsOnceFrame, OneSuccessorFrame,
       SinkAuthoritativeFrame, HeldIsStoredFrame DEF IInv, Renew, effectVars,
       memoryVars, storeVars
<1> QED
  BY <1>1, <1>2, <1>3, <1>4 DEF IInv

(* The first step of a manifest's registration writes nothing.             *)
LEMMA RegisterManifestKeeps ==
  ASSUME IInv, NEW c \in Slots, NEW s \in Sessions, NEW r \in Runs,
         RegisterManifest(c, s, r)
  PROVE  IInv'
<1>1. TypeOK'
  BY DEF IInv, TypeOK, Call, ChainFree, Expired, OfferType, OpType,
       PresentLease, RegisterManifest, RequireOwner, Runs, Stages, effectVars,
       memoryVars, storeVars
<1>2. Serialized'
  BY DEF IInv, Serialized, Busy, Call, ChainFree, Expired, PresentLease,
       RegisterManifest, RequireOwner, effectVars, memoryVars, storeVars
<1>3. CallsKnow'
  BY DEF IInv, CallsKnow, Busy, Call, ChainFree, Expired, PresentLease,
       RecoveryStages, RegisterManifest, RequireOwner, Runs, effectVars,
       memoryVars, storeVars
<1>4. OffersKnow' /\ LineageKnows' /\ EndsOnce' /\ OneSuccessor' /\
      SinkAuthoritative' /\ HeldIsStored'
  BY OffersKnowFrame, LineageKnowsFrame, EndsOnceFrame, OneSuccessorFrame,
       SinkAuthoritativeFrame, HeldIsStoredFrame DEF IInv, RegisterManifest,
       effectVars, memoryVars, storeVars
<1> QED
  BY <1>1, <1>2, <1>3, <1>4 DEF IInv

(* The first step of complete writes nothing.                              *)
LEMMA CompleteKeeps ==
  ASSUME IInv, NEW c \in Slots, NEW s \in Sessions, NEW r \in Runs, NEW x \in
         Completions, Complete(c, s, r, x)
  PROVE  IInv'
<1>1. TypeOK'
  BY DEF IInv, TypeOK, Call, ChainFree, Complete, Expired, OfferType,
       OpType, RequireOwner, Runs, Stages, effectVars, memoryVars, storeVars
<1>2. Serialized'
  BY DEF IInv, Serialized, Busy, Call, ChainFree, Complete, Expired,
       RequireOwner, effectVars, memoryVars, storeVars
<1>3. CallsKnow'
  BY NoneIsNoValue DEF IInv, CallsKnow, Busy, Call, ChainFree, Complete,
       Expired, RecoveryStages, RequireOwner, Runs, effectVars, memoryVars,
       storeVars
<1>4. OffersKnow' /\ LineageKnows' /\ EndsOnce' /\ OneSuccessor' /\
      SinkAuthoritative' /\ HeldIsStored'
  BY OffersKnowFrame, LineageKnowsFrame, EndsOnceFrame, OneSuccessorFrame,
       SinkAuthoritativeFrame, HeldIsStoredFrame DEF IInv, Complete, effectVars,
       memoryVars, storeVars
<1> QED
  BY <1>1, <1>2, <1>3, <1>4 DEF IInv

(* The first step of completeStored on an expired row.                     *)
LEMMA CompleteStoredExpiredKeeps ==
  ASSUME IInv, NEW c \in Slots, NEW s \in Sessions, NEW r \in Runs, NEW x \in
         Completions, CompleteStoredExpired(c, s, r, x)
  PROVE  IInv'
<1>1. TypeOK'
  BY DEF IInv, TypeOK, Call, ChainFree, CompleteStoredExpired, Expired,
       OfferType, OpType, PresentLease, RequireOwner, Runs, Stages, effectVars,
       memoryVars, storeVars
<1>2. Serialized'
  BY DEF IInv, Serialized, Busy, Call, ChainFree, CompleteStoredExpired,
       Expired, PresentLease, RequireOwner, effectVars, memoryVars, storeVars
<1>3. CallsKnow'
  BY NoneIsNoValue DEF IInv, CallsKnow, Busy, Call, ChainFree,
       CompleteStoredExpired, Expired, PresentLease, RecoveryStages,
       RequireOwner, Runs, effectVars, memoryVars, storeVars
<1>4. OffersKnow' /\ LineageKnows' /\ EndsOnce' /\ OneSuccessor' /\
      SinkAuthoritative' /\ HeldIsStored'
  BY OffersKnowFrame, LineageKnowsFrame, EndsOnceFrame, OneSuccessorFrame,
       SinkAuthoritativeFrame, HeldIsStoredFrame DEF IInv,
       CompleteStoredExpired, effectVars, memoryVars, storeVars
<1> QED
  BY <1>1, <1>2, <1>3, <1>4 DEF IInv

(* createRecoveryRun looks at the row again.                               *)
LEMMA CreateRecoveryRunKeeps ==
  ASSUME IInv, NEW c \in Slots, CreateRecoveryRun(c)
  PROVE  IInv'
<1>1. TypeOK'
  BY SMTT(60) DEF IInv, Serialized, SinkAuthoritative, TypeOK, Busy,
       CreateRecoveryRun, Expired, IdleOp, OfferType, OpType, Runs, Stages,
       effectVars, memoryVars, storeVars
<1>2. Serialized'
  BY DEF IInv, Serialized, Busy, CreateRecoveryRun, Expired, IdleOp,
       effectVars, memoryVars, storeVars
<1>3. CallsKnow'
  BY DEF IInv, CallsKnow, Busy, CreateRecoveryRun, Expired, IdleOp,
       RecoveryStages, Runs, effectVars, memoryVars, storeVars
<1>4. OffersKnow' /\ LineageKnows' /\ EndsOnce' /\ OneSuccessor' /\
      SinkAuthoritative' /\ HeldIsStored'
  BY OffersKnowFrame, LineageKnowsFrame, EndsOnceFrame, OneSuccessorFrame,
       SinkAuthoritativeFrame, HeldIsStoredFrame DEF IInv, CreateRecoveryRun,
       effectVars, memoryVars, storeVars
<1> QED
  BY <1>1, <1>2, <1>3, <1>4 DEF IInv

(* The recovered run cannot have completed: it is lost after this step.    *)
LEMMA MarkRecoveredKeeps ==
  ASSUME IInv, NEW c \in Slots, MarkRecovered(c)
  PROVE  IInv'
<1>1. TypeOK'
  BY NoneIsNoValue, SMTT(60) DEF IInv, CallsKnow, EndsOnce, TypeOK, Busy,
       MarkLeaseLost, MarkRecovered, OfferType, OpType, RecoveryStages, Runs,
       Stages, effectVars, memoryVars
<1>2. Serialized'
  BY DEF IInv, Serialized, Busy, MarkLeaseLost, MarkRecovered, effectVars,
       memoryVars
<1>3. CallsKnow'
  <2>1. /\ op[c] \in OpType /\ op[c].run \in JobRuns /\ owner[op[c].run] # None
        /\ ~completed[op[c].run] /\ op[c].session \in Sessions
        /\ \A q \in Runs : recoveryOf[q] # op[c].run
    BY DEF IInv, TypeOK, CallsKnow, MarkRecovered, Busy, RecoveryStages
  <2>2. lost'[op[c].run]
    BY <2>1 DEF IInv, TypeOK, MarkRecovered, MarkLeaseLost, Runs
  <2>3. op'[c] = [op[c] EXCEPT !.stage = "offerFresh"]
    BY DEF IInv, TypeOK, MarkRecovered
  <2>4. \A d \in Slots : d # c => op'[d] = op[d] /\ ~Busy(d)
    BY DEF IInv, TypeOK, Serialized, MarkRecovered, Busy
  <2> QED
    BY <2>1, <2>2, <2>3, <2>4
       DEF CallsKnow, Busy, RecoveryStages, MarkRecovered, OpType, Runs,
           effectVars, memoryVars
<1>4. OffersKnow'
  BY DEF IInv, OffersKnow, TypeOK, MarkLeaseLost, MarkRecovered, NoOffer,
       OfferType, OpType, Runs, Stages, effectVars, memoryVars
<1>5. LineageKnows'
  BY DEF IInv, LineageKnows, TypeOK, MarkRecovered, MarkLeaseLost, Runs
<1>6. EndsOnce'
  BY DEF IInv, EndsOnce, TypeOK, MarkRecovered, MarkLeaseLost
<1>7. OneSuccessor' /\ SinkAuthoritative' /\ HeldIsStored'
  BY OneSuccessorFrame, SinkAuthoritativeFrame, HeldIsStoredFrame DEF IInv,
       MarkRecovered, effectVars, memoryVars
<1> QED
  BY <1>1, <1>2, <1>3, <1>4, <1>5, <1>6, <1>7 DEF IInv

(* The fresh run id was never generated before.                            *)
LEMMA OfferFreshKeeps ==
  ASSUME IInv, NEW c \in Slots, NEW f \in FreshRuns, OfferFresh(c, f)
  PROVE  IInv'
<1>1. TypeOK'
  BY DEF IInv, CallsKnow, TypeOK, Busy, Finish, IdleOp, OfferFresh,
       OfferType, OpType, RecoveryStages, Runs, Stages, effectVars, storeVars
<1>2. Serialized'
  BY DEF IInv, Serialized, Busy, Finish, IdleOp, OfferFresh, effectVars,
       storeVars
<1>3. CallsKnow'
  BY DEF IInv, CallsKnow, Serialized, Busy, Finish, IdleOp, OfferFresh,
       RecoveryStages, Runs, effectVars, storeVars
<1>4. OffersKnow'
  <2> DEFINE k == op[c].run
  <2>1. /\ k \in JobRuns /\ lost[k] /\ op[c].session \in Sessions
        /\ \A q \in Runs : recoveryOf[q] # k
    BY DEF IInv, CallsKnow, OfferFresh, Busy, RecoveryStages
  <2>2. offers'[k] = [session |-> op[c].session, run |-> f, recoveryOf |-> k,
                      leased |-> FALSE]
    BY <2>1 DEF IInv, TypeOK, OfferFresh
  <2>3. \A j \in JobRuns : j # k => offers'[j] = offers[j]
    BY DEF IInv, TypeOK, OfferFresh
  <2>4. generated' = generated \cup {f} /\ UNCHANGED <<owner, lost, recoveryOf>>
    BY DEF OfferFresh, storeVars
  <2> QED
    BY <2>1, <2>2, <2>3, <2>4 DEF IInv, OffersKnow, NoOffer
<1>5. LineageKnows' /\ EndsOnce' /\ OneSuccessor' /\ SinkAuthoritative' /\
      HeldIsStored'
  BY LineageKnowsFrame, EndsOnceFrame, OneSuccessorFrame,
       SinkAuthoritativeFrame, HeldIsStoredFrame DEF IInv, OfferFresh, Finish,
       effectVars, storeVars
<1> QED
  BY <1>1, <1>2, <1>3, <1>4, <1>5 DEF IInv

(* A successor gets its row: its parent is lost and has no other.          *)
LEMMA GrantLeaseKeeps ==
  ASSUME IInv, NEW c \in Slots, GrantLease(c)
  PROVE  IInv'
<1>1. TypeOK'
  <2> DEFINE o == offers[op[c].run]
  <2>1. op[c] \in OpType /\ op[c].run \in JobRuns
    BY DEF IInv, TypeOK, CallsKnow, GrantLease, Busy, RecoveryStages
  <2>2. o \in OfferType
    BY <2>1 DEF IInv, TypeOK
  <2>3. /\ owner' \in [Runs -> Sessions \cup {None}]
        /\ expiresAt' \in [Runs -> Nat]
        /\ recoveryOf' \in [Runs -> JobRuns \cup {None}]
    BY <2>1, <2>2, ZenonT(120) DEF IInv, TypeOK, GrantLease, OfferType, OpType
  <2>4. op' \in [Slots -> OpType]
    <3>1. IdleOp \in OpType /\ [op[c] EXCEPT !.stage = "granted"] \in OpType
      BY <2>1 DEF OpType, Stages, IdleOp
    <3>2. op' = [op EXCEPT ![c] = [@ EXCEPT !.stage = "granted"]]
            \/ op' = [op EXCEPT ![c] = IdleOp]
      BY DEF GrantLease, Finish
    <3> QED
      BY <3>1, <3>2 DEF IInv, TypeOK
  <2> QED
    BY <2>3, <2>4 DEF IInv, TypeOK, GrantLease, effectVars, memoryVars
<1>2. Serialized'
  BY DEF IInv, Serialized, TypeOK, Busy, Finish, GrantLease, IdleOp,
       OfferType, OpType, Runs, Stages, effectVars, memoryVars
<1>3. CallsKnow'
  BY TimesAreNat, SMTT(60) DEF IInv, CallsKnow, OffersKnow, Serialized, TypeOK, Busy,
       Finish, GrantLease, IdleOp, NoOffer, OfferType, OpType, RecoveryStages,
       Runs, Stages, effectVars, memoryVars
<1>4. OffersKnow'
  BY NoneIsNoValue DEF IInv, CallsKnow, OffersKnow, TypeOK, Busy, Finish,
       GrantLease, IdleOp, NoOffer, OfferType, OpType, RecoveryStages, Runs,
       Stages, effectVars, memoryVars
<1>5. LineageKnows'
  BY NoneIsNoValue DEF IInv, CallsKnow, LineageKnows, OffersKnow, TypeOK,
       Busy, Finish, GrantLease, IdleOp, NoOffer, OfferType, OpType,
       RecoveryStages, Runs, Stages, effectVars, memoryVars
<1>6. EndsOnce'
  BY DEF IInv, EndsOnce, TypeOK, Finish, GrantLease, IdleOp, OfferType,
       OpType, Runs, Stages, effectVars, memoryVars
<1>7. OneSuccessor'
  BY SMTT(60) DEF IInv, CallsKnow, OffersKnow, OneSuccessor, TypeOK, Busy,
       GrantLease, NoOffer, OfferType, OpType, RecoveryStages, Runs
<1>8. HeldIsStored'
  BY NoneIsNoValue DEF IInv, HeldIsStored, TypeOK, Finish, GrantLease,
       IdleOp, OfferType, OpType, Runs, Stages, effectVars, memoryVars
<1>9. SinkAuthoritative'
  BY SinkAuthoritativeFrame DEF IInv, GrantLease, Finish, effectVars,
       memoryVars
<1> QED
  BY <1>1, <1>2, <1>3, <1>4, <1>5, <1>6, <1>7, <1>8, <1>9 DEF IInv

(* The reply to accept leaves after both writes.                           *)
LEMMA GrantedKeeps ==
  ASSUME IInv, NEW c \in Slots, Granted(c)
  PROVE  IInv'
<1>1. TypeOK'
  <2> DEFINE k == op[c].run
  <2>1. k \in JobRuns /\ op[c].session \in Sessions
    BY DEF IInv, CallsKnow, Granted, Busy, RecoveryStages
  <2>2. offers[k] \in OfferType /\ offers[k].run \in Runs
    BY <2>1, NoneIsNoValue
       DEF IInv, TypeOK, CallsKnow, OffersKnow, Granted, Busy, NoOffer, Runs
  <2>3. offers' \in [JobRuns -> OfferType]
    BY <2>1, <2>2 DEF IInv, TypeOK, Granted, OfferType
  <2>4. recorded' \in SUBSET JobRuns
    BY <2>1 DEF IInv, TypeOK, Granted, RecordRun
  <2>5. held' \in [Sessions -> SUBSET Runs]
    BY <2>1, <2>2 DEF IInv, TypeOK, Granted
  <2>6. op' \in [Slots -> OpType]
    BY DEF IInv, TypeOK, Granted, OpType, Stages, Finish, IdleOp
  <2> QED
    BY <2>3, <2>4, <2>5, <2>6 DEF IInv, TypeOK, Granted, storeVars
<1>2. Serialized'
  BY DEF IInv, Serialized, Busy, Finish, Granted, IdleOp, RecordRun,
       storeVars
<1>3. CallsKnow'
  BY DEF IInv, CallsKnow, Busy, Finish, Granted, IdleOp, RecordRun,
       RecoveryStages, Runs, storeVars
<1>4. OffersKnow'
  <2> DEFINE k == op[c].run
  <2>1. /\ k \in JobRuns
        /\ offers[k].session = op[c].session
        /\ owner[offers[k].run] = op[c].session
        /\ offers[k] # NoOffer
    BY NoneIsNoValue
       DEF IInv, CallsKnow, Granted, Busy, RecoveryStages, NoOffer
  <2>2. offers[k] \in OfferType /\ offers'[k] = [offers[k] EXCEPT !.leased = TRUE]
    BY <2>1 DEF IInv, TypeOK, Granted
  <2>3. \A j \in JobRuns : j # k => offers'[j] = offers[j]
    BY DEF IInv, TypeOK, Granted
  <2>4. UNCHANGED <<owner, generated, lost, recoveryOf>>
    BY DEF Granted, storeVars
  <2> QED
    BY <2>1, <2>2, <2>3, <2>4 DEF IInv, OffersKnow, OfferType
<1>5. HeldIsStored'
  BY RunsDisjoint, NoneIsNoValue, SMTT(60) DEF IInv, CallsKnow, HeldIsStored,
       OffersKnow, TypeOK, Busy, Finish, Granted, IdleOp, NoOffer, OfferType,
       OpType, RecordRun, RecoveryStages, Runs, Stages, storeVars
<1>6. LineageKnows' /\ EndsOnce' /\ OneSuccessor' /\ SinkAuthoritative'
  BY LineageKnowsFrame, EndsOnceFrame, OneSuccessorFrame,
       SinkAuthoritativeFrame DEF IInv, Granted, Finish, storeVars
<1> QED
  BY <1>1, <1>2, <1>3, <1>4, <1>5, <1>6 DEF IInv

(* markLeaseLost spares a completed row.                                   *)
LEMMA ExpireLeaseKeeps ==
  ASSUME IInv, NEW c \in Slots, ExpireLease(c)
  PROVE  IInv'
<1>1. TypeOK'
  BY DEF IInv, CallsKnow, TypeOK, Busy, ExpireLease, Finish, IdleOp,
       MarkLeaseLost, OfferType, OpType, RecoveryStages, Runs, Stages,
       effectVars, memoryVars
<1>2. Serialized'
  BY DEF IInv, Serialized, Busy, ExpireLease, Finish, IdleOp,
       MarkLeaseLost, effectVars, memoryVars
<1>3. CallsKnow'
  BY DEF IInv, CallsKnow, Serialized, Busy, ExpireLease, Finish, IdleOp,
       MarkLeaseLost, RecoveryStages, Runs, effectVars, memoryVars
<1>4. OffersKnow'
  BY DEF IInv, OffersKnow, TypeOK, ExpireLease, Finish, IdleOp,
       MarkLeaseLost, NoOffer, OfferType, OpType, Runs, Stages, effectVars,
       memoryVars
<1>5. LineageKnows'
  BY DEF IInv, LineageKnows, TypeOK, ExpireLease, Finish, IdleOp,
       MarkLeaseLost, OfferType, OpType, Runs, Stages, effectVars, memoryVars
<1>6. EndsOnce'
  BY DEF IInv, EndsOnce, TypeOK, ExpireLease, Finish, IdleOp,
       MarkLeaseLost, OfferType, OpType, Runs, Stages, effectVars, memoryVars
<1>7. OneSuccessor' /\ SinkAuthoritative' /\ HeldIsStored'
  BY OneSuccessorFrame, SinkAuthoritativeFrame, HeldIsStoredFrame DEF IInv,
       ExpireLease, Finish, effectVars, memoryVars
<1> QED
  BY <1>1, <1>2, <1>3, <1>4, <1>5, <1>6, <1>7 DEF IInv

(* renewLease touches only a live row.                                     *)
LEMMA RenewLeaseKeeps ==
  ASSUME IInv, NEW c \in Slots, RenewLease(c)
  PROVE  IInv'
<1>1. TypeOK'
  BY DEF IInv, CallsKnow, TypeOK, Busy, Expired, Finish, IdleOp,
       OfferType, OpType, RecoveryStages, RenewLease, Runs,
       Stages, effectVars, memoryVars
<1>2. Serialized'
  BY DEF IInv, Serialized, Busy, Expired, Finish, IdleOp,
       RenewLease, effectVars, memoryVars
<1>3. CallsKnow'
  BY DEF IInv, CallsKnow, Serialized, Busy, Expired, Finish, IdleOp,
       RecoveryStages, RenewLease, Runs, effectVars, memoryVars
<1>4. OffersKnow'
  BY DEF IInv, OffersKnow, Expired, Finish, IdleOp, NoOffer,
       RenewLease, Runs, effectVars, memoryVars
<1>5. LineageKnows'
  BY DEF IInv, LineageKnows, Expired, Finish, IdleOp,
       RenewLease, Runs, effectVars, memoryVars
<1>6. EndsOnce'
  BY DEF IInv, EndsOnce, TypeOK, Expired, Finish, IdleOp,
       OfferType, OpType, RenewLease, Runs, Stages, effectVars, memoryVars
<1>7. OneSuccessor' /\ SinkAuthoritative' /\ HeldIsStored'
  BY OneSuccessorFrame, SinkAuthoritativeFrame, HeldIsStoredFrame DEF IInv,
       RenewLease, Finish, effectVars, memoryVars
<1> QED
  BY <1>1, <1>2, <1>3, <1>4, <1>5, <1>6, <1>7 DEF IInv

(* markLeaseLost, then complete against a row that was completed.          *)
LEMMA StoredExpireKeeps ==
  ASSUME IInv, NEW c \in Slots, StoredExpire(c)
  PROVE  IInv'
<1>1. TypeOK'
  <2>1. lost' \in [Runs -> BOOLEAN]
    BY DEF IInv, TypeOK, StoredExpire, MarkLeaseLost
  <2>2. op[c] \in OpType
    BY DEF IInv, TypeOK
  <2>3. op' \in [Slots -> OpType]
    BY <2>2 DEF IInv, TypeOK, StoredExpire, OpType, Stages, IdleOp
  <2> QED
    BY <2>1, <2>3 DEF IInv, TypeOK, StoredExpire, effectVars, memoryVars
<1>2. Serialized'
  BY DEF IInv, Serialized, Busy, IdleOp, MarkLeaseLost, StoredExpire,
       effectVars, memoryVars
<1>3. CallsKnow'
  BY DEF IInv, CallsKnow, Serialized, Busy, IdleOp, MarkLeaseLost,
       RecoveryStages, Runs, StoredExpire, effectVars, memoryVars
<1>4. OffersKnow'
  BY DEF IInv, OffersKnow, TypeOK, IdleOp, MarkLeaseLost, NoOffer,
       OfferType, OpType, Runs, Stages, StoredExpire, effectVars, memoryVars
<1>5. LineageKnows'
  BY DEF IInv, LineageKnows, TypeOK, IdleOp, MarkLeaseLost, OfferType,
       OpType, Runs, Stages, StoredExpire, effectVars, memoryVars
<1>6. EndsOnce'
  BY DEF IInv, EndsOnce, TypeOK, IdleOp, MarkLeaseLost, OfferType, OpType,
       Runs, Stages, StoredExpire, effectVars, memoryVars
<1>7. OneSuccessor' /\ SinkAuthoritative' /\ HeldIsStored'
  BY OneSuccessorFrame, SinkAuthoritativeFrame, HeldIsStoredFrame DEF IInv,
       StoredExpire, effectVars, memoryVars
<1> QED
  BY <1>1, <1>2, <1>3, <1>4, <1>5, <1>6, <1>7 DEF IInv

(* The transaction completes a row that is neither lost nor completed.     *)
LEMMA CompleteLeaseKeeps ==
  ASSUME IInv, NEW c \in Slots, CompleteLease(c)
  PROVE  IInv'
<1>1. TypeOK'
  BY TimesAreNat, SMTT(60) DEF IInv, CallsKnow, TypeOK, Busy, CompleteLease,
       CompletedRows, Duplicate, Expired, IdleOp, OfferType, OpType,
       RecoveryStages, Runs, Stages, Wins, effectVars, memoryVars
<1>2. Serialized'
  BY DEF IInv, Serialized, Busy, CompleteLease, CompletedRows, Duplicate,
       Expired, IdleOp, Wins, effectVars, memoryVars
<1>3. CallsKnow'
  BY DEF IInv, CallsKnow, Serialized, TypeOK, Busy, CompleteLease,
       CompletedRows, Duplicate, Expired, IdleOp, OfferType, OpType,
       RecoveryStages, Runs, Stages, Wins, effectVars, memoryVars
<1>4. EndsOnce'
  <2> DEFINE r == op[c].run
  <2>1. /\ r \in Runs /\ owner[r] # None /\ op[c].completion # None
        /\ completed' = [completed EXCEPT ![r] = @ \/ Wins(c)]
        /\ result' = [result EXCEPT ![r] =
                        IF Wins(c) THEN op[c].completion ELSE @]
        /\ UNCHANGED <<owner, lost>>
    BY DEF IInv, CallsKnow, CompleteLease, CompletedRows, Busy
  <2>2. CASE Wins(c)
    <3>1. ~lost[r]
      BY <2>2 DEF Wins
    <3>2. /\ completed' = [completed EXCEPT ![r] = TRUE]
          /\ result' = [result EXCEPT ![r] = op[c].completion]
      BY <2>1, <2>2
    <3> QED
      BY <2>1, <3>1, <3>2 DEF IInv, TypeOK, EndsOnce
  <2>3. CASE ~Wins(c)
    <3>1. UNCHANGED <<completed, result>>
      BY <2>1, <2>3 DEF IInv, TypeOK
    <3> QED
      BY <2>1, <3>1, EndsOnceFrame DEF IInv
  <2> QED
    BY <2>2, <2>3
<1>5. SinkAuthoritative'
  BY NoneIsNoValue DEF IInv, SinkAuthoritative, TypeOK, CompleteLease,
       CompletedRows, Duplicate, Expired, IdleOp, OfferType, OpType, Runs,
       Stages, Wins, effectVars, memoryVars
<1>6. OffersKnow' /\ LineageKnows' /\ OneSuccessor' /\ HeldIsStored'
  BY OffersKnowFrame, LineageKnowsFrame, OneSuccessorFrame,
       HeldIsStoredFrame DEF IInv, CompleteLease, effectVars, memoryVars
<1> QED
  BY <1>1, <1>2, <1>3, <1>4, <1>5, <1>6 DEF IInv

(* The sink gets the stored result.                                        *)
LEMMA InvokeSinkKeeps ==
  ASSUME IInv, NEW c \in Slots, InvokeSink(c)
  PROVE  IInv'
<1>1. TypeOK'
  BY DEF IInv, CallsKnow, TypeOK, Busy, Finish, IdleOp, InvokeSink,
       OfferType, OpType, RecoveryStages, Runs, Stages, memoryVars, storeVars
<1>2. Serialized'
  BY DEF IInv, Serialized, Busy, Finish, IdleOp, InvokeSink, memoryVars,
       storeVars
<1>3. CallsKnow'
  BY DEF IInv, CallsKnow, Busy, Finish, IdleOp, InvokeSink, RecoveryStages,
       Runs, memoryVars, storeVars
<1>4. SinkAuthoritative'
  BY DEF IInv, CallsKnow, SinkAuthoritative, TypeOK, Busy, Finish, IdleOp,
       InvokeSink, OfferType, OpType, RecoveryStages, Runs, Stages, memoryVars,
       storeVars
<1>5. OffersKnow' /\ LineageKnows' /\ EndsOnce' /\ OneSuccessor' /\
      HeldIsStored'
  BY OffersKnowFrame, LineageKnowsFrame, EndsOnceFrame, OneSuccessorFrame,
       HeldIsStoredFrame DEF IInv, InvokeSink, Finish, memoryVars, storeVars
<1> QED
  BY <1>1, <1>2, <1>3, <1>4, <1>5 DEF IInv

(* The manifest is written.                                                *)
LEMMA StoreManifestKeeps ==
  ASSUME IInv, NEW c \in Slots, StoreManifest(c)
  PROVE  IInv'
<1>1. TypeOK'
  BY DEF IInv, CallsKnow, TypeOK, Busy, Finish, IdleOp, OfferType, OpType,
       RecoveryStages, Runs, Stages, StoreManifest, memoryVars, storeVars
<1>2. Serialized'
  BY DEF IInv, Serialized, Busy, Finish, IdleOp, StoreManifest, memoryVars,
       storeVars
<1>3. CallsKnow'
  BY DEF IInv, CallsKnow, Busy, Finish, IdleOp, RecoveryStages, Runs,
       StoreManifest, memoryVars, storeVars
<1>4. OffersKnow' /\ LineageKnows' /\ EndsOnce' /\ OneSuccessor' /\
      SinkAuthoritative' /\ HeldIsStored'
  BY OffersKnowFrame, LineageKnowsFrame, EndsOnceFrame, OneSuccessorFrame,
       SinkAuthoritativeFrame, HeldIsStoredFrame DEF IInv, StoreManifest,
       Finish, memoryVars, storeVars
<1> QED
  BY <1>1, <1>2, <1>3, <1>4 DEF IInv

(* The initial state satisfies the inductive invariant.                    *)
LEMMA InitEstablishes == Init => IInv
<1> SUFFICES ASSUME Init PROVE IInv
  OBVIOUS
<1>1. TypeOK
  BY DEF Init, TypeOK, OfferType, NoOffer, OpType, Stages, IdleOp
<1>2. Serialized /\ CallsKnow /\ OffersKnow /\ LineageKnows
  BY DEF Init, Serialized, CallsKnow, OffersKnow, LineageKnows, Busy, IdleOp
<1>3. EndsOnce /\ OneSuccessor /\ SinkAuthoritative /\ HeldIsStored
  BY DEF Init, EndsOnce, OneSuccessor, SinkAuthoritative, HeldIsStored
<1> QED
  BY <1>1, <1>2, <1>3 DEF IInv

(* Every step preserves the inductive invariant.                           *)
LEMMA StepKeeps ==
  ASSUME IInv, [Next]_vars
  PROVE  IInv'
<1>1. CASE UNCHANGED vars
  <2>1. TypeOK'
    BY <1>1 DEF IInv, TypeOK, vars
  <2> QED
    BY <1>1, <2>1, SerializedFrame, CallsKnowFrame, OffersKnowFrame,
       LineageKnowsFrame, EndsOnceFrame, OneSuccessorFrame,
       SinkAuthoritativeFrame, HeldIsStoredFrame DEF IInv, vars
<1>2. CASE Tick \/ Crash
  BY <1>2, TickKeeps, CrashKeeps
<1>3. CASE \E s \in Sessions : OpenSession(s) \/ CloseSession(s)
  BY <1>3, OpenSessionKeeps, CloseSessionKeeps
<1>4. CASE \E s \in Sessions, k \in JobRuns : OfferNew(s, k) \/ AcceptAgain(s, k)
  BY <1>4, OfferNewKeeps, AcceptAgainKeeps
<1>5. CASE \E c \in Slots, s \in Sessions, k \in JobRuns :
             OfferRecovery(c, s, k) \/ Accept(c, s, k)
  BY <1>5, OfferRecoveryKeeps, AcceptKeeps
<1>6. CASE \E c \in Slots, s \in Sessions, r \in Runs :
             PresentExpired(c, s, r) \/ Renew(c, s, r) \/ RegisterManifest(c, s, r)
  BY <1>6, PresentExpiredKeeps, RenewKeeps, RegisterManifestKeeps
<1>7. CASE \E c \in Slots, s \in Sessions, r \in Runs, x \in Completions :
             Complete(c, s, r, x) \/ CompleteStoredExpired(c, s, r, x)
  BY <1>7, CompleteKeeps, CompleteStoredExpiredKeeps
<1>8. CASE \E c \in Slots : \/ CreateRecoveryRun(c) \/ MarkRecovered(c)
                            \/ \E f \in FreshRuns : OfferFresh(c, f)
                            \/ GrantLease(c) \/ Granted(c)
  BY <1>8, CreateRecoveryRunKeeps, MarkRecoveredKeeps, OfferFreshKeeps,
     GrantLeaseKeeps, GrantedKeeps
<1>9. CASE \E c \in Slots : \/ ExpireLease(c) \/ RenewLease(c)
                            \/ StoredExpire(c) \/ CompleteLease(c)
                            \/ InvokeSink(c) \/ StoreManifest(c)
  BY <1>9, ExpireLeaseKeeps, RenewLeaseKeeps, StoredExpireKeeps,
     CompleteLeaseKeeps, InvokeSinkKeeps, StoreManifestKeeps
<1> QED
  BY <1>1, <1>2, <1>3, <1>4, <1>5, <1>6, <1>7, <1>8, <1>9 DEF Next

(* The inductive invariant holds in every reachable state.                 *)
LEMMA InvariantHolds == Spec => []IInv
<1>1. IInv /\ [Next]_vars => IInv'
  BY StepKeeps
<1> QED
  BY InitEstablishes, <1>1, PTL DEF Spec

(* What an offer and a row say of recovery, from what they are known to.   *)
LEMMA KnownIsLost == IInv => RecoveredOnlyIfLost
BY DEF IInv, OffersKnow, LineageKnows, RecoveredOnlyIfLost, NoOffer

(* Types, single ending, recovery only of lost runs and by one run only,   *)
(* the sink's results and the leases the Runners hold, for every instance  *)
(* and over any number of crashes.                                         *)
THEOREM OwnershipSafety ==
  Spec => [](/\ TypeOK /\ EndsOnce /\ RecoveredOnlyIfLost /\ OneSuccessor
             /\ SinkAuthoritative /\ HeldIsStored)
<1>1. IInv => /\ TypeOK /\ EndsOnce /\ RecoveredOnlyIfLost /\ OneSuccessor
              /\ SinkAuthoritative /\ HeldIsStored
  BY KnownIsLost DEF IInv
<1> QED
  BY InvariantHolds, <1>1, PTL

(* Whatever result the completion sink was called with is the one in the   *)
(* row of the run, whoever completed it twice or after a crash.            *)
THEOREM SinkGetsStored == Spec => []SinkAuthoritative
<1>1. IInv => SinkAuthoritative
  BY DEF IInv
<1> QED
  BY InvariantHolds, <1>1, PTL

(* The lease a Runner holds is the one in the table, over any recovery and *)
(* any crash between the writes of accept and its answer.                  *)
THEOREM LeaseHeldIsStored == Spec => []HeldIsStored
<1>1. IInv => HeldIsStored
  BY DEF IInv
<1> QED
  BY InvariantHolds, <1>1, PTL

-----------------------------------------------------------------------------
(* The steps that write a row: the store operations of RunnerControlStore. *)
WritesRow(c) == \/ MarkRecovered(c) \/ GrantLease(c) \/ ExpireLease(c)
                \/ RenewLease(c) \/ StoredExpire(c) \/ CompleteLease(c)

(* Every other step leaves all rows alone.                                 *)
LEMMA OtherStepsKeepRows ==
  ASSUME [Next]_vars, \A c \in Slots : ~WritesRow(c)
  PROVE  UNCHANGED storeVars
BY ZenonT(120) DEF Next, vars, storeVars, WritesRow, Tick, Crash, OpenSession,
       CloseSession, OfferNew, AcceptAgain, OfferRecovery, Accept,
       PresentExpired, Renew, RegisterManifest, Complete,
       CompleteStoredExpired, CreateRecoveryRun, OfferFresh, Granted,
       InvokeSink, StoreManifest

(* markLeaseLost, whoever calls it, loses a run that is owned or changes   *)
(* nothing.                                                                *)
LEMMA MarkingLoses ==
  ASSUME IInv, NEW r \in Runs, lost' = MarkLeaseLost(r),
         UNCHANGED <<owner, completed, recoveryOf, result>>
  PROVE  UNCHANGED Lifecycle!lifecycle \/ Lifecycle!Lose(r)
<1>1. CASE owner[r] # None /\ ~completed[r] /\ ~lost[r]
  <2>1. lost' = [lost EXCEPT ![r] = TRUE]
    BY <1>1 DEF MarkLeaseLost
  <2>2. Status[r] = "owned" /\ Status' = [Status EXCEPT ![r] = "lost"]
    BY <1>1, <2>1 DEF Status, IInv, TypeOK
  <2> QED
    BY <2>2 DEF Lifecycle!Lose
<1>2. CASE ~(owner[r] # None /\ ~completed[r] /\ ~lost[r])
  <2>1. lost' = lost
    BY <1>2 DEF MarkLeaseLost, IInv, TypeOK
  <2> QED
    BY <2>1 DEF Status, Lifecycle!lifecycle
<1> QED
  BY <1>1, <1>2

(* grantLease is the one grant of a run; a successor's parent is lost and  *)
(* has no successor yet.                                                   *)
LEMMA GrantingGrants ==
  ASSUME IInv, NEW c \in Slots, GrantLease(c)
  PROVE  UNCHANGED Lifecycle!lifecycle
           \/ \E r \in Runs, s \in Sessions, p \in Runs \cup {None} :
                Lifecycle!Grant(r, s, p)
<1> DEFINE o == offers[op[c].run]
<1>1. /\ op[c].run \in JobRuns /\ o.session \in Sessions /\ o # NoOffer
  BY NoneIsNoValue DEF IInv, CallsKnow, GrantLease, Busy, RecoveryStages, NoOffer
<1>2. /\ o.run \in Runs
      /\ o.recoveryOf \in Runs \cup {None}
      /\ o.recoveryOf # None =>
           lost[o.recoveryOf] /\ \A q \in Runs : recoveryOf[q] = o.recoveryOf => q = o.run
  BY <1>1 DEF IInv, OffersKnow, TypeOK, Runs
<1>3. CASE owner[o.run] = None
  <2>1. /\ owner' = [owner EXCEPT ![o.run] = o.session]
        /\ recoveryOf' = [recoveryOf EXCEPT ![o.run] = o.recoveryOf]
        /\ UNCHANGED <<lost, completed, result>>
    BY <1>3 DEF GrantLease
  <2>2. ~lost[o.run] /\ ~completed[o.run] /\ recoveryOf[o.run] = None
    BY <1>2, <1>3 DEF IInv, EndsOnce, LineageKnows
  <2>3. Status[o.run] = "free" /\ Status' = [Status EXCEPT ![o.run] = "owned"]
    BY <1>1, <1>2, <1>3, <2>1, <2>2, NoneIsNoValue DEF Status, IInv, TypeOK
  <2>4. o.recoveryOf # None =>
          Status[o.recoveryOf] = "lost" /\ \A q \in Runs : recoveryOf[q] # o.recoveryOf
    BY <1>2, <2>2 DEF Status, IInv, EndsOnce
  <2>5. Lifecycle!Grant(o.run, o.session, o.recoveryOf)
    BY <2>1, <2>3, <2>4 DEF Lifecycle!Grant
  <2> QED
    BY <1>1, <1>2, <2>5
<1>4. CASE owner[o.run] # None
  BY <1>4 DEF GrantLease, Status, Lifecycle!lifecycle
<1> QED
  BY <1>3, <1>4

(* completeLease is the one completion of a run.                           *)
LEMMA CompletingCompletes ==
  ASSUME IInv, NEW c \in Slots, CompleteLease(c)
  PROVE  UNCHANGED Lifecycle!lifecycle
           \/ \E r \in Runs, x \in Completions : Lifecycle!Complete(r, x)
<1> DEFINE r == op[c].run
           x == op[c].completion
<1>1. r \in Runs /\ x \in Completions /\ owner[r] # None
  BY DEF IInv, TypeOK, CallsKnow, CompleteLease, Busy, OpType
<1>2. CASE Wins(c)
  <2>1. /\ completed' = [completed EXCEPT ![r] = TRUE]
        /\ result' = [result EXCEPT ![r] = x]
        /\ UNCHANGED <<owner, lost, recoveryOf>>
    BY <1>2 DEF CompleteLease, CompletedRows
  <2>2. ~lost[r] /\ ~completed[r]
    BY <1>2 DEF Wins
  <2>3. Status[r] = "owned" /\ Status' = [Status EXCEPT ![r] = "completed"]
    BY <1>1, <2>1, <2>2 DEF Status, IInv, TypeOK
  <2>4. Lifecycle!Complete(r, x)
    BY <2>1, <2>3 DEF Lifecycle!Complete
  <2> QED
    BY <1>1, <2>4
<1>3. CASE ~Wins(c)
  <2>1. UNCHANGED <<owner, lost, recoveryOf, completed, result>>
    BY <1>1, <1>3 DEF CompleteLease, CompletedRows, IInv, TypeOK
  <2> QED
    BY <2>1 DEF Status, Lifecycle!lifecycle
<1> QED
  BY <1>2, <1>3

(* Every step of Core is a step of the promised life of a run, or none.    *)
LEMMA StepRefines ==
  ASSUME IInv, [Next]_vars
  PROVE  [Lifecycle!Next]_(Lifecycle!lifecycle)
<1>1. CASE \A c \in Slots : ~WritesRow(c)
  BY <1>1, OtherStepsKeepRows DEF storeVars, Status, Lifecycle!lifecycle
<1>2. ASSUME NEW c \in Slots, WritesRow(c)
      PROVE  [Lifecycle!Next]_(Lifecycle!lifecycle)
  <2>1. op[c].stage # "grant" => op[c].run \in Runs \/ ~Busy(c)
    BY DEF IInv, CallsKnow
  <2>2. CASE MarkRecovered(c) \/ ExpireLease(c) \/ StoredExpire(c)
    <3>1. /\ op[c].run \in Runs
          /\ lost' = MarkLeaseLost(op[c].run)
          /\ UNCHANGED <<owner, completed, recoveryOf, result>>
      BY <2>1, <2>2 DEF MarkRecovered, ExpireLease, StoredExpire, Busy
    <3> QED
      BY <3>1, MarkingLoses DEF Lifecycle!Next
  <2>3. CASE RenewLease(c)
    BY <2>3 DEF RenewLease, Status, Lifecycle!lifecycle
  <2>4. CASE GrantLease(c)
    BY <2>4, GrantingGrants DEF Lifecycle!Next
  <2>5. CASE CompleteLease(c)
    BY <2>5, CompletingCompletes DEF Lifecycle!Next
  <2> QED
    BY <1>2, <2>2, <2>3, <2>4, <2>5 DEF WritesRow
<1> QED
  BY <1>1, <1>2

(* RunLease implements RunLifecycle: a run is granted once, ends once, and *)
(* has one successor at most, which runs only after it is lost.            *)
THEOREM Refinement == Spec => ImplementsLifecycle
<1>1. Init => Lifecycle!Init
  BY DEF Init, Lifecycle!Init, Status
<1>2. IInv /\ [Next]_vars => [Lifecycle!Next]_(Lifecycle!lifecycle)
  BY StepRefines
<1> QED
  BY InvariantHolds, <1>1, <1>2, PTL DEF Spec, Lifecycle!Spec, ImplementsLifecycle

(* No step touches the row of a run that has ended.                        *)
THEOREM EndedRowsStayFrozen == Spec => EndedRowsFrozen
<1> DEFINE Frozen == \A r \in Runs : lost[r] \/ completed[r] =>
                       /\ owner'[r] = owner[r]
                       /\ expiresAt'[r] = expiresAt[r]
                       /\ lost'[r] = lost[r]
                       /\ completed'[r] = completed[r]
                       /\ recoveryOf'[r] = recoveryOf[r]
                       /\ result'[r] = result[r]
<1>1. ASSUME IInv, [Next]_vars PROVE Frozen
  <2>1. CASE \A c \in Slots : ~WritesRow(c)
    BY <1>1, <2>1, OtherStepsKeepRows DEF storeVars
  <2>2. ASSUME NEW c \in Slots, MarkRecovered(c) \/ ExpireLease(c) \/ StoredExpire(c)
        PROVE  Frozen
    BY <1>1, <2>2
       DEF MarkRecovered, ExpireLease, StoredExpire, MarkLeaseLost, IInv, TypeOK,
           EndsOnce
  <2>3. ASSUME NEW c \in Slots, RenewLease(c) PROVE Frozen
    BY <1>1, <2>3 DEF RenewLease, IInv, TypeOK, EndsOnce
  <2>4. ASSUME NEW c \in Slots, GrantLease(c) PROVE Frozen
    BY <1>1, <2>4 DEF GrantLease, IInv, TypeOK, EndsOnce
  <2>5. ASSUME NEW c \in Slots, CompleteLease(c) PROVE Frozen
    BY <1>1, <2>5 DEF CompleteLease, CompletedRows, Wins, IInv, TypeOK, EndsOnce
  <2> QED
    BY <2>1, <2>2, <2>3, <2>4, <2>5 DEF WritesRow
<1> QED
  BY InvariantHolds, <1>1, PTL DEF Spec, EndedRowsFrozen

(* A manifest is written only while its run is owned.                      *)
THEOREM EvidenceNeedsOwnership == Spec => EvidenceOnlyWhileOwned
<1> DEFINE Admitted == \A r \in evidence' \ evidence : ~lost[r] /\ ~completed[r]
<1>1. ASSUME IInv, [Next]_vars PROVE Admitted
  <2>1. CASE \E c \in Slots : StoreManifest(c)
    BY <1>1, <2>1 DEF StoreManifest, IInv, CallsKnow, Busy
  <2>2. CASE ~ \E c \in Slots : StoreManifest(c)
    <3>1. UNCHANGED evidence
      BY <1>1, <2>2, ZenonT(120)
         DEF Next, vars, effectVars, Tick, Crash, OpenSession, CloseSession,
             OfferNew, AcceptAgain, OfferRecovery, Accept, PresentExpired, Renew,
             RegisterManifest, Complete, CompleteStoredExpired,
             CreateRecoveryRun, MarkRecovered, OfferFresh, GrantLease, Granted,
             ExpireLease, RenewLease, StoredExpire, CompleteLease, InvokeSink
    <3> QED
      BY <3>1
  <2> QED
    BY <2>1, <2>2
<1> QED
  BY InvariantHolds, <1>1, PTL DEF Spec, EvidenceOnlyWhileOwned
-----------------------------------------------------------------------------
(* The other end of a lease, the Runner's window on it (LeaseWindow): from *)
(* a reply to accept within a renewal interval, or else from the first     *)
(* renewal that is answered, the Runner has no permission to act after the *)
(* expiry that Core stored, and its renewals reach Core in time.           *)

(* When Core last computed the expiry of the lease.                        *)
Anchor == coreExpiry - LeaseDurationMs

(* The timers of the renewal loop, measured from the last time Core        *)
(* computed the expiry: the wait is over one interval after the reply, the *)
(* renewal is given up after two, and its reply takes one at most.         *)
TimersAnchored ==
  /\ delay >= 0
  /\ phase # "offered" => Anchor <= time
  /\ loop = "wait" => time <= timer /\ timer <= Anchor + delay + Interval
  /\ loop = "inflight" =>
       /\ time <= timer
       /\ timer - Interval <= time
       /\ timer <= Anchor + delay + 2 * Interval
       /\ net = "renewed" => timer <= Anchor + Interval

(* A renewal is under way only while the loop waits for its reply, and a   *)
(* loop that has ended leaves no permission behind.                        *)
LoopKnows ==
  /\ phase # "leased" => loop = "off" /\ net = "none"
  /\ phase = "leased" => loop # "off"
  /\ loop = "wait" => net = "none"
  /\ loop = "ended" => closed \/ cancelled \/ stopped

WindowInv == WindowTypeOK /\ TimersAnchored /\ LoopKnows

(* The interval of LeaseRenewalController.run: three fit in the lease.     *)
LEMMA IntervalFits ==
  Interval \in Nat /\ Interval >= 1 /\ 3 * Interval <= LeaseDurationMs
BY LeaseLongEnough DEF Interval

(* The initial state satisfies the inductive invariant.                    *)
LEMMA WindowInitInv == WindowInit => WindowInv
<1> SUFFICES ASSUME WindowInit PROVE WindowInv
  OBVIOUS
<1>1. WindowTypeOK
  <2>1. /\ coreLost \in BOOLEAN /\ closed \in BOOLEAN /\ cancelled \in BOOLEAN
        /\ aborted \in BOOLEAN /\ stopped \in BOOLEAN
    BY Zenon DEF WindowInit
  <2>2. /\ time \in Nat /\ skew \in Int /\ coreExpiry \in Nat
        /\ deadline \in Int /\ expiry \in Int /\ baseline \in Int /\ timer \in Nat /\ delay \in Int
    BY SMT DEF WindowInit
  <2> QED
    BY <2>1, <2>2 DEF WindowInit, WindowTypeOK
<1>2. TimersAnchored
  BY DEF WindowInit, TimersAnchored
<1>3. LoopKnows
  BY DEF WindowInit, LoopKnows
<1> QED
  BY <1>1, <1>2, <1>3 DEF WindowInv

(* Every step preserves it.                                                *)
LEMMA WindowStep ==
  ASSUME WindowInv, [WindowNext]_allVars
  PROVE  WindowInv'
<1> USE IntervalFits, LeaseLongEnough, BoundsAreNat
        DEF WindowInv, WindowTypeOK, TimersAnchored, LoopKnows, Anchor,
            coreVars, windowVars, loopVars, flags
<1>1. CASE TimePasses        BY <1>1 DEF TimePasses
<1>2. CASE SetWallClock      BY <1>2 DEF SetWallClock
<1>3. CASE CoreGrant         BY <1>3 DEF CoreGrant
<1>4. CASE CoreExpire        BY <1>4 DEF CoreExpire
<1>5. CASE CoreRenew         BY <1>5 DEF CoreRenew
<1>6. CASE ReceiveLease
  BY <1>6 DEF ReceiveLease, OpenWindow, ArmTimer, Wall
<1>7. CASE SendRenew
  <2>1. CASE HasExpired   BY <1>7, <2>1 DEF SendRenew, FailLoop
  <2>2. CASE ~HasExpired  BY <1>7, <2>2 DEF SendRenew, ArmTimer
  <2> QED                 BY <2>1, <2>2
<1>8. CASE ReceiveRenewed
  BY <1>8 DEF ReceiveRenewed, OpenWindow, ArmTimer, Wall
<1>9. CASE RenewFails        BY <1>9 DEF RenewFails, FailLoop
<1>10. CASE RenewTimeout      BY <1>10 DEF RenewTimeout, FailLoop
<1>11. CASE RefuseAction      BY <1>11 DEF RefuseAction
<1>12. CASE RefuseOperation   BY <1>12 DEF RefuseOperation
<1>13. CASE Cancel            BY <1>13 DEF Cancel, EndWait
<1>14. CASE Stop              BY <1>14 DEF Stop, EndWait
<1>15. CASE UNCHANGED allVars BY <1>15 DEF allVars
<1> QED
  BY <1>1, <1>2, <1>3, <1>4, <1>5, <1>6, <1>7, <1>8, <1>9, <1>10, <1>11,
     <1>12, <1>13, <1>14, <1>15 DEF WindowNext

(* The anchored timers bound the permission and the renewal.               *)
LEMMA WindowImplies ==
  ASSUME WindowInv
  PROVE  WindowTypeOK /\ NeverPastCoreExpiry /\ RenewalInTime
BY IntervalFits, LeaseLongEnough
   DEF WindowInv, WindowTypeOK, TimersAnchored, LoopKnows, Anchor,
       NeverPastCoreExpiry, RenewalInTime, MayStartAction, WindowOpen

(* The permission of a run that executes ends with Core's lease, and its   *)
(* renewals reach a lease that has not run out, for every duration of at   *)
(* least 3 and any delay of any reply: the one exception, in both          *)
(* properties, is the time from a late answer to accept to the answer to   *)
(* the first renewal.                                                      *)
THEOREM WindowInsideCoreLease ==
  WindowSpec => [](WindowTypeOK /\ NeverPastCoreExpiry /\ RenewalInTime)
<1>1. WindowInit => WindowInv
  BY WindowInitInv
<1>2. WindowInv /\ [WindowNext]_allVars => WindowInv'
  BY WindowStep
<1>3. WindowInv => WindowTypeOK /\ NeverPastCoreExpiry /\ RenewalInTime
  BY WindowImplies
<1> QED
  BY <1>1, <1>2, <1>3, PTL DEF WindowSpec
=============================================================================

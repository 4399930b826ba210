------------------------- MODULE SessionResumeProofs -------------------------
(***************************************************************************)
(* SessionResume, for every set of streams and any number of rotations: no *)
(* superseded connection goes on serving, nothing is registered after a    *)
(* shutdown, and the token in the Runner's spool is accepted until it      *)
(* expires.                                                                *)
(***************************************************************************)
EXTENDS SessionResume, SequenceTheorems, TLAPS

(* The stream is between its entry in establishingConnectionKeys and the   *)
(* finally that removes it.                                                *)
InHandshake(c) == call[c].pc \in {"resolving", "opening", "opened", "closing"}

(* One handshake at a time, and while it lasts the connection it saw first *)
(* can be released but not replaced.                                       *)
Handshakes ==
    \A c \in Calls : InHandshake(c) =>
        /\ establishing
        /\ conn \in {None, call[c].existing}
        /\ \A d \in Calls : InHandshake(d) => c = d

(* What the tasks on the promise chain are for: openSession, closeSession  *)
(* of an abandoned handshake, closeSession of a disposed connection, or    *)
(* the completion of a run.                                                *)
ChainKnows ==
    /\ \A i \in 1..Len(chain) :
         /\ chain[i].op = "open" =>
              chain[i].call \in Calls /\ call[chain[i].call].pc = "opening"
         /\ chain[i].op = "close" /\ chain[i].call # None => call[chain[i].call].pc = "closing"
         /\ chain[i].op = "complete" => chain[i].call = None
    /\ \A i, j \in 1..Len(chain) : chain[i].call # None /\ chain[j].call # None => i = j

(* A token is consumed with its replacement stored, or because it had      *)
(* expired; whatever was handed out is in the table.                       *)
TokensKnow ==
    /\ \A t \in Tokens : tokens[t] = "consumed" =>
         /\ t[2] < MaxRotation
         /\ t \notin expired => tokens[Replacement(t)] # "absent"
    /\ \A c \in Calls : call[c].token # None => call[c].token[2] < MaxRotation
    /\ \A c \in Calls : call[c].next # None => tokens[call[c].next] # "absent"
    /\ runner.pc = "connecting" => runner.call \in Calls
    /\ runner.token # None => tokens[runner.token] # "absent"
    /\ spool # None => tokens[spool] # "absent"

IInv == /\ TypeOK
        /\ Handshakes
        /\ ChainKnows
        /\ TokensKnow
        /\ OneServing
        /\ NothingAfterShutdown
-----------------------------------------------------------------------------
(* The replacement of a token that may still be rotated is a token.        *)
LEMMA ReplacementIsToken ==
  ASSUME NEW t \in Tokens, t[2] < MaxRotation
  PROVE  Replacement(t) \in Tokens /\ Replacement(t) # t
BY CallsAssumption DEF Tokens, Replacement

(* A conjunct of the invariant holds after a step that leaves alone what   *)
(* it speaks of; here, the handshakes, the chain and the connection.       *)
LEMMA ServerFrame ==
  ASSUME IInv, UNCHANGED server
  PROVE  Handshakes' /\ ChainKnows' /\ OneServing' /\ NothingAfterShutdown'
BY DEF IInv, Handshakes, InHandshake, ChainKnows, OneServing, NothingAfterShutdown, server

(* A task leaves the chain when it is done.                                *)
LEMMA TailOfChain ==
  ASSUME TypeOK, chain # <<>>
  PROVE  /\ Head(chain) = chain[1] /\ 1 \in 1..Len(chain) /\ Head(chain) \in TaskType
         /\ Tail(chain) \in Seq(TaskType)
         /\ Len(Tail(chain)) = Len(chain) - 1
         /\ \A i \in 1..Len(Tail(chain)) : i + 1 \in 1..Len(chain) /\ Tail(chain)[i] = chain[i + 1]
<1>1. chain \in Seq(TaskType)
  BY DEF TypeOK, TaskType
<1> QED
  BY <1>1, HeadTailProperties, LenProperties, EmptySeq

(* A task that no handshake waits for is queued, or none is.               *)
LEMMA FreeTaskOnChain ==
  ASSUME TypeOK, ChainKnows, NEW task \in TaskType, task.call = None, task.op # "open",
         chain' = chain \/ chain' = chain \o <<task>>,
         \A c \in Calls : call[c].pc \in {"opening", "closing"} => call'[c].pc = call[c].pc
  PROVE  chain' \in Seq(TaskType) /\ ChainKnows'
<1>1. chain \in Seq(TaskType)
  BY DEF TypeOK
<1>t. \A i \in 1..Len(chain) : chain[i] \in TaskType
  BY <1>1, ElementOfSeq
<1>k. \A i \in 1..Len(chain) :
        /\ chain[i].op = "open" => chain[i].call \in Calls /\ call'[chain[i].call].pc = "opening"
        /\ chain[i].op = "close" /\ chain[i].call # None => call'[chain[i].call].pc = "closing"
        /\ chain[i].op = "complete" => chain[i].call = None
  BY <1>t DEF ChainKnows, TaskType
<1>2. CASE chain' = chain
  BY <1>1, <1>2, <1>k DEF ChainKnows
<1>3. CASE chain' = chain \o <<task>>
  <2>1. /\ chain' \in Seq(TaskType) /\ Len(chain') = Len(chain) + 1 /\ Len(chain) \in Nat
        /\ \A i \in 1..Len(chain) : chain'[i] = chain[i]
        /\ chain'[Len(chain) + 1] = task
    BY <1>1, <1>3, AppendProperties, AppendIsConcat, LenProperties
  <2> QED
    BY <1>k, <2>1, SMTT(60) DEF ChainKnows
<1> QED
  BY <1>2, <1>3

(* closeSession of a disposed connection is queued, or nothing is.         *)
LEMMA DisposeOnChain ==
  ASSUME TypeOK, ChainKnows, NEW s \in Calls \cup {None},
         chain' = chain \/ chain' = chain \o <<Close(s)>>,
         \A c \in Calls : call[c].pc \in {"opening", "closing"} => call'[c].pc = call[c].pc
  PROVE  chain' \in Seq(TaskType) /\ ChainKnows'
<1>1. Close(s) \in TaskType /\ Close(s).call = None /\ Close(s).op # "open"
  BY DEF TaskType, Close
<1> QED
  BY <1>1, FreeTaskOnChain

(* A stream is opened with the token t.                                    *)
LEMMA ConnectKeeps ==
  ASSUME IInv, NEW c \in Calls, NEW t \in Tokens \cup {None}, t # None => tokens[t] # "absent",
         Connect(c, t)
  PROVE  IInv'
<1>1. TypeOK'
  BY DEF IInv, TypeOK, StreamType, RunnerType, Connect, NoCall, store
<1>2. Handshakes' /\ OneServing' /\ NothingAfterShutdown'
  BY DEF IInv, TypeOK, Handshakes, InHandshake, OneServing, NothingAfterShutdown, Connect, NoCall
<1>3. ChainKnows'
  BY DisposeOnChain DEF IInv, TypeOK, Connect, NoCall
<1>4. TokensKnow'
  BY DEF IInv, TypeOK, TokensKnow, Connect, NoCall, store
<1> QED
  BY <1>1, <1>2, <1>3, <1>4 DEF IInv

(* Both ways to connect present a token that was handed out.               *)
LEMMA ConnectingKeeps ==
  ASSUME IInv, NEW c \in Calls, RunnerStart(c) \/ Reconnect(c)
  PROVE  IInv'
BY ConnectKeeps DEF IInv, TypeOK, RunnerType, TokensKnow, RunnerStart, Reconnect

(* The Runner gets its Welcome, with a token that is in the table.         *)
LEMMA ReceiveWelcomeKeeps ==
  ASSUME IInv, ReceiveWelcome
  PROVE  IInv'
<1> DEFINE new == call[runner.call].next
<1>1. /\ new \in Tokens \cup {None} /\ (new # None => tokens[new] # "absent")
      /\ runner' = [runner EXCEPT !.pc = "welcomed", !.token = new]
      /\ UNCHANGED <<server, store, spool>>
  BY DEF IInv, TypeOK, StreamType, TokensKnow, ReceiveWelcome
<1>2. runner' \in RunnerType /\ runner'.pc = "welcomed" /\ runner'.token = new
  BY <1>1 DEF IInv, TypeOK, RunnerType
<1>3. TypeOK' /\ TokensKnow'
  BY <1>1, <1>2 DEF IInv, TypeOK, TokensKnow, server, store
<1> QED
  BY <1>1, <1>3, ServerFrame DEF IInv

(* The Runner saves the token of its Welcome.                              *)
LEMMA SaveResumeTokenKeeps ==
  ASSUME IInv, SaveResumeToken
  PROVE  IInv'
<1>1. runner' \in RunnerType /\ runner'.pc = "up" /\ runner'.token = runner.token
  BY DEF IInv, TypeOK, RunnerType, SaveResumeToken
<1>2. spool' \in Tokens \cup {None} /\ spool' = runner.token
  BY DEF IInv, TypeOK, RunnerType, SaveResumeToken
<1>3. TypeOK' /\ TokensKnow'
  BY <1>1, <1>2 DEF IInv, TypeOK, TokensKnow, SaveResumeToken, server, store
<1> QED
  BY <1>3, ServerFrame DEF IInv, SaveResumeToken

(* The Runner ends.                                                        *)
LEMMA RunnerExitKeeps ==
  ASSUME IInv, RunnerExit
  PROVE  IInv'
<1>1. TypeOK' /\ TokensKnow'
  BY DEF IInv, TypeOK, RunnerType, TokensKnow, RunnerExit, Down, server, store
<1> QED
  BY <1>1, ServerFrame DEF IInv, RunnerExit

(* The tokens remain known when the table only grows and a stream gets no  *)
(* token that is not in it.                                                *)
LEMMA TableGrows ==
  ASSUME IInv,
         UNCHANGED <<expired, runner, spool>>,
         \A u \in Tokens : tokens[u] # "absent" => tokens'[u] # "absent",
         \A u \in Tokens : tokens'[u] = "consumed" =>
           /\ u[2] < MaxRotation
           /\ u \notin expired => tokens'[Replacement(u)] # "absent",
         \A d \in Calls : call'[d].token = call[d].token,
         \A d \in Calls : call'[d].next # call[d].next => tokens'[call'[d].next] # "absent"
  PROVE  TokensKnow'
<1>1. /\ \A d \in Calls : call[d].next \in Tokens \cup {None}
      /\ runner.token \in Tokens \cup {None} /\ spool \in Tokens \cup {None}
  BY DEF IInv, TypeOK, StreamType, RunnerType
<1> QED
  BY <1>1 DEF IInv, TokensKnow

(* A stream in its handshake, or before it, moves on to pc and the chain   *)
(* stays as it is.                                                         *)
LEMMA StreamSteps ==
  ASSUME IInv, NEW c \in Calls, NEW new \in StreamType,
         call[c].pc \in {"hello", "resolving"}, new.pc \in {"resolving", "failed"},
         new.next = call[c].next, new.token = call[c].token,
         call' = [call EXCEPT ![c] = new],
         new.pc = "resolving" =>
           (\A d \in Calls : ~InHandshake(d)) /\ establishing' = TRUE /\ new.existing = conn,
         new.pc = "failed" =>
           establishing' = establishing \/ (InHandshake(c) /\ establishing' = FALSE),
         UNCHANGED <<conn, holder, shut, chain, live, store, runner, spool>>
  PROVE  IInv'
<1>1. call' \in [Calls -> StreamType] /\ call'[c] = new /\ \A d \in Calls : d # c => call'[d] = call[d]
  BY DEF IInv, TypeOK
<1>2. TypeOK'
  BY <1>1 DEF IInv, TypeOK, store, Handshakes, InHandshake
<1>3. OneServing' /\ NothingAfterShutdown'
  BY <1>1 DEF IInv, OneServing, NothingAfterShutdown
<1>4. Handshakes'
  <2>1. CASE new.pc = "resolving"
    BY <1>1, <2>1 DEF Handshakes, InHandshake
  <2>2. CASE new.pc = "failed"
    BY <1>1, <2>2 DEF IInv, Handshakes, InHandshake
  <2> QED
    BY <2>1, <2>2
<1>5. ChainKnows'
  BY <1>1, DisposeOnChain DEF IInv, TypeOK
<1>6. TokensKnow'
  BY <1>1, TableGrows DEF IInv, TokensKnow, store
<1> QED
  BY <1>2, <1>3, <1>4, <1>5, <1>6 DEF IInv

(* A handshake is refused, or it begins.                                   *)
LEMMA BeginHandshakeKeeps ==
  ASSUME IInv, NEW c \in Calls, BeginHandshake(c)
  PROVE  IInv'
<1>0. call[c] \in StreamType /\ conn \in Calls \cup {None} /\ call[c].pc = "hello"
      /\ UNCHANGED <<conn, holder, shut, chain, live, store, runner, spool>>
  BY DEF IInv, TypeOK, BeginHandshake
<1>1. CASE call' = [call EXCEPT ![c].pc = "failed"] /\ UNCHANGED establishing
  <2> DEFINE new == [call[c] EXCEPT !.pc = "failed"]
  <2>1. /\ new \in StreamType /\ new.pc = "failed" /\ new.next = call[c].next
        /\ new.token = call[c].token /\ call' = [call EXCEPT ![c] = new]
    BY <1>0, <1>1 DEF StreamType, IInv, TypeOK
  <2> QED
    BY <1>0, <1>1, <2>1, StreamSteps
<1>2. CASE /\ ~establishing /\ establishing' = TRUE
           /\ call' = [call EXCEPT ![c].pc = "resolving", ![c].existing = conn]
  <2> DEFINE new == [call[c] EXCEPT !.pc = "resolving", !.existing = conn]
  <2>1. /\ new \in StreamType /\ new.pc = "resolving" /\ new.next = call[c].next
        /\ new.token = call[c].token /\ new.existing = conn
    BY <1>0 DEF StreamType
  <2>2. call' = [call EXCEPT ![c] = new]
    BY <1>0, <1>2 DEF IInv, TypeOK, StreamType
  <2>3. \A d \in Calls : ~InHandshake(d)
    BY <1>2 DEF IInv, Handshakes
  <2> QED
    BY <1>0, <1>2, <2>1, <2>2, <2>3, StreamSteps
<1> QED
  BY <1>1, <1>2 DEF BeginHandshake

(* The identity has no application.                                        *)
LEMMA ResolveFailsKeeps ==
  ASSUME IInv, NEW c \in Calls, ResolveFails(c)
  PROVE  IInv'
<1> DEFINE new == [call[c] EXCEPT !.pc = "failed"]
<1>0. call[c] \in StreamType /\ call \in [Calls -> StreamType]
  BY DEF IInv, TypeOK
<1>1. /\ new \in StreamType /\ new.pc = "failed" /\ new.next = call[c].next
      /\ new.token = call[c].token /\ call' = [call EXCEPT ![c] = new]
  BY <1>0 DEF StreamType, ResolveFails
<1> QED
  BY <1>1, StreamSteps DEF ResolveFails, InHandshake

(* openSession is queued for the one stream in its handshake.              *)
LEMMA ResolveApplicationKeeps ==
  ASSUME IInv, NEW c \in Calls, ResolveApplication(c)
  PROVE  IInv'
<1> DEFINE new == [call[c] EXCEPT !.pc = "opening"]
<1>0. /\ call[c] \in StreamType /\ call \in [Calls -> StreamType] /\ call[c].pc = "resolving"
      /\ call' = [call EXCEPT ![c].pc = "opening"] /\ chain' = Append(chain, Open(c))
      /\ UNCHANGED <<conn, holder, establishing, shut, live, store, runner, spool>>
  BY DEF IInv, TypeOK, ResolveApplication
<1>1. /\ new \in StreamType /\ new.pc = "opening" /\ new.next = call[c].next
      /\ new.token = call[c].token /\ new.existing = call[c].existing
      /\ call' = [call EXCEPT ![c] = new]
  BY <1>0 DEF StreamType
<1> HIDE DEF new
<1>2. call' \in [Calls -> StreamType] /\ call'[c] = new /\ \A d \in Calls : d # c => call'[d] = call[d]
  BY <1>0, <1>1
<1>3. chain \in Seq(TaskType) /\ Open(c) \in TaskType
  BY DEF IInv, TypeOK, TaskType, Open
<1>4. /\ chain' \in Seq(TaskType) /\ Len(chain') = Len(chain) + 1 /\ Len(chain) \in Nat
      /\ \A i \in 1..Len(chain) : chain'[i] = chain[i]
      /\ chain'[Len(chain) + 1] = Open(c)
  BY <1>0, <1>3, AppendProperties, LenProperties
<1>5. \A d \in Calls : InHandshake(d) => d = c
  BY <1>0 DEF IInv, Handshakes, InHandshake
<1>6. \A i \in 1..Len(chain) : chain[i] \in TaskType /\ chain[i].call = None /\ chain[i].op # "open"
  <2>1. \A i \in 1..Len(chain) : chain[i] \in TaskType
    BY <1>3, ElementOfSeq
  <2> QED
    BY <1>0, <1>5, <2>1, CallsAssumption DEF IInv, ChainKnows, InHandshake, TaskType
<1>7. TypeOK'
  BY <1>0, <1>2, <1>4 DEF IInv, TypeOK, store
<1>8. Handshakes' /\ OneServing' /\ NothingAfterShutdown'
  BY <1>0, <1>1, <1>2 DEF IInv, Handshakes, InHandshake, OneServing, NothingAfterShutdown
<1>9. ChainKnows'
  BY <1>1, <1>2, <1>4, <1>6, SMTT(60) DEF ChainKnows, Open
<1>10. TokensKnow'
  BY <1>0, <1>1, <1>2, TableGrows DEF IInv, TokensKnow, store
<1> QED
  BY <1>7, <1>8, <1>9, <1>10 DEF IInv

(* A completion is queued.                                                 *)
LEMMA HandleCompleteKeeps ==
  ASSUME IInv, NEW c \in Calls, HandleComplete(c)
  PROVE  IInv'
<1>1. /\ chain' = Append(chain, Complete(c)) /\ chain \in Seq(TaskType)
      /\ UNCHANGED <<call, conn, holder, establishing, shut, live, store, runner, spool>>
  BY DEF IInv, TypeOK, HandleComplete
<1>2. Complete(c) \in TaskType /\ Complete(c).call = None /\ Complete(c).op # "open"
  BY DEF TaskType, Complete
<1>3. chain' = chain \o <<Complete(c)>>
  BY <1>1, <1>2, AppendIsConcat
<1>4. chain' \in Seq(TaskType) /\ ChainKnows'
  BY <1>1, <1>2, <1>3, FreeTaskOnChain DEF IInv
<1>5. TypeOK' /\ TokensKnow'
  BY <1>1, <1>4 DEF IInv, TypeOK, TokensKnow, store
<1>6. Handshakes' /\ OneServing' /\ NothingAfterShutdown'
  BY <1>1 DEF IInv, Handshakes, InHandshake, OneServing, NothingAfterShutdown
<1> QED
  BY <1>4, <1>5, <1>6 DEF IInv

(* What is in the table stays in the table.                                *)
LEMMA RotatedKeeps ==
  ASSUME IInv, NEW t \in Tokens, t[2] < MaxRotation
  PROVE  /\ Rotated(t) \in [Tokens -> {"absent", "fresh", "consumed"}]
         /\ \A u \in Tokens : tokens[u] # "absent" => Rotated(t)[u] # "absent"
         /\ \A u \in Tokens : Rotated(t)[u] = "consumed" =>
              /\ u[2] < MaxRotation
              /\ u \notin expired => Rotated(t)[Replacement(u)] # "absent"
         /\ Rotates(t) \/ Replays(t) => Rotated(t)[Replacement(t)] # "absent"
<1>1. tokens \in [Tokens -> {"absent", "fresh", "consumed"}] /\ Replacement(t) \in Tokens
      /\ Replacement(t) # t
  BY ReplacementIsToken DEF IInv, TypeOK
<1>2. \A u \in Tokens : tokens[u] = "consumed" =>
        /\ u[2] < MaxRotation /\ Replacement(u) \in Tokens
        /\ u \notin expired => tokens[Replacement(u)] # "absent"
  BY ReplacementIsToken DEF IInv, TokensKnow
<1>3. CASE Rotates(t)
  <2>1. Rotated(t) = [tokens EXCEPT ![t] = "consumed", ![Replacement(t)] = "fresh"]
    BY <1>3 DEF Rotated, Rotates
  <2> QED
    BY <1>1, <1>2, <2>1
<1>4. CASE ~Rotates(t) /\ tokens[t] # "absent" /\ t \in expired
  <2>1. Rotated(t) = [tokens EXCEPT ![t] = "consumed"]
    BY <1>4 DEF Rotated
  <2> QED
    BY <1>1, <1>2, <1>4, <2>1 DEF Replays
<1>5. CASE ~Rotates(t) /\ ~(tokens[t] # "absent" /\ t \in expired)
  <2>1. Rotated(t) = tokens
    BY <1>5 DEF Rotated
  <2> QED
    BY <1>1, <1>2, <1>5, <2>1 DEF Replays
<1> QED
  BY <1>3, <1>4, <1>5

(* What is in the table of tokens after a token was issued or redeemed.    *)
LEMMA RedeemLeaves ==
  ASSUME IInv, NEW c \in Calls, NEW t \in Tokens \cup {None},
         t # None => t[2] < MaxRotation, Redeem(c, t)
  PROVE  /\ tokens' \in [Tokens -> {"absent", "fresh", "consumed"}]
         /\ \A u \in Tokens : tokens[u] # "absent" => tokens'[u] # "absent"
         /\ \A u \in Tokens : tokens'[u] = "consumed" =>
              /\ u[2] < MaxRotation
              /\ u \notin expired => tokens'[Replacement(u)] # "absent"
         /\ \/ /\ \E s \in Calls, n \in Tokens :
                     /\ tokens'[n] # "absent"
                     /\ call' = [call EXCEPT ![c].session = s, ![c].next = n]
               /\ UNCHANGED <<establishing, chain>>
            \/ /\ call' = [call EXCEPT ![c].pc = "failed"]
               /\ establishing' = FALSE /\ chain' = Tail(chain)
<1>1. CASE t = None
  <2>1. <<c, 0>> \in Tokens /\ tokens' = [tokens EXCEPT ![<<c, 0>>] = "fresh"]
    BY <1>1, CallsAssumption DEF Redeem, Tokens
  <2>2. \A u \in Tokens : tokens[u] = "consumed" =>
          u[2] < MaxRotation /\ Replacement(u) \in Tokens
    BY ReplacementIsToken DEF IInv, TokensKnow
  <2>3. /\ tokens'[<<c, 0>>] # "absent"
        /\ call' = [call EXCEPT ![c].session = c, ![c].next = <<c, 0>>]
        /\ UNCHANGED <<establishing, chain>>
    BY <1>1, <2>1 DEF Redeem, IInv, TypeOK
  <2>4. /\ tokens' \in [Tokens -> {"absent", "fresh", "consumed"}]
        /\ \A u \in Tokens : tokens[u] # "absent" => tokens'[u] # "absent"
        /\ \A u \in Tokens : tokens'[u] = "consumed" => tokens[u] = "consumed"
    BY <2>1 DEF IInv, TypeOK
  <2> QED
    BY <2>1, <2>2, <2>3, <2>4 DEF IInv, TokensKnow
<1>2. CASE t # None
  <2>1. t \in Tokens /\ t[2] < MaxRotation /\ t[1] \in Calls /\ Replacement(t) \in Tokens
        /\ tokens' = Rotated(t)
    BY <1>2, ReplacementIsToken DEF Redeem, Tokens
  <2>2. \/ /\ Rotates(t) \/ Replays(t)
           /\ call' = [call EXCEPT ![c].session = t[1], ![c].next = Replacement(t)]
           /\ UNCHANGED <<establishing, chain>>
        \/ /\ call' = [call EXCEPT ![c].pc = "failed"]
           /\ establishing' = FALSE /\ chain' = Tail(chain)
    BY <1>2 DEF Redeem
  <2> QED
    BY <2>1, <2>2, RotatedKeeps
<1> QED
  BY <1>1, <1>2

(* The task of openSession at the head of the chain is the only one that a *)
(* handshake waits for.                                                    *)
LEMMA HeadOpens ==
  ASSUME IInv, chain # <<>>, Head(chain).op = "open"
  PROVE  /\ Head(chain).call \in Calls /\ call[Head(chain).call].pc = "opening"
         /\ \A i \in 1..Len(Tail(chain)) : Tail(chain)[i] \in TaskType /\ Tail(chain)[i].call = None
<1>1. /\ Head(chain) = chain[1] /\ 1 \in 1..Len(chain) /\ Tail(chain) \in Seq(TaskType)
      /\ Len(Tail(chain)) = Len(chain) - 1 /\ Len(chain) \in Nat
      /\ \A i \in 1..Len(Tail(chain)) : i + 1 \in 1..Len(chain) /\ Tail(chain)[i] = chain[i + 1]
  BY TailOfChain, LenProperties DEF IInv, TypeOK
<1>2. Head(chain).call \in Calls /\ call[Head(chain).call].pc = "opening"
  BY <1>1 DEF IInv, ChainKnows
<1>3. \A i \in 1..Len(Tail(chain)) : Tail(chain)[i] \in TaskType
  BY <1>1, ElementOfSeq
<1>4. \A i \in 1..Len(Tail(chain)) : Tail(chain)[i].call = None
  <2> SUFFICES ASSUME NEW i \in 1..Len(Tail(chain)), Tail(chain)[i].call # None
               PROVE  FALSE
    OBVIOUS
  <2>1. i + 1 \in 1..Len(chain) /\ chain[i + 1].call # None /\ chain[1].call # None /\ i + 1 # 1
    BY <1>1, <1>2, CallsAssumption
  <2> QED
    BY <1>1, <2>1 DEF IInv, ChainKnows
<1> QED
  BY <1>2, <1>3, <1>4

(* A session is issued, resumed or refused.                                *)
LEMMA RunOpenKeeps ==
  ASSUME IInv, RunOpen
  PROVE  IInv'
<1> DEFINE c == Head(chain).call
           t == call[c].token
<1>1. /\ c \in Calls /\ call[c].pc = "opening" /\ call[c] \in StreamType
      /\ t \in Tokens \cup {None} /\ (t # None => t[2] < MaxRotation) /\ Redeem(c, t)
      /\ UNCHANGED <<conn, holder, shut, live, expired, runner, spool>>
      /\ chain # <<>> /\ Head(chain).op = "open"
  BY HeadOpens DEF IInv, TypeOK, StreamType, TokensKnow, RunOpen
<1>2. /\ tokens' \in [Tokens -> {"absent", "fresh", "consumed"}]
      /\ \A u \in Tokens : tokens[u] # "absent" => tokens'[u] # "absent"
      /\ \A u \in Tokens : tokens'[u] = "consumed" =>
           /\ u[2] < MaxRotation
           /\ u \notin expired => tokens'[Replacement(u)] # "absent"
      /\ \/ /\ \E s \in Calls, n \in Tokens :
                  /\ tokens'[n] # "absent"
                  /\ call' = [call EXCEPT ![c].session = s, ![c].next = n]
            /\ UNCHANGED <<establishing, chain>>
         \/ /\ call' = [call EXCEPT ![c].pc = "failed"]
            /\ establishing' = FALSE /\ chain' = Tail(chain)
  BY <1>1, RedeemLeaves
<1>3. CASE /\ \E s \in Calls, n \in Tokens :
                  /\ tokens'[n] # "absent"
                  /\ call' = [call EXCEPT ![c].session = s, ![c].next = n]
           /\ UNCHANGED <<establishing, chain>>
  <2>1. PICK s \in Calls, n \in Tokens :
          tokens'[n] # "absent" /\ call' = [call EXCEPT ![c].session = s, ![c].next = n]
    BY <1>3
  <2> DEFINE new == [call[c] EXCEPT !.session = s, !.next = n]
  <2>2. new \in StreamType /\ new.pc = "opening" /\ new.next = n /\ new.token = call[c].token
        /\ new.existing = call[c].existing
    BY <1>1 DEF StreamType
  <2>3. call' = [call EXCEPT ![c] = new]
    BY <1>1, <2>1 DEF IInv, TypeOK, StreamType
  <2>4. call' \in [Calls -> StreamType]
    BY <2>2, <2>3 DEF IInv, TypeOK
  <2> HIDE DEF new
  <2>5. /\ call'[c] = new /\ \A d \in Calls : d # c => call'[d] = call[d]
        /\ \A d \in Calls : call'[d].pc = call[d].pc /\ call'[d].token = call[d].token
                           /\ call'[d].existing = call[d].existing
    BY <1>1, <2>2, <2>3, SMTT(60) DEF IInv, TypeOK
  <2>6. TypeOK'
    BY <1>1, <1>2, <1>3, <2>4, SMTT(60) DEF IInv, TypeOK
  <2>7. Handshakes' /\ OneServing' /\ NothingAfterShutdown'
    BY <1>1, <1>3, <2>5, ZenonT(120) DEF IInv, Handshakes, InHandshake, OneServing, NothingAfterShutdown
  <2>8. ChainKnows'
    BY <1>3, <2>5, DisposeOnChain DEF IInv
  <2>9. TokensKnow'
    BY <1>1, <1>2, <2>1, <2>2, <2>5, TableGrows, ZenonT(120)
  <2> QED
    BY <2>6, <2>7, <2>8, <2>9 DEF IInv
<1>4. CASE call' = [call EXCEPT ![c].pc = "failed"] /\ establishing' = FALSE /\ chain' = Tail(chain)
  <2> DEFINE new == [call[c] EXCEPT !.pc = "failed"]
  <2>1. new \in StreamType /\ call' = [call EXCEPT ![c] = new]
    BY <1>1, <1>4 DEF IInv, TypeOK, StreamType
  <2>2. call' \in [Calls -> StreamType] /\ \A d \in Calls : d # c => call'[d] = call[d]
    BY <1>1, <2>1 DEF IInv, TypeOK
  <2>3. call'[c].pc = "failed" /\ call'[c].next = call[c].next /\ call'[c].token = call[c].token
    BY <1>1, <1>4 DEF IInv, TypeOK, StreamType
  <2>4. \A d \in Calls : ~InHandshake(d)'
    BY <1>1, <2>2, <2>3 DEF IInv, Handshakes, InHandshake
  <2>5. chain' \in Seq(TaskType)
    BY <1>1, <1>4, TailOfChain, SMTT(60) DEF IInv
  <2>6. TypeOK'
    BY <1>1, <1>2, <1>4, <2>2, <2>5 DEF IInv, TypeOK
  <2>7. Handshakes' /\ OneServing' /\ NothingAfterShutdown'
    BY <1>1, <2>2, <2>3, <2>4 DEF IInv, Handshakes, OneServing, NothingAfterShutdown
  <2>8. ChainKnows'
    BY <1>1, <1>4, <2>2, <2>5, HeadOpens, TailOfChain, CallsAssumption, SMTT(60) DEF IInv, ChainKnows, TaskType
  <2>9. TokensKnow'
    BY <1>1, <1>2, <2>2, <2>3, TableGrows
  <2> QED
    BY <2>6, <2>7, <2>8, <2>9 DEF IInv
<1> QED
  BY <1>2, <1>3, <1>4

(* openSession resolves.                                                   *)
LEMMA SaveSessionKeeps ==
  ASSUME IInv, SaveSession
  PROVE  IInv'
<1> DEFINE c == Head(chain).call
           new == [call[c] EXCEPT !.pc = "opened"]
<1>1. /\ c \in Calls /\ call[c].pc = "opening" /\ call[c] \in StreamType
      /\ call[c].session # None /\ live' = live \cup {call[c].session}
      /\ call' = [call EXCEPT ![c].pc = "opened"] /\ chain' = Tail(chain)
      /\ UNCHANGED <<conn, holder, establishing, shut, store, runner, spool>>
      /\ chain # <<>> /\ Head(chain).op = "open"
  BY HeadOpens DEF IInv, TypeOK, SaveSession
<1>2. new \in StreamType /\ call' = [call EXCEPT ![c] = new]
  BY <1>1 DEF IInv, TypeOK, StreamType
<1>3. call' \in [Calls -> StreamType] /\ \A d \in Calls : d # c => call'[d] = call[d]
  BY <1>1, <1>2 DEF IInv, TypeOK
<1>4. /\ call'[c].pc = "opened" /\ call'[c].next = call[c].next
      /\ call'[c].token = call[c].token /\ call'[c].existing = call[c].existing
  BY <1>1 DEF IInv, TypeOK, StreamType
<1>5. chain' \in Seq(TaskType) /\ live' \subseteq Calls
  BY <1>1, TailOfChain DEF IInv, TypeOK, StreamType
<1>6. TypeOK'
  BY <1>1, <1>3, <1>5 DEF IInv, TypeOK, store
<1>7. Handshakes' /\ OneServing' /\ NothingAfterShutdown'
  BY <1>1, <1>3, <1>4 DEF IInv, Handshakes, InHandshake, OneServing, NothingAfterShutdown
<1>8. ChainKnows'
  BY <1>1, <1>3, <1>5, HeadOpens, TailOfChain, CallsAssumption, SMTT(60) DEF IInv, ChainKnows, TaskType
<1>9. TokensKnow'
  BY <1>1, <1>3, <1>4, TableGrows DEF IInv, TokensKnow, store
<1> QED
  BY <1>6, <1>7, <1>8, <1>9 DEF IInv

(* While a stream is between openSession and its registration, the chain   *)
(* holds no task that a handshake waits for.                               *)
LEMMA OpenedAlone ==
  ASSUME IInv, NEW c \in Calls, call[c].pc = "opened"
  PROVE  /\ chain \in Seq(TaskType)
         /\ \A i \in 1..Len(chain) : chain[i] \in TaskType /\ chain[i].call = None /\ chain[i].op # "open"
         /\ \A d \in Calls : InHandshake(d) => c = d
<1>1. chain \in Seq(TaskType) /\ \A i \in 1..Len(chain) : chain[i] \in TaskType
  BY ElementOfSeq DEF IInv, TypeOK, TaskType
<1>2. \A d \in Calls : InHandshake(d) => c = d
  BY DEF IInv, Handshakes, InHandshake
<1> QED
  BY <1>1, <1>2, CallsAssumption DEF IInv, ChainKnows, InHandshake, TaskType

(* A stream that changes its state keeps its tokens.                       *)
LEMMA StreamMoves ==
  ASSUME NEW r \in StreamType
  PROVE  /\ [r EXCEPT !.pc = "disposed"] \in StreamType
         /\ [r EXCEPT !.pc = "disposed"].pc = "disposed"
         /\ [r EXCEPT !.pc = "disposed"].next = r.next
         /\ [r EXCEPT !.pc = "disposed"].token = r.token
         /\ [r EXCEPT !.pc = "up", !.welcome = TRUE] \in StreamType
         /\ [r EXCEPT !.pc = "up", !.welcome = TRUE].pc = "up"
         /\ [r EXCEPT !.pc = "up", !.welcome = TRUE].next = r.next
         /\ [r EXCEPT !.pc = "up", !.welcome = TRUE].token = r.token
BY DEF StreamType

(* A handshake is abandoned, or its connection replaces the one before.    *)
LEMMA EstablishKeeps ==
  ASSUME IInv, NEW c \in Calls, Establish(c)
  PROVE  IInv'
<1>0. /\ call[c].pc = "opened" /\ call[c] \in StreamType /\ call \in [Calls -> StreamType]
      /\ UNCHANGED <<shut, live, store, runner, spool>>
      /\ conn \in {None, call[c].existing}
  BY DEF IInv, TypeOK, Handshakes, InHandshake, Establish
<1>1. CASE call[c].terminated \/ shut
  <2> DEFINE new == [call[c] EXCEPT !.pc = "closing"]
             task == CloseFor(c, call[c].session)
  <2>1. /\ call' = [call EXCEPT ![c].pc = "closing"] /\ chain' = Append(chain, task)
        /\ UNCHANGED <<conn, holder, establishing>>
    BY <1>1 DEF Establish
  <2>2. new \in StreamType /\ call' = [call EXCEPT ![c] = new] /\ task \in TaskType
        /\ task.call = c /\ task.op = "close"
    BY <1>0, <2>1 DEF StreamType, TaskType, CloseFor
  <2>3. call' \in [Calls -> StreamType] /\ \A d \in Calls : d # c => call'[d] = call[d]
    BY <1>0, <2>2
  <2>4. /\ call'[c].pc = "closing" /\ call'[c].next = call[c].next
        /\ call'[c].token = call[c].token /\ call'[c].existing = call[c].existing
    BY <1>0, <2>1 DEF StreamType
  <2> HIDE DEF task
  <2>5. /\ chain' \in Seq(TaskType) /\ Len(chain') = Len(chain) + 1 /\ Len(chain) \in Nat
        /\ \A i \in 1..Len(chain) : chain'[i] = chain[i]
        /\ chain'[Len(chain) + 1] = task
    BY <1>0, <2>1, <2>2, OpenedAlone, AppendProperties, LenProperties
  <2>6. TypeOK'
    BY <1>0, <2>1, <2>3, <2>5 DEF IInv, TypeOK, store
  <2>7. Handshakes' /\ OneServing' /\ NothingAfterShutdown'
    BY <1>0, <2>1, <2>3, <2>4 DEF IInv, Handshakes, InHandshake, OneServing, NothingAfterShutdown
  <2>8. ChainKnows'
    BY <1>0, <2>2, <2>4, <2>5, OpenedAlone, CallsAssumption, SMTT(60) DEF ChainKnows
  <2>9. TokensKnow'
    BY <1>0, <2>3, <2>4, TableGrows DEF IInv, TokensKnow, store
  <2> QED
    BY <2>6, <2>7, <2>8, <2>9 DEF IInv
<1>2. CASE ~(call[c].terminated \/ shut)
  <2>1. Superseding(c, TRUE) /\ ~shut
    BY <1>2 DEF Establish
  <2>2. /\ call'[c] = [call[c] EXCEPT !.pc = "up", !.welcome = TRUE]
        /\ \A d \in Calls : d # c /\ d = call[c].existing /\ call[d].pc = "up" =>
             call'[d] = [call[d] EXCEPT !.pc = "disposed"]
        /\ \A d \in Calls : d # c /\ ~(d = call[c].existing /\ call[d].pc = "up") =>
             call'[d] = call[d]
        /\ holder' = c /\ conn' = c /\ establishing' = FALSE /\ chain' = chain
    BY <2>1 DEF Superseding
  <2>d. call' = [d \in Calls |-> call'[d]]
    BY <2>1 DEF Superseding
  <2>e. ASSUME NEW d \in Calls
        PROVE  /\ call'[d] \in StreamType /\ call'[d].next = call[d].next
               /\ call'[d].token = call[d].token
               /\ d # c => call'[d].pc \in {call[d].pc, "disposed"}
               /\ d = c => call'[d].pc = "up"
    <3>1. call[d] \in StreamType
      BY <1>0
    <3>2. CASE d = c
      BY <2>2, <3>1, <3>2, StreamMoves, ZenonT(120)
    <3>3. CASE d # c /\ d = call[c].existing /\ call[d].pc = "up"
      BY <2>2, <3>1, <3>3, StreamMoves, ZenonT(120)
    <3>4. CASE d # c /\ ~(d = call[c].existing /\ call[d].pc = "up")
      BY <2>2, <3>1, <3>4
    <3> QED
      BY <3>2, <3>3, <3>4
  <2>3. call' \in [Calls -> StreamType]
    BY <2>d, <2>e
  <2>4. /\ call'[c].pc = "up"
        /\ \A d \in Calls : call'[d].next = call[d].next /\ call'[d].token = call[d].token
        /\ \A d \in Calls : d # c => call'[d].pc \in {call[d].pc, "disposed"}
    BY <2>e
  <2>5. \A d \in Calls : d # c => call'[d].pc # "up"
    <3> SUFFICES ASSUME NEW d \in Calls, d # c, call'[d].pc = "up" PROVE FALSE
      OBVIOUS
    <3>1. call[d].pc = "up"
      BY <2>4
    <3>2. d = call[c].existing
      BY <1>0, <3>1, CallsAssumption DEF IInv, OneServing
    <3> QED
      BY <1>0, <2>2, <3>1, <3>2, StreamMoves
  <2>6. TypeOK'
    BY <1>0, <2>2, <2>3 DEF IInv, TypeOK, store
  <2>7. Handshakes'
    BY <1>0, <2>4, OpenedAlone DEF Handshakes, InHandshake
  <2>8. OneServing' /\ NothingAfterShutdown'
    BY <1>0, <2>1, <2>2, <2>5 DEF OneServing, NothingAfterShutdown
  <2>9. ChainKnows'
    BY <1>0, <2>2, OpenedAlone DEF ChainKnows
  <2>10. TokensKnow'
    BY <1>0, <2>4, TableGrows DEF IInv, TokensKnow, store
  <2> QED
    BY <2>6, <2>7, <2>8, <2>9, <2>10 DEF IInv
<1> QED
  BY <1>1, <1>2

(* A task that no handshake waits for is done.                             *)
LEMMA FreeTaskLeaves ==
  ASSUME IInv, chain # <<>>, Head(chain).call = None, chain' = Tail(chain), UNCHANGED call
  PROVE  chain' \in Seq(TaskType) /\ ChainKnows'
<1>1. /\ chain' \in Seq(TaskType)
      /\ Len(chain') = Len(chain) - 1 /\ Len(chain) \in Nat
      /\ \A i \in 1..Len(chain') : i + 1 \in 1..Len(chain) /\ chain'[i] = chain[i + 1]
  BY TailOfChain, LenProperties DEF IInv, TypeOK
<1>2. \A i \in 1..Len(chain') :
        /\ chain'[i].op = "open" =>
             chain'[i].call \in Calls /\ call[chain'[i].call].pc = "opening"
        /\ chain'[i].op = "close" /\ chain'[i].call # None => call[chain'[i].call].pc = "closing"
        /\ chain'[i].op = "complete" => chain'[i].call = None
  BY <1>1 DEF IInv, ChainKnows
<1>3. \A i, j \in 1..Len(chain') : chain'[i].call # None /\ chain'[j].call # None => i = j
  <2> SUFFICES ASSUME NEW i \in 1..Len(chain'), NEW j \in 1..Len(chain'),
                      chain'[i].call # None, chain'[j].call # None
               PROVE  i = j
    OBVIOUS
  <2>1. i + 1 = j + 1
    BY <1>1, SMTT(60) DEF IInv, ChainKnows
  <2> QED
    BY <1>1, <2>1
<1> QED
  BY <1>1, <1>2, <1>3 DEF ChainKnows

(* complete returns.                                                       *)
LEMMA RunCompleteKeeps ==
  ASSUME IInv, RunComplete
  PROVE  IInv'
<1>1. /\ chain # <<>> /\ Head(chain).op = "complete" /\ chain' = Tail(chain)
      /\ UNCHANGED <<call, conn, holder, establishing, shut, live, store, runner, spool>>
  BY DEF RunComplete
<1>2. Head(chain).call = None
  BY <1>1, TailOfChain DEF IInv, ChainKnows, TaskType
<1>3. chain' \in Seq(TaskType) /\ ChainKnows'
  BY <1>1, <1>2, FreeTaskLeaves
<1>4. TypeOK' /\ TokensKnow'
  BY <1>1, <1>3 DEF IInv, TypeOK, TokensKnow, store
<1>5. Handshakes' /\ OneServing' /\ NothingAfterShutdown'
  BY <1>1 DEF IInv, Handshakes, InHandshake, OneServing, NothingAfterShutdown
<1> QED
  BY <1>3, <1>4, <1>5 DEF IInv

(* closeSession of an abandoned handshake ends it; closeSession of a       *)
(* disposed connection touches no stream.                                  *)
LEMMA RunCloseKeeps ==
  ASSUME IInv, RunClose
  PROVE  IInv'
<1> DEFINE t == Head(chain)
<1>0. /\ chain # <<>> /\ t.op = "close" /\ live' = live \ {t.session} /\ chain' = Tail(chain)
      /\ UNCHANGED <<conn, holder, shut, store, runner, spool>>
      /\ \/ t.call = None /\ UNCHANGED <<call, establishing>>
         \/ t.call # None /\ call' = [call EXCEPT ![t.call].pc = "failed"] /\ establishing' = FALSE
  BY DEF RunClose
<1>1. /\ t = chain[1] /\ 1 \in 1..Len(chain) /\ t \in TaskType
      /\ chain' \in Seq(TaskType)
      /\ Len(chain') = Len(chain) - 1 /\ Len(chain) \in Nat
      /\ \A i \in 1..Len(chain') : i + 1 \in 1..Len(chain) /\ chain'[i] = chain[i + 1]
  BY <1>0, TailOfChain, LenProperties DEF IInv, TypeOK
<1>2. \A i \in 1..Len(chain') : chain'[i] \in TaskType
  BY <1>1, ElementOfSeq
<1>3. CASE t.call = None
  <2>1. UNCHANGED <<call, establishing>>
    BY <1>0, <1>3
  <2>2. TypeOK'
    BY <1>0, <1>1, <2>1 DEF IInv, TypeOK, store
  <2>3. Handshakes' /\ OneServing' /\ NothingAfterShutdown'
    BY <1>0, <2>1 DEF IInv, Handshakes, InHandshake, OneServing, NothingAfterShutdown
  <2>4. ChainKnows'
    BY <1>0, <1>3, <2>1, FreeTaskLeaves
  <2>5. TokensKnow'
    BY <1>0, <2>1, TableGrows DEF IInv, TokensKnow, store
  <2> QED
    BY <2>2, <2>3, <2>4, <2>5 DEF IInv
<1>4. CASE t.call # None
  <2> DEFINE c == t.call
             new == [call[c] EXCEPT !.pc = "failed"]
  <2>1. /\ call' = [call EXCEPT ![c].pc = "failed"] /\ establishing' = FALSE
        /\ c \in Calls /\ call[c].pc = "closing" /\ call[c] \in StreamType
    BY <1>0, <1>1, <1>4 DEF IInv, TypeOK, ChainKnows, TaskType
  <2>2. new \in StreamType /\ call' = [call EXCEPT ![c] = new]
    BY <2>1 DEF IInv, TypeOK, StreamType
  <2>3. call' \in [Calls -> StreamType] /\ \A d \in Calls : d # c => call'[d] = call[d]
    BY <2>1, <2>2 DEF IInv, TypeOK
  <2>4. call'[c].pc = "failed" /\ call'[c].next = call[c].next /\ call'[c].token = call[c].token
    BY <2>1 DEF IInv, TypeOK, StreamType
  <2>5. \A i \in 1..Len(chain') : chain'[i].call = None /\ chain'[i].op # "open"
    <3> SUFFICES ASSUME NEW i \in 1..Len(chain')
                 PROVE  chain'[i].call = None /\ chain'[i].op # "open"
      OBVIOUS
    <3>1. i + 1 \in 1..Len(chain) /\ i + 1 # 1 /\ chain'[i] = chain[i + 1] /\ chain'[i] \in TaskType
      BY <1>1, <1>2
    <3>2. chain[i + 1].call = None
      BY <1>1, <1>4, <3>1 DEF IInv, ChainKnows
    <3> QED
      BY <3>1, <3>2, CallsAssumption DEF IInv, ChainKnows, TaskType
  <2>6. TypeOK'
    BY <1>0, <1>1, <2>1, <2>3 DEF IInv, TypeOK, store
  <2>7. Handshakes' /\ OneServing' /\ NothingAfterShutdown'
    BY <1>0, <2>1, <2>3, <2>4 DEF IInv, Handshakes, InHandshake, OneServing, NothingAfterShutdown
  <2>8. ChainKnows'
    BY <2>5 DEF ChainKnows
  <2>9. TokensKnow'
    BY <1>0, <2>3, <2>4, TableGrows DEF IInv, TokensKnow, store
  <2> QED
    BY <2>6, <2>7, <2>8, <2>9 DEF IInv
<1> QED
  BY <1>3, <1>4

(* A connection is disposed: the stream c stops serving, perhaps marked    *)
(* terminated, perhaps unregistered.                                       *)
LEMMA DisposeKeeps ==
  ASSUME IInv, NEW c \in Calls, call[c].pc = "up", NEW new \in StreamType,
         new.pc = "disposed", new.next = call[c].next, new.token = call[c].token,
         call' = [call EXCEPT ![c] = new],
         chain' = chain \o DisposeTask(c),
         conn' \in {conn, None}, shut' \in BOOLEAN, shut' => shut \/ conn' = None,
         UNCHANGED <<holder, establishing, live, store, runner, spool>>
  PROVE  IInv'
<1>1. call' \in [Calls -> StreamType] /\ call'[c] = new /\ \A d \in Calls : d # c => call'[d] = call[d]
  BY DEF IInv, TypeOK
<1>2. chain' = chain \/ chain' = chain \o <<Close(call[c].session)>>
  <2>1. chain \in Seq(TaskType)
    BY DEF IInv, TypeOK
  <2> QED
    BY <2>1, ConcatEmptySeq DEF DisposeTask
<1>3. call[c].session \in Calls \cup {None}
  BY DEF IInv, TypeOK, StreamType
<1>4. chain' \in Seq(TaskType) /\ ChainKnows'
  BY <1>1, <1>2, <1>3, DisposeOnChain DEF IInv
<1>5. conn = c /\ \A d \in Calls : d # c => call[d].pc # "up"
  BY DEF IInv, OneServing
<1>6. TypeOK'
  BY <1>1, <1>4 DEF IInv, TypeOK, store
<1>7. Handshakes' /\ OneServing' /\ NothingAfterShutdown'
  BY <1>1, <1>5 DEF IInv, Handshakes, InHandshake, OneServing, NothingAfterShutdown
<1>8. TokensKnow'
  BY <1>1, TableGrows DEF IInv, TokensKnow, store
<1> QED
  BY <1>4, <1>6, <1>7, <1>8 DEF IInv

(* The stream ends.                                                        *)
LEMMA TeardownKeeps ==
  ASSUME IInv, NEW c \in Calls, Teardown(c)
  PROVE  IInv'
<1>0. call[c] \in StreamType /\ call \in [Calls -> StreamType] /\ shut \in BOOLEAN
  BY DEF IInv, TypeOK
<1>1. CASE call[c].pc = "up"
  <2> DEFINE new == [call[c] EXCEPT !.terminated = TRUE, !.pc = "disposed"]
  <2>1. /\ new \in StreamType /\ new.pc = "disposed" /\ new.next = call[c].next
        /\ new.token = call[c].token
    BY <1>0 DEF StreamType
  <2>2. call' = [call EXCEPT ![c] = new]
    BY <1>0, <1>1 DEF Teardown, StreamType
  <2> QED
    BY <1>0, <1>1, <2>1, <2>2, DisposeKeeps DEF Teardown, IInv, NothingAfterShutdown
<1>2. CASE call[c].pc # "up"
  <2> DEFINE new == [call[c] EXCEPT !.terminated = TRUE]
  <2>1. /\ new \in StreamType /\ new.pc = call[c].pc /\ new.next = call[c].next
        /\ new.token = call[c].token /\ new.existing = call[c].existing
    BY <1>0 DEF StreamType
  <2>2. call' = [call EXCEPT ![c] = new]
    BY <1>0, <1>2 DEF Teardown, StreamType
  <2> HIDE DEF new
  <2>3. call' \in [Calls -> StreamType] /\ call'[c] = new /\ \A d \in Calls : d # c => call'[d] = call[d]
    BY <1>0, <2>1, <2>2
  <2>4. /\ conn' = (IF conn = c THEN None ELSE conn) /\ chain' = chain
        /\ UNCHANGED <<holder, establishing, shut, live, store, runner, spool>>
    BY <1>2 DEF Teardown
  <2>5. TypeOK'
    BY <2>3, <2>4 DEF IInv, TypeOK, store
  <2>6. Handshakes' /\ OneServing' /\ NothingAfterShutdown'
    BY <1>2, <2>1, <2>3, <2>4 DEF IInv, Handshakes, InHandshake, OneServing, NothingAfterShutdown
  <2>7. ChainKnows'
    BY <2>1, <2>3, <2>4, DisposeOnChain DEF IInv
  <2>8. TokensKnow'
    BY <2>1, <2>3, <2>4, TableGrows DEF IInv, TokensKnow, store
  <2> QED
    BY <2>5, <2>6, <2>7, <2>8 DEF IInv
<1> QED
  BY <1>1, <1>2

(* A connection is cancelled.                                              *)
LEMMA CancelKeeps ==
  ASSUME IInv, NEW c \in Calls, Cancel(c)
  PROVE  IInv'
<1> DEFINE new == [call[c] EXCEPT !.pc = "disposed"]
<1>1. call[c] \in StreamType /\ call \in [Calls -> StreamType] /\ shut \in BOOLEAN
  BY DEF IInv, TypeOK
<1>2. /\ new \in StreamType /\ new.pc = "disposed" /\ new.next = call[c].next
      /\ new.token = call[c].token /\ call' = [call EXCEPT ![c] = new]
  BY <1>1, StreamMoves DEF Cancel
<1> QED
  BY <1>1, <1>2, DisposeKeeps DEF Cancel

(* The server shuts down: the one connection that serves is disposed.      *)
LEMMA ShutdownKeeps ==
  ASSUME IInv, Shutdown
  PROVE  IInv'
<1>1. CASE conn # None /\ call[conn].pc = "up"
  <2> DEFINE new == [call[conn] EXCEPT !.pc = "disposed"]
  <2>1. conn \in Calls /\ call[conn] \in StreamType /\ call \in [Calls -> StreamType]
    BY <1>1 DEF IInv, TypeOK
  <2>2. /\ new \in StreamType /\ new.pc = "disposed" /\ new.next = call[conn].next
        /\ new.token = call[conn].token /\ call' = [call EXCEPT ![conn] = new]
    BY <1>1, <2>1, StreamMoves DEF Shutdown
  <2> QED
    BY <1>1, <2>1, <2>2, DisposeKeeps DEF Shutdown
<1>2. CASE ~(conn # None /\ call[conn].pc = "up")
  <2>1. /\ UNCHANGED <<call, chain, holder, establishing, live, store, runner, spool>>
        /\ shut' = TRUE /\ conn' = None
    BY <1>2 DEF Shutdown
  <2>2. \A c \in Calls : call[c].pc # "up"
    BY <1>2, CallsAssumption DEF IInv, OneServing
  <2>3. TypeOK'
    BY <2>1 DEF IInv, TypeOK, store
  <2>4. Handshakes' /\ OneServing' /\ NothingAfterShutdown'
    BY <2>1, <2>2 DEF IInv, Handshakes, InHandshake, OneServing, NothingAfterShutdown
  <2>5. ChainKnows'
    BY <2>1 DEF IInv, ChainKnows
  <2>6. TokensKnow'
    BY <2>1, TableGrows DEF IInv, TokensKnow, store
  <2> QED
    BY <2>3, <2>4, <2>5, <2>6 DEF IInv
<1> QED
  BY <1>1, <1>2

(* Core starts again, with the tables of its store.                        *)
LEMMA CoreRestartKeeps ==
  ASSUME IInv, CoreRestart
  PROVE  IInv'
<1>0. call \in [Calls -> StreamType]
  BY DEF IInv, TypeOK
<1>1. ASSUME NEW c \in Calls
      PROVE  /\ call'[c] \in StreamType /\ call'[c].pc \in {"unused", "failed"}
             /\ \/ call'[c].token = None /\ call'[c].next = None
                \/ call'[c].token = call[c].token /\ call'[c].next = call[c].next
  <2>1. call[c] \in StreamType
    BY <1>0
  <2>2. CASE call[c].pc = "unused"
    <3>1. call'[c] = NoCall
      BY <2>2 DEF CoreRestart
    <3> QED
      BY <3>1 DEF NoCall, StreamType
  <2>3. CASE call[c].pc # "unused"
    <3>1. call'[c] = [call[c] EXCEPT !.pc = "failed", !.terminated = TRUE]
      BY <2>3 DEF CoreRestart
    <3> QED
      BY <2>1, <3>1 DEF StreamType
  <2> QED
    BY <2>2, <2>3
<1>2. call' = [c \in Calls |-> call'[c]]
  BY DEF CoreRestart
<1>3. /\ conn' = None /\ holder' = None /\ establishing' = FALSE /\ shut' = FALSE
      /\ chain' = <<>> /\ live' = {} /\ UNCHANGED <<store, runner, spool>>
  BY DEF CoreRestart
<1>4. chain' \in Seq(TaskType) /\ Len(chain') = 0
  BY <1>3, EmptySeq
<1>5. TypeOK'
  BY <1>1, <1>2, <1>3, <1>4 DEF IInv, TypeOK, store
<1>6. Handshakes' /\ OneServing' /\ NothingAfterShutdown'
  BY <1>1, <1>3 DEF Handshakes, InHandshake, OneServing, NothingAfterShutdown
<1>7. ChainKnows'
  BY <1>4 DEF ChainKnows
<1>8. TokensKnow'
  BY <1>1, <1>3 DEF IInv, TokensKnow, store
<1> QED
  BY <1>5, <1>6, <1>7, <1>8 DEF IInv

(* A token expires.                                                        *)
LEMMA ExpireKeeps ==
  ASSUME IInv, NEW t \in Tokens, Expire(t)
  PROVE  IInv'
<1>1. expired' = expired \cup {t} /\ UNCHANGED <<server, tokens, runner, spool>>
  BY DEF Expire
<1>2. TypeOK'
  BY <1>1 DEF IInv, TypeOK, server
<1>3. TokensKnow'
  BY <1>1 DEF IInv, TokensKnow, server
<1> QED
  BY <1>1, <1>2, <1>3, ServerFrame DEF IInv

(* Nothing has happened yet.                                               *)
LEMMA InitEstablishes == Init => IInv
<1> SUFFICES ASSUME Init PROVE IInv
  OBVIOUS
<1>1. chain \in Seq(TaskType) /\ Len(chain) = 0
  BY EmptySeq DEF Init
<1>2. \A c \in Calls : call[c] = NoCall
  BY DEF Init
<1>3. TypeOK
  BY <1>1, CallsAssumption DEF Init, TypeOK, StreamType, RunnerType, NoCall, Down
<1>4. Handshakes /\ OneServing /\ NothingAfterShutdown
  BY <1>2 DEF Init, Handshakes, InHandshake, OneServing, NothingAfterShutdown, NoCall
<1>5. ChainKnows
  BY <1>1 DEF ChainKnows
<1>6. TokensKnow
  BY <1>2 DEF Init, TokensKnow, NoCall, Down
<1> QED
  BY <1>3, <1>4, <1>5, <1>6 DEF IInv

(* Every step keeps the invariant.                                         *)
LEMMA StepKeeps ==
  ASSUME IInv, [Next]_vars
  PROVE  IInv'
<1>1. CASE UNCHANGED vars
  <2>1. TypeOK' /\ TokensKnow'
    BY <1>1 DEF IInv, TypeOK, TokensKnow, vars, server, store
  <2> QED
    BY <1>1, <2>1, ServerFrame DEF IInv, vars
<1>2. CASE Next
  BY <1>2, ConnectingKeeps, ReceiveWelcomeKeeps, SaveResumeTokenKeeps, RunnerExitKeeps,
     BeginHandshakeKeeps, ResolveApplicationKeeps, ResolveFailsKeeps, HandleCompleteKeeps,
     RunCompleteKeeps, RunOpenKeeps, SaveSessionKeeps, EstablishKeeps, RunCloseKeeps,
     TeardownKeeps, CancelKeeps, ShutdownKeeps, CoreRestartKeeps, ExpireKeeps
     DEF Next, ServerStep
<1> QED
  BY <1>1, <1>2

(* The invariant holds in every state Core and the Runner reach.           *)
LEMMA InvariantHolds == Spec => []IInv
<1>1. IInv /\ [Next]_vars => IInv'
  BY StepKeeps
<1> QED
  BY <1>1, InitEstablishes, PTL DEF Spec
-----------------------------------------------------------------------------
(* Whatever handshakes, teardowns, cancels, shutdowns and restarts         *)
(* overlap, a connection that serves frames is the registered one and      *)
(* holds the current generation (establishSession, dispose).               *)
THEOREM NoSupersededServes == Spec => []OneServing
<1>1. IInv => OneServing
  BY DEF IInv
<1> QED
  BY <1>1, InvariantHolds, PTL

(* After shutdownOnce no connection is registered and none serves, even    *)
(* one whose openSession was under way.                                    *)
THEOREM ShutdownIsFinal == Spec => []NothingAfterShutdown
<1>1. IInv => NothingAfterShutdown
  BY DEF IInv
<1> QED
  BY <1>1, InvariantHolds, PTL

(* The token saved by the Runner is accepted by rotateResumeToken until it *)
(* expires, whichever process died between rotation, Welcome and save.     *)
THEOREM SpoolTokenStaysGood == Spec => []SpoolTokenAccepted
<1>1. IInv => SpoolTokenAccepted
  BY DEF IInv, TypeOK, TokensKnow, SpoolTokenAccepted, Rotates, Replays
<1> QED
  BY <1>1, InvariantHolds, PTL
=============================================================================

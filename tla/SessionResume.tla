---------------------------- MODULE SessionResume ----------------------------
(***************************************************************************)
(* How a Runner's connection to Core is established, resumed, superseded   *)
(* and torn down: the handshake of the gRPC server (handleConnect,         *)
(* establishSession, dispose, shutdownOnce), the session registry and the  *)
(* resume tokens behind the promise chain of the protocol application, and *)
(* the Runner's main loop with the token it keeps in its spool.            *)
(*                                                                         *)
(* One Runner identity, so one connection key.  A call is one gRPC stream. *)
(* A fresh session is named after the call that opened it.  A token is a   *)
(* pair <<session, n>>: the n-th rotation of the token issued with the     *)
(* session; its replacement is derived from it, so it is always            *)
(* <<session, n + 1>>.  The certificate and protocol-major checks always   *)
(* succeed here (one identity, one major).                                 *)
(***************************************************************************)
EXTENDS Naturals, Sequences, FiniteSets

CONSTANTS
    Calls,      \* the gRPC streams that may be opened
    None,       \* "undefined": no token, no call, no connection
    MaxRotation \* bound: how often the tokens of one session are rotated

ASSUME CallsAssumption == None \notin Calls /\ MaxRotation \in Nat \ {0}

VARIABLES
    call,         \* what the server knows of every stream
    conn,         \* connections.get(key)
    holder,       \* the call that raised generations.get(key) last
    establishing, \* establishingConnectionKeys.has(key)
    shut,         \* shuttingDown
    chain,        \* the protocol application's promise chain
    live,         \* the session ids in RunnerSessionService.live
    tokens,       \* runner_resume_tokens: absent, fresh or consumed
    expired,      \* the tokens whose expires_at has passed
    runner,       \* the Runner process: state, its stream, the token it holds
    spool         \* the token saved in the Runner's spool

server == <<call, conn, holder, establishing, shut, chain, live>>
store == <<tokens, expired>>
vars == <<server, store, runner, spool>>

Tokens == Calls \X (0..MaxRotation)
Replacement(t) == <<t[1], t[2] + 1>>

\* "hello": the first frame has arrived; "resolving": awaiting applicationFor;
\* "opening" and "opened": before and after openSession; "closing": awaiting
\* closeSession of an abandoned handshake; "up": an undisposed
\* ServerRunnerConnection.
NoCall == [pc |-> "unused", token |-> None, existing |-> None, session |-> None,
           next |-> None, terminated |-> FALSE, welcome |-> FALSE]

Open(c) == [op |-> "open", call |-> c, session |-> None]
Close(s) == [op |-> "close", call |-> None, session |-> s]
CloseFor(c, s) == [op |-> "close", call |-> c, session |-> s]
\* No handshake waits for a completion; it is told by the stream it came on.
Complete(c) == [op |-> "complete", call |-> None, session |-> c]

Down == [pc |-> "down", call |-> None, token |-> None]

Init ==
    /\ call = [c \in Calls |-> NoCall]
    /\ conn = None
    /\ holder = None
    /\ establishing = FALSE
    /\ shut = FALSE
    /\ chain = <<>>
    /\ live = {}
    /\ tokens = [t \in Tokens |-> "absent"]
    /\ expired = {}
    /\ runner = Down
    /\ spool = None

----------------------------------------------------------------------------
(* The Runner *)

\* Opens a stream and writes Hello with the token t.
Connect(c, t) ==
    /\ call[c].pc = "unused"
    /\ t # None => t[2] < MaxRotation
    /\ call' = [call EXCEPT ![c] = [NoCall EXCEPT !.pc = "hello", !.token = t]]
    /\ runner' = [pc |-> "connecting", call |-> c, token |-> t]
    /\ UNCHANGED <<conn, holder, establishing, shut, chain, live, store, spool>>

\* The process starts and presents the token of its spool.
RunnerStart(c) ==
    /\ runner.pc = "down"
    /\ Connect(c, spool)

\* The session failed (the stream errored or ended); the loop connects again
\* with the token of the last Welcome.  The server may not know yet.
Reconnect(c) ==
    /\ runner.pc = "up"
    /\ Connect(c, runner.token)

\* The Welcome frame resolves connect.
ReceiveWelcome ==
    /\ runner.pc = "connecting"
    /\ call[runner.call].welcome
    /\ runner' = [runner EXCEPT !.pc = "welcomed", !.token = call[runner.call].next]
    /\ UNCHANGED <<server, store, spool>>

SaveResumeToken ==
    /\ runner.pc = "welcomed"
    /\ spool' = runner.token
    /\ runner' = [runner EXCEPT !.pc = "up"]
    /\ UNCHANGED <<server, store>>

\* connect rejects (time-out, error, ended stream), which ends main; or the
\* process is stopped or killed.  Whether the server sees the end of the
\* stream, and when, is Teardown's choice.
RunnerExit ==
    /\ runner.pc # "down"
    /\ runner' = Down
    /\ UNCHANGED <<server, store, spool>>

----------------------------------------------------------------------------
(* The server's handshake *)

\* establishSession up to the await of applicationFor.
BeginHandshake(c) ==
    /\ call[c].pc = "hello"
    /\ IF \/ call[c].terminated \/ shut
          \/ establishing
          \/ conn # None /\ call[c].token = None
       THEN /\ call' = [call EXCEPT ![c].pc = "failed"]
            /\ UNCHANGED establishing
       ELSE /\ call' = [call EXCEPT ![c].pc = "resolving", ![c].existing = conn]
            /\ establishing' = TRUE
    /\ UNCHANGED <<conn, holder, shut, chain, live, store, runner, spool>>

\* applicationFor resolves, and openSession is queued; or the identity has no
\* application, and the handshake fails.
ResolveApplication(c) ==
    /\ call[c].pc = "resolving"
    /\ call' = [call EXCEPT ![c].pc = "opening"]
    /\ chain' = Append(chain, Open(c))
    /\ UNCHANGED <<conn, holder, establishing, shut, live, store, runner, spool>>

ResolveFails(c) ==
    /\ call[c].pc = "resolving"
    /\ call' = [call EXCEPT ![c].pc = "failed"]
    /\ establishing' = FALSE
    /\ UNCHANGED <<conn, holder, shut, chain, live, store, runner, spool>>

\* rotateResumeToken in its transaction: is the token accepted, and the table
\* afterwards.
Rotates(t) == tokens[t] = "fresh" /\ t \notin expired
Replays(t) == tokens[t] = "consumed" /\ t \notin expired /\ tokens[Replacement(t)] # "absent"

\* Mutant: the token is consumed in a transaction of its own.
RotatedApart(t) ==
    IF tokens[t] = "fresh" THEN [tokens EXCEPT ![t] = "consumed"] ELSE tokens

Rotated(t) ==
    CASE Rotates(t) -> [tokens EXCEPT ![t] = "consumed", ![Replacement(t)] = "fresh"]
      [] tokens[t] # "absent" /\ t \in expired -> [tokens EXCEPT ![t] = "consumed"]
      [] OTHER -> tokens

\* Mutant: a rejected resume leaves the key behind (no finally).
RedeemLeaks(c, t) ==
    /\ tokens' = IF t = None THEN [tokens EXCEPT ![<<c, 0>>] = "fresh"] ELSE Rotated(t)
    /\ IF t = None \/ Rotates(t) \/ Replays(t)
       THEN /\ call' = [call EXCEPT ![c].session = IF t = None THEN c ELSE t[1],
                                    ![c].next = IF t = None THEN <<c, 0>> ELSE Replacement(t)]
            /\ UNCHANGED chain
       ELSE call' = [call EXCEPT ![c].pc = "failed"] /\ chain' = Tail(chain)
    /\ UNCHANGED establishing

\* register, first half: redeem or issue.
Redeem(c, t) ==
    IF t = None
    THEN /\ tokens' = [tokens EXCEPT ![<<c, 0>>] = "fresh"]
         /\ call' = [call EXCEPT ![c].session = c, ![c].next = <<c, 0>>]
         /\ UNCHANGED <<establishing, chain>>
    ELSE /\ tokens' = Rotated(t)
         /\ IF Rotates(t) \/ Replays(t)
            THEN /\ call' = [call EXCEPT ![c].session = t[1], ![c].next = Replacement(t)]
                 /\ UNCHANGED <<establishing, chain>>
            ELSE \* RunnerResumeRejected
                 /\ call' = [call EXCEPT ![c].pc = "failed"]
                 /\ establishing' = FALSE
                 /\ chain' = Tail(chain)

RunOpen ==
    /\ chain # <<>> /\ Head(chain).op = "open"
    /\ LET c == Head(chain).call IN
         /\ call[c].session = None
         /\ Redeem(c, call[c].token)
    /\ UNCHANGED <<conn, holder, shut, live, expired, runner, spool>>

\* register, second half: saveSession and live.set.
SaveSession ==
    /\ chain # <<>> /\ Head(chain).op = "open"
    /\ LET c == Head(chain).call IN
         /\ call[c].session # None
         /\ live' = live \cup {call[c].session}
         /\ call' = [call EXCEPT ![c].pc = "opened"]
    /\ chain' = Tail(chain)
    /\ UNCHANGED <<conn, holder, establishing, shut, store, runner, spool>>

\* What dispose queues on the chain: closeSession, unless the generation of
\* the connection has been superseded.
DisposeTask(c) == IF holder = c THEN <<Close(call[c].session)>> ELSE <<>>

\* The new connection takes the generation; the one seen before openSession is
\* released and disposed; Welcome is written and the connection registered.
Superseding(c, disposes) ==
    /\ call' = [d \in Calls |->
         CASE d = c -> [call[c] EXCEPT !.pc = "up", !.welcome = TRUE]
           [] d = call[c].existing /\ d # c /\ call[d].pc = "up" /\ disposes ->
                [call[d] EXCEPT !.pc = "disposed"]
           [] OTHER -> call[d]]
    /\ holder' = c /\ conn' = c /\ establishing' = FALSE
    /\ UNCHANGED chain

\* Mutants: the shutdown is not looked at again after openSession; the
\* connection to supersede is forgotten.
EstablishShut(c) ==
    /\ call[c].pc = "opened" /\ Superseding(c, TRUE)
    /\ UNCHANGED <<shut, live, store, runner, spool>>
EstablishBeside(c) ==
    /\ call[c].pc = "opened" /\ ~call[c].terminated /\ ~shut /\ Superseding(c, FALSE)
    /\ UNCHANGED <<shut, live, store, runner, spool>>

\* establishSession after openSession: abandon, or supersede.
Establish(c) ==
    /\ call[c].pc = "opened"
    /\ IF call[c].terminated \/ shut
       THEN /\ call' = [call EXCEPT ![c].pc = "closing"]
            /\ chain' = Append(chain, CloseFor(c, call[c].session))
            /\ UNCHANGED <<conn, holder, establishing>>
       ELSE Superseding(c, TRUE)
    /\ UNCHANGED <<shut, live, store, runner, spool>>

RunClose ==
    /\ chain # <<>> /\ Head(chain).op = "close"
    /\ LET t == Head(chain) IN
         /\ live' = live \ {t.session}
         /\ IF t.call = None
            THEN UNCHANGED <<call, establishing>>
            ELSE /\ call' = [call EXCEPT ![t.call].pc = "failed"]
                 /\ establishing' = FALSE
    /\ chain' = Tail(chain)
    /\ UNCHANGED <<conn, holder, shut, store, runner, spool>>

----------------------------------------------------------------------------
(* A connection's frames.  What they do to leases and traces is the business *)
(* of RunLease and EvidenceUpload; here a frame is a task on the chain that  *)
(* the handshakes share.  Only complete_execution waits for code outside of  *)
(* the application, the completion sink; the others take a time that the     *)
(* interleaving covers.                                                      *)

\* handleFrame: a connection handles its frames one after the other.
HandleComplete(c) ==
    /\ call[c].pc = "up" /\ holder = c
    /\ \A i \in 1..Len(chain) : chain[i] # Complete(c)
    /\ chain' = Append(chain, Complete(c))
    /\ UNCHANGED <<call, conn, holder, establishing, shut, live, store, runner, spool>>

\* The application's complete returns, and so did its sink.
RunComplete ==
    /\ chain # <<>> /\ Head(chain).op = "complete"
    /\ chain' = Tail(chain)
    /\ UNCHANGED <<call, conn, holder, establishing, shut, live, store, runner, spool>>

----------------------------------------------------------------------------
(* The end of a connection *)

\* The stream ends, errors or is cancelled: release and dispose.
Teardown(c) ==
    /\ call[c].pc # "unused" /\ ~call[c].terminated
    /\ call' = [call EXCEPT ![c].terminated = TRUE,
                            ![c].pc = IF @ = "up" THEN "disposed" ELSE @]
    /\ conn' = IF conn = c THEN None ELSE conn
    /\ chain' = IF call[c].pc = "up" THEN chain \o DisposeTask(c) ELSE chain
    /\ UNCHANGED <<holder, establishing, shut, live, store, runner, spool>>

\* cancel, or a frame queue over its limit: disposed before it is released.
Cancel(c) ==
    /\ call[c].pc = "up"
    /\ call' = [call EXCEPT ![c].pc = "disposed"]
    /\ chain' = chain \o DisposeTask(c)
    /\ UNCHANGED <<conn, holder, establishing, shut, live, store, runner, spool>>

Shutdown ==
    /\ ~shut
    /\ shut' = TRUE
    /\ conn' = None
    /\ IF conn # None /\ call[conn].pc = "up"
       THEN /\ call' = [call EXCEPT ![conn].pc = "disposed"]
            /\ chain' = chain \o DisposeTask(conn)
       ELSE UNCHANGED <<call, chain>>
    /\ UNCHANGED <<holder, establishing, live, store, runner, spool>>

\* The Core process dies, or ends after Shutdown, and is started again: only
\* the tables of the store remain.
CoreRestart ==
    /\ call' = [c \in Calls |->
                 IF call[c].pc = "unused" THEN NoCall
                 ELSE [call[c] EXCEPT !.pc = "failed", !.terminated = TRUE]]
    /\ conn' = None
    /\ holder' = None
    /\ establishing' = FALSE
    /\ shut' = FALSE
    /\ chain' = <<>>
    /\ live' = {}
    /\ UNCHANGED <<store, runner, spool>>

\* The five minutes of a token pass; a replacement expires after the token it
\* replaces.
Expire(t) ==
    /\ tokens[t] # "absent" /\ t \notin expired
    /\ \A n \in 0..MaxRotation : n < t[2] => <<t[1], n>> \in expired
    /\ expired' = expired \cup {t}
    /\ UNCHANGED <<server, tokens, runner, spool>>

ServerStep ==
    \/ RunOpen \/ SaveSession \/ RunClose
    \/ \E c \in Calls : ResolveApplication(c) \/ Establish(c)

Next ==
    \/ \E c \in Calls : RunnerStart(c) \/ Reconnect(c)
    \/ ReceiveWelcome
    \/ SaveResumeToken
    \/ RunnerExit
    \/ \E c \in Calls : BeginHandshake(c) \/ ResolveFails(c)
    \/ ServerStep
    \/ \E c \in Calls : HandleComplete(c)
    \/ RunComplete
    \/ \E c \in Calls : Teardown(c) \/ Cancel(c)
    \/ Shutdown
    \/ CoreRestart
    \/ \E t \in Tokens : Expire(t)

Spec == Init /\ [][Next]_vars

\* The resolver answers, and openSession, closeSession and the continuations
\* behind them run as long as Core does.  Nothing is assumed of the sink that
\* complete waits for: LocalRun shows that it may never return.
FairSpec == Spec /\ WF_vars(ServerStep)

----------------------------------------------------------------------------
StreamType == [pc : {"unused", "hello", "resolving", "opening", "opened", "closing",
                     "up", "disposed", "failed"},
               token : Tokens \cup {None}, existing : Calls \cup {None},
               session : Calls \cup {None}, next : Tokens \cup {None},
               terminated : BOOLEAN, welcome : BOOLEAN]

TaskType == [op : {"open", "close", "complete"}, call : Calls \cup {None},
             session : Calls \cup {None}]

RunnerType == [pc : {"down", "connecting", "welcomed", "up"},
               call : Calls \cup {None}, token : Tokens \cup {None}]

\* Every variable keeps its type.
TypeOK ==
    /\ call \in [Calls -> StreamType]
    /\ conn \in Calls \cup {None}
    /\ holder \in Calls \cup {None}
    /\ establishing \in BOOLEAN
    /\ shut \in BOOLEAN
    /\ chain \in Seq(TaskType)
    /\ live \subseteq Calls
    /\ tokens \in [Tokens -> {"absent", "fresh", "consumed"}]
    /\ expired \subseteq Tokens
    /\ runner \in RunnerType
    /\ spool \in Tokens \cup {None}

\* A connection that is not disposed is the registered one and holds the
\* current generation: whatever handshakes and teardowns overlap, no superseded
\* connection goes on serving frames.
OneServing == \A c \in Calls : call[c].pc = "up" => conn = c /\ holder = c

\* A handshake that was under way when shutdownOnce cleared the connections
\* does not register one afterwards.
NothingAfterShutdown == shut => conn = None /\ \A c \in Calls : call[c].pc # "up"

\* Until it expires, the token in the Runner's spool is accepted, whichever
\* process died between the rotation, the Welcome and the save.
SpoolTokenAccepted ==
    spool # None /\ spool \notin expired => Rotates(spool) \/ Replays(spool)

\* The store is never more than one rotation ahead of the spool, which is why
\* replaying the last rotation is enough.
SpoolOneBehind ==
    \A t \in Tokens : tokens[t] = "fresh" /\ spool # None /\ spool[1] = t[1] =>
        t[2] \in {spool[2], spool[2] + 1}

\* Of the tokens of a session at most one can still be rotated.
OneFreshToken ==
    \A t, u \in Tokens : tokens[t] = "fresh" /\ tokens[u] = "fresh" /\ t[1] = u[1] => t = u

\* The promise chain is held by a completion whose sink has not returned.
SinkHoldsChain == chain # <<>> /\ Head(chain).op = "complete"

\* The key of a handshake is given back (the finally of establishSession), so
\* that the Runner is not locked out by RunnerAlreadyConnected for ever.  The
\* one way in which it is not: a completion ahead of openSession on the chain
\* waits for a sink that never returns.
EstablishingEnds == establishing ~> (~establishing \/ []SinkHoldsChain)

\* "keeps the live session identity after a successful resume": the session of
\* a serving connection is live.  The code does not have this property.
ServingIsLive == \A c \in Calls : call[c].pc = "up" => call[c].session \in live
=============================================================================

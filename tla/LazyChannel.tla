----------------------------- MODULE LazyChannel -----------------------------
(***************************************************************************)
(* The lazily connected AMQP channel of a process: getChannel(),           *)
(* connectAmqp(), its reset handlers and closeAmqp() of OutboxRelayService; *)
(* GatewayOutboxRelayService and RetryPublisherService repeat the pattern. *)
(*                                                                         *)
(* Callers are the concurrent publishes of the process.  A promise stored  *)
(* in this.connecting is named by the caller whose getChannel() made it.   *)
(* Continuations of an await run before the next I/O event, so a promise   *)
(* settles and its waiters go on in one step.                              *)
(***************************************************************************)
EXTENDS Integers, FiniteSets

CONSTANTS Callers,      \* concurrent publishes
          None,         \* no promise in this.connecting
          MaxOutages    \* bound: outages, lost connections, crashes, shutdowns

ASSUME ChannelAssumption ==
    /\ None \notin Callers
    /\ MaxOutages \in Nat

VARIABLES brokerUp,     \* RabbitMQ accepts connections
          outages,      \* how many of them so far
          connecting,   \* this.connecting
          promise,      \* state of the promise each caller's connectAmqp() made
          channel,      \* this.amqpChannel, "none" or "open"
          sockets,      \* AMQP connections of the process the broker sees
          caller,       \* what each caller is doing
          destroyed     \* onModuleDestroy() has run

vars == <<brokerUp, outages, connecting, promise, channel, sockets, caller, destroyed>>

Init ==
    /\ brokerUp = TRUE
    /\ outages = 0
    /\ connecting = None
    /\ promise = [c \in Callers |-> "none"]
    /\ channel = "none"
    /\ sockets = 0
    /\ caller = [c \in Callers |-> "idle"]
    /\ destroyed = FALSE

------------------------------------------------------------------------------
\* getChannel(): the cached channel.
GetCached(c) ==
    /\ caller[c] = "idle"
    /\ channel = "open"
    /\ caller' = [caller EXCEPT ![c] = "publishing"]
    /\ UNCHANGED <<brokerUp, outages, connecting, promise, channel, sockets, destroyed>>

\* getChannel(): await this.connecting, pending or settled long ago.  A
\* rejected promise throws; a resolved one hands over this.amqpChannel, which
\* throws on use when it is undefined.
GetConnecting(c) ==
    /\ caller[c] = "idle"
    /\ channel = "none"
    /\ connecting # None
    /\ caller' = [caller EXCEPT ![c] = IF promise[connecting] = "connect" \/ promise[connecting] = "openChannel"
                                       THEN "waiting" ELSE "failed"]
    /\ UNCHANGED <<brokerUp, outages, connecting, promise, channel, sockets, destroyed>>

\* Mutant: getChannel() without the check of this.connecting.
GetFreshUnchecked(c) ==
    /\ caller[c] = "idle"
    /\ channel = "none"
    /\ connecting' = c
    /\ promise' = [promise EXCEPT ![c] = "connect"]
    /\ caller' = [caller EXCEPT ![c] = "waiting"]
    /\ UNCHANGED <<brokerUp, outages, channel, sockets, destroyed>>

\* getChannel(): this.connecting = this.connectAmqp().
GetFresh(c) ==
    /\ caller[c] = "idle"
    /\ channel = "none"
    /\ connecting = None
    /\ connecting' = c
    /\ promise' = [promise EXCEPT ![c] = "connect"]
    /\ caller' = [caller EXCEPT ![c] = "waiting"]
    /\ UNCHANGED <<brokerUp, outages, channel, sockets, destroyed>>

\* A publish with the channel ends, or markFailedAttempt() has run; the next
\* row or poll tick calls getChannel() again.
CallerDone(c) ==
    /\ caller[c] \in {"publishing", "failed"}
    /\ caller' = [caller EXCEPT ![c] = "idle"]
    /\ UNCHANGED <<brokerUp, outages, connecting, promise, channel, sockets, destroyed>>

\* The callers that await the promise of c.
Waiters(c) == {d \in Callers : caller[d] = "waiting" /\ connecting = c}

\* connectAmqp(): amqplib.connect() resolves.
Connected(c) ==
    /\ promise[c] = "connect"
    /\ brokerUp
    /\ sockets' = sockets + 1
    /\ promise' = [promise EXCEPT ![c] = "openChannel"]
    /\ UNCHANGED <<brokerUp, outages, connecting, channel, caller, destroyed>>

\* Mutant: the channel is stored, the promise never settles.
ChannelOpenedUnresolved(c) ==
    /\ promise[c] = "openChannel"
    /\ channel' = "open"
    /\ UNCHANGED <<brokerUp, outages, connecting, promise, sockets, caller, destroyed>>

\* connectAmqp(): createConfirmChannel() resolves and the handlers are set.
ChannelOpened(c) ==
    /\ promise[c] = "openChannel"
    /\ channel' = "open"
    /\ promise' = [promise EXCEPT ![c] = "resolved"]
    /\ caller' = [d \in Callers |-> IF d \in Waiters(c) THEN "publishing" ELSE caller[d]]
    /\ UNCHANGED <<brokerUp, outages, connecting, sockets, destroyed>>

\* The promise of c is rejected and its waiters throw.  Nothing clears
\* this.connecting.
Rejects(c) ==
    /\ promise[c] = "connect"
    /\ promise' = [promise EXCEPT ![c] = "rejected"]
    /\ caller' = [d \in Callers |-> IF d \in Waiters(c) THEN "failed" ELSE caller[d]]
    /\ UNCHANGED <<brokerUp, connecting, channel, sockets, destroyed>>

\* connectAmqp(): amqplib.connect() rejects while the broker is down.
ConnectFails(c) == ~brokerUp /\ Rejects(c) /\ UNCHANGED outages

\* connectAmqp(): one connect is refused or times out with the broker up.
ConnectRefused(c) ==
    /\ brokerUp
    /\ outages < MaxOutages
    /\ outages' = outages + 1
    /\ Rejects(c)

\* Mutant: reset() forgets this.connecting = undefined.
ResetKeepsPromise ==
    /\ channel' = "none"
    /\ UNCHANGED connecting

\* reset(), on the 'error' or 'close' event of the connection.
Reset ==
    /\ channel' = "none"
    /\ connecting' = None

\* Mutant: one connection is written off, whether there is one or not.
ConnectionLostUnchecked ==
    LET opening == {c \in Callers : promise[c] = "openChannel"}
        hit == {d \in Callers : caller[d] = "publishing"} \cup UNION {Waiters(c) : c \in opening}
    IN  /\ sockets' = sockets - 1
        /\ IF channel = "open" THEN Reset ELSE UNCHANGED <<channel, connecting>>
        /\ promise' = [c \in Callers |-> IF c \in opening THEN "rejected" ELSE promise[c]]
        /\ caller' = [d \in Callers |-> IF d \in hit THEN "failed" ELSE caller[d]]

\* The connections of the process end.  Publishes on the channel fail and
\* reset() runs, if connectAmqp() got as far as registering it; before that,
\* createConfirmChannel() rejects and nothing clears this.connecting.
ConnectionLost ==
    LET opening == {c \in Callers : promise[c] = "openChannel"}
        hit == {d \in Callers : caller[d] = "publishing"} \cup UNION {Waiters(c) : c \in opening}
    IN  /\ sockets' = 0
        /\ IF channel = "open" THEN Reset ELSE UNCHANGED <<channel, connecting>>
        /\ promise' = [c \in Callers |-> IF c \in opening THEN "rejected" ELSE promise[c]]
        /\ caller' = [d \in Callers |-> IF d \in hit THEN "failed" ELSE caller[d]]

\* A new process: nothing is cached.
FreshProcess ==
    /\ connecting' = None
    /\ promise' = [c \in Callers |-> "none"]
    /\ channel' = "none"
    /\ sockets' = 0
    /\ caller' = [c \in Callers |-> "idle"]
    /\ destroyed' = FALSE

BrokerDown ==
    /\ brokerUp
    /\ outages < MaxOutages
    /\ brokerUp' = FALSE
    /\ outages' = outages + 1

\* The broker goes away.  An 'error' event that finds no listener, on this
\* connection while createConfirmChannel() is pending or on any other of the
\* process, ends the process; a broker that shuts down in good order sends no
\* 'error'.
BrokerFails ==
    /\ BrokerDown
    /\ (ConnectionLost /\ UNCHANGED destroyed) \/ FreshProcess

\* The broker stays: this connection alone is lost, another part of the process
\* is hit, or the process dies.
SingleLoss ==
    /\ outages < MaxOutages
    /\ outages' = outages + 1
    /\ UNCHANGED brokerUp
    /\ \/ sockets > 0 /\ ConnectionLost /\ UNCHANGED destroyed
       \/ UNCHANGED <<connecting, promise, channel, sockets, caller, destroyed>>
       \/ FreshProcess

BrokerRecovers ==
    /\ ~brokerUp
    /\ brokerUp' = TRUE
    /\ UNCHANGED <<outages, connecting, promise, channel, sockets, caller, destroyed>>

\* onModuleDestroy(): closeAmqp() closes this.amqpConnection, the 'close'
\* event runs reset().
CloseAmqp ==
    /\ ~destroyed
    /\ outages < MaxOutages
    /\ outages' = outages + 1
    /\ destroyed' = TRUE
    /\ ConnectionLost
    /\ UNCHANGED brokerUp

\* The process exits and is started again.
Restart ==
    /\ destroyed
    /\ FreshProcess
    /\ UNCHANGED <<brokerUp, outages>>

CallerStep(c) ==
    \/ GetCached(c)
    \/ GetConnecting(c)
    \/ GetFresh(c)
    \/ CallerDone(c)

ConnectStep(c) ==
    \/ Connected(c)
    \/ ChannelOpened(c)
    \/ ConnectFails(c)
    \/ ConnectRefused(c)

Running ==
    \/ \E c \in Callers : CallerStep(c) \/ ConnectStep(c)
    \/ BrokerFails
    \/ BrokerRecovers
    \/ SingleLoss

Next == Running \/ CloseAmqp \/ Restart

Spec == Init /\ [][Next]_vars

\* Timers and retries keep calling, connects settle, the broker comes back and
\* a process that was shut down is started again.
Fairness ==
    /\ \A c \in Callers : WF_vars(CallerStep(c)) /\ WF_vars(ConnectStep(c))
    /\ WF_vars(BrokerRecovers)
    /\ WF_vars(Restart)

\* Without shutdowns: what the process promises must not need a restart.
RunningSpec == Init /\ [][Running]_vars /\ Fairness

------------------------------------------------------------------------------
\* Types of the state of getChannel() and connectAmqp().
TypeOK ==
    /\ brokerUp \in BOOLEAN
    /\ outages \in 0..MaxOutages
    /\ connecting \in Callers \cup {None}
    /\ promise \in [Callers -> {"none", "connect", "openChannel", "resolved", "rejected"}]
    /\ channel \in {"none", "open"}
    /\ sockets \in Nat
    /\ caller \in [Callers -> {"idle", "waiting", "publishing", "failed"}]
    /\ destroyed \in BOOLEAN

\* However publishes, connection losses and shutdowns interleave, the process
\* never holds more than one AMQP connection: concurrent getChannel() calls
\* share one connectAmqp().
OneConnection == sockets <= 1

\* Whoever waits in getChannel() awaits a connectAmqp() that is still under way,
\* never one that was settled or forgotten: the safety behind CallersReturn.
WaitersAwaitPending ==
    \A c \in Callers :
        caller[c] = "waiting" => connecting # None /\ promise[connecting] \in {"connect", "openChannel"}

\* Why: the cached channel was made by the promise in this.connecting, a
\* connectAmqp() under way is that promise too, there is no channel beside it,
\* the one socket belongs to it or to the channel, and all waiters await it.
ConnectionInv ==
    /\ channel = "open" => connecting # None /\ promise[connecting] = "resolved"
    /\ \A c \in Callers : promise[c] \in {"connect", "openChannel"} => connecting = c /\ channel = "none"
    /\ \A c \in Callers : promise[c] = "connect" => sockets = 0
    /\ WaitersAwaitPending
    /\ sockets = IF channel = "open" \/ \E c \in Callers : promise[c] = "openChannel" THEN 1 ELSE 0

\* The class comment of OutboxRelayService: after a connection error the next
\* poll reconnects, so with the broker back for good the channel is open again.
Reconnects == []<>(channel = "open")

\* What keeps it closed for ever: a rejected promise left in this.connecting.
RejectionStuck == connecting # None /\ promise[connecting] = "rejected"

\* And nothing inside the process clears it, no reset() of a connection that is
\* lost later, no other caller, no recovery of the broker: from then on every
\* getChannel() finds no channel until a new process starts.
OnlyRestartUnsticks == [][RejectionStuck => FreshProcess \/ (RejectionStuck' /\ channel' = "none")]_vars

\* Nobody waits for ever in getChannel().
CallersReturn == \A c \in Callers : caller[c] = "waiting" ~> caller[c] # "waiting"

==============================================================================

---------------------------- MODULE ServiceProcess ----------------------------
(***************************************************************************)
(* The messaging process and its AMQP connections: the RMQ transport that  *)
(* main.ts starts, the start-up hooks of ReliabilityModule                 *)
(* (TopologyService, DlqConsumerService) that run after it, the relay's    *)
(* channel (LazyChannel), the readiness probe (RabbitMQHealthIndicator)    *)
(* and the lifecycle records (EventLifecyclePublisher).                    *)
(*                                                                         *)
(* Each part has a connection of its own.  The transport's connects again  *)
(* by itself, the relay listens for 'error' on its own, and an abrupt loss *)
(* of any other ends the process.  A broker that closes in good order      *)
(* raises 'close' alone, which those others do not hear.  A process that   *)
(* ends is started again.                                                  *)
(***************************************************************************)
EXTENDS LazyChannel

CONSTANTS MaxTimeouts,  \* bound: readiness probes of one process that time out
          Tracing       \* EVENT_LIFECYCLE_TRACING

ASSUME ProcessAssumption ==
    /\ MaxTimeouts \in Nat
    /\ Tracing \in BOOLEAN

VARIABLES agree,        \* main.ts and TopologyService assert messaging.work with the
                        \* same arguments: FALSE in this commit, where only the latter
                        \* gives x-dead-letter-exchange
          phase,        \* "starting" in startAllMicroservices(), "booting" in the hooks
                        \* of app.listen(), then "running"
          transport,    \* the RMQ transport's consumer of messaging.work
          topology,     \* TopologyService.onModuleInit()
          declared,     \* the part of the topology the broker has
          dlq,          \* DlqConsumerService
          probe,        \* the readiness probe under way
          timeouts,     \* probes of this process that timed out
          late,         \* connects of those that are still pending
          leaked,       \* connections of those that nobody will close
          lifecycle,    \* EventLifecyclePublisher's connection
          record        \* a handler's publish() of a record

hookVars == <<agree, phase, transport, topology, declared, dlq>>
probeVars == <<probe, timeouts, late, leaked>>
recordVars == <<lifecycle, record>>
processVars == <<vars, hookVars, probeVars, recordVars>>

\* messaging.work, messaging.dlq, and the exchanges, retry queues and bindings.
Everything == {"work", "dlq", "rest"}

ProcessInit ==
    /\ Init
    /\ agree \in BOOLEAN
    /\ phase = "starting"
    /\ transport = "connect"
    /\ topology = "connect"
    /\ declared = {}
    /\ dlq = "connect"
    /\ probe = "none"
    /\ timeouts = 0
    /\ late = 0
    /\ leaked = 0
    /\ lifecycle = "unused"
    /\ record = "idle"

------------------------------------------------------------------------------
\* The process ends and a new one starts: all but the broker begins anew.
Reboot ==
    /\ FreshProcess
    /\ phase' = "starting"
    /\ transport' = "connect"
    /\ topology' = "connect"
    /\ dlq' = "connect"
    /\ probe' = "none"
    /\ timeouts' = 0
    /\ late' = 0
    /\ leaked' = 0
    /\ lifecycle' = "unused"
    /\ record' = "idle"
    /\ UNCHANGED <<declared, agree>>

\* A hook throws, listen() rejects and the process ends.
HookThrows == Reboot /\ UNCHANGED <<brokerUp, outages>>

\* The transport connects, as soon as there is a broker and again after every
\* loss, asserts messaging.work with the queueOptions of main.ts and consumes
\* it.  The first time, startAllMicroservices() returns and listen() starts the
\* hooks.
TransportConsumes ==
    /\ transport = "connect"
    /\ brokerUp
    /\ transport' = "consuming"
    /\ declared' = declared \cup {"work"}
    /\ phase' = IF phase = "starting" THEN "booting" ELSE phase
    /\ UNCHANGED <<vars, agree, topology, dlq, probeVars, recordVars>>

TopologyConnects ==
    /\ phase = "booting"
    /\ topology = "connect"
    /\ brokerUp
    /\ topology' = "assertDlq"
    /\ UNCHANGED <<vars, agree, phase, transport, declared, dlq, probeVars, recordVars>>

\* assertTopology() as far as messaging.dlq.  Declarations are durable and
\* asserting them again changes nothing.
TopologyAssertsDlq ==
    /\ topology = "assertDlq"
    /\ declared' = declared \cup {"dlq"}
    /\ topology' = "assertRest"
    /\ UNCHANGED <<vars, agree, phase, transport, dlq, probeVars, recordVars>>

\* Mutant: the refusal is logged and swallowed.
RefusalIsSwallowed ==
    /\ topology = "assertRest"
    /\ \/ /\ agree \/ "work" \notin declared
          /\ declared' = Everything
          /\ topology' = "done"
          /\ UNCHANGED <<vars, agree, phase, transport, dlq, probeVars, recordVars>>
       \/ /\ ~agree /\ "work" \in declared
          /\ topology' = "done"
          /\ UNCHANGED <<vars, agree, phase, transport, declared, dlq, probeVars, recordVars>>

\* The retry and work queues, the bindings and the event bus; the connection is
\* closed.  The broker refuses messaging.work if it has the queue with other
\* arguments.
TopologyAssertsRest ==
    /\ topology = "assertRest"
    /\ \/ /\ agree \/ "work" \notin declared
          /\ declared' = Everything
          /\ topology' = "done"
          /\ UNCHANGED <<vars, agree, phase, transport, dlq, probeVars, recordVars>>
       \/ ~agree /\ "work" \in declared /\ HookThrows

\* amqplib.connect() rejects: "the service must not start".
TopologyFails ==
    /\ phase = "booting"
    /\ topology = "connect"
    /\ ~brokerUp
    /\ HookThrows

DlqConnects ==
    /\ phase = "booting"
    /\ dlq = "connect"
    /\ brokerUp
    /\ dlq' = "consume"
    /\ UNCHANGED <<vars, agree, phase, transport, topology, declared, probeVars, recordVars>>

\* consume() starts, or throws because the broker has no such queue yet: the
\* two hooks of one module run side by side.
DlqConsumes ==
    /\ dlq = "consume"
    /\ \/ /\ "dlq" \in declared
          /\ dlq' = "consuming"
          /\ UNCHANGED <<vars, agree, phase, transport, topology, declared, probeVars, recordVars>>
       \/ "dlq" \notin declared /\ HookThrows

\* Mutant: the hook logs and returns, the process runs without its consumer.
DlqFailsQuietly ==
    /\ phase = "booting"
    /\ dlq = "connect"
    /\ ~brokerUp
    /\ dlq' = "closed"
    /\ UNCHANGED <<vars, agree, phase, transport, topology, declared, probeVars, recordVars>>

\* amqplib.connect() rejects.
DlqFails ==
    /\ phase = "booting"
    /\ dlq = "connect"
    /\ ~brokerUp
    /\ HookThrows

\* The hooks have returned: the relay's timers and the HTTP server run.
Started ==
    /\ phase = "booting"
    /\ topology = "done"
    /\ dlq \notin {"connect", "consume"}
    /\ phase' = "running"
    /\ UNCHANGED <<vars, agree, transport, topology, declared, dlq, probeVars, recordVars>>

------------------------------------------------------------------------------
\* The relay's publishes and their connects, once the process runs.
RelayStep(c) ==
    /\ phase = "running"
    /\ CallerStep(c) \/ ConnectStep(c)
    /\ UNCHANGED <<hookVars, probeVars, recordVars>>

\* isHealthy(): connectWithTimeout() starts a connect and a timer.
ProbeStarts ==
    /\ phase = "running"
    /\ probe = "none"
    /\ probe' = "connect"
    /\ UNCHANGED <<vars, hookVars, timeouts, late, leaked, recordVars>>

ProbeConnects ==
    /\ probe = "connect"
    /\ brokerUp
    /\ probe' = "close"
    /\ UNCHANGED <<vars, hookVars, timeouts, late, leaked, recordVars>>

\* The connect rejects; finally finds no connection.
ProbeFails ==
    /\ probe = "connect"
    /\ ~brokerUp
    /\ probe' = "none"
    /\ UNCHANGED <<vars, hookVars, timeouts, late, leaked, recordVars>>

\* Mutant: the connection is not closed.
ProbeForgetsToClose ==
    /\ probe = "close"
    /\ probe' = "none"
    /\ leaked' = leaked + 1
    /\ UNCHANGED <<vars, hookVars, timeouts, late, recordVars>>

\* connection.close(), and the answer.
ProbeCloses ==
    /\ probe = "close"
    /\ probe' = "none"
    /\ UNCHANGED <<vars, hookVars, timeouts, late, leaked, recordVars>>

\* The timer wins Promise.race(): the answer is 503, the connect goes on.
ProbeTimesOut ==
    /\ probe = "connect"
    /\ timeouts < MaxTimeouts
    /\ probe' = "none"
    /\ timeouts' = timeouts + 1
    /\ late' = late + 1
    /\ UNCHANGED <<vars, hookVars, leaked, recordVars>>

\* It settles when nobody awaits it any more: a connection that stays open.
LateConnect ==
    /\ late > 0
    /\ late' = late - 1
    /\ leaked' = IF brokerUp THEN leaked + 1 ELSE leaked
    /\ UNCHANGED <<vars, hookVars, probe, timeouts, recordVars>>

ProbeStep == ProbeConnects \/ ProbeFails \/ ProbeCloses \/ ProbeTimesOut

------------------------------------------------------------------------------
\* publish(): ensureChannel() starts connect() once, or awaits it.  With a
\* channel, open or long dead, or with none after a failed connect(), publish()
\* returns at once and changes nothing.  The handlers that call it run as soon
\* as the transport has consumed.
PublishRecord ==
    /\ Tracing
    /\ phase # "starting"
    /\ record = "idle"
    /\ lifecycle \in {"unused", "connect", "open-channel"}
    /\ record' = "waiting"
    /\ lifecycle' = IF lifecycle = "unused" THEN "connect" ELSE lifecycle
    /\ UNCHANGED <<vars, hookVars, probeVars>>

LifecycleConnects ==
    /\ lifecycle = "connect"
    /\ brokerUp
    /\ lifecycle' = "open-channel"
    /\ UNCHANGED <<vars, hookVars, probeVars, record>>

LifecycleOpens ==
    /\ lifecycle = "open-channel"
    /\ lifecycle' = "open"
    /\ record' = "idle"
    /\ UNCHANGED <<vars, hookVars, probeVars>>

\* Mutant: the catch block leaves the promise pending.
LifecycleFailsUnsettled ==
    /\ lifecycle = "connect"
    /\ ~brokerUp
    /\ lifecycle' = "undefined"
    /\ UNCHANGED <<vars, hookVars, probeVars, record>>

\* connect() swallows the error; this.connecting stays, so no later call
\* connects again.
LifecycleFails ==
    /\ lifecycle = "connect"
    /\ ~brokerUp
    /\ lifecycle' = "undefined"
    /\ record' = "idle"
    /\ UNCHANGED <<vars, hookVars, probeVars>>

LifecycleStep == LifecycleConnects \/ LifecycleOpens \/ LifecycleFails

------------------------------------------------------------------------------
\* A connection on which nobody listens for 'error'.
Unheard ==
    \/ topology \in {"assertDlq", "assertRest"}
    \/ dlq \in {"consume", "consuming"}
    \/ probe = "close"
    \/ leaked > 0
    \/ lifecycle \in {"open-channel", "open"}
    \/ \E c \in Callers : promise[c] = "openChannel"

\* A hook's connection ends: whichever event says so, the hook throws.
HookInterrupted == topology \in {"assertDlq", "assertRest"} \/ dlq = "consume"

\* All connections end in good order.  The transport waits for the broker,
\* DlqConsumerService does not notice, the lifecycle channel is kept, though
\* dead.
ClosedInOrder ==
    /\ ~HookInterrupted
    /\ ConnectionLost
    /\ transport' = IF transport = "consuming" THEN "connect" ELSE transport
    /\ dlq' = IF dlq = "consuming" THEN "silent" ELSE dlq
    /\ probe' = IF probe = "close" THEN "none" ELSE probe
    /\ leaked' = 0
    /\ lifecycle' = CASE lifecycle = "open" -> "dead"
                      [] lifecycle = "open-channel" -> "undefined"
                      [] OTHER -> lifecycle
    /\ record' = IF lifecycle = "open-channel" THEN "idle" ELSE record
    /\ UNCHANGED <<destroyed, agree, phase, topology, declared, timeouts, late>>

ProcessBrokerFails ==
    /\ BrokerDown
    /\ ClosedInOrder \/ (Unheard /\ Reboot)

ProcessBrokerRecovers == BrokerRecovers /\ UNCHANGED <<hookVars, probeVars, recordVars>>

\* The broker stays: the relay's or the transport's connection alone ends, the
\* broker closes or cancels the DLQ consumer, or the process dies, of an 'error'
\* or otherwise.
ProcessSingleLoss ==
    /\ outages < MaxOutages
    /\ outages' = outages + 1
    /\ UNCHANGED brokerUp
    /\ \/ /\ sockets > 0
          /\ ConnectionLost
          /\ UNCHANGED <<destroyed, hookVars, probeVars, recordVars>>
       \/ /\ transport = "consuming"
          /\ transport' = "connect"
          /\ UNCHANGED <<connecting, promise, channel, sockets, caller, destroyed,
                         agree, phase, topology, declared, dlq, probeVars, recordVars>>
       \/ /\ dlq = "consuming"
          /\ dlq' = "silent"
          /\ UNCHANGED <<connecting, promise, channel, sockets, caller, destroyed,
                         agree, phase, transport, topology, declared, probeVars, recordVars>>
       \/ Reboot

\* Mutant: the relay's connection is closed before reset() is registered.
ShutdownWithoutReset ==
    /\ phase = "running"
    /\ ~destroyed
    /\ outages < MaxOutages
    /\ outages' = outages + 1
    /\ destroyed' = TRUE
    /\ sockets' = 0
    /\ dlq' = "closed"
    /\ transport' = "closed"
    /\ UNCHANGED <<brokerUp, connecting, promise, channel, caller, agree, phase, topology, declared, probeVars, recordVars>>

\* SIGTERM: OutboxRelayService and DlqConsumerService close what is theirs, then
\* Nest the transport; the lifecycle publisher's close() has no caller.
Shutdown ==
    /\ phase = "running"
    /\ CloseAmqp
    /\ dlq' = "closed"
    /\ transport' = "closed"
    /\ UNCHANGED <<agree, phase, topology, declared, probeVars, recordVars>>

Exits ==
    /\ destroyed
    /\ Reboot
    /\ UNCHANGED <<brokerUp, outages>>

TopologyStep == TopologyConnects \/ TopologyAssertsDlq \/ TopologyAssertsRest \/ TopologyFails
DlqStep == DlqConnects \/ DlqConsumes \/ DlqFails
Faults == ProcessBrokerFails \/ ProcessSingleLoss \/ Shutdown
Client == ProbeStarts \/ PublishRecord

ProcessNext ==
    \/ TransportConsumes
    \/ TopologyStep
    \/ DlqStep
    \/ Started
    \/ \E c \in Callers : RelayStep(c)
    \/ ProbeStep
    \/ LateConnect
    \/ LifecycleStep
    \/ Client
    \/ Faults
    \/ ProcessBrokerRecovers
    \/ Exits

ProcessSpec == ProcessInit /\ [][ProcessNext]_processVars

\* Hooks, publishes and connects go on, the transport's included, the broker comes back and a process
\* that ended is started again.  Nothing is assumed of probes and records.
ProcessFairness ==
    /\ WF_processVars(TransportConsumes)
    /\ WF_processVars(TopologyStep)
    /\ WF_processVars(DlqStep)
    /\ WF_processVars(Started)
    /\ \A c \in Callers :
         /\ WF_processVars(phase = "running" /\ CallerStep(c) /\ UNCHANGED <<hookVars, probeVars, recordVars>>)
         /\ WF_processVars(phase = "running" /\ ConnectStep(c) /\ UNCHANGED <<hookVars, probeVars, recordVars>>)
    /\ WF_processVars(LifecycleStep)
    /\ WF_processVars(ProcessBrokerRecovers)
    /\ WF_processVars(Exits)

ProcessFairSpec == ProcessSpec /\ ProcessFairness

------------------------------------------------------------------------------
\* Types of the state of the hooks, the probe and the lifecycle publisher.
ProcessTypeOK ==
    /\ TypeOK
    /\ agree \in BOOLEAN
    /\ phase \in {"starting", "booting", "running"}
    /\ transport \in {"connect", "consuming", "closed"}
    /\ topology \in {"connect", "assertDlq", "assertRest", "done"}
    /\ declared \subseteq Everything
    /\ dlq \in {"connect", "consume", "consuming", "silent", "closed"}
    /\ probe \in {"none", "connect", "close"}
    /\ timeouts \in 0..MaxTimeouts
    /\ late \in 0..MaxTimeouts
    /\ leaked \in Nat
    /\ lifecycle \in {"unused", "connect", "open-channel", "open", "dead", "undefined"}
    /\ record \in {"idle", "waiting"}

\* main.ts: "TopologyService.onModuleInit() runs before startAllMicroservices()
\* [...] This guarantees the DLX/DLQ/retry topology exists before the first
\* message is delivered to our consumer."
TopologyBeforeConsumer == transport = "consuming" => declared = Everything

\* TopologyService: "if topology cannot be asserted, the service must not start".
\* The transport declares messaging.work first, so with other arguments than
\* TopologyService's no process ever runs, however many boots and outages there
\* are: the relay never publishes and no probe is answered, while the handlers
\* of the booting processes consume.  ADR-001 would have it otherwise: "Restart
\* the affected service - TopologyService will re-assert the topology".
RefusedNeverRuns == ~agree => phase # "running"

\* A readiness probe leaves a connection behind only if its timer won the race
\* against amqplib.connect().
LeaksOnlyAfterTimeout == leaked + late <= timeouts

\* DlqConsumerService connects once, and yet an abrupt loss, a crash or a
\* shutdown never leaves messaging.dlq without a consumer for good: the process
\* ends and comes back with one.  What does is a close or cancel in good order,
\* or a broker that never gets its first topology because consume() always runs
\* before the queue is declared.  A service whose topology is refused is another
\* matter (RefusedNeverRuns).
DlqConsumerReturns ==
    agree /\ <>("dlq" \in declared) => <>[](dlq = "silent") \/ []<>(dlq = "consuming")

\* The same for the relay's channel, inside a process that other connections
\* can end: only a rejected connect keeps it closed.
RelayReconnects ==
    agree /\ <>("dlq" \in declared) => <>[]RejectionStuck \/ []<>(channel = "open")

\* A handler that publishes a lifecycle record is never held up for ever.
RecordsReturn == record = "waiting" ~> record = "idle"

\* The process as a whole does nothing to the relay's channel that LazyChannel
\* does not allow, so what is proved there holds here.
ImplementsChannel == Spec

==============================================================================

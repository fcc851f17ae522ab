------------------------ MODULE ServiceProcess_proofs ------------------------
(***************************************************************************)
(* Proofs about the messaging process: what holds of its hooks and its     *)
(* probe, and that its channel stays one of LazyChannel.                   *)
(***************************************************************************)
EXTENDS ServiceProcess, TLAPS

------------------------------------------------------------------------------
\* The lazily connected channel, for any number of callers and broker outages.

\* Every step keeps the types and the invariant.
LEMMA ConnectionStep == TypeOK /\ ConnectionInv /\ [Next]_vars => TypeOK' /\ ConnectionInv'
<1> SUFFICES ASSUME TypeOK, ConnectionInv, [Next]_vars PROVE TypeOK' /\ ConnectionInv'
  OBVIOUS
<1> USE ChannelAssumption DEF TypeOK, ConnectionInv, WaitersAwaitPending
<1>1. ASSUME NEW c \in Callers, GetCached(c) PROVE TypeOK' /\ ConnectionInv'
  BY <1>1 DEF GetCached
<1>2. ASSUME NEW c \in Callers, GetConnecting(c) PROVE TypeOK' /\ ConnectionInv'
  BY <1>2 DEF GetConnecting
<1>3. ASSUME NEW c \in Callers, GetFresh(c) PROVE TypeOK' /\ ConnectionInv'
  BY <1>3 DEF GetFresh
<1>4. ASSUME NEW c \in Callers, CallerDone(c) PROVE TypeOK' /\ ConnectionInv'
  BY <1>4 DEF CallerDone
<1>5. ASSUME NEW c \in Callers, Connected(c) PROVE TypeOK' /\ ConnectionInv'
  BY <1>5 DEF Connected
<1>6. ASSUME NEW c \in Callers, ChannelOpened(c) PROVE TypeOK' /\ ConnectionInv'
  <2>1. connecting = c /\ connecting' = c /\ \A d \in Callers : caller'[d] # "waiting"
    BY <1>6 DEF ChannelOpened, Waiters
  <2> QED BY <1>6, <2>1 DEF ChannelOpened
<1>7. ASSUME NEW c \in Callers, Rejects(c), outages' \in 0..MaxOutages PROVE TypeOK' /\ ConnectionInv'
  <2>1. connecting = c /\ connecting' = c /\ \A d \in Callers : caller'[d] # "waiting"
    BY <1>7 DEF Rejects, Waiters
  <2> QED BY <1>7, <2>1 DEF Rejects
<1>8. ASSUME ConnectionLost, outages' \in 0..MaxOutages, brokerUp' \in BOOLEAN, destroyed' \in BOOLEAN
      PROVE  TypeOK' /\ ConnectionInv'
  <2>1. CASE channel = "open"
    BY <1>8, <2>1 DEF ConnectionLost, Reset
  <2>2. CASE channel = "none"
    <3> DEFINE opening == {c \in Callers : promise[c] = "openChannel"}
    <3>1. /\ sockets' = 0 /\ channel' = "none" /\ connecting' = connecting
          /\ promise' = [c \in Callers |-> IF c \in opening THEN "rejected" ELSE promise[c]]
          /\ caller' \in [Callers -> {"idle", "waiting", "publishing", "failed"}]
      BY <1>8, <2>2 DEF ConnectionLost
    <3>2. TypeOK'
      BY <1>8, <2>2, <3>1
    <3>3. \A c \in Callers : promise'[c] # "openChannel"
      BY <3>1
    <3>4. \A c \in Callers : promise'[c] = "connect" => promise[c] = "connect"
      BY <3>1
    <3>5. WaitersAwaitPending'
      <4> SUFFICES ASSUME NEW d \in Callers, caller'[d] = "waiting"
                   PROVE  connecting # None /\ promise'[connecting] = "connect"
        BY <3>1
      <4>1. caller[d] = "waiting" /\ \A c \in opening : d \notin Waiters(c)
        BY <1>8 DEF ConnectionLost
      <4>2. connecting # None /\ promise[connecting] \in {"connect", "openChannel"} /\ connecting \in Callers
        BY <4>1
      <4>3. connecting \notin opening
        BY <4>1, <4>2 DEF Waiters
      <4> QED BY <3>1, <4>2, <4>3
    <3> QED BY <2>2, <3>1, <3>2, <3>3, <3>4, <3>5
  <2> QED BY <2>1, <2>2
<1>9. ASSUME FreshProcess, outages' \in 0..MaxOutages, brokerUp' \in BOOLEAN
      PROVE  TypeOK' /\ ConnectionInv'
  BY <1>9 DEF FreshProcess
<1>10. CASE BrokerFails
  <2>1. outages' \in 0..MaxOutages
    BY <1>10 DEF BrokerFails, BrokerDown
  <2>2. brokerUp' \in BOOLEAN
    BY <1>10, Zenon DEF BrokerFails, BrokerDown
  <2> QED BY <1>8, <1>9, <1>10, <2>1, <2>2 DEF BrokerFails
<1>11. CASE BrokerRecovers
  BY <1>11 DEF BrokerRecovers
<1>12. CASE CloseAmqp
  BY <1>8, <1>12 DEF CloseAmqp
<1>13. CASE Restart
  BY <1>9, <1>13 DEF Restart
<1>14. ASSUME UNCHANGED <<brokerUp, connecting, promise, channel, sockets, caller, destroyed>>,
              outages' \in 0..MaxOutages
       PROVE  TypeOK' /\ ConnectionInv'
  <2>1. TypeOK'
    BY <1>14
  <2>2. ConnectionInv'
    BY <1>14
  <2> QED BY <2>1, <2>2
<1>15. CASE SingleLoss
  <2>1. outages' \in 0..MaxOutages
    BY <1>15 DEF SingleLoss
  <2> QED BY <1>8, <1>9, <1>14, <1>15, <2>1 DEF SingleLoss
<1>16. CASE UNCHANGED vars
  BY <1>14, <1>16 DEF vars
<1>17. ASSUME NEW c \in Callers, ConnectFails(c) \/ ConnectRefused(c) PROVE TypeOK' /\ ConnectionInv'
  BY <1>7, <1>17 DEF ConnectFails, ConnectRefused
<1> QED BY <1>1, <1>2, <1>3, <1>4, <1>5, <1>6, <1>10, <1>11, <1>12, <1>13, <1>15, <1>16, <1>17
        DEF Next, Running, CallerStep, ConnectStep

\* The initial state meets both.
LEMMA InitialChannel == Init => TypeOK /\ ConnectionInv
<1> SUFFICES ASSUME Init PROVE TypeOK /\ ConnectionInv
  OBVIOUS
<1>1. brokerUp \in BOOLEAN /\ destroyed \in BOOLEAN
  BY Zenon DEF Init
<1>2. TypeOK
  BY <1>1, ChannelAssumption DEF Init, TypeOK
<1>3. ConnectionInv
  BY DEF Init, ConnectionInv, WaitersAwaitPending
<1> QED BY <1>2, <1>3

\* Types of every reachable state, and why there is one connection.
THEOREM ChannelInvariant == Spec => [](TypeOK /\ ConnectionInv)
BY InitialChannel, ConnectionStep, PTL DEF Spec

\* However getChannel() calls, outages and shutdowns interleave, a process has
\* at most one AMQP connection.
THEOREM AtMostOneConnection == Spec => []OneConnection
<1>1. TypeOK /\ ConnectionInv => OneConnection
  BY DEF ConnectionInv, OneConnection
<1> QED BY <1>1, ChannelInvariant, PTL

\* No reset, outage, crash or shutdown forgets a promise that some getChannel()
\* still awaits.
THEOREM NoWaiterIsForgotten == Spec => []WaitersAwaitPending
<1>1. ConnectionInv => WaitersAwaitPending
  BY DEF ConnectionInv
<1> QED BY <1>1, ChannelInvariant, PTL

\* A step from a stuck state keeps it stuck, unless it is a new process.
LEMMA StuckStep ==
    ASSUME TypeOK, ConnectionInv, RejectionStuck, [Next]_vars
    PROVE  FreshProcess \/ (RejectionStuck' /\ channel' = "none")
<1>1. connecting \in Callers /\ promise[connecting] = "rejected" /\ channel = "none"
  BY DEF TypeOK, ConnectionInv, RejectionStuck
<1>2. \A c \in Callers : promise[c] \notin {"connect", "openChannel"}
  BY <1>1 DEF ConnectionInv
<1>3. ASSUME connecting' = connecting, promise' = promise, channel' = channel
      PROVE  RejectionStuck' /\ channel' = "none"
  BY <1>1, <1>3 DEF RejectionStuck
<1>4. ASSUME NEW c \in Callers, CallerStep(c) PROVE RejectionStuck' /\ channel' = "none"
  BY <1>1, <1>3, <1>4 DEF CallerStep, GetCached, GetConnecting, GetFresh, CallerDone, RejectionStuck
<1>5. ASSUME NEW c \in Callers, ConnectStep(c) PROVE FALSE
  BY <1>2, <1>5 DEF ConnectStep, Connected, ChannelOpened, ConnectFails, ConnectRefused, Rejects
<1>6. ASSUME ConnectionLost PROVE RejectionStuck' /\ channel' = "none"
  <2>1. connecting' = connecting /\ channel' = "none"
    BY <1>1, <1>6 DEF ConnectionLost
  <2>2. promise'[connecting] = "rejected"
    BY <1>1, <1>6 DEF ConnectionLost
  <2> QED BY <1>1, <2>1, <2>2 DEF RejectionStuck
<1>7. CASE Running
  BY <1>3, <1>4, <1>5, <1>6, <1>7 DEF Running, BrokerFails, BrokerRecovers, SingleLoss
<1>8. CASE CloseAmqp \/ Restart
  BY <1>6, <1>8 DEF CloseAmqp, Restart
<1>9. CASE UNCHANGED vars
  BY <1>3, <1>9 DEF vars
<1> QED BY <1>7, <1>8, <1>9 DEF Next

\* A rejected connect outlives everything but its process: the reason why
\* Reconnects fails, however many callers there are.
THEOREM StuckUntilRestart == Spec => OnlyRestartUnsticks
<1>1. TypeOK /\ ConnectionInv /\ [Next]_vars
        => [RejectionStuck => FreshProcess \/ (RejectionStuck' /\ channel' = "none")]_vars
  BY StuckStep
<1> QED BY <1>1, ChannelInvariant, PTL DEF Spec, OnlyRestartUnsticks

------------------------------------------------------------------------------
\* The process around it.

\* The relay's channel as a new process has it.
Fresh ==
    /\ connecting = None
    /\ promise = [c \in Callers |-> "none"]
    /\ channel = "none"
    /\ sockets = 0
    /\ caller = [c \in Callers |-> "idle"]
    /\ destroyed = FALSE

\* A running process has passed both hooks, one that is not running has not
\* touched its channel, the transport's messaging.work is there before any hook
\* runs, and TopologyService passes only if it asks for the same queue.
ProcessInv ==
    /\ phase = "running" => topology = "done" /\ dlq \notin {"connect", "consume"}
    /\ phase # "running" => Fresh
    /\ phase = "starting" => topology = "connect"
    /\ phase # "starting" => "work" \in declared
    /\ topology = "done" => agree
    /\ LeaksOnlyAfterTimeout

\* A hook that throws does so before the channel was touched.
LEMMA HookThrowsIsIdle ==
    ASSUME ProcessTypeOK, ProcessInv, HookThrows, topology # "done" \/ dlq \in {"connect", "consume"}
    PROVE  UNCHANGED vars
<1>1. Fresh
  BY DEF ProcessTypeOK, ProcessInv
<1> QED BY <1>1 DEF HookThrows, Reboot, FreshProcess, Fresh, vars

\* Every step of the process is one of its channel, or leaves it alone.
LEMMA ProcessStepsChannel == ProcessTypeOK /\ ProcessInv /\ [ProcessNext]_processVars => [Next]_vars
<1> SUFFICES ASSUME ProcessTypeOK, ProcessInv, [ProcessNext]_processVars PROVE [Next]_vars
  OBVIOUS
<1>1. CASE TopologyStep
  BY <1>1, HookThrowsIsIdle
     DEF TopologyStep, TopologyConnects, TopologyAssertsDlq, TopologyAssertsRest, TopologyFails
<1>2. CASE DlqStep
  BY <1>2, HookThrowsIsIdle DEF DlqStep, DlqConnects, DlqConsumes, DlqFails
<1>3. CASE Started
  BY <1>3 DEF Started
<1>4. ASSUME NEW c \in Callers, RelayStep(c) PROVE Next
  BY <1>4 DEF RelayStep, Next, Running
<1>5. CASE ProbeStep \/ LateConnect
  BY <1>5 DEF ProbeStep, ProbeConnects, ProbeFails, ProbeCloses, ProbeTimesOut, LateConnect
<1>6. CASE LifecycleStep \/ Client
  BY <1>6 DEF LifecycleStep, LifecycleConnects, LifecycleOpens, LifecycleFails, Client, ProbeStarts, PublishRecord
<1>7. CASE ProcessBrokerFails
  <2>1. BrokerFails
    BY <1>7 DEF ProcessBrokerFails, ClosedInOrder, Reboot, BrokerFails
  <2> QED BY <2>1 DEF Next, Running
<1>8. CASE ProcessSingleLoss
  <2>1. SingleLoss
    BY <1>8 DEF ProcessSingleLoss, Reboot, SingleLoss
  <2> QED BY <2>1 DEF Next, Running
<1>9. CASE Shutdown
  BY <1>9 DEF Shutdown, Next
<1>10. CASE ProcessBrokerRecovers
  BY <1>10 DEF ProcessBrokerRecovers, Next, Running
<1>11. CASE Exits
  BY <1>11 DEF Exits, Reboot, Restart, Next
<1>12. CASE UNCHANGED processVars
  BY <1>12 DEF processVars
<1>13. CASE TransportConsumes
  BY <1>13 DEF TransportConsumes
<1> QED BY <1>1, <1>2, <1>3, <1>4, <1>5, <1>6, <1>7, <1>8, <1>9, <1>10, <1>11, <1>12, <1>13 DEF ProcessNext, Faults

\* A new process meets the invariant, whatever the old one did.
LEMMA RebootStep ==
    ASSUME ProcessTypeOK, ProcessInv, Reboot, TypeOK'
    PROVE  ProcessTypeOK' /\ ProcessInv'
<1> USE ProcessAssumption DEF ProcessTypeOK, ProcessInv
<1>1. ProcessTypeOK'
  BY DEF Reboot
<1>2. ProcessInv'
  BY DEF Reboot, FreshProcess, Fresh, LeaksOnlyAfterTimeout
<1> QED BY <1>1, <1>2

\* Every step keeps the types and the invariant.
LEMMA ProcessStep ==
    ProcessTypeOK /\ ProcessInv /\ ConnectionInv /\ [ProcessNext]_processVars
        => ProcessTypeOK' /\ ProcessInv' /\ ConnectionInv'
<1> SUFFICES ASSUME ProcessTypeOK, ProcessInv, ConnectionInv, [ProcessNext]_processVars
             PROVE  ProcessTypeOK' /\ ProcessInv' /\ ConnectionInv'
  OBVIOUS
<1>0. TypeOK' /\ ConnectionInv'
  BY ProcessStepsChannel, ConnectionStep DEF ProcessTypeOK
<1> USE ProcessAssumption, <1>0
<1>1. CASE TopologyStep
  <2>1. CASE HookThrows
    BY <2>1, RebootStep DEF HookThrows
  <2>2. CASE TopologyConnects \/ TopologyAssertsDlq
    <3>1. ProcessTypeOK'
      <4>1. declared' \subseteq Everything
        BY <2>2 DEF TopologyConnects, TopologyAssertsDlq, ProcessTypeOK, Everything
      <4>2. UNCHANGED <<agree, phase, transport, dlq, probe, timeouts, late, leaked, lifecycle, record>>
        BY <2>2 DEF TopologyConnects, TopologyAssertsDlq, probeVars, recordVars
      <4>3. topology' \in {"connect", "assertDlq", "assertRest", "done"}
        BY <2>2 DEF TopologyConnects, TopologyAssertsDlq
      <4> QED BY <4>1, <4>2, <4>3 DEF ProcessTypeOK
    <3>2. phase' = "booting" /\ "work" \in declared' /\ topology' \in {"assertDlq", "assertRest"}
      BY <2>2 DEF TopologyConnects, TopologyAssertsDlq, ProcessTypeOK, ProcessInv
    <3>3. Fresh' /\ LeaksOnlyAfterTimeout'
      BY <2>2, <3>2 DEF TopologyConnects, TopologyAssertsDlq, ProcessInv, Fresh, LeaksOnlyAfterTimeout, probeVars, vars
    <3> QED BY <3>1, <3>2, <3>3 DEF ProcessInv
  <2>3. CASE TopologyAssertsRest /\ ~HookThrows
    <3>1. "work" \in declared
      BY <2>3 DEF TopologyAssertsRest, ProcessTypeOK, ProcessInv
    <3>2. agree
      BY <2>3, <3>1, Zenon DEF TopologyAssertsRest
    <3>3. ProcessTypeOK'
      BY <2>3 DEF TopologyAssertsRest, ProcessTypeOK, probeVars, recordVars, vars
    <3>4. ProcessInv'
      BY <2>3, <3>2 DEF TopologyAssertsRest, ProcessTypeOK, ProcessInv, Fresh, Everything,
                        LeaksOnlyAfterTimeout, probeVars, recordVars, vars
    <3> QED BY <3>3, <3>4
  <2> QED BY <1>1, <2>1, <2>2, <2>3 DEF TopologyStep, TopologyFails
<1>2. CASE DlqStep
  <2>1. CASE HookThrows
    BY <2>1, RebootStep DEF HookThrows
  <2>2. CASE ~HookThrows
    BY <1>2, <2>2 DEF DlqStep, DlqConnects, DlqConsumes, DlqFails, ProcessTypeOK, ProcessInv, Fresh,
                LeaksOnlyAfterTimeout, probeVars, recordVars, vars
  <2> QED BY <2>1, <2>2
<1>3. CASE Started
  BY <1>3 DEF Started, ProcessTypeOK, ProcessInv, Fresh, LeaksOnlyAfterTimeout, probeVars, recordVars, vars
<1>4. ASSUME NEW c \in Callers, RelayStep(c) PROVE ProcessTypeOK' /\ ProcessInv'
  BY <1>4 DEF RelayStep, ProcessTypeOK, ProcessInv, LeaksOnlyAfterTimeout, hookVars, probeVars, recordVars
<1>5. CASE ProbeStep \/ LateConnect
  BY <1>5 DEF ProbeStep, ProbeConnects, ProbeFails, ProbeCloses, ProbeTimesOut, LateConnect,
              ProcessTypeOK, ProcessInv, Fresh, LeaksOnlyAfterTimeout, hookVars, recordVars, vars
<1>6. CASE LifecycleStep \/ Client
  BY <1>6 DEF LifecycleStep, LifecycleConnects, LifecycleOpens, LifecycleFails, Client, ProbeStarts, PublishRecord,
              ProcessTypeOK, ProcessInv, Fresh, LeaksOnlyAfterTimeout, hookVars, probeVars, recordVars, vars
<1>7. CASE ProcessBrokerFails
  <2>1. CASE Reboot
    BY <2>1, RebootStep
  <2>2. CASE ClosedInOrder
    <3>1. ProcessTypeOK'
      BY <2>2 DEF ClosedInOrder, ProcessTypeOK
    <3>2. Fresh => Fresh'
      BY <2>2 DEF ClosedInOrder, ConnectionLost, Fresh
    <3> QED BY <2>2, <3>1, <3>2 DEF ClosedInOrder, ProcessTypeOK, ProcessInv, LeaksOnlyAfterTimeout
  <2> QED BY <1>7, <2>1, <2>2 DEF ProcessBrokerFails
<1>8. CASE ProcessSingleLoss
  <2>1. CASE Reboot
    BY <2>1, RebootStep
  <2>2. CASE ~Reboot
    BY <1>8, <2>2 DEF ProcessSingleLoss, ProcessTypeOK, ProcessInv, Fresh, LeaksOnlyAfterTimeout,
                      hookVars, probeVars, recordVars
  <2> QED BY <2>1, <2>2
<1>9. CASE Shutdown
  BY <1>9 DEF Shutdown, ProcessTypeOK, ProcessInv, LeaksOnlyAfterTimeout, probeVars, recordVars
<1>10. CASE ProcessBrokerRecovers
  BY <1>10 DEF ProcessBrokerRecovers, BrokerRecovers, ProcessTypeOK, ProcessInv, Fresh, LeaksOnlyAfterTimeout,
               hookVars, probeVars, recordVars
<1>11. CASE Exits
  BY <1>11, RebootStep DEF Exits
<1>12. CASE UNCHANGED processVars
  BY <1>12 DEF processVars, ProcessTypeOK, ProcessInv, Fresh, LeaksOnlyAfterTimeout, hookVars, probeVars, recordVars, vars
<1>13. CASE TransportConsumes
  BY <1>13 DEF TransportConsumes, ProcessTypeOK, ProcessInv, Fresh, Everything, LeaksOnlyAfterTimeout,
               probeVars, recordVars, vars
<1> QED BY <1>1, <1>2, <1>3, <1>4, <1>5, <1>6, <1>7, <1>8, <1>9, <1>10, <1>11, <1>12, <1>13 DEF ProcessNext, Faults

\* What holds in every reachable state of the messaging process.
THEOREM ProcessInvariant == ProcessSpec => [](ProcessTypeOK /\ ProcessInv /\ ConnectionInv)
<1>1. ProcessInit => ProcessTypeOK /\ ProcessInv /\ ConnectionInv
  <2> SUFFICES ASSUME ProcessInit PROVE ProcessTypeOK /\ ProcessInv /\ ConnectionInv
    OBVIOUS
  <2>1. TypeOK /\ ConnectionInv
    BY InitialChannel DEF ProcessInit
  <2>2. ProcessTypeOK
    BY <2>1, ProcessAssumption DEF ProcessInit, ProcessTypeOK
  <2>3. ProcessInv
    BY DEF ProcessInit, Init, ProcessInv, Fresh, LeaksOnlyAfterTimeout
  <2> QED BY <2>1, <2>2, <2>3
<1> QED BY <1>1, ProcessStep, PTL DEF ProcessSpec

\* Types of the process's state, its channel's included.
THEOREM ProcessTypeCorrect == ProcessSpec => []ProcessTypeOK
BY ProcessInvariant, PTL

\* As main.ts and TopologyService assert messaging.work in this commit, no
\* process of the messaging service gets through its hooks, however many boots,
\* outages and crashes there are.
THEOREM ArgumentsKeepServiceDown == ProcessSpec => []RefusedNeverRuns
<1>1. ProcessInv => RefusedNeverRuns
  BY DEF ProcessInv, RefusedNeverRuns
<1> QED BY <1>1, ProcessInvariant, PTL

\* A probe leaves a connection behind only after a timeout.
THEOREM ProbesClose == ProcessSpec => []LeaksOnlyAfterTimeout
<1>1. ProcessInv => LeaksOnlyAfterTimeout
  BY DEF ProcessInv
<1> QED BY <1>1, ProcessInvariant, PTL

\* The channel inside the process implements LazyChannel.
THEOREM ProcessImplementsChannel == ProcessSpec => ImplementsChannel
<1>1. ProcessInit => Init
  BY DEF ProcessInit
<1> QED BY <1>1, ProcessInvariant, ProcessStepsChannel, PTL DEF ProcessSpec, Spec, ImplementsChannel

\* So the process has at most one AMQP connection for its relay.
THEOREM ProcessOneConnection == ProcessSpec => []OneConnection
<1>1. ImplementsChannel => Spec
  BY DEF ImplementsChannel
<1> QED BY <1>1, ProcessImplementsChannel, AtMostOneConnection, PTL

\* And a relay whose connect was rejected stays without a channel until the
\* process ends.
THEOREM ProcessStuckUntilRestart == ProcessSpec => OnlyRestartUnsticks
<1>1. ImplementsChannel => Spec
  BY DEF ImplementsChannel
<1> QED BY <1>1, ProcessImplementsChannel, StuckUntilRestart, PTL

==============================================================================

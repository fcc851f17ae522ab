------------------------------- MODULE Platform -------------------------------
(***************************************************************************)
(* The platform end to end: an HTTP request at the gateway, the gateway's  *)
(* outbox, the messaging service's intake, and the outbox of MessagePersisted *)
(* facts.  The outboxes and the intake are used by their abstract          *)
(* specifications, which OutboxRelay and Consumer implement.               *)
(***************************************************************************)
EXTENDS Contracts

CONSTANTS Requests,     \* HTTP requests; each builds one event with its own eventId
          Strangers,    \* messages other producers publish to messaging.direct
          StrangerRaw,  \* the envelopes they may send, malformed ones too
          StrangerHeader,\* their x-schema-version headers
          MayForget,    \* may the reply of a committed statement be lost?
          NoBody

Events == Requests \cup Strangers

\* The MessagePersisted row written with the message of e.
Fact(e) == <<"MessagePersisted", e>>
Facts == {Fact(e) : e \in Events}

ASSUME PlatformAssumption ==
    /\ Requests \cap Strangers = {}
    /\ Events \cap Facts = {}
    /\ StrangerRaw \subseteq RawEnvelope
    /\ StrangerHeader \subseteq Spellings
    /\ {"System test message", "System test message (v2)"} \subseteq Texts
    /\ "malformed" \notin Texts
    /\ NoBody \notin RawEnvelope
    /\ MayForget \in BOOLEAN

VARIABLES answer,       \* what each HTTP client has got, or where its request is
          body,         \* the envelope of each event
          header,       \* its x-schema-version header
          rowStatus, rowDelivered,    \* gateway_outbox_events
          fate,         \* of events, and of facts that strayed to messaging.work
          message,      \* the text of each event's message row
          factStatus, factDelivered,  \* outbox_events
          audit,        \* facts in messaging.events.audit
          bound,        \* messaging.work is bound to messaging.direct
          unrouted      \* events the broker confirmed with no queue to put them in

gatewayVars == <<answer, body, header>>
rowVars == <<rowStatus, rowDelivered>>
intakeVars == <<fate, message>>
factVars == <<factStatus, factDelivered>>
routeVars == <<bound, unrouted>>
vars == <<gatewayVars, rowVars, intakeVars, factVars, audit, routeVars>>

GatewayOutbox == INSTANCE Outbox WITH
    Rows <- Requests, status <- rowStatus, delivered <- rowDelivered

FactOutbox == INSTANCE Outbox WITH
    Rows <- Facts, status <- factStatus, delivered <- factDelivered

Messaging == INSTANCE Intake WITH Events <- Events \cup Facts

Init ==
    /\ answer = [q \in Requests |-> "none"]
    /\ body = [e \in Events |-> NoBody]
    /\ header = [e \in Events |-> "absent"]
    /\ GatewayOutbox!Init
    /\ Messaging!Init
    /\ message = [e \in Events |-> "none"]
    /\ FactOutbox!Init
    /\ audit = {}
    /\ bound = FALSE
    /\ unrouted = {}

------------------------------------------------------------------------------
\* CorrelationIdMiddleware: any non-empty header is kept as it is.
CorrelationId(given) == IF given = "absent" THEN "uuid" ELSE given

\* sendTestMessage() and sendTestMessageV2(): the event of each endpoint.
BuildEvent(eventType, correlationId) ==
    IF eventType = V1
    THEN buildCreateMessageEventV1([text |-> "System test message", extras |-> "absent"], correlationId)
    ELSE buildCreateMessageEventV2([text |-> "System test message (v2)", extras |-> "absent"], correlationId)

\* Mutant: the contract violation is logged but not thrown.
SendUnchecked(q, eventType, given) ==
    /\ answer[q] = "none"
    /\ LET event == BuildEvent(eventType, CorrelationId(given))
       IN  /\ answer' = [answer EXCEPT ![q] = "recording"]
           /\ body' = [body EXCEPT ![q] = ParsedEvent(eventType, event)]
    /\ UNCHANGED <<header, rowVars, intakeVars, factVars, audit, routeVars>>

\* Build the event and validate it: 400, or on to the outbox.
Send(q, eventType, given) ==
    /\ answer[q] = "none"
    /\ LET event == BuildEvent(eventType, CorrelationId(given))
       IN  IF IsValid(eventType, event)
           THEN /\ answer' = [answer EXCEPT ![q] = "recording"]
                /\ body' = [body EXCEPT ![q] = ParsedEvent(eventType, event)]
           ELSE /\ answer' = [answer EXCEPT ![q] = "400"]
                /\ UNCHANGED body
    /\ UNCHANGED <<header, rowVars, intakeVars, factVars, audit, routeVars>>

\* record() resolves: its row is committed.
Recorded(q) ==
    /\ answer[q] = "recording"
    /\ GatewayOutbox!Insert(q)
    /\ answer' = [answer EXCEPT ![q] = "recorded"]
    /\ UNCHANGED <<body, header, intakeVars, factVars, audit, routeVars>>

\* record() rejects: rolled back, or committed with the reply lost.
RecordFails(q) ==
    /\ answer[q] = "recording"
    /\ GatewayOutbox!Insert(q) \/ UNCHANGED rowVars
    /\ answer' = [answer EXCEPT ![q] = "500"]
    /\ UNCHANGED <<body, header, intakeVars, factVars, audit, routeVars>>

\* The lifecycle record is published or not, and the client gets its 202.
Respond(q) ==
    /\ answer[q] = "recorded"
    /\ answer' = [answer EXCEPT ![q] = "202"]
    /\ UNCHANGED <<body, header, rowVars, intakeVars, factVars, audit, routeVars>>

\* The gateway dies, or the client goes away, before the answer; a commit
\* under way happens or not.
NoAnswer(q) ==
    /\ answer[q] \in {"recording", "recorded"}
    /\ \/ answer[q] = "recording" /\ GatewayOutbox!Insert(q)
       \/ UNCHANGED rowVars
    /\ answer' = [answer EXCEPT ![q] = "gone"]
    /\ UNCHANGED <<body, header, intakeVars, factVars, audit, routeVars>>

------------------------------------------------------------------------------
\* TopologyService binds messaging.work; bindings are durable.
Bind ==
    /\ ~bound
    /\ bound' = TRUE
    /\ UNCHANGED <<gatewayVars, rowVars, intakeVars, factVars, audit, unrouted>>

\* A message reaches the queue its route names.  Another copy of an event the
\* service knows already changes nothing the platform sees.  Publishes carry no
\* mandatory flag: between the assertion of messaging.direct and the binding of
\* messaging.work a command is confirmed and gone.  (With no exchange at all the
\* publish fails, and there is no such step.)
Routed(eventType, m) ==
    IF resolveOutboxRoute(eventType) = "command"
    THEN /\ IF bound
            THEN /\ Messaging!Arrive(m) \/ (fate[m] # "absent" /\ UNCHANGED fate)
                 /\ UNCHANGED unrouted
            ELSE unrouted' = unrouted \cup {m} /\ UNCHANGED fate
         /\ UNCHANGED audit
    ELSE audit' = audit \cup {m} /\ UNCHANGED <<fate, unrouted>>

\* GatewayOutboxRelayService publishes the row's payload under its event_type,
\* with no x-schema-version header.
PublishRow(q) ==
    /\ GatewayOutbox!Deliver(q)
    /\ Routed(body[q].type, q)
    /\ UNCHANGED <<gatewayVars, message, factVars, bound>>

SettleRow(q) ==
    /\ GatewayOutbox!MarkSent(q) \/ GatewayOutbox!GiveUp(q)
    /\ UNCHANGED <<gatewayVars, intakeVars, factVars, audit, routeVars>>

DisturbRow(q) ==
    /\ GatewayOutbox!TakeBack(q) \/ GatewayOutbox!Replay({q})
    /\ UNCHANGED <<gatewayVars, intakeVars, factVars, audit, routeVars>>

\* Another producer publishes straight to messaging.direct, which routes it.
PublishStranger(e) ==
    /\ bound
    /\ body[e] = NoBody
    /\ \E raw \in StrangerRaw, h \in StrangerHeader :
          /\ body' = [body EXCEPT ![e] = raw]
          /\ header' = [header EXCEPT ![e] = h]
    /\ Messaging!Arrive(e)
    /\ UNCHANGED <<answer, rowVars, message, factVars, audit, routeVars>>

------------------------------------------------------------------------------
\* Mutant: the message is written without its MessagePersisted row.
PersistUnannounced(e) ==
    /\ Messaging!Persist(e)
    /\ Accepts(body[e], header[e])
    /\ message' = [message EXCEPT ![e] = Normalised(body[e], header[e]).payload.text]
    /\ UNCHANGED <<gatewayVars, rowVars, factVars, audit, routeVars>>

\* One transaction: the message row and its MessagePersisted row.
Persist(e) ==
    /\ Messaging!Persist(e)
    /\ Accepts(body[e], header[e])
    /\ message' = [message EXCEPT ![e] = Normalised(body[e], header[e]).payload.text]
    /\ FactOutbox!Insert(Fact(e))
    /\ UNCHANGED <<gatewayVars, rowVars, audit, routeVars>>

Reject(e) ==
    /\ Messaging!Reject(e)
    /\ ~Accepts(body[e], header[e])
    /\ UNCHANGED <<gatewayVars, rowVars, message, factVars, audit, routeVars>>

DeadLetter(e) ==
    /\ Messaging!DeadLetter(e)
    /\ Accepts(body[e], header[e])
    /\ UNCHANGED <<gatewayVars, rowVars, message, factVars, audit, routeVars>>

Requeue(e) ==
    /\ Messaging!Requeue(e)
    /\ UNCHANGED <<gatewayVars, rowVars, message, factVars, audit, routeVars>>

PublishFact(f) ==
    /\ FactOutbox!Deliver(f)
    /\ Routed("MessagePersisted", f)
    /\ UNCHANGED <<gatewayVars, rowVars, message, bound>>

SettleFact(f) ==
    /\ FactOutbox!MarkSent(f) \/ FactOutbox!GiveUp(f)
    /\ UNCHANGED <<gatewayVars, rowVars, intakeVars, audit, routeVars>>

DisturbFact(f) ==
    /\ FactOutbox!TakeBack(f) \/ FactOutbox!Replay({f})
    /\ UNCHANGED <<gatewayVars, rowVars, intakeVars, audit, routeVars>>

------------------------------------------------------------------------------
RequestStep(q) ==
    \/ \E eventType \in EventTypes, given \in {"absent", "uuid", "text"} : Send(q, eventType, given)
    \/ Recorded(q) \/ RecordFails(q) \/ Respond(q) \/ NoAnswer(q)

\* What becomes of a queued event.
Outcome(e) == Persist(e) \/ Reject(e) \/ DeadLetter(e)

Next ==
    \/ Bind
    \/ \E q \in Requests : RequestStep(q) \/ PublishRow(q) \/ SettleRow(q) \/ DisturbRow(q)
    \/ \E e \in Strangers : PublishStranger(e)
    \/ \E e \in Events : Outcome(e) \/ Requeue(e)
    \/ \E f \in Facts : PublishFact(f) \/ SettleFact(f) \/ DisturbFact(f)

Spec == Init /\ [][Next]_vars

\* What OutboxRelay and Consumer guarantee by EventuallySettled: a pending row
\* is sent or failed, a queued event gets an outcome.  No particular one is
\* assumed, nor that an operator ever replays or requeues.
Fairness ==
    /\ \A q \in Requests : WF_vars(SettleRow(q))
    /\ \A e \in Events : WF_vars(fate[e] = "queued" /\ Outcome(e))
    /\ \A f \in Facts : WF_vars(SettleFact(f))

FairSpec == Spec /\ Fairness

------------------------------------------------------------------------------
Statuses == {"absent", "pending", "sent", "failed"}

\* Types; only well-formed text is ever written to a message row.
TypeOK ==
    /\ answer \in [Requests -> {"none", "recording", "recorded", "202", "400", "500", "gone"}]
    /\ body \in [Events -> RawEnvelope \cup {NoBody}]
    /\ header \in [Events -> Spellings]
    /\ rowStatus \in [Requests -> Statuses] /\ rowDelivered \subseteq Requests
    /\ fate \in [Events \cup Facts -> Messaging!Fates]
    /\ message \in [Events -> Texts \cup {"none"}]
    /\ factStatus \in [Facts -> Statuses] /\ factDelivered \subseteq Facts
    /\ audit \subseteq Events \cup Facts
    /\ bound \in BOOLEAN
    /\ unrouted \subseteq Events \cup Facts

\* The HTTP answer is honest.  202: there is an outbox row, the consumer will
\* not drop the event as invalid, and once the row is sent the consumer has
\* it, unless the broker confirmed it before messaging.work was bound.  400: no row, and nothing ever reaches the consumer.
AnswersAreHonest ==
    \A q \in Requests :
        /\ answer[q] = "202" => /\ rowStatus[q] # "absent"
                                /\ fate[q] # "dropped"
                                /\ rowStatus[q] = "sent" => fate[q] # "absent" \/ q \in unrouted
        /\ answer[q] = "400" => rowStatus[q] = "absent" /\ fate[q] = "absent"

\* Validation at two services, the version dispatch and the upcast leave the
\* text of an event alone: its message row has what its producer sent.
TextIsKept ==
    \A e \in Events : fate[e] = "persisted" => message[e] = body[e].payload.text

\* docs/contract-evolution.md says that a v1 event that passes the v1 schema is
\* always processed.  What the dispatch on the version it names leaves of that:
\* an envelope that satisfies the contract of its own type is dropped only if
\* its schemaVersion field or, when it has none, its header names the other
\* version.
DroppedOnlyIfMisnamed ==
    \A e \in Events :
        fate[e] = "dropped" /\ body[e].type \in EventTypes /\ IsValid(body[e].type, body[e]) =>
            LET named == IF body[e].schemaVersion = "absent" THEN header[e] ELSE body[e].schemaVersion
            IN  coerceToSchemaVersion(named) \notin {"undefined", extractFromTypeSuffix(body[e].type)}

\* resolveOutboxRoute(): commands and facts never meet, and a fact on the
\* domain-event bus is true: its message is persisted.
FactsAreTrue ==
    /\ \A f \in Facts : fate[f] = "absent"
    /\ \A m \in audit : \E e \in Events : m = Fact(e) /\ fate[e] = "persisted"

\* A request answered with 202 is in the end persisted, or an operator can
\* see it: as a dead letter or as a failed row.  The one way to lose it is a
\* publish before messaging.work was bound.
AcceptedIsSettled ==
    \A q \in Requests :
        answer[q] = "202" ~> \/ fate[q] \in {"persisted", "dead"} \/ rowStatus[q] = "failed"
                             \/ q \in unrouted /\ fate[q] = "absent"

\* Every persisted message is in the end announced, or its fact row is failed.
PersistedIsAnnounced ==
    \A e \in Events :
        fate[e] = "persisted" ~> Fact(e) \in audit \/ factStatus[Fact(e)] = "failed"

==============================================================================

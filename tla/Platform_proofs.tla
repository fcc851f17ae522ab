--------------------------- MODULE Platform_proofs ---------------------------
(***************************************************************************)
(* Safety of the platform for any number of requests and other producers,  *)
(* whatever envelopes and headers those send.                              *)
(***************************************************************************)
EXTENDS Platform, TLAPS

\* The names of the two versions and of their types differ.
LEMMA Names == V1 # V2 /\ V1 # "other" /\ V2 # "other"
BY DEF V1, V2

\* What the gateway builds and accepts for a type is a raw envelope of that
\* type, which the consumer accepts when it comes with no header.
LEMMA GatewayBuildsAccepted ==
    ASSUME NEW eventType \in EventTypes, NEW c \in {"uuid", "text"},
           IsValid(eventType, BuildEvent(eventType, c))
    PROVE  LET event == ParsedEvent(eventType, BuildEvent(eventType, c))
           IN  /\ event \in RawEnvelope
               /\ event.type = eventType
               /\ Accepts(event, "absent")
<1> USE PlatformAssumption
    DEF EventTypes, BuildEvent, ParsedEvent, IsValid, ValidPayload, SchemaVersionAllowed, SCHEMA_VERSIONS,
        RawEnvelope, Payload, Spellings, Accepts, EventTypeName, resolveSchemaVersion,
        coerceToSchemaVersion, extractFromTypeSuffix, parseV1Payload, parseV2Payload,
        buildCreateMessageEventV1, buildCreateMessageEventV2, DEFAULT_SCHEMA_VERSION, V1, V2
<1>1. CASE eventType = V1
  BY <1>1
<1>2. CASE eventType = V2
  BY <1>2
<1> QED BY <1>1, <1>2

\* Parsing, and the upcast of a v1 event, leave the text of an accepted
\* envelope alone.
LEMMA NormalisedKeepsText ==
    ASSUME NEW raw \in RawEnvelope, NEW h \in Spellings
    PROVE  Normalised(raw, h).payload.text = raw.payload.text
BY DEF Normalised, ParsedEvent, EventTypeName, parseV1Payload, parseV2Payload, RawEnvelope, Payload,
   upcastCreateMessageEventV1ToV2

\* An accepted envelope has a well-formed text.
LEMMA AcceptedText ==
    ASSUME NEW raw \in RawEnvelope, NEW h \in Spellings, Accepts(raw, h)
    PROVE  Normalised(raw, h).payload.text \in Texts
BY NormalisedKeepsText DEF Accepts, IsValid, ValidPayload

\* The consumer refuses an envelope that satisfies the contract of its own
\* type only when it was told the other version.
LEMMA RefusedIsMisnamed ==
    ASSUME NEW raw \in RawEnvelope, NEW h \in Spellings, raw.type \in EventTypes,
           IsValid(raw.type, raw), ~Accepts(raw, h)
    PROVE  LET named == IF raw.schemaVersion = "absent" THEN h ELSE raw.schemaVersion
           IN  coerceToSchemaVersion(named) \notin {"undefined", extractFromTypeSuffix(raw.type)}
BY DEF EventTypes, IsValid, SchemaVersionAllowed, SCHEMA_VERSIONS, RawEnvelope, Spellings, Accepts,
       EventTypeName, resolveSchemaVersion, coerceToSchemaVersion, extractFromTypeSuffix,
       DEFAULT_SCHEMA_VERSION, V1, V2

------------------------------------------------------------------------------
\* What the gateway's handler has done at each stage of a request: nothing is
\* recorded before it is validated, and what is recorded the consumer accepts.
Gateway ==
    \A q \in Requests :
        /\ header[q] = "absent"
        /\ answer[q] \in {"none", "400"} => body[q] = NoBody
        /\ answer[q] \in {"none", "400", "recording"} => rowStatus[q] = "absent"
        /\ answer[q] \in {"recorded", "202"} => rowStatus[q] # "absent"
        /\ answer[q] = "recording" \/ rowStatus[q] # "absent" => body[q] # NoBody
        /\ body[q] # NoBody => body[q].type \in EventTypes /\ Accepts(body[q], "absent")

\* What the outbox row and the fate of a request's event say of each other.
Transport ==
    \A q \in Requests :
        /\ rowStatus[q] = "sent" => q \in rowDelivered
        /\ q \in rowDelivered => fate[q] # "absent" \/ q \in unrouted
        /\ fate[q] # "absent" => rowStatus[q] # "absent"
        /\ fate[q] # "dropped"

\* The consumer knows only events that were published.
Published == \A e \in Events : fate[e] # "absent" => body[e] # NoBody

\* A fact row is written with its message, in one transaction.
FactRows == \A e \in Events : factStatus[Fact(e)] # "absent" => fate[e] = "persisted"

PlatformInv ==
    /\ TypeOK
    /\ Gateway
    /\ Transport
    /\ Published
    /\ TextIsKept
    /\ DroppedOnlyIfMisnamed
    /\ FactRows
    /\ FactsAreTrue

\* A step is one of the actions, or changes nothing.
LEMMA NextCases ==
    ASSUME [Next]_vars
    PROVE  \/ \E q \in Requests : RequestStep(q) \/ PublishRow(q) \/ SettleRow(q) \/ DisturbRow(q)
           \/ \E e \in Strangers : PublishStranger(e)
           \/ \E e \in Events : Outcome(e) \/ Requeue(e)
           \/ \E f \in Facts : PublishFact(f) \/ SettleFact(f) \/ DisturbFact(f)
           \/ Bind
           \/ UNCHANGED vars
BY DEF Next

\* Fact() is one to one and its values are facts, not events.
LEMMA FactFacts ==
    /\ \A e \in Events : Fact(e) \in Facts /\ Fact(e) \notin Events
    /\ \A e, d \in Events : Fact(e) = Fact(d) => e = d
    /\ \A f \in Facts : \E e \in Events : f = Fact(e)
BY PlatformAssumption DEF Fact, Facts

\* Marking, giving up, taking back and replaying rows of the gateway's outbox.
LEMMA RowsSettle ==
    ASSUME TypeOK, NEW q \in Requests, SettleRow(q) \/ DisturbRow(q)
    PROVE  /\ UNCHANGED <<gatewayVars, intakeVars, factVars, audit, routeVars, rowDelivered>>
           /\ rowStatus' \in [Requests -> Statuses]
           /\ \A r \in Requests : /\ rowStatus'[r] = "absent" <=> rowStatus[r] = "absent"
                                  /\ rowStatus'[r] = "sent" => rowStatus[r] = "sent" \/ r \in rowDelivered
BY DEF TypeOK, SettleRow, DisturbRow, Statuses, GatewayOutbox!MarkSent, GatewayOutbox!GiveUp,
   GatewayOutbox!TakeBack, GatewayOutbox!Replay

\* The same of the outbox of facts.
LEMMA FactsSettle ==
    ASSUME TypeOK, NEW f \in Facts, SettleFact(f) \/ DisturbFact(f)
    PROVE  /\ UNCHANGED <<gatewayVars, rowVars, intakeVars, audit, routeVars, factDelivered>>
           /\ factStatus' \in [Facts -> Statuses]
           /\ \A g \in Facts : factStatus'[g] = "absent" <=> factStatus[g] = "absent"
BY DEF TypeOK, SettleFact, DisturbFact, Statuses, FactOutbox!MarkSent, FactOutbox!GiveUp,
   FactOutbox!TakeBack, FactOutbox!Replay

\* Nothing the invariant speaks of changes, but rows that settle and the
\* binding.
LEMMA SettleStep ==
    ASSUME PlatformInv,
           \/ \E q \in Requests : SettleRow(q) \/ DisturbRow(q)
           \/ \E f \in Facts : SettleFact(f) \/ DisturbFact(f)
           \/ Bind
           \/ UNCHANGED vars
    PROVE  PlatformInv'
<1> USE DEF PlatformInv, gatewayVars, rowVars, intakeVars, factVars, routeVars
<1>1. /\ UNCHANGED <<answer, body, header, fate, message, audit, unrouted, rowDelivered, factDelivered>>
      /\ bound' \in BOOLEAN
      /\ rowStatus' \in [Requests -> Statuses] /\ factStatus' \in [Facts -> Statuses]
      /\ \A r \in Requests : /\ rowStatus'[r] = "absent" <=> rowStatus[r] = "absent"
                             /\ rowStatus'[r] = "sent" => rowStatus[r] = "sent" \/ r \in rowDelivered
      /\ \A g \in Facts : factStatus'[g] = "absent" <=> factStatus[g] = "absent"
  <2>1. CASE \E q \in Requests : SettleRow(q) \/ DisturbRow(q)
    BY <2>1, RowsSettle DEF TypeOK
  <2>2. CASE \E f \in Facts : SettleFact(f) \/ DisturbFact(f)
    BY <2>2, FactsSettle DEF TypeOK
  <2>3. CASE UNCHANGED vars
    BY <2>3 DEF TypeOK, vars
  <2>4. CASE Bind
    <3>1. bound' \in BOOLEAN
      BY <2>4, Zenon DEF Bind
    <3> QED BY <2>4, <3>1 DEF TypeOK, Bind
  <2> QED BY <2>1, <2>2, <2>3, <2>4
<1>2. TypeOK'
  BY <1>1 DEF TypeOK
<1>3. Gateway'
  BY <1>1 DEF Gateway
<1>4. Transport'
  BY <1>1 DEF Transport
<1>5. Published' /\ TextIsKept' /\ DroppedOnlyIfMisnamed' /\ FactsAreTrue'
  BY <1>1 DEF Published, TextIsKept, DroppedOnlyIfMisnamed, FactsAreTrue
<1>6. FactRows'
  BY <1>1, FactFacts DEF FactRows
<1> QED BY <1>2, <1>3, <1>4, <1>5, <1>6

\* The steps of the gateway's HTTP handler.
LEMMA RequestStepKeeps ==
    ASSUME PlatformInv, NEW q \in Requests, RequestStep(q)
    PROVE  PlatformInv'
<1> USE DEF PlatformInv, gatewayVars, rowVars, intakeVars, factVars, routeVars
<1>a. q \in Events
  BY DEF Events
<1>0. UNCHANGED <<header, intakeVars, factVars, audit, routeVars, rowDelivered>>
  BY DEF RequestStep, Send, Recorded, RecordFails, Respond, NoAnswer, GatewayOutbox!Insert
\* A request that has a body keeps it; one that gets it had no row.
<1>1. ASSUME NEW eventType \in EventTypes, NEW given \in {"absent", "uuid", "text"},
             Send(q, eventType, given)
      PROVE  PlatformInv'
  <2> DEFINE c == CorrelationId(given)
             event == ParsedEvent(eventType, BuildEvent(eventType, c))
  <2>1. c \in {"uuid", "text"}
    BY DEF CorrelationId
  <2> HIDE DEF c
  <2>2. answer[q] = "none" /\ body[q] = NoBody /\ rowStatus[q] = "absent" /\ fate[q] = "absent"
    BY <1>1 DEF Send, Gateway, Transport
  <2>3. rowStatus' = rowStatus
    BY <1>1 DEF Send
  <2>4. \/ answer' = [answer EXCEPT ![q] = "400"] /\ body' = body
        \/ /\ answer' = [answer EXCEPT ![q] = "recording"]
           /\ body' = [body EXCEPT ![q] = event]
           /\ event \in RawEnvelope /\ event.type \in EventTypes /\ Accepts(event, "absent")
    <3>1. CASE IsValid(eventType, BuildEvent(eventType, c))
      <4>1. event \in RawEnvelope /\ event.type \in EventTypes /\ Accepts(event, "absent")
        BY <2>1, <3>1, GatewayBuildsAccepted
      <4> QED BY <1>1, <3>1, <4>1 DEF Send, c
    <3>2. CASE ~IsValid(eventType, BuildEvent(eventType, c))
      BY <1>1, <3>2 DEF Send, c
    <3> QED BY <3>1, <3>2
  <2> HIDE DEF event
  <2>5. event \in RawEnvelope => event # NoBody
    BY PlatformAssumption
  <2>6. TypeOK'
    BY <1>0, <1>a, <2>3, <2>4 DEF TypeOK
  <2>7. Gateway'
    <3>1. \A r \in Requests \ {q} : body'[r] = body[r] /\ answer'[r] = answer[r]
      BY <2>4 DEF TypeOK, Events
    <3>2. CASE answer'[q] = "400" /\ body'[q] = body[q]
      BY <1>0, <2>2, <2>3, <3>1, <3>2 DEF Gateway
    <3>3. CASE answer'[q] = "recording" /\ body'[q] = event /\ event # NoBody
               /\ event.type \in EventTypes /\ Accepts(event, "absent")
      BY <1>0, <2>2, <2>3, <3>1, <3>3 DEF Gateway
    <3>4. \/ answer'[q] = "400" /\ body'[q] = body[q]
          \/ answer'[q] = "recording" /\ body'[q] = event /\ event # NoBody
             /\ event.type \in EventTypes /\ Accepts(event, "absent")
      BY <1>a, <2>4, <2>5 DEF TypeOK
    <3> QED BY <3>2, <3>3, <3>4
  <2>8. Transport'
    BY <1>0, <2>3 DEF Transport
  <2>9. \A e \in Events \ {q} : body'[e] = body[e]
    BY <2>4 DEF TypeOK
  <2>10. Published' /\ TextIsKept' /\ DroppedOnlyIfMisnamed'
    BY <1>0, <2>2, <2>9 DEF Published, TextIsKept, DroppedOnlyIfMisnamed
  <2>11. FactRows' /\ FactsAreTrue'
    BY <1>0 DEF FactRows, FactsAreTrue
  <2> QED BY <2>6, <2>7, <2>8, <2>10, <2>11
<1>2. ASSUME Recorded(q) \/ RecordFails(q) \/ Respond(q) \/ NoAnswer(q)
      PROVE  PlatformInv'
  <2>1. body' = body
    BY <1>2 DEF Recorded, RecordFails, Respond, NoAnswer
  <2>2. \/ answer[q] = "recording" /\ answer' = [answer EXCEPT ![q] = "recorded"] /\ rowStatus'[q] = "pending"
        \/ answer[q] = "recording" /\ answer' \in {[answer EXCEPT ![q] = "500"], [answer EXCEPT ![q] = "gone"]}
        \/ answer[q] = "recorded" /\ answer' \in {[answer EXCEPT ![q] = "202"], [answer EXCEPT ![q] = "gone"]}
             /\ rowStatus' = rowStatus
    BY <1>2 DEF Recorded, RecordFails, Respond, NoAnswer, GatewayOutbox!Insert, TypeOK
  <2>3. \/ rowStatus' = rowStatus
        \/ rowStatus[q] = "absent" /\ rowStatus' = [rowStatus EXCEPT ![q] = "pending"]
    BY <1>2 DEF Recorded, RecordFails, Respond, NoAnswer, GatewayOutbox!Insert
  <2>4. TypeOK'
    BY <1>0, <2>1, <2>2, <2>3 DEF TypeOK, Statuses
  <2>5. Gateway'
    BY <1>0, <2>1, <2>2, <2>3 DEF Gateway, TypeOK
  <2>6. Transport'
    BY <1>0, <2>3 DEF Transport, TypeOK
  <2>7. Published' /\ TextIsKept' /\ DroppedOnlyIfMisnamed' /\ FactRows' /\ FactsAreTrue'
    BY <1>0, <2>1 DEF Published, TextIsKept, DroppedOnlyIfMisnamed, FactRows, FactsAreTrue
  <2> QED BY <2>4, <2>5, <2>6, <2>7
<1> QED BY <1>1, <1>2 DEF RequestStep

\* The gateway's relay publishes a row: it is routed to the consumer.
LEMMA PublishRowKeeps ==
    ASSUME PlatformInv, NEW q \in Requests, PublishRow(q)
    PROVE  PlatformInv'
<1> USE DEF PlatformInv, gatewayVars, rowVars, intakeVars, factVars, routeVars
<1>a. q \in Events /\ q \notin Facts
  BY PlatformAssumption DEF Events
<1>0. /\ UNCHANGED <<gatewayVars, message, factVars, rowStatus, bound>>
      /\ rowStatus[q] # "absent" /\ rowDelivered' = rowDelivered \cup {q}
  BY DEF PublishRow, GatewayOutbox!Deliver
<1>1. body[q] # NoBody /\ body[q].type \in {V1, V2}
  BY <1>0 DEF Gateway, EventTypes
<1>2. /\ audit' = audit
      /\ \/ fate[q] = "absent" /\ fate' = [fate EXCEPT ![q] = "queued"] /\ unrouted' = unrouted
         \/ fate[q] # "absent" /\ fate' = fate /\ unrouted' = unrouted
         \/ fate' = fate /\ unrouted' = unrouted \cup {q}
  BY <1>1 DEF PublishRow, Routed, resolveOutboxRoute, COMMAND_EVENT_TYPES, Messaging!Arrive
<1>3. TypeOK'
  BY <1>a, <1>0, <1>2 DEF TypeOK, Messaging!Fates
<1>4. Gateway'
  BY <1>0 DEF Gateway
<1>5. /\ fate'[q] # "absent" \/ q \in unrouted'
      /\ fate'[q] = fate[q] \/ fate'[q] = "queued"
      /\ unrouted \subseteq unrouted'
      /\ \A m \in (Events \cup Facts) \ {q} : fate'[m] = fate[m]
  BY <1>a, <1>2 DEF TypeOK
<1>6. Transport'
  <2>1. ASSUME NEW r \in Requests \ {q} PROVE fate'[r] = fate[r]
    BY <1>5 DEF Events
  <2> QED BY <1>0, <1>5, <2>1 DEF Transport
<1>7. Published' /\ TextIsKept' /\ DroppedOnlyIfMisnamed'
  BY <1>0, <1>1, <1>5 DEF Published, TextIsKept, DroppedOnlyIfMisnamed
<1>8. \A e \in Events : fate[e] = "persisted" => fate'[e] = "persisted"
  BY <1>2, <1>5
<1>9. FactRows'
  BY <1>0, <1>8 DEF FactRows
<1>10. FactsAreTrue'
  BY <1>a, <1>2, <1>5, <1>8 DEF FactsAreTrue
<1> QED BY <1>3, <1>4, <1>6, <1>7, <1>9, <1>10

\* Another producer publishes an envelope with a header.
LEMMA PublishStrangerKeeps ==
    ASSUME PlatformInv, NEW e \in Strangers, PublishStranger(e)
    PROVE  PlatformInv'
<1> USE DEF PlatformInv, gatewayVars, rowVars, intakeVars, factVars, routeVars
<1>a. e \in Events /\ e \notin Facts /\ e \notin Requests
  BY PlatformAssumption DEF Events
<1>0. PICK raw \in StrangerRaw, h \in StrangerHeader :
          /\ body' = [body EXCEPT ![e] = raw]
          /\ header' = [header EXCEPT ![e] = h]
  BY DEF PublishStranger
<1>1. raw \in RawEnvelope /\ raw # NoBody /\ h \in Spellings
  BY PlatformAssumption
<1>2. /\ body[e] = NoBody /\ fate[e] = "absent" /\ fate' = [fate EXCEPT ![e] = "queued"]
      /\ UNCHANGED <<answer, rowVars, message, factVars, audit, routeVars>>
  BY DEF PublishStranger, Messaging!Arrive
<1>3. TypeOK'
  BY <1>0, <1>1, <1>2 DEF TypeOK, Messaging!Fates
<1>4. /\ \A d \in Events \ {e} : body'[d] = body[d] /\ header'[d] = header[d]
      /\ \A m \in (Events \cup Facts) \ {e} : fate'[m] = fate[m]
      /\ body'[e] # NoBody /\ fate'[e] = "queued"
  BY <1>a, <1>0, <1>1, <1>2 DEF TypeOK
<1>5. \A q \in Requests : body'[q] = body[q] /\ header'[q] = header[q] /\ fate'[q] = fate[q]
  BY <1>a, <1>4 DEF Events
<1>6. Gateway' /\ Transport'
  BY <1>2, <1>5 DEF Gateway, Transport
<1>7. Published' /\ TextIsKept' /\ DroppedOnlyIfMisnamed'
  BY <1>2, <1>4 DEF Published, TextIsKept, DroppedOnlyIfMisnamed
<1>8. FactRows'
  BY <1>2, <1>4 DEF FactRows
<1>9. FactsAreTrue'
  BY <1>a, <1>2, <1>4 DEF FactsAreTrue
<1> QED BY <1>3, <1>6, <1>7, <1>8, <1>9

\* The consumer decides an event, or an operator requeues a dead letter.
LEMMA OutcomeKeeps ==
    ASSUME PlatformInv, NEW e \in Events, Outcome(e) \/ Requeue(e)
    PROVE  PlatformInv'
<1> USE DEF PlatformInv, gatewayVars, rowVars, intakeVars, factVars, routeVars
<1>a. Fact(e) \in Facts /\ e \notin Facts
  BY FactFacts, PlatformAssumption
<1>0. /\ UNCHANGED <<gatewayVars, rowVars, audit, routeVars>>
      /\ fate[e] \in {"queued", "dead"}
      /\ \E x \in {"queued", "persisted", "dropped", "dead"} : fate' = [fate EXCEPT ![e] = x]
  BY DEF Outcome, Persist, Reject, DeadLetter, Requeue, Messaging!Persist, Messaging!Reject,
     Messaging!DeadLetter, Messaging!Requeue
<1>1. /\ \A m \in (Events \cup Facts) \ {e} : fate'[m] = fate[m]
      /\ fate'[e] \in {"queued", "persisted", "dropped", "dead"}
      /\ fate' \in [Events \cup Facts -> Messaging!Fates]
  BY <1>0 DEF TypeOK, Messaging!Fates
<1>2. body[e] \in RawEnvelope /\ header[e] \in Spellings
  BY <1>0 DEF Published, TypeOK
<1>3. Published'
  BY <1>0, <1>1 DEF Published
<1>4. Gateway'
  BY <1>0 DEF Gateway
\* The message row and the fact row appear together, when e is persisted.
<1>5. \/ /\ fate'[e] = "persisted"
         /\ message' = [message EXCEPT ![e] = Normalised(body[e], header[e]).payload.text]
         /\ Accepts(body[e], header[e])
         /\ factStatus' = [factStatus EXCEPT ![Fact(e)] = "pending"] /\ factDelivered' = factDelivered
      \/ /\ UNCHANGED <<message, factVars>>
         /\ fate'[e] \in {"queued", "dead", "dropped"}
         /\ fate'[e] = "dropped" => ~Accepts(body[e], header[e])
  <2>1. CASE Persist(e)
    BY <2>1 DEF Persist, Messaging!Persist, FactOutbox!Insert, TypeOK
  <2>2. CASE Reject(e)
    BY <2>2 DEF Reject, Messaging!Reject, TypeOK
  <2>3. CASE DeadLetter(e)
    BY <2>3 DEF DeadLetter, Messaging!DeadLetter, TypeOK
  <2>4. CASE Requeue(e)
    BY <2>4 DEF Requeue, Messaging!Requeue, TypeOK
  <2> QED BY <2>1, <2>2, <2>3, <2>4 DEF Outcome
<1>6. TypeOK'
  <2>1. message' \in [Events -> Texts \cup {"none"}]
    BY <1>2, <1>5, AcceptedText DEF TypeOK
  <2>2. factStatus' \in [Facts -> Statuses] /\ factDelivered' \subseteq Facts
    BY <1>5 DEF TypeOK, Statuses
  <2> QED BY <1>0, <1>1, <2>1, <2>2 DEF TypeOK
<1>7. Transport'
  <2>1. \A q \in Requests \ {e} : fate'[q] = fate[q]
    BY <1>1 DEF Events
  <2>2. e \in Requests => fate'[e] \notin {"absent", "dropped"} /\ rowStatus[e] # "absent"
    <3> SUFFICES ASSUME e \in Requests
                 PROVE  fate'[e] \notin {"absent", "dropped"} /\ rowStatus[e] # "absent"
      OBVIOUS
    <3>1. rowStatus[e] # "absent"
      BY <1>0 DEF Transport
    <3>2. Accepts(body[e], header[e])
      BY <3>1 DEF Gateway
    <3> QED BY <1>5, <3>1, <3>2
  <2> QED BY <1>0, <2>1, <2>2 DEF Transport
<1>8. TextIsKept'
  <2>1. ASSUME NEW d \in Events, fate'[d] = "persisted" PROVE message'[d] = body'[d].payload.text
    <3>1. CASE d = e
      BY <1>0, <1>2, <1>5, <2>1, <3>1, NormalisedKeepsText DEF TypeOK
    <3>2. CASE d # e
      <4>1. message'[d] = message[d] /\ fate'[d] = fate[d]
        BY <1>1, <1>5, <3>2 DEF TypeOK
      <4> QED BY <1>0, <2>1, <4>1 DEF TextIsKept
    <3> QED BY <3>1, <3>2
  <2> QED BY <2>1 DEF TextIsKept
<1>9. DroppedOnlyIfMisnamed'
  <2>1. ASSUME fate'[e] = "dropped", body[e].type \in EventTypes, IsValid(body[e].type, body[e])
        PROVE  LET named == IF body[e].schemaVersion = "absent" THEN header[e] ELSE body[e].schemaVersion
               IN  coerceToSchemaVersion(named) \notin {"undefined", extractFromTypeSuffix(body[e].type)}
    BY <1>2, <1>5, <2>1, RefusedIsMisnamed
  <2> QED BY <1>0, <1>1, <2>1 DEF DroppedOnlyIfMisnamed
<1>10. \A d \in Events \ {e} : Fact(d) # Fact(e) /\ Fact(d) \in Facts
  BY FactFacts
<1>11. FactRows'
  <2>1. \A d \in Events \ {e} : factStatus'[Fact(d)] = factStatus[Fact(d)]
    BY <1>5, <1>10 DEF TypeOK
  <2>2. factStatus[Fact(e)] = "absent"
    BY <1>0 DEF FactRows
  <2>3. factStatus'[Fact(e)] # "absent" => fate'[e] = "persisted"
    BY <1>5, <2>2
  <2> QED BY <1>1, <2>1, <2>3 DEF FactRows
<1>12. FactsAreTrue'
  <2>1. \A d \in Events : fate[d] = "persisted" => fate'[d] = "persisted"
    BY <1>0, <1>1
  <2> QED BY <1>a, <1>0, <1>1, <2>1 DEF FactsAreTrue
<1> QED BY <1>3, <1>4, <1>6, <1>7, <1>8, <1>9, <1>11, <1>12

\* The relay publishes a fact: it is routed to the audit queue.
LEMMA PublishFactKeeps ==
    ASSUME PlatformInv, NEW f \in Facts, PublishFact(f)
    PROVE  PlatformInv'
<1> USE DEF PlatformInv, gatewayVars, rowVars, intakeVars, factVars, routeVars
<1>1. resolveOutboxRoute("MessagePersisted") # "command"
  BY DEF resolveOutboxRoute, COMMAND_EVENT_TYPES, V1, V2
<1>2. /\ UNCHANGED <<gatewayVars, rowVars, message, fate, factStatus, routeVars>>
      /\ audit' = audit \cup {f} /\ factDelivered' = factDelivered \cup {f}
      /\ factStatus[f] # "absent"
  BY <1>1 DEF PublishFact, Routed, FactOutbox!Deliver
<1>3. TypeOK'
  BY <1>2 DEF TypeOK
<1>4. Gateway' /\ Transport' /\ Published' /\ TextIsKept' /\ DroppedOnlyIfMisnamed' /\ FactRows'
  BY <1>2 DEF Gateway, Transport, Published, TextIsKept, DroppedOnlyIfMisnamed, FactRows
<1>5. FactsAreTrue'
  <2>1. \E e \in Events : f = Fact(e) /\ fate[e] = "persisted"
    BY <1>2, FactFacts DEF FactRows
  <2> QED BY <1>2, <2>1 DEF FactsAreTrue
<1> QED BY <1>3, <1>4, <1>5

\* The inductive invariant.
THEOREM PlatformInvariant == Spec => []PlatformInv
<1>1. Init => PlatformInv
  <2> SUFFICES ASSUME Init PROVE PlatformInv
    OBVIOUS
  <2> USE DEF Init, GatewayOutbox!Init, Messaging!Init, FactOutbox!Init
  <2>1. TypeOK
    BY DEF TypeOK, Statuses, Messaging!Fates, Spellings
  <2>2. Gateway /\ Transport /\ Published
    BY DEF Gateway, Transport, Published, Events
  <2>3. TextIsKept /\ DroppedOnlyIfMisnamed
    BY DEF TextIsKept, DroppedOnlyIfMisnamed
  <2>4. FactRows /\ FactsAreTrue
    BY FactFacts DEF FactRows, FactsAreTrue
  <2> QED BY <2>1, <2>2, <2>3, <2>4 DEF PlatformInv
<1>2. PlatformInv /\ [Next]_vars => PlatformInv'
  BY NextCases, SettleStep, RequestStepKeeps, PublishRowKeeps, PublishStrangerKeeps, OutcomeKeeps,
     PublishFactKeeps
<1> QED BY <1>1, <1>2, PTL DEF Spec

\* Only well-formed text reaches a message row, whatever is published.
THEOREM PlatformTyping == Spec => []TypeOK
BY PlatformInvariant, PTL DEF PlatformInv

\* The gateway's 202 and 400 mean what they say: what it accepts the consumer
\* never drops as invalid, and "sent" rows have reached it or were published
\* before messaging.work was bound.
THEOREM GatewayAnswersAreHonest == Spec => []AnswersAreHonest
<1>1. PlatformInv => AnswersAreHonest
  BY DEF PlatformInv, Gateway, Transport, AnswersAreHonest
<1> QED BY <1>1, PlatformInvariant, PTL

\* Two validations, the version dispatch and the upcast keep every text.
THEOREM MessagesKeepTheirText == Spec => []TextIsKept
BY PlatformInvariant, PTL DEF PlatformInv

\* A valid envelope is dropped only when it, or its header, names the other
\* version.
THEOREM ValidEventsAreAccepted == Spec => []DroppedOnlyIfMisnamed
BY PlatformInvariant, PTL DEF PlatformInv

\* No fact is taken for a command, no command for a fact, and every fact on
\* the domain-event bus is true.
THEOREM PublishedFactsAreTrue == Spec => []FactsAreTrue
BY PlatformInvariant, PTL DEF PlatformInv

\* A step of the platform is, for each of the parts it is built from, a step
\* that part allows or none at all.
LEMMA StepsOfParts ==
    ASSUME [Next]_vars
    PROVE  /\ [GatewayOutbox!Next]_(GatewayOutbox!vars)
           /\ [FactOutbox!Next]_(FactOutbox!vars)
           /\ [Messaging!Next]_fate
<1> USE DEF vars, gatewayVars, rowVars, intakeVars, factVars, routeVars
<1>1. CASE UNCHANGED vars
  BY <1>1 DEF GatewayOutbox!vars, FactOutbox!vars
<1>2. ASSUME NEW q \in Requests, RequestStep(q)
      PROVE  (GatewayOutbox!Insert(q) \/ UNCHANGED rowVars) /\ UNCHANGED <<factVars, fate>>
  BY <1>2, Zenon DEF RequestStep, Send, Recorded, RecordFails, Respond, NoAnswer
<1>3. ASSUME NEW q \in Requests, PublishRow(q) \/ SettleRow(q) \/ DisturbRow(q)
      PROVE  /\ GatewayOutbox!RowStep(q) \/ GatewayOutbox!Replay({q})
             /\ Messaging!Arrive(q) \/ UNCHANGED fate
             /\ UNCHANGED factVars
  BY <1>3, Zenon DEF PublishRow, SettleRow, DisturbRow, Routed, GatewayOutbox!RowStep
<1>4. ASSUME NEW e \in Strangers, PublishStranger(e)
      PROVE  Messaging!Arrive(e) /\ UNCHANGED <<rowVars, factVars>>
  BY <1>4, Zenon DEF PublishStranger
<1>5. ASSUME NEW e \in Events, Outcome(e) \/ Requeue(e)
      PROVE  /\ Messaging!EventStep(e)
             /\ FactOutbox!Insert(Fact(e)) \/ UNCHANGED factVars
             /\ UNCHANGED rowVars
  BY <1>5, Zenon DEF Outcome, Persist, Reject, DeadLetter, Requeue, Messaging!EventStep
<1>6. ASSUME NEW f \in Facts, PublishFact(f) \/ SettleFact(f) \/ DisturbFact(f)
      PROVE  /\ FactOutbox!RowStep(f) \/ FactOutbox!Replay({f})
             /\ Messaging!Arrive(f) \/ UNCHANGED fate
             /\ UNCHANGED rowVars
  BY <1>6, Zenon DEF PublishFact, SettleFact, DisturbFact, Routed, FactOutbox!RowStep
<1>7. ASSUME NEW q \in Requests, GatewayOutbox!RowStep(q) \/ GatewayOutbox!Replay({q})
      PROVE  GatewayOutbox!Next
  <2>1. {q} \in SUBSET Requests
    OBVIOUS
  <2> QED BY <1>7, <2>1, Zenon DEF GatewayOutbox!Next
<1>8. ASSUME NEW f \in Facts, FactOutbox!RowStep(f) \/ FactOutbox!Replay({f})
      PROVE  FactOutbox!Next
  <2>1. {f} \in SUBSET Facts
    OBVIOUS
  <2> QED BY <1>8, <2>1, Zenon DEF FactOutbox!Next
<1>9. ASSUME NEW m \in Events \cup Facts, Messaging!EventStep(m)
      PROVE  Messaging!Next
  BY <1>9, Zenon DEF Messaging!Next
<1>10. CASE \E q \in Requests : RequestStep(q)
  BY <1>10, <1>2, <1>7, Zenon DEF GatewayOutbox!vars, FactOutbox!vars, GatewayOutbox!RowStep
<1>11. CASE \E q \in Requests : PublishRow(q) \/ SettleRow(q) \/ DisturbRow(q)
  <2>1. PICK q \in Requests : PublishRow(q) \/ SettleRow(q) \/ DisturbRow(q)
    BY <1>11
  <2>2. q \in Events \cup Facts
    BY DEF Events
  <2> QED BY <2>1, <2>2, <1>3, <1>7, <1>9, Zenon DEF FactOutbox!vars, Messaging!EventStep
<1>12. CASE \E e \in Strangers : PublishStranger(e)
  <2>1. PICK e \in Strangers : PublishStranger(e)
    BY <1>12
  <2>2. e \in Events \cup Facts
    BY DEF Events
  <2> QED BY <2>1, <2>2, <1>4, <1>9, Zenon DEF GatewayOutbox!vars, FactOutbox!vars, Messaging!EventStep
<1>13. CASE \E e \in Events : Outcome(e) \/ Requeue(e)
  <2>1. PICK e \in Events : Outcome(e) \/ Requeue(e)
    BY <1>13
  <2>2. e \in Events \cup Facts /\ Fact(e) \in Facts
    BY DEF Facts
  <2> QED BY <2>1, <2>2, <1>5, <1>8, <1>9, Zenon DEF GatewayOutbox!vars, FactOutbox!vars, FactOutbox!RowStep
<1>14. CASE \E f \in Facts : PublishFact(f) \/ SettleFact(f) \/ DisturbFact(f)
  <2>1. PICK f \in Facts : PublishFact(f) \/ SettleFact(f) \/ DisturbFact(f)
    BY <1>14
  <2>2. f \in Events \cup Facts
    OBVIOUS
  <2> QED BY <2>1, <2>2, <1>6, <1>8, <1>9, Zenon DEF GatewayOutbox!vars, Messaging!EventStep
<1>15. CASE Bind
  BY <1>15 DEF Bind, GatewayOutbox!vars, FactOutbox!vars
<1> QED BY <1>1, <1>10, <1>11, <1>12, <1>13, <1>14, <1>15, Zenon DEF Next

\* The platform lets both outboxes and the intake do only what their own
\* specifications allow, which are the ones OutboxRelay and Consumer implement:
\* every behaviour of the whole is a behaviour of each part.
THEOREM PlatformComposes == Spec => GatewayOutbox!Spec /\ FactOutbox!Spec /\ Messaging!Spec
<1>1. Init => GatewayOutbox!Init /\ FactOutbox!Init /\ Messaging!Init
  BY DEF Init
<1> QED BY <1>1, StepsOfParts, PTL DEF Spec, GatewayOutbox!Spec, FactOutbox!Spec, Messaging!Spec

==============================================================================

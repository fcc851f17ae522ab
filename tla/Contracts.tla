------------------------------ MODULE Contracts ------------------------------
(***************************************************************************)
(* The event contracts of libs/contracts as pure operators: building,      *)
(* version dispatch, validation, upcast and outbox routing.                *)
(*                                                                         *)
(* A raw envelope keeps what these functions tell apart.  "correlationId"  *)
(* is "uuid" or "text" and stands for every envelope field with a format;  *)
(* payload.text stands for subject and content, "malformed" when a length, *)
(* the recipient's too, is out of bounds; payload.extras for priority and  *)
(* metadata.  A message row keeps the text and nothing else.               *)
(***************************************************************************)
CONSTANT Texts   \* well-formed subject and content

V1 == "CreateMessageEvent.v1"
V2 == "CreateMessageEvent.v2"

\* The keys of EventRegistry.
EventTypes == {V1, V2}

\* schemaVersion as it may stand in an envelope or a header.  "~1" and "~2"
\* are spellings that only coerceToSchemaVersion() takes for a version: a
\* number, a Buffer, a string with blanks.
Spellings == {"absent", "1", "2", "~1", "~2", "unknown"}

SCHEMA_VERSIONS == {"1", "2"}

DEFAULT_SCHEMA_VERSION == "1"

Payload == [text : Texts \cup {"malformed"},
            extras : {"absent", "default", "given", "malformed"}]

RawEnvelope == [type : EventTypes \cup {"other"},
                schemaVersion : Spellings,
                correlationId : {"uuid", "text"},
                payload : Payload]

------------------------------------------------------------------------------
coerceToSchemaVersion(v) ==
    CASE v \in {"1", "~1"} -> "1"
      [] v \in {"2", "~2"} -> "2"
      [] OTHER -> "undefined"

extractFromTypeSuffix(type) ==
    CASE type = V1 -> "1"
      [] type = V2 -> "2"
      [] OTHER -> "undefined"

\* Mutant: the header is trusted before the envelope's own field.
HeaderFirst(raw, header) ==
    LET fromEnvelopeField == coerceToSchemaVersion(raw.schemaVersion)
        fromHeader == coerceToSchemaVersion(header)
        fromType == extractFromTypeSuffix(raw.type)
    IN  IF fromHeader # "undefined" THEN fromHeader
        ELSE IF fromEnvelopeField # "undefined" THEN fromEnvelopeField
        ELSE IF fromType # "undefined" THEN fromType
        ELSE DEFAULT_SCHEMA_VERSION

\* The first source that names a version: the envelope's own field, the AMQP
\* header, the suffix of the type, the default.
resolveSchemaVersion(raw, header) ==
    LET fromEnvelopeField == coerceToSchemaVersion(raw.schemaVersion)
        fromHeader == coerceToSchemaVersion(header)
        fromType == extractFromTypeSuffix(raw.type)
    IN  IF fromEnvelopeField # "undefined" THEN fromEnvelopeField
        ELSE IF fromHeader # "undefined" THEN fromHeader
        ELSE IF fromType # "undefined" THEN fromType
        ELSE DEFAULT_SCHEMA_VERSION

\* eventEnvelopeSchema, as each version extends it.
SchemaVersionAllowed(eventType) == IF eventType = V1 THEN {"absent"} \cup SCHEMA_VERSIONS ELSE {"2"}

\* createMessageEventV1PayloadSchema strips what it does not know.
parseV1Payload(p) == [p EXCEPT !.extras = "absent"]

\* createMessageEventV2PayloadSchema fills in priority and metadata.
parseV2Payload(p) == [p EXCEPT !.extras = IF @ = "absent" THEN "default" ELSE @]

ValidPayload(eventType, p) ==
    /\ p.text \in Texts
    /\ eventType = V2 => p.extras # "malformed"

\* Mutant: only the envelope is validated.
IsValidEnvelopeOnly(eventType, raw) ==
    /\ raw.type = eventType
    /\ raw.correlationId = "uuid"
    /\ raw.schemaVersion \in SchemaVersionAllowed(eventType)

\* validateEvent(): is raw valid, and the event that parsing makes of it.
IsValid(eventType, raw) ==
    /\ raw.type = eventType
    /\ raw.correlationId = "uuid"
    /\ raw.schemaVersion \in SchemaVersionAllowed(eventType)
    /\ ValidPayload(eventType, raw.payload)

ParsedEvent(eventType, raw) ==
    [raw EXCEPT !.payload = IF eventType = V1 THEN parseV1Payload(@) ELSE parseV2Payload(@)]

------------------------------------------------------------------------------
buildCreateMessageEventV1(payload, correlationId) ==
    [type |-> V1, schemaVersion |-> "absent", correlationId |-> correlationId,
     payload |-> payload]

buildCreateMessageEventV2(payload, correlationId) ==
    [type |-> V2, schemaVersion |-> "2", correlationId |-> correlationId,
     payload |-> parseV2Payload(payload)]

\* Mutant: the upcast forgets the content, and the message gets the default.
UpcastDropsContent(v1) ==
    [type |-> V2, schemaVersion |-> "2", correlationId |-> v1.correlationId,
     payload |-> [text |-> "No content", extras |-> "default"]]

\* Only the payload goes through the v2 schema again.
upcastCreateMessageEventV1ToV2(v1) ==
    [type |-> V2, schemaVersion |-> "2", correlationId |-> v1.correlationId,
     payload |-> parseV2Payload([text |-> v1.payload.text, extras |-> "absent"])]

------------------------------------------------------------------------------
\* handleMessage(), steps 1 to 3: the version the envelope claims, its
\* contract, and the one shape business logic sees.
EventTypeName(raw, header) == IF resolveSchemaVersion(raw, header) = "2" THEN V2 ELSE V1

Accepts(raw, header) == IsValid(EventTypeName(raw, header), raw)

Normalised(raw, header) ==
    LET event == ParsedEvent(EventTypeName(raw, header), raw)
    IN  IF EventTypeName(raw, header) = V2 THEN event ELSE upcastCreateMessageEventV1ToV2(event)

\* Mutant: v2 is not listed as a command.
OnlyV1IsACommand == {V1}

COMMAND_EVENT_TYPES == {V1, V2}

\* Mutant: everything is published to messaging.direct, as before the fix.
RouteAllToWork(eventType) == "command"

\* Commands go to messaging.direct, anything else to the messaging.events fanout.
resolveOutboxRoute(eventType) == IF eventType \in COMMAND_EVENT_TYPES THEN "command" ELSE "domain-event"

==============================================================================

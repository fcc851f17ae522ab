----------------------------- MODULE RetryPolicy -----------------------------
(***************************************************************************)
(* The pure retry arithmetic shared by both outbox relays and by the       *)
(* RabbitMQ retry path of the consumer.                                    *)
(***************************************************************************)
EXTENDS Integers

\* RETRY_CONFIG
BASE_DELAY_MS == 2000
MAX_DELAY_MS == 30000

\* Exponential back-off of the attempt-th retry, capped.  The source computes
\* in doubles: nothing overflows, a huge power is simply capped.
retryDelayMs(attempt) ==
    LET raw == BASE_DELAY_MS * 2^(attempt - 1)
    IN  IF raw < MAX_DELAY_MS THEN raw ELSE MAX_DELAY_MS

\* Mutant: > for >=, one attempt too many.
computeFailureOutcomeOffByOne(attemptsBefore, maxAttempts) ==
    IF attemptsBefore + 1 > maxAttempts
    THEN [action |-> "dead-letter", newAttempts |-> attemptsBefore + 1]
    ELSE [action |-> "retry", newAttempts |-> attemptsBefore + 1,
          nextRetryAt |-> retryDelayMs(attemptsBefore + 1)]

\* What a failed publish does to a row that had attemptsBefore attempts.
\* nextRetryAt is the delay from now; a dead-lettered row has none.
computeFailureOutcome(attemptsBefore, maxAttempts) ==
    IF attemptsBefore + 1 >= maxAttempts
    THEN [action |-> "dead-letter", newAttempts |-> attemptsBefore + 1]
    ELSE [action |-> "retry", newAttempts |-> attemptsBefore + 1,
          nextRetryAt |-> retryDelayMs(attemptsBefore + 1)]

==============================================================================

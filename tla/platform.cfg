SPECIFICATION FairSpec
CONSTANTS
    q1 = q1
    s1 = s1
    NoBody = NoBody
    Requests = {q1}
    Strangers = {s1}
    Texts <- AllTexts
    StrangerRaw <- HelloEnvelopes
    StrangerHeader = {"absent", "1", "~2"}
    MayForget = TRUE
INVARIANTS
    TypeOK
    AnswersAreHonest
    TextIsKept
    DroppedOnlyIfMisnamed
    FactsAreTrue
PROPERTIES
    AcceptedIsSettled
    PersistedIsAnnounced
CHECK_DEADLOCK FALSE

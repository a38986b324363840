SPECIFICATION FairSpec
CONSTANTS
    t1 = t1
    t2 = t2
    c1 = c1
    c2 = c2
    s1 = s1
    s2 = s2
    Turns = {t1, t2}
    Conversation <- TwoConversations
    Supervisors = {s1, s2}
    Nobody = Nobody
    MaxQuestions <- TwoAndNone
    MaxGenerations = 2
    MaxFailures = 1
    MaxCrashes = 1
INVARIANTS
    TypeOK
    GenerationsAreExclusive
    WaitingOnQuestion
    StartedOnce
PROPERTIES
    TurnsSettle
    AcceptedIsTaken
    AnswerIsDelivered
CHECK_DEADLOCK FALSE

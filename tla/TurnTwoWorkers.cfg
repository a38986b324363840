SPECIFICATION Spec
CONSTANTS
    t1 = t1
    t2 = t2
    c1 = c1
    c2 = c2
    s1 = s1
    s2 = s2
    Turns = {t1}
    Conversation <- TwoConversations
    Supervisors = {s1, s2}
    Nobody = Nobody
    MaxQuestions <- OneEach
    MaxGenerations = 2
    MaxFailures = 0
    MaxCrashes = 0
INVARIANTS
    OneWorkerPerTurn
CHECK_DEADLOCK FALSE

\* One question after another; the context may expire during the second exchange.
CONSTANTS
    t1 = t1
    t2 = t2
    t3 = t3
    Tenants = {t1, t2, t3}
    Exported = {t1, t2}
    Holds <- MCHolds
    Compositions <- MCCompositions
    Timeout = 3
    ContextLifetime = 4
    MAX_ANSWER_ROWS = 1
SPECIFICATION FairSpec
INVARIANTS QuestionsTypeOK AnswersAreWhole NothingIsLeftRunning RefusalsTellTheTruth
PROPERTIES QuestionsEnd

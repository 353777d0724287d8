SPECIFICATION ReplyFairSpec
CONSTANTS
    MaxTurns = 2
    MaxRounds = 2
    MaxTexts = 1
    MaxFlights = 2
    MaxTroubles = 1
    RetryLimit = 1
    EmptyLimit = 1
PROPERTIES
    AnswerStays
    AnswerShown
CHECK_DEADLOCK FALSE

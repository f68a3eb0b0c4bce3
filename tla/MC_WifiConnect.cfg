SPECIFICATION FairSpec
CONSTANTS
    MaxNetworks = 2
    MaxRetries = 3
    MaxEvents = 3
INVARIANTS TypeOK LossIsTold UpIsTold AnswerIsDue
PROPERTIES Answered

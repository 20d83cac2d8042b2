CONSTANT Answers <- MCAnswers
SPECIFICATION FairSpec
CHECK_DEADLOCK FALSE
INVARIANTS TypeOK CustomCommandWellFormed
PROPERTY DialogueEnds

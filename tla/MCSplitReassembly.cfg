SPECIFICATION Spec
CONSTANTS
    Entries = 4
    Totals = {2, 3}
    PieceSize = 2
    HeaderSize = 1
    MaxAnswers = 3
INVARIANTS
    TypeOK
    OneAnswerAtATime
PROPERTIES
    RecoversWithNextAnswer

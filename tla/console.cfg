SPECIFICATION Spec
CONSTANTS
    None = None
    Consoles = {c1, c2}
    Window = 3
    PreviousLimit = 2
    MaxConversations = 2
    MaxAsks = 4
SYMMETRY Symmetries
INVARIANTS SentIsRecorded AnswersFollow KnownOutcome

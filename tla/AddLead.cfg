CONSTANTS
    Handlers = {h1, h2}
    key = key
    Keys <- OneKey
    User = User
    Messages <- ThreeMessages
    Malformed <- OnlyMistake
    MaxPending = 1
    MaxFaults = 1
    None = None
SPECIFICATION StorySpec
INVARIANT NoOrphanedSubmission
PROPERTY SubmissionSettles

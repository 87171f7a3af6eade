CONSTANT MaxRevision = 3
SPECIFICATION StorySpec
INVARIANT RefreshedIsCurrent
PROPERTY ProfileCatchesUp

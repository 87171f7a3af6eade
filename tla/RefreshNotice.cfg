CONSTANT MaxRevision = 2
SPECIFICATION ViewFairSpec
PROPERTY NoticeGoesWithTheList

SPECIFICATION Spec
CONSTANTS
  Workers = {w1, w2}
  MaxFaults = 1
  Posts = {p1}
  MaxAttempts = 2
  Blogs = {b1}
  MaxTries = 2
  MaxByHand = 1
  Notes = {x1, x2}
  PersonOf <- MCPersonOf
  EngageCap = 1
  HasGap = TRUE
  Found = {x1, x2}
  AuthorOf <- MCAuthorOf
  UpvoteCap = 2
  LinkCap = 1
  Spaced = FALSE
  Manual = FALSE
  Edits = {x1, x2}
  Asked = {x1, x2}
  AskerOf <- MCAskerOf
  Topics = {x1, x2}
  Cards = {x1, x2}
  NoCard = NoCard
  BuildAt = 2
  AskLimit = 1
  MaxSaid = 1
SYMMETRY MCSymmetry
INVARIANTS MirroredOnce PublishedOnce AnsweredOnce VotedOnce AsksAddUp VaultKept
CHECK_DEADLOCK FALSE

SPECIFICATION FairSpec
CONSTANTS
  t1 = t1
  t2 = t2
  Texts <- MCTexts
  NoText = NoText
  InRequest = InRequest
  MaxPasswords = 2
  Settings <- AllBuilds
INVARIANT PromptFresh
PROPERTY PromptEnds
CHECK_DEADLOCK FALSE

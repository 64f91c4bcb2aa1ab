SPECIFICATION FairSpec
CONSTANTS
  Profiles <- Two
  Needs <- TwoNeeds
  Rank <- TwoRank
  Layout <- TwoLayout
  Policy0 <- TwoPolicy
  NoProfile = NoProfile
  Edits <- DeskEdits
  Links0 <- DeskLink
  MaxMoves = 1
  MaxCmds = 3
  MaxEvents = 2
PROPERTIES
  Reasserted

SPECIFICATION FairSpec
CONSTANTS
  j1 = j1
  j2 = j2
  j3 = j3
  j4 = j4
  c1 = c1
  c2 = c2
  NONE = NONE
  Replies <- ThreeReplies
  Jobs = {j1, j2, j3, j4}
  Loads <- ThreeOrTwo
  Channels = {c1, c2}
  Addressed = {j1, j2, j3}
  ChannelOf <- OneChannel
  KindOf <- TextsFileRaw
PROPERTIES
  FollowUpContinuesThread

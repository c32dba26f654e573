SPECIFICATION FairSpec
CONSTANTS
  Offers = {o1, o2}
  Chats = {hers, other}
  NoOffer = NoOffer
  NoChat = NoChat
  MaxUpdates = 3
  MaxKills = 1
CHECK_DEADLOCK FALSE
INVARIANTS
  HandledOnce
  LossBound
PROPERTIES
  ImplementsContract
  UpdatesTaken

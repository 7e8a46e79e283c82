SPECIFICATION Spec
CONSTANTS
  Letters = {"a", "b"}
  Syllables <- MCSyllables
  Triggers <- MCTriggers
  Statics = {"date"}
  HeadMax = 1
  PageSize = 2
  Contexts = {c0}
  VoiceContext = zero
  QueueBound = 1
  MaxPinyin = 3
  MaxCommand = 3
INVARIANTS HoldsWhatIsTyped Conserved FreshOrRefreshing NoRefreshLost
PROPERTY PanelFollows

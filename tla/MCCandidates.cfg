SPECIFICATION CandidatesSpec
CONSTANTS
  Syllables <- MCSyllables
  Lookup <- MCLookup
  Dicts <- MCDicts
  Inputs <- MCInputs
  EnglishRows <- MCEnglish
  EmojiTable <- MCEmojiTable
  EmojiRows <- MCEmojiRows
  TopN <- MCTopN
  IndexCap = 3
  MatchTake = 2
  PrefixTake = 2
  LegacyMax = 19
  ContextAware = TRUE
  MaxLearned = 2
  EarlierPicks <- MCEarlierPicks
INVARIANTS IndexIsTheDictionarys  OnlyPinsLower

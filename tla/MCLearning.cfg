SPECIFICATION Spec
CONSTANTS
  Phrases = {p1, p2}
  Presets = {p2}
  Typed = {t1}
  MaxEntries = 2
  Limits = {0, 1}
  DictScore = 710
  MaxNow = 2
  MaxUses = 2
INVARIANTS RestartRestores RecentIsBoosted
PROPERTY UseNeverDemotes

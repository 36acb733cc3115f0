CONSTANTS
  Categories <- RunCategories
  Confidences = {1, 5}
  Verbosities = {3}
  Prefixes <- RunPrefixes
  FilterLists <- RunFilterLists
  Countings = {""}
  Configs <- RunConfigs
  Dirs = {"top", "sub"}
  Files <- RunFiles
  Nolints <- RunNolints
  MaxFiles = 2
  MaxLine = 1
  MaxReports = 1
SPECIFICATION Spec
INVARIANTS FiltersRestored InnermostDecides OwnNolintsOnly

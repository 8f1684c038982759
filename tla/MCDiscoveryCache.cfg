SPECIFICATION CacheSpec
CONSTANTS
  v1 = v1
  v2 = v2
  c1 = c1
  c2 = c2
  Versions <- MCVersions
  Configs <- MCConfigs
  MaxCommits = 3
  MaxPlans = 3
  External = TRUE
SYMMETRY Symmetry
PROPERTIES
  RestoredListIsCurrent
  FreshListIsNotRefused
CHECK_DEADLOCK FALSE

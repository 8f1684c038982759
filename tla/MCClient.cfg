SPECIFICATION FairSpec
CONSTANT SettingsData <- MCSettings
INVARIANTS
  SettingsFollowTheUpload
  UploadIsAwaited
  CacheIsComplete
  SignalStoresSettings
PROPERTY
  ProcessEnds
CHECK_DEADLOCK FALSE

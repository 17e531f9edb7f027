SPECIFICATION FairSpec
CONSTANTS
  small = small
  large = large
  NoSecret = NoSecret
  NoFile = NoFile
  Secrets <- MCSecrets
  Size <- MCSize
  Envs <- LongNameEnvs
  Registered = {"env", "local", "keeper"}
  DefaultMax = 8
  VolumeLimit = 10
  NameMax = 255
  CreateMode = "0600"
  MaxRetries = 5
  Second = 2
  Jitter <- MCJitter
  Deadline = 60
  CallTimes <- Calls
  PromptTimes <- Prompt
  MaxCrashes = 1
  MaxIOErrors = 1
PROPERTY AcceptedNameDelivered
CHECK_DEADLOCK FALSE

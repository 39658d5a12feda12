\* One packet, no crash and no failure of Redis.
CONSTANTS
  MaxPackets = 1
  QueueMax = 2
  BatchSize = 2
  MaxAttempts = 3
  MaxCrashes = 0
  Handlers = {h1, h2}
  NoHandler = NoHandler
  Envelopes = {1}
  BridgeQueueMax = 1
  BridgeMaxAttempts = 3
  Secrets = {s1, s2}
  NoSecret = NoSecret
  MaxFaults = 0
SPECIFICATION Spec
INVARIANTS
  SpoolIsReplayed

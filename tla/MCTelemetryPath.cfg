\* One packet, sent up to three times and once more after a crash, so that two
\* requests for it and the worker compete for a queue with room for one.
CONSTANTS
  MaxPackets = 1
  QueueMax = 2
  BatchSize = 2
  MaxAttempts = 3
  MaxCrashes = 1
  Handlers = {h1, h2}
  NoHandler = NoHandler
  Envelopes = {1}
  BridgeQueueMax = 1
  BridgeMaxAttempts = 2
  Secrets = {s1, s2}
  NoSecret = NoSecret
  MaxFaults = 1
SPECIFICATION Spec
SYMMETRY Symmetry
INVARIANTS
  TypeOK
  StoredOnce
  Custody
  DeadForAReason
  QueueOvershoot

SPECIFICATION FairSpec
CONSTANTS
  WordLimit = 100000
  Requests = {r1, r2}
  Topics = {admin, metrics}
  AdminTopic = admin
  Instances = {i1}
  Dirs = {d1, d2}
  NoDir = NoDir
  Environments <- OneKnob
  NoLimits = NoLimits
  MaxFaults = 1
INVARIANTS TypeOK RepliesInOrder PairingShown
PROPERTIES LimitsInRange TopicsIndependent AdminServed
CHECK_DEADLOCK FALSE

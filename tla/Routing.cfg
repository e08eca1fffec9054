SPECIFICATION Spec
CONSTANT Minors <- MCMinors
INVARIANTS ActionDefined KnownClusterServes PollsWhereAccepted FailureSeen
PROPERTIES UpgradeKeepsFeatures

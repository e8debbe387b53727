SPECIFICATION FairSpec
CONSTANTS
  alice = alice
  bob = bob
  Participant = {alice, bob}
  MaxCouncilRounds = 1
  Draft = {"draft"}
  ExchangePayload = {"contest"}
  ChallengePayload = {"clear"}
  CheckPayload = {"accurate"}
  ExtensionId = {"ext"}
  StartArguments <- OneRound
  MaxTransitions = 5
  MaxFaults = 2
  MaxDelivered = 1
CHECK_DEADLOCK FALSE
PROPERTY
  EventuallyAnnounced
INVARIANTS
  Converged

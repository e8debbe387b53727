SPECIFICATION Spec
CONSTANTS
  alice = alice
  bob = bob
  Participant = {alice, bob}
  MaxCouncilRounds = 1
  Draft = {"draft"}
  ExchangePayload = {"contest"}
  ChallengePayload = {"clear"}
  CheckPayload = {"accurate"}
  ExtensionId = {"ext"}
  StartArguments <- OneRound
  MaxTransitions = 10
  MaxFaults = 1
  MaxDelivered = 1
CHECK_DEADLOCK FALSE
INVARIANT
  FinalExactlyWhenComplete

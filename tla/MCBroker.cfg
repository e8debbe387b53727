SPECIFICATION Spec
CONSTANTS
  alice = alice
  bob = bob
  Participant = {alice, bob}
  MaxCouncilRounds = 2
  Draft = {"draft"}
  ExchangePayload = {"contest"}
  ChallengePayload = {"clear"}
  CheckPayload = {"accurate"}
  ExtensionId = {"ext"}
  StartArguments <- Extensible
  MaxTransitions = 10
  MaxFaults = 1
  MaxDelivered = 1
CONSTRAINT ExtendedBriefly
CHECK_DEADLOCK FALSE
INVARIANTS
  OutboxSound
  AuditedOnce
  CompletionReferenceValid
PROPERTY
  ImplementsDialogue

SPECIFICATION FairDialogueSpec
CONSTANTS
  alice = alice
  bob = bob
  carol = carol
  Participant = {alice, bob, carol}
  MaxCouncilRounds = 2
  Draft = {draft}
  ExchangePayload = {"settled_one_way", "settled_other_way", "uncertain", "contest"}
  ChallengePayload = {"clear", "material"}
  CheckPayload = {"accurate", "correction"}
  ExtensionId = {ext}
  draft = draft
  ext = ext
CONSTRAINT Considered
CHECK_DEADLOCK FALSE
INVARIANTS
  BarriersHold
  CompletionReviewed
  SynthesisEarned
  ReopenContextFresh
  RetryIsRecognised
PROPERTIES
  NoStepBackwards
  EventuallyTerminal

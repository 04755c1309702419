SPECIFICATION Spec
CONSTANTS
  Texts <- MCTexts
  SettingsChoices <- MCSettings
  VerifiedSettings <- MCVerified
CHECK_DEADLOCK FALSE
INVARIANTS
  FixForgetsNothing
  CodeIsNotReported
  NoHalfConstruct

SPECIFICATION MCSpec
CONSTANTS
  Texts <- MCTexts
  MaxDecimals = 2
  MaxGiven = 3
ACTION_CONSTRAINT TwoAndAmount
INVARIANTS SettingsInv TypeOK Precedence NothingSentUnasked KeyAsConfigured ReplayFollowsLog AmountExact DisplayedIsSent
CHECK_DEADLOCK FALSE

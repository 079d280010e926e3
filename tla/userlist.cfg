\* Any two buttons at any time.
SPECIFICATION FairSpec
CONSTANTS
  MAX_USERS = 3
  Hands = 2
INVARIANTS ListTypeOK ShowsUser
PROPERTY ImplementsRoster

CONSTANTS
  Users = {u}
  Anon = anon
  Begun = {anon}
  NoToken = noToken
  Unlisted = unlisted
  NoSlot = noSlot
  Slots = {c, d}
  MaxTokens = 2
  MaxEvents = 1
SPECIFICATION FairSpec
INVARIANTS ServerHoldsTheToken
PROPERTIES NoTokensForTheShut RequestsEnd LogoutPrevails
CHECK_DEADLOCK FALSE

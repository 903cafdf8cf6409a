CONSTANTS
  Users = {u, v}
  Anon = anon
  Begun = {u, v, anon}
  NoToken = noToken
  Unlisted = unlisted
  NoSlot = noSlot
  Slots = {c, d}
  MaxTokens = 3
  MaxEvents = 0
SYMMETRY Perms
SPECIFICATION Spec
INVARIANTS TypeOK ServerHoldsTheToken RequestsStayWithTheirUser
CHECK_DEADLOCK FALSE

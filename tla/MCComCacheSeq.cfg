CONSTANTS
  Clients = {c1}
  Groups = {g1, g2, g3, g4, g5}
  Nobody = Nobody
  Cct = Cct
  allow_com_cache_thread = FALSE
  MAX_COMC_IN_MEMORY = 3
  MAX_COMC_DIRTY = 2
SPECIFICATION Spec
INVARIANT LimitKept
PROPERTY GetReturns

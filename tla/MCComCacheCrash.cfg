CONSTANTS
  Clients = {c1, c2}
  Groups = {g1, g2, g3, g4}
  Nobody = Nobody
  Cct = Cct
  allow_com_cache_thread = TRUE
  MAX_COMC_IN_MEMORY = 4
  MAX_COMC_DIRTY = 3
SPECIFICATION Spec
SYMMETRY Symmetric
INVARIANT PrevIsThere
\* The program ends where comc_move_front reads through a null pointer.
CHECK_DEADLOCK FALSE

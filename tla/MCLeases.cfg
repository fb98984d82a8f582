\* Two workers, one task, two leases; a client that leases, one that replaces.
SPECIFICATION Spec
CONSTANTS
  c1 = c1
  c2 = c2
  t1 = t1
  w1 = w1
  w2 = w2
  None = None
  Clients = {c1, c2}
  Serves <- OneServer
  Replacers = {c2}
  Workers = {w1, w2}
  Tasks = {t1}
  MaxLeases = 2
INVARIANTS OneActiveLease LeaseMapsAgree TokensAgree
PROPERTY ReplacedIsOut
SYMMETRY Alike
CHECK_DEADLOCK FALSE

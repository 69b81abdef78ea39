SPECIFICATION Spec
CONSTANTS
  t1 = t1  t2 = t2  r1 = r1  r2 = r2  n1 = n1  n2 = n2  s1 = s1  s2 = s2 
  console = console  panel = panel  router = router
  Teams = {t1, t2}
  Roots = {r1, r2}
  Names = {n1, n2}
  Uuids = {s1, s2}
  Consoles = {console}
  Routers = {router}
  None = None
  MaxMoves = 3
  MaxOps = 3
SYMMETRY Swaps
CHECK_DEADLOCK FALSE
INVARIANTS LeadIsMember OneToOne ToldOnce

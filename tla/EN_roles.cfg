SPECIFICATION Spec
CONSTANTS
  concierge = concierge  orchestrator = orchestrator  tab = tab  home = home  out = out
  s1 = s1  s2 = s2  panel = panel  revive = revive
  Roles = {concierge, orchestrator}
  Names = {tab}
  Dirs = {home, out}
  Home = home
  Inside = {home}
  Uuids = {s1, s2}
  Typed = {0}
  Activators = {panel, revive}
  Kinds = {"read", "bash", "readenv"}
  Reads = {"read", "readenv"}
  Sensitive = {"readenv"}
  ComesUp = {TRUE, FALSE}
  None = None
  MaxMoves = 2
  MaxAsked = 2
  MaxOps = 3
SYMMETRY Swaps
CHECK_DEADLOCK FALSE
INVARIANTS OneOfEach PromptsHandled

SPECIFICATION Spec
CONSTANTS
  e1 = e1
  e2 = e2
  n = n
  o = o
  s1 = s1
  s2 = s2
  p1 = p1
  p2 = p2
  Event = {e1, n}
  Obligation = {o}
  Notice <- MCNotice
  Resolving = {n}
  Server = {s1}
  Recipe = {p1}
  NoRecipe = NoRecipe
  NoEvent = NoEvent
  Verdicts = {"PASS", "FAIL"}
  MaxLead = 0
  MaxDisruptions = 1
PROPERTIES
  PausedStartsNothing
CHECK_DEADLOCK FALSE

SPECIFICATION Spec
CONSTANTS
  Procs = {p1, p2}
  Texts = {t1, t2, t3}
  Archs = {gfx1030}
  Nothing = Nothing
  MaxEdits = 2
  MaxStarts = 3
SYMMETRY Symmetry
INVARIANT ModuleIsCurrent
CHECK_DEADLOCK FALSE

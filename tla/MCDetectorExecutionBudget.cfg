\* Two requests name the same remaining budget of their program.
SPECIFICATION Spec
CONSTANTS
  Procs = {p1}
  Runs = {a, b}
  DetectorMaximum = 2
  Remaining = 2
  NoRun = NoRun
SYMMETRY Symmetry
INVARIANT ProgramBudget
CHECK_DEADLOCK FALSE

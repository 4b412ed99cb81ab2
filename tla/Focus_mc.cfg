SPECIFICATION FocusSpec
CONSTANTS
  None = None  vr = vr
  Objects = {o1, o2}
  Hids <- McHids
  Selections <- McSelections
  Configs = {"default", "drag"}
INVARIANT Separated
PROPERTY ImplementsFocus

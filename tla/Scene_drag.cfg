SPECIFICATION SceneSpec
CONSTANTS
  None = None  vr = vr  screen = screen  table = table  shelf = shelf  box = box
  Objects = {screen, table, shelf, box}
  Hids <- McHids
  Selections = {}
  Configs <- McConfigs
  Kind <- McKind
  Roots <- McRoots
  Children <- McChildren
  Buttons <- McButtons
  Switched <- McSwitched
INVARIANT DragNotLost

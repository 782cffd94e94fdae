CONSTANTS
  Instances = {i1, i2}
  Missing = missing
  MaxEdits = 2
  MinFont = 1
  MaxFont = 3
  DefaultFont = 2
  Sizes = {1, 2, 3, 5}
SPECIFICATION Spec
INVARIANTS TypeOK SettingsSurvive
SYMMETRY Symmetry
CHECK_DEADLOCK FALSE

CONSTANTS
  Valid = {A, B}
  Invalid = {X}
  Missing = Missing
  None = None
  MaxWrites = 3
  MaxNoKey = 1
SPECIFICATION Spec
INVARIANTS
  TypeOK
  ChangeNotLost
PROPERTIES
  ChangeIsReal
  FileIsFollowed

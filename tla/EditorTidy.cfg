SPECIFICATION Spec
CONSTANTS
  Pages = {p1, p2}
  Objects = {o1, o2, o3, o4}
  NoObject = NoObject
SYMMETRY Symmetric
CONSTRAINT Tidy
INVARIANTS EditorTypeOK ListsAreSafe IdleHasNothingPending MoveListIsSelection

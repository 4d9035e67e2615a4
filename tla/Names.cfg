CONSTANTS
  Users = {u1, u2, u3}
  Names = {n1, n2, n3, n4}
  NoName = NoName
  Nobody = Nobody
  Handlers = {h1}
  EnabledOps <- AllOps
  MayFail = TRUE
SPECIFICATION Spec
SYMMETRY Symmetric
INVARIANTS NamesUnique NamesResolve NoStrayName

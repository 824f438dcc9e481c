SPECIFICATION MCSpec
CONSTANTS
  None = None
  Requests = {r1, r2}
  Users = {u1, u2}
  Spaces = {"s"}
  MaxUsers = 3
  MaxSpaces = 2
  Kinds = {"overlap", "demote", "error"}
SYMMETRY Symmetry
INVARIANTS  DeclaredIsServed AckedKept GrantsAsAsked
            NothingSkipped
 
CHECK_DEADLOCK FALSE

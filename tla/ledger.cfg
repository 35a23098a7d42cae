CONSTANTS
  u1 = u1
  u2 = u2
  Users = {u1, u2}
  Calls = {c1, c2, c3}
  Amounts = {2, 3}
  Refs = {r1}
  NoRef = NoRef
  Indexed = FALSE
  Opening <- SeededFirst
SPECIFICATION Spec
CHECK_DEADLOCK FALSE
INVARIANTS NoOverdraft RunningBalance AnswerIsTrue
PROPERTIES ImplementsAccount

SPECIFICATION Spec
CONSTANTS
  c1 = c1
  c2 = c2
  e1 = e1
  e2 = e2
  m1 = m1
  m2 = m2
  NoModel = NoModel
  Chats = {c1}
  Others = {e1}
  Models = {m1, m2}
  MaxOps = 3
  MaxSaves = 2
INVARIANTS
  BooksAreTrue
  AcceleratorIsShared
  SavedContextIsOwned
CHECK_DEADLOCK FALSE

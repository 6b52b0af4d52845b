SPECIFICATION Spec
CONSTANT Files <- BytesAndWords
INVARIANTS
  ValuesCovered
  ValuesTriedOnce

SPECIFICATION Spec
CONSTANT MaxInputs = 3
INVARIANTS AllSetsOnce

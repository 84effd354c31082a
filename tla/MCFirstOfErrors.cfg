SPECIFICATION FairSpec
CONSTANT MaxInputs = 3
PROPERTIES ErrorArrives

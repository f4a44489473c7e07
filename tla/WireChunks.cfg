CONSTANTS
  MaxWritten = 3
  Sizes = {5, 7}
SPECIFICATION Spec
CHECK_DEADLOCK FALSE
INVARIANTS TypeOK CutFrameIsError
PROPERTY ReadsFrames

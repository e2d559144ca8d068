CONSTANTS
  MemSize = 16
  SizeofMem = 1
  MinSize = 2
  Sizes = {1,2,3,4,5,6}
SPECIFICATION MemSpec
INVARIANT TrimNeverAsserts

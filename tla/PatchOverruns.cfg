\* The driver's own patch of ToExtFS does not fit in the block.
SPECIFICATION PatchSpec
CONSTANTS
  Texts <- MCTexts
  Originals = {"code", "null", "ones"}
  MaxVectorCalls = 2
INVARIANTS
  BlockShrinks
CHECK_DEADLOCK FALSE

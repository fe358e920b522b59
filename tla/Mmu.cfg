\* Aligned 1, 2, 4 and 8-byte reads and writes on 4 KiB pages.
CONSTANTS
  None = None
  PageBits = 12
  VPages = {0, 1, 2}
  PageMap <- MCPageMap
  Offsets <- MCAlignedOffsets
  Sizes = {1, 2, 4, 8}
  Vals = {1}
SPECIFICATION Spec
PROPERTY GuestMemorySpec

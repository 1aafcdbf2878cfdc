\* The instances of the other components are in MCAlgorithms.
SPECIFICATION Spec
CONSTANTS
  \* The default settings, others on either side of them, and sizes that end before, at
  \* and behind the limits of blocks; a block's symbols take next to nothing, the most
  \* for which it is not stored, and the most there is.
  WindowBits = {9, 15}
  MemLevels = {1, 8, 9}
  Levels = {0, 6}
  Fields = {3}
  Sizes = {0, 1, 2, 3, 4, 5, 6, 7, 8, 9, 10, 11, 12, 13, 14, 15, 16, 17, 18, 19, 20,
    124, 125, 126, 127, 128, 129, 130, 505, 506, 507, 508, 509, 510, 511, 512, 513,
    514, 515, 516, 2000, 2001, 2002, 2003, 16380, 16381, 16382, 16383, 16384, 16385,
    16386, 32765, 32766, 32767, 32768, 32769, 65530, 65531, 65532, 65533, 65534, 65535,
    65536, 65537, 65538, 65539, 65540, 81915, 131070, 131071}
  OptLens = {7, 131085}
  MaxBlocks = 17
  \* Sources of up to four bytes in pieces of two.
  Piece = 2
  MaxSource = 4
  Totals = {0, 1, 3, 6, 9}
  DestLens = {0, 1, 2, 3, 5, 12}
  Events = {"end", "corrupt", "dict", "truncated"}
INVARIANTS
  SumsExact
  TreesExact
  TablesExact
  UtilitiesExact

SPECIFICATION Spec
CONSTANTS
  HeapSize = 10
  Sizes = {0, 1, 2, 3, 5}
  NPROC = 3
  NQUEUE = 3
  Keys = {1, 2, 3}
  Sorted <- ReadyList
  Delta <- SleepQueue
  NCTX = 2
  StackTop = 2004
  NArgs = {2, 11}
  Residues = {3, 6}
  NMEM = 5
  Chars = {1, 2}
  WIDTH = 8
  Bases = {0, 1, 2, 7, 10, 16, 35, 36, 37}
  Rooms = {0, 1, 2, 3, 4, 8, 9, 10}
  MaxLen = 5
  Elems = {1, 2, 3}
  Flags <- MCFlags
  Widths <- MCWidths
  Precisions <- MCPrecisions
  Longs <- MCLongs
  Stars <- MCStars
  Texts <- MCTexts
INVARIANTS
  FreeListExact
  LinksAgree
  ReadsRight
  WritesRight
  TokensRight
  NumbersRight
  SortsInput
  NestsLittle
PROPERTIES
  KeepsPromise
  SpellsQueues
  RegistersKept
  StartsRight
  MaskKept
  DirectivesRight
VIEW View

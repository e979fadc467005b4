SPECIFICATION CtxSpec
CONSTANTS
  NCTX = 2
  StackTop = 2004
  NArgs = {2, 11}
  Residues = {3, 6}
PROPERTIES
  ReturnsToCaller

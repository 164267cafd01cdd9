SPECIFICATION Spec
CONSTANTS
  ale = ale  beer = beer  print = print  paper = paper  sa = sa  sb = sb
  Requests = {r1, r2, r3}
  NoRequest = NoRequest
  Rows <- TwoProducts
  Services <- NoServices
  Tracked <- TwoProducts
  Uses <- NoUses
  PerUnit <- NoUses
  OpeningStock <- ShelfStock
  Sales = {sa}
  Line <- OneSaleOfTwo
  Total <- TotalOfTwo
  Tenders = {1, 2}
  RestockBy = {}
  CountTo = {}
  AdjustBy = {}
  PatchTo = {}
SYMMETRY Symmetric
CHECK_DEADLOCK FALSE
INVARIANT VoidRestoresOnlyWhatWasCut

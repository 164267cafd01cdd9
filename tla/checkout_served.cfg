SPECIFICATION FairSpec
CONSTANTS
  ale = ale  beer = beer  print = print  paper = paper  sa = sa  sb = sb
  Requests = {r1, r2}
  NoRequest = NoRequest
  Rows <- TwoProducts
  Services <- NoServices
  Tracked <- TwoProducts
  Uses <- NoUses
  PerUnit <- NoUses
  OpeningStock <- ShelfStock
  Sales = {sa, sb}
  Line <- TwoSalesOfTwo
  Total <- TotalOfTwo
  Tenders = {2}
  RestockBy = {}
  CountTo = {}
  AdjustBy = {}
  PatchTo = {}
CHECK_DEADLOCK FALSE
PROPERTY Served

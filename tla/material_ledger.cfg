SPECIFICATION Spec
CONSTANTS
  ale = ale  beer = beer  print = print  paper = paper  sa = sa  sb = sb
  Requests = {r1, r2, r3}
  NoRequest = NoRequest
  Rows <- Copyshop
  Services <- PrintService
  Tracked <- CopyshopGoods
  Uses <- PrintUses
  PerUnit <- PrintPerUnit
  OpeningStock <- CopyshopStock
  Sales = {sa, sb}
  Line <- CopyshopSales
  Total <- TotalOfTwo
  Tenders = {2}
  RestockBy = {1}
  CountTo = {}
  AdjustBy = {}
  PatchTo = {}
SYMMETRY Symmetric
CHECK_DEADLOCK FALSE
PROPERTY HistoryAccountsForStock

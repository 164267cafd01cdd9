SPECIFICATION Spec
CONSTANTS
  ale = ale  beer = beer  print = print  paper = paper  sa = sa  sb = sb
  Requests = {r1, r2, r3}
  NoRequest = NoRequest
  Rows <- TwoProducts
  Services <- NoServices
  Tracked <- TwoProducts
  Uses <- NoUses
  PerUnit <- NoUses
  OpeningStock <- ShelfStock
  Sales = {sa}
  Line <- OneSaleOfTwo
  Total <- TotalOfTwo
  Tenders = {1, 2}
  RestockBy = {1}
  CountTo = {0}
  AdjustBy <- ShelfAdjust
  PatchTo = {1}
SYMMETRY Symmetric
CHECK_DEADLOCK FALSE
INVARIANTS
  TypeOK CompletedIsPaid PaidColumnNeverOverstates DebtNeverVanishes
  SecondRestoreNeedsRace CountedAtMostOnce
PROPERTIES
  ImplementsStockLedger ImplementsSaleBook PaymentsNeverErased CollectNeverOverpays

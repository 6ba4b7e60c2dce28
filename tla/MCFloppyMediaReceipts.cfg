SPECIFICATION Spec
CONSTANTS
  r1 = r1
  r2 = r2
  r3 = r3
  none = none
  Receipts <- MCReceipts
  NoReceipt <- none
  Capacity <- MCCapacity
  MaxTotal <- MCMaxTotal
INVARIANTS
  IInv
  LookupFindsTheWindow
PROPERTY ImplementsLog

\* Two workers, three order items with order metadata, more ordered than in stock.
CONSTANTS
  Messages = {1, 2, 3}
  Body <- BodiesWithMetadata
  Products = {1}
  Workers = {w1, w2}
  InitialStock = 3
  EditStocks = {2}
  MaxCopies = 2
  MaxRetries = 1
  MaxEdits = 1
  NoMessage = NoMessage
  NoProduct = NoProduct
SPECIFICATION Spec
SYMMETRY WorkerSymmetry
INVARIANTS
  TypeOK
  StockMatchesClaims
  DeductedAtMostOnce
  StockNeverNegative
  AckedIsDeducted
\* With every copy settled nothing is left to do.
CHECK_DEADLOCK FALSE

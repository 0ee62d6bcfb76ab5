SPECIFICATION Spec
CONSTANTS
  Price = {1, 2, 3}
  Qty = {1}
  TickSize = 2
  Feeds <- SnapshotFeeds
  Books <- Thin
  FirstBooks <- OneAsk
  MaxChanges = 2
INVARIANTS TypeOK SummariesAgree
PROPERTIES BooksAreCopies InsertsHoldNothingUp
CHECK_DEADLOCK FALSE

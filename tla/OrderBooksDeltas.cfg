SPECIFICATION Spec
CONSTANTS
  Price = {1, 2}
  Qty = {1}
  TickSize = 1
  Feeds <- BinanceOnly
  Books <- Whole
  FirstBooks <- Narrow
  MaxChanges = 3
INVARIANTS DepthUpdatesSuffice
CHECK_DEADLOCK FALSE

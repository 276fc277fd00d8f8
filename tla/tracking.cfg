SPECIFICATION FairSpec
CONSTANTS
  Levels = {"stop", "trim"}
  PriceOf <- TwoPrices
  Terminal = {"stop"}
  Rearmable = {"trim"}
  MaxPrice = 2
  ArmPrices = {0, 2}
  MaxEvents = 3
  MaxCommands = 1
  MaxFaults = 1
INVARIANTS TypeOK RepeatsAccounted NoCrossingSwallowed TerminalEnds
PROPERTY QuietInTheEnd
CHECK_DEADLOCK FALSE

SPECIFICATION TSpec
CONSTANTS
  WORD = 16
  XRegs <- MCXRegs
  FRegs <- MCFRegs
  X0 = "x0"
  MemWords = 2
  UART_TX_ADDR = 15
  OrW <- MCOr
  AndNotW <- MCAndNot
  Programs <- TagePrograms
  TPrograms <- TagePrograms
  ShortPatterns <- ShortLoops
  TAGE_BASE_BITS = 9
  TAGE_TBL_BITS = 7
  TAGE_TAG_BITS = 8
  TAGE_HIST <- Histories
  TAGE_GHR_BITS = 16
  ROB_SZ = 8
  ALU_LAT = 1
  BR_LAT = 1
  MUL_LAT = 2
  DIV_LAT = 4
  FPU_LAT_ADDMUL = 3
  FPU_LAT_DIV = 5
  FPU_LAT_FMA = 4
  FPU_LAT_MISC = 2
  MaxTimer = 1
INVARIANTS TageTypeOK HistoryFollowsPath
PROPERTIES Learns Settles

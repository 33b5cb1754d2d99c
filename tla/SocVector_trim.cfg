SPECIFICATION TSpec
CONSTANTS
  WORD = 16
  XRegs <- MCXRegs
  FRegs <- MCFRegs
  X0 = "x0"
  MemWords = 4
  UART_TX_ADDR = 15
  OrW <- MCOr
  AndNotW <- MCAndNot
  Programs = {}
  ROB_SZ = 4
  ALU_LAT = 1
  BR_LAT = 1
  MUL_LAT = 2
  DIV_LAT = 4
  FPU_LAT_ADDMUL = 3
  FPU_LAT_DIV = 5
  FPU_LAT_FMA = 4
  FPU_LAT_MISC = 2
  MaxTimer = 0
  NVREGS = 4
  CELLS = 4
  CELL_BITS = 2
  VPrograms <- StoreBehindTrim
  VIQ_SZ = 2
  VALU_LAT = 2
  VMUL_LAT = 4
  VSLDU_LAT = 2
PROPERTIES CapturedVlPrecise

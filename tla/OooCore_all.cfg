SPECIFICATION Spec
CONSTANTS
  WORD = 16
  XRegs <- MCXRegs
  FRegs <- MCFRegs
  X0 = "x0"
  MemWords = 4
  UART_TX_ADDR = 15
  OrW <- MCOr
  AndNotW <- MCAndNot
  VRegs <- MCVRegs
  LANES = 2
  Programs <- OooPrograms
  ROB_SZ = 4
  MUL_LAT = 2
  DIV_LAT = 4
  FPU_LAT_ADDMUL = 3
  FPU_LAT_DIV = 5
  FPU_LAT_FMA = 4
  FPU_LAT_MISC = 2
  VEC_LAT = 3
INVARIANTS OooTypeOK OooNoLostWakeup
PROPERTIES ImplementsOooIsa OooTerminates

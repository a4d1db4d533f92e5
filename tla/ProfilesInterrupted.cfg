SPECIFICATION StoreSpec
CONSTANTS
    BackslashTails <- MCBackslashTails
    Opening = {"open{"}
    Closing = {"close}"}
    Digits = 2
    Printers <- MCPrinters
    Memories <- MCMemories
    Block = 28
CHECK_DEADLOCK FALSE
PROPERTY
    KeepsLikeARegister

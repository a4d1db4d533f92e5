SPECIFICATION StoreSpec
CONSTANTS
    BackslashTails <- MCBackslashTails
    Opening = {}
    Closing = {}
    Digits = 2
    Printers <- WindowsPrinters
    Memories <- WindowsMemories
    Block = 28
CHECK_DEADLOCK FALSE
INVARIANT
    NamesSurvive

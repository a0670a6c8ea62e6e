CONSTANTS
    Writers = {w1, w2}
    Owner = Owner
    Printer = Printer
    Free = Free
    MaxPieces = 2
    MaxLines = 2
SPECIFICATION FairSpec
INVARIANTS PrintedInOrder LinesAreWhole NoFault DestroyedMeansPrinted
PROPERTIES LinesArePrinted DestructorReturns

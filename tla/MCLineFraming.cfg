SPECIFICATION Spec
CONSTANTS
    LF = LF
    CR = CR
    NUL = NUL
    a = a
    b = b
    Byte = {LF, CR, NUL, a}
    BUF_SIZE = 3
    QuitLine <- Quit
    MaxSent = 5
\* A client writes no more than MaxSent bytes, and after a QUIT or a hang-up the
\* connection is closed.
CHECK_DEADLOCK FALSE
INVARIANTS
    TypeOK
    BufferHoldsOpenLine
    LinesIndependentOfReads
PROPERTIES
    ImplementsLineStream
    LinesHandledIfLookedAt

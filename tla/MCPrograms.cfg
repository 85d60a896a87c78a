\* Programs come and go; those whose pages are where their numbers say call the kernel.
CONSTANTS
    p1 = p1
    p2 = p2
    p3 = p3
    p4 = p4
    a = a
    b = b
    Zero = Zero
    None = None
    Main = Main
    Programs = {p1, p2, p3, p4}
    Executables = {p1, p2, p3}
    Words = {a, b, Zero}
    Pages <- MCPages
    Text <- MCText
    NumFrames = 3
    NumSlots = 2
    InitialFiles <- MCInitialFiles
    Careful = TRUE
    MaxCalls = 4
    MaxLength = 2
SPECIFICATION Spec
INVARIANTS TypeOK FramesOwnedOnce
SYMMETRY ProgramSymmetry
PROPERTIES ImplementsUserMachine
\* All programs end, or the machine stops.
CHECK_DEADLOCK FALSE

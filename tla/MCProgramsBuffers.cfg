\* Programs pass the addresses of buffers anywhere in their memory.
CONSTANTS
    p1 = p1
    p2 = p2
    p3 = p3
    p4 = p4
    a = a
    b = b
    Zero = Zero
    None = None
    Main = Main
    Programs = {p1, p2, p3, p4}
    Executables = {p1, p2, p3}
    Words = {a, b, Zero}
    Pages <- MCPages
    Text <- MCText
    NumFrames = 3
    NumSlots = 2
    InitialFiles <- MCInitialFiles
    Careful = FALSE
    MaxCalls = 3
    MaxLength = 2
SPECIFICATION Spec
PROPERTIES MemoryIsPrivate
\* All programs end, or the machine stops.
CHECK_DEADLOCK FALSE

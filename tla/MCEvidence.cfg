CONSTANTS
    None = None
    Length = 4
    Width = 80
    Base <- PaintBase
    Boundary <- PaintBoundary
    Sweeps = {2}
    Pieces = {1}
    Coast = 1
    StitchGap = 3
SPECIFICATION DriveSpec
INVARIANTS
    PlatesEarned
    ClocksTrusted
    LinesSound
    TimesAddUp
CHECK_DEADLOCK FALSE

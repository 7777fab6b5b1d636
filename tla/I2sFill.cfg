CONSTANTS
    PAGE_SIZE = 4096
    Counts = {1, 8, 4097, 5120, 5121, 10240, 10241, 20480, 40962, 65536}
SPECIFICATION FillSpec
INVARIANTS
    SpaceIsHonest
PROPERTIES
    FitsUnlessMono8
    FragmentsSentWhole

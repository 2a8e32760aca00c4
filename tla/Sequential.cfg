SPECIFICATION MCSpec
CONSTANTS
    num_processes = 4
    num_searches = 2
    USABLE_FRAMES = 5
    TOTAL_PAGES = 6
    ESSENTIAL_PAGES = 1
    ItemsPerPage = 1
    ArraySizes <- MCArraySizes
    Keys <- MCKeys
    MAX_BURSTS = 20
    Bursts <- MCBursts
    Gaps = {0, 1, 4}
    Quanta = {2, 1000}
    n = 4
    Graphs <- MCGraphs
    max_nodes = 4
INVARIANTS FramesPartition OnePlace EarliestFirst WorkConserved InOrder ListIsQueue
PROPERTIES PagingCompletes RebuildEnds
CHECK_DEADLOCK FALSE

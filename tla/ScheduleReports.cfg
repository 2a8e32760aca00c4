SPECIFICATION MCSpec
CONSTANTS
    num_processes = 3
    num_searches = 1
    USABLE_FRAMES = 5
    TOTAL_PAGES = 6
    ESSENTIAL_PAGES = 1
    ItemsPerPage = 1
    ArraySizes <- MCArraySizes
    Keys <- MCKeys
    MAX_BURSTS = 20
    Bursts <- GenprocBursts
    Gaps = {1, 30, 100}
    Quanta = {5, 10, 1000000000}
    n = 2
    Graphs <- MCGraphs
    max_nodes = 4
INVARIANTS EveryProcessReported
CHECK_DEADLOCK FALSE

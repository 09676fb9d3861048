CONSTANTS
    Size = 3
    Latencies = {2, 4}
    MaxCall = 5
    MaxSample = 6
    Shapes <- MCShapes
    Fades = TRUE
SPECIFICATION ShaperSpec
INVARIANTS NoSharedCell Fifo
PROPERTIES Windows FlowsAndStops
CHECK_DEADLOCK FALSE

CONSTANTS
    VFO = {v1, v2}
    FFT = fft
    Stalling = {v1}
    LastFrame = 3
SPECIFICATION FrontSpec
INVARIANTS OnlyLiveStreams InStep
PROPERTIES OperationsReturn FramesFlow

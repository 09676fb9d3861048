CONSTANTS
    Block = {decim, dcBlock, conjugate}
    Source = {inBuf, other}
    Consumer = split
SPECIFICATION ChainSpec
INVARIANTS OneReader Linear

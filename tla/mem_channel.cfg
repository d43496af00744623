SPECIFICATION FairSpec
CONSTANTS
    BLOCKSIZE = 2
    RECORDSIZE = 8
    Room = 9
    CpuBlocks = 2
    MaxDumps = 2
    ImgBlocks <- MCImgBlocks
    PageBytes <- MCPageBytes
INVARIANTS OwnBytes DrainedUnlessShort
PROPERTIES Delivered
\* a migration ends, and its use of the socket with it
CHECK_DEADLOCK FALSE

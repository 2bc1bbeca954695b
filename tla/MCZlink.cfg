SPECIFICATION FairSpec
CONSTANTS
  Ttys = {0, 1}
  KernelTty = 1
  SeqMod = 2
  FrameBudget = 4
  TxChunk = 8
  MaxReplies = 2
  MaxFrames = 4
  MaxSent = 9
INVARIANTS
  ReadsOnlyFrames
  AllFramesAccounted
  LossNeedsWrap
PROPERTY
  EveryFrameIsRead

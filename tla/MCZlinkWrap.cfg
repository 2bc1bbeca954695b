SPECIFICATION Spec
CONSTANTS
  Ttys = {0, 1}
  KernelTty = 1
  SeqMod = 4
  FrameBudget = 4
  TxChunk = 8
  MaxReplies = 2
  MaxFrames = 5
  MaxSent = 0
INVARIANT
  NoFalseDuplicates

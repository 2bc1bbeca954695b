SPECIFICATION XshFairSpec
CONSTANTS
  Chars = {"s", "t"}
  Names <- MCNames
  LineMax = 5
  RxBurst = 2
  TxSize = 2
INVARIANTS
  ScreenShowsLine
PROPERTY
  PromptComes

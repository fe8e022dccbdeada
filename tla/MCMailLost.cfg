CONSTANTS
  LoopMod = 2
  Torn = Torn
  FirstLoop <- MCFirstLoop
SPECIFICATION Spec
INVARIANT SentMailKept

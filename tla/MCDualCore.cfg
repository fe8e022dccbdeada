CONSTANTS
  LoopMod = 2
  Torn = Torn
  FirstLoop <- MCFirstLoop
SPECIFICATION Spec
INVARIANTS BootInv
PROPERTIES ImplementsAbstractMail MailAnswered

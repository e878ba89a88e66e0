\* Up to two Ctrl+C presses; the awaited calls need not settle.
CONSTANT MaxSigints = 2
SPECIFICATION Spec
PROPERTY InterruptEnds
CHECK_DEADLOCK FALSE

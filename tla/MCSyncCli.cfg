\* Up to seven Ctrl+C presses in one run of the sync CLI.
CONSTANT MaxSigints = 7
SPECIFICATION Spec
INVARIANTS CleanedOnExit SessionLeftOnlyByCrash
PROPERTY InterruptStartsCleanup
\* main ends, or waits on a call that never settles: both are final states.
CHECK_DEADLOCK FALSE

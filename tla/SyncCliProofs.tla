----------------------------- MODULE SyncCliProofs -----------------------------
(***************************************************************************)
(* TLAPS proofs about the sync CLI model: type correctness, and that an    *)
(* exit through the finally block leaves no livepush session and no SIGINT *)
(* listener, for every bound on the Ctrl+C presses.                        *)
(***************************************************************************)
EXTENDS SyncCli, TLAPS

(* The inductive invariant.  CleanedOnExit alone is not inductive: Cleanup *)
(* ends the session only if `cleanup` holds livepush's function, and       *)
(* removes the listener only if it is the function in `sigint`.            *)
SessionHasCleanup == session => cleanupSet

ListenerIsSigint == handler \in {"none", sigint}

(* While main runs with a session, the rejecting listener is registered:  *)
(* a Ctrl+C is caught, never the default handler's kill.                   *)
SessionListened == session /\ pc \in Running => handler = "reject"

IInv == /\ TypeOK /\ CleanedOnExit /\ SessionHasCleanup /\ ListenerIsSigint
        /\ SessionListened /\ SessionLeftOnlyByCrash

LEMMA InitIInv == Init => IInv
<1> SUFFICES ASSUME Init PROVE IInv
  OBVIOUS
<1>1. TypeOK
  <2>1. pc \in Running \cup Ended
    BY DEF Init, Running, Ended
  <2>2. cleanupSet \in BOOLEAN /\ rejected \in BOOLEAN /\ session \in BOOLEAN
    BY Zenon DEF Init
  <2>3. sigint \in {"empty", "reject"}
    BY DEF Init
  <2>6. handler \in {"none", "empty", "reject"}
    BY DEF Init
  <2>4. exitCode \in Codes
    BY DEF Init, Codes
  <2>5. sigints \in 0..MaxSigints /\ queued \in 0..sigints
    BY SyncCliAssumptions DEF Init
  <2> QED
    BY <2>1, <2>2, <2>3, <2>4, <2>5, <2>6 DEF TypeOK
<1>2. CleanedOnExit /\ SessionHasCleanup /\ ListenerIsSigint
  BY DEF Init, CleanedOnExit, SessionHasCleanup, ListenerIsSigint
<1>3. SessionListened /\ SessionLeftOnlyByCrash
  BY DEF Init, SessionListened, SessionLeftOnlyByCrash
<1> QED
  BY <1>1, <1>2, <1>3 DEF IInv

LEMMA NextIInv == IInv /\ [Next]_vars => IInv'
<1> SUFFICES ASSUME IInv, [Next]_vars PROVE IInv'
  OBVIOUS
<1> USE SyncCliAssumptions DEF IInv, TypeOK, CleanedOnExit, SessionHasCleanup,
                               ListenerIsSigint, SessionListened,
                               SessionLeftOnlyByCrash, Running, Ended, Codes
<1>1. CASE ReadFile
  <2>1. CASE pc' = "init" /\ UNCHANGED exitCode
    BY <1>1, <2>1 DEF ReadFile
  <2>2. CASE pc' = "crashed" /\ exitCode' = 1
    BY <1>1, <2>2 DEF ReadFile
  <2> QED
    BY <1>1, <2>1, <2>2 DEF ReadFile
<1>2. CASE InitDevice
  BY <1>2 DEF InitDevice, Caught
<1>3. CASE SetupLogs
  BY <1>3 DEF SetupLogs, Caught
<1>4. CASE StartLivepush
  <2>1. CASE /\ pc' = "wait"
             /\ cleanupSet' = TRUE /\ session' = TRUE
             /\ sigint' = "reject" /\ handler' = "reject"
    BY <1>4, <2>1 DEF StartLivepush
  <2>2. CASE Caught /\ UNCHANGED <<cleanupSet, session, sigint, handler>>
    BY <1>4, <2>2 DEF StartLivepush, Caught
  <2> QED
    BY <1>4, <2>1, <2>2 DEF StartLivepush
<1>5. CASE Interrupted
  BY <1>5 DEF Interrupted, Caught
<1>6. CASE Cleanup
  <2>1. CASE /\ pc' = "exited" /\ exitCode' = 0
             /\ session' = (session /\ ~cleanupSet)
             /\ handler' = IF handler = sigint THEN "none" ELSE handler
    BY <1>6, <2>1 DEF Cleanup
  <2>2. CASE /\ cleanupSet
             /\ pc' = "crashed" /\ exitCode' = 1
             /\ UNCHANGED <<session, handler>>
    BY <1>6, <2>2 DEF Cleanup
  <2> QED
    BY <1>6, <2>1, <2>2 DEF Cleanup
<1>7. CASE Dispatch
  BY <1>7 DEF Dispatch
<1>8. CASE Sigint
  BY <1>8 DEF Sigint
<1>9. CASE UNCHANGED vars
  BY <1>9 DEF vars
<1> QED
  BY <1>1, <1>2, <1>3, <1>4, <1>5, <1>6, <1>7, <1>8, <1>9 DEF Next, Step

(* Every state of the CLI is well typed; in particular the presses queued  *)
(* for the listener never outnumber the presses made.                      *)
THEOREM SyncTypeCorrect == Spec => []TypeOK
<1>1. IInv => TypeOK
  BY DEF IInv
<1> QED
  BY <1>1, InitIInv, NextIInv, PTL DEF Spec

(* process.exit(0) in the finally block is reached only after the awaited  *)
(* cleanup ended the livepush session and removeListener dropped the       *)
(* listener that was registered.                                           *)
THEOREM CleanedOnExitThm == Spec => []CleanedOnExit
<1>1. IInv => CleanedOnExit
  BY DEF IInv
<1> QED
  BY <1>1, InitIInv, NextIInv, PTL DEF Spec

(* A livepush session outlives the CLI only when the awaited cleanup()     *)
(* rejected: neither a Ctrl+C nor process.exit(0) abandons it, for every   *)
(* bound on the presses.                                                   *)
THEOREM SessionLeftOnlyByCrashThm == Spec => []SessionLeftOnlyByCrash
<1>1. IInv => SessionLeftOnlyByCrash
  BY DEF IInv
<1> QED
  BY <1>1, InitIInv, NextIInv, PTL DEF Spec

=============================================================================

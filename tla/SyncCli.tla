------------------------------- MODULE SyncCli -------------------------------
(***************************************************************************)
(* The developer sync CLI (`npm run sync`), the async main function of     *)
(* src/src/lib/lockfile.ts lines 193-238.  It reads Dockerfile.template,   *)
(* initialises the device, streams its logs, starts livepush, then waits   *)
(* for Ctrl+C; its finally block awaits the cleanup livepush returned,     *)
(* removes the SIGINT listener and exits 0.                                *)
(*                                                                         *)
(* Every await is a step; each awaited call may resolve or reject.  The   *)
(* user may press Ctrl+C at any moment: with no listener registered Node's *)
(* default handler ends the process at once, with one registered the       *)
(* listener runs instead.  What the collaborators (init, logs, livepush)   *)
(* do on the device is abstracted to: a livepush session runs from the     *)
(* moment startLivepush resolved until its cleanup resolved.               *)
(***************************************************************************)
EXTENDS Naturals

CONSTANT MaxSigints   \* bound on the Ctrl+C presses of one run

ASSUME SyncCliAssumptions == MaxSigints \in Nat

VARIABLES
  pc,          \* where main is suspended, or how the process ended
  cleanupSet,  \* `cleanup` holds the function startLivepush returned
  sigint,      \* the function in `sigint`: "empty" (initial) or "reject"
  handler,     \* the SIGINT listener registered with process.on, or "none"
  rejected,    \* the Ctrl+C promise has been rejected
  session,     \* a livepush session runs on the device
  exitCode,    \* the process's exit code once it ended
  sigints,     \* Ctrl+C presses so far
  queued       \* presses caught for a listener, not yet dispatched to it

vars == <<pc, cleanupSet, sigint, handler, rejected, session, exitCode, sigints,
          queued>>

Running == {"read", "init", "logs", "livepush", "wait", "cleanup"}
Ended == {"exited", "crashed", "killed"}

(* The exit codes: process.exit(0), an unhandled rejection, SIGINT. *)
Codes == {0, 1, 130}

Init ==
  /\ pc = "read"
  /\ cleanupSet = FALSE
  /\ sigint = "empty" /\ handler = "none"
  /\ rejected = FALSE
  /\ session = FALSE
  /\ exitCode = 0
  /\ sigints = 0
  /\ queued = 0

(* An awaited call that rejects inside the try block: the catch logs it    *)
(* and the finally block starts.                                           *)
Caught == pc' = "cleanup"

(* await fs.readFile('Dockerfile.template'), before the try block: a       *)
(* rejection is an unhandled rejection of the main promise, which ends the *)
(* process with code 1.                                                    *)
ReadFile ==
  /\ pc = "read"
  /\ \/ pc' = "init" /\ UNCHANGED exitCode
     \/ pc' = "crashed" /\ exitCode' = 1
  /\ UNCHANGED <<cleanupSet, sigint, handler, rejected, session, sigints, queued>>

(* await init.initDevice({...}), then the containerId is printed. *)
InitDevice ==
  /\ pc = "init"
  /\ pc' = "logs" \/ Caught
  /\ UNCHANGED <<cleanupSet, sigint, handler, rejected, session, exitCode, sigints,
                queued>>

(* await setupLogs(docker, containerId). *)
SetupLogs ==
  /\ pc = "logs"
  /\ pc' = "livepush" \/ Caught
  /\ UNCHANGED <<cleanupSet, sigint, handler, rejected, session, exitCode, sigints,
                queued>>

(* Mutant: process.on('SIGINT', sigint) before sigint = () => reject(...): *)
(* the initial, empty function is registered.                              *)
StartLivepushSwapped ==
  /\ pc = "livepush"
  /\ \/ /\ pc' = "wait"
        /\ cleanupSet' = TRUE /\ session' = TRUE
        /\ sigint' = "reject" /\ handler' = sigint
     \/ /\ Caught
        /\ UNCHANGED <<cleanupSet, session, sigint, handler>>
  /\ UNCHANGED <<rejected, exitCode, sigints, queued>>

(* cleanup = await startLivepush({...}); on success the executor of the    *)
(* Ctrl+C promise runs at once: sigint = () => reject(...), then           *)
(* process.on('SIGINT', sigint), and main waits on the promise.            *)
StartLivepush ==
  /\ pc = "livepush"
  /\ \/ /\ pc' = "wait"
        /\ cleanupSet' = TRUE /\ session' = TRUE
        /\ sigint' = "reject" /\ handler' = "reject"
     \/ /\ Caught
        /\ UNCHANGED <<cleanupSet, session, sigint, handler>>
  /\ UNCHANGED <<rejected, exitCode, sigints, queued>>

(* The Ctrl+C promise was rejected: its await throws into the catch. *)
Interrupted ==
  /\ pc = "wait" /\ rejected
  /\ Caught
  /\ UNCHANGED <<cleanupSet, sigint, handler, rejected, session, exitCode, sigints,
                queued>>

(* Mutant: cleanup() called without await; process.exit(0) comes first. *)
CleanupUnawaited ==
  /\ pc = "cleanup"
  /\ pc' = "exited" /\ exitCode' = 0
  /\ handler' = IF handler = sigint THEN "none" ELSE handler
  /\ UNCHANGED <<cleanupSet, sigint, rejected, session, sigints, queued>>

(* Mutant: process.removeListener('SIGINT', sigint) before await cleanup():*)
(* the listener is gone while the cleanup is still pending.                *)
CleanupUnlistenFirst ==
  /\ pc = "cleanup"
  /\ \/ /\ handler = sigint
        /\ handler' = "none"
        /\ UNCHANGED <<pc, exitCode, session>>
     \/ /\ handler # sigint
        /\ \/ /\ pc' = "exited" /\ exitCode' = 0
              /\ session' = (session /\ ~cleanupSet)
           \/ /\ cleanupSet
              /\ pc' = "crashed" /\ exitCode' = 1
              /\ UNCHANGED session
        /\ UNCHANGED handler
  /\ UNCHANGED <<cleanupSet, sigint, rejected, sigints, queued>>

(* finally: await cleanup() (a resolved promise unless livepush started),  *)
(* process.removeListener('SIGINT', sigint), process.exit(0).  A rejected  *)
(* cleanup throws out of the finally block: unhandled rejection, code 1.   *)
Cleanup ==
  /\ pc = "cleanup"
  /\ \/ /\ pc' = "exited" /\ exitCode' = 0
        /\ session' = (session /\ ~cleanupSet)
        /\ handler' = IF handler = sigint THEN "none" ELSE handler
     \/ /\ cleanupSet
        /\ pc' = "crashed" /\ exitCode' = 1
        /\ UNCHANGED <<session, handler>>
  /\ UNCHANGED <<cleanupSet, sigint, rejected, sigints, queued>>

(* The user presses Ctrl+C.  Without a listener the process ends with      *)
(* code 130 at once; with one, Node catches the signal and emits 'SIGINT'  *)
(* from the event loop later.                                              *)
Sigint ==
  /\ pc \in Running /\ sigints < MaxSigints
  /\ sigints' = sigints + 1
  /\ \/ /\ handler = "none"
        /\ pc' = "killed" /\ exitCode' = 130
        /\ UNCHANGED queued
     \/ /\ handler # "none"
        /\ queued' = queued + 1
        /\ UNCHANGED <<pc, exitCode>>
  /\ UNCHANGED <<cleanupSet, sigint, handler, rejected, session>>

(* The event loop emits a caught 'SIGINT' to the registered listener:      *)
(* `sigint` as set before process.on rejects the Ctrl+C promise (to no     *)
(* effect once it is settled); the initial `sigint` does nothing.          *)
Dispatch ==
  /\ pc \in Running /\ queued > 0
  /\ queued' = queued - 1
  /\ rejected' = (rejected \/ handler = "reject")
  /\ UNCHANGED <<pc, cleanupSet, sigint, handler, session, exitCode, sigints>>

(* The steps of main, each run when its awaited operation settled. *)
Step ==
  \/ ReadFile \/ InitDevice \/ SetupLogs \/ StartLivepush \/ Interrupted
  \/ Cleanup \/ Dispatch

Next == Step \/ Sigint

(* Node's event loop emits every caught signal to the listener and runs    *)
(* the continuation of a rejected promise: Dispatch and Interrupted are    *)
(* weakly fair.  The awaited calls on the device (readFile, initDevice,    *)
(* setupLogs, startLivepush, cleanup) have no timeout and need never       *)
(* settle, and the user need never press Ctrl+C: no fairness for them.     *)
Spec == Init /\ [][Next]_vars /\ WF_vars(Dispatch) /\ WF_vars(Interrupted)

-----------------------------------------------------------------------------
(* Properties.                                                             *)

TypeOK ==
  /\ pc \in Running \cup Ended
  /\ cleanupSet \in BOOLEAN /\ rejected \in BOOLEAN /\ session \in BOOLEAN
  /\ sigint \in {"empty", "reject"}
  /\ handler \in {"none", "empty", "reject"}
  /\ exitCode \in Codes
  /\ sigints \in 0..MaxSigints
  /\ queued \in 0..sigints

(* "Cleaning up. Please wait ...": when the CLI exits through its finally  *)
(* block (process.exit(0)), the livepush session it started has been       *)
(* cleaned up, and no SIGINT listener of it is left registered.            *)
CleanedOnExit ==
  pc = "exited" => ~session /\ handler = "none"

(* A livepush session is never abandoned by Ctrl+C or by exit(0): once the *)
(* process ended with the session still running, it ended by a cleanup()  *)
(* that rejected.  Holds because the finally block awaits cleanup() before *)
(* it removes the SIGINT listener, so a Ctrl+C during the cleanup finds    *)
(* the listener and cannot kill the process.                               *)
SessionLeftOnlyByCrash ==
  session /\ pc \in Ended => pc = "crashed"

(* A Ctrl+C pressed while main waits for it ends the wait: the listener    *)
(* rejects the promise and main goes on to the finally block (or the       *)
(* process has ended), on the event loop's fairness alone.  Breaks if the  *)
(* listener registered is not the rejecting one.                           *)
InterruptStartsCleanup ==
  (pc = "wait" /\ sigints > 0) ~> (pc = "cleanup" \/ pc \in Ended)

(* Ctrl+C ends the CLI, as the "User interrupt (Ctrl+C) received" error    *)
(* of the listener has it: once the user pressed it, the process           *)
(* eventually ends, by the default handler or through the catch and        *)
(* finally blocks.                                                         *)
InterruptEnds ==
  (sigints > 0) ~> (pc \in Ended)

=============================================================================

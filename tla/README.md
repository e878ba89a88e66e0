# TLA+ verification of the balena supervisor

This directory holds TLA+ models of the balena supervisor, kept beside its code.
It contains the model-checking configurations for TLC and proofs checked by
TLAPS. What each model covers is recorded in `PROJECT.json`:
- the components, modelled or not;
- which source lines each definition translates ("map");
- the runs, the mutants and the findings;
- the hazards of the code;
- the proved theorems.

## 1. The system and its parts

The repository (`src/`) contains:

| Part | Where | State | Status |
|---|---|---|---|
| Lockfile manager: `lock`, `unlock`, `unlockSync`, `getLocksTaken`, the `exit` handler | `src/src/lib/lockfile.ts` 1-135 | lock files on disk; the in-memory table `locksTaken` | modelled: `Lockfile` |
| Developer sync CLI (`npm run sync`) | `src/src/lib/lockfile.ts` 136-239 | `cleanup`, the `sigint` listener, the livepush session | modelled: `SyncCli` (lines 193-238; 136-192 are yargs options) |
| Step generator, teardown generator, dependency resolver, update strategy, entity model (spec.md 3-4) | only their tests are here: `src/unnamed/part_000` 202-1569 | current and target apps; dedupe memory | planned (from spec.md) |
| Journald streaming | test only: `src/test/unit/lib/journald.spec.ts` | none | not modelled (formatting only) |

How the parts interact:
- The supervisor's update logic takes the lock files `updates.lock` and `resin-updates.lock` of an app before it kills or restarts that app's services.
- The user containers take the same files with the `lockfile` binary to hold off updates.
- The reconciliation engine of spec.md decides the steps. The lock serializes their execution against the containers.
- spec.md treats the lockfiles as an external collaborator of the engine.

### The lockfile manager

- `lock(path, uid)`:
  - when uid ≠ 0, it awaits `fs.chmod` of the parent directory;
  - it awaits `exec('lockfile -r 0 path')`, which creates the file atomically or exits with code 73 when anything is at the path (`-r 0`: no retry);
  - it then records `locksTaken[path] = true`;
  - code 73 is rethrown as is, and any other failure as an Error.
- `unlock(path)`:
  - it awaits `fs.unlink`;
  - on EPERM or EISDIR it does `fs.rmdir`, ignoring its errors (on a file, that rmdir fails with ENOTDIR);
  - any other error (ENOENT, and also EBUSY, EROFS or EIO on a file that stays) is ignored;
  - it then deletes `locksTaken[path]`, whatever happened.
- The `exit` handler calls `unlockSync` synchronously for every path in `locksTaken` and swallows what it throws.

The hard behaviours are these:
- Every `await` is a point where another async call of the same process runs.
- Other processes take and release the same paths.
- The process can exit (the handler runs), be killed (nothing runs) or restart (the memory is lost).

### The sync CLI

The async main function of lines 193-238 works in three stages.
- It awaits `fs.readFile('Dockerfile.template')`. This is outside the `try`, so a rejection is an unhandled rejection and the process exits with code 1.
- Inside the `try`, it awaits `initDevice`, `setupLogs` and `startLivepush`, whose result becomes `cleanup`. It then waits on a promise whose executor does two things in order:
  - it sets `sigint = () => reject(...)`;
  - it registers `sigint` with `process.on('SIGINT', ...)`.
- The `catch` logs. The `finally` awaits `cleanup()`, removes the listener and calls `process.exit(0)`.

Ctrl+C behaves differently depending on when it comes:
- With no listener registered, Node's default handler ends the process at once (code 130).
- With a listener, Node catches the signal and emits it to the listener later, from the event loop.

## 2. Modules

- `Lockfile.tla`: the lockfile manager and its environment.
  - Constants:
    - `Paths`, `Clients` (concurrent async calls of the supervisor), `Others` (other processes), `Sup`, `NoOwner`;
    - `Uids`;
    - `MaxDowns` (bound on exits plus kills);
    - `CallerSerializes`: callers never run two calls on one path at once. lockfile.ts does not enforce this itself.
    - `Faults`, a subset of `{"exec", "unlink"}`: which operations may fail. `"exec"` lets the `lockfile` child fail; `"unlink"` lets `unlink` and `unlinkSync` fail on a file. A violation run enables only the fault it is about, so its counterexample shows that mechanism alone.
  - Variables:
    - `disk[p]`: nothing, a file or a directory, with its owner;
    - `locksTaken`: a set of paths;
    - `pc[c]`, `target[c]`, `uid[c]`: the suspended call of each client;
    - `up`, `downs`: the process.
  - Actions, one per await continuation:
    - `LockCall`, `Chmod`;
    - `Exec` = `ExecOk` \/ `ExecErr`:
      - `ExecOk`: the child's normal results, `ExecCreates` or `ExecExists` (code 73);
      - `ExecErr` (only with `"exec"` in `Faults`): `ExecFails` (nothing created) or `ExecCreatesFails` (the child created the file and still failed);
    - `Record`;
    - `UnlockCall`;
    - `Unlink`, on a file, a directory or nothing. With `"unlink"` in `Faults`, the unlink of a file can fail and leave it. EPERM goes on to `Rmdir`, whose ENOTDIR is ignored; any other error goes straight to `Forget`;
    - `Rmdir`, `Forget`;
    - `Exit`, which leaves at each path in `locksTaken` one of `UnlockSyncResults(disk[p])`. A file goes unless `unlinkSync` fails; a directory goes if it is empty;
    - `Kill`, `Restart`;
    - `OtherLock`, `OtherMkdir`, `OtherRelease`.
  - Fairness is `WF_vars(Progress(c))` for each client, where `Progress(c)` is every step of the call except `ExecErr`.
  - The refinement mapping is at the end: `takenBar`, `CallsAtomic`, and `HeldLocksOwned`, the abstract invariant read through the mapping.
  - The mutants of the code are `ExecExistsRecords`, `ExecExistsRetries`, `UnlinkAlwaysRmdir` and `ExitEveryPath`. No run uses them.
- `LockfileAtomic.tla`: the abstract specification, in which each `lock()` and `unlock()` call is one atomic step.
  - `Lock` takes a free path and records it.
  - `LockLeaks` creates the file and records nothing. This is what a failed lock that created the file looks like to callers.
  - `Unlock` drops the path from the table and leaves no file of this process there.
  - `UnlockLeaks` drops the path and leaves this process's file: the unlink failed and the error was ignored.
  - `Exit` removes, or fails to remove, the file of each taken path.
  - `Kill`, `Restart` and `Other` complete the spec.
  - Its invariant `TakenOwned` and the theorem `TakenOwnedThm` are proved in the module itself.
- `MCLockfile.tla`: the TLC instance. It gives `Uids` the values root and `nobody` (65534), as the unit tests use.
- `LockfileProofs.tla`: the TLAPS proofs for the lockfile manager.
- `SyncCli.tla`: the sync CLI.
  - Constant: `MaxSigints`, the bound on Ctrl+C presses.
  - Variables:
    - `pc`: the await main is suspended at, or how the process ended;
    - `cleanupSet`, `sigint`, `handler`: the two `let`s and the registered listener;
    - `rejected`: whether the Ctrl+C promise was rejected;
    - `session`: a livepush session runs on the device;
    - `exitCode`;
    - `sigints` and `queued`: presses made, and presses caught and not yet emitted.
  - Actions:
    - `ReadFile`, `InitDevice`, `SetupLogs`, `StartLivepush`: each resolves or rejects; a rejection inside the `try` is `Caught`;
    - `Interrupted`: the Ctrl+C promise rejects into the `catch`;
    - `Cleanup`: the `finally` block; a rejected `cleanup()` is an unhandled rejection;
    - `Sigint`: a press;
    - `Dispatch`: the event loop emits a caught signal to the listener.
  - The mutants are `StartLivepushSwapped`, `CleanupUnlistenFirst` and `CleanupUnawaited`.
- `SyncCliProofs.tla`: the TLAPS proofs for the sync CLI.

## 3. Runs

| Run | cfg | Faults | Result | Shows |
|---|---|---|---|---|
| lockfile_safety | `MCLockfile.cfg` | both | pass | `HeldLocksOwned`, `ExitRemovesOwnOrReleasing` and `LockCallsReturn` hold |
| calls_atomic | `MCLockfileAtomic.cfg` | both | pass | `Lockfile` implements `LockfileAtomic` (`CallsAtomic`) when callers serialize and the process does not die |
| sync_cli | `MCSyncCli.cfg` | – | pass | `CleanedOnExit`, `SessionLeftOnlyByCrash` and `InterruptStartsCleanup` hold for the sync CLI |
| lock_unlock_race | `MCLockfileRace.cfg` | none | violation of `OwnLocksTracked` | c1's lock and c2's unlock of one path interleave: the unlock finds nothing, c1 creates and records the file, and c2's delete at line 123 drops the entry |
| lock_restart | `MCLockfileRestart.cfg` | none | violation of `OwnLocksTracked` | the process exits between exec and record; after the restart the lock file is untracked |
| exit_during_unlock | `MCLockfileExit.cfg` | none | violation of `ExitRemovesOnlyOwn` | the exit handler removes what another process put at a path whose unlock is suspended |
| lock_exec_partial | `MCLockfilePartial.cfg` | exec | violation of `OwnLocksTracked` | an exec that fails after its child created the file leaves a lock that nobody tracks or removes |
| unlock_leaves_lock | `MCLockfileUnlock.cfg` | unlink | violation of `UnlockReleases` | an unlink that fails is ignored; `unlock()` deletes the entry and returns with its lock file on disk |
| sync_cleanup_hang | `MCSyncCliHang.cfg` | – | violation of `InterruptEnds` | during a `cleanup()` that never settles, every Ctrl+C reaches the still-registered listener and does nothing |

In lockfile_safety, callers serialize calls on one path. The other process contends for the paths throughout, the supervisor may exit or be killed once and restart, and both faults are enabled.

The lockfile properties:
- `HeldLocksOwned` (invariant): every path in `locksTaken`, or whose exec created the file and waits to record it, holds this process's lock file. The one exception is a path whose unlock is past its removal and waits only to delete the entry. The exit handler and `getLocksTaken()` rely on this. Its component `TakenLocksOwned` (for `locksTaken` alone) is implied by it, is not checked separately, and is part of the inductive invariant.
- `OwnLocksTracked`: every own lock file is in `locksTaken` unless a call on it is in flight. This is what the comment on `locksTaken` promises. Three runs violate it.
- `UnlockReleases` (action property): when an unlock returns, the path is out of the table and holds no file of this process. The comment at line 110 states it, and the ignored unlink errors break it.
- `ExitRemovesOnlyOwn` (action property): the handler changes only this process's own files.
- `ExitRemovesOwnOrReleasing` (action property), the exact form of the exit_during_unlock finding: the handler changes another process's entry only at a path whose `unlock()` is suspended.
- `LockCallsReturn` (liveness): every `lock()` returns. Only the child's normal results are fair, so the property rests on `-r 0` and not on a failure of the child.
- `CallsAtomic` (refinement): `Atomic!Spec` holds of the mapped behaviour.

The refinement mapping `takenBar` is this process's view of what it holds:
- `locksTaken`;
- plus the paths whose lock waits only to record;
- minus the paths whose unlock waits only to forget.

A lock takes effect at its exec, and an unlock at its unlink, or at its rmdir after a failed unlink. calls_atomic runs with both faults, with serialized callers and without deaths. Two things break the refinement:
- With calls in flight, `Exit` removes files the abstract `Exit` does not know of. These are the steps of exit_during_unlock and lock_restart.
- Without serialization, lock_unlock_race breaks it.

The sync CLI properties:
- `CleanedOnExit`: when the CLI exits through `process.exit(0)`, the livepush session it started is over and no listener of it is registered.
- `SessionLeftOnlyByCrash`: the CLI ends with the livepush session still running only when `cleanup()` rejected. A Ctrl+C during cleanup cannot kill the process, because the finally block awaits `cleanup()` before it removes the listener.
- `InterruptStartsCleanup` (liveness): a Ctrl+C pressed while main waits for it makes main leave the wait, on the event loop's fairness alone.
- `InterruptEnds` (liveness): once Ctrl+C is pressed, the process ends. sync_cleanup_hang shows it does not hold when `cleanup()` hangs.

The findings in `PROJECT.json` explain each violation.

Bounds:
- Lockfile:
  - 2 paths (an app has two lock files), 2 clients, 1 other process, 2 uids, `MaxDowns = 1`.
  - Two clients are enough for every two-call interleaving on one path or on two paths.
  - One other process can take a path at any moment, and it releases only what it owns, which is all the properties distinguish.
  - A single death already covers every point where the process can die, because a death resets all calls.
  - lockfile_safety has 20,772 distinct states and calls_atomic has 10,258. Between them they fire every action and every outcome.
  - No symmetry is used: it is unsound together with the liveness property.
- SyncCli:
  - `MaxSigints = 7`, with 128 distinct states.
  - Seven presses leave room for presses before the listener exists, several presses queued at once, presses dispatched while waiting, and presses arriving during cleanup after the promise has settled.

Fairness:
- Lockfile: `WF_vars(Progress(c))` for each client. It covers the chmod, unlink and rmdir continuations, the record and forget steps, and the normal results of the `lockfile -r 0` child. It is justified by three facts:
  - Node's event loop runs every continuation whose promise settled.
  - The OS completes each file operation.
  - The child either creates the file or gives up with 73.

  The following have no fairness, since nothing obliges them to act:
  - the child's failures;
  - new calls;
  - other processes;
  - exit, kill and restart.
- SyncCli: `WF_vars(Dispatch) /\ WF_vars(Interrupted)`, that is, only Node's event loop. The awaited calls on the device set no timeout, so nothing guarantees that they settle, and the user's presses have no fairness.

Each property of a passing run has a mutant: a plausible bug that TLC catches.
- `lockfile` without `-r 0` (retrying while the path is taken, `ExecExistsRetries`) breaks `LockCallsReturn`.
- Code 73 taken as success (`ExecExistsRecords`) breaks `CallsAtomic`.
- rmdir after every unlink, not only on EPERM or EISDIR, breaks `HeldLocksOwned`.
- An exit handler that unlocks every lock path, not only `getLocksTaken()`, breaks `ExitRemovesOwnOrReleasing`.
- Removing the SIGINT listener before awaiting `cleanup()` breaks `SessionLeftOnlyByCrash`.
- `cleanup()` without `await` breaks `CleanedOnExit`.
- Registering the listener before assigning `sigint` registers the empty function. Ctrl+C is then ignored, which breaks `InterruptStartsCleanup`.

The type invariants are proved (section 4) and not checked by a run: no plausible bug of this code produces an ill-typed state.

## 4. Proofs (TLAPS)

`LockfileProofs.tla` holds for every value of the constants, every set of `Faults` included:
- `TypeCorrect`: `Spec => []TypeOK`. It is proved from `LockfileAssumptions` with the lemmas `TypeInit` and `TypeNext` (one step per action).
- The inductive invariant `IInv = TypeOK /\ TakenLocksOwned /\ RecordOwned /\ CallsExclusive`, which holds under `CallerSerializes`:
  - `TakenLocksOwned` alone is not inductive: a `Record` step adds a path, and the invariant must then know the path holds this process's file.
  - `RecordOwned`: a call waiting to record holds its file. Nobody else can remove a `Sup` file: other processes release only their own files.
  - `CallsExclusive`: two calls in flight have different paths. This is the `MayCall` guard under `CallerSerializes`.
  - `InitIInv` and `NextIInv` prove that `IInv` is inductive, with one step per action and one sub-step per conjunct. `IInv` was checked with TLC on the lockfile_safety instance first.
- `ExitRemovesOwnOrReleasingThm`: under `CallerSerializes`. The step lemma `ExitStep` shows that only `Exit` both ends the process and changes the disk, and only at paths in `locksTaken`. `TakenLocksOwned` then makes each of them own or releasing.
- `CallsAtomicThm`: under `CallerSerializes` and `MaxDowns = 0`, `Spec => CallsAtomic`.
  - The argument:
    - the initial states map to `Atomic!Init`;
    - `StepRefines` shows that every `Next` step from an `IInv` state other than an `Exit` step maps to an `Atomic!Next` step or a stutter; with `MaxDowns = 0`, `Exit` is never enabled;
    - the last step combines these with `[]IInv` by PTL.
  - How the steps map:
    - `LockCall`, `UnlockCall`, `Chmod`, `Record`, `Forget`, the exec outcomes that create nothing, and an unlink that goes on to rmdir are stutters (`StutterRefines`);
    - `ExecCreates` is `Lock`, and `ExecCreatesFails` is `LockLeaks`;
    - an `Unlink` that goes to forget, and a `Rmdir`, are `Unlock` or `UnlockLeaks`. The lemma `RemovalRefines` decides which: the step either removed what was at the path or left it, and it is `UnlockLeaks` exactly when it left this process's file;
    - `Kill` is the atomic `Kill`, and `Restart` and the other-process steps map one to one.
  - `SameEntries` identifies the two modules' `Absent`, `FileOf` and `DirOf`.
  - `Exit` is the one step that does not refine: with calls in flight it removes files that the abstract `Exit` does not. These are the findings exit_during_unlock and lock_restart.
- `HeldLocksOwnedThm`: under `CallerSerializes`, `Spec => []HeldLocksOwned` for every `MaxDowns`. The refinement is used to prove a property:
  - `LockfileAtomic.tla` proves `TakenOwnedThm`, its own invariant `TakenOwned`, from the step lemma `TakenOwnedStep` (and `ShapesStep`).
  - In `Lockfile`, an `Exit` step empties `takenBar`. Every other step refines an atomic step (`StepRefines`), so `Atomic!TakenOwnedStep`, instantiated through the mapping, keeps `HeldLocksOwned`.

`SyncCliProofs.tla`:
- `SyncTypeCorrect`, `CleanedOnExitThm` and `SessionLeftOnlyByCrashThm`: `Spec => []TypeOK`, `Spec => []CleanedOnExit` and `Spec => []SessionLeftOnlyByCrash` for every `MaxSigints`.
  - All three rest on the inductive invariant `IInv = TypeOK /\ CleanedOnExit /\ SessionHasCleanup /\ ListenerIsSigint /\ SessionListened /\ SessionLeftOnlyByCrash`.
  - `SessionLeftOnlyByCrash` alone is not inductive. A Ctrl+C kills the process only when no listener is registered, so the invariant must know that a running session always has the rejecting listener registered (`SessionListened`).
  - `CleanedOnExit` alone is not inductive. `Cleanup` ends the session only because a running session implies `cleanup` holds livepush's function (`SessionHasCleanup`). It clears the listener only because the registered listener is the one in `sigint` (`ListenerIsSigint`).

Left to TLC:
- the liveness properties `LockCallsReturn` and `InterruptStartsCleanup`: TLAPS handles neither liveness under fairness nor ENABLED;
- the violations, which are counterexamples, not theorems;
- `CallsAtomic` with exits, which does not hold.

`UnlockReleases` is not proved: it is false once an unlink can fail (unlock_leaves_lock). Every theorem about `Lockfile` except the type theorem assumes `CallerSerializes`, as lockfile_safety does. Without it, lock_unlock_race shows `OwnLocksTracked` failing, and the same trace breaks `HeldLocksOwned`.

## 5. Plan

1. `AppReconcile` (spec-modelled, since the generator is not under `src/`):
   - `computeNextSteps` over a small app (2 services, 1 network, 1 volume, 2 configs), a teardown, a dependency gate and an update strategy;
   - an environment loop that applies one batch and re-observes.

   Properties:
   - referential safety (spec.md 8);
   - no kill and start of one service in one batch;
   - dependency gating;
   - strategy ordering;
   - convergence under fairness of the loop.

   Unit-test scenarios 1-4 will be reference runs.
2. Lockfile: a refinement with exits, against an abstract `Exit` that also removes files of calls in flight.
3. SyncCli: model startLivepush as a call that can be interrupted half-way, so that the hazard of a Ctrl+C before the listener exists gets a property.

## 6. Not modelled

- The error text and the fields of `LockfileExistsError`.
- File modes: the chmod is only a step that can fail.
- The uid's permission to write: a failure of it is one of the `ExecFails` outcomes.
- Which errno an unlink fails with: only its effect is modelled (the file stays; EPERM goes through rmdir).
- The yargs option parsing of the sync CLI (lines 136-192), and what `initDevice`, `setupLogs` and livepush do on the device: these are collaborators outside the repository. The model reduces them to one bit, whether a session runs.
- The reconciliation engine of spec.md 3-4: its code is not under `src/`, only its tests are.
- Journald formatting and the mocha configuration: they have no state.

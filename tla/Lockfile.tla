------------------------------ MODULE Lockfile ------------------------------
(***************************************************************************)
(* The supervisor's lockfile manager, src/src/lib/lockfile.ts.             *)
(*                                                                         *)
(* A lock is a file at a path, created atomically by the `lockfile -r 0`   *)
(* binary (which fails with code 73 when anything is already at the path)  *)
(* and released by unlinking it.  The supervisor also keeps an in-memory   *)
(* table `locksTaken` of the paths it locked, read by getLocksTaken() and  *)
(* by the process 'exit' handler, which unlinks every path in it.          *)
(*                                                                         *)
(* Actors:                                                                 *)
(*  - the supervisor's callers (Clients): each is one async call of lock() *)
(*    or unlock() in flight; every `await` of the code is a step boundary, *)
(*    so calls of different clients interleave there;                      *)
(*  - other processes (Others), the user containers, that take and release *)
(*    the same lock paths with the lockfile binary (files) or mkdir (dirs);*)
(*  - the supervisor process itself, which can exit (the 'exit' handler    *)
(*    runs), be killed (no handler runs) and restart with empty memory.    *)
(***************************************************************************)
EXTENDS Naturals, FiniteSets

CONSTANTS
  Paths,            \* lock file paths
  Clients,          \* concurrent async callers of lock()/unlock() in the supervisor
  Others,           \* other processes contending for the same lock files
  Sup,              \* the supervisor process, as owner of the files it creates
  NoOwner,          \* owner of an empty path
  Uids,             \* uids lock() may be asked to run the lockfile binary as
  MaxDowns,         \* bound on process exits plus kills
  CallerSerializes, \* TRUE: callers never run two calls on one path at once
  Faults            \* which operations may fail: "exec" (the lockfile child),
                    \* "unlink" (unlink/unlinkSync of a file)

ASSUME LockfileAssumptions ==
  /\ Paths # {}
  /\ Sup \notin Others
  /\ NoOwner \notin Others \cup {Sup}
  /\ Uids \subseteq Nat /\ 0 \in Uids
  /\ MaxDowns \in Nat
  /\ CallerSerializes \in BOOLEAN
  /\ Faults \subseteq {"exec", "unlink"}

VARIABLES
  disk,        \* disk[p]: what is on the filesystem at lock path p
  locksTaken,  \* the in-memory table `locksTaken` of lockfile.ts (a set of paths)
  pc,          \* pc[c]: where the call of client c is suspended ("idle": no call)
  target,      \* target[c]: the path argument of c's call
  uid,         \* uid[c]: the uid argument of c's lock() call
  up,          \* the supervisor process is running
  downs        \* number of exits and kills so far (bounded by MaxDowns)

vars == <<disk, locksTaken, pc, target, uid, up, downs>>

Procs == Others \cup {Sup}

(* What can be at a lock path: nothing, a file or a directory of an owner. *)
Absent == [kind |-> "none", owner |-> NoOwner]
FileOf(o) == [kind |-> "file", owner |-> o]
DirOf(o) == [kind |-> "dir", owner |-> o]
Entry == {Absent} \cup {FileOf(o) : o \in Procs} \cup {DirOf(o) : o \in Others}

LockPCs == {"chmod", "exec", "record"}
UnlockPCs == {"unlink", "rmdir", "forget"}
PCs == {"idle"} \cup LockPCs \cup UnlockPCs

(* A call of the supervisor on path p is in flight. *)
Busy(p) == \E c \in Clients : pc[c] # "idle" /\ target[c] = p

(* An unlock(p) is in flight: it may already have removed the file.       *)
Releasing(p) == \E c \in Clients : pc[c] \in UnlockPCs /\ target[c] = p

(* A new call on p may start: callers serialize same-path calls, if at all.*)
MayCall(p) == CallerSerializes => ~Busy(p)

-----------------------------------------------------------------------------
(* The supervisor's lock(path, uid).                                       *)

(* lock() is entered; a non-root uid first awaits the chmod of the parent. *)
LockCall(c, p, u) ==
  /\ up /\ pc[c] = "idle" /\ MayCall(p)
  /\ pc' = [pc EXCEPT ![c] = IF u # 0 THEN "chmod" ELSE "exec"]
  /\ target' = [target EXCEPT ![c] = p]
  /\ uid' = [uid EXCEPT ![c] = u]
  /\ UNCHANGED <<disk, locksTaken, up, downs>>

(* await fs.chmod(dirname(path), 0o1777): it resolves, or it rejects (no   *)
(* parent directory) and lock() rejects with it.  The mode is not modelled:*)
(* after it the lockfile binary can create the file whatever the uid.      *)
Chmod(c) ==
  /\ up /\ pc[c] = "chmod"
  /\ \/ pc' = [pc EXCEPT ![c] = "exec"]
     \/ pc' = [pc EXCEPT ![c] = "idle"]
  /\ UNCHANGED <<disk, locksTaken, target, uid, up, downs>>

(* await exec(`lockfile -r 0 ${path}`): the child process creates the file *)
(* if nothing is at the path; if something is, it gives up at once (-r 0)  *)
(* with code 73 and lock() rethrows LockfileExistsError.  On success the   *)
(* continuation that records the lock runs later, as a step of its own.   *)
ExecCreates(c) ==
  /\ disk[target[c]] = Absent
  /\ disk' = [disk EXCEPT ![target[c]] = FileOf(Sup)]
  /\ pc' = [pc EXCEPT ![c] = "record"]

(* Mutant: code 73 mistaken for success, the lock recorded anyway. *)
ExecExistsRecords(c) ==
  /\ disk[target[c]] # Absent
  /\ pc' = [pc EXCEPT ![c] = "record"]
  /\ UNCHANGED disk

(* Mutant: `lockfile` without `-r 0`, retrying while the path is taken. *)
ExecExistsRetries(c) ==
  /\ disk[target[c]] # Absent
  /\ UNCHANGED <<pc, disk>>

ExecExists(c) ==
  /\ disk[target[c]] # Absent
  /\ pc' = [pc EXCEPT ![c] = "idle"]
  /\ UNCHANGED disk

(* Any other failure of the child (no file descriptors, ...) creates       *)
(* nothing and is rethrown as an Error.                                    *)
ExecFails(c) ==
  /\ pc' = [pc EXCEPT ![c] = "idle"]
  /\ UNCHANGED disk

(* The child created the file and still exited with another code (killed   *)
(* by a signal, out of memory, ...): exec rejects, lock() throws an Error, *)
(* and the file stays on disk unrecorded.                                  *)
ExecCreatesFails(c) ==
  /\ disk[target[c]] = Absent
  /\ disk' = [disk EXCEPT ![target[c]] = FileOf(Sup)]
  /\ pc' = [pc EXCEPT ![c] = "idle"]

(* The child ends with one of the results `lockfile -r 0` is run for. *)
ExecOk(c) ==
  /\ up /\ pc[c] = "exec"
  /\ ExecCreates(c) \/ ExecExists(c)
  /\ UNCHANGED <<locksTaken, target, uid, up, downs>>

(* The child fails otherwise. *)
ExecErr(c) ==
  /\ up /\ pc[c] = "exec" /\ "exec" \in Faults
  /\ ExecFails(c) \/ ExecCreatesFails(c)
  /\ UNCHANGED <<locksTaken, target, uid, up, downs>>

Exec(c) == ExecOk(c) \/ ExecErr(c)

(* locksTaken[path] = true, after the await of exec resolved. *)
Record(c) ==
  /\ up /\ pc[c] = "record"
  /\ locksTaken' = locksTaken \cup {target[c]}
  /\ pc' = [pc EXCEPT ![c] = "idle"]
  /\ UNCHANGED <<disk, target, uid, up, downs>>

-----------------------------------------------------------------------------
(* The supervisor's unlock(path).                                          *)

UnlockCall(c, p) ==
  /\ up /\ pc[c] = "idle" /\ MayCall(p)
  /\ pc' = [pc EXCEPT ![c] = "unlink"]
  /\ target' = [target EXCEPT ![c] = p]
  /\ UNCHANGED <<disk, locksTaken, uid, up, downs>>

(* Mutant: rmdir after every unlink, not only on EPERM or EISDIR. *)
UnlinkAlwaysRmdir(c) ==
  /\ up /\ pc[c] = "unlink"
  /\ LET p == target[c] IN
       \/ /\ disk[p].kind = "file"
          /\ disk' = [disk EXCEPT ![p] = Absent]
       \/ /\ disk[p].kind # "file"
          /\ UNCHANGED disk
  /\ pc' = [pc EXCEPT ![c] = "rmdir"]
  /\ UNCHANGED <<locksTaken, target, uid, up, downs>>

(* await fs.unlink(path): a file goes, whoever created it; a directory     *)
(* fails with EISDIR/EPERM and the catch handler goes on to rmdir; a       *)
(* missing file (ENOENT) is ignored.  The unlink of a file can fail too:   *)
(* with EPERM it also goes on to rmdir (which then fails with ENOTDIR),    *)
(* and any other error (EBUSY, EROFS, EIO, ...) is ignored.  The file      *)
(* stays either way and unlock() goes on to delete the entry.              *)
Unlink(c) ==
  /\ up /\ pc[c] = "unlink"
  /\ LET p == target[c] IN
       \/ /\ disk[p].kind = "file"
          /\ disk' = [disk EXCEPT ![p] = Absent]
          /\ pc' = [pc EXCEPT ![c] = "forget"]
       \/ /\ disk[p].kind = "file" /\ "unlink" \in Faults
          /\ pc' \in {[pc EXCEPT ![c] = "rmdir"], [pc EXCEPT ![c] = "forget"]}
          /\ UNCHANGED disk
       \/ /\ disk[p].kind = "dir"
          /\ pc' = [pc EXCEPT ![c] = "rmdir"]
          /\ UNCHANGED disk
       \/ /\ disk[p].kind = "none"
          /\ pc' = [pc EXCEPT ![c] = "forget"]
          /\ UNCHANGED disk
  /\ UNCHANGED <<locksTaken, target, uid, up, downs>>

(* fs.rmdir(path).catch(() => {}): an empty directory goes; a non-empty    *)
(* one, or whatever is at the path by now if it is no directory, stays and *)
(* the error is ignored.                                                   *)
Rmdir(c) ==
  /\ up /\ pc[c] = "rmdir"
  /\ LET p == target[c] IN
       \/ /\ disk[p].kind = "dir"
          /\ disk' = [disk EXCEPT ![p] = Absent]
       \/ UNCHANGED disk
  /\ pc' = [pc EXCEPT ![c] = "forget"]
  /\ UNCHANGED <<locksTaken, target, uid, up, downs>>

(* delete locksTaken[path], once the awaited removal settled. *)
Forget(c) ==
  /\ up /\ pc[c] = "forget"
  /\ locksTaken' = locksTaken \ {target[c]}
  /\ pc' = [pc EXCEPT ![c] = "idle"]
  /\ UNCHANGED <<disk, target, uid, up, downs>>

-----------------------------------------------------------------------------
(* The supervisor process.                                                 *)

(* What unlockSync(path) may leave at a path holding e: unlinkSync        *)
(* removes a file of any owner, unless it fails (EPERM sends it to         *)
(* rmdirSync, which throws ENOTDIR; other errors are rethrown); on a       *)
(* directory rmdirSync removes it if it is empty, else throws; a missing   *)
(* path throws ENOENT.  The exit handler swallows every throw.             *)
UnlockSyncResults(e) ==
  CASE e.kind = "file" -> IF "unlink" \in Faults THEN {Absent, e} ELSE {Absent}
    [] e.kind = "dir"  -> {Absent, e}
    [] OTHER           -> {e}

(* Mutant: the handler unlocks every lock path, not only getLocksTaken(). *)
ExitEveryPath ==
  /\ up /\ downs < MaxDowns
  /\ disk' \in [Paths -> Entry]
  /\ \A p \in Paths : disk'[p] \in UnlockSyncResults(disk[p])
  /\ up' = FALSE /\ downs' = downs + 1
  /\ locksTaken' = {}
  /\ pc' = [c \in Clients |-> "idle"]
  /\ UNCHANGED <<target, uid>>

(* process.on('exit'): unlockSync(lockName) for every lockName of          *)
(* getLocksTaken(), then the process is gone with its memory and its calls.*)
Exit ==
  /\ up /\ downs < MaxDowns
  /\ disk' \in [Paths -> Entry]
  /\ \A p \in Paths :
       disk'[p] \in IF p \in locksTaken THEN UnlockSyncResults(disk[p])
                   ELSE {disk[p]}
  /\ up' = FALSE /\ downs' = downs + 1
  /\ locksTaken' = {}
  /\ pc' = [c \in Clients |-> "idle"]
  /\ UNCHANGED <<target, uid>>

(* The process is killed: no handler runs, the files stay. *)
Kill ==
  /\ up /\ downs < MaxDowns
  /\ up' = FALSE /\ downs' = downs + 1
  /\ locksTaken' = {}
  /\ pc' = [c \in Clients |-> "idle"]
  /\ UNCHANGED <<disk, target, uid>>

(* The supervisor starts again: module state is initialised afresh. *)
Restart ==
  /\ ~up
  /\ up' = TRUE
  /\ UNCHANGED <<disk, locksTaken, pc, target, uid, downs>>

-----------------------------------------------------------------------------
(* Other processes: `lockfile` creates a file at an empty path, `mkdir` a  *)
(* directory; an owner releases only what it created.                      *)

OtherLock(o, p) ==
  /\ disk[p] = Absent
  /\ disk' = [disk EXCEPT ![p] = FileOf(o)]
  /\ UNCHANGED <<locksTaken, pc, target, uid, up, downs>>

OtherMkdir(o, p) ==
  /\ disk[p] = Absent
  /\ disk' = [disk EXCEPT ![p] = DirOf(o)]
  /\ UNCHANGED <<locksTaken, pc, target, uid, up, downs>>

OtherRelease(o, p) ==
  /\ disk[p].owner = o
  /\ disk' = [disk EXCEPT ![p] = Absent]
  /\ UNCHANGED <<locksTaken, pc, target, uid, up, downs>>

-----------------------------------------------------------------------------

Init ==
  /\ disk = [p \in Paths |-> Absent]
  /\ locksTaken = {}
  /\ pc = [c \in Clients |-> "idle"]
  /\ target = [c \in Clients |-> CHOOSE p \in Paths : TRUE]
  /\ uid = [c \in Clients |-> 0]
  /\ up = TRUE
  /\ downs = 0

(* The steps of one call, taken when its awaited operation settles. *)
Step(c) == Chmod(c) \/ Exec(c) \/ Record(c) \/ Unlink(c) \/ Rmdir(c) \/ Forget(c)

(* The steps of one call but the failures of its lockfile child. *)
Progress(c) ==
  Chmod(c) \/ ExecOk(c) \/ Record(c) \/ Unlink(c) \/ Rmdir(c) \/ Forget(c)

Next ==
  \/ \E c \in Clients, p \in Paths, u \in Uids : LockCall(c, p, u)
  \/ \E c \in Clients, p \in Paths : UnlockCall(c, p)
  \/ \E c \in Clients : Step(c)
  \/ Exit \/ Kill \/ Restart
  \/ \E o \in Others, p \in Paths :
       OtherLock(o, p) \/ OtherMkdir(o, p) \/ OtherRelease(o, p)

(* The event loop runs every continuation whose awaited operation settled, *)
(* the OS completes every file operation, and the `lockfile -r 0` child    *)
(* ends with a success or code 73: each call's Progress is weakly fair.    *)
(* The child's failures, the callers, other processes and the process's   *)
(* own death are not: they may never happen.                               *)
Fairness == \A c \in Clients : WF_vars(Progress(c))

Spec == Init /\ [][Next]_vars /\ Fairness

-----------------------------------------------------------------------------
(* Properties.                                                             *)

TypeOK ==
  /\ disk \in [Paths -> Entry]
  /\ locksTaken \subseteq Paths
  /\ pc \in [Clients -> PCs]
  /\ target \in [Clients -> Paths]
  /\ uid \in [Clients -> Uids]
  /\ up \in BOOLEAN
  /\ downs \in 0..MaxDowns

(* What the exit handler and getLocksTaken() rely on: every path in        *)
(* locksTaken is a lock file this process created and still holds, unless *)
(* an unlock() of it is in flight.  Breaks if lock() recorded a path whose *)
(* file belongs to someone else or unlock() left it in the table.          *)
TakenLocksOwned ==
  \A p \in locksTaken : Releasing(p) \/ disk[p] = FileOf(Sup)

(* The comment on locksTaken: locks are tracked "so that the proper locks  *)
(* can be cleaned up on process exit".  Every lock file this process       *)
(* created is in locksTaken, unless a call on its path is in flight.       *)
OwnLocksTracked ==
  up => \A p \in Paths : disk[p] = FileOf(Sup) /\ ~Busy(p) => p \in locksTaken

(* unlock() releases the lock ("Removing the lockfile releases the lock", *)
(* lockfile.ts line 110): when an unlock(p) call returns, p is no longer   *)
(* in locksTaken and no lock file of this process is left at p.           *)
UnlockReleases ==
  [][\A c \in Clients :
       (pc[c] = "forget" /\ pc'[c] = "idle") =>
          /\ target[c] \notin locksTaken'
          /\ disk'[target[c]] # FileOf(Sup)]_vars

(* The exit handler removes only the process's own lock files, never a     *)
(* file or directory another process holds.                                *)
ExitRemovesOnlyOwn ==
  [][(up /\ ~up') =>
       \A p \in Paths : disk'[p] # disk[p] => disk[p] = FileOf(Sup)]_vars

(* The exit handler's only hazard is an unlock in flight: whatever it      *)
(* changes at a path other than this process's own lock file is at a path  *)
(* an unlock() of which is suspended (the exit_during_unlock finding).     *)
ExitRemovesOwnOrReleasing ==
  [][(up /\ ~up') =>
       \A p \in Paths :
          disk'[p] # disk[p] => disk[p] = FileOf(Sup) \/ Releasing(p)]_vars

(* lockfile -r 0 never waits: every lock() call returns (or dies with the  *)
(* process), even while another process holds the lock forever.  Only the  *)
(* child's normal results are fair, so no failure of it is needed.         *)
LockCallsReturn ==
  \A c \in Clients : (pc[c] \in LockPCs) ~> (pc[c] = "idle")

-----------------------------------------------------------------------------
(* Refinement: the calls seen as atomic steps (module LockfileAtomic).     *)
(* A lock() takes effect when its child creates the file, an unlock() when *)
(* its removal settled: from then until the continuation updates           *)
(* locksTaken, the path counts as recorded, or as dropped, already.        *)

(* The paths of the calls suspended at pc value st. *)
Pending(st) == {target[c] : c \in {d \in Clients : pc[d] = st}}

takenBar == (locksTaken \cup Pending("record")) \ Pending("forget")

Atomic == INSTANCE LockfileAtomic WITH taken <- takenBar

(* The process's view of its locks is backed by its files: a path in       *)
(* locksTaken, or whose exec created the file and waits to record it, holds *)
(* this process's lock file unless an unlock() already removed it and only *)
(* the delete of locksTaken[path] is pending.  What LockfileAtomic's       *)
(* TakenOwned promises, read through takenBar.                             *)
HeldLocksOwned == Atomic!TakenOwned

(* Every behaviour of the await-split lock() and unlock() is one in which  *)
(* each call happens atomically: the interleavings at the awaits of        *)
(* lockfile.ts lines 69, 79 and 111 add nothing a caller could observe.    *)
CallsAtomic == Atomic!Spec

=============================================================================

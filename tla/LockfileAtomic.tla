--------------------------- MODULE LockfileAtomic ---------------------------
(***************************************************************************)
(* What the lockfile manager of src/src/lib/lockfile.ts promises its       *)
(* callers, with every lock() and unlock() call taking effect in one       *)
(* atomic step: the await points of the code are gone.                     *)
(*                                                                         *)
(*  - lock(p) takes p when nothing is at p: the lock file of this process  *)
(*    appears and p is recorded at once.  It may also fail with nothing    *)
(*    changed, or fail after its child created the file (nothing recorded).*)
(*  - unlock(p) drops p from the table and removes this process's lock    *)
(*    file at p, or leaks it: the removal failed and the error was        *)
(*    ignored.  What another process has at p may go or stay.              *)
(*  - the exit handler removes the file of each recorded path, or fails to *)
(*    and leaves it; a kill forgets them.                                  *)
(***************************************************************************)
EXTENDS TLAPS

CONSTANTS Paths, Others, Sup, NoOwner

VARIABLES
  disk,    \* disk[p]: what is at lock path p
  taken,   \* the paths the process has recorded as locked
  up       \* the process is running

avars == <<disk, taken, up>>

Absent == [kind |-> "none", owner |-> NoOwner]
FileOf(o) == [kind |-> "file", owner |-> o]
DirOf(o) == [kind |-> "dir", owner |-> o]

Init ==
  /\ disk = [p \in Paths |-> Absent]
  /\ taken = {}
  /\ up = TRUE

Lock(p) ==
  /\ up /\ disk[p] = Absent
  /\ disk' = [disk EXCEPT ![p] = FileOf(Sup)]
  /\ taken' = taken \cup {p}
  /\ UNCHANGED up

LockLeaks(p) ==
  /\ up /\ disk[p] = Absent
  /\ disk' = [disk EXCEPT ![p] = FileOf(Sup)]
  /\ UNCHANGED <<taken, up>>

Unlock(p) ==
  /\ up
  /\ \E e \in {disk[p], Absent} \ {FileOf(Sup)} : disk' = [disk EXCEPT ![p] = e]
  /\ taken' = taken \ {p}
  /\ UNCHANGED up

UnlockLeaks(p) ==
  /\ up /\ disk[p] = FileOf(Sup)
  /\ taken' = taken \ {p}
  /\ UNCHANGED <<disk, up>>

Exit ==
  /\ up
  /\ \E kept \in SUBSET taken :
       disk' = [p \in Paths |-> IF p \in taken \ kept THEN Absent ELSE disk[p]]
  /\ taken' = {} /\ up' = FALSE

Kill ==
  /\ up
  /\ taken' = {} /\ up' = FALSE
  /\ UNCHANGED disk

Restart ==
  /\ ~up /\ up' = TRUE
  /\ UNCHANGED <<disk, taken>>

(* Other processes, as in Lockfile. *)
Other ==
  \E o \in Others, p \in Paths :
     /\ \/ disk[p] = Absent /\ disk' = [disk EXCEPT ![p] = FileOf(o)]
        \/ disk[p] = Absent /\ disk' = [disk EXCEPT ![p] = DirOf(o)]
        \/ disk[p].owner = o /\ disk' = [disk EXCEPT ![p] = Absent]
     /\ UNCHANGED <<taken, up>>

Next ==
  \/ \E p \in Paths : Lock(p) \/ LockLeaks(p) \/ Unlock(p) \/ UnlockLeaks(p)
  \/ Exit \/ Kill \/ Restart \/ Other

Spec == Init /\ [][Next]_avars

-----------------------------------------------------------------------------
(* What the lock promises the exit handler and getLocksTaken(): every path *)
(* the process has taken holds this process's lock file.                   *)
TakenOwned == \A p \in taken : disk[p] = FileOf(Sup)

(* The shapes of the variables TakenOwned is kept under. *)
Shapes == DOMAIN disk = Paths /\ taken \subseteq Paths

(* Every atomic step keeps TakenOwned: a lock records only the file it     *)
(* just created, an unlock (leaking or not) or a death drops paths, and    *)
(* another process takes only free paths and releases only its own.       *)
LEMMA TakenOwnedStep ==
  ASSUME Sup \notin Others, Shapes, TakenOwned, [Next]_avars
  PROVE  TakenOwned'
<1> USE DEF TakenOwned, Shapes
<1>1. ASSUME NEW p \in Paths, Lock(p) \/ LockLeaks(p) \/ Unlock(p) \/ UnlockLeaks(p)
      PROVE  TakenOwned'
  BY <1>1 DEF Lock, LockLeaks, Unlock, UnlockLeaks
<1>2. CASE Exit \/ Kill \/ Restart
  BY <1>2 DEF Exit, Kill, Restart
<1>3. CASE Other
  BY <1>3 DEF Other, Absent, FileOf, DirOf
<1>4. CASE UNCHANGED avars
  BY <1>4 DEF avars
<1>5. QED
  BY <1>1, <1>2, <1>3, <1>4 DEF Next

(* Every atomic step keeps the shapes of the variables. *)
LEMMA ShapesStep ==
  ASSUME Shapes, [Next]_avars
  PROVE  Shapes'
BY DEF Shapes, Next, Lock, LockLeaks, Unlock, UnlockLeaks, Exit, Kill, Restart, Other, avars

(* In LockfileAtomic, every taken path holds this process's lock file,     *)
(* whatever the paths and the other processes.                             *)
THEOREM TakenOwnedThm ==
  ASSUME Sup \notin Others
  PROVE  Spec => []TakenOwned
<1>1. Init => Shapes /\ TakenOwned
  BY DEF Init, Shapes, TakenOwned
<1>2. Shapes /\ TakenOwned /\ [Next]_avars => (Shapes /\ TakenOwned)'
  BY TakenOwnedStep, ShapesStep
<1>3. QED
  BY <1>1, <1>2, PTL DEF Spec

=============================================================================

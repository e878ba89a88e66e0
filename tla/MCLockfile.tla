----------------------------- MODULE MCLockfile -----------------------------
(* Model-checking instance of Lockfile: two lock paths (an app's           *)
(* updates.lock and resin-updates.lock), two concurrent supervisor calls,  *)
(* one user container, the root and the `nobody` uid.                      *)
EXTENDS Lockfile, TLC

MCUids == {0, 65534}


=============================================================================

------------------------------ MODULE MCMutex ------------------------------
(* Instances of Mutex for TLC: a few threads, mutexes that share statics.  *)
EXTENDS Mutex, TLC

ThreadSymmetry == Permutations(Threads)
MutexSymmetry == Permutations(Mutexes)
Symmetry == ThreadSymmetry \cup MutexSymmetry
=============================================================================

---------------------------- MODULE MCEventLoop ----------------------------
(* Instances of EventLoop for TLC: few connections, bytes and addresses.   *)
EXTENDS EventLoop, TLC

Symmetry == Permutations(Cons)
=============================================================================

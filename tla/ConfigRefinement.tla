-------------------------- MODULE ConfigRefinement --------------------------
(***************************************************************************)
(* ConfigParser implements ConfigPromise: the iterations of four passes in *)
(* whatever order compute the meaning of the tree as it was when result()  *)
(* was called, be that what phase 1 made or what an earlier call left.     *)
(***************************************************************************)
EXTENDS ConfigParser

Abstract == INSTANCE ConfigPromise WITH answers <- given

(* What result() returns is the meaning of the configuration, and it throws *)
(* exactly when there is none.                                              *)
KeepsPromise == Abstract!Promise
=============================================================================

-------------------------- MODULE MCDataDescriptor --------------------------
(***************************************************************************)
(* Instances of DataDescriptor for TLC.  Task ids are model values; there  *)
(* is no symmetry over them, because FreshId picks the id of a new task.   *)
(* Every run has at least as many ids as its faults and user operations    *)
(* can use before the properties are decided, see README.md.               *)
(***************************************************************************)
EXTENDS DataDescriptor, TLC

=============================================================================

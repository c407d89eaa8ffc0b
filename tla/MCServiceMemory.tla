-------------------------- MODULE MCServiceMemory --------------------------
(* An instance of ServiceMemory for TLC. *)
EXTENDS ServiceMemory

ArmPages == {4096, 65536}
=============================================================================

------------------------------ MODULE Iinterface ------------------------------
(***************************************************************************)
(* What linked components share: the sources, which call reg_io,           *)
(* perform_io and unreg_io, and the objects that implement iinterface.     *)
(***************************************************************************)
EXTENDS Integers, Sequences

CONSTANTS
    Sources,        \* objects that register and send
    Objects,        \* objects that may be the target of another
    NoObject        \* a null pointer, an empty name

ASSUME InterfaceAssumption == NoObject \notin Objects
=============================================================================

------------------------------ MODULE Connections ------------------------------
(***************************************************************************)
(* Identities of the CachingConnectionFactory objects of the application.   *)
(* A factory opens at most one connection at a time, so the broker's side   *)
(* of a connection goes by the same name.                                   *)
(***************************************************************************)
CONSTANTS
    Factories,
    NoFactory       \* null: nothing cached

ASSUME NoFactoryAssumption == NoFactory \notin Factories
=============================================================================

---------------------------- MODULE MCGenericDevice --------------------------
(* Model checking GenericDevice: the .cfg files give all constants values. *)
EXTENDS GenericDevice
=============================================================================

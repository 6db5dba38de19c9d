------------------------ MODULE MCEnvironmentCollision ------------------------
(* Small instances of EnvironmentCollision.                                *)
EXTENDS EnvironmentCollision
=============================================================================

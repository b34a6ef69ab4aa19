--------------------------- MODULE MCVropsClient ---------------------------
(* Two threads, and two resource kinds to register.                          *)
EXTENDS VropsClient

MCKinds == <<"Certificate", "License">>
=============================================================================

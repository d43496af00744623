--------------------------- MODULE MCCriuSession ---------------------------
(* CriuSession for every driver, with three veths of which the second belongs
   to no bridge: each loop over them can be cut in its middle. *)
EXTENDS CriuSession

MCDrivers == {"pid", "lxc", "runc", "vz"}

MCLinks == <<TRUE, FALSE, TRUE>>
=============================================================================

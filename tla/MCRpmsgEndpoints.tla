-------------------------- MODULE MCRpmsgEndpoints --------------------------
(* Instances of RpmsgEndpoints for TLC. *)
EXTENDS RpmsgEndpoints

\* Three clones, an SE client with a handler and one without, and the external
\* system's test: four of them name the same device.
Mixed   == {hp_mhu0, hp_mhu1, he_mhu0, services, lib_main, es0_mhu0}
HpAndHe == {hp_mhu0, he_mhu0}
=============================================================================

----------------------------- MODULE MCEndpoints -----------------------------
(* Instances of Endpoints for TLC. *)
EXTENDS Endpoints

AllVips   == {"none", "vip", "foreign"}
AllNames  == {"none", "name"}
AllSsl    == BOOLEAN
=============================================================================

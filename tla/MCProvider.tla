---- MODULE MCProvider ----
(* ProviderClient with the values of each .cfg file. *)
EXTENDS ProviderClient

====

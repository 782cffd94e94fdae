---- MODULE MCHistory ----
(* WindowHistory with the values of each .cfg file. *)
EXTENDS WindowHistory

====

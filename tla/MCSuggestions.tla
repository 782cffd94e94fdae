---- MODULE MCSuggestions ----
(* SuggestedCommands with the values of each .cfg file. *)
EXTENDS SuggestedCommands

====

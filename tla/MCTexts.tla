---- MODULE MCTexts ----
(* ModelFacingText with the values of each .cfg file. *)
EXTENDS ModelFacingText

====

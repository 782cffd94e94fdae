---- MODULE MCCapture ----
(* CaptureScreen with the values of each .cfg file. *)
EXTENDS CaptureScreen

====

----------------------------- MODULE MCContent -----------------------------
(* The instance of MCIntake for what enters, and one video in the library. *)
EXTENDS Content, MCIntake
=============================================================================

---------------------------- MODULE MCReminders ----------------------------
(* Reminders for TLC.  Its run has leads-to properties and takes no symmetry. *)
EXTENDS Reminders, TLC
==============================================================================

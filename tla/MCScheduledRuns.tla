-------------------------- MODULE MCScheduledRuns --------------------------
(* One schedule over either store, one run by a user, a workflow of two     *)
(* steps, and a handful of edits and crashes.                               *)
EXTENDS ScheduledRuns
=============================================================================

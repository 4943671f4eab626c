---------------------------- MODULE MCUsageReports ----------------------------
(***************************************************************************)
(* UsageReports with two recorders: see the .cfg file.                     *)
(***************************************************************************)
EXTENDS UsageReports
===============================================================================

---------------------------- MODULE MCReportExport ----------------------------
(* Three reports asked for over three generations of the page.               *)
EXTENDS ReportExport
=============================================================================

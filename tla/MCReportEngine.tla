--------------------------- MODULE MCReportEngine ---------------------------
(* Small instances of ReportEngine for TLC: the .cfg files ReportEngine_*. *)
EXTENDS ReportEngine, TLC
=============================================================================

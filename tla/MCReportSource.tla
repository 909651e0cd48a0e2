--------------------------- MODULE MCReportSource ---------------------------
(* Two Kitten endpoints, so that all three voices may follow each other.   *)
EXTENDS ReportSource

TwoEndpoints == <<"kitten_primary", "kitten_secondary">>

=============================================================================

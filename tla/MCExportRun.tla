---------------------------- MODULE MCExportRun ----------------------------
(* Two tenants, one of which may fail every night.                         *)
EXTENDS ExportRun

CONSTANTS t1, t2

=============================================================================

------------------------ MODULE MCExportOrchestrator ------------------------
\* A small instance of ExportOrchestrator.
EXTENDS ExportOrchestrator
CONSTANTS k1, k2
=============================================================================

---------------------------- MODULE MCProcEvents ----------------------------
EXTENDS ProcEvents
=============================================================================

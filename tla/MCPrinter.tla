----------------------------- MODULE MCPrinter ------------------------------
EXTENDS Printer
=============================================================================

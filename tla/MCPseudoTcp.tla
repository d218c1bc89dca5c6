---------------------------- MODULE MCPseudoTcp ----------------------------
\* PseudoTcp for TLC: the constants are numbers and come from the .cfg files.
EXTENDS PseudoTcp
=============================================================================

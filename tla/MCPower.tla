------------------------------- MODULE MCPower -------------------------------
EXTENDS PowerProps
=============================================================================

------------------------------ MODULE MCManager ------------------------------
EXTENDS Manager

\* Two connections: one that fails or aborts, and one that must not suffer.
Connections == {"c", "d"}
==============================================================================

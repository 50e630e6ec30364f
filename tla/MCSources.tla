------------------------------ MODULE MCSources ------------------------------
EXTENDS Sources
=============================================================================

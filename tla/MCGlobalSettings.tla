-------------------------- MODULE MCGlobalSettings --------------------------
EXTENDS GlobalSettings
=============================================================================

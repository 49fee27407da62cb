--------------------------- MODULE MCServerStartup ---------------------------
EXTENDS ServerStartup, TLC
=============================================================================

--------------------------- MODULE MCFileHandler ---------------------------
EXTENDS FileHandler
=============================================================================

--------------------------- MODULE MCFileTransfer ---------------------------
EXTENDS FileTransfer
=============================================================================

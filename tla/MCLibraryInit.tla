--------------------------- MODULE MCLibraryInit ---------------------------
EXTENDS LibraryInit
=============================================================================

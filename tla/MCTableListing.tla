--------------------------- MODULE MCTableListing ---------------------------
EXTENDS TableListing
=============================================================================

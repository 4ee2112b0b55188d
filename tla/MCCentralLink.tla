--------------------------- MODULE MCCentralLink ---------------------------
EXTENDS CentralLink, CentralReports
=============================================================================

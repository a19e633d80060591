------------------------------- MODULE MCLink -------------------------------
EXTENDS Link
CONSTANTS c, q
=============================================================================

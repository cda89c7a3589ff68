----------------------------- MODULE MCUrlQueue -----------------------------
EXTENDS UrlQueue

CONSTANTS f1, s1, a, nobody, killed
=============================================================================

----------------------------- MODULE MCAutotune -----------------------------
EXTENDS Autotune
=============================================================================

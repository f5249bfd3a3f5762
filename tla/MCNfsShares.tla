----------------------------- MODULE MCNfsShares -----------------------------
\* The constants of NfsShares are model values and numbers, given in the
\* configurations; this module only makes it a module to check.
EXTENDS NfsShares
=============================================================================

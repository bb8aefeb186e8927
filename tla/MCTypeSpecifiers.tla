-------------------------- MODULE MCTypeSpecifiers --------------------------
EXTENDS TypeSpecifiers
=============================================================================

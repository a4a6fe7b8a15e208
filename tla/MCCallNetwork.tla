---------------------------- MODULE MCCallNetwork ----------------------------
\* Instances of CallNetwork; the configurations give the bounds their values.
EXTENDS CallNetwork
=============================================================================

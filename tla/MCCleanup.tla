----------------------------- MODULE MCCleanup ------------------------------
EXTENDS Cleanup
=============================================================================

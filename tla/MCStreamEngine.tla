------------------------------ MODULE MCStreamEngine ------------------------------
EXTENDS StreamEngine
=============================================================================

---------------------------- MODULE MCRluThreads ----------------------------
EXTENDS RluThreads
=============================================================================

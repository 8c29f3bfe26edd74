---------------------------- MODULE MCCommitLog ----------------------------
EXTENDS CommitLog
=============================================================================

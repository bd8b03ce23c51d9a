---------------------------- MODULE MCHistoryFile ----------------------------
\* Up to four database files, two crashes and two mishaps.
EXTENDS HistoryFile
=============================================================================

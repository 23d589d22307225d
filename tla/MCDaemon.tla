------------------------------ MODULE MCDaemon ------------------------------
\* One source that may have a schedule, and one without; two firings.
EXTENDS Daemon
=============================================================================

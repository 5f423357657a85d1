----------------------------- MODULE MCEventLog -----------------------------
\* Small instances of EventLog: one session with every fault, or two that overlap.
EXTENDS EventLog
=============================================================================

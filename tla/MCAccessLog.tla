---- MODULE MCAccessLog ----
EXTENDS AccessLog
============================

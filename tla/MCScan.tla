---- MODULE MCScan ----
EXTENDS Scan
====

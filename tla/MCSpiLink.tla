---- MODULE MCSpiLink ----
EXTENDS SpiLink
====

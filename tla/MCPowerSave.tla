---- MODULE MCPowerSave ----
EXTENDS PowerSave

Conf(m, d, i, s) == [mode |-> m, dyn |-> d, idle |-> i, sleeps |-> s]
\* One way to sleep at a time: the ps work, or mac80211.
OneSleeper == {Conf("deep", TRUE, FALSE, 0), Conf("modem", TRUE, FALSE, 0),
               Conf("deep", FALSE, FALSE, 1), Conf("modem", FALSE, FALSE, 1),
               Conf("none", FALSE, TRUE, 0)}
====

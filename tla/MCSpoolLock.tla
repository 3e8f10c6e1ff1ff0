---------------------------- MODULE MCSpoolLock ----------------------------
(* SpoolLock with two connected clients and one interactive noffle.        *)
EXTENDS SpoolLock

CONSTANTS s1, s2, t1

MCServers == {s1, s2}
MCTools   == {t1}

\* Opening works for the first client's server, so that it must not work
\* without it.
MCFailing == {s2, t1}
=============================================================================

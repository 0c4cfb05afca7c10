------------------------------ MODULE MCSdhcp -------------------------------
(* Small segments: clients, servers and the addresses each server owns.        *)
EXTENDS Sdhcp

CONSTANTS c1, c2, s1, s2, a1, a2

OneServer == [a \in {a1, a2} |-> s1]

OneAddress == [a \in {a1} |-> s1]

TwoServers == [a \in {a1, a2} |-> IF a = a1 THEN s1 ELSE s2]
=============================================================================

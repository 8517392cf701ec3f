--------------------------- MODULE MCRelayTraffic ---------------------------
(* RelayTraffic for TLC: one pair, so two slot keys.                        *)
EXTENDS RelayTraffic

CONSTANTS m1, m2, d1, i1, i2

MCKey    == {"mobile", "desktop"}
MCPeerOf == [k \in MCKey |-> CHOOSE o \in MCKey : o # k]
\* Connections of the phone and one of the desktop.
MCKeyOf  == [c \in Conn |-> IF c = d1 THEN "desktop" ELSE "mobile"]
NoScopes == {}
=============================================================================

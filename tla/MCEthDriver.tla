----------------------------- MODULE MCEthDriver -----------------------------
(* Instances of EthDriver for TLC. *)
EXTENDS EthDriver

OneSender == {"tcpip"}
NoFaults == {}
AllFaults == {"TXER", "RXOF", "PHY"}
TwoSenders == {"tcpip", "lwip"}
=============================================================================

----------------------------- MODULE MCUdpServer -----------------------------
(* Small values for the constants of UdpServer.                            *)
EXTENDS UdpServer

NobodysKey == <<0, 0>>
NoHold == {{}}
OneHold == {{}, {1}}
Nothing == {}
Still == {FALSE}
=============================================================================

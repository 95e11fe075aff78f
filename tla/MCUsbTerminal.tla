--------------------------- MODULE MCUsbTerminal ---------------------------
(***************************************************************************)
(* UsbTerminal for TLC: packets of two bytes and a text of three, so that  *)
(* a print fills a packet and has to wait for the host within it, and what *)
(* is left for the timer to flush is one byte or a full packet.            *)
(***************************************************************************)
EXTENDS UsbTerminal

Longer == {3}
=============================================================================

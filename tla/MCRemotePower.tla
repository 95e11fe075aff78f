--------------------------- MODULE MCRemotePower ---------------------------
(* Instances of RemotePower for TLC: a board of six devices. *)
EXTENDS RemotePower

\* One device, as the keys f and g send it, all of them, as x and z do, and
\* the first ones only, as the hard-coded alarms do (0xFF of 12).
FirmwareMasks == {{d} : d \in Devices} \cup {Devices, Devices \ {numberTotal - 1}}

AllKeys == SwitchKeys \cup {"channel_number"}
=============================================================================

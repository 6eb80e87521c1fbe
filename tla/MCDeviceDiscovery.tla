--------------------------- MODULE MCDeviceDiscovery ---------------------------
(* Instance of DeviceDiscovery for TLC: devices and lists are model values. *)
EXTENDS DeviceDiscovery, TLC
=============================================================================

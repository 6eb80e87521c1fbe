--------------------------- MODULE MCCommandDispatch ---------------------------
(* Instance of CommandDispatch for TLC: uuids and devices are model values. *)
EXTENDS CommandDispatch, TLC

CONSTANTS lamp, plug

(* lamp is reached by both channels, plug by Bluetooth only.               *)
MCDevices == {lamp, plug}
MCWithTopic == {lamp}
MCWithAddress == {lamp, plug}

(* Bound of the run with both channels: a device is discovered before its  *)
(* peripheral is seen, and no probe dies while connected; the two-device   *)
(* run goes through either.                                                *)
DiscoveredFirst == known \subseteq recorded /\ strayed = {}

(* Bound of the two-device run: Bluetooth is the only channel.      *)
BluetoothOnly == ~iotEnabled /\ ~iotUp /\ bleChannelOn

IdSymmetry == Permutations(Ids)

=============================================================================

-------------------------- MODULE MCDeviceIdentity --------------------------
(***************************************************************************)
(* DeviceIdentity for TLC: two units with one serial, which only the port  *)
(* tells apart, one of the same model without a serial, and a codec that   *)
(* is not USB, against two card indices and two ports, so that every index *)
(* and port changes hands.                                                 *)
(***************************************************************************)
EXTENDS DeviceIdentity, TLC

CONSTANTS twin1, twin2, plain, codec, mic, pch, sn, p1, p2

MCUnits == {twin1, twin2, plain, codec}
MCDesc ==
  [u \in MCUnits |-> [usb    |-> u # codec,
                      model  |-> IF u = codec THEN pch ELSE mic,
                      serial |-> IF u \in {twin1, twin2} THEN sn ELSE NoSerial]]
MCPorts == {p1, p2}

\* Twins and ports are interchangeable; nothing but safety is checked.
Symmetry == Permutations({twin1, twin2}) \cup Permutations(MCPorts)
=============================================================================

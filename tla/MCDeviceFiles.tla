--------------------------- MODULE MCDeviceFiles ----------------------------
(* DeviceFiles with two contents.  At most four writes are remembered at    *)
(* once (the path's, the record's, an original's and the one under way), so *)
(* five identities always leave a fresh one.                                *)
EXTENDS DeviceFiles

MCIds == 1..5
=============================================================================

--------------------------- MODULE MCWifiSettings ---------------------------
(* Two values for every setting, and three calls of the settings' interface  *)
(* between starts and power losses.                                          *)
EXTENDS WifiSettings
=============================================================================

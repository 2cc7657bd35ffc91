------------------------------ MODULE MCPanels ------------------------------
(* The panels of one analog pin, the I2C bus and one digital pin, in the   *)
(* order of SensApl.java:99-106.                                           *)
EXTENDS Panels
Panels == <<"A", "I", "D">>
=============================================================================

------------------------------- MODULE MCMenu -------------------------------
(* Values of Menu's constants for TLC. *)
EXTENDS Menu

\* One analog pin and two digital ones; types up to pH and EC.
MCPinMenuLength == <<2, 3, 2>>
MCTypeMenuLength == <<4, 5, 3>>

=============================================================================

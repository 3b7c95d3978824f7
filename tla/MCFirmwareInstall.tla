------------------------- MODULE MCFirmwareInstall -------------------------
(* The order of the updates in the script of each board, for TLC *)
EXTENDS FirmwareInstall

Imx8Order == <<"boot", "recovery", "system", "vendor">>
Imx6Order == <<"boot", "system", "recovery", "vendor">>

=============================================================================

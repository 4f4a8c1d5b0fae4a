------------------------------- MODULE MCCIDR -------------------------------
(* Addresses of three 2-bit octets.                                        *)
EXTENDS CIDR

MCMaskLens == 0..Width
MCReserved == {{}, {1}, {1, 2}}
=============================================================================

------------------------------ MODULE MCGicIrq ------------------------------
(* Three drivers over five interrupts of all kinds.                        *)
EXTENDS GicIrq

(* The attribute registers come out of reset with all bits 0, or all 1.    *)
MCResetWords == {{}, Bits}
=============================================================================

------------------------------ MODULE MCGicBoot ------------------------------
(* plat_gicv3_init on a few CPUs of a GIC with a few SPI registers.        *)
EXTENDS GicBoot
=============================================================================

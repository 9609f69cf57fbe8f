------------------------------- MODULE MCVCpu -------------------------------
(* Two vCPUs on one physical CPU.                                          *)
EXTENDS VCpu

CONSTANTS v1, v2

MCVcpus == {v1, v2}
=============================================================================

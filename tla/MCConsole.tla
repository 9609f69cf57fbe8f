------------------------------ MODULE MCConsole ------------------------------
(* Two consoles, whose FIFOs a callback can fill; or two vCPUs.  These two *)
(* share nothing, so a behaviour is of one or of the other.                *)
EXTENDS Console, VCpu

CONSTANTS v1, v2

MCVcpus == {v1, v2}

(* The handler of a refused access never returns.                          *)
Hang == faulted /\ UNCHANGED pcpuVars

MCInit == Init /\ PcpuInit
MCNext == \/ PcpuInit /\ Next /\ UNCHANGED pcpuVars
          \/ Init /\ (PcpuNext \/ Hang) /\ UNCHANGED vars
MCSpec == MCInit /\ [][MCNext]_<<vars, pcpuVars>>
=============================================================================

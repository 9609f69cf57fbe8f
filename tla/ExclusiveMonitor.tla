-------------------------- MODULE ExclusiveMonitor --------------------------
(***************************************************************************)
(* The ARMv8 facilities the lock code is written against: the exclusive    *)
(* monitor behind ldaxr/stxr and the per-CPU event register behind         *)
(* wfe/sevl.  They are hardware, not code of this repository: the          *)
(* operators say what the inline assembly relies on.                       *)
(*                                                                         *)
(* For one lock word, mon is the set of CPUs holding a reservation on it   *)
(* and evt the set of CPUs whose event register is set.                    *)
(***************************************************************************)

(* ldaxr, ldxr, ldaxrh: the load reserves the word for CPU c.              *)
Reserve(mon, c) == mon \cup {c}

(* stxr, stlxr: the store is performed only under a reservation.           *)
MayStore(mon, c) == c \in mon

(* Any store to the word drops every reservation on it...                  *)
AfterStore == {}

(* ...and losing a reservation is a wake-up event for every other holder.  *)
WakeHolders(mon, evt, c) == evt \cup (mon \ {c})

(* sevl sets, and a wfe that finds it set clears, the local event register.*)
SendLocalEvent(evt, c) == evt \cup {c}
ConsumeEvent(evt, c)   == evt \ {c}
=============================================================================

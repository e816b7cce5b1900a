----------------------------- MODULE MCHelloDev -----------------------------
(* HelloDev on small instances. *)
EXTENDS HelloDev

(* No preemption; preemption where a copy from or to the user may sleep    *)
(* (CONFIG_PREEMPT_VOLUNTARY, one CPU); and preemption in the wait and at  *)
(* the data count, as in a preemptible kernel.                             *)
OneCpu == {{}, CopyPoints, WaitPoints \cup DataPoints}

(* Anywhere, as on several CPUs.                                           *)
ManyCpus == {HandlerPoints}
=============================================================================

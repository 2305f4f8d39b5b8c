----------------------------- MODULE MCScheduler -----------------------------
(* Instances of Scheduler for TLC: what the kernel tasks may call. *)
EXTENDS Scheduler

NoCalls == {}
SleepCalls == {"sleep"}
TurnCalls == {"yield", "sleep"}
TaskCalls == {"yield", "sleep", "create"}
AllCalls == {"yield", "sleep", "block", "unblock", "unblock_hint",
             "reschedule", "create"}
=============================================================================

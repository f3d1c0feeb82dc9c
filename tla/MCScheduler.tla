---------------------------- MODULE MCScheduler -----------------------------
(* Instances of the scheduler.  Prompts share a prefix of one block, and   *)
(* two requests outgrow the pool, so that hits, chunked prefills,          *)
(* preemptions and resumptions all happen.                                 *)
EXTENDS Scheduler

CONSTANTS r1, r2

MCToken   == -1 .. MaxModelLen
MCRank    == (r1 :> 1) @@ (r2 :> 2)

MCPrompts == {<<0, 0, 0>>, <<0, 0, 0, 1, 0>>}

(* A short prompt, and one prefilled in three chunks of two blocks. *)
ChunkedPrompts == {<<0>>, <<0, 1, 0, 1, 0, 1>>}

(* The sleep() calls of an instance: of one mode, or of every mode. *)
WaitSleep  == {<<"wait", "sleep">>}
AbortPause == {<<"abort", "pause">>}
EverySleep == {"abort", "wait", "keep"} \X {"sleep"}
=============================================================================

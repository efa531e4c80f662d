---------------------------- MODULE MCActivities ----------------------------
(* Activities with two commands, of which one prints, and these batches. *)
EXTENDS Activities

MCCommand == 1 .. 2
MCTalks == {1}
MCCalls == 1 .. 2

Plan(limit, chunks, turns) ==
    [limit |-> limit, chunks |-> chunks, batches |-> turns]

(* Two runs at once for one place, then a wait beside a poll; a wait for   *)
(* two commands that comes before a run of its batch; and a poll or a wait *)
(* beside a run that prints more.                                          *)
MCPlans ==
    {Plan(1, 1, << <<"run", "run">>, <<"wait", "poll">> >>),
     Plan(2, 0, << <<"run", "wait">>, <<"wait", "run">> >>),
     Plan(1, 2, << <<"run", "poll">> >>),
     Plan(1, 2, << <<"wait", "run">> >>)}
=============================================================================

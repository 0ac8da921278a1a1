--------------------------- MODULE MCStorageLayout ---------------------------
(* Instances of StorageLayout for TLC. *)
EXTENDS StorageLayout

Run(experiment, run) ==
    [project |-> <<"project">>, glassbox |-> <<"gb">>,
     experiment |-> experiment, run |-> run]

(* Two runs of one name; a run and an experiment that are called like the  *)
(* host's own directories.                                                 *)
SomeRuns == {Run(<<"exp">>, <<"run">>), Run(<<"runs">>, <<"run">>),
             Run(<<"runs">>, <<"runs">>)}

(* Ids that are the host's own names, and one that is only a prefix.       *)
SomeIds == {<<"run">>, <<"manifest">>, <<"incident">>, <<"incident", "x">>,
            <<"files">>, <<"cycles">>, <<"x", "audit", "link">>, <<"audit">>}

(* What the host calls its full snapshots is nothing like an incident's.   *)
MilestoneIds == {<<"milestone">>, <<"files">>}

SomeNames == {<<File(<<"manifest">>, "json")>>, <<File(<<"manifest">>, "jsonl")>>,
              <<Dir(<<"files">>), File(<<"manifest">>, "json")>>}

==============================================================================

-------------------------- MODULE MCArtifactTests --------------------------
(* DependencyTest and Validate side by side.  The two tools share nothing, *)
(* so one of them refuses its arguments at once while the other runs.      *)
EXTENDS DependencyTest, Validate

MCFound == [v \in Versions |-> IF v = "6.0.1" THEN {"6.0.1", "6.0.10"} ELSE {v}]

Refused == [name |-> "icu", version |-> "6.0.1", complete |-> FALSE,
            mixins |-> "none", requires |-> FALSE]

Alone == ~tree.dependency /\ ~tree.compile /\ ~tree.dockerfile /\ ~tree.test
         /\ ~options.artifact /\ ~options.version /\ ~options.skip_cleanup

MCInit == Init /\ ValidateInit /\ (input = Refused \/ Alone)

MCNext ==
  \/ Next /\ UNCHANGED validateVars
  \/ ValidateNext /\ UNCHANGED vars

MCSpec == MCInit /\ [][MCNext]_<<vars, validateVars>> /\ WF_vars(ScriptStep)

=============================================================================

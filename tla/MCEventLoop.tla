---------------------------- MODULE MCEventLoop ----------------------------
(***************************************************************************)
(* Small regions for TLC.                                                  *)
(***************************************************************************)
EXTENDS EventLoop

CONSTANTS A, B, ann, bob

MCStates == {A, B}
MCAvatars == {ann, bob}

\* Script 1 leaves A through a state_exit and ignores touches in B; the other
\* scripts have no state_exit and handle everything.
MCHandles ==
  [s \in Scripts |->
     [st \in StateIds |->
        IF s # 1 THEN EventNames
        ELSE IF st = DefaultState THEN EventNames \cup {"state_exit"}
        ELSE EventNames \ TouchNames]]

None == {}
OneAvatar == {ann}
Steps12 == {1, 2}
Step1 == {1}
OneState == {A}

=============================================================================

------------------------------- MODULE MCProc -------------------------------
(* Proc for TLC, with the scheduler's history: which slots were joined      *)
(* since a slot became RUNNABLE.                                            *)
EXTENDS Proc

VARIABLE passed

Joined == IF curProc = NoProc /\ curProc' # NoProc THEN {curProc'} ELSE {}

MCInit == Init /\ passed = [s \in Slots |-> {}]

MCNext ==
    /\ Next
    /\ passed' = [s \in Slots |->
                    IF state'[s] = "RUNNABLE" THEN passed[s] \cup Joined ELSE {}]

MCSpec == MCInit /\ [][MCNext]_<<vars, passed>> /\ WF_vars(Kernel)

(* Round robin: while a process stays RUNNABLE no other process is joined   *)
(* twice, because the loop of scheduler() goes on at the next slot after a  *)
(* process yields and does not start over.                                  *)
NoDoubleBypass ==
    [][\A s \in Slots : state[s] = "RUNNABLE" /\ state'[s] = "RUNNABLE"
           => Joined \cap passed[s] = {}]_<<vars, passed>>
=============================================================================

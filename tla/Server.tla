------------------------------- MODULE Server -------------------------------
(***************************************************************************)
(* The programs that surround the studies on the server: its bootstrap,    *)
(* the control requests, the locking of the first study's inputs, and the  *)
(* monitor.  They share no state, so that each is followed alone: a        *)
(* behaviour of all of them is a behaviour of each beside steps that do    *)
(* not touch it.                                                           *)
(***************************************************************************)
EXTENDS Provisioning, ServerControl, LockedInputs, Monitor

VARIABLE scene   \* the program that is followed; it never changes

vars == <<scene, bootVars, controlVars, inputVariables, monitorVars>>

Init ==
    /\ scene \in {"bootstrap", "control", "inputs", "monitor"}
    /\ BootInit /\ ControlInit /\ LockInit /\ MonitorInit
    /\ scene # "bootstrap" => pin = CHOOSE c \in Releases : TRUE
    /\ scene # "monitor" => families = 0

Next ==
    /\ UNCHANGED scene
    /\ \/ scene = "bootstrap" /\ BootNext /\ UNCHANGED <<controlVars, inputVariables, monitorVars>>
       \/ scene = "control" /\ ControlNext /\ UNCHANGED <<bootVars, inputVariables, monitorVars>>
       \/ scene = "inputs" /\ LockNext /\ UNCHANGED <<bootVars, controlVars, monitorVars>>
       \/ scene = "monitor" /\ MonitorNext /\ UNCHANGED <<bootVars, controlVars, inputVariables>>

Spec == Init /\ [][Next]_vars

=============================================================================

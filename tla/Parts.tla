------------------------------- MODULE Parts --------------------------------
(***************************************************************************)
(* Four parts of the controller that share no state: the recognition of    *)
(* documents with its settings, the control data of Mutsu, the history of  *)
(* the hardware and a streamed request to the model.  A step of one        *)
(* changes nothing another one reads, so it is enough that each of them    *)
(* runs while the others rest.                                             *)
(***************************************************************************)
EXTENDS VisionService, MutsuControl, HardwareMetrics, ModelStream

Init == ServiceInit /\ ControlInit /\ MetricsInit /\ StreamInit

Next ==
    \/ /\ ControlInit /\ MetricsInit /\ StreamInit
       /\ ServiceNext /\ UNCHANGED <<control, metrics, stream>>
    \/ /\ ServiceInit /\ MetricsInit /\ StreamInit
       /\ ControlNext /\ UNCHANGED <<service, metrics, stream>>
    \/ /\ ServiceInit /\ ControlInit /\ StreamInit
       /\ MetricsNext /\ UNCHANGED <<service, control, stream>>
    \/ /\ ServiceInit /\ ControlInit /\ MetricsInit
       /\ StreamNext /\ UNCHANGED <<service, control, metrics>>

Spec == Init /\ [][Next]_<<service, control, metrics, stream>> /\ StreamFairness

(* Everything in its domain, in each of the four.                          *)
TypeOK == ServiceOK /\ ControlOK /\ MetricsOK /\ StreamOK
=============================================================================

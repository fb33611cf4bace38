------------------------------ MODULE MCDevice ------------------------------
(***************************************************************************)
(* The small services of the device, each for itself: the sensor and its    *)
(* readers, the time synchronisation, and the supply chain example.  They   *)
(* share no state, so each behaviour runs one of them.                      *)
(***************************************************************************)
EXTENDS Sawtooth, Sensor, Sntp

VARIABLE subject
vars == <<subject, sensorVars, sntpVars, sawtoothVars>>

Init == /\ subject \in {"sensor", "sntp", "sawtooth"}
        /\ SensorInit /\ SntpInit /\ SawtoothInit

Only(s, others) == subject = s /\ UNCHANGED <<subject, others>>

Next ==
  \/ SensorNext /\ Only("sensor", <<sntpVars, sawtoothVars>>)
  \/ SntpNext /\ Only("sntp", <<sensorVars, sawtoothVars>>)
  \/ SawtoothNext /\ Only("sawtooth", <<sensorVars, sntpVars>>)

Spec == Init /\ [][Next]_vars

\* The network answers or never does; the threads run when they are ready; the
\* shell goes on whenever the demo thread is blocked again and again.
Fairness ==
  /\ WF_vars(SntpShell /\ Only("sntp", <<sensorVars, sawtoothVars>>))
  /\ WF_vars(SntpNet /\ Only("sntp", <<sensorVars, sawtoothVars>>))
  /\ WF_vars(Demo /\ Only("sawtooth", <<sensorVars, sntpVars>>))
  /\ SF_vars(ShellWork /\ Only("sawtooth", <<sensorVars, sntpVars>>))

FairSpec == Spec /\ Fairness

\* The type invariant of the three.
TypeOK == SensorTypeOK /\ SntpTypeOK /\ SawtoothTypeOK
=============================================================================

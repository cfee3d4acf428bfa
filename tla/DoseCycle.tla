------------------------------ MODULE DoseCycle -------------------------------
(***************************************************************************)
(* What the control loop promises about the CO2 emitter, whatever the       *)
(* sensors, the users and the bus do: CO2 is let in dose by dose.  The      *)
(* valve opens only when the previous dose has had its time to spread, an   *)
(* open valve is closed by nothing but the end of the dose, and after every *)
(* dose there is a time to spread.                                          *)
(***************************************************************************)
VARIABLE phase      \* "ready", "open" or "spreading"

Init == phase = "ready"

Open   == phase = "ready" /\ phase' = "open"
Close  == phase = "open" /\ phase' = "spreading"
Spread == phase = "spreading" /\ phase' = "ready"

Next == Open \/ Close \/ Spread

Spec == Init /\ [][Next]_phase

\* No dose and no spreading lasts for ever.
FairSpec == Spec /\ WF_phase(Close) /\ WF_phase(Spread)

===============================================================================

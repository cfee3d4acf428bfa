--------------------------- MODULE ApplicationProofs ---------------------------
(***************************************************************************)
(* Proofs about the tasks of the program.  The control loop, for every set *)
(* of levels and targets, every number of failing requests, and every      *)
(* value of the constants of the header that GreenhouseAssumption admits;  *)
(* and what comes in from outside: the loops over the lossy queues, for    *)
(* every length; the debouncing, for every set of buttons, debounce time   *)
(* and queue length; the order of the characters; and the ring of the      *)
(* network client, for every size of ring, segments and reads.             *)
(***************************************************************************)
EXTENDS Greenhouse, LossCounter, SwitchInput, CharMap, IPStack, TLAPS

-------------------------------------------------------------------------------
\* The control loop

\* The device obeys a reliable bus wherever the task is, and the emergency
\* branch is the only one that leaves the fan's register to be read back.
FanInv ==
    /\ ReliableBus /\ mFan \in {OFF, CRUISE} => fanReg = mFan
    /\ pc \in {"running", "read", "set", "vented"} => mFan = MAX_POWER

\* While the valve is open the task sleeps in the emission, with the fan
\* commanded off and the period it calculated from a reading below the target.
DoseInv ==
    /\ emitter <=> pc = "emitting"
    /\ emitter => /\ mFan = OFF
                  /\ mCO2Measurement < mCO2Target
                  /\ period = EmissionPeriod(mCO2Measurement - mCO2Target)

\* From the peek to the next wake-up, whatever changes the target leaves a sign.
TargetInv ==
    pc \in {"emitting", "wait"} /\ target # seen
        => sUpdateGreenhouse \/ giving \/ unannounced

\* The timer is what remembers the emission.
DiffusionInv == undiffused => co2Wait

IInv == TypeOK /\ FanInv /\ DoseInv /\ TargetInv /\ DiffusionInv

-------------------------------------------------------------------------------
\* Arithmetic of the powers and of the emission period

\* The three powers the loop uses are distinct values in range.
LEMMA PowersFacts ==
    /\ OFF \in Int /\ CRUISE \in Int /\ MAX_POWER \in Int
    /\ OFF < CRUISE /\ CRUISE < MAX_POWER
  BY ActuatorAssumption DEF OFF, CRUISE

\* Clamping changes none of them.
LEMMA ClampPower ==
    ASSUME NEW p \in Powers
    PROVE  Clamp(p) = p
  BY PowersFacts DEF Clamp, Powers, OFF

\* What a call of set_power leaves of the fan, and on which bus it obeys.
LEMMA SetPowerFacts ==
    ASSUME ActuatorTypeOK, NEW p \in Powers, SetPower(p)
    PROVE  /\ mSetPower' \in Powers
           /\ fanReg' \in Powers
           /\ spinning' \in BOOLEAN
           /\ faults' \in 0..MaxFaults
           /\ ReliableBus' => ReliableBus /\ fanReg' = p
<1>1. PICK kick, set \in BOOLEAN :
        /\ kick => mSetPower # OFF
        /\ LET failed == (IF mSetPower # OFF /\ ~kick THEN 1 ELSE 0)
                       + (IF set THEN 0 ELSE 1)
           IN  /\ faults + failed <= MaxFaults
               /\ faults' = faults + failed
        /\ mSetPower' = p
        /\ Written(kick, set, p)
  BY ClampPower DEF SetPower
<1>2. mSetPower' \in Powers
  BY <1>1
<1>3. fanReg' \in Powers /\ spinning' \in BOOLEAN
  BY <1>1 DEF Written, ActuatorTypeOK, Powers
<1>4. faults' \in 0..MaxFaults
  BY <1>1, ActuatorAssumption DEF ActuatorTypeOK
<1>5. ReliableBus' => ReliableBus /\ fanReg' = p
  BY <1>1, ActuatorAssumption DEF Written, ReliableBus, ActuatorTypeOK
<1> QED
  BY <1>2, <1>3, <1>4, <1>5

\* A failing or succeeding request keeps the count in its bound.
LEMMA FailsFacts ==
    ASSUME faults \in 0..MaxFaults, NEW failed \in BOOLEAN, Fails(failed)
    PROVE  faults' \in 0..MaxFaults /\ (ReliableBus' => ReliableBus /\ ~failed)
  BY ActuatorAssumption DEF Fails, ReliableBus

\* The emission period is a natural number between its bounds.
LEMMA PeriodBounds ==
    ASSUME NEW d \in Int
    PROVE  /\ EmissionPeriod(d) \in Nat
           /\ EmissionPeriod(d) <= MAX_EMISSION_PERIOD_MS
           /\ EmissionPeriod(d) >= MIN_EMISSION_PERIOD_MS
  BY GreenhouseAssumption DEF EmissionPeriod, Abs

\* A dose for a level d ppm off adds at most what lifts it by CO2_FAN_MARGIN
\* over the target: either it is the shortest one, which the margin exceeds,
\* or it is no more than the deficit.
LEMMA DoseBound ==
    ASSUME NEW d \in Int, d < 0
    PROVE  d + ExpectedEmission(EmissionPeriod(d)) <= CO2_FAN_MARGIN
<1> DEFINE rate == CO2_EXPECTED_EMISSION_RATE_CO2pS
           p == EmissionPeriod(d)
           q == (-d * 1000) \div rate
<1>1. rate \in Nat /\ rate > 0 /\ CO2_FAN_MARGIN \in Nat /\ p \in Nat
  BY PeriodBounds, GreenhouseAssumption
<1>2. q \in Nat /\ q * rate <= -d * 1000
  BY <1>1, Z3
<1>3. p = MIN_EMISSION_PERIOD_MS \/ p <= q
  BY <1>2, GreenhouseAssumption DEF EmissionPeriod, Abs
<1>4. p * rate <= 1000 * CO2_FAN_MARGIN \/ p * rate <= -d * 1000
  <2>1. CASE p = MIN_EMISSION_PERIOD_MS
    BY <2>1, GreenhouseAssumption
  <2>2. CASE p <= q
    <3>1. p * rate <= q * rate
      BY <2>2, <1>1, <1>2
    <3> QED
      BY <3>1, <1>1, <1>2
  <2> QED
    BY <1>3, <2>1, <2>2
<1>5. DEFINE e == p * rate
<1>6. e \in Int /\ (e <= 1000 * CO2_FAN_MARGIN \/ e <= -d * 1000)
  BY <1>1, <1>4
<1>7. ExpectedEmission(EmissionPeriod(d)) = e \div 1000
  BY DEF ExpectedEmission
<1> HIDE DEF e
<1>8. d + e \div 1000 <= CO2_FAN_MARGIN
  BY <1>1, <1>6
<1> QED
  BY <1>7, <1>8

-------------------------------------------------------------------------------
\* The invariant

\* The initial states satisfy it.
LEMMA InitIInv == Init => IInv
<1> SUFFICES ASSUME Init PROVE IInv
  OBVIOUS
<1>1. TypeOK
  <2>1. ActuatorTypeOK
    <3>1. faults \in 0..MaxFaults
      BY ActuatorAssumption DEF Init, ActuatorInit
    <3>2. /\ mSetPower \in Powers /\ fanReg \in Powers
          /\ spinning \in BOOLEAN /\ emitter \in BOOLEAN
      BY Zenon DEF Init, ActuatorInit, Powers
    <3> QED
      BY <3>1, <3>2 DEF ActuatorTypeOK
  <2>2. /\ mCO2PrevDelta \in Int /\ period \in Nat
        /\ mFan = NoReading /\ mCO2Measurement = NoReading
    BY DEF Init, NoReading
  <2> QED
    BY <2>1, <2>2 DEF Init, TypeOK
<1>2. FanInv
  BY PowersFacts DEF Init, FanInv, OFF
<1>3. DoseInv /\ TargetInv /\ DiffusionInv
  BY DEF Init, ActuatorInit, DoseInv, TargetInv, DiffusionInv
<1> QED
  BY <1>1, <1>2, <1>3 DEF IInv

\* What CommandFan leaves, for the branches that use it.
LEMMA CommandFanFacts ==
    ASSUME TypeOK, NEW p \in Powers, CommandFan(p)
    PROVE  /\ ActuatorTypeOK' <=> emitter' \in BOOLEAN
           /\ mFan' = p /\ qFan' = p /\ sUpdateDisplay' \in BOOLEAN
           /\ ReliableBus' => fanReg' = p
  BY SetPowerFacts DEF CommandFan, TypeOK, ActuatorTypeOK

\* What leaving the fan alone leaves.
LEMMA LeaveFanFacts ==
    ASSUME TypeOK, LeaveFan
    PROVE  /\ ActuatorTypeOK' <=> emitter' \in BOOLEAN
           /\ UNCHANGED <<mFan, qFan, sUpdateDisplay, fanReg, faults>>
           /\ ReliableBus' <=> ReliableBus
  BY DEF LeaveFan, fanVars, TypeOK, ActuatorTypeOK, ReliableBus

\* Each step of the task keeps it; the branches of actuate() first.
LEMMA ActuateIInv == ASSUME IInv, Actuate PROVE IInv'
<1> USE DEF IInv
<1>1. CASE Emergency
  <2>1. TypeOK'
    BY <1>1 DEF Emergency, TypeOK, ActuatorTypeOK, fanVars, sharedVars,
       othersVars, memberVars, historyVars
  <2>2. FanInv' /\ DoseInv' /\ TargetInv' /\ DiffusionInv'
    BY <1>1 DEF Emergency, FanInv, DoseInv, TargetInv, DiffusionInv, fanVars,
       sharedVars, othersVars, memberVars, historyVars, ReliableBus
  <2> QED
    BY <2>1, <2>2
<1>2. CASE Omitted
  <2>1. OFF \in Powers
    BY DEF Powers
  <2>2. CommandFan(OFF) /\ TypeOK
    BY <1>2 DEF Omitted
  <2>3. /\ ActuatorTypeOK' <=> emitter' \in BOOLEAN
        /\ mFan' = OFF /\ qFan' = OFF /\ sUpdateDisplay' \in BOOLEAN
        /\ ReliableBus' => fanReg' = OFF
    BY <2>1, <2>2, CommandFanFacts
  <2>6. ActuatorTypeOK'
    BY <1>2, <2>3 DEF Omitted, PutState
  <2>7. /\ pc' = "wait" /\ seen' = NoTarget /\ unannounced' = FALSE
        /\ UNCHANGED <<level, target, qCO2Measurement, sUpdateGreenhouse, co2Wait,
                       mCO2Target, mCO2Measurement, mCO2PrevDelta, period,
                       giving, filled, undiffused>>
    BY <1>2 DEF Omitted, othersVars
  <2>8. mFan' \in Powers /\ qFan' \in Powers /\ sUpdateDisplay' \in BOOLEAN
    BY <2>1, <2>3
  <2>4. TypeOK'
    <3>1. /\ level' \in Levels /\ target' \in Targets \cup {NoTarget}
          /\ qCO2Measurement' \in Levels \cup {0, NoReading}
          /\ qFan' \in Powers \cup {NoReading}
          /\ mFan' \in Powers \cup {NoReading}
          /\ mCO2Target' \in Targets \cup {0}
          /\ mCO2Measurement' \in Levels \cup {0, NoReading}
          /\ seen' \in Targets \cup {NoTarget}
      BY <2>6, <2>7, <2>8 DEF TypeOK
    <3> QED
      BY <2>6, <2>7, <2>8, <3>1 DEF TypeOK
  <2>5. FanInv' /\ DoseInv' /\ TargetInv' /\ DiffusionInv'
    BY <1>2, <2>3 DEF Omitted, PutState, FanInv, DoseInv, TargetInv,
       DiffusionInv, othersVars
  <2> QED
    BY <2>4, <2>5
<1>3. CASE Diffusing
  <2>1. /\ ActuatorTypeOK' <=> emitter' \in BOOLEAN
        /\ UNCHANGED <<mFan, qFan, sUpdateDisplay, fanReg, faults>>
        /\ ReliableBus' <=> ReliableBus
    BY <1>3, LeaveFanFacts DEF Diffusing
  <2>4. ActuatorTypeOK'
    BY <1>3, <2>1 DEF Diffusing, TypeOK, ActuatorTypeOK
  <2>5. /\ pc' = "wait" /\ target # NoTarget
        /\ mCO2Target' = target /\ seen' = target /\ unannounced' = FALSE
        /\ UNCHANGED <<level, target, qCO2Measurement, sUpdateGreenhouse, co2Wait,
                       mCO2Measurement, mCO2PrevDelta, period, giving, filled,
                       undiffused>>
    BY <1>3 DEF Diffusing, Peek, othersVars
  <2>6. UNCHANGED <<mFan, qFan, sUpdateDisplay>>
    BY <2>1
  <2>2. TypeOK'
    <3>1. /\ level' \in Levels /\ target' \in Targets \cup {NoTarget}
          /\ qCO2Measurement' \in Levels \cup {0, NoReading}
          /\ qFan' \in Powers \cup {NoReading}
          /\ mFan' \in Powers \cup {NoReading}
          /\ mCO2Target' \in Targets \cup {0}
          /\ mCO2Measurement' \in Levels \cup {0, NoReading}
          /\ seen' \in Targets \cup {NoTarget}
      BY <2>4, <2>5, <2>6 DEF TypeOK
    <3> QED
      BY <2>4, <2>5, <2>6, <3>1 DEF TypeOK
  <2>3. FanInv' /\ DoseInv' /\ TargetInv' /\ DiffusionInv'
    BY <1>3, <2>1 DEF Diffusing, Peek, FanInv, DoseInv, TargetInv,
       DiffusionInv, othersVars
  <2> QED
    BY <2>2, <2>3
<1>4. CASE Vent
  <2>1. OFF \in Powers /\ CRUISE \in Powers
    BY DEF Powers
  <2>2. Delta \in Int
    BY <1>4, GreenhouseAssumption DEF Vent, Peek, Delta, TypeOK, NoReading
  <2>3. CommandFan(OFF) \/ CommandFan(CRUISE) \/ LeaveFan
    BY <1>4 DEF Vent
  <2>4. /\ ActuatorTypeOK' <=> emitter' \in BOOLEAN
        /\ qFan' \in Powers \cup {NoReading} /\ mFan' \in Powers \cup {NoReading}
        /\ sUpdateDisplay' \in BOOLEAN
    BY <2>1, <2>3, CommandFanFacts, LeaveFanFacts DEF TypeOK
  <2>5. ReliableBus' /\ mFan' \in {OFF, CRUISE} => fanReg' = mFan'
    BY <2>1, <2>3, CommandFanFacts, LeaveFanFacts DEF FanInv
  <2>6. TypeOK'
    BY <1>4, <2>2, <2>4 DEF Vent, Peek, PutState, TypeOK, othersVars
  <2>7. FanInv' /\ DoseInv' /\ TargetInv' /\ DiffusionInv'
    BY <1>4, <2>5 DEF Vent, Peek, PutState, FanInv, DoseInv, TargetInv,
       DiffusionInv, othersVars
  <2> QED
    BY <2>6, <2>7
<1>5. CASE Dose
  <2>1. OFF \in Powers
    BY DEF Powers
  <2>2. /\ Delta \in Int /\ Delta < 0
        /\ Delta = mCO2Measurement' - mCO2Target'
        /\ mCO2Measurement' < mCO2Target'
    BY <1>5, GreenhouseAssumption DEF Dose, Peek, Delta, TypeOK, NoReading
  <2>3. period' = EmissionPeriod(mCO2Measurement' - mCO2Target')
        /\ period' \in Nat
    BY <1>5, <2>2, PeriodBounds DEF Dose
  <2>4. /\ ActuatorTypeOK' <=> emitter' \in BOOLEAN
        /\ mFan' = OFF
        /\ ReliableBus' => fanReg' = OFF
    <3>1. CASE mFan # OFF
      BY <1>5, <2>1, <3>1, SetPowerFacts DEF Dose, TypeOK, ActuatorTypeOK
    <3>2. CASE mFan = OFF
      BY <1>5, <3>2 DEF Dose, FanInv, TypeOK, ActuatorTypeOK, fanVars, ReliableBus
    <3> QED
      BY <3>1, <3>2
  <2>5. TypeOK'
    BY <1>5, <2>1, <2>3, <2>4 DEF Dose, Peek, PutState, TypeOK, othersVars
  <2>6. FanInv' /\ TargetInv' /\ DiffusionInv'
    BY <1>5, <2>4 DEF Dose, Peek, FanInv, TargetInv, DiffusionInv, othersVars
  <2>7. DoseInv'
    BY <1>5, <2>2, <2>3, <2>4 DEF Dose, PutState, DoseInv, EmissionPeriod, Abs
  <2> QED
    BY <2>5, <2>6, <2>7
<1>6. CASE Hold
  <2>1. OFF \in Powers
    BY DEF Powers
  <2>2. CommandFan(OFF) \/ LeaveFan
    BY <1>6 DEF Hold
  <2>3. /\ ActuatorTypeOK' <=> emitter' \in BOOLEAN
        /\ qFan' \in Powers \cup {NoReading} /\ mFan' \in Powers \cup {NoReading}
        /\ sUpdateDisplay' \in BOOLEAN
    BY <2>1, <2>2, CommandFanFacts, LeaveFanFacts DEF TypeOK
  <2>4. ReliableBus' /\ mFan' \in {OFF, CRUISE} => fanReg' = mFan'
    BY <2>1, <2>2, CommandFanFacts, LeaveFanFacts DEF FanInv
  <2>5. TypeOK'
    BY <1>6, <2>3 DEF Hold, Peek, PutState, TypeOK, othersVars
  <2>6. FanInv' /\ DoseInv' /\ TargetInv' /\ DiffusionInv'
    BY <1>6, <2>4 DEF Hold, Peek, PutState, FanInv, DoseInv, TargetInv,
       DiffusionInv, othersVars
  <2> QED
    BY <2>5, <2>6
<1> QED
  BY <1>1, <1>2, <1>3, <1>4, <1>5, <1>6 DEF Actuate

\* The loop of the emergency, the end of an emission, and the wake-up.
LEMMA TaskIInv == ASSUME IInv, Task PROVE IInv'
<1> USE DEF IInv
<1>1. CASE Start
  <2>1. TypeOK'
    BY <1>1 DEF Start, fanVars, sharedVars, othersVars, memberVars,
       historyVars, TypeOK, ActuatorTypeOK
  <2>2. FanInv' /\ DoseInv' /\ TargetInv' /\ DiffusionInv'
    BY <1>1 DEF Start, fanVars, sharedVars, othersVars, memberVars,
       historyVars, FanInv, DoseInv, TargetInv, DiffusionInv, ReliableBus
  <2> QED
    BY <2>1, <2>2
<1>2. CASE UpdateSensors
  <2>1. PICK failed, other \in BOOLEAN, garbled \in Levels \cup {0} :
          /\ Fails(failed)
          /\ mCO2Measurement' = ReadCO2(failed, garbled)
          /\ qCO2Measurement' = mCO2Measurement'
          /\ sUpdateDisplay' = (sUpdateDisplay \/ other
                \/ Abs(mCO2Measurement - mCO2Measurement') > UPDATE_THRESHOLD)
    BY <1>2 DEF UpdateSensors
  <2>2. faults' \in 0..MaxFaults /\ (ReliableBus' => ReliableBus)
    BY <2>1, FailsFacts DEF TypeOK, ActuatorTypeOK
  <2>3. mCO2Measurement' \in Levels \cup {0} /\ sUpdateDisplay' \in BOOLEAN
    BY <2>1 DEF ReadCO2, TypeOK
  <2>4. TypeOK'
    BY <1>2, <2>1, <2>2, <2>3 DEF UpdateSensors, TypeOK, ActuatorTypeOK, othersVars
  <2>5. FanInv' /\ DoseInv' /\ TargetInv' /\ DiffusionInv'
    BY <1>2, <2>2 DEF UpdateSensors, FanInv, DoseInv, TargetInv, DiffusionInv,
       othersVars
  <2> QED
    BY <2>4, <2>5
<1>3. CASE Actuate
  BY <1>3, ActuateIInv
<1>4. CASE EmissionOver
  <2>1. TypeOK'
    <3>1. emitter' \in BOOLEAN /\ co2Wait' \in BOOLEAN /\ undiffused' \in BOOLEAN
      BY <1>4 DEF EmissionOver, PutState
    <3> QED
      BY <1>4, <3>1 DEF EmissionOver, PutState, fanVars, sharedVars, othersVars,
         memberVars, TypeOK, ActuatorTypeOK
  <2>2. FanInv' /\ DoseInv' /\ TargetInv' /\ DiffusionInv'
    BY <1>4 DEF EmissionOver, PutState, fanVars, sharedVars, othersVars,
       memberVars, FanInv, DoseInv, TargetInv, DiffusionInv, ReliableBus
  <2> QED
    BY <2>1, <2>2
<1>5. CASE EmergencyAgain
  <2>1. TypeOK'
    BY <1>5 DEF EmergencyAgain, fanVars, sharedVars, othersVars, memberVars,
       historyVars, TypeOK, ActuatorTypeOK
  <2>2. FanInv' /\ DoseInv' /\ TargetInv' /\ DiffusionInv'
    BY <1>5 DEF EmergencyAgain, fanVars, sharedVars, othersVars, memberVars,
       historyVars, FanInv, DoseInv, TargetInv, DiffusionInv, ReliableBus
  <2> QED
    BY <2>1, <2>2
<1>6. CASE EmergencyFan
  <2>1. MAX_POWER \in Powers /\ MAX_POWER \notin {OFF, CRUISE}
    BY PowersFacts DEF Powers
  <2>2. TypeOK'
    BY <1>6, <2>1 DEF EmergencyFan, TypeOK, ActuatorTypeOK, fanVars, othersVars,
       historyVars
  <2>3. FanInv' /\ DoseInv' /\ TargetInv' /\ DiffusionInv'
    BY <1>6, <2>1 DEF EmergencyFan, FanInv, DoseInv, TargetInv, DiffusionInv,
       fanVars, othersVars, historyVars
  <2> QED
    BY <2>2, <2>3
<1>7. CASE EmergencyRunning
  <2>1. PICK running \in BOOLEAN :
          /\ Running(running)
          /\ sUpdateDisplay' = (sUpdateDisplay \/ running)
          /\ pc' = IF running THEN "vented" ELSE "read"
    BY <1>7 DEF EmergencyRunning
  <2>2. /\ faults' \in 0..MaxFaults /\ (ReliableBus' => ReliableBus)
        /\ UNCHANGED <<mSetPower, fanReg, spinning>>
    BY <2>1, FailsFacts DEF Running, TypeOK, ActuatorTypeOK
  <2>3. sUpdateDisplay' \in BOOLEAN /\ pc' \in {"vented", "read"}
    BY <2>1 DEF TypeOK
  <2>4. TypeOK'
    BY <1>7, <2>2, <2>3 DEF EmergencyRunning, unchangedButFan, TypeOK,
       ActuatorTypeOK, othersVars, memberVars, historyVars
  <2>5. FanInv' /\ DoseInv' /\ TargetInv' /\ DiffusionInv'
    BY <1>7, <2>2, <2>3 DEF EmergencyRunning, unchangedButFan, FanInv, DoseInv,
       TargetInv, DiffusionInv, othersVars, memberVars, historyVars
  <2> QED
    BY <2>4, <2>5
<1>8. CASE EmergencyRead
  <2>1. PICK failed \in BOOLEAN, read \in Powers :
          /\ Fails(failed)
          /\ ~failed => read = fanReg
          /\ mSetPower' = read
          /\ UNCHANGED <<fanReg, spinning>>
    BY <1>8 DEF EmergencyRead, ReadPower
  <2>2. faults' \in 0..MaxFaults /\ (ReliableBus' => ReliableBus)
    BY <2>1, FailsFacts DEF TypeOK, ActuatorTypeOK
  <2>3. /\ mSetPower' \in Powers /\ sUpdateDisplay' \in BOOLEAN
        /\ pc' \in {"vented", "set"}
    BY <1>8, <2>1 DEF EmergencyRead, TypeOK, ActuatorTypeOK, Powers
  <2>4. TypeOK'
    BY <1>8, <2>1, <2>2, <2>3 DEF EmergencyRead, unchangedButFan, TypeOK,
       ActuatorTypeOK, othersVars, memberVars, historyVars
  <2>5. FanInv' /\ DoseInv' /\ TargetInv' /\ DiffusionInv'
    BY <1>8, <2>1, <2>2, <2>3 DEF EmergencyRead, unchangedButFan, FanInv,
       DoseInv, TargetInv, DiffusionInv, othersVars, memberVars, historyVars
  <2> QED
    BY <2>4, <2>5
<1>9. CASE EmergencySet
  <2>1. mFan = MAX_POWER /\ MAX_POWER \in Powers
    BY <1>9 DEF EmergencySet, FanInv, Powers
  <2>2. /\ mSetPower' \in Powers /\ fanReg' \in Powers /\ spinning' \in BOOLEAN
        /\ faults' \in 0..MaxFaults /\ (ReliableBus' => ReliableBus)
    BY <1>9, <2>1, SetPowerFacts DEF EmergencySet, TypeOK
  <2>3. TypeOK'
    BY <1>9, <2>2 DEF EmergencySet, unchangedButFan, TypeOK, ActuatorTypeOK,
       othersVars, memberVars, historyVars
  <2>4. MAX_POWER \notin {OFF, CRUISE}
    BY PowersFacts
  <2>5. FanInv' /\ DoseInv' /\ TargetInv' /\ DiffusionInv'
    BY <1>9, <2>1, <2>4 DEF EmergencySet, unchangedButFan, FanInv, DoseInv,
       TargetInv, DiffusionInv, othersVars, memberVars, historyVars
  <2> QED
    BY <2>3, <2>5
<1>10. CASE EmergencyOver
  <2>1. TypeOK'
    BY <1>10 DEF EmergencyOver, fanVars, othersVars, memberVars, historyVars,
       TypeOK, ActuatorTypeOK
  <2>2. FanInv' /\ DoseInv' /\ TargetInv' /\ DiffusionInv'
    BY <1>10 DEF EmergencyOver, fanVars, othersVars, memberVars, historyVars,
       FanInv, DoseInv, TargetInv, DiffusionInv, ReliableBus
  <2> QED
    BY <2>1, <2>2
<1>11. CASE Wake
  <2>1. TypeOK'
    <3>1. sUpdateGreenhouse' \in BOOLEAN
      BY <1>11 DEF Wake
    <3> QED
      BY <1>11, <3>1 DEF Wake, fanVars, othersVars, memberVars, historyVars, TypeOK,
         ActuatorTypeOK
  <2>2. FanInv' /\ DoseInv' /\ TargetInv' /\ DiffusionInv'
    BY <1>11 DEF Wake, fanVars, othersVars, memberVars, historyVars, FanInv,
       DoseInv, TargetInv, DiffusionInv, ReliableBus
  <2> QED
    BY <2>1, <2>2
<1> QED
  BY <1>1, <1>2, <1>3, <1>4, <1>5, <1>6, <1>7, <1>8, <1>9, <1>10, <1>11
  DEF Task, EmergencyStep

\* The timers, the other tasks and the greenhouse keep it too.
LEMMA EnvironmentIInv ==
    ASSUME IInv, PassiveUpdate \/ CO2WaitExpires \/ Others
    PROVE  IInv'
<1> USE DEF IInv
<1>1. CASE PassiveUpdate
  <2>1. TypeOK'
    BY <1>1 DEF PassiveUpdate, unchangedByTimers, fanVars, othersVars,
       memberVars, TypeOK, ActuatorTypeOK
  <2>2. FanInv' /\ DoseInv' /\ TargetInv' /\ DiffusionInv'
    BY <1>1 DEF PassiveUpdate, unchangedByTimers, fanVars, othersVars,
       memberVars, FanInv, DoseInv, TargetInv, DiffusionInv, ReliableBus
  <2> QED
    BY <2>1, <2>2
<1>2. CASE CO2WaitExpires
  <2>1. TypeOK'
    <3>1. co2Wait' \in BOOLEAN /\ undiffused' \in BOOLEAN
      BY <1>2 DEF CO2WaitExpires
    <3> QED
      BY <1>2, <3>1 DEF CO2WaitExpires, unchangedByTimers, fanVars, othersVars,
         memberVars, TypeOK, ActuatorTypeOK
  <2>2. FanInv' /\ DoseInv' /\ TargetInv' /\ DiffusionInv'
    BY <1>2 DEF CO2WaitExpires, unchangedByTimers, fanVars, othersVars,
       memberVars, FanInv, DoseInv, TargetInv, DiffusionInv, ReliableBus
  <2> QED
    BY <2>1, <2>2
<1>3. CASE InsertTarget
  <2>1. TypeOK'
    BY <1>3 DEF InsertTarget, unchangedByOthers, fanVars, memberVars, TypeOK,
       ActuatorTypeOK
  <2>2. FanInv' /\ DoseInv' /\ TargetInv' /\ DiffusionInv'
    BY <1>3 DEF InsertTarget, unchangedByOthers, fanVars, memberVars, FanInv,
       DoseInv, TargetInv, DiffusionInv, ReliableBus
  <2> QED
    BY <2>1, <2>2
<1>4. CASE OmitTarget
  <2>1. TypeOK'
    BY <1>4 DEF OmitTarget, unchangedByOthers, fanVars, memberVars, TypeOK,
       ActuatorTypeOK
  <2>2. FanInv' /\ DoseInv' /\ TargetInv' /\ DiffusionInv'
    BY <1>4 DEF OmitTarget, unchangedByOthers, fanVars, memberVars, FanInv,
       DoseInv, TargetInv, DiffusionInv, ReliableBus
  <2> QED
    BY <2>1, <2>2
<1>5. CASE HandlerGives
  <2>1. TypeOK'
    <3>1. giving' \in BOOLEAN /\ sUpdateDisplay' \in BOOLEAN
          /\ sUpdateGreenhouse' \in BOOLEAN
      BY <1>5 DEF HandlerGives
    <3> QED
      BY <1>5, <3>1 DEF HandlerGives, unchangedByOthers, fanVars, memberVars, TypeOK,
         ActuatorTypeOK
  <2>2. FanInv' /\ DoseInv' /\ TargetInv' /\ DiffusionInv'
    BY <1>5 DEF HandlerGives, unchangedByOthers, fanVars, memberVars, FanInv,
       DoseInv, TargetInv, DiffusionInv, ReliableBus
  <2> QED
    BY <2>1, <2>2
<1>6. CASE StorageFills
  <2>1. PICK t \in Targets \cup {NoTarget} :
          IF t = NoTarget THEN UNCHANGED <<target, unannounced>>
          ELSE target' = t /\ unannounced' = TRUE
    BY <1>6 DEF StorageFills
  <2>2. /\ target' \in Targets \cup {NoTarget} /\ unannounced' \in BOOLEAN
        /\ target' # target => unannounced'
        /\ unannounced => unannounced'
    BY <2>1 DEF TypeOK
  <2>3. TypeOK'
    BY <1>6, <2>2 DEF StorageFills, unchangedByOthers, TypeOK, ActuatorTypeOK,
       fanVars, memberVars
  <2>4. FanInv' /\ DoseInv' /\ TargetInv' /\ DiffusionInv'
    BY <1>6, <2>2 DEF StorageFills, unchangedByOthers, FanInv, DoseInv,
       TargetInv, DiffusionInv, ReliableBus, fanVars, memberVars
  <2> QED
    BY <2>3, <2>4
<1>7. CASE DisplayTakes
  <2>1. TypeOK'
    <3>1. sUpdateDisplay' \in BOOLEAN
      BY <1>7 DEF DisplayTakes
    <3> QED
      BY <1>7, <3>1 DEF DisplayTakes, unchangedByOthers, othersVars, fanVars,
         memberVars, TypeOK, ActuatorTypeOK
  <2>2. FanInv' /\ DoseInv' /\ TargetInv' /\ DiffusionInv'
    BY <1>7 DEF DisplayTakes, unchangedByOthers, othersVars, fanVars,
       memberVars, FanInv, DoseInv, TargetInv, DiffusionInv, ReliableBus
  <2> QED
    BY <2>1, <2>2
<1>8. CASE LevelChanges
  <2>1. TypeOK'
    BY <1>8 DEF LevelChanges, unchangedByOthers, sharedVars, fanVars,
       memberVars, TypeOK, ActuatorTypeOK
  <2>2. FanInv' /\ DoseInv' /\ TargetInv' /\ DiffusionInv'
    BY <1>8 DEF LevelChanges, unchangedByOthers, sharedVars, fanVars,
       memberVars, FanInv, DoseInv, TargetInv, DiffusionInv, ReliableBus
  <2> QED
    BY <2>1, <2>2
<1>9. CASE FanStops
  <2>1. TypeOK'
    <3>1. spinning' \in BOOLEAN
      BY <1>9 DEF FanStops, RotorStops
    <3> QED
      BY <1>9, <3>1 DEF FanStops, RotorStops, sharedVars, othersVars, historyVars,
         memberVars, TypeOK, ActuatorTypeOK
  <2>2. FanInv' /\ DoseInv' /\ TargetInv' /\ DiffusionInv'
    BY <1>9 DEF FanStops, RotorStops, sharedVars, othersVars, historyVars,
       memberVars, FanInv, DoseInv, TargetInv, DiffusionInv, ReliableBus
  <2> QED
    BY <2>1, <2>2
<1> QED
  BY <1>1, <1>2, <1>3, <1>4, <1>5, <1>6, <1>7, <1>8, <1>9 DEF Others

\* The invariant is inductive.
LEMMA NextIInv == ASSUME IInv, [Next]_vars PROVE IInv'
<1>1. CASE UNCHANGED vars
  BY <1>1 DEF IInv, vars, fanVars, sharedVars, othersVars, memberVars,
     historyVars, TypeOK, ActuatorTypeOK, FanInv, DoseInv, TargetInv,
     DiffusionInv, ReliableBus
<1> QED
  BY <1>1, TaskIInv, EnvironmentIInv DEF Next

-------------------------------------------------------------------------------
\* The theorems

\* Every reachable state satisfies the invariant.
THEOREM Invariance == Spec => []IInv
  BY InitIInv, NextIInv, PTL DEF Spec

\* Every variable of the control loop stays in its type.
THEOREM TypeCorrect == Spec => []TypeOK
<1>1. IInv => TypeOK
  BY DEF IInv
<1> QED
  BY <1>1, Invariance, PTL

\* On a reliable bus the emitter never opens into a running fan register,
\* whatever value the controller found there at boot (Greenhouse.cpp 143-152).
THEOREM EmitterExcludesFan == Spec => []NoDosingIntoVentilation
<1>1. IInv => NoDosingIntoVentilation
  BY DEF IInv, FanInv, DoseInv, NoDosingIntoVentilation
<1> QED
  BY <1>1, Invariance, PTL

\* On a reliable bus the device is at the power the task has in mFan whenever
\* the task waits, unless that is the power of an emergency.
THEOREM DeviceObeys == Spec => []FanObeys
<1>1. IInv => FanObeys
  BY DEF IInv, FanInv, FanObeys
<1> QED
  BY <1>1, Invariance, PTL

\* An emission is never planned for longer than the level can take before the
\* fan would be needed, for any target, reading and emission rate.
THEOREM EmissionStaysInMargin == Spec => []DoseWithinMargin
<1>1. IInv => DoseWithinMargin
  <2> SUFFICES ASSUME IInv, emitter PROVE
        mCO2Measurement + ExpectedEmission(period) <= mCO2Target + CO2_FAN_MARGIN
    BY DEF DoseWithinMargin
  <2> DEFINE d == mCO2Measurement - mCO2Target
             e == ExpectedEmission(period)
  <2>1. /\ mCO2Measurement \in Int /\ mCO2Target \in Int
        /\ d < 0 /\ period = EmissionPeriod(d)
    BY GreenhouseAssumption DEF IInv, TypeOK, DoseInv, NoReading
  <2>2. d \in Int /\ e \in Int
    BY <2>1, GreenhouseAssumption DEF IInv, TypeOK, ExpectedEmission
  <2>3. d + e <= CO2_FAN_MARGIN
    BY <2>1, <2>2, DoseBound
  <2> HIDE DEF e
  <2>4. mCO2Measurement + e <= mCO2Target + CO2_FAN_MARGIN
    BY <2>1, <2>2, <2>3, GreenhouseAssumption
  <2> QED
    BY <2>4 DEF e
<1> QED
  BY <1>1, Invariance, PTL

\* No target change of a user is slept on: the wake-up cannot be lost between
\* the peek and the wait (Greenhouse.cpp 46-54 with SwitchHandler.cpp 167-260).
THEOREM TargetsNoticed == Spec => []NoMissedTarget
<1>1. IInv => NoMissedTarget
  BY DEF IInv, TargetInv, NoMissedTarget
<1> QED
  BY <1>1, Invariance, PTL

\* The control loop implements DoseCycle: a step opens the valve after the CO2
\* of the last dose had its time to spread, and closes it at the end of a dose.
THEOREM ImplementsDoseCycle == Spec => DosesInCycles
<1>1. Init => Cycle!Init
  BY DEF Init, ActuatorInit, Cycle!Init, dosePhase
<1>2. ASSUME IInv, [Next]_vars PROVE [Cycle!Next]_dosePhase
  <2> USE DEF Cycle!Next, Cycle!Open, Cycle!Close, Cycle!Spread, dosePhase
  <2>1. IInv'
    BY <1>2, NextIInv
  <2>2. (emitter => pc = "emitting") /\ (emitter' <=> pc' = "emitting")
    BY <1>2, <2>1 DEF IInv, DoseInv
  <2>3. CASE Dose
    BY <1>2, <2>3 DEF Dose, PutState, IInv, DiffusionInv
  <2>4. CASE EmissionOver
    <3>1. emitter /\ ~emitter' /\ undiffused'
      BY <1>2, <2>4 DEF EmissionOver, PutState, IInv, DoseInv
    <3> QED
      BY <3>1
  <2>5. CASE Task /\ ~Dose /\ ~EmissionOver
    <3>1. CASE Actuate
      <4>1. Emergency \/ Omitted \/ Diffusing \/ Vent \/ Hold
        BY <2>5, <3>1 DEF Actuate
      <4>2. pc # "emitting" /\ pc' # "emitting" /\ undiffused' = undiffused
        BY <4>1 DEF Emergency, Omitted, Diffusing, Vent, Hold, Peek, historyVars
      <4> QED
        BY <2>2, <4>2
    <3>2. CASE EmergencyStep
      BY <2>2, <3>2 DEF EmergencyStep, EmergencyAgain, EmergencyFan,
         EmergencyRunning, EmergencyRead, EmergencySet, EmergencyOver,
         unchangedButFan, historyVars
    <3>3. CASE Start \/ UpdateSensors \/ Wake
      BY <2>2, <3>3 DEF Start, UpdateSensors, Wake, historyVars
    <3> QED
      BY <2>5, <3>1, <3>2, <3>3 DEF Task
  <2>6. CASE CO2WaitExpires
    BY <2>2, <2>6, <1>2 DEF CO2WaitExpires, unchangedByTimers
  <2>7. CASE PassiveUpdate \/ Others \/ UNCHANGED vars
    <3>1. UNCHANGED <<emitter, undiffused>>
      BY <2>7 DEF PassiveUpdate, Others, InsertTarget, OmitTarget,
         HandlerGives, StorageFills, DisplayTakes, LevelChanges, FanStops,
         RotorStops, unchangedByTimers, unchangedByOthers, vars, historyVars
    <3> QED
      BY <3>1
  <2> QED
    BY <1>2, <2>3, <2>4, <2>5, <2>6, <2>7 DEF Next
<1> QED
  BY <1>1, <1>2, Invariance, PTL DEF Spec, DosesInCycles, Cycle!Spec

\* The loss counters

LossTypeOK ==
    /\ queued \in Nat /\ lost \in Nat
    /\ increment \in [at : {"none", "load", "store"}, loaded : Nat]
    /\ patience \in {"none", "forever"}

\* A loss that is owed is still counted.
Counted == owed => lost > 0

LossInv == LossTypeOK /\ Counted /\ NeverSleepsOnLoss

LEMMA LossInvInit == LossInit => LossInv
  BY DEF LossInit, LossInv, LossTypeOK, Counted, NeverSleepsOnLoss, NotLogging

LEMMA LossInvStep == LossInv /\ [LossNext]_lossVars => LossInv'
<1> SUFFICES ASSUME LossInv, [LossNext]_lossVars
             PROVE  LossInv'
  OBVIOUS
<1> USE LossAssumption DEF LossInv, LossTypeOK, Counted, NeverSleepsOnLoss
<1>1. CASE Evaluate
  BY <1>1 DEF Evaluate
<1>2. CASE ReceiveItem
  BY <1>2 DEF ReceiveItem
<1>3. CASE FindsNone
  BY <1>3 DEF FindsNone
<1>4. CASE ReportLoss
  BY <1>4 DEF ReportLoss
<1>5. CASE ResetLost
  BY <1>5 DEF ResetLost
\* The loss finds the queue full, so that the reader has an item to come for.
<1>6. CASE ProduceItem
  BY <1>6 DEF ProduceItem
<1>7. CASE StorageLogs
  BY <1>7 DEF StorageLogs, NotLogging
<1>8. CASE LoadLost
  BY <1>8 DEF LoadLost
<1>9. CASE StoreLost
  BY <1>9 DEF StoreLost, NotLogging
<1>10. CASE UNCHANGED lossVars
  BY <1>10 DEF lossVars
<1> QED
  BY <1>1, <1>2, <1>3, <1>4, <1>5, <1>6, <1>7, <1>8, <1>9, <1>10 DEF LossNext

\* A reader never goes to sleep on a loss of an interrupt or of a task of
\* higher priority, for queues of every length and any number of losses.
THEOREM NobodySleepsOnLoss == LossSpec => []NeverSleepsOnLoss
<1>1. LossInv => NeverSleepsOnLoss
  BY DEF LossInv
<1> QED
  BY <1>1, LossInvInit, LossInvStep, PTL DEF LossSpec

-------------------------------------------------------------------------------
\* The debouncing

Pin(event) == IF event.gpio = Rotor THEN SW_ROT ELSE event.gpio

Events == [gpio : Buttons \cup {Rotor}, timeStamp : Nat, calm : BOOLEAN]

InputTypeOK ==
    /\ time_us \in Nat
    /\ qSwitchIRQ \in Seq(Events)
    /\ mPrevEventTimeMap \in [Buttons -> Nat]
    /\ lastEdge \in [Buttons -> Nat]

\* What the task remembers of a button is not after the last edge of its pin.
Remembered ==
    /\ mPrevSW_ROT = mPrevEventTimeMap[SW_ROT]
    /\ \A b \in Buttons : /\ mPrevEventTimeMap[b] <= lastEdge[b]
                          /\ lastEdge[b] <= time_us

\* A press waiting in the queue is not after the last edge of its pin.
Stamped(j) ==
    qSwitchIRQ[j].gpio # Rotor => qSwitchIRQ[j].timeStamp <= lastEdge[qSwitchIRQ[j].gpio]

\* An event that was calm is so with regard to what the task remembers, and to
\* everything it may remember by the time the event is handled.
Spaced(j) ==
    qSwitchIRQ[j].calm =>
        /\ qSwitchIRQ[j].timeStamp - mPrevEventTimeMap[Pin(qSwitchIRQ[j])] > BUTTON_DEBOUNCE
        /\ \A i \in 1..(j - 1) :
              qSwitchIRQ[i].gpio = Pin(qSwitchIRQ[j]) =>
                 qSwitchIRQ[j].timeStamp - qSwitchIRQ[i].timeStamp > BUTTON_DEBOUNCE

InputInv ==
    /\ InputTypeOK /\ Remembered /\ CalmEventCounts
    /\ \A j \in 1..Len(qSwitchIRQ) : Stamped(j) /\ Spaced(j)

LEMMA InputInvInit == InputInit => InputInv
  BY InputAssumption
     DEF InputInit, InputInv, InputTypeOK, Remembered, Stamped, Spaced, CalmEventCounts, SW_ROT

LEMMA PinIsButton == \A e \in Events : Pin(e) \in Buttons
  BY InputAssumption DEF Events, Pin

\* The queue after one more event, element by element.
LEMMA AppendedAt ==
    ASSUME NEW S, NEW q \in Seq(S), NEW e \in S
    PROVE  /\ Append(q, e) \in Seq(S)
           /\ Len(Append(q, e)) = Len(q) + 1
           /\ \A j \in 1..Len(q) : Append(q, e)[j] = q[j] /\ q[j] \in S
           /\ Append(q, e)[Len(q) + 1] = e
  OBVIOUS

LEMMA IrqHandlerInv ==
    ASSUME InputInv, NEW gpio \in Buttons \cup {Rotor}, IrqHandler(gpio)
    PROVE  InputInv'
<1> DEFINE pin == IF gpio = Rotor THEN SW_ROT ELSE gpio
           event == [gpio |-> gpio, timeStamp |-> time_us,
                     calm |-> time_us - lastEdge[pin] > BUTTON_DEBOUNCE]
           same == lastEdge' = lastEdge /\ gpio = Rotor
           set == lastEdge' = [lastEdge EXCEPT ![gpio] = time_us] /\ gpio \in Buttons
<1>t. /\ time_us \in Nat /\ BUTTON_DEBOUNCE \in Nat /\ qSwitchIRQ \in Seq(Events)
      /\ mPrevEventTimeMap \in [Buttons -> Nat] /\ lastEdge \in [Buttons -> Nat]
  BY InputAssumption DEF InputInv, InputTypeOK
<1>p. pin \in Buttons /\ (gpio # Rotor => gpio \in Buttons /\ pin = gpio)
  BY InputAssumption
<1>e. event.gpio = gpio /\ event.timeStamp = time_us /\ Pin(event) = pin
  BY DEF Pin
<1>c. event.calm => time_us - lastEdge[pin] > BUTTON_DEBOUNCE
  OBVIOUS
<1>m. event \in Events
  <2>1. event.calm \in BOOLEAN
    OBVIOUS
  <2> QED
    BY <1>t, <2>1 DEF Events
<1>1. /\ event \in Events /\ pin \in Buttons /\ Pin(event) = pin
      /\ event.gpio = gpio /\ event.timeStamp = time_us
      /\ event.calm => time_us - lastEdge[pin] > BUTTON_DEBOUNCE
      /\ gpio # Rotor => gpio \in Buttons
  BY <1>p, <1>e, <1>c, <1>m
<1>2. /\ qSwitchIRQ' = Append(qSwitchIRQ, event) \/ qSwitchIRQ' = qSwitchIRQ
      /\ same \/ set
      /\ UNCHANGED <<time_us, mPrevEventTimeMap, mPrevSW_ROT, outcome>>
  BY DEF IrqHandler
<1> HIDE DEF event, pin
<1>a. /\ Append(qSwitchIRQ, event) \in Seq(Events)
      /\ Len(Append(qSwitchIRQ, event)) = Len(qSwitchIRQ) + 1
      /\ \A j \in 1..Len(qSwitchIRQ) : /\ Append(qSwitchIRQ, event)[j] = qSwitchIRQ[j]
                                       /\ qSwitchIRQ[j] \in Events
      /\ Append(qSwitchIRQ, event)[Len(qSwitchIRQ) + 1] = event
  BY <1>t, <1>1, AppendedAt
<1>3. InputTypeOK'
  BY <1>t, <1>1, <1>2, <1>a DEF InputTypeOK
<1>5. ASSUME NEW b \in Buttons
      PROVE  /\ lastEdge[b] <= lastEdge'[b] /\ lastEdge'[b] \in Nat
             /\ lastEdge'[b] <= time_us
  <2>1. lastEdge[b] \in Nat /\ lastEdge[b] <= time_us
    BY <1>t DEF InputInv, Remembered
  <2>2. lastEdge'[b] = lastEdge[b] \/ lastEdge'[b] = time_us
    BY <1>t, <1>2
  <2> QED
    BY <1>t, <2>1, <2>2
<1>4. Remembered'
  <2>1. ASSUME NEW b \in Buttons PROVE mPrevEventTimeMap[b] <= lastEdge'[b]
    <3>1. /\ mPrevEventTimeMap[b] <= lastEdge[b]
          /\ mPrevEventTimeMap[b] \in Nat /\ lastEdge[b] \in Nat
      BY <1>t DEF InputInv, Remembered
    <3> QED
      BY <1>5, <3>1
  <2>2. mPrevSW_ROT = mPrevEventTimeMap[SW_ROT]
    BY DEF InputInv, Remembered
  <2> QED
    BY <1>2, <1>5, <2>1, <2>2 DEF Remembered
<1>6. \A j \in 1..Len(qSwitchIRQ') : Stamped(j)' /\ Spaced(j)'
  <2> SUFFICES ASSUME NEW j \in 1..Len(qSwitchIRQ')
               PROVE  Stamped(j)' /\ Spaced(j)'
    OBVIOUS
  <2>1. CASE j \in 1..Len(qSwitchIRQ)
    <3>1. /\ qSwitchIRQ'[j] = qSwitchIRQ[j] /\ qSwitchIRQ[j] \in Events
          /\ \A i \in 1..(j - 1) : qSwitchIRQ'[i] = qSwitchIRQ[i]
      <4>1. \A i \in 1..Len(qSwitchIRQ) : qSwitchIRQ'[i] = qSwitchIRQ[i]
        BY <1>a, <1>2
      <4>2. \A i \in 1..(j - 1) : i \in 1..Len(qSwitchIRQ)
        BY <1>t, <2>1
      <4> QED
        BY <1>a, <2>1, <4>1, <4>2
    <3>2. qSwitchIRQ[j].gpio # Rotor => qSwitchIRQ[j].gpio \in Buttons
      BY <3>1 DEF Events
    <3>3. qSwitchIRQ[j].timeStamp \in Nat
      BY <3>1 DEF Events
    <3>4. Stamped(j)'
      BY <1>t, <1>5, <2>1, <3>1, <3>2, <3>3 DEF InputInv, Stamped
    <3>5. Spaced(j)'
      BY <1>2, <2>1, <3>1 DEF InputInv, Spaced, Pin
    <3> QED
      BY <3>4, <3>5
  <2>2. CASE j = Len(qSwitchIRQ) + 1 /\ qSwitchIRQ' = Append(qSwitchIRQ, event)
    <3>1. qSwitchIRQ'[j] = event
      BY <1>a, <2>2
    <3>2. ASSUME NEW i \in 1..(j - 1)
          PROVE  /\ qSwitchIRQ'[i] = qSwitchIRQ[i]
                 /\ qSwitchIRQ[i].gpio = pin =>
                       /\ qSwitchIRQ[i].timeStamp <= lastEdge[pin]
                       /\ qSwitchIRQ[i].timeStamp \in Nat
      <4>1. i \in 1..Len(qSwitchIRQ)
        BY <1>t, <2>2
      <4>2. qSwitchIRQ'[i] = qSwitchIRQ[i] /\ qSwitchIRQ[i] \in Events
        BY <1>a, <2>2, <4>1
      <4>3. qSwitchIRQ[i].timeStamp \in Nat
        BY <4>2 DEF Events
      <4> QED
        BY <1>1, <4>1, <4>2, <4>3, InputAssumption DEF InputInv, Stamped
    <3>3. Stamped(j)'
      BY <1>t, <1>1, <1>2, <3>1 DEF Stamped
    <3>4. mPrevEventTimeMap[pin] <= lastEdge[pin]
      BY <1>1 DEF InputInv, Remembered
    <3>5. lastEdge[pin] \in Nat /\ mPrevEventTimeMap[pin] \in Nat
      BY <1>t, <1>1
    <3>6. event.calm => event.timeStamp - mPrevEventTimeMap'[Pin(event)] > BUTTON_DEBOUNCE
      BY <1>t, <1>1, <1>2, <3>4, <3>5
    <3>7. ASSUME event.calm, NEW i \in 1..(j - 1), qSwitchIRQ'[i].gpio = Pin(event)
          PROVE  event.timeStamp - qSwitchIRQ'[i].timeStamp > BUTTON_DEBOUNCE
      <4>1. time_us - lastEdge[pin] > BUTTON_DEBOUNCE /\ event.timeStamp = time_us
        BY <1>1, <3>7
      <4>2. /\ qSwitchIRQ[i].timeStamp <= lastEdge[pin] /\ qSwitchIRQ[i].timeStamp \in Nat
            /\ qSwitchIRQ'[i] = qSwitchIRQ[i]
        BY <1>1, <3>2, <3>7
      <4> QED
        BY <1>t, <3>5, <4>1, <4>2
    <3>8. Spaced(j)'
      BY <3>1, <3>6, <3>7 DEF Spaced, Pin
    <3> QED
      BY <3>3, <3>8
  <2> QED
    BY <1>t, <1>2, <1>a, <2>1, <2>2
<1>7. CalmEventCounts'
  BY <1>2 DEF InputInv, CalmEventCounts
<1> QED
  BY <1>3, <1>4, <1>6, <1>7 DEF InputInv

\* What is left of the queue after its head is as spaced as before, and what is
\* remembered of a pin is either as before or the stamp of the head.
LEMMA TailInv ==
    ASSUME InputInv, qSwitchIRQ # <<>>, qSwitchIRQ' = Tail(qSwitchIRQ),
           UNCHANGED <<time_us, lastEdge>>, mPrevEventTimeMap' \in [Buttons -> Nat],
           \A b \in Buttons :
               \/ mPrevEventTimeMap'[b] = mPrevEventTimeMap[b]
               \/ /\ b = Head(qSwitchIRQ).gpio
                  /\ mPrevEventTimeMap'[b] = Head(qSwitchIRQ).timeStamp,
           mPrevSW_ROT' = mPrevEventTimeMap'[SW_ROT],
           CalmEventCounts'
    PROVE  InputInv'
<1>t. /\ time_us \in Nat /\ qSwitchIRQ \in Seq(Events) /\ lastEdge \in [Buttons -> Nat]
      /\ mPrevEventTimeMap \in [Buttons -> Nat] /\ Rotor \notin Buttons
  BY InputAssumption DEF InputInv, InputTypeOK
<1>1. /\ Head(qSwitchIRQ) = qSwitchIRQ[1] /\ qSwitchIRQ[1] \in Events
      /\ 1 \in 1..Len(qSwitchIRQ)
      /\ Len(qSwitchIRQ') = Len(qSwitchIRQ) - 1 /\ qSwitchIRQ' \in Seq(Events)
      /\ \A j \in 1..Len(qSwitchIRQ') : /\ qSwitchIRQ'[j] = qSwitchIRQ[j + 1]
                                        /\ j + 1 \in 1..Len(qSwitchIRQ)
                                        /\ qSwitchIRQ[j + 1] \in Events
  BY <1>t
<1>2. Remembered'
  <2>1. ASSUME NEW b \in Buttons PROVE mPrevEventTimeMap'[b] <= lastEdge[b]
    <3>1. CASE mPrevEventTimeMap'[b] = mPrevEventTimeMap[b]
      BY <3>1 DEF InputInv, Remembered
    <3>2. CASE b = qSwitchIRQ[1].gpio /\ mPrevEventTimeMap'[b] = qSwitchIRQ[1].timeStamp
      <4>1. Stamped(1)
        BY <1>1 DEF InputInv
      <4> QED
        BY <1>t, <3>2, <4>1 DEF Stamped
    <3> QED
      BY <1>1, <3>1, <3>2
  <2> QED
    BY <2>1 DEF InputInv, Remembered
<1>3. ASSUME NEW j \in 1..Len(qSwitchIRQ')
      PROVE  Stamped(j)' /\ Spaced(j)'
  <2> DEFINE e == qSwitchIRQ[j + 1]
  <2>1. qSwitchIRQ'[j] = e /\ e \in Events /\ j + 1 \in 1..Len(qSwitchIRQ)
    BY <1>1
  <2>2. Pin(e) \in Buttons
    BY <2>1, PinIsButton
  <2>3. Stamped(j + 1) /\ Spaced(j + 1)
    BY <2>1 DEF InputInv
  <2> HIDE DEF e
  <2>4. Stamped(j)'
    BY <2>1, <2>3 DEF Stamped, e
  <2>5. e.calm => e.timeStamp - mPrevEventTimeMap'[Pin(e)] > BUTTON_DEBOUNCE
    <3> HAVE e.calm
    <3>1. e.timeStamp - mPrevEventTimeMap[Pin(e)] > BUTTON_DEBOUNCE
      BY <2>3 DEF Spaced, e
    <3>2. 1 \in 1..((j + 1) - 1)
      BY <1>t
    <3>3. qSwitchIRQ[1].gpio = Pin(e) =>
             e.timeStamp - qSwitchIRQ[1].timeStamp > BUTTON_DEBOUNCE
      BY <2>3, <3>2 DEF Spaced, e
    <3> QED
      BY <1>1, <2>2, <3>1, <3>3
  <2>6. ASSUME e.calm, NEW i \in 1..(j - 1), qSwitchIRQ'[i].gpio = Pin(e)
        PROVE  e.timeStamp - qSwitchIRQ'[i].timeStamp > BUTTON_DEBOUNCE
    <3>1. i \in 1..Len(qSwitchIRQ') /\ i + 1 \in 1..((j + 1) - 1)
      BY <1>1, <1>t
    <3>2. qSwitchIRQ'[i] = qSwitchIRQ[i + 1]
      BY <1>1, <3>1
    <3> QED
      BY <2>3, <2>6, <3>1, <3>2 DEF Spaced, e
  <2>7. Spaced(j)'
    BY <2>1, <2>5, <2>6 DEF Spaced, Pin
  <2> QED
    BY <2>4, <2>7
<1> QED
  BY <1>t, <1>1, <1>2, <1>3 DEF InputInv, InputTypeOK

LEMMA InputInvStep == InputInv /\ [InputNext]_inputVars => InputInv'
<1> SUFFICES ASSUME InputInv, [InputNext]_inputVars
             PROVE  InputInv'
  OBVIOUS
<1>1. CASE TimePasses
  BY <1>1 DEF TimePasses, InputInv, InputTypeOK, Remembered, Stamped, Spaced,
                 CalmEventCounts, Pin
<1>2. CASE RotEvent
  <2> DEFINE event == qSwitchIRQ[1]
  <2>1. Head(qSwitchIRQ) = event /\ 1 \in 1..Len(qSwitchIRQ)
    BY <1>2 DEF RotEvent, InputInv, InputTypeOK
  <2>2. event.gpio = Rotor /\ Spaced(1)
    BY <1>2, <2>1 DEF RotEvent, InputInv
  <2>3. event.calm => event.timeStamp - mPrevSW_ROT > BUTTON_DEBOUNCE
    BY <2>2 DEF InputInv, Remembered, Spaced, Pin
  <2>4. CalmEventCounts'
    BY <1>2, <2>1, <2>3 DEF RotEvent, CalmEventCounts
  <2>5. mPrevSW_ROT' = mPrevEventTimeMap'[SW_ROT] /\ mPrevEventTimeMap' = mPrevEventTimeMap
    BY <1>2 DEF RotEvent, InputInv, Remembered
  <2>6. mPrevEventTimeMap' \in [Buttons -> Nat]
    BY <2>5 DEF InputInv, InputTypeOK
  <2>7. /\ qSwitchIRQ # <<>> /\ qSwitchIRQ' = Tail(qSwitchIRQ)
        /\ UNCHANGED <<time_us, lastEdge>>
    BY <1>2 DEF RotEvent
  <2> QED
    BY <2>4, <2>5, <2>6, <2>7, TailInv
<1>3. CASE ButtonEvent
  <2> DEFINE event == qSwitchIRQ[1]
             counts == event.timeStamp - mPrevEventTimeMap[event.gpio] > BUTTON_DEBOUNCE
  <2>1. Head(qSwitchIRQ) = event /\ 1 \in 1..Len(qSwitchIRQ) /\ event \in Events
    BY <1>3 DEF ButtonEvent, InputInv, InputTypeOK
  <2>2. event.gpio \in Buttons /\ event.timeStamp \in Nat /\ event.gpio # Rotor
    BY <1>3, <2>1 DEF ButtonEvent, Events
  <2>3. Spaced(1)
    BY <2>1 DEF InputInv
  <2>4. event.calm => counts
    BY <2>2, <2>3 DEF Spaced, Pin
  <2>5. /\ outcome' = [calm |-> event.calm, counts |-> counts]
        /\ mPrevEventTimeMap' = IF counts
              THEN [mPrevEventTimeMap EXCEPT ![event.gpio] = event.timeStamp]
              ELSE mPrevEventTimeMap
        /\ mPrevSW_ROT' = IF counts /\ event.gpio = SW_ROT THEN event.timeStamp
                                                           ELSE mPrevSW_ROT
    BY <1>3, <2>1 DEF ButtonEvent, Stamp
  <2>6. CalmEventCounts'
    BY <2>4, <2>5 DEF CalmEventCounts
  <2>7. /\ mPrevEventTimeMap \in [Buttons -> Nat] /\ SW_ROT \in Buttons
        /\ mPrevSW_ROT = mPrevEventTimeMap[SW_ROT]
    BY InputAssumption DEF InputInv, InputTypeOK, Remembered
  <2> HIDE DEF event, counts
  <2>8. mPrevSW_ROT' = mPrevEventTimeMap'[SW_ROT]
    BY <2>2, <2>5, <2>7
  <2>9. mPrevEventTimeMap' \in [Buttons -> Nat]
    BY <2>2, <2>5, <2>7
  <2>10. \A b \in Buttons :
            \/ mPrevEventTimeMap'[b] = mPrevEventTimeMap[b]
            \/ b = Head(qSwitchIRQ).gpio /\ mPrevEventTimeMap'[b] = Head(qSwitchIRQ).timeStamp
    BY <2>1, <2>2, <2>5, <2>7
  <2>11. /\ qSwitchIRQ # <<>> /\ qSwitchIRQ' = Tail(qSwitchIRQ)
         /\ UNCHANGED <<time_us, lastEdge>>
    BY <1>3 DEF ButtonEvent
  <2> QED
    BY <2>6, <2>8, <2>9, <2>10, <2>11, TailInv
<1>4. ASSUME NEW gpio \in Buttons \cup {Rotor}, IrqHandler(gpio)
      PROVE  InputInv'
  BY <1>4, IrqHandlerInv
<1>5. CASE UNCHANGED inputVars
  BY <1>5 DEF inputVars, InputInv, InputTypeOK, Remembered, Stamped, Spaced,
                 CalmEventCounts, Pin
<1> QED
  BY <1>1, <1>2, <1>3, <1>4, <1>5 DEF InputNext

\* No press after a calm is taken for a bounce, no turn after one for shaking,
\* for any buttons, any debounce time and any delay of the task.
THEOREM CalmCounts == InputSpec => []CalmEventCounts
<1>1. InputInv => CalmEventCounts
  BY DEF InputInv
<1> QED
  BY <1>1, InputInvInit, InputInvStep, PTL DEF InputSpec

-------------------------------------------------------------------------------

(***************************************************************************)
(* The tables of CharMap against the order that the comment above them      *)
(* describes (src/src/taskers/SwitchHandler.cpp 300-306): the digits, the   *)
(* dot, the letters in pairs AaBb..Zz, and what is left of '!'..'~'.        *)
(* Together the theorems say that the rotor walks this order: no turn skips *)
(* or repeats a character, a turn back undoes a turn, every character can   *)
(* be reached, and only at the two ends is a turn ignored.                  *)
(***************************************************************************)

Characters == Exclamation..Tilde

\* The place of a character in the order, from 1 to 94.
Position(c) ==
    IF Zero <= c /\ c <= Nine THEN 1 + (c - Zero)
    ELSE IF c = Dot THEN 11
    ELSE IF isupper(c) THEN 12 + 2 * (c - UpperA)
    ELSE IF islower(c) THEN 13 + 2 * (c - LowerA)
    ELSE IF c <= Minus THEN 64 + (c - Exclamation)
    ELSE IF c = Slash THEN 77
    ELSE IF c <= At THEN 78 + (c - Colon)
    ELSE IF c <= Backtick THEN 85 + (c - OpenBracket)
    ELSE 91 + (c - OpenBrace)

USE DEF Exclamation, Minus, Dot, Slash, Zero, Nine, Colon, At, UpperA, UpperZ,
        OpenBracket, Backtick, LowerA, LowerZ, OpenBrace, Tilde

LEMMA IncTable ==
    /\ DOMAIN incTable = {Nine, Dot, LowerZ, Minus, Slash, At, Backtick, Tilde}
    /\ incTable[Nine] = Dot
    /\ incTable[Dot] = UpperA
    /\ incTable[LowerZ] = Exclamation
    /\ incTable[Minus] = Slash
    /\ incTable[Slash] = Colon
    /\ incTable[At] = OpenBracket
    /\ incTable[Backtick] = OpenBrace
    /\ incTable[Tilde] = Tilde
BY DEF incTable

LEMMA DecTable ==
    /\ DOMAIN decTable = {Zero, Dot, UpperA, Exclamation, Slash, Colon,
                          OpenBracket, OpenBrace}
    /\ decTable[Zero] = Zero
    /\ decTable[Dot] = Nine
    /\ decTable[UpperA] = Dot
    /\ decTable[Exclamation] = LowerZ
    /\ decTable[Slash] = Minus
    /\ decTable[Colon] = Slash
    /\ decTable[OpenBracket] = At
    /\ decTable[OpenBrace] = Backtick
BY DEF decTable

\* The places are 1 to 94, each of one character (SwitchHandler.cpp:300-306).
THEOREM PlacesDiffer ==
    /\ \A c \in Characters : Position(c) \in 1..94
    /\ \A c, d \in Characters : Position(c) = Position(d) => c = d
BY DEF Characters, Position, isupper, islower

\* A turn clockwise goes one place on, and is ignored at the tilde
\* (inc_pending_char, SwitchHandler.cpp:309-344).
THEOREM IncFollowsOrder ==
    ASSUME NEW c \in Characters
    PROVE  /\ inc_pending_char(c) \in Characters
           /\ IF c = Tilde THEN inc_pending_char(c) = c
              ELSE Position(inc_pending_char(c)) = Position(c) + 1
<1>1. CASE isupper(c) \/ (islower(c) /\ c # LowerZ)
  BY <1>1 DEF Characters, Position, inc_pending_char, isupper, islower, toupper,
              tolower
<1>2. CASE c \in DOMAIN incTable
  BY <1>2, IncTable DEF Characters, Position, inc_pending_char, isupper, islower
<1>3. CASE /\ ~isupper(c) /\ ~(islower(c) /\ c # LowerZ)
           /\ c \notin DOMAIN incTable
  <2>1. inc_pending_char(c) = c + 1
    BY <1>3 DEF inc_pending_char
  <2> QED
    BY <2>1, <1>3, IncTable DEF Characters, Position, isupper, islower
<1> QED BY <1>1, <1>2, <1>3

\* A turn the other way goes one place back, and is ignored at the zero
\* (dec_pending_char, SwitchHandler.cpp:347-382).
THEOREM DecFollowsOrder ==
    ASSUME NEW c \in Characters
    PROVE  /\ dec_pending_char(c) \in Characters
           /\ IF c = Zero THEN dec_pending_char(c) = c
              ELSE Position(dec_pending_char(c)) = Position(c) - 1
<1>1. CASE islower(c) \/ (isupper(c) /\ c # UpperA)
  BY <1>1 DEF Characters, Position, dec_pending_char, isupper, islower, toupper,
              tolower
<1>2. CASE c \in DOMAIN decTable
  BY <1>2, DecTable DEF Characters, Position, dec_pending_char, isupper, islower
<1>3. CASE /\ ~islower(c) /\ ~(isupper(c) /\ c # UpperA)
           /\ c \notin DOMAIN decTable
  <2>1. dec_pending_char(c) = c - 1
    BY <1>3 DEF dec_pending_char
  <2> QED
    BY <2>1, <1>3, DecTable DEF Characters, Position, isupper, islower
<1> QED BY <1>1, <1>2, <1>3

\* A turn back undoes a turn, except at the ends.
THEOREM TurnsUndoEachOther ==
    ASSUME NEW c \in Characters
    PROVE  /\ c # Tilde => dec_pending_char(inc_pending_char(c)) = c
           /\ c # Zero => inc_pending_char(dec_pending_char(c)) = c
<1>1. ASSUME c # Tilde PROVE dec_pending_char(inc_pending_char(c)) = c
  <2> DEFINE d == inc_pending_char(c)
  <2>1. d \in Characters /\ Position(d) = Position(c) + 1
    BY <1>1, IncFollowsOrder
  <2>2. Position(c) \in 1..94 /\ Position(d) \in 1..94
    BY <2>1, PlacesDiffer
  <2>3. d # Zero
    BY <2>1, <2>2 DEF Position
  <2>4. dec_pending_char(d) \in Characters /\ Position(dec_pending_char(d)) = Position(d) - 1
    BY <2>1, <2>3, DecFollowsOrder
  <2>5. Position(dec_pending_char(d)) = Position(c)
    BY <2>1, <2>2, <2>4
  <2> QED BY <2>4, <2>5, PlacesDiffer
<1>2. ASSUME c # Zero PROVE inc_pending_char(dec_pending_char(c)) = c
  <2> DEFINE d == dec_pending_char(c)
  <2>1. d \in Characters /\ Position(d) = Position(c) - 1
    BY <1>2, DecFollowsOrder
  <2>2. Position(c) \in 1..94 /\ Position(d) \in 1..94
    BY <2>1, PlacesDiffer
  <2>3. d # Tilde
    BY <2>1, <2>2 DEF Position, isupper, islower
  <2>4. inc_pending_char(d) \in Characters /\ Position(inc_pending_char(d)) = Position(d) + 1
    BY <2>1, <2>3, IncFollowsOrder
  <2>5. Position(inc_pending_char(d)) = Position(c)
    BY <2>1, <2>2, <2>4
  <2> QED BY <2>4, <2>5, PlacesDiffer
<1> QED BY <1>1, <1>2

-------------------------------------------------------------------------------
\* The ring of the network client

\* The place n further on.
Around(index, n) == (index + n) % BUF_SIZE

ReadPlaces == {"idle", "waiting", "first", "subtract first", "rest", "subtract rest"}

NetTypes ==
    /\ ring \in [0..(BUF_SIZE - 1) -> Nat]
    /\ count \in 0..BUF_SIZE /\ rd \in 0..(BUF_SIZE - 1) /\ wr \in 0..(BUF_SIZE - 1)
    /\ reading \in [at : ReadPlaces, len : Nat, first_copy : Nat, bytes_to_copy : Nat,
                    loaded : Nat]
    /\ got \in Seq(Nat) /\ kept \in Seq(Nat) /\ sent \in Nat /\ torn \in BOOLEAN

\* Whatever is added in between, a read takes no more than the count says: the count
\* only grows while it reads.
ReadInBounds ==
    /\ reading.at = "first" =>
          /\ reading.first_copy = BUF_SIZE - rd
          /\ reading.first_copy < reading.bytes_to_copy /\ reading.bytes_to_copy <= count
    /\ reading.at = "subtract first" =>
          /\ reading.first_copy = BUF_SIZE - rd
          /\ reading.first_copy + reading.bytes_to_copy <= reading.loaded
          /\ reading.loaded <= count
    /\ reading.at = "rest" =>
          /\ reading.bytes_to_copy <= count
          /\ reading.first_copy = 0 => rd + reading.bytes_to_copy <= BUF_SIZE
    /\ reading.at = "subtract rest" =>
          /\ reading.bytes_to_copy <= reading.loaded /\ reading.loaded <= count

\* How many of the kept bytes are read and no more counted.
Uncounted == IF reading.at \in {"rest", "subtract rest"} THEN reading.first_copy ELSE 0

\* From a place on, the ring holds the rest of what was kept.
HoldsFrom(P) ==
    /\ Len(kept) = Uncounted + count
    /\ \A i \in 1..count : ring[Around(P, i - 1)] = kept[Uncounted + i]
    /\ wr = Around(P, count)

\* Where that place is.
OldestIs(P) ==
    /\ reading.at \notin {"rest", "subtract rest"} => P = rd
    /\ reading.at = "rest" => P = IF reading.first_copy > 0 THEN 0 ELSE rd
    /\ reading.at = "subtract rest" => rd = Around(P, reading.bytes_to_copy)

RingOK == \E P \in 0..(BUF_SIZE - 1) : HoldsFrom(P) /\ OldestIs(P)

\* What was copied is the oldest of what was kept, and the count loaded is still right.
GotOK ==
    /\ reading.at \in {"waiting", "first"} => got = <<>>
    /\ reading.at \in {"subtract first", "rest"} => Len(got) = reading.first_copy
    /\ reading.at = "subtract rest" => Len(got) = reading.first_copy + reading.bytes_to_copy
    /\ reading.at \in {"subtract first", "rest", "subtract rest"} =>
          Len(got) <= Len(kept) /\ \A i \in 1..Len(got) : got[i] = kept[i]
    /\ reading.at \in {"subtract first", "subtract rest"} => reading.loaded = count

NetInv == NetTypes /\ ReadInBounds /\ (~torn => RingOK /\ GotOK)

LEMMA RoundOnce ==
    ASSUME NEW L \in Nat \ {0}, NEW n \in Nat, n < 2 * L
    PROVE  n % L = IF n < L THEN n ELSE n - L
<1>1. CASE n < L
  BY <1>1, Z3
<1>2. CASE n >= L
  <2>1. n = L + (n - L) /\ n - L \in 0..(L - 1)
    BY <1>2
  <2> QED
    BY <1>2, <2>1, Z3
<1> QED
  BY <1>1, <1>2

LEMMA AroundFacts ==
    ASSUME IPStackParameters, NEW index \in 0..(BUF_SIZE - 1), NEW n \in 0..BUF_SIZE
    PROVE  /\ index + n < BUF_SIZE => Around(index, n) = index + n
           /\ index + n >= BUF_SIZE => Around(index, n) = index + n - BUF_SIZE
           /\ Around(index, n) \in 0..(BUF_SIZE - 1)
<1> DEFINE sum == index + n
<1>1. BUF_SIZE \in Nat \ {0} /\ sum \in Nat /\ sum < 2 * BUF_SIZE
  BY DEF IPStackParameters
<1>2. Around(index, n) = sum % BUF_SIZE
  BY DEF Around
<1> HIDE DEF sum
<1>3. sum % BUF_SIZE = IF sum < BUF_SIZE THEN sum ELSE sum - BUF_SIZE
  BY <1>1, RoundOnce
<1>4. CASE sum < BUF_SIZE
  BY <1>1, <1>2, <1>3, <1>4 DEF sum
<1>5. CASE sum >= BUF_SIZE
  BY <1>1, <1>2, <1>3, <1>5 DEF sum
<1> QED
  BY <1>1, <1>4, <1>5

LEMMA AroundTwice ==
    ASSUME IPStackParameters, NEW index \in 0..(BUF_SIZE - 1), NEW m \in 0..BUF_SIZE,
           NEW n \in 0..(BUF_SIZE - m)
    PROVE  Around(Around(index, m), n) = Around(index, m + n)
<1>1. BUF_SIZE \in Nat \ {0} /\ m + n \in 0..BUF_SIZE /\ n \in 0..BUF_SIZE
  BY DEF IPStackParameters
<1> DEFINE once == Around(index, m)
           twice == Around(once, n)
           sum == Around(index, m + n)
<1>2. /\ index + m < BUF_SIZE => once = index + m
      /\ index + m >= BUF_SIZE => once = index + m - BUF_SIZE
      /\ once \in 0..(BUF_SIZE - 1)
  BY <1>1, AroundFacts
<1>3. /\ index + (m + n) < BUF_SIZE => sum = index + (m + n)
      /\ index + (m + n) >= BUF_SIZE => sum = index + (m + n) - BUF_SIZE
      /\ sum \in 0..(BUF_SIZE - 1)
  BY <1>1, AroundFacts
<1> HIDE DEF once
<1>4. /\ once + n < BUF_SIZE => twice = once + n
      /\ once + n >= BUF_SIZE => twice = once + n - BUF_SIZE
      /\ twice \in 0..(BUF_SIZE - 1)
  BY <1>1, <1>2, AroundFacts
<1> HIDE DEF twice, sum
<1>5. twice = sum
  BY <1>1, <1>2, <1>3, <1>4
<1> QED
  BY <1>5 DEF once, twice, sum

\* From the other side of what is held.
LEMMA AroundBack ==
    ASSUME IPStackParameters, NEW P \in 0..(BUF_SIZE - 1), NEW n \in 0..BUF_SIZE,
           NEW i \in 1..n
    PROVE  Around(Around(P, n), BUF_SIZE - n + (i - 1)) = Around(P, i - 1)
<1> DEFINE k == BUF_SIZE - n + (i - 1)
           w == Around(P, n)
           l == Around(w, k)
           r == Around(P, i - 1)
<1>1. BUF_SIZE \in Nat \ {0} /\ k \in 0..BUF_SIZE /\ i - 1 \in 0..BUF_SIZE
  BY DEF IPStackParameters
<1>2. /\ P + n < BUF_SIZE => w = P + n
      /\ P + n >= BUF_SIZE => w = P + n - BUF_SIZE
      /\ w \in 0..(BUF_SIZE - 1)
  BY <1>1, AroundFacts
<1>3. /\ P + (i - 1) < BUF_SIZE => r = P + (i - 1)
      /\ P + (i - 1) >= BUF_SIZE => r = P + (i - 1) - BUF_SIZE
  BY <1>1, AroundFacts
<1> HIDE DEF w
<1>4. /\ w + k < BUF_SIZE => l = w + k
      /\ w + k >= BUF_SIZE => l = w + k - BUF_SIZE
  <2> HIDE DEF k
  <2> QED
    BY <1>1, <1>2, AroundFacts
<1> HIDE DEF l, r
<1>5. l = r
  BY <1>1, <1>2, <1>3, <1>4
<1> QED
  BY <1>5 DEF k, w, l, r

\* What of a segment of n bytes is kept, and the ring with it.
Accepted(n) == SmallerOf(n, Room)
Begin(n) == IF FirstCopy(Accepted(n)) > 0 THEN 0 ELSE wr
RingWith(n) ==
    CopiedIn(CopiedIn(ring, wr, NewBytes(n), 0, FirstCopy(Accepted(n))), Begin(n), NewBytes(n),
             FirstCopy(Accepted(n)), Accepted(n) - FirstCopy(Accepted(n)))

LEMMA ByteFacts ==
    ASSUME IPStackParameters, NetTypes, NEW n \in Nat
    PROVE  NewBytes(n) \in [1..n -> Nat]
<1>1. \A i \in 1..n : (sent + i) % Alphabet \in Nat
  BY DEF IPStackParameters, NetTypes
<1> QED
  BY <1>1 DEF NewBytes

LEMMA AcceptedFacts ==
    ASSUME IPStackParameters, NetTypes, NEW n \in Nat
    PROVE  /\ Accepted(n) \in 0..n /\ count + Accepted(n) \in 0..BUF_SIZE
           /\ Accepted(n) \in 0..BUF_SIZE
           /\ wr + Accepted(n) > BUF_SIZE => FirstCopy(Accepted(n)) = BUF_SIZE - wr
           /\ wr + Accepted(n) <= BUF_SIZE => FirstCopy(Accepted(n)) = 0
<1> DEFINE a == Accepted(n)
<1>1. BUF_SIZE \in Nat \ {0} /\ count \in 0..BUF_SIZE /\ wr \in 0..(BUF_SIZE - 1)
  BY DEF IPStackParameters, NetTypes
<1>2. a = IF n < BUF_SIZE - count THEN n ELSE BUF_SIZE - count
  BY DEF Accepted, SmallerOf, Room
<1>3. FirstCopy(a) = IF wr + a > BUF_SIZE THEN BUF_SIZE - wr ELSE 0
  BY DEF FirstCopy
<1> HIDE DEF a
<1>4. a \in 0..n /\ count + a \in 0..BUF_SIZE /\ a \in 0..BUF_SIZE
  BY <1>1, <1>2
<1>5. /\ wr + a > BUF_SIZE => FirstCopy(a) = BUF_SIZE - wr
      /\ wr + a <= BUF_SIZE => FirstCopy(a) = 0
  BY <1>1, <1>3, <1>4
<1> QED
  BY <1>4, <1>5 DEF a

LEMMA CopiedInFacts ==
    ASSUME NEW b \in [0..(BUF_SIZE - 1) -> Nat], NEW place, NEW bytes, NEW offset, NEW n
    PROVE  \A i \in 0..(BUF_SIZE - 1) :
              /\ i >= place /\ i < place + n =>
                    CopiedIn(b, place, bytes, offset, n)[i] = bytes[offset + i - place + 1]
              /\ ~(i >= place /\ i < place + n) => CopiedIn(b, place, bytes, offset, n)[i] = b[i]
  BY Zenon DEF CopiedIn

\* What is accepted is behind the write index, wherever it wraps around, and all else is
\* as it was.
LEMMA RingWithFacts ==
    ASSUME IPStackParameters, NetTypes, NEW n \in Nat
    PROVE  /\ RingWith(n) \in [0..(BUF_SIZE - 1) -> Nat]
           /\ \A i \in 0..(BUF_SIZE - 1) : i < Accepted(n) =>
                 RingWith(n)[Around(wr, i)] = NewBytes(n)[i + 1]
           /\ \A i \in 0..(BUF_SIZE - 1) : i >= Accepted(n) =>
                 RingWith(n)[Around(wr, i)] = ring[Around(wr, i)]
           /\ (Begin(n) + Accepted(n) - FirstCopy(Accepted(n))) % BUF_SIZE = Around(wr, Accepted(n))
<1> DEFINE a == Accepted(n)
           f == FirstCopy(a)
           bytes == NewBytes(n)
           begin == Begin(n)
           part == CopiedIn(ring, wr, bytes, 0, f)
           whole == CopiedIn(part, begin, bytes, f, a - f)
<1>1. /\ BUF_SIZE \in Nat \ {0} /\ wr \in 0..(BUF_SIZE - 1)
      /\ ring \in [0..(BUF_SIZE - 1) -> Nat] /\ bytes \in [1..n -> Nat]
  BY ByteFacts DEF IPStackParameters, NetTypes
<1>2. /\ a \in 0..n /\ a \in 0..BUF_SIZE
      /\ wr + a > BUF_SIZE => f = BUF_SIZE - wr
      /\ wr + a <= BUF_SIZE => f = 0
  BY AcceptedFacts
<1>3. begin = IF f > 0 THEN 0 ELSE wr
  BY DEF Begin
<1>4. RingWith(n) = whole
  BY DEF RingWith
<1> HIDE DEF a, bytes
<1>5. part = [i \in 0..(BUF_SIZE - 1) |->
                IF i >= wr /\ i < wr + f THEN bytes[0 + i - wr + 1] ELSE ring[i]]
  BY <1>1, Zenon DEF CopiedIn
<1>6. whole = [i \in 0..(BUF_SIZE - 1) |->
                 IF i >= begin /\ i < begin + (a - f) THEN bytes[f + i - begin + 1] ELSE part[i]]
  BY <1>5, Zenon DEF CopiedIn
<1> HIDE DEF part, whole, begin, f
<1>7. ASSUME NEW i \in 0..(BUF_SIZE - 1)
      PROVE  /\ Around(wr, i) \in 0..(BUF_SIZE - 1)
             /\ i < a => whole[Around(wr, i)] = bytes[i + 1] /\ i + 1 \in 1..n
             /\ i >= a => whole[Around(wr, i)] = ring[Around(wr, i)]
  <2> DEFINE p == Around(wr, i)
  <2>1. i \in 0..BUF_SIZE
    BY <1>1
  <2>2. /\ wr + i < BUF_SIZE => p = wr + i
        /\ wr + i >= BUF_SIZE => p = wr + i - BUF_SIZE
        /\ p \in 0..(BUF_SIZE - 1)
    BY <1>1, <2>1, AroundFacts
  <2> HIDE DEF p
  <2>3. part[p] = IF p >= wr /\ p < wr + f THEN bytes[0 + p - wr + 1] ELSE ring[p]
    BY <1>5, <2>2
  <2>4. whole[p] = IF p >= begin /\ p < begin + (a - f) THEN bytes[f + p - begin + 1] ELSE part[p]
    BY <1>6, <2>2
  <2>5. CASE wr + a > BUF_SIZE
    <3>1. f = BUF_SIZE - wr /\ begin = 0 /\ f > 0
      BY <1>1, <1>2, <1>3, <2>5
    <3>2. CASE wr + i < BUF_SIZE
      <4>1. p = wr + i /\ p >= wr /\ p < wr + f /\ 0 + p - wr + 1 = i + 1 /\ i < a
            /\ ~(p >= begin /\ p < begin + (a - f))
        BY <1>1, <1>2, <2>2, <2>5, <3>1, <3>2
      <4> QED
        BY <1>2, <2>2, <2>3, <2>4, <4>1 DEF p
    <3>3. CASE wr + i >= BUF_SIZE
      <4>1. /\ p = wr + i - BUF_SIZE /\ p < wr /\ p >= begin /\ f + p - begin + 1 = i + 1
            /\ p < begin + (a - f) <=> i < a
        BY <1>1, <1>2, <2>2, <2>5, <3>1, <3>3
      <4>2. i < a => whole[p] = bytes[i + 1] /\ i + 1 \in 1..n
        BY <1>1, <1>2, <2>4, <4>1
      <4>3. i >= a => whole[p] = ring[p]
        <5>1. i >= a => ~(i < a)
          BY <1>1, <1>2
        <5>2. ~(p >= wr)
          BY <1>1, <2>2, <4>1
        <5> QED
          BY <2>3, <2>4, <4>1, <5>1, <5>2
      <4> QED
        BY <2>2, <4>2, <4>3 DEF p
    <3> QED
      BY <1>1, <3>2, <3>3
  <2>6. CASE wr + a <= BUF_SIZE
    <3>1. f = 0 /\ begin = wr
      BY <1>1, <1>2, <1>3, <2>6
    <3>2. part[p] = ring[p]
      <4>1. ~(p >= wr /\ p < wr + f)
        BY <1>1, <2>2, <3>1
      <4> QED
        BY <2>3, <4>1
    <3>3. CASE i < a
      <4>1. p >= begin /\ p < begin + (a - f) /\ f + p - begin + 1 = i + 1 /\ i + 1 \in 1..n
        BY <1>1, <1>2, <2>2, <2>6, <3>1, <3>3
      <4>2. ~(i >= a)
        BY <1>1, <1>2, <3>3
      <4> QED
        BY <2>2, <2>4, <4>1, <4>2 DEF p
    <3>4. CASE i >= a
      <4>1. ~(p >= begin /\ p < begin + (a - f))
        BY <1>1, <1>2, <2>2, <2>6, <3>1, <3>4
      <4>2. ~(i < a)
        BY <1>1, <1>2, <3>4
      <4> QED
        BY <2>2, <2>4, <3>2, <4>1, <4>2 DEF p
    <3> QED
      BY <1>1, <1>2, <3>3, <3>4
  <2> QED
    BY <1>1, <1>2, <2>5, <2>6
<1>8. (begin + a - f) % BUF_SIZE = Around(wr, a)
  <2>1. CASE wr + a > BUF_SIZE
    <3>1. begin + a - f = wr + a - BUF_SIZE /\ wr + a - BUF_SIZE \in 0..(BUF_SIZE - 1)
      BY <1>1, <1>2, <1>3, <2>1
    <3>2. Around(wr, a) = wr + a - BUF_SIZE
      BY <1>1, <1>2, <2>1, AroundFacts
    <3>3. \A k \in 0..(BUF_SIZE - 1) : k % BUF_SIZE = k
      <4> TAKE k \in 0..(BUF_SIZE - 1)
      <4>1. k \in Nat /\ k < 2 * BUF_SIZE /\ k < BUF_SIZE
        BY <1>1
      <4> QED
        BY <1>1, <4>1, RoundOnce
    <3> DEFINE k == wr + a - BUF_SIZE
    <3>4. begin + a - f = k /\ k \in 0..(BUF_SIZE - 1) /\ Around(wr, a) = k
      BY <3>1, <3>2
    <3> HIDE DEF k
    <3> QED
      BY <3>3, <3>4
  <2>2. CASE wr + a <= BUF_SIZE
    <3>1. begin + a - f = wr + a
      BY <1>1, <1>2, <1>3, <2>2
    <3> QED
      BY <3>1 DEF Around
  <2> QED
    BY <1>1, <1>2, <2>1, <2>2
<1>9. whole \in [0..(BUF_SIZE - 1) -> Nat]
  <2>1. ASSUME NEW i \in 0..(BUF_SIZE - 1)
        PROVE  whole[i] \in Nat
    <3>1. PICK j \in 0..(BUF_SIZE - 1) : i = Around(wr, j)
      <4> DEFINE j == IF i >= wr THEN i - wr ELSE BUF_SIZE - wr + i
      <4>1. j \in 0..(BUF_SIZE - 1) /\ j \in 0..BUF_SIZE
        BY <1>1
      <4>2. wr + j < BUF_SIZE => i = wr + j
        BY <1>1
      <4>3. wr + j >= BUF_SIZE => i = wr + j - BUF_SIZE
        BY <1>1
      <4> HIDE DEF j
      <4>4. i = Around(wr, j)
        <5>1. /\ wr + j < BUF_SIZE => Around(wr, j) = wr + j
              /\ wr + j >= BUF_SIZE => Around(wr, j) = wr + j - BUF_SIZE
          BY <1>1, <4>1, AroundFacts
        <5>2. wr + j < BUF_SIZE \/ wr + j >= BUF_SIZE
          BY <1>1, <4>1
        <5> QED
          BY <4>2, <4>3, <5>1, <5>2
      <4> QED
        BY <4>1, <4>4
    <3>2. j < a \/ j >= a
      BY <1>1, <1>2
    <3>3. j < a => whole[i] = bytes[j + 1] /\ j + 1 \in 1..n
      BY <1>7, <3>1
    <3>4. j >= a => whole[i] = ring[i]
      BY <1>7, <3>1
    <3> QED
      BY <1>1, <3>2, <3>3, <3>4
  <2> QED
    BY <1>6, <2>1
<1>10. RingWith(n) = whole /\ a = Accepted(n) /\ bytes = NewBytes(n) /\ begin = Begin(n) /\ f = FirstCopy(a)
  BY <1>4 DEF a, bytes, begin, f
<1> QED
  BY <1>7, <1>8, <1>9, <1>10

LEMMA NetInitInv == IPStackParameters /\ IPStackInit => NetInv
<1> SUFFICES ASSUME IPStackParameters, IPStackInit PROVE NetInv
  OBVIOUS
<1>1. BUF_SIZE \in Nat \ {0} /\ 0 \in 0..(BUF_SIZE - 1) /\ 0 \in 0..BUF_SIZE
  BY DEF IPStackParameters
<1>2. NetTypes
  BY <1>1 DEF IPStackInit, NetTypes, NotReading, ReadPlaces
<1>3. ReadInBounds
  BY DEF IPStackInit, ReadInBounds, NotReading
<1>4. RingOK
  <2>1. Around(0, 0) = 0
    BY <1>1, AroundFacts
  <2>2. HoldsFrom(0)
    BY <2>1 DEF HoldsFrom, Uncounted, IPStackInit, NotReading
  <2>3. OldestIs(0)
    BY DEF OldestIs, IPStackInit, NotReading
  <2> QED
    BY <1>1, <2>2, <2>3 DEF RingOK
<1>5. GotOK
  BY DEF IPStackInit, GotOK, NotReading
<1> QED
  BY <1>2, <1>3, <1>4, <1>5 DEF NetInv

\* Two sequences, one behind the other.
LEMMA BehindFacts ==
    ASSUME NEW front \in Seq(Nat), NEW back \in Seq(Nat)
    PROVE  /\ front \o back \in Seq(Nat) /\ Len(front \o back) = Len(front) + Len(back)
           /\ \A i \in 1..Len(front) : (front \o back)[i] = front[i]
           /\ \A i \in 1..Len(back) : (front \o back)[Len(front) + i] = back[i]
  OBVIOUS

LEMMA FirstFacts ==
    ASSUME NEW n \in Nat, NEW bytes \in [1..n -> Nat], NEW a \in 0..n
    PROVE  /\ SubSeq(bytes, 1, a) \in Seq(Nat) /\ Len(SubSeq(bytes, 1, a)) = a
           /\ \A i \in 1..a : SubSeq(bytes, 1, a)[i] = bytes[i]
<1>1. a \in Nat /\ a <= n /\ \A i \in 1..a : bytes[i] \in Nat
  OBVIOUS
<1> DEFINE part == SubSeq(bytes, 1, a)
<1>2. part = [i \in 1..a |-> bytes[i]]
  BY <1>1
<1> QED
  BY <1>1, <1>2

\* A segment comes in, whatever the reader does.
LEMMA ReceiveStep ==
    ASSUME IPStackParameters, NetInv, NEW n \in Nat, Receive(n)
    PROVE  NetInv'
<1> USE DEF NetInv
<1> DEFINE a == Accepted(n)
           bytes == NewBytes(n)
           whole == RingWith(n)
<1>1. /\ ring' = whole /\ count' = count + a
      /\ wr' = (Begin(n) + a - FirstCopy(a)) % BUF_SIZE
      /\ sent' = (sent + n) % Alphabet
      /\ torn' = (torn \/ (a > 0 /\ reading.at \in {"subtract first", "subtract rest"}))
      /\ kept' = IF torn' THEN <<>> ELSE kept \o SubSeq(bytes, 1, a)
      /\ rd' = rd /\ reading' = reading /\ got' = got
  BY DEF Receive, Accepted, Begin, RingWith
<1>2. /\ BUF_SIZE \in Nat \ {0} /\ count \in 0..BUF_SIZE /\ wr \in 0..(BUF_SIZE - 1)
      /\ rd \in 0..(BUF_SIZE - 1) /\ kept \in Seq(Nat) /\ got \in Seq(Nat) /\ torn \in BOOLEAN
      /\ reading \in [at : ReadPlaces, len : Nat, first_copy : Nat, bytes_to_copy : Nat, loaded : Nat]
  BY DEF IPStackParameters, NetTypes
<1>3. /\ a \in 0..n /\ a \in 0..BUF_SIZE /\ count + a \in 0..BUF_SIZE
      /\ bytes \in [1..n -> Nat]
  BY AcceptedFacts, ByteFacts
<1>4. /\ whole \in [0..(BUF_SIZE - 1) -> Nat]
      /\ \A i \in 0..(BUF_SIZE - 1) : i < a => whole[Around(wr, i)] = bytes[i + 1]
      /\ \A i \in 0..(BUF_SIZE - 1) : i >= a => whole[Around(wr, i)] = ring[Around(wr, i)]
      /\ wr' = Around(wr, a)
  <2>1. (Begin(n) + a - FirstCopy(a)) % BUF_SIZE = Around(wr, a)
    BY RingWithFacts
  <2> QED
    BY <1>1, <2>1, RingWithFacts
<1>5. wr' \in 0..(BUF_SIZE - 1)
  BY <1>2, <1>3, <1>4, AroundFacts
<1> DEFINE new == SubSeq(bytes, 1, a)
<1>6. new \in Seq(Nat) /\ Len(new) = a /\ \A i \in 1..a : new[i] = bytes[i]
  BY <1>3, FirstFacts
<1> HIDE DEF a, bytes, whole, new
<1>c. /\ count' = count + a /\ count \in 0..BUF_SIZE /\ a \in 0..BUF_SIZE /\ BUF_SIZE \in Nat
      /\ count + a <= BUF_SIZE
  <2>1. count' = count + a
    BY <1>1
  <2> QED
    BY <1>2, <1>3, <2>1
<1>r. reading' = reading /\ rd' = rd /\ got' = got
  BY <1>1
<1>t. torn' = (torn \/ (a > 0 /\ reading.at \in {"subtract first", "subtract rest"}))
  BY <1>1
<1>w. ring' = whole
  BY <1>1
<1>7. sent' \in Nat
  <2>1. sent + n \in Nat /\ Alphabet \in Nat \ {0}
    BY DEF IPStackParameters, NetTypes
  <2>2. sent' = (sent + n) % Alphabet
    BY <1>1
  <2> DEFINE sum == sent + n
  <2> HIDE DEF sum
  <2>3. sum % Alphabet \in Nat
    BY <2>1 DEF sum
  <2> QED
    BY <2>2, <2>3 DEF sum
<1>8. kept' = IF torn' THEN <<>> ELSE kept \o new
  BY <1>1 DEF new
<1>9. kept' \in Seq(Nat)
  <2>1. kept \o new \in Seq(Nat) /\ <<>> \in Seq(Nat)
    BY <1>2, <1>6, BehindFacts
  <2> QED
    BY <1>8, <2>1
<1>10. NetTypes'
  <2>1. torn' \in BOOLEAN
    BY <1>2, <1>t
  <2>2. count' \in 0..BUF_SIZE
    BY <1>c
  <2> QED
    BY <1>1, <1>2, <1>4, <1>5, <1>7, <1>9, <2>1, <2>2 DEF NetTypes
<1>11. ReadInBounds'
  <2> DEFINE b == reading.bytes_to_copy
             l == reading.loaded
  <2>1. b \in Nat /\ l \in Nat /\ count <= count' /\ count \in Nat /\ count' \in Nat
    BY <1>2, <1>c
  <2>2. (b <= count => b <= count') /\ (l <= count => l <= count')
    <3> HIDE DEF b, l
    <3> QED
      BY <2>1
  <2> QED
    BY <1>1, <2>2 DEF ReadInBounds
<1>12. ASSUME ~torn'
       PROVE  RingOK' /\ GotOK'
  <2>1. ~torn /\ (a = 0 \/ reading.at \notin {"subtract first", "subtract rest"})
    <3>1. ~torn /\ ~(a > 0 /\ reading.at \in {"subtract first", "subtract rest"})
      BY <1>t, <1>12, Zenon
    <3>2. a > 0 \/ a = 0
      BY <1>c
    <3> QED
      BY <3>1, <3>2
  <2>2. PICK P \in 0..(BUF_SIZE - 1) : HoldsFrom(P) /\ OldestIs(P)
    BY <2>1 DEF RingOK
  <2> DEFINE d == Uncounted
  <2>3. d \in Nat /\ d' = d
    BY <1>1, <1>2 DEF Uncounted
  <2>4. /\ Len(kept) = d + count /\ wr = Around(P, count)
        /\ \A i \in 1..count : ring[Around(P, i - 1)] = kept[d + i]
    BY <2>2 DEF HoldsFrom
  <2>5. /\ kept' = kept \o new /\ Len(kept') = Len(kept) + Len(new)
        /\ \A i \in 1..Len(kept) : kept'[i] = kept[i]
        /\ \A i \in 1..Len(new) : kept'[Len(kept) + i] = new[i]
    <3>1. kept' = kept \o new
      BY <1>8, <1>12
    <3> QED
      BY <1>2, <1>6, <3>1, BehindFacts
  <2> HIDE DEF d
  <2>6. Len(kept') = d + count'
    BY <1>6, <1>c, <2>3, <2>4, <2>5
  <2>7. wr' = Around(P, count')
    <3>1. a \in 0..(BUF_SIZE - count)
      BY <1>2, <1>3
    <3> QED
      BY <1>1, <1>2, <1>4, <2>4, <3>1, AroundTwice
  <2>8. ASSUME NEW i \in 1..count'
        PROVE  whole[Around(P, i - 1)] = kept'[d + i]
    <3>1. CASE i <= count
      <4> DEFINE k == BUF_SIZE - count + (i - 1)
      <4>1. i \in 1..count /\ k \in 0..(BUF_SIZE - 1) /\ k >= a
        BY <1>c, <3>1
      <4>2. Around(wr, k) = Around(P, i - 1)
        BY <1>2, <2>4, <4>1, AroundBack
      <4>3. whole[Around(wr, k)] = ring[Around(wr, k)]
        BY <1>4, <4>1
      <4>4. ring[Around(P, i - 1)] = kept[d + i]
        BY <2>4, <4>1
      <4>5. kept'[d + i] = kept[d + i]
        <5>1. d + i \in 1..Len(kept)
          BY <1>2, <2>3, <2>4, <4>1
        <5> QED
          BY <2>5, <5>1
      <4> QED
        BY <4>2, <4>3, <4>4, <4>5
    <3>2. CASE i > count
      <4> DEFINE k == (i - 1) - count
      <4>1. /\ k \in 0..(BUF_SIZE - 1) /\ k < a /\ k \in 0..(BUF_SIZE - count)
            /\ count + k = i - 1 /\ k + 1 \in 1..a /\ d + i = Len(kept) + (k + 1)
        <5>1. i \in Nat /\ i - 1 < BUF_SIZE /\ i <= count + a
          BY <1>c
        <5>2. Len(kept) = d + count
          BY <2>4
        <5> QED
          BY <1>c, <2>3, <3>2, <5>1, <5>2
      <4> HIDE DEF k
      <4>2. Around(wr, k) = Around(P, i - 1)
        <5>1. Around(Around(P, count), k) = Around(P, count + k)
          BY <1>2, <4>1, AroundTwice
        <5> QED
          BY <2>4, <4>1, <5>1
      <4>3. whole[Around(wr, k)] = bytes[k + 1]
        BY <1>4, <4>1
      <4>4. kept'[d + i] = bytes[k + 1]
        BY <1>6, <2>5, <4>1
      <4> QED
        BY <4>2, <4>3, <4>4
    <3> QED
      BY <1>c, <3>1, <3>2
  <2>9. HoldsFrom(P)'
    <3>1. d = Uncounted'
      BY <2>3 DEF d
    <3>2. \A i \in 1..count' : ring'[Around(P, i - 1)] = kept'[Uncounted' + i]
      BY <1>1, <2>8, <3>1
    <3> QED
      BY <2>6, <2>7, <3>1, <3>2 DEF HoldsFrom, Around
  <2>10. OldestIs(P)'
    BY <1>1, <2>2 DEF OldestIs, Around
  <2>11. RingOK'
    BY <2>9, <2>10 DEF RingOK
  <2>12. GotOK'
    <3>1. GotOK
      BY <2>1
    <3>2. a = 0 => count' = count
      BY <1>c
    <3>3. Len(got) <= Len(kept) => Len(got) <= Len(kept') /\ \A i \in 1..Len(got) : i \in 1..Len(kept)
      BY <1>2, <1>3, <1>6, <2>5
    <3> QED
      BY <1>1, <2>1, <2>5, <3>1, <3>2, <3>3 DEF GotOK
  <2> QED
    BY <2>11, <2>12
<1> QED
  BY <1>10, <1>11, <1>12

\* What happens to the connection alone.
LEMMA ConnectionStep ==
    ASSUME NetInv, UNCHANGED <<ringVars, reading, got, sent, kept, torn>>
    PROVE  NetInv'
<1>1. UNCHANGED <<ring, count, wr, rd, reading, got, sent, kept, torn>>
  BY DEF ringVars
<1>2. NetTypes' /\ ReadInBounds'
  BY <1>1 DEF NetInv, NetTypes, ReadInBounds
<1>3. RingOK => RingOK'
  BY <1>1 DEF RingOK, HoldsFrom, OldestIs, Uncounted, Around
<1>4. GotOK => GotOK'
  BY <1>1 DEF GotOK
<1> QED
  BY <1>1, <1>2, <1>3, <1>4 DEF NetInv

LEMMA BeginReadStep ==
    ASSUME IPStackParameters, NetInv, NEW len \in Nat, BeginRead(len)
    PROVE  NetInv'
<1> USE DEF NetInv
<1>1. /\ UNCHANGED <<ring, count, wr, rd, sent, kept, torn>> /\ got' = <<>>
      /\ reading.at = "idle"
      /\ reading' = [at |-> "waiting", len |-> len, first_copy |-> 0, bytes_to_copy |-> 0,
                     loaded |-> 0]
  BY DEF BeginRead, ringVars, NotReading
<1>2. NetTypes'
  <2>1. reading' \in [at : ReadPlaces, len : Nat, first_copy : Nat, bytes_to_copy : Nat,
                       loaded : Nat]
    BY <1>1 DEF ReadPlaces
  <2>2. <<>> \in Seq(Nat)
    OBVIOUS
  <2> QED
    BY <1>1, <2>1, <2>2 DEF NetTypes
<1>3. ReadInBounds'
  BY <1>1 DEF ReadInBounds
<1>4. RingOK => RingOK'
  <2>1. \A P : HoldsFrom(P) /\ OldestIs(P) => HoldsFrom(P)' /\ OldestIs(P)'
    BY <1>1 DEF HoldsFrom, OldestIs, Uncounted, Around
  <2> QED
    BY <2>1 DEF RingOK
<1>5. GotOK'
  BY <1>1 DEF GotOK
<1> QED
  BY <1>1, <1>2, <1>3, <1>4, <1>5

LEMMA EndWaitStep ==
    ASSUME IPStackParameters, NetInv, EndWait
    PROVE  NetInv'
<1> USE DEF NetInv
<1> DEFINE n == SmallerOf(count, reading.len)
           f == IF rd + n > BUF_SIZE THEN BUF_SIZE - rd ELSE 0
           place == IF n = 0 THEN "idle" ELSE IF f > 0 THEN "first" ELSE "rest"
<1>1. /\ UNCHANGED <<ring, count, wr, rd, got, sent, kept, torn>>
      /\ reading.at = "waiting"
      /\ reading' = [reading EXCEPT !.at = place, !.bytes_to_copy = n, !.first_copy = f]
  BY DEF EndWait, ringVars
<1>2. /\ BUF_SIZE \in Nat \ {0} /\ count \in 0..BUF_SIZE /\ rd \in 0..(BUF_SIZE - 1)
      /\ reading \in [at : ReadPlaces, len : Nat, first_copy : Nat, bytes_to_copy : Nat, loaded : Nat]
  BY DEF IPStackParameters, NetTypes
<1>3. n \in Nat /\ n <= count
  BY <1>2 DEF SmallerOf
<1> HIDE DEF n
<1>4. /\ f \in Nat /\ (f > 0 => f = BUF_SIZE - rd /\ f < n)
      /\ (f = 0 => rd + n <= BUF_SIZE)
  BY <1>2, <1>3
<1> HIDE DEF f
<1>5. /\ place \in {"idle", "first", "rest"} /\ (place = "first" => f > 0)
      /\ (place = "rest" => f = 0)
  BY <1>4
<1> HIDE DEF place
<1>6. /\ reading' \in [at : ReadPlaces, len : Nat, first_copy : Nat, bytes_to_copy : Nat, loaded : Nat]
      /\ reading'.at = place /\ reading'.bytes_to_copy = n /\ reading'.first_copy = f
  BY <1>1, <1>2, <1>3, <1>4, <1>5 DEF ReadPlaces
<1>7. NetTypes'
  BY <1>1, <1>6 DEF NetTypes
<1>8. ReadInBounds'
  BY <1>1, <1>3, <1>4, <1>5, <1>6 DEF ReadInBounds
<1>9. RingOK => RingOK'
  <2>1. \A P : HoldsFrom(P) /\ OldestIs(P) => HoldsFrom(P)' /\ OldestIs(P)'
    <3>1. Uncounted = 0 /\ Uncounted' = 0
      BY <1>1, <1>5, <1>6 DEF Uncounted
    <3>2. \A P : OldestIs(P) => P = rd
      BY <1>1 DEF OldestIs
    <3>3. ~(f > 0) \/ place = "first" \/ place = "idle"
      BY <1>5
    <3>4. OldestIs(rd)'
      BY <1>1, <1>5, <1>6, <3>3 DEF OldestIs
    <3>5. \A P : HoldsFrom(P) => HoldsFrom(P)'
      BY <1>1, <3>1 DEF HoldsFrom, Around
    <3> QED
      BY <1>1, <3>2, <3>4, <3>5
  <2> QED
    BY <2>1 DEF RingOK
<1>10. GotOK => GotOK'
  <2> SUFFICES ASSUME GotOK PROVE GotOK'
    OBVIOUS
  <2>1. got' = <<>> /\ Len(got') = 0
    BY <1>1 DEF GotOK
  <2>2. Len(kept') \in Nat
    BY <1>7 DEF NetTypes
  <2>3. reading'.at = "rest" => reading'.first_copy = 0
    BY <1>5, <1>6
  <2> QED
    <3>1. Len(got') <= Len(kept') /\ \A i \in 1..Len(got') : got'[i] = kept'[i]
      <4>1. 0 <= Len(kept') /\ 1..0 = {}
        BY <2>2
      <4> QED
        BY <2>1, <4>1
    <3>2. reading'.at \notin {"waiting", "subtract first", "subtract rest"}
      BY <1>5, <1>6
    <3> QED
      BY <2>1, <2>3, <3>1, <3>2 DEF GotOK
<1> QED
  BY <1>1, <1>7, <1>8, <1>9, <1>10

\* What is copied out of the ring, up to its end.
LEMMA CopiedOutFacts ==
    ASSUME IPStackParameters, NetTypes, NEW place \in 0..(BUF_SIZE - 1), NEW n \in Nat,
           place + n <= BUF_SIZE
    PROVE  /\ CopiedOut(place, n) \in Seq(Nat) /\ Len(CopiedOut(place, n)) = n
           /\ \A i \in 1..n : CopiedOut(place, n)[i] = ring[Around(place, i - 1)]
<1>1. BUF_SIZE \in Nat \ {0} /\ ring \in [0..(BUF_SIZE - 1) -> Nat]
  BY DEF IPStackParameters, NetTypes
<1> DEFINE copy == CopiedOut(place, n)
<1>2. copy = [i \in 1..n |-> ring[place + i - 1]]
  BY DEF CopiedOut
<1>3. ASSUME NEW i \in 1..n
      PROVE  ring[place + i - 1] = ring[Around(place, i - 1)] /\ ring[place + i - 1] \in Nat
  <2>1. i - 1 \in 0..BUF_SIZE /\ place + (i - 1) < BUF_SIZE /\ place + i - 1 = place + (i - 1)
        /\ place + (i - 1) \in 0..(BUF_SIZE - 1)
    BY <1>1
  <2>2. Around(place, i - 1) = place + (i - 1)
    BY <2>1, AroundFacts
  <2> QED
    BY <1>1, <2>1, <2>2
<1> HIDE DEF copy
<1>4. copy \in [1..n -> Nat] /\ \A i \in 1..n : copy[i] = ring[Around(place, i - 1)]
  BY <1>2, <1>3
<1>5. copy \in Seq(Nat) /\ Len(copy) = n
  BY <1>4
<1> QED
  BY <1>4, <1>5 DEF copy

LEMMA ReadFirstStep ==
    ASSUME IPStackParameters, NetInv, ReadFirst
    PROVE  NetInv'
<1> USE DEF NetInv
<1> DEFINE f == reading.first_copy
           b == reading.bytes_to_copy
<1>1. /\ UNCHANGED <<ring, count, wr, rd, sent, kept, torn>>
      /\ reading.at = "first" /\ got' = CopiedOut(rd, f)
      /\ reading' = [reading EXCEPT !.at = "subtract first", !.loaded = count,
                                    !.bytes_to_copy = b - f]
  BY DEF ReadFirst, ringVars
<1>2. /\ BUF_SIZE \in Nat \ {0} /\ count \in 0..BUF_SIZE /\ rd \in 0..(BUF_SIZE - 1)
      /\ f \in Nat /\ b \in Nat /\ kept \in Seq(Nat)
      /\ reading \in [at : ReadPlaces, len : Nat, first_copy : Nat, bytes_to_copy : Nat, loaded : Nat]
  BY DEF IPStackParameters, NetTypes
<1>3. f = BUF_SIZE - rd /\ f < b /\ b <= count
  BY <1>1 DEF ReadInBounds
<1>4. rd + f <= BUF_SIZE /\ f <= count /\ b - f \in Nat /\ count \in Nat /\ f + (b - f) <= count
  BY <1>2, <1>3, SMTT(60)
<1>5. /\ got' \in Seq(Nat) /\ Len(got') = f
      /\ \A i \in 1..f : got'[i] = ring[Around(rd, i - 1)]
  <2> HIDE DEF f
  <2> QED
    BY <1>1, <1>2, <1>4, CopiedOutFacts
<1>6. /\ reading' \in [at : ReadPlaces, len : Nat, first_copy : Nat, bytes_to_copy : Nat, loaded : Nat]
      /\ reading'.at = "subtract first" /\ reading'.bytes_to_copy = b - f
      /\ reading'.first_copy = f /\ reading'.loaded = count
  BY <1>1, <1>2, <1>4 DEF ReadPlaces
<1> HIDE DEF f, b
<1>7. NetTypes'
  BY <1>1, <1>5, <1>6 DEF NetTypes
<1>8. ReadInBounds'
  BY <1>1, <1>3, <1>4, <1>6 DEF ReadInBounds
<1>9. ASSUME RingOK, GotOK
      PROVE  RingOK' /\ GotOK'
  <2>1. PICK P \in 0..(BUF_SIZE - 1) : HoldsFrom(P) /\ OldestIs(P)
    BY <1>9 DEF RingOK
  <2>2. P = rd /\ Uncounted = 0 /\ Uncounted' = 0
    BY <1>1, <1>6, <2>1 DEF OldestIs, Uncounted
  <2>3. HoldsFrom(P)' /\ OldestIs(P)'
    BY <1>1, <1>6, <2>1, <2>2 DEF HoldsFrom, OldestIs, Around
  <2>4. Len(kept) = count /\ \A i \in 1..count : ring[Around(rd, i - 1)] = kept[i]
    BY <1>2, <2>1, <2>2 DEF HoldsFrom
  <2>5. \A i \in 1..f : i \in 1..count /\ got'[i] = kept[i]
    <3> TAKE i \in 1..f
    <3>1. i \in 1..count
      BY <1>2, <1>4
    <3> QED
      BY <1>5, <2>4, <3>1
  <2>6. GotOK'
    BY <1>1, <1>4, <1>5, <1>6, <2>4, <2>5 DEF GotOK
  <2> QED
    BY <2>3, <2>6 DEF RingOK
<1> QED
  BY <1>1, <1>7, <1>8, <1>9

LEMMA SubtractFirstStep ==
    ASSUME IPStackParameters, NetInv, SubtractFirst
    PROVE  NetInv'
<1> USE DEF NetInv
<1> DEFINE f == reading.first_copy
           b == reading.bytes_to_copy
           l == reading.loaded
<1>1. /\ UNCHANGED <<ring, wr, rd, got, sent, kept, torn>>
      /\ reading.at = "subtract first" /\ count' = l - f
      /\ reading' = [reading EXCEPT !.at = "rest"]
  BY DEF SubtractFirst
<1>2. /\ BUF_SIZE \in Nat \ {0} /\ count \in 0..BUF_SIZE /\ rd \in 0..(BUF_SIZE - 1)
      /\ f \in Nat /\ b \in Nat /\ l \in Nat /\ kept \in Seq(Nat)
      /\ reading \in [at : ReadPlaces, len : Nat, first_copy : Nat, bytes_to_copy : Nat, loaded : Nat]
  BY DEF IPStackParameters, NetTypes
<1>3. f = BUF_SIZE - rd /\ f + b <= l /\ l <= count
  BY <1>1 DEF ReadInBounds
<1>4. reading'.at = "rest" /\ reading'.first_copy = f /\ reading'.bytes_to_copy = b
      /\ reading' \in [at : ReadPlaces, len : Nat, first_copy : Nat, bytes_to_copy : Nat, loaded : Nat]
  BY <1>1, <1>2 DEF ReadPlaces
<1>d. count' = l - f
  BY <1>1
<1> HIDE DEF f, b, l
<1>5. count' \in 0..BUF_SIZE /\ b <= count' /\ f > 0 /\ f \in 0..BUF_SIZE /\ rd + f = BUF_SIZE
  BY <1>2, <1>3, <1>d
<1>6. NetTypes'
  BY <1>1, <1>4, <1>5 DEF NetTypes
<1>7. ReadInBounds'
  <2>1. reading'.first_copy # 0
    BY <1>2, <1>4, <1>5
  <2> QED
    BY <1>4, <1>5, <2>1 DEF ReadInBounds
<1>8. ASSUME RingOK, GotOK
      PROVE  RingOK' /\ GotOK'
  <2>1. PICK P \in 0..(BUF_SIZE - 1) : HoldsFrom(P) /\ OldestIs(P)
    BY <1>8 DEF RingOK
  <2>2. P = rd /\ Uncounted = 0 /\ Uncounted' = f
    BY <1>1, <1>4, <2>1 DEF OldestIs, Uncounted
  <2>3. l = count /\ Len(got) = f
    BY <1>1, <1>8 DEF GotOK, l, f
  <2>4. /\ Len(kept) = count /\ wr = Around(rd, count)
        /\ \A i \in 1..count : ring[Around(rd, i - 1)] = kept[i]
    BY <1>2, <2>1, <2>2 DEF HoldsFrom
  <2>5. Around(rd, f) = 0
    <3>1. rd + f >= BUF_SIZE => Around(rd, f) = rd + f - BUF_SIZE
      BY <1>2, <1>5, AroundFacts
    <3> QED
      BY <1>2, <1>5, <3>1
  <2>6. Len(kept) = f + count' /\ f + count' = count /\ count' \in 0..(BUF_SIZE - f)
    <3>1. count' = count - f /\ f \in Nat /\ count \in Nat /\ count <= BUF_SIZE
      BY <1>2, <1>d, <2>3
    <3>2. f + count' = count /\ count' \in 0..(BUF_SIZE - f)
      BY <1>2, <1>5, <3>1
    <3> QED
      BY <2>4, <3>2
  <2>7. wr = Around(0, count')
    BY <1>2, <1>5, <2>4, <2>5, <2>6, AroundTwice
  <2>8. ASSUME NEW i \in 1..count'
        PROVE  ring[Around(0, i - 1)] = kept[f + i]
    <3>1. i - 1 \in 0..(BUF_SIZE - f) /\ f + (i - 1) = (f + i) - 1 /\ f + i \in 1..count
      <4> DEFINE c == count'
      <4>1. f \in Nat /\ c \in Nat /\ i \in 1..c
        BY <1>2, <1>5
      <4>2. f + c = count
        BY <2>6
      <4> HIDE DEF c
      <4> QED
        BY <1>2, <4>1, <4>2
    <3>2. Around(0, i - 1) = Around(rd, f + (i - 1))
      BY <1>2, <1>5, <2>5, <3>1, AroundTwice
    <3>3. ring[Around(rd, (f + i) - 1)] = kept[f + i]
      BY <2>4, <3>1
    <3> QED
      BY <3>1, <3>2, <3>3
  <2>9. HoldsFrom(0)'
    <3>1. \A i \in 1..count' : ring'[Around(0, i - 1)] = kept'[Uncounted' + i]
      BY <1>1, <2>2, <2>8
    <3> QED
      BY <1>1, <2>2, <2>6, <2>7, <3>1 DEF HoldsFrom, Around
  <2>10. OldestIs(0)'
    BY <1>4, <1>5 DEF OldestIs
  <2>11. GotOK'
    BY <1>1, <1>4, <1>8, <2>3 DEF GotOK
  <2>12. 0 \in 0..(BUF_SIZE - 1)
    BY <1>2
  <2> QED
    BY <2>9, <2>10, <2>11, <2>12 DEF RingOK
<1> QED
  BY <1>1, <1>6, <1>7, <1>8

LEMMA ReadRestStep ==
    ASSUME IPStackParameters, NetInv, ReadRest
    PROVE  NetInv'
<1> USE DEF NetInv
<1> DEFINE f == reading.first_copy
           b == reading.bytes_to_copy
           from == IF f > 0 THEN 0 ELSE rd
           copy == CopiedOut(from, b)
<1>1. /\ UNCHANGED <<ring, count, wr, sent, kept, torn>>
      /\ reading.at = "rest" /\ got' = got \o copy /\ rd' = Around(from, b)
      /\ reading' = [reading EXCEPT !.at = "subtract rest", !.loaded = count]
  BY DEF ReadRest, Around
<1>2. /\ BUF_SIZE \in Nat \ {0} /\ count \in 0..BUF_SIZE /\ rd \in 0..(BUF_SIZE - 1)
      /\ f \in Nat /\ b \in Nat /\ kept \in Seq(Nat) /\ got \in Seq(Nat)
      /\ reading \in [at : ReadPlaces, len : Nat, first_copy : Nat, bytes_to_copy : Nat, loaded : Nat]
  BY DEF IPStackParameters, NetTypes
<1>3. b <= count /\ (f = 0 => rd + b <= BUF_SIZE)
  BY <1>1 DEF ReadInBounds
<1>4. from \in 0..(BUF_SIZE - 1) /\ from + b <= BUF_SIZE /\ b \in 0..BUF_SIZE
  BY <1>2, <1>3
<1>5. /\ reading' \in [at : ReadPlaces, len : Nat, first_copy : Nat, bytes_to_copy : Nat, loaded : Nat]
      /\ reading'.at = "subtract rest" /\ reading'.bytes_to_copy = b
      /\ reading'.first_copy = f /\ reading'.loaded = count
  <2>1. count \in Nat
    BY <1>2
  <2> QED
    BY <1>1, <1>2, <2>1 DEF ReadPlaces
<1>f. from = IF f > 0 THEN 0 ELSE rd
  OBVIOUS
<1> HIDE DEF f, b, from
<1>6. copy \in Seq(Nat) /\ Len(copy) = b /\ \A i \in 1..b : copy[i] = ring[Around(from, i - 1)]
  BY <1>2, <1>4, CopiedOutFacts
<1> HIDE DEF copy
<1>7. /\ got' \in Seq(Nat) /\ Len(got') = Len(got) + b
      /\ \A i \in 1..Len(got) : got'[i] = got[i]
      /\ \A i \in 1..b : got'[Len(got) + i] = copy[i]
  BY <1>1, <1>2, <1>6, BehindFacts
<1>8. rd' \in 0..(BUF_SIZE - 1)
  BY <1>1, <1>4, AroundFacts
<1>9. NetTypes'
  BY <1>1, <1>5, <1>7, <1>8 DEF NetTypes
<1>10. ReadInBounds'
  <2>1. count <= count
    BY <1>2
  <2> QED
    BY <1>1, <1>3, <1>5, <2>1 DEF ReadInBounds
<1>11. ASSUME RingOK, GotOK
       PROVE  RingOK' /\ GotOK'
  <2>1. PICK P \in 0..(BUF_SIZE - 1) : HoldsFrom(P) /\ OldestIs(P)
    BY <1>11 DEF RingOK
  <2>2. P = from /\ Uncounted = f /\ Uncounted' = f
    BY <1>1, <1>5, <1>f, <2>1 DEF OldestIs, Uncounted, f
  <2>3. HoldsFrom(P)'
    BY <1>1, <2>1, <2>2 DEF HoldsFrom, Around
  <2>4. OldestIs(P)'
    BY <1>1, <1>5, <2>2 DEF OldestIs, Around
  <2>5. /\ Len(got) = f /\ \A i \in 1..Len(got) : got[i] = kept[i]
    BY <1>1, <1>11 DEF GotOK, f
  <2>6. /\ Len(kept) = f + count
        /\ \A i \in 1..count : ring[Around(from, i - 1)] = kept[f + i]
    BY <2>1, <2>2 DEF HoldsFrom
  <2>7. Len(got') = f + b /\ Len(got') <= Len(kept)
    BY <1>2, <1>3, <1>7, <2>5, <2>6
  <2>8. ASSUME NEW i \in 1..Len(got')
        PROVE  got'[i] = kept[i]
    <3>1. CASE i <= f
      <4>1. i \in 1..Len(got)
        BY <1>2, <2>5, <3>1
      <4> QED
        BY <1>7, <2>5, <4>1
    <3>2. CASE i > f
      <4> DEFINE k == i - f
      <4>1. k \in 1..b /\ k \in 1..count /\ i = f + k
        BY <1>2, <1>3, <2>7, <3>2
      <4> HIDE DEF k
      <4>2. got'[f + k] = copy[k]
        BY <1>7, <2>5, <4>1
      <4>3. copy[k] = kept[f + k]
        BY <1>6, <2>6, <4>1
      <4> QED
        BY <4>1, <4>2, <4>3
    <3> QED
      BY <1>2, <2>7, <3>1, <3>2
  <2>9. GotOK'
    <3>1. reading'.first_copy + reading'.bytes_to_copy = f + b
      BY <1>5
    <3> QED
      BY <1>1, <1>5, <2>7, <2>8, <3>1 DEF GotOK
  <2> QED
    BY <2>3, <2>4, <2>9 DEF RingOK
<1> QED
  BY <1>1, <1>9, <1>10, <1>11

\* What is left of a sequence, without its beginning.
LEMMA LeftFacts ==
    ASSUME NEW q \in Seq(Nat), NEW n \in Nat
    PROVE  /\ SubSeq(q, n + 1, Len(q)) \in Seq(Nat)
           /\ n <= Len(q) =>
                 /\ Len(SubSeq(q, n + 1, Len(q))) = Len(q) - n
                 /\ \A i \in 1..(Len(q) - n) : SubSeq(q, n + 1, Len(q))[i] = q[n + i]
  OBVIOUS

LEMMA SubtractRestStep ==
    ASSUME IPStackParameters, NetInv, SubtractRest
    PROVE  NetInv'
<1> USE DEF NetInv
<1> DEFINE f == reading.first_copy
           b == reading.bytes_to_copy
           l == reading.loaded
           n == Len(got)
<1>1. /\ UNCHANGED <<ring, wr, rd, got, sent, torn>>
      /\ reading.at = "subtract rest"
      /\ reading' = [reading EXCEPT !.at = "idle"]
      /\ kept' = SubSeq(kept, n + 1, Len(kept))
  BY DEF SubtractRest
<1>d. count' = l - b
  BY DEF SubtractRest
<1>2. /\ BUF_SIZE \in Nat \ {0} /\ count \in 0..BUF_SIZE /\ rd \in 0..(BUF_SIZE - 1)
      /\ f \in Nat /\ b \in Nat /\ l \in Nat /\ n \in Nat /\ kept \in Seq(Nat)
      /\ reading \in [at : ReadPlaces, len : Nat, first_copy : Nat, bytes_to_copy : Nat, loaded : Nat]
  BY DEF IPStackParameters, NetTypes
<1>3. b <= l /\ l <= count
  BY <1>1 DEF ReadInBounds
<1>4. reading'.at = "idle"
      /\ reading' \in [at : ReadPlaces, len : Nat, first_copy : Nat, bytes_to_copy : Nat, loaded : Nat]
  BY <1>1, <1>2 DEF ReadPlaces
<1> HIDE DEF f, b, l, n
<1>5. count' \in 0..BUF_SIZE
  BY <1>2, <1>3, <1>d
<1>6. /\ kept' \in Seq(Nat)
      /\ n <= Len(kept) => /\ Len(kept') = Len(kept) - n
                           /\ \A i \in 1..(Len(kept) - n) : kept'[i] = kept[n + i]
  BY <1>1, <1>2, LeftFacts
<1>7. NetTypes'
  BY <1>1, <1>4, <1>5, <1>6 DEF NetTypes
<1>8. ReadInBounds'
  BY <1>4 DEF ReadInBounds
<1>9. ASSUME RingOK, GotOK
      PROVE  RingOK' /\ GotOK'
  <2>1. PICK P \in 0..(BUF_SIZE - 1) : HoldsFrom(P) /\ OldestIs(P)
    BY <1>9 DEF RingOK
  <2>2. Uncounted = f /\ Uncounted' = 0 /\ rd = Around(P, b)
    BY <1>1, <1>4, <2>1 DEF OldestIs, Uncounted, f, b
  <2>3. l = count /\ n = f + b /\ n <= Len(kept)
    BY <1>1, <1>9 DEF GotOK, l, f, b, n
  <2>4. /\ Len(kept) = f + count /\ wr = Around(P, count)
        /\ \A i \in 1..count : ring[Around(P, i - 1)] = kept[f + i]
    BY <2>1, <2>2 DEF HoldsFrom
  <2> DEFINE c == count'
  <2>5. c \in Nat /\ b + c = count /\ c \in 0..(BUF_SIZE - b) /\ b \in 0..BUF_SIZE
    <3>1. c = count - b /\ b <= count
      BY <1>3, <1>d, <2>3
    <3> HIDE DEF c
    <3> QED
      BY <1>2, <3>1
  <2>6. Len(kept) - n = c /\ Len(kept') = c
    <3> HIDE DEF c
    <3>1. Len(kept) = f + count /\ n = f + b
      BY <2>3, <2>4
    <3>2. Len(kept) - n = c
      BY <1>2, <2>5, <3>1
    <3> QED
      BY <1>6, <2>3, <3>2
  <2> HIDE DEF c
  <2>7. wr = Around(rd, c)
    BY <2>2, <2>4, <2>5, AroundTwice
  <2>8. ASSUME NEW i \in 1..c
        PROVE  ring[Around(rd, i - 1)] = kept'[i]
    <3>1. /\ i - 1 \in 0..(BUF_SIZE - b) /\ b + (i - 1) = (b + i) - 1 /\ b + i \in 1..count
          /\ f + (b + i) = n + i
      <4>1. n = f + b
        BY <2>3
      <4> QED
        BY <1>2, <2>5, <4>1
    <3>2. Around(rd, i - 1) = Around(P, b + (i - 1))
      BY <2>2, <2>5, <3>1, AroundTwice
    <3>3. ring[Around(P, (b + i) - 1)] = kept[f + (b + i)]
      BY <2>4, <3>1
    <3>4. kept'[i] = kept[n + i]
      BY <1>6, <2>3, <2>6
    <3> QED
      BY <3>1, <3>2, <3>3, <3>4
  <2>9. HoldsFrom(rd)'
    <3>1. \A i \in 1..count' : ring'[Around(rd, i - 1)] = kept'[0 + i]
      <4>1. \A i \in 1..c : 0 + i = i
        BY <2>5
      <4> QED
        BY <1>1, <2>8, <4>1 DEF c
    <3>2. Len(kept') = 0 + count'
      <4>1. 0 + c = c /\ Len(kept') = c
        BY <2>5, <2>6
      <4>2. Len(kept') = 0 + c
        BY <4>1
      <4> QED
        BY <4>2 DEF c
    <3> QED
      BY <1>1, <2>2, <2>7, <3>1, <3>2 DEF HoldsFrom, Around, c
  <2>10. OldestIs(rd)'
    BY <1>1, <1>4 DEF OldestIs
  <2>11. GotOK'
    BY <1>4 DEF GotOK
  <2>12. RingOK'
    <3>1. rd' = rd
      BY <1>1
    <3> QED
      BY <1>2, <2>9, <2>10, <3>1 DEF RingOK, HoldsFrom, OldestIs
  <2> QED
    BY <2>11, <2>12
<1> QED
  BY <1>1, <1>7, <1>8, <1>9

LEMMA NetStep ==
    ASSUME IPStackParameters, NetInv, [IPStackNext]_netVars
    PROVE  NetInv'
<1>1. CASE \E n \in Segments : Receive(n)
  <2>1. \A n \in Segments : n \in Nat
    BY DEF IPStackParameters
  <2> QED
    BY <1>1, <2>1, ReceiveStep
<1>2. CASE Connect \/ Connected \/ Failed \/ Disconnect
  BY <1>2, ConnectionStep DEF Connect, Connected, Failed, Disconnect
<1>3. CASE \E len \in ReadLengths : BeginRead(len)
  <2>1. \A len \in ReadLengths : len \in Nat
    BY DEF IPStackParameters
  <2> QED
    BY <1>3, <2>1, BeginReadStep
<1>4. CASE EndWait \/ ReadFirst \/ SubtractFirst \/ ReadRest \/ SubtractRest
  BY <1>4, EndWaitStep, ReadFirstStep, SubtractFirstStep, ReadRestStep, SubtractRestStep
<1>5. CASE UNCHANGED netVars
  BY <1>5, ConnectionStep DEF netVars
<1> QED
  BY <1>1, <1>2, <1>3, <1>4, <1>5 DEF IPStackNext

LEMMA NetInvIsWhole ==
    ASSUME IPStackParameters, NetInv
    PROVE  StreamIsWhole
<1> USE DEF NetInv
<1>1. /\ count \in 0..BUF_SIZE /\ rd \in DOMAIN ring /\ wr \in DOMAIN ring
      /\ rd \in 0..(BUF_SIZE - 1) /\ BUF_SIZE \in Nat /\ kept \in Seq(Nat) /\ got \in Seq(Nat)
  BY DEF NetTypes, IPStackParameters
<1>2. ASSUME ~torn, reading.at \in {"idle", "waiting"}
      PROVE  Unread = kept
  <2>1. PICK P \in 0..(BUF_SIZE - 1) : HoldsFrom(P) /\ OldestIs(P)
    BY <1>2 DEF RingOK
  <2>2. P = rd /\ Uncounted = 0
    BY <1>2, <2>1 DEF OldestIs, Uncounted
  <2>3. Len(kept) = 0 + count /\ \A i \in 1..count : ring[Around(rd, i - 1)] = kept[0 + i]
    BY <2>1, <2>2 DEF HoldsFrom
  <2>4. Len(kept) = count
    BY <1>1, <2>3
  <2>5. ASSUME NEW i \in 1..count
        PROVE  ring[(rd + i - 1) % BUF_SIZE] = kept[i]
    <3>1. rd + i - 1 = rd + (i - 1) /\ 0 + i = i
      BY <1>1
    <3> QED
      BY <2>3, <3>1 DEF Around
  <2>6. kept = [i \in 1..count |-> kept[i]]
    BY <1>1, <2>4
  <2> QED
    BY <2>5, <2>6, Zenon DEF Unread
<1>3. ASSUME ~torn, reading.at \in {"subtract first", "rest", "subtract rest"}
      PROVE  IsPrefix(got, kept)
  <2>1. Len(got) <= Len(kept) /\ \A i \in 1..Len(got) : got[i] = kept[i]
    BY <1>3 DEF GotOK
  <2> DEFINE n == Len(got)
             l == SubSeq(got, 1, n)
             r == SubSeq(kept, 1, n)
  <2>2. n \in Nat /\ n <= Len(kept) /\ Len(kept) \in Nat
    BY <1>1, <2>1
  <2>3. l = [i \in 1..n |-> got[i]]
    BY <1>1, <2>2
  <2>4. r = [i \in 1..n |-> kept[i]]
    BY <1>1, <2>2
  <2>5. l = r
    <3> HIDE DEF l, r
    <3> QED
      BY <2>1, <2>3, <2>4
  <2> QED
    BY <2>1, <2>5 DEF IsPrefix
<1> QED
  BY <1>1, <1>2, <1>3 DEF StreamIsWhole

\* Every read of the network client returns the oldest bytes that were kept, in their
\* order, whatever sizes lwIP hands over, wherever they wrap around and whenever they
\* come, as long as no addition of tcp_client_recv is overwritten; and even then nothing
\* is taken for more than the buffer holds (IPStack::read, tcp_client_recv).
THEOREM ReadsAreWhole == IPStackParameters => (IPStackSpec => []StreamIsWhole)
<1> SUFFICES ASSUME IPStackParameters PROVE IPStackSpec => []StreamIsWhole
  OBVIOUS
<1>1. IPStackInit => NetInv
  BY NetInitInv
<1>2. NetInv /\ [IPStackNext]_netVars => NetInv'
  BY NetStep
<1>3. NetInv => StreamIsWhole
  BY NetInvIsWhole
<1> QED
  BY <1>1, <1>2, <1>3, PTL DEF IPStackSpec

===============================================================================

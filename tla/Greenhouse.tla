------------------------------ MODULE Greenhouse ------------------------------
(***************************************************************************)
(* The control loop, src/src/taskers/Greenhouse.cpp: the task samples the  *)
(* sensors, drives the fan and the CO2 emitter towards the target in       *)
(* qCO2TargetCurrent, and waits for sUpdateGreenhouse.                     *)
(*                                                                         *)
(* It is the application task of the highest priority, so the others run   *)
(* only where it blocks: in a Modbus request, in vTaskDelay, and on the    *)
(* semaphore.  Each action is a piece of the task between two such points. *)
(* A Modbus request inside an action blocks before it changes anything, so *)
(* the others' steps during it are their steps before the action.          *)
(*                                                                         *)
(* The others are seen through what they do to this task: SwitchHandler    *)
(* changes or omits the target and then gives the semaphore, Storage fills *)
(* in the stored target once after boot without giving it, the timer       *)
(* daemon gives it every second and ends the wait for the CO2 to diffuse,  *)
(* and Display takes sUpdateDisplay.                                       *)
(*                                                                         *)
(* Readings are whole ppm from the set Levels.  A request of CO2::update   *)
(* that fails makes the reading 0 or, if the answer was damaged, any.      *)
(***************************************************************************)
EXTENDS Actuator

CONSTANTS
    CO2_FATAL, CO2_FAN_MARGIN,          \* ppm
    CO2_EXPECTED_EMISSION_RATE_CO2pS,   \* ppm per second
    MIN_EMISSION_PERIOD_MS, MAX_EMISSION_PERIOD_MS,
    UPDATE_THRESHOLD,                   \* ppm
    Levels,                             \* the CO2 levels of the greenhouse
    Targets,                            \* the targets a user may set
    NoTarget                            \* qCO2TargetCurrent is empty

ASSUME GreenhouseAssumption ==
    /\ CO2_FATAL \in Nat /\ CO2_FAN_MARGIN \in Nat
    /\ UPDATE_THRESHOLD \in Nat
    /\ CO2_EXPECTED_EMISSION_RATE_CO2pS \in Nat \ {0}
    /\ MIN_EMISSION_PERIOD_MS \in Nat \ {0} /\ MAX_EMISSION_PERIOD_MS \in Nat
    /\ MIN_EMISSION_PERIOD_MS <= MAX_EMISSION_PERIOD_MS
    /\ MIN_EMISSION_PERIOD_MS * CO2_EXPECTED_EMISSION_RATE_CO2pS
            <= 1000 * CO2_FAN_MARGIN
    /\ Levels \subseteq Nat
    /\ Targets \subseteq Nat
    /\ NoTarget \notin Nat

VARIABLES
    level,              \* the true CO2 level
    target,             \* qCO2TargetCurrent
    qCO2Measurement,    \* mailbox; -1 stands for an empty queue
    qFan,               \* mailbox; -1 stands for an empty queue
    sUpdateGreenhouse, sUpdateDisplay,
    co2Wait,            \* the CO2_WAIT timer is active
    pc,                 \* where the task is
    mFan, mCO2Target, mCO2Measurement, mCO2PrevDelta,
    period,             \* the local emissionPeriod_ms
    giving,             \* SwitchHandler changed target, its give is to come
    filled              \* Storage has filled the target in, or will not

\* History: they record what happened and no action depends on them.
VARIABLES
    seen,               \* the target the task acted upon last
    undiffused,         \* CO2 was emitted and has not had its time to spread
    unannounced         \* Storage changed the target since the task looked

sharedVars == <<target, qCO2Measurement, qFan, sUpdateGreenhouse, sUpdateDisplay>>
othersVars == <<level, giving, filled>>
memberVars == <<mFan, mCO2Target, mCO2Measurement, mCO2PrevDelta, period>>
historyVars == <<seen, undiffused, unannounced>>
vars == <<fanVars, emitter, sharedVars, othersVars, memberVars, historyVars,
          co2Wait, pc>>

NoReading == -1

TypeOK ==
    /\ ActuatorTypeOK
    /\ level \in Levels
    /\ target \in Targets \cup {NoTarget}
    /\ qCO2Measurement \in Levels \cup {0, NoReading}
    /\ qFan \in Powers \cup {NoReading}
    /\ sUpdateGreenhouse \in BOOLEAN /\ sUpdateDisplay \in BOOLEAN
    /\ co2Wait \in BOOLEAN
    /\ pc \in {"boot", "update", "actuate", "emergency", "running", "read",
               "set", "vented", "emitting", "wait"}
    /\ mFan \in Powers \cup {NoReading}
    /\ mCO2Target \in Targets \cup {0}
    /\ mCO2Measurement \in Levels \cup {0, NoReading}
    /\ mCO2PrevDelta \in Int
    /\ period \in Nat
    /\ giving \in BOOLEAN /\ filled \in BOOLEAN
    /\ seen \in Targets \cup {NoTarget}
    /\ undiffused \in BOOLEAN /\ unannounced \in BOOLEAN

Init ==
    /\ ActuatorInit
    /\ level \in Levels
    /\ target = NoTarget
    /\ qCO2Measurement = NoReading
    /\ qFan = NoReading
    /\ sUpdateGreenhouse = FALSE /\ sUpdateDisplay = FALSE
    /\ co2Wait = FALSE
    /\ pc = "boot"
    /\ mFan = -1 /\ mCO2Target = 0 /\ mCO2Measurement = -1
    /\ mCO2PrevDelta = 0
    /\ period = 0
    /\ giving = FALSE /\ filled = FALSE
    /\ seen = NoTarget /\ undiffused = FALSE /\ unannounced = FALSE

-------------------------------------------------------------------------------
\* Calculations

Abs(x) == IF x < 0 THEN -x ELSE x

\* Variant of EmissionPeriod with the bounds applied to milliseconds per ppm
\* instead of seconds.
EmissionPeriodUnscaled(delta) ==
    LET period_ms == Abs(delta) * 1000
    IN  IF period_ms > MAX_EMISSION_PERIOD_MS THEN MAX_EMISSION_PERIOD_MS
        ELSE IF period_ms < MIN_EMISSION_PERIOD_MS THEN MIN_EMISSION_PERIOD_MS
        ELSE period_ms

\* How long to keep the emitter open when the reading is delta ppm off.
EmissionPeriod(delta) ==
    LET period_ms == (Abs(delta) * 1000) \div CO2_EXPECTED_EMISSION_RATE_CO2pS
    IN  IF period_ms > MAX_EMISSION_PERIOD_MS THEN MAX_EMISSION_PERIOD_MS
        ELSE IF period_ms < MIN_EMISSION_PERIOD_MS THEN MIN_EMISSION_PERIOD_MS
        ELSE period_ms

\* The ppm an emission of that long is expected to add.
ExpectedEmission(period_ms) ==
    (period_ms * CO2_EXPECTED_EMISSION_RATE_CO2pS) \div 1000

-------------------------------------------------------------------------------
\* The task

\* automate_greenhouse: start the update timer, enter the loop.
Start ==
    /\ pc = "boot"
    /\ pc' = "update"
    /\ UNCHANGED <<fanVars, emitter, sharedVars, othersVars, memberVars,
                   historyVars, co2Wait>>

\* CO2::update: two register reads.  The reading of a failed request is 0, or
\* what its damaged answer held.
ReadCO2(failed, garbled) == IF failed THEN garbled ELSE level

\* update_sensors: sample, publish, and ask for a redraw if a value moved by
\* more than the threshold.  `other' says whether one of the other sensors did.
UpdateSensors ==
    \E failed, other \in BOOLEAN, garbled \in Levels \cup {0} :
        /\ pc = "update"
        /\ Fails(failed)
        /\ mCO2Measurement' = ReadCO2(failed, garbled)
        /\ qCO2Measurement' = mCO2Measurement'
        /\ sUpdateDisplay' = (sUpdateDisplay \/ other
                \/ Abs(mCO2Measurement - mCO2Measurement') > UPDATE_THRESHOLD)
        /\ pc' = "actuate"
        /\ UNCHANGED <<mSetPower, fanReg, spinning, emitter, target, qFan,
                       sUpdateGreenhouse, othersVars, mFan, mCO2Target,
                       mCO2PrevDelta, period, seen, undiffused, unannounced,
                       co2Wait>>

\* The three statements that set the fan in most branches: the power, the
\* mailbox, the semaphore of the display.
CommandFan(power) ==
    /\ mFan' = power
    /\ SetPower(power)
    /\ qFan' = power
    /\ sUpdateDisplay' = TRUE

LeaveFan == UNCHANGED <<fanVars, mFan, qFan, sUpdateDisplay>>

\* actuate, first branch.
Emergency ==
    /\ pc = "actuate"
    /\ mCO2Measurement > CO2_FATAL
    /\ pc' = "emergency"
    /\ UNCHANGED <<fanVars, emitter, sharedVars, othersVars, memberVars,
                   historyVars, co2Wait>>

\* Variant that returns without switching the fan off if the task set it.
OmittedKeepsFan ==
    /\ pc = "actuate"
    /\ mCO2Measurement <= CO2_FATAL
    /\ target = NoTarget
    /\ seen' = NoTarget /\ unannounced' = FALSE
    /\ IF mFan = CRUISE THEN LeaveFan ELSE CommandFan(OFF)
    /\ PutState(FALSE)
    /\ pc' = "wait"
    /\ UNCHANGED <<target, qCO2Measurement, sUpdateGreenhouse, othersVars,
                   mCO2Target, mCO2Measurement, mCO2PrevDelta, period,
                   undiffused, co2Wait>>

\* actuate: no target, both actuators off.
Omitted ==
    /\ pc = "actuate"
    /\ mCO2Measurement <= CO2_FATAL
    /\ target = NoTarget
    /\ seen' = NoTarget /\ unannounced' = FALSE
    /\ CommandFan(OFF)
    /\ PutState(FALSE)
    /\ pc' = "wait"
    /\ UNCHANGED <<target, qCO2Measurement, sUpdateGreenhouse, othersVars,
                   mCO2Target, mCO2Measurement, mCO2PrevDelta, period,
                   undiffused, co2Wait>>

\* actuate: xQueuePeek found a target and pursue_CO2_target is called.
Peek ==
    /\ pc = "actuate"
    /\ mCO2Measurement <= CO2_FATAL
    /\ target # NoTarget
    /\ mCO2Target' = target
    /\ seen' = target /\ unannounced' = FALSE
    /\ UNCHANGED <<target, qCO2Measurement, sUpdateGreenhouse, othersVars,
                   mCO2Measurement>>

\* mCO2Delta, for the target just peeked.
Delta == mCO2Measurement - target

\* pursue_CO2_target while emitted CO2 is spreading: nothing.
Diffusing ==
    /\ Peek
    /\ co2Wait
    /\ LeaveFan
    /\ pc' = "wait"
    /\ UNCHANGED <<emitter, mCO2PrevDelta, period, undiffused, co2Wait>>

\* Variant that never sees the level come down to the target's margin.
VentProjectedAlways ==
    /\ Peek
    /\ ~co2Wait
    /\ Delta > CO2_FAN_MARGIN
    /\ PutState(FALSE)
    /\ IF Delta - mCO2PrevDelta <= 0 THEN CommandFan(OFF)
       ELSE IF mFan # CRUISE THEN CommandFan(CRUISE)
       ELSE LeaveFan
    /\ mCO2PrevDelta' = Delta
    /\ pc' = "wait"
    /\ UNCHANGED <<period, undiffused, co2Wait>>

\* Far above the target: the fan, unless the level is projected to be within
\* the margin by the next update.
Vent ==
    /\ Peek
    /\ ~co2Wait
    /\ Delta > CO2_FAN_MARGIN
    /\ PutState(FALSE)
    /\ LET projectedChange == Delta - mCO2PrevDelta
       IN  IF Delta + projectedChange < CO2_FAN_MARGIN THEN CommandFan(OFF)
           ELSE IF mFan # CRUISE THEN CommandFan(CRUISE)
           ELSE LeaveFan
    /\ mCO2PrevDelta' = Delta
    /\ pc' = "wait"
    /\ UNCHANGED <<period, undiffused, co2Wait>>

\* Variant that trusts the sentinel -1 of mFan to mean a fan that is off.
DoseTrustingSentinel ==
    /\ Peek
    /\ ~co2Wait
    /\ Delta < 0
    /\ IF mFan > OFF THEN mFan' = OFF /\ SetPower(OFF)
       ELSE UNCHANGED <<fanVars, mFan>>
    /\ period' = EmissionPeriod(Delta)
    /\ PutState(TRUE)
    /\ pc' = "emitting"
    /\ UNCHANGED <<qFan, sUpdateDisplay, mCO2PrevDelta, undiffused, co2Wait>>

\* Below the target: fan off, and the valve opens for the emission period.
Dose ==
    /\ Peek
    /\ ~co2Wait
    /\ Delta < 0
    /\ IF mFan # OFF THEN mFan' = OFF /\ SetPower(OFF)
       ELSE UNCHANGED <<fanVars, mFan>>
    /\ period' = EmissionPeriod(Delta)
    /\ PutState(TRUE)
    /\ pc' = "emitting"
    /\ UNCHANGED <<qFan, sUpdateDisplay, mCO2PrevDelta, undiffused, co2Wait>>

\* Variant that does not start the timer.
EmissionOverNoTimer ==
    /\ pc = "emitting"
    /\ PutState(FALSE)
    /\ undiffused' = TRUE
    /\ pc' = "wait"
    /\ UNCHANGED <<fanVars, sharedVars, othersVars, memberVars, seen,
                   unannounced, co2Wait>>

\* Variant that keeps the valve open until the level is reached.
EmissionOverAtTarget ==
    /\ pc = "emitting"
    /\ level >= mCO2Target
    /\ PutState(FALSE)
    /\ co2Wait' = TRUE
    /\ undiffused' = TRUE
    /\ pc' = "wait"
    /\ UNCHANGED <<fanVars, sharedVars, othersVars, memberVars, seen,
                   unannounced>>

\* The emission period is over: close the valve, start the CO2_WAIT timer.
EmissionOver ==
    /\ pc = "emitting"
    /\ PutState(FALSE)
    /\ co2Wait' = TRUE
    /\ undiffused' = TRUE
    /\ pc' = "wait"
    /\ UNCHANGED <<fanVars, sharedVars, othersVars, memberVars, seen,
                   unannounced>>

\* Within the margin above the target: both actuators off.
Hold ==
    /\ Peek
    /\ ~co2Wait
    /\ Delta >= 0 /\ Delta <= CO2_FAN_MARGIN
    /\ IF mFan # OFF THEN CommandFan(OFF) ELSE LeaveFan
    /\ PutState(FALSE)
    /\ pc' = "wait"
    /\ UNCHANGED <<mCO2PrevDelta, period, undiffused, co2Wait>>

-------------------------------------------------------------------------------
\* emergency()

\* The fan is at MAX_POWER as far as the task knows: nothing to set.
EmergencyAgain ==
    /\ pc = "emergency"
    /\ mFan = MAX_POWER
    /\ pc' = "vented"
    /\ UNCHANGED <<fanVars, emitter, sharedVars, othersVars, memberVars,
                   historyVars, co2Wait>>

EmergencyFan ==
    /\ pc = "emergency"
    /\ mFan # MAX_POWER
    /\ mFan' = MAX_POWER
    /\ qFan' = MAX_POWER
    /\ pc' = "running"
    /\ UNCHANGED <<fanVars, emitter, target, qCO2Measurement, sUpdateGreenhouse,
                   sUpdateDisplay, othersVars, mCO2Target, mCO2Measurement,
                   mCO2PrevDelta, period, historyVars, co2Wait>>

unchangedButFan == <<emitter, target, qCO2Measurement, qFan, sUpdateGreenhouse,
                     othersVars, memberVars, historyVars, co2Wait>>

\* The loop's condition, !aFan.running() first.
EmergencyRunning ==
    \E running \in BOOLEAN :
        /\ pc = "running"
        /\ Running(running)
        /\ sUpdateDisplay' = (sUpdateDisplay \/ running)
        /\ pc' = IF running THEN "vented" ELSE "read"
        /\ UNCHANGED unchangedButFan

\* Its second part, aFan.read_power() != MAX_POWER.
EmergencyRead ==
    /\ pc = "read"
    /\ ReadPower
    /\ sUpdateDisplay' = (sUpdateDisplay \/ mSetPower' = MAX_POWER)
    /\ pc' = IF mSetPower' = MAX_POWER THEN "vented" ELSE "set"
    /\ UNCHANGED unchangedButFan

\* Its body.
EmergencySet ==
    /\ pc = "set"
    /\ SetPower(mFan)
    /\ pc' = "running"
    /\ UNCHANGED <<unchangedButFan, sUpdateDisplay>>

\* Variant that leaves the next update to the timer, which is asked for anyway.
EmergencyOverSilent ==
    /\ pc = "vented"
    /\ pc' = "wait"
    /\ UNCHANGED <<unchangedButFan, fanVars, sUpdateDisplay>>

\* emergency() ends by asking for another update; the delay is in the wait.
EmergencyOver ==
    /\ pc = "vented"
    /\ sUpdateGreenhouse' = TRUE
    /\ pc' = "wait"
    /\ UNCHANGED <<fanVars, emitter, target, qCO2Measurement, qFan,
                   sUpdateDisplay, othersVars, memberVars, historyVars, co2Wait>>

\* xSemaphoreTake(sUpdateGreenhouse).
Wake ==
    /\ pc = "wait"
    /\ sUpdateGreenhouse
    /\ sUpdateGreenhouse' = FALSE
    /\ pc' = "update"
    /\ UNCHANGED <<fanVars, emitter, target, qCO2Measurement, qFan,
                   sUpdateDisplay, othersVars, memberVars, historyVars, co2Wait>>

EmergencyStep == \/ EmergencyAgain \/ EmergencyFan \/ EmergencyRunning
                 \/ EmergencyRead \/ EmergencySet \/ EmergencyOver
Actuate == \/ Emergency \/ Omitted \/ Diffusing \/ Vent \/ Dose \/ Hold
Task == \/ Start \/ UpdateSensors \/ Actuate \/ EmissionOver
        \/ EmergencyStep \/ Wake

-------------------------------------------------------------------------------
\* The timer daemon

unchangedByTimers == <<fanVars, emitter, target, qCO2Measurement, qFan,
                       sUpdateDisplay, othersVars, memberVars, seen,
                       unannounced, pc>>

\* passive_update, the callback of GREENHOUSE_UPDATE.
PassiveUpdate ==
    /\ pc # "boot"
    /\ sUpdateGreenhouse' = TRUE
    /\ UNCHANGED <<unchangedByTimers, undiffused, co2Wait>>

\* Variant with CO2_WAIT created as an auto-reload timer.
CO2WaitReloads ==
    /\ co2Wait
    /\ undiffused' = FALSE
    /\ UNCHANGED <<unchangedByTimers, sUpdateGreenhouse, co2Wait>>

\* CO2_WAIT expires; its callback is empty.
CO2WaitExpires ==
    /\ co2Wait
    /\ co2Wait' = FALSE
    /\ undiffused' = FALSE
    /\ UNCHANGED <<unchangedByTimers, sUpdateGreenhouse>>

-------------------------------------------------------------------------------
\* The other tasks and the greenhouse

unchangedByOthers == <<fanVars, emitter, qCO2Measurement, qFan, memberVars,
                       seen, undiffused, co2Wait, pc>>

\* SwitchHandler::insert and omit_CO2_target change the mailbox first and give
\* the semaphores afterwards; the handler's own conditions are in SwitchHandler.
InsertTarget ==
    \E t \in Targets :
        /\ ~giving
        /\ t # target
        /\ target' = t
        /\ giving' = TRUE
        /\ UNCHANGED <<unchangedByOthers, sUpdateGreenhouse, sUpdateDisplay,
                       level, filled, unannounced>>

OmitTarget ==
    /\ ~giving
    /\ target' = NoTarget
    /\ giving' = TRUE
    /\ UNCHANGED <<unchangedByOthers, sUpdateGreenhouse, sUpdateDisplay,
                   level, filled, unannounced>>

HandlerGives ==
    /\ giving
    /\ giving' = FALSE
    /\ sUpdateDisplay' = TRUE
    /\ sUpdateGreenhouse' = TRUE
    /\ UNCHANGED <<unchangedByOthers, target, level, filled, unannounced>>

\* storage(): the target found in the EEPROM is put in the mailbox; nobody is
\* told.  The EEPROM may hold none.
StorageFills ==
    \E t \in Targets \cup {NoTarget} :
        /\ ~filled
        /\ filled' = TRUE
        /\ IF t = NoTarget
           THEN UNCHANGED <<target, unannounced>>
           ELSE target' = t /\ unannounced' = TRUE
        /\ UNCHANGED <<unchangedByOthers, sUpdateGreenhouse, sUpdateDisplay,
                       level, giving>>

\* display(): the semaphore is taken before a redraw.
DisplayTakes ==
    /\ sUpdateDisplay
    /\ sUpdateDisplay' = FALSE
    /\ UNCHANGED <<unchangedByOthers, target, sUpdateGreenhouse, othersVars,
                   unannounced>>

LevelChanges ==
    \E l \in Levels :
        /\ l # level
        /\ level' = l
        /\ UNCHANGED <<unchangedByOthers, sharedVars, giving, filled, unannounced>>

FanStops ==
    /\ RotorStops
    /\ UNCHANGED <<sharedVars, othersVars, memberVars, historyVars, co2Wait, pc>>

Others == \/ InsertTarget \/ OmitTarget \/ HandlerGives \/ StorageFills
          \/ DisplayTakes \/ LevelChanges \/ FanStops

Next == Task \/ PassiveUpdate \/ CO2WaitExpires \/ Others

Spec == Init /\ [][Next]_vars

\* The task is the application's highest in priority and the timer daemon is
\* above it, so both run whenever they can.  Nothing is assumed of a user, of
\* the tasks below, or of the rotor.
FairSpec == /\ Spec
            /\ WF_vars(Task)
            /\ WF_vars(PassiveUpdate)
            /\ WF_vars(CO2WaitExpires)

-------------------------------------------------------------------------------
\* Safety

\* The emitter never blows CO2 into a fan that was left on: while the valve is
\* open the fan's own register is off, whatever power the controller found it
\* at after a reset (pursue_CO2_target 143-152 with mFan = -1 at boot).
NoDosingIntoVentilation == ReliableBus /\ emitter => fanReg = OFF

\* Over several rounds of set_power, with its extra write and the value
\* read_power caches, the device ends up with the power mFan says.
FanObeys == ReliableBus /\ pc = "wait" /\ mFan \in {OFF, CRUISE} => fanReg = mFan

\* An emission planned by pursue_CO2_target (149-152) is never so long that it
\* would lift the level it was planned for into the range the fan is used in.
DoseWithinMargin ==
    emitter => mCO2Measurement + ExpectedEmission(period)
                    <= mCO2Target + CO2_FAN_MARGIN

\* A target that was set or omitted while the task was busy is not slept on:
\* if the task waits and has not acted on the mailbox as it is, the semaphore
\* was given, or is about to be (SwitchHandler.cpp 171-178, 251-258).  Only
\* the target Storage puts in after boot waits for the timer.
NoMissedTarget ==
    pc = "wait" /\ target # seen => sUpdateGreenhouse \/ giving \/ unannounced

\* The control loop implements the dose cycle: two emissions are separated by
\* the time the first one needs to spread, also when the target is omitted and
\* set again, or an emergency comes between (pursue_CO2_target 117-157).
dosePhase == IF emitter THEN "open" ELSE IF undiffused THEN "spreading" ELSE "ready"
Cycle == INSTANCE DoseCycle WITH phase <- dosePhase
DosesInCycles == Cycle!Spec

-------------------------------------------------------------------------------
\* Liveness

Quiet == target = NoTarget /\ level <= CO2_FATAL

\* Once the target is omitted for good, and the level is not an emergency, the
\* valve closes and the fan's register goes to off and stays there
\* (actuate 83-91), even if some of the requests fail.
OmissionStops == <>[]Quiet => <>[](~emitter /\ fanReg = OFF)

Settled(t, l) == target = t /\ level = l

\* Every dose ends, and with it the time to spread: the loop never stops with
\* the valve open (vTaskDelay and put_state in pursue_CO2_target 154-157).
DosesEnd == Cycle!FairSpec

\* A level that stays below the target leads to emission after emission.
DosingHappens ==
    \A t \in Targets, l \in Levels :
        l < t /\ l <= CO2_FATAL => (<>[]Settled(t, l) => []<>emitter)

\* On a reliable bus, a level that stays above the margin gets the fan's
\* register set to the cruising power for good.
VentingHappens ==
    \A t \in Targets, l \in Levels :
        l - t > CO2_FAN_MARGIN /\ l <= CO2_FATAL =>
            ([]ReliableBus /\ <>[]Settled(t, l) => <>[](fanReg = CRUISE))

\* The loop comes back from every wait: a settled level is always driven
\* towards the target, from below and from above.
LevelIsDriven == DosingHappens /\ VentingHappens

-------------------------------------------------------------------------------
\* What the documentation says and the code does not do

\* "keep the CO2 level at a user set level via CO2 emission and fan control"
\* (README.md:4), in an emergency (Greenhouse.cpp:98-114): a level that stays
\* above CO2_FATAL is vented.
EmergencyVents ==
    \A l \in Levels : l > CO2_FATAL => (<>[](level = l) => <>[](fanReg # OFF))

===============================================================================

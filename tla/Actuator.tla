------------------------------- MODULE Actuator -------------------------------
(***************************************************************************)
(* The two actuators of the greenhouse, src/src/peripherals/Actuator.cpp:  *)
(* the fan, a register of a Modbus device, and the CO2 emitter, a valve on *)
(* a GPIO pin.  The operators are the operations of classes Fan and        *)
(* CO2_Emitter; a client module makes them part of its actions.            *)
(*                                                                         *)
(* The device is the environment.  Its power register `fanReg' survives a  *)
(* reset of the controller, so the controller finds it at any value.  The  *)
(* rotor starts to turn when it is given full power, keeps turning at any  *)
(* power, and comes to rest some time after the power is cut: that is what *)
(* the comment in Fan::set_power says of it.                               *)
(*                                                                         *)
(* ModbusRegister drops the error code of every request, so a request that *)
(* fails is a write that does not happen, or a read that returns 0 if no   *)
(* answer came and any value if one came damaged: the value is stored      *)
(* before the checksum is looked at (nanomodbus.c:504).  At most MaxFaults *)
(* requests fail in a behaviour.                                           *)
(***************************************************************************)
EXTENDS Integers

CONSTANTS
    MAX_POWER,      \* full power of the fan, 1000 permille
    MaxFaults       \* bound: how many Modbus requests fail

ASSUME ActuatorAssumption ==
    /\ MAX_POWER \in Nat /\ MAX_POWER >= 4
    /\ MaxFaults \in Nat

VARIABLES
    mSetPower,      \* the last power the Fan object set or read back
    fanReg,         \* the power register of the fan device
    spinning,       \* whether the rotor turns
    emitter,        \* the emitter's pin: TRUE is an open valve
    faults          \* how many Modbus requests failed so far

fanVars == <<mSetPower, fanReg, spinning, faults>>

OFF    == 0
CRUISE == MAX_POWER \div 4      \* the power used to reach a target
Powers == {OFF, CRUISE, MAX_POWER}

ActuatorTypeOK ==
    /\ mSetPower \in Powers
    /\ fanReg \in Powers
    /\ spinning \in BOOLEAN
    /\ emitter \in BOOLEAN
    /\ faults \in 0..MaxFaults

ReliableBus == faults = 0

ActuatorInit ==
    /\ mSetPower = OFF
    /\ fanReg \in Powers
    /\ spinning \in BOOLEAN
    /\ fanReg = MAX_POWER => spinning
    /\ emitter = FALSE
    /\ faults = 0

-------------------------------------------------------------------------------

\* Some of the requests an operation makes fail: `failed' says which.
Fails(failed) ==
    LET n == IF failed THEN 1 ELSE 0
    IN  faults + n <= MaxFaults /\ faults' = faults + n

Clamp(permilles) ==
    IF permilles > MAX_POWER THEN MAX_POWER
    ELSE IF permilles < OFF THEN OFF ELSE permilles

\* The register and the rotor after the writes of set_power: a write of full
\* power if `kicked', then a write of `power' if `set'.
Written(kicked, set, power) ==
    /\ fanReg' = IF set THEN power ELSE IF kicked THEN MAX_POWER ELSE fanReg
    /\ spinning' = (spinning \/ kicked \/ (set /\ power = MAX_POWER))

\* Variant of SetPower that kicks last.
SetPowerKickLast(permilles) ==
    /\ mSetPower' = Clamp(permilles)
    /\ Written(TRUE, mSetPower = OFF, Clamp(permilles))
    /\ UNCHANGED faults

\* Fan::set_power.  Full power is written first if the fan was set to turn
\* already; either write may be lost.
SetPower(permilles) ==
    \E kick, set \in BOOLEAN :
        /\ kick => mSetPower # OFF
        /\ LET lost == (IF mSetPower # OFF /\ ~kick THEN 1 ELSE 0)
                       + (IF set THEN 0 ELSE 1)
           IN  /\ faults + lost <= MaxFaults
               /\ faults' = faults + lost
        /\ mSetPower' = Clamp(permilles)
        /\ Written(kick, set, Clamp(permilles))

\* Fan::running: whether the counter of pulses, read, is above 0.
Running(result) ==
    \E failed \in BOOLEAN :
        /\ Fails(failed)
        /\ ~failed => result = spinning
        /\ UNCHANGED <<mSetPower, fanReg, spinning>>

\* Fan::read_power: reading the register also replaces mSetPower.
ReadPower ==
    \E failed \in BOOLEAN, read \in Powers :
        /\ Fails(failed)
        /\ ~failed => read = fanReg
        /\ mSetPower' = read
        /\ UNCHANGED <<fanReg, spinning>>

\* CO2_Emitter::put_state; get_state reads the pin that was put.
PutState(state) == emitter' = state

\* The rotor comes to rest.
RotorStops ==
    /\ spinning
    /\ fanReg = OFF
    /\ spinning' = FALSE
    /\ UNCHANGED <<mSetPower, fanReg, emitter, faults>>

===============================================================================

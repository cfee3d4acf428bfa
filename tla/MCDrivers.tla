------------------------------- MODULE MCDrivers ------------------------------
(* The drivers, one at a time: the UART, the Modbus client over a queue of    *)
(* bytes, the I2C bus of main.cpp that two tasks share, the display behind it *)
(* and the drawing of what it shows, and the pins of the switches.            *)
EXTENDS Uart, Modbus, I2C, SwitchInput

VARIABLES
    layer,          \* which of them it is
    oledBytes, oledInit, oledExpects, oledRegister, colHome, pageHome, oledWhole, oledLost,
    setUp, clean,   \* those of Oled
    frameBuffer, drawn, drawings    \* those of FrameBuffer

\* The requests of one pass of the control loop that are most alike: the two words of
\* the CO2 reading, one of another sensor, and the two writes of Fan::set_power.
Ask(unit, fc, what) == [unit |-> unit, fc |-> fc, what |-> what]

MCRequests == {Ask(240, 3, 0), Ask(240, 3, 1), Ask(1, 4, 4),
               Ask(1, 6, 1000), Ask(1, 6, 250)}

\* Display writes commands, and frames that do not fit in the FIFO; Greenhouse
\* triggers the pressure sensor and reads its answer.  Reads longer than the
\* FIFO are those of Storage on the other bus.
MCWants == [t \in Tasks |->
    IF t = "display" THEN {[w |-> 2, r |-> 0], [w |-> 5, r |-> 0]}
                     ELSE {[w |-> 1, r |-> 2], [w |-> 1, r |-> 5]}]

Screen == INSTANCE Oled WITH MaxLost <- 3, sentBytes <- oledBytes, initialising <- oledInit,
    expects <- oledExpects, register <- oledRegister, whole <- oledWhole, lost <- oledLost

\* A picture of two pages, the second one cut short, with everything that is drawn
\* inside, at the edges and beyond them.
DrawingWidth == 4
DrawingHeight == 12
MCGlyph == <<{0, 2}, {1, 7}, {0}>>
MCSprite == [width |-> 2, height |-> 3, lit |-> {<<0, 0>>, <<1, 1>>, <<0, 2>>}]
Box(op, x, y, w, h, color) == [op |-> op, x |-> x, y |-> y, w |-> w, h |-> h, color |-> color]
MCCalls ==
    { Box("fill_rect", 0, 0, DrawingWidth, DrawingHeight, 1), Box("fill_rect", 1, 6, 2, 4, 0),
      Box("rect", 0, 5, 4, 7, 1), Box("rect", 1, 1, 1, 3, 1) }
    \cup [op : {"text"}, x : {0, 2}, y : {0, 5, 9}, color : {0, 1}]
    \cup [op : {"line"}, x : {0, 3}, y : {0, 7}, x2 : {0, 2, 5}, y2 : {1, 6, 13}, color : {1}]
    \cup [op : {"blit"}, x : {-1, 2, 3, 4}, y : {-2, 6, 11}, key : {0, 1, 2}]
    \cup [op : {"scroll"}, x : {-4, -1, 0, 1, 3}, y : {-3, 0, 1, 12}]

Drawing == INSTANCE FrameBuffer WITH width <- DrawingWidth, height <- DrawingHeight,
    Calls <- MCCalls, Glyph <- MCGlyph, Sprite <- MCSprite, MaxCalls <- 2,
    buffer <- frameBuffer, call <- drawn, calls <- drawings

uartVars == <<txVars, rxVars, irqEnabled, isr, pc, todo, ch>>
busVars == <<uartVars, modbusVars, i2cVars, inputVars>>
screenVars == <<oledBytes, oledInit, oledExpects, oledRegister, colHome, pageHome, oledWhole,
                oledLost, setUp, clean>>
drawingVars == <<frameBuffer, drawn, drawings>>
pictureVars == <<screenVars, drawingVars>>

UartTurn(A) ==
    layer = "uart" /\ A /\ UNCHANGED <<layer, modbusVars, i2cVars, inputVars, pictureVars>>
ModbusTurn(A) ==
    layer = "modbus" /\ A /\ UNCHANGED <<layer, uartVars, i2cVars, inputVars, pictureVars>>
I2CTurn(A) ==
    layer = "i2c" /\ A /\ UNCHANGED <<layer, uartVars, modbusVars, inputVars, pictureVars>>
OledTurn(A) == layer = "oled" /\ A /\ UNCHANGED <<layer, busVars, drawingVars>>
DrawTurn(A) == layer = "drawing" /\ A /\ UNCHANGED <<layer, busVars, screenVars>>
SwitchTurn(A) ==
    layer = "switches" /\ A /\ UNCHANGED <<layer, uartVars, modbusVars, i2cVars, pictureVars>>

\* A driver that is not looked at stays as it is at the start.
DriversInit ==
    /\ layer \in {"uart", "modbus", "i2c", "oled", "drawing", "switches"}
    /\ Init
    /\ ModbusInit /\ (layer # "modbus" => req = CHOOSE f \in Frames : f.id = 0)
    /\ I2CInit
    /\ Screen!OledInit
    /\ Drawing!FrameBufferInit
    /\ InputInit

DriversNext ==
    \/ UartTurn(Next)
    \/ ModbusTurn(ModbusNext)
    \/ I2CTurn(I2CNext)
    \/ OledTurn(Screen!OledNext)
    \/ DrawTurn(Drawing!FrameBufferNext)
    \/ SwitchTurn(InputNext)

driversVars == <<layer, busVars, pictureVars>>

\* The fairness of each.  Of Modbus: a read of the UART returns, with bytes or by its
\* timeout, and an answer that is not late arrives.
DriversSpec ==
    /\ DriversInit /\ [][DriversNext]_driversVars
    /\ WF_driversVars(UartTurn(Shift))
    /\ SF_driversVars(UartTurn(Interrupt)) /\ WF_driversVars(UartTurn(Isr))
    /\ SF_driversVars(UartTurn(FinishWrite))
    /\ WF_driversVars(ModbusTurn(Client)) /\ WF_driversVars(ModbusTurn(Deliver))
    /\ WF_driversVars(I2CTurn(I2CIsr))
    /\ \A t \in Tasks : WF_driversVars(I2CTurn(Attend(t)))

\* The Modbus client alone.
ModbusOnlySpec == DriversInit /\ layer = "modbus" /\ [][ModbusTurn(ModbusNext)]_driversVars

-------------------------------------------------------------------------------
\* Every request returns, of Modbus and of I2C, whatever arrives.
RequestsReturn == Returns /\ TransactionReturns

\* What is drawn is what the calls mean, and the display shows it again two frames
\* after its bus failed.
PictureIsRight == Drawing!DrawsAsMeant /\ [][Screen!PictureHeals']_screenVars
===============================================================================

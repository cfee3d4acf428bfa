--------------------------------- MODULE Oled ---------------------------------
(***************************************************************************)
(* The OLED and how ssd1306os.cpp talks to it: init sends the commands that *)
(* set it up, once, and show sends where the frame goes and then the frame. *)
(* A command and each of its parameters is a transaction of its own, and    *)
(* nobody looks at what a transaction returns: one that fails leaves the    *)
(* display waiting for a parameter, for which it takes the next command.    *)
(***************************************************************************)
EXTENDS Integers, Sequences

CONSTANT MaxLost    \* bounds how many transactions fail

VARIABLES
    sentBytes,      \* how many bytes of init, and then of show, were sent
    initialising,
    expects,        \* the registers whose values the display waits for
    register,       \* its registers
    colHome, pageHome,  \* whether its address counters are at the start
    whole,          \* whether its memory holds the frame, from the first byte on
    lost,           \* history: how many transactions failed
    setUp,          \* history: init got through
    clean           \* history: the frames that got through since, at most 2

oledVars == <<sentBytes, initialising, expects, register, colHome, pageHome, whole,
              lost, setUp, clean>>

SET_MEM_MODE == 32
SET_COL_ADDR == 33
SET_PAGE_ADDR == 34
SET_DISP_START_LINE == 64

\* The commands of init for 128 x 64, each with its parameter.
InitCommands ==
    <<174, SET_MEM_MODE, 0, SET_DISP_START_LINE, 161, 168, 63, 200, 211, 0, 218, 18,
      213, 128, 217, 241, 219, 48, 129, 255, 164, 166, 141, 20, 46, 175>>

\* Variant of ShowCommands without the pages.
ShowColumns == <<SET_COL_ADDR, 0, 127>>

\* The commands of show.
ShowCommands == <<SET_COL_ADDR, 0, 127, SET_PAGE_ADDR, 0, 7>>

-------------------------------------------------------------------------------
\* The display.

\* The registers that a command sets: those of the source that have parameters.
RegistersOf(byte) ==
    CASE byte = SET_MEM_MODE -> <<"mode">>
      [] byte = SET_COL_ADDR -> <<"x0", "x1">>
      [] byte = SET_PAGE_ADDR -> <<"p0", "p1">>
      [] byte \in {129, 141, 168, 211, 213, 217, 218, 219} -> <<"other">>
      [] OTHER -> <<>>

\* A byte is the value the display waits for, or else a command.  An area that
\* is set is written from its start.
Command(byte) ==
    IF expects # <<>>
    THEN /\ register' = [register EXCEPT ![Head(expects)] = byte]
         /\ expects' = Tail(expects)
         /\ colHome' = (colHome \/ Head(expects) = "x1")
         /\ pageHome' = (pageHome \/ Head(expects) = "p1")
    ELSE /\ register' = IF byte \in 64..127 THEN [register EXCEPT !["line"] = byte - 64]
                        ELSE register
         /\ expects' = RegistersOf(byte)
         /\ UNCHANGED <<colHome, pageHome>>

Frame(r) == r.mode = 0 /\ r.x0 = 0 /\ r.x1 = 127 /\ r.p0 = 0 /\ r.p1 = 7

\* The bytes of a frame arrive, or only the first ones.
Data(all) ==
    LET home == colHome /\ pageHome /\ Frame(register) /\ all
    IN  colHome' = home /\ pageHome' = home /\ whole' = home

-------------------------------------------------------------------------------
OledInit ==
    /\ sentBytes = 0 /\ initialising = TRUE
    /\ expects = <<>> /\ colHome = FALSE /\ pageHome = FALSE /\ whole = FALSE
    /\ register = [r \in {"mode", "x0", "x1", "p0", "p1", "line", "other"} |->
                      IF r = "mode" THEN 2 ELSE 0]
    /\ lost = 0 /\ setUp = TRUE /\ clean = 0

\* A transaction fails: nothing reaches the display.
Fails == lost < MaxLost /\ lost' = lost + 1
NothingArrives == UNCHANGED <<expects, register, colHome, pageHome>>

\* send_cmd in init.
SendInit ==
    /\ initialising
    /\ IF sentBytes + 1 = Len(InitCommands)
       THEN sentBytes' = 0 /\ initialising' = FALSE
       ELSE sentBytes' = sentBytes + 1 /\ UNCHANGED initialising
    /\ \/ Command(InitCommands[sentBytes + 1]) /\ UNCHANGED <<lost, setUp>>
       \/ Fails /\ setUp' = FALSE /\ NothingArrives
    /\ UNCHANGED <<whole, clean>>

\* send_cmd in show.
SendShow ==
    /\ ~initialising /\ sentBytes < Len(ShowCommands)
    /\ sentBytes' = sentBytes + 1
    /\ \/ /\ Command(ShowCommands[sentBytes + 1])
          /\ clean' = IF sentBytes = 0 /\ clean < 2 THEN clean + 1 ELSE clean
          /\ UNCHANGED lost
       \/ Fails /\ clean' = 0 /\ NothingArrives
    /\ UNCHANGED <<initialising, whole, setUp>>

\* The frame, at one go: it all arrives, the first bytes do, or nothing.
SendFrame ==
    /\ ~initialising /\ sentBytes = Len(ShowCommands)
    /\ sentBytes' = 0
    /\ \/ Data(TRUE) /\ UNCHANGED <<lost, clean>>
       \/ Fails /\ Data(FALSE) /\ clean' = 0
       \/ Fails /\ clean' = 0 /\ UNCHANGED <<colHome, pageHome, whole>>
    /\ UNCHANGED <<initialising, expects, register, setUp>>

OledNext == SendInit \/ SendShow \/ SendFrame

OledSpec == OledInit /\ [][OledNext]_oledVars

-------------------------------------------------------------------------------
\* Whatever was lost before, once two frames got through the second is where it
\* belongs in the display's memory: a lost parameter may spoil the first of them,
\* but no more.  (The line the picture starts with may stay spoiled: only init
\* sets it.)
PictureHeals == setUp /\ clean = 2 /\ sentBytes = 0 => whole
===============================================================================

---------------------------- MODULE MCUserInterface ---------------------------
(* Small instances: the targets 0 and 1 with empty strings, or one target with *)
(* strings of one dot.                                                         *)
EXTENDS UserInterface

JustDot == {Dot}

\* Storage's part in it is to make room for commands, whichever they are.
Alike(command) == "a command"

\* Nobody here reads the storage queue, and a store goes on whether it is full
\* or not, so it does not tell states apart.  Where there is one character, no
\* rotation has an effect on the network screen, and the press that leaves it
\* resets the direction.  The handler's copies of the strings do not count on the
\* status screen: the press that leaves it empties them first.
View == <<mail, sUpdateDisplay, hpc, outbox, mState, mNetworkPhase,
          mCO2TargetCurrent, mCO2TargetPending, mCharPending,
          IF mState = "STATUS" THEN mPrevRotation ELSE mNetworkStrings, displayVars>>
===============================================================================

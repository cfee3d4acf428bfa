----------------------------- MODULE MCPersistence ----------------------------
(* Two characters, neighbours for the rotor; one kind of string at a time.     *)
EXTENDS Persistence

DotAndA == {Dot, UpperA}

Itself(command) == command

\* Where a rotation may change what is watched.
Turning == IF mState = "STATUS" THEN watched = "CO2_target" ELSE mNetworkPhase = watched

\* Nobody here takes sUpdateDisplay or reads Display's mailboxes.  Storage's
\* copies do not count once they are processed: they are written before they are
\* read again.  An unwatched entry only counts at boot, where an empty string is
\* the same as no string.  A rotation elsewhere has no effect within the bound,
\* and a press forgets it.
View == <<[c \in Commands |-> mail[Box(c)]], qStorageQueue, hpc, outbox, mState,
          mNetworkPhase, mCO2TargetCurrent, mCO2TargetPending, mCharPending,
          mNetworkStrings, IF Turning THEN mPrevRotation ELSE "UNKNOWN",
          spc, mLostStores, watchVars,
          IF spc \in {"peek", "put", "writing"} THEN storageData ELSE Unknown,
          IF spc \in {"pending", "put", "writing"} THEN saved ELSE Unknown,
          [c \in Commands |-> IF c \in PhaseSet \ {watched} /\ eeprom[c] = <<>>
                             THEN Empty ELSE eeprom[c]]>>

\* Bound: characters are entered into the watched string only, and there is a
\* target, and it is turned, only if the target is watched.
Focus ==
    /\ \A p \in PhaseSet \ {watched} : mNetworkStrings[p] = <<>>
    /\ mCharPending # INIT_CHAR => mNetworkPhase = watched
    /\ watched # "CO2_target" =>
          mCO2TargetPending = 0 /\ mail["qCO2TargetCurrent"] = Empty
===============================================================================

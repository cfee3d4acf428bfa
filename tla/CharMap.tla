------------------------------- MODULE CharMap --------------------------------
(***************************************************************************)
(* The character the rotor points at, SwitchHandler::inc_pending_char and   *)
(* dec_pending_char (src/src/taskers/SwitchHandler.cpp 300-382).  A         *)
(* character is its ASCII code; each function maps it to the next one, or   *)
(* to itself where the code ignores the rotation and returns false.         *)
(***************************************************************************)
EXTENDS Integers

\* The codes of the characters the code names.
Exclamation == 33       Minus       == 45       Dot         == 46
Slash       == 47       Zero        == 48       Nine        == 57
Colon       == 58       At          == 64       UpperA      == 65
UpperZ      == 90       OpenBracket == 91       Backtick    == 96
LowerA      == 97       LowerZ      == 122      OpenBrace   == 123
Tilde       == 126

INIT_CHAR == Dot

isupper(c) == UpperA <= c /\ c <= UpperZ
islower(c) == LowerA <= c /\ c <= LowerZ
toupper(c) == c - (LowerA - UpperA)
tolower(c) == c + (LowerA - UpperA)

\* The switch statements: where the order leaves that of the codes.
incTable == [c \in {Nine, Dot, LowerZ, Minus, Slash, At, Backtick, Tilde} |->
                CASE c = Nine     -> Dot
                  [] c = Dot      -> UpperA
                  [] c = LowerZ   -> Exclamation
                  [] c = Minus    -> Slash
                  [] c = Slash    -> Colon
                  [] c = At       -> OpenBracket
                  [] c = Backtick -> OpenBrace
                  [] c = Tilde    -> Tilde]

decTable == [c \in {Zero, Dot, UpperA, Exclamation, Slash, Colon, OpenBracket,
                    OpenBrace} |->
                CASE c = Zero        -> Zero
                  [] c = Dot         -> Nine
                  [] c = UpperA      -> Dot
                  [] c = Exclamation -> LowerZ
                  [] c = Slash       -> Minus
                  [] c = Colon       -> Slash
                  [] c = OpenBracket -> At
                  [] c = OpenBrace   -> Backtick]

inc_pending_char(c) ==
    IF isupper(c) THEN tolower(c)
    ELSE IF islower(c) /\ c # LowerZ THEN toupper(c) + 1
    ELSE IF c \in DOMAIN incTable THEN incTable[c]
    ELSE c + 1

dec_pending_char(c) ==
    IF islower(c) THEN toupper(c)
    ELSE IF isupper(c) /\ c # UpperA THEN tolower(c) - 1
    ELSE IF c \in DOMAIN decTable THEN decTable[c]
    ELSE c - 1

===============================================================================

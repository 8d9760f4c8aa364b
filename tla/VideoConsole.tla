----------------------------- MODULE VideoConsole -----------------------------
(***************************************************************************)
(* The third stage's console: video_print and video_print_hexa store two   *)
(* bytes per character from start_location on, scroll when they reach the  *)
(* end of the screen exactly, and never move start_location back.          *)
(*                                                                         *)
(* Addresses count from the start of the screen, 0xB8000.  The screen lies *)
(* in the middle of the 64K in which BX wraps.  Lines and the window are   *)
(* scaled by 16 and by 482: as in the code, neither half a window nor a    *)
(* whole one holds a whole number of rows.  What is followed is where each *)
(* character of the last message is.                                       *)
(***************************************************************************)
EXTENDS Integers, Sequences

CONSTANTS
    Row,        \* bytes of a row: 160
    Rows,       \* rows of the screen: 25
    HalfWindow, \* 32768
    Digits,     \* digits video_print_hexa prints: 16
    Lengths     \* lengths of the messages, and of what hexa prints after them

ASSUME GeometryAssumption ==
    /\ Row \in Nat /\ Row % 2 = 0 /\ Row > 0
    /\ Rows \in Nat /\ Rows >= 3
    /\ HalfWindow \in Nat /\ HalfWindow >= (Rows + 1) * Row
ASSUME TextAssumption ==
    Digits \in Nat \ {0} /\ 2 * Digits <= Row /\ Lengths \subseteq Nat

Window  == 2 * HalfWindow
Screen  == Rows * Row           \* 0xB8FA0
LastRow == Screen - Row         \* 0xB8F00
Gone    == -Window              \* the place of a character overwritten

VARIABLES
    pc,
    start,      \* start_location
    rbx, cx,
    left,       \* characters or digits still to print
    end,        \* the character that ends the message: 13 or 0
    kind,       \* what is being printed, or was last: message or number
    from,       \* history: start_location when it began
    shown       \* where its characters are

vars == <<pc, start, rbx, cx, left, end, kind, from, shown>>

Init ==
    /\ pc = "idle" /\ start = 0 /\ rbx = 0 /\ cx = 0 /\ left = 0
    /\ end = "newline" /\ kind = "message" /\ from = 0 /\ shown = <<>>

-----------------------------------------------------------------------------
\* BX is a word: the upper half of the address never changes.
Cell(location) == ((HalfWindow + location) % Window) - HalfWindow

\* copy_up moves all rows but the first; clear_last_line counts pairs of bytes
\* as bytes and clears a row more than the last.
Scrolled(place) ==
    CASE place \in 0 .. Row - 1               -> Gone
      [] place \in Row .. Screen - 1          -> place - Row
      [] place \in Screen .. Screen + Row - 1 -> Gone
      [] OTHER                                -> place
Scroll(places) == [k \in DOMAIN places |-> Scrolled(places[k])]

Begin(what, routine, characters) ==
    /\ pc = "idle"
    /\ pc' = routine /\ left' = characters
    /\ kind' = what /\ from' = start
    /\ rbx' = Cell(start) /\ shown' = <<>>

VideoPrint(length, last) ==
    /\ Begin("message", "video_print_loop", length)
    /\ end' = last /\ cx' = 0
    /\ UNCHANGED start

Store(places) == IF kind = "message" THEN Append(shown, places) ELSE shown

PutCharacter ==
    /\ pc = "video_print_loop" /\ left > 0 /\ rbx # Screen
    /\ shown' = Store(rbx)
    /\ rbx' = rbx + 2 /\ cx' = cx + 2 /\ left' = left - 1
    /\ UNCHANGED <<pc, start, end, kind, from>>

\* Mutant of ScrollUp: the character that would not fit is kept in AL.
ScrollKeepingAl ==
    /\ pc = "video_print_loop" /\ left > 0 /\ rbx = Screen
    /\ shown' = IF kind = "message" THEN Append(Scroll(shown), LastRow)
                ELSE Scroll(shown)
    /\ rbx' = LastRow + 2 /\ cx' = cx + 2 /\ left' = left - 1
    /\ UNCHANGED <<pc, start, end, kind, from>>

\* Copying goes through RAX, whose low byte is the character to print: a 0 is
\* stored in its place.
ScrollUp ==
    /\ pc = "video_print_loop" /\ left > 0 /\ rbx = Screen
    /\ shown' = IF kind = "message" THEN Append(Scroll(shown), Gone)
                ELSE Scroll(shown)
    /\ rbx' = LastRow + 2 /\ cx' = cx + 2 /\ left' = left - 1
    /\ UNCHANGED <<pc, start, end, kind, from>>

Finish(location) ==
    /\ pc = "video_print_loop" /\ left = 0
    /\ pc' = "idle" /\ start' = location
    /\ UNCHANGED <<rbx, cx, left, end, kind, from, shown>>

\* Mutant: a sum that does not fit in AX is not stored.
NewlineSaturated ==
    /\ end = "newline"
    /\ Finish(IF start + Row < Window THEN ((start + Row) \div Row) * Row
              ELSE start)

\* 13: to the start of the next row, in 16 bits.
Newline ==
    /\ end = "newline"
    /\ Finish((((start + Row) % Window) \div Row) * Row)

\* Mutant: the sum is kept in more than 16 bits.
ZeroWide == end = "zero" /\ Finish(start + cx)

\* 0: CX, two per character, is added.
Zero == end = "zero" /\ Finish((start + cx) % Window)

VideoPrintHexa ==
    /\ Begin("number", "hexa_loop", Digits)
    /\ cx' = Digits
    /\ UNCHANGED <<start, end>>

HexaDigit ==
    /\ pc = "hexa_loop" /\ left > 0 /\ rbx # Screen
    /\ shown' = Append(shown, rbx)
    /\ rbx' = rbx + 2 /\ cx' = cx - 1 /\ left' = left - 1
    /\ UNCHANGED <<pc, start, end, kind, from>>

\* After the last digit, or at the end of the screen, the routine scrolls; JNE
\* names clear_last_line of video_print and leaves it there for good.  A 0 is
\* stored, and RSI, the last digit, is taken for the address of a message.
HexaFallsThrough ==
    /\ pc = "hexa_loop" /\ (left = 0 \/ rbx = Screen)
    /\ shown' = Scroll(shown)
    /\ rbx' = LastRow + 2 /\ cx' = cx + 2
    /\ pc' = "video_print_loop"
    /\ left' \in Lengths /\ end' \in {"newline", "zero"}
    /\ UNCHANGED <<start, kind, from>>

Put == PutCharacter \/ ScrollUp \/ Newline \/ Zero \/ HexaDigit
          \/ HexaFallsThrough
Line == \E length \in Lengths : VideoPrint(length, "newline")
Next ==
    \/ Line
    \/ \E length \in Lengths : VideoPrint(length, "zero")
    \/ VideoPrintHexa
    \/ Put

\* The kernel prints a line for every page it maps.
Spec == Init /\ [][Next]_vars /\ WF_vars(Put) /\ SF_vars(Line)

-----------------------------------------------------------------------------
\* Within a call RBX counts in 64 bits: a message that leaves the window is
\* stored on above it, and never below.
Stored == {place \in Int : place >= -HalfWindow}
Places == Stored \union {Gone}

TypeOK ==
    /\ pc \in {"idle", "video_print_loop", "hexa_loop"}
    /\ start \in 0 .. Window - 1 /\ from \in 0 .. Window - 1
    /\ rbx \in Stored /\ cx \in Nat /\ left \in Nat
    /\ end \in {"newline", "zero"} /\ kind \in {"message", "number"}
    /\ shown \in Seq(Places)

Visible == {k \in DOMAIN shown : shown[k] \in 0 .. Screen - 1}

\* What of a message of at most one row is on the screen once it is printed:
\* all of it where it fits, all but the character at the end of the screen
\* where it scrolls, and nothing below the screen.
MessageVisible ==
    LET n == Len(shown)
        last == from + 2 * n
    IN pc = "idle" /\ kind = "message" /\ 2 * n <= Row =>
        /\ last <= Screen => Visible = 1 .. n
        /\ from <= Screen /\ last > Screen /\ from % 2 = 0 =>
              Visible = (1 .. n) \ {(Screen - from) \div 2 + 1}
        /\ from > Screen /\ last <= Window => Visible = {}

\* As long as what is taken for a message after it fits in the last row, a
\* number ends up one row higher than it was printed: lost from the first row,
\* whole from every other that is on the screen.
NumberVisible ==
    pc = "idle" /\ kind = "number" /\ cx <= Row =>
        /\ from + 2 * Digits <= Row => Visible = {}
        /\ Row <= from /\ from + 2 * Digits <= Screen => Visible = 1 .. Digits

\* From the start of a row a message no longer than the part of a row at the
\* end of the window (64 characters) is stored inside the window.
InsideWindow ==
    from % Row = 0 /\ kind = "message" /\ 2 * Len(shown) <= HalfWindow % Row
        => rbx <= HalfWindow

ShownWhereExpected == MessageVisible /\ NumberVisible /\ InsideWindow

\* Output that has left the screen comes back when start_location wraps.
OutputComesBack == []<>(pc = "idle" /\ start < Screen)
=============================================================================

----------------------------- MODULE LineEditor -----------------------------
(***************************************************************************)
(* getline of src/src/main.c: one character of the UART at a time into a   *)
(* buffer of `max' characters, with backspace, echoed to a terminal.  The  *)
(* UART's receive FIFO is the queue `rx' (characters that find it full are *)
(* lost).  `screen' is the line of the terminal to the left of and under   *)
(* the cursor, `cursor' its column after the prompt; what a terminal does  *)
(* with \b, a space and a printable character is external.  `line' is what *)
(* the last getline returned, up to the terminator.                        *)
(***************************************************************************)
EXTENDS Naturals, Sequences, SequencesExt

CONSTANTS Chars,   \* printable characters
          max,     \* CMD_MAX
          Fifo     \* depth of the receive FIFO

ASSUME EditorAssumption == max \in Nat \ {0} /\ Fifo \in Nat \ {0} /\ " " \notin Chars

Enter == "enter"
Backspace == "backspace"
Blank == " "

VARIABLES rx, buf, i, screen, cursor, line

lineVars == <<rx, buf, i, screen, cursor, line>>

Free == "free"   \* a byte of the caller's array nothing was written to
Nul == "nul"

\* The terminal: a printable character overwrites and advances.
Shown(s, col, c) == IF col < Len(s) THEN [s EXCEPT ![col + 1] = c] ELSE Append(s, c)

LineInit == /\ rx = << >> /\ buf = [k \in 0..(max - 1) |-> Free] /\ i = 0
            /\ screen = << >> /\ cursor = 0 /\ line = << >>

\* A key is pressed; the FIFO takes the character if it has room.
Key(c) == /\ Len(rx) < Fifo
          /\ rx' = Append(rx, c)
          /\ UNCHANGED <<buf, i, screen, cursor, line>>

\* The C string in b: the bytes before the first terminator.
StringIn(b) ==
    LET n == CHOOSE n \in 0..max : /\ \A k \in 0..(n - 1) : b[k] # Nul
                                   /\ n = max \/ b[n] = Nul
    IN  [k \in 1..n |-> b[k - 1]]

\* Mutant: the line is not terminated.
EnterNoNul ==
    /\ Head(rx) = Enter
    /\ line' = StringIn(buf)
    /\ i' = 0 /\ screen' = << >> /\ cursor' = 0
    /\ UNCHANGED buf

\* ENTER: a new terminal line, the terminator, and the next call of getline.
ReadEnter ==
    /\ Head(rx) = Enter
    /\ buf' = [buf EXCEPT ![i] = Nul]
    /\ line' = StringIn(buf')
    /\ i' = 0 /\ screen' = << >> /\ cursor' = 0

\* Backspace: "\b \b" steps left, overwrites with a space, steps left.
ReadBackspace ==
    /\ Head(rx) = Backspace
    /\ IF i > 0
         THEN /\ i' = i - 1
              /\ cursor' = cursor - 1
              /\ screen' = Shown(screen, cursor - 1, Blank)
         ELSE UNCHANGED <<i, screen, cursor>>
    /\ UNCHANGED <<buf, line>>

\* A character: kept and echoed while there is room for the terminator.
ReadChar ==
    /\ Head(rx) \in Chars
    /\ IF i < max - 1
         THEN /\ buf' = [buf EXCEPT ![i] = Head(rx)] /\ i' = i + 1
              /\ screen' = Shown(screen, cursor, Head(rx)) /\ cursor' = cursor + 1
         ELSE UNCHANGED <<buf, i, screen, cursor>>
    /\ UNCHANGED line

\* A turn of getline's loop that finds a character.
Read == /\ rx # << >>
        /\ ReadEnter \/ ReadBackspace \/ ReadChar
        /\ rx' = Tail(rx)

LineNext == Read \/ \E c \in Chars \cup {Enter, Backspace} : Key(c)

LineSpec == LineInit /\ [][LineNext]_lineVars
-----------------------------------------------------------------------------
\* The types; i leaves room for the terminator, which buf[i] = '\0' needs.
LineTypeOK ==
    /\ rx \in BoundedSeq(Chars \cup {Enter, Backspace}, Fifo)
    /\ buf \in [0..(max - 1) -> Chars \cup {Free, Nul}]
    /\ i \in 0..(max - 1) /\ cursor \in Nat /\ screen \in Seq(Chars \cup {Blank})
    /\ line \in BoundedSeq(Chars, max - 1)

(* What the user sees is what the shell will get: up to the cursor the     *)
(* terminal shows exactly the characters kept so far, and blanks after it, *)
(* through any mix of overflow and backspace.                              *)
EchoMatchesBuffer ==
    /\ cursor = i
    /\ SubSeq(screen, 1, cursor) = [k \in 1..i |-> buf[k - 1]]
    /\ \A k \in (cursor + 1)..Len(screen) : screen[k] = Blank

(* No character typed earlier in the line leaks into the command: what     *)
(* getline returns is what the terminal showed before ENTER.               *)
LineAsShown ==
    [][line' # line => line' = SubSeq(screen, 1, cursor)]_lineVars
=============================================================================

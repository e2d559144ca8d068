------------------------------ MODULE PrintInt ------------------------------
(***************************************************************************)
(* uart_print_int of src/src/uart.c: division by repeated subtraction into *)
(* a buffer of BufSize digits, which is then sent backwards.  A digit is   *)
(* its value, `rest' is the code's n, `digits' its buf and `sent' the      *)
(* characters sent.                                                        *)
(***************************************************************************)
EXTENDS Integers, Sequences

CONSTANTS Inputs, BufSize

ASSUME PrintAssumption == Inputs \subseteq Int /\ BufSize \in Nat

VARIABLES ppc, n0, rest, digit, digits, sent

printVars == <<ppc, n0, rest, digit, digits, sent>>

PrintInit == /\ n0 \in Inputs /\ rest = n0 /\ digit = 0
             /\ digits = << >> /\ sent = << >> /\ ppc = "start"

\* if (n == 0)
TestZero ==
    /\ ppc = "start"
    /\ IF rest = 0 THEN sent' = <<0>> /\ ppc' = "done"
                   ELSE sent' = sent /\ ppc' = "while"
    /\ UNCHANGED <<n0, rest, digit, digits>>

\* while (n > 0): another digit, or the end (for a negative n at once).
While == /\ ppc = "while"
         /\ IF rest > 0 THEN ppc' = "inner" /\ digit' = 0 ELSE ppc' = "send" /\ digit' = digit
         /\ UNCHANGED <<n0, rest, digits, sent>>


TenLeft == rest >= 10

Subtract == /\ ppc = "inner" /\ TenLeft
            /\ rest' = rest - 10 /\ digit' = digit + 1
            /\ UNCHANGED <<ppc, n0, digits, sent>>

StoreDigit == /\ ppc = "inner" /\ ~TenLeft
              /\ digits' = Append(digits, rest)
              /\ rest' = digit /\ ppc' = "while"
              /\ UNCHANGED <<n0, digit, sent>>

Send == /\ ppc = "send"
        /\ IF digits = << >> THEN ppc' = "done" /\ UNCHANGED <<digits, sent>>
           ELSE /\ sent' = Append(sent, digits[Len(digits)])
                /\ digits' = SubSeq(digits, 1, Len(digits) - 1)
                /\ ppc' = ppc
        /\ UNCHANGED <<n0, rest, digit>>

PrintNext == TestZero \/ While \/ Subtract \/ StoreDigit \/ Send

PrintSpec == PrintInit /\ [][PrintNext]_printVars
-----------------------------------------------------------------------------
\* The digits are digits and fit the buffer.
PrintTypeOK ==
    /\ ppc \in {"start", "while", "inner", "send", "done"} /\ rest \in Int /\ digit \in Nat
    /\ digits \in Seq(0..9) /\ Len(digits) <= BufSize /\ sent \in Seq(0..9)

Value(ds) == LET val[k \in 0..Len(ds)] == IF k = 0 THEN 0 ELSE 10 * val[k - 1] + ds[k]
             IN  val[Len(ds)]

(* Every number that is not negative is printed as its decimal numeral,    *)
(* without leading zeros; a negative one prints nothing.                   *)
PrintsNumeral ==
    ppc = "done" => IF n0 < 0 THEN sent = << >>
                   ELSE /\ Value(sent) = n0 /\ \A k \in DOMAIN sent : sent[k] \in 0..9
                        /\ n0 > 0 => sent[1] # 0
=============================================================================

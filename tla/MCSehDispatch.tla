--------------------------- MODULE MCSehDispatch ---------------------------
(* SehDispatch for a program of four functions: main without a table, f    *)
(* with two nested scopes, g with one, h with a foreign frame.             *)
EXTENDS SehDispatch

Ff == 999          \* 0xFFFFFFFF
Question == 100    \* a filter
MCAnswers == {-1, 0, 1}

MCFunc == {"main", "f", "g", "h"}
MCCode == [f \in Func |-> CASE f = "main" -> {1} [] f = "f" -> 10 .. 14 [] f = "g" -> 20 .. 22
                            [] f = "h" -> {30}]
MCEntry == [f \in Func |-> CASE f = "main" -> 1 [] f = "f" -> 10
                             [] f = "g" -> 20   [] f = "h" -> 30]
MCLevelAt == [a \in 1 .. 40 |-> CASE a \in {11, 13, 21} -> 0 [] a = 12 -> 1 [] OTHER -> -1]

(* The table of f: the outer scope covers 11 .. 13 and is handled at 14,   *)
(* the inner one covers 12 and is handled at its end.  Then that of g.     *)
MCWord == <<Ff, 11, 14, Question, 14, 12, 13, Question, 0,
            Ff, 21, 22, 0, 0>>
MCTable == [f \in Func |-> CASE f = "f" -> 1 [] f \in {"g", "h"} -> 10 [] OTHER -> None]
MCScopes == [f \in Func |-> CASE f = "f" -> 2 [] f \in {"g", "h"} -> 1 [] OTHER -> 0]

Own == [f \in Func |-> {"own"}]
Injected == [f \in Func |-> CASE f = "g" -> {"head"} [] f = "f" -> {"own", "head"}
                              [] OTHER -> {"own"}]

(* Where RSP is saved: f is translated without its record in sight.        *)
Moved == [f \in Func |-> SehRbpLocalDisp(-24, TRUE)]
Mixed == [f \in Func |-> SehRbpLocalDisp(-24, f # "f")]

(* Tables as _synthesize_seh_scopes_for_push_sites appends them, one for   *)
(* each function: the sentinel, one record, and a record of zeros.         *)
SynthWord == SynthesizedTable(Ff, 10, 14) \o SynthesizedTable(Ff, 20, 22)
               \o SynthesizedTable(Ff, 30, 31)
SynthTable == [f \in Func |-> CASE f = "f" -> 1 [] f = "g" -> 10 [] f = "h" -> 19 [] OTHER -> None]
SynthScopes == [f \in Func |-> IF f \in {"f", "g", "h"} THEN 2 ELSE 0]
SynthLevelAt == [a \in 1 .. 40 |-> IF a \in 11 .. 13 THEN 4 ELSE -1]
=============================================================================

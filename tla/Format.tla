------------------------------- MODULE Format -------------------------------
(***************************************************************************)
(* vsnprintf and printint of the string library (libstring/string.c).      *)
(*                                                                         *)
(* A format is a sequence of items, a plain character or a conversion with *)
(* the argument that va_arg gives it; an argument is a number or, for %s,  *)
(* a sequence of characters.                                               *)
(***************************************************************************)
EXTENDS Integers, Sequences, SequencesExt

Plain(c)      == [conv |-> "plain", arg |-> c]
Item(conv, a) == [conv |-> conv, arg |-> a]

Base == [i |-> 10, u |-> 10, h |-> 16, b |-> 2]

Digit == <<"0", "1", "2", "3", "4", "5", "6", "7", "8", "9",
           "a", "b", "c", "d", "e", "f">>

(* As many of the characters s as there is room for.                       *)
Cut(s, room) == SubSeq(s, 1, IF room <= Len(s) THEN room ELSE Len(s))

(* printint's first loop: the digits of i, at least one, the last first.   *)
(* rest[c] is its i after c turns.                                         *)
Reversed(i, base) ==
  LET rest[c \in Nat] == IF c = 0 THEN i ELSE rest[c - 1] \div base
      turns == CHOOSE c \in 1 .. i + 1 : rest[c] = 0 /\ \A d \in 1 .. c - 1 : rest[d] > 0
  IN  [c \in 1 .. turns |-> Digit[(rest[c - 1] % base) + 1]]

(* Fault: the digits are copied in the order in which they were found. *)
FaultLastFirst(max, i, base) == Cut(Reversed(i, base), max)

(* Its second loop copies them from the back, as many as there is room.    *)
printint(max, i, base) == Cut(Reverse(Reversed(i, base)), max)

(* %i: the sign first, and nothing more when it took the last place.       *)
Signed(str, max, i) ==
  LET signed == IF i < 0 THEN Append(str, "-") ELSE str
  IN  IF Len(signed) >= max THEN signed
      ELSE signed \o printint(max - Len(signed), IF i < 0 THEN -i ELSE i, Base.i)

Convert(str, max, item) ==
  IF item.conv \in {"plain", "c"} THEN Append(str, item.arg)
  ELSE IF item.conv = "s"
  THEN str \o Cut(item.arg, max - Len(str))
  ELSE IF item.conv = "i" THEN Signed(str, max, item.arg)
  ELSE str \o printint(max - Len(str), item.arg, Base[item.conv])

(* The loop of vsnprintf ends when str is full; the zero byte it writes    *)
(* after the characters is not part of the sequence.                       *)
vsnprintf(max, fmt) ==
  LET str[k \in 0 .. Len(fmt)] ==
        IF k = 0 THEN <<>>
        ELSE IF Len(str[k - 1]) < max THEN Convert(str[k - 1], max, fmt[k])
        ELSE str[k - 1]
  IN  str[Len(fmt)]

-----------------------------------------------------------------------------
(* What the functions are for. *)

(* The powers of base. *)
Power(base) == LET p[k \in Nat] == IF k = 0 THEN 1 ELSE base * p[k - 1] IN p

(* i as it is written with digits of base: as few as it takes. *)
Numeral(i, base) ==
  LET size == CHOOSE k \in 1 .. i + 1 :
                i < Power(base)[k] /\ (k > 1 => i >= Power(base)[k - 1])
  IN  [k \in 1 .. size |-> Digit[((i \div Power(base)[size - k]) % base) + 1]]

(* All the text of an item and of a format. *)
Text(item) ==
  IF item.conv \in {"plain", "c"} THEN <<item.arg>>
  ELSE IF item.conv = "s" THEN item.arg
  ELSE IF item.arg < 0 THEN <<"-">> \o Numeral(-item.arg, Base[item.conv])
  ELSE Numeral(item.arg, Base[item.conv])

FullText(fmt) ==
  LET text[k \in 0 .. Len(fmt)] ==
        IF k = 0 THEN <<>> ELSE text[k - 1] \o Text(fmt[k])
  IN  text[Len(fmt)]

(* What a conversion finds among the arguments: a number with a sign, one  *)
(* without, or a string.                                                   *)
IsItem(item) ==
  \/ item.conv \in {"plain", "c"}
  \/ item.conv = "s" /\ item.arg \in Seq(ToSet(item.arg))
  \/ item.conv = "i" /\ item.arg \in Int
  \/ item.conv \in {"u", "h", "b"} /\ item.arg \in Nat

IsFormat(fmt) == fmt \in Seq(ToSet(fmt)) /\ \A item \in ToSet(fmt) : IsItem(item)

(* str is the beginning of the text, all of it that there is room for.     *)
FormatsRight(fmt, str, max) == str = Cut(FullText(fmt), max)
=============================================================================

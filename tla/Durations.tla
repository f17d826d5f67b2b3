----------------------------- MODULE Durations -----------------------------
(***************************************************************************)
(* model/duration.go: amounts of work time, whole minutes in memory, texts *)
(* such as "2h" or "1.5d" in files and in the columns of the database.     *)
(*                                                                         *)
(* A text is [neg, tenths, unit]: its number, in tenths, of "h", "d", "w"  *)
(* or "m" (a month of 20 days), as String writes it and as files use it.   *)
(*                                                                         *)
(* Both directions go through a float64.  The two constants say where the  *)
(* float differs from the number: Short holds the decimals whose product   *)
(* with the minutes of the unit falls just below the whole number, of      *)
(* which the conversion to int64 then drops a minute ("8.2h" is 491        *)
(* minutes); TiesUp holds the minutes that lie halfway between two tenths  *)
(* of an hour and are printed as the upper one.                            *)
(***************************************************************************)
EXTENDS Integers

CONSTANTS Short,  \* << tenths, unit >> that lose a minute when parsed
          TiesUp  \* minutes, 3 more than a multiple of 6, that round up

Units == {"h", "d", "w", "m"}

MinutesPer(unit) ==
  IF unit = "h" THEN 60 ELSE IF unit = "d" THEN 480 ELSE IF unit = "w" THEN 2400 ELSE 9600

\* A whole number of units is exact in a float64.
ASSUME DurationsAssumption ==
  /\ Short \subseteq Nat \X Units
  /\ \A s \in Short : s[1] % 10 # 0
  /\ TiesUp \subseteq Nat

Text == [neg : BOOLEAN, tenths : Nat, unit : Units]

Signed(neg, n) == IF neg THEN -n ELSE n

\* ParseDuration: the product is cut off towards zero.
MinutesOf(text) ==
  Signed(text.neg,
         (text.tenths * MinutesPer(text.unit)) \div 10
           - (IF << text.tenths, text.unit >> \in Short THEN 1 ELSE 0))

\* The largest unit of which mins is a whole number; "" when there is none.
WholeUnit(mins) ==
  IF mins % 9600 = 0 THEN "m"
  ELSE IF mins % 2400 = 0 THEN "w"
  ELSE IF mins % 480 = 0 THEN "d"
  ELSE IF mins % 60 = 0 THEN "h" ELSE ""

\* "%.1f" of the hours, in tenths.
Tenths(mins) ==
  IF mins % 6 < 3 \/ (mins % 6 = 3 /\ mins \notin TiesUp)
  THEN mins \div 6 ELSE mins \div 6 + 1

\* Faulty variant: the sign is forgotten where there is a fraction.
TextOfUnsigned(d) ==
  LET mins == IF d < 0 THEN -d ELSE d
      unit == WholeUnit(mins)
  IN IF d = 0 THEN [neg |-> FALSE, tenths |-> 0, unit |-> "h"]
     ELSE IF unit = "" THEN [neg |-> FALSE, tenths |-> Tenths(mins), unit |-> "h"]
     ELSE [neg |-> d < 0, tenths |-> 10 * (mins \div MinutesPer(unit)), unit |-> unit]

\* Duration.String
TextOf(d) ==
  LET mins == IF d < 0 THEN -d ELSE d
      unit == WholeUnit(mins)
  IN IF d = 0 THEN [neg |-> FALSE, tenths |-> 0, unit |-> "h"]
     ELSE IF unit = "" THEN [neg |-> d < 0, tenths |-> Tenths(mins), unit |-> "h"]
     ELSE [neg |-> d < 0, tenths |-> 10 * (mins \div MinutesPer(unit)), unit |-> unit]

\* What a duration has become when it has been written and read again.
Reread(d) == MinutesOf(TextOf(d))

=============================================================================

-------------------------------- MODULE Units ---------------------------------
(***************************************************************************)
(* The number a value with a unit stands for, in the unit of its setting   *)
(* (human_to_number in plugins/pgconf/functions.py), with which a posted   *)
(* value is compared to the bounds of the setting.  A number is            *)
(* num * 1024^kilo * times / over, its parts kept apart.                   *)
(***************************************************************************)
EXTENDS Integers, Sequences

(* YB before ZB, as in the code. *)
units == <<"B", "KB", "MB", "GB", "TB", "PB", "EB", "YB", "ZB">>
Sizes == {units[k] : k \in DOMAIN units}
place(unit) == CHOOSE k \in DOMAIN units : units[k] = unit

(* How many of the setting's unit a unit is; less than none, how many of   *)
(* it the setting's unit is.  0.001 is -1000 here.                         *)
NoUnit == "none"
mult ==
    [ms |-> [us |-> -1000, ms |-> 1, s |-> 1000, min |-> 60000, h |-> 3600000, d |-> 86400000],
     s |-> [ms |-> -1000, s |-> 1, min |-> 60, h |-> 3600, d |-> 86400],
     min |-> [ms |-> -60000, s |-> -60, min |-> 1, h |-> 60, d |-> 1440],
     h |-> [ms |-> -3600000, s |-> -3600, min |-> -60, h |-> 1, d |-> 24],
     d |-> [ms |-> -86400000, s |-> -86400, min |-> -1440, h |-> -24, d |-> 1]]
NoMult == [ms |-> 1, s |-> 1, min |-> 1, h |-> 1, d |-> 1]
Times == {"us", "ms", "s", "min", "h", "d"}
MultOf(h_unit) == IF h_unit \in DOMAIN mult THEN mult[h_unit] ELSE NoMult

Number(num, kilo, times, over) == [num |-> num, kilo |-> kilo, times |-> times, over |-> over]
KeyError == Number(0, 0, 0, 0)

(* Bug variant: the count of steps is not reset at the setting's unit. *)
kilos_from_bytes(p_unit, h_unit) == place(p_unit) - 1

(* The steps from the setting's unit to the value's, in the order of       *)
(* units; from 'B' if the setting's is no size or comes after.             *)
kilos(p_unit, h_unit) ==
    IF h_unit \in Sizes /\ place(h_unit) <= place(p_unit)
    THEN place(p_unit) - place(h_unit) ELSE place(p_unit) - 1

(* The factor of a unit like 8kB is that many of it.  The tests call with  *)
(* a number and a unit; a value without unit is returned as it is.         *)
human_to_number(num, p_unit, factor, h_unit) ==
    CASE p_unit = NoUnit -> Number(num, 0, 1, 1)
      [] p_unit \in Sizes -> Number(num, kilos(p_unit, h_unit), 1, factor)
      [] p_unit \notin Sizes \cup DOMAIN MultOf(h_unit) \cup {NoUnit} -> KeyError
      [] OTHER -> LET by == MultOf(h_unit)[p_unit] IN
                  Number(num, 0, IF by > 0 THEN by ELSE 1, IF by > 0 THEN 1 ELSE -by)

-----------------------------------------------------------------------------
(* What the units are, one by one: the reference. *)
Clock == <<"us", "ms", "s", "min", "h", "d">>
Step == <<1000, 1000, 60, 60, 24>>
Bytes == <<"B", "KB", "MB", "GB", "TB", "PB", "EB", "ZB", "YB">>

Rank(scale, unit) == CHOOSE k \in DOMAIN scale : scale[k] = unit
(* The unit of rank j in that of rank i, if i <= j. *)
Ratio(i, j) ==
    LET of[k \in i .. 6] == IF k = i THEN 1 ELSE Step[k - 1] * of[k - 1] IN
    IF i >= j THEN 1 ELSE of[j]

RightSize(n, num, p_unit, factor, h_unit) ==
    n = Number(num, Rank(Bytes, p_unit) - Rank(Bytes, h_unit), 1, factor)
RightTime(n, num, p_unit, h_unit) ==
    n = KeyError
    \/ n = Number(num, 0, Ratio(Rank(Clock, h_unit), Rank(Clock, p_unit)),
                  Ratio(Rank(Clock, p_unit), Rank(Clock, h_unit)))

(* The units PostgreSQL takes in a value, and the units of its settings.   *)
TakenSizes == {"B", "KB", "MB", "GB", "TB"}
SettingSizes == {"B", "KB", "MB"}

(* A value is turned into the number of its setting's units it is, whatever*)
(* the unit of either, unless it is a size in a smaller unit than its      *)
(* setting's; a time of a unit the table lacks is not converted at all.    *)
Right(num, factor) ==
    /\ \A p_unit \in TakenSizes, h_unit \in SettingSizes :
           Rank(Bytes, h_unit) <= Rank(Bytes, p_unit) <=>
           RightSize(human_to_number(num, p_unit, factor, h_unit), num, p_unit, factor, h_unit)
    /\ \A p_unit \in Times, h_unit \in DOMAIN mult :
           RightTime(human_to_number(num, p_unit, factor, h_unit), num, p_unit, h_unit)

===============================================================================

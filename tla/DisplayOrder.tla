---------------------------- MODULE DisplayOrder ----------------------------
(***************************************************************************)
(* display_value_order: the order of display values, as SpecProxyModel     *)
(* sorts the rows of a view by it.                                         *)
(***************************************************************************)
EXTENDS Integers, Sequences

CONSTANTS DisplayValues,  \* values of a column: [type, value], a moment with or without an offset
          Rows,           \* the number of rows
          NaN             \* the value of a number that is none

ASSUME DisplayValuesAssumption ==
    /\ NaN \notin Int
    /\ \A v \in DisplayValues :
         /\ v.value \in Int \/ (v.value = NaN /\ v.type \in {"float", "decimal"})
         /\ "offset" \in DOMAIN v => v.offset \in Int
ASSUME RowsAssumption == Rows \in Nat

VARIABLE column  \* a column, while it is sorted

IsUnknown_None(v) == v.type = "none"

\* _is_unknown(): None, and a number that is NaN.
IsUnknown(v) == v.type = "none" \/ (v.type \in {"float", "decimal"} /\ v.value = NaN)

\* _Group
Group(v) ==
    IF IsUnknown(v) THEN 5
    ELSE CASE v.type \in {"int", "float", "decimal"} -> 0
           [] v.type = "duration" -> 1
           [] v.type = "moment" -> 2
           [] v.type = "text" -> 3
           [] OTHER -> 4

\* _sort_key(): a moment without an offset is read as UTC.
Key(v) == IF "offset" \in DOMAIN v THEN v.value - v.offset ELSE v.value

\* lessThan(): text against text is Qt's, the rest display_value_less_than();
\* a comparison with NaN is false.
LessThan(u, v) ==
    IF Group(u) # Group(v) THEN Group(u) < Group(v)
    ELSE ~IsUnknown(u) /\ NaN \notin {u.value, v.value} /\ Key(u) < Key(v)

OrderInit == column \in [1..Rows -> DisplayValues]

\* Whatever the sort does, it exchanges rows that are out of order.
Sort == \E i \in 1..Rows - 1 :
    /\ LessThan(column[i + 1], column[i])
    /\ column' = [column EXCEPT ![i] = column[i + 1], ![i + 1] = column[i]]

OrderNext == Sort

OrderSpec == OrderInit /\ [][OrderNext]_column
----------------------------------------------------------------------------
\* The order can be sorted by, however a column mixes numbers, NaN, moments with
\* and without an offset, text and None: no two values come before each other,
\* and rows of which each is in order with the next are in order altogether, with
\* what is unknown last.
RowsSort ==
    /\ \A i, j \in DOMAIN column : ~(LessThan(column[i], column[j]) /\ LessThan(column[j], column[i]))
    /\ (\A i \in 1..Rows - 1 : ~LessThan(column[i + 1], column[i])) =>
         \A i, j \in DOMAIN column : i < j => ~LessThan(column[j], column[i]) /\ (IsUnknown(column[i]) => IsUnknown(column[j]))
=============================================================================

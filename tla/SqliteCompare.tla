---------------------------- MODULE SqliteCompare ----------------------------
(***************************************************************************)
(* How SQLite compares a column that CURRENT_TIMESTAMP filled, which is    *)
(* text, with a java.sql.Timestamp that sqlite-jdbc binds, by default as   *)
(* an integer.  Values of different storage classes compare by their class *)
(* alone, and numbers come before text.                                    *)
(***************************************************************************)
CONSTANT TimestampClass     \* the storage class of a bound java.sql.Timestamp

ASSUME ClassAssumption == TimestampClass \in {"integer", "text"}

ColumnClass == "text"

\* a <= b, where valuesAtMost is what the values say when the classes agree.
SqliteAtMost(aClass, bClass, valuesAtMost) ==
    IF aClass = bClass THEN valuesAtMost ELSE aClass = "integer"

\* column <= bound, and bound <= column.
ColumnAtMostBound(valuesAtMost) == SqliteAtMost(ColumnClass, TimestampClass, valuesAtMost)
BoundAtMostColumn(valuesAtMost) == SqliteAtMost(TimestampClass, ColumnClass, valuesAtMost)
=============================================================================

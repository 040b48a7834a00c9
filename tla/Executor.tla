------------------------------ MODULE Executor ------------------------------
(***************************************************************************)
(* Executor: insert() and submit() on the table fns_files of the queries   *)
(* in ExecutorTest and buildSql, with the columns f_key, f_body_xml and    *)
(* f_stat.  A value is a record of its type and what it denotes; a text is *)
(* denoted by its name.                                                    *)
(***************************************************************************)
EXTENDS Integers, Sequences

VARIABLES
  table,   \* rows: the values stored, and as a history those insert() was given
  refused  \* history: the data for which insert() threw

executorVars == <<table, refused>>

Columns == 3

\* One pass over s that keeps the elements at the positions I.
Chosen(s, I) ==
  LET kept[n \in 0..Len(s)] ==
        IF n = 0 THEN <<>> ELSE IF n \in I THEN Append(kept[n - 1], s[n]) ELSE kept[n - 1]
  IN  kept[Len(s)]

\* The calls setInt, setString and setDouble: i counts only these.
Bound(data) ==
  Chosen(data, {i \in DOMAIN data : data[i].type \in {"Int", "String", "Double"}})

\* Seeded fault: one "?" per value that will be bound.
BindableOnly(data) == Len(Bound(data))

\* Seeded fault: values are bound with i, not i++.
BoundWithoutCounting(data) ==
  IF Bound(data) = <<>> THEN <<>> ELSE <<Bound(data)[Len(Bound(data))]>>

\* The parameters of the statement: one "?" per value of data.
insertBuilder(data) == Len(data)

\* What the driver and the database ask of a statement: every parameter is
\* bound, and there is a value for every column.
Accepts(values, parameters) == Len(values) = parameters /\ parameters = Columns

insert(data) ==
  IF Accepts(Bound(data), insertBuilder(data))
  THEN /\ table' = Append(table, [values |-> Bound(data), given |-> data])
       /\ UNCHANGED refused
  ELSE /\ refused' = refused \cup {data}
       /\ UNCHANGED table

\* select * from fns_files where f_stat='0'
submit == Chosen(table, {i \in DOMAIN table : table[i].values[3].is = "0"})

\* A row is stored value by value as insert() was given it, although values
\* of an unknown type shift those that follow; and data of known types is
\* only refused when it does not fit the table.
InsertedAsGiven ==
  /\ \A i \in DOMAIN table : table[i].values = table[i].given
  /\ \A data \in refused :
       Len(data) # Columns \/ \E i \in DOMAIN data : data[i].type = "Other"
=============================================================================

------------------------------- MODULE Serial -------------------------------
(***************************************************************************)
(* What database/transaction.ts promises to the handlers that use it: the  *)
(* rows change as if one function given to withTransaction ran after the   *)
(* other, each completely or not at all.                                   *)
(***************************************************************************)
EXTENDS Integers, Sequences

CONSTANTS
  Rows,      \* the rows of the tables
  Absent,    \* the contents of a row that is not there
  Programs,  \* the functions, as sequences of statements
  Fits(_, _) \* Fits(r, v): row r may have the contents v

VARIABLE table

\* One statement, run alone.
Effect(s, tbl) ==
  CASE s.op = "update" -> [tbl EXCEPT ![s.row] = @ + s.by]
    [] s.op = "insert" -> IF tbl[s.row] = Absent
                          THEN [tbl EXCEPT ![s.row] = 0] ELSE tbl
    [] OTHER -> tbl

\* The rows after each number of statements of p.
Course(p) ==
  LET after[i \in 0 .. Len(p)] ==
        IF i = 0 THEN table ELSE Effect(p[i], after[i - 1])
  IN after

Completes(p) ==
  \A i \in DOMAIN p :
    p[i].op = "update" => Fits(p[i].row, Course(p)[i][p[i].row])

RunAlone(p) == Completes(p) /\ table' = Course(p)[Len(p)]

SerialSpec == [][\E p \in Programs : RunAlone(p)]_table
=============================================================================

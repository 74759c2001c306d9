------------------------------- MODULE Exits -------------------------------
(***************************************************************************)
(* The table of exit functions of cxa_exception.cpp as a sequence of       *)
(* entries: a function and the object to call it with.  A function called  *)
(* "registers" registers another one while it runs.                        *)
(***************************************************************************)
EXTENDS Integers, Sequences

CONSTANT MaxFuncs       \* ATEXIT_MAX_FUNCS

ASSUME FuncsAssumption == MaxFuncs \in Nat

Everything == "0"       \* __cxa_finalize's argument nullptr
Gone == "gone"          \* destructor_func = 0

Entry(f, obj) == [f |-> f, obj |-> obj]

AtExit(table, e) == IF Len(table) >= MaxFuncs THEN table ELSE Append(table, e)
Accepted(table) == IF Len(table) >= MaxFuncs THEN -1 ELSE 0

(* Calling an entry: what the table is afterwards. *)
AfterCall(table, e) ==
    IF e.f = "registers" THEN AtExit(table, Entry("late", e.obj)) ELSE table

(* An entry called by its function's name is cleared.  As a mutant: it is  *)
(* left as it is.                                                          *)
NotCleared(table, i) == table
Cleared(table, i) == [table EXCEPT ![i].f = Gone]

(* One turn of the loop: entry i is called or not. *)
CallEntry(run, i, f) ==
    LET e == run.table[i]
        after == AfterCall(run.table, e)
    IN  IF e.f = Gone \/ f \notin {Everything, e.f} THEN run
        ELSE [table |-> IF f = Everything THEN after ELSE Cleared(after, i),
              called |-> Append(run.called, e)]

(* __cxa_finalize(f): the entries there when it begins, from the last one  *)
(* down; what is called, in order, and the table left. *)
Finalize(table, f) ==
    LET n == Len(table)
        run[k \in 0 .. n] == IF k = 0 THEN [table |-> table, called |-> <<>>]
                             ELSE CallEntry(run[k - 1], n - k + 1, f)
    IN  run[n]
=============================================================================

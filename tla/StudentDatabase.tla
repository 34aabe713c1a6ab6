-------------------------- MODULE StudentDatabase ---------------------------
(***************************************************************************)
(* main of MYSQL/StudenDatabase/main.c: the calls that it makes of the     *)
(* client library of an external database, whose tables others change too. *)
(* The answer of any call may be an error, which the program prints and    *)
(* does not otherwise look at.                                             *)
(***************************************************************************)
EXTENDS Integers, FiniteSets, Sequences

CONSTANTS Students,     \* student numbers
          Deleted,      \* 314, the number that main deletes
          Enrolled,     \* the students with a course in student_course
          Rows,         \* what the tables of instructors and courses have
          MaxErrors,    \* the bound on calls of the library that fail
          MaxOthers     \* the bound on the changes that others make

ASSUME DatabaseAssumption == Deleted \in Students /\ Enrolled \subseteq Students

VARIABLES
    student,            \* the table (the database's)
    call,               \* which of main's calls it is in; 0 before the connection
    step,               \* where it is in that call
    answer_rows,        \* the rows of the answer that are not fetched, or NoAnswer
    shown,              \* the rows that the call has printed
    allocated,               \* what of the library is allocated: "conn", "result", "stmt"
    ending,             \* "none", "closed", "exit", "segv"
    errors, others,     \* how many there were (bounds)
    selected,           \* the rows that the query selected (history)
    stays_away          \* the row was deleted, and nobody put it back (history)

answerVars == <<answer_rows, shown, selected>>
boundVars  == <<errors, others>>
dbVars     == <<student, call, step, answerVars, allocated, ending, boundVars, stays_away>>

NoAnswer == {-1}        \* no number of a row
Calls == <<"student", "instructor", "course", "deleteStudent", "student", "grades">>

DbInit ==
    /\ student \in SUBSET Students /\ call = 0 /\ step = "call"
    /\ answer_rows = {} /\ shown = {} /\ selected = {} /\ allocated = {} /\ ending = "none"
    /\ errors = 0 /\ others = 0 /\ stays_away = FALSE

Works == UNCHANGED boundVars
Error == errors < MaxErrors /\ errors' = errors + 1 /\ UNCHANGED others

In(c, s) == ending = "none" /\ call = c /\ step = s
Segfault    == ending' = "segv" /\ UNCHANGED <<call, step, answerVars, allocated>>

RealConnect ==
    /\ In(0, "call")
    /\ \/ Works /\ call' = 1 /\ allocated' = {"conn"} /\ UNCHANGED ending
       \/ Error /\ ending' = "exit" /\ UNCHANGED <<call, allocated>>
    /\ UNCHANGED <<student, step, answerVars, stays_away>>

Selects(c) ==
    CASE Calls[c] = "student" -> student
      [] Calls[c] = "grades"  -> student \cap Enrolled
      [] OTHER -> Rows

\* mysql_query.  Only listAllStudents asks for no result when it has failed.
Query(c) ==
    /\ In(c, "call") /\ Calls[c] # "deleteStudent"
    /\ \/ /\ Works /\ step' = "store"
          /\ answer_rows' = Selects(c) /\ selected' = Selects(c)
       \/ /\ Error /\ step' = IF Calls[c] = "student" THEN "free" ELSE "store"
          /\ answer_rows' = NoAnswer /\ selected' = {}
    /\ shown' = {} /\ UNCHANGED <<student, call, allocated, ending, stays_away>>

\* mysql_store_result.  Where there is none, the program reads its number of fields.
Store(c) ==
    /\ In(c, "store")
    /\ \/ Works /\ answer_rows = NoAnswer /\ Segfault
       \/ Error /\ answer_rows # NoAnswer /\ Segfault
       \/ /\ Works /\ answer_rows # NoAnswer /\ step' = "fetch" /\ allocated' = allocated \cup {"result"}
          /\ UNCHANGED <<call, answerVars, ending>>
    /\ UNCHANGED <<student, stays_away>>

Fetch(c) ==
    /\ In(c, "fetch")
    /\ IF answer_rows = {} THEN step' = "free" /\ UNCHANGED <<answer_rows, shown>>
       ELSE \E row \in answer_rows : /\ shown' = shown \cup {row} /\ UNCHANGED step
                                     /\ answer_rows' = answer_rows \ {row}
    /\ UNCHANGED <<student, call, selected, allocated, ending, boundVars, stays_away>>

\* Mutant: the result is freed where there were rows only.
FreeRowsOnly(c) ==
    /\ In(c, "free")
    /\ allocated' = IF shown = {} THEN allocated ELSE allocated \ {"result"}
    /\ call' = c + 1 /\ step' = "call"
    /\ UNCHANGED <<student, answerVars, ending, boundVars, stays_away>>

Free(c) ==
    /\ In(c, "free") /\ allocated' = allocated \ {"result"} /\ call' = c + 1 /\ step' = "call"
    /\ UNCHANGED <<student, answerVars, ending, boundVars, stays_away>>

\* deleteStudent.  The error of a statement that is null is asked of it; a statement
\* that is not prepared is executed all the same, without effect.
StmtInit(c) ==
    /\ In(c, "call") /\ Calls[c] = "deleteStudent"
    /\ \/ /\ Works /\ step' = "prepare" /\ allocated' = allocated \cup {"stmt"}
          /\ UNCHANGED <<call, answerVars, ending>>
       \/ Error /\ Segfault
    /\ UNCHANGED <<student, stays_away>>

Prepare(c) ==
    /\ In(c, "prepare")
    /\ \/ Works /\ step' = "execute"
       \/ Error /\ step' = "close"
    /\ UNCHANGED <<student, call, answerVars, allocated, ending, stays_away>>

Execute(c) ==
    /\ In(c, "execute") /\ step' = "close"
    /\ \/ Works /\ student' = student \ {Deleted} /\ stays_away' = TRUE
       \/ Error /\ UNCHANGED <<student, stays_away>>
    /\ UNCHANGED <<call, answerVars, allocated, ending>>

StmtClose(c) ==
    /\ In(c, "close") /\ allocated' = allocated \ {"stmt"} /\ call' = c + 1 /\ step' = "call"
    /\ UNCHANGED <<student, answerVars, ending, boundVars, stays_away>>

CloseConn ==
    /\ In(Len(Calls) + 1, "call") /\ allocated' = allocated \ {"conn"} /\ ending' = "closed"
    /\ UNCHANGED <<student, call, step, answerVars, boundVars, stays_away>>

\* Another client of the database inserts or deletes a student.
Other ==
    /\ others < MaxOthers /\ others' = others + 1
    /\ \E s \in Students :
          /\ student' = IF s \in student THEN student \ {s} ELSE student \cup {s}
          /\ stays_away' = (stays_away /\ (s = Deleted => s \in student))
    /\ UNCHANGED <<call, step, answerVars, allocated, ending, errors>>

DbStep ==
    \/ RealConnect \/ CloseConn
    \/ \E c \in DOMAIN Calls : \/ Query(c) \/ Store(c) \/ Fetch(c) \/ Free(c)
                               \/ StmtInit(c) \/ Prepare(c) \/ Execute(c) \/ StmtClose(c)
DbNext == DbStep \/ Other
-----------------------------------------------------------------------------
\* Between its calls the program holds the connection only, and at its end nothing,
\* whichever of the library's calls have failed before; what a listing has printed
\* when its rows are done is what its query selected; the second listing has the
\* student that was deleted only if the deletion failed or another client put it
\* back (main.c:81-95, 103, 153, 312).
DatabaseInv ==
    /\ step = "call" /\ ending = "none" /\ call > 0 => allocated = {"conn"}
    /\ ending = "closed" => allocated = {}
    /\ step = "free" /\ answer_rows # NoAnswer => shown = selected
    /\ call \in 5 .. 6 /\ step = "free" /\ stays_away => Deleted \notin shown
=============================================================================

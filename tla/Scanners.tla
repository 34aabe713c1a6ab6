------------------------------ MODULE Scanners ------------------------------
(***************************************************************************)
(* second.flex of Flex/, which counts what it matches in each of the files *)
(* on its command line; first.flex of Exercise_1/ is the same with one.  A *)
(* step of yylex is a rule, the one whose match is longest.                *)
(***************************************************************************)
EXTENDS Integers, FiniteSets, SequencesExt

CONSTANTS
    Files,              \* the contents of a file
    MaxFiles            \* the bound on the files of a command line

\* A letter, a blank and the end of a line.
Characters == {"x", "sp", "\n"}

ASSUME ScanAssumption == Files \subseteq Seq(Characters) /\ MaxFiles \in Nat

VARIABLES
    argv,               \* the files on the command line
    file, rest,         \* the one being read, and what is not matched of it yet
    unopened,           \* that one could not be opened
    chars, nwords, lines,   \* the counters; nwords is words
    totals              \* total_characters, total_words, total_lines

scanVars == <<argv, file, rest, unopened, chars, nwords, lines, totals>>

ScanInit ==
    /\ argv \in UNION {[1 .. n -> Files] : n \in 1 .. MaxFiles} /\ file = 1
    /\ unopened \in BOOLEAN /\ rest = IF unopened THEN <<>> ELSE argv[1]
    /\ chars = 0 /\ nwords = 0 /\ lines = 0 /\ totals = <<0, 0, 0>>

\* Mutant: the first rule matches one letter.
FirstLetter(s) == 1

\* How many letters the first rule matches.
LettersAt(s) ==
    CHOOSE n \in 1 .. Len(s) :
        /\ \A k \in 1 .. n : s[k] = "x"
        /\ n < Len(s) => s[n + 1] # "x"

Match(n) == /\ rest' = SubSeq(rest, n + 1, Len(rest)) /\ chars' = chars + n
            /\ UNCHANGED <<argv, file, unopened, totals>>

WordRule    == Head(rest) = "x" /\ Match(LettersAt(rest)) /\ nwords' = nwords + 1 /\ UNCHANGED lines
NewLineRule == Head(rest) = "\n" /\ Match(1) /\ lines' = lines + 1 /\ UNCHANGED nwords
AnyRule     == Head(rest) = "sp" /\ Match(1) /\ UNCHANGED <<nwords, lines>>

\* yylex returns at the end of a file; the counts go on into the next.  A file that
\* cannot be opened ends the program, before the totals are printed.
NextFile ==
    /\ rest = <<>> /\ file <= Len(argv) /\ ~unopened
    /\ totals' = <<totals[1] + chars, totals[2] + nwords, totals[3] + lines>>
    /\ file' = file + 1 /\ unopened' \in {FALSE, file < Len(argv)}
    /\ rest' = IF file < Len(argv) /\ ~unopened' THEN argv[file + 1] ELSE <<>>
    /\ UNCHANGED <<argv, chars, nwords, lines>>

ScanNext == (rest # <<>> /\ (WordRule \/ NewLineRule \/ AnyRule)) \/ NextFile

ScanSpec == ScanInit /\ [][ScanNext]_scanVars
-----------------------------------------------------------------------------
\* A word is a letter that no letter precedes, and those that follow it.
Counts(s) == <<Len(s), Cardinality({k \in DOMAIN s : s[k] = "x" /\ (k = 1 \/ s[k - 1] # "x")}),
              Cardinality({k \in DOMAIN s : s[k] = "\n"})>>

\* The sums of the first of f, up to each of them.
Plus(a, b) == <<a[1] + b[1], a[2] + b[2], a[3] + b[3]>>
Sums(f) == LET s[k \in 0 .. Len(f)] == IF k = 0 THEN <<0, 0, 0>> ELSE Plus(s[k - 1], f[k])
           IN  s
AllUpto == Sums([k \in DOMAIN argv |-> Counts(argv[k])])

\* After each file the counts are those of all the files so far, so that a file
\* is in the totals once for itself and once for each that follows it: they are
\* the sums over the files only of one file (second.flex:39-41, 53-57).
ScanInv ==
    /\ rest = <<>> /\ file <= Len(argv) /\ ~unopened => <<chars, nwords, lines>> = AllUpto[file]
    /\ totals = Sums([k \in DOMAIN argv |-> AllUpto[k]])[file - 1]
=============================================================================

------------------------------- MODULE TestRun -------------------------------
(***************************************************************************)
(* A run of tests and what it tells the user: HTestRunner                  *)
(* (hexl_base/HexlTestRunner.cpp) goes through the test specs one by one,  *)
(* writes the test log, and in the summary one line of statistics for      *)
(* every group of tests with the same path, then the totals.  A line is    *)
(* written when the next group begins; groups may come back later.         *)
(***************************************************************************)
EXTENDS Integers, Sequences, FiniteSets, SequencesExt

CONSTANTS
    Paths,       \* the paths of tests, cut to the log level
    NoPath,      \* the empty path: of every test when the log level is 0
    MaxSpecs     \* bound on the test specs of a run

ASSUME BoundAssumption == MaxSpecs \in Nat
ASSUME PathAssumption == NoPath \notin Paths

Statuses == {"PASSED", "FAILED", "ERROR", "NA"}

VARIABLES
    specs,       \* paths of the specs that are still to come
    verbose,     \* option -verbose testlog
    phase,
    test,        \* the current test: its number, path and status
    pathPrev, pathStats, stats,    \* members of the runner
    testOut,     \* stream of the current test
    testLog, testSummary           \* the files

vars == <<specs, verbose, phase, test, pathPrev, pathStats, stats, testOut, testLog, testSummary>>

Cleared == [s \in Statuses |-> 0]
IncStats(st, status) == [st EXCEPT ![status] = @ + 1]

Header(path) == [kind |-> "path", path |-> path]
Line(st) == [kind |-> "line", stats |-> st]
Totals(st) == [kind |-> "totals", stats |-> st]
-----------------------------------------------------------------------------
Init ==
    /\ \/ \E n \in 0..MaxSpecs : specs \in [1..n -> Paths]
       \/ \E n \in 0..MaxSpecs : specs = [i \in 1..n |-> NoPath]
    /\ verbose \in BOOLEAN
    /\ phase = "open" /\ test = [id |-> 0, path |-> NoPath, status |-> "PASSED"]
    /\ pathPrev = NoPath /\ pathStats = Cleared /\ stats = Cleared
    /\ testOut = <<>> /\ testLog = <<>> /\ testSummary = <<>>

(* BeforeTestSet opens the files; nothing runs when it cannot.              *)
BeforeTestSet ==
    /\ phase = "open"
    /\ phase' \in {"next", "failed"}
    /\ UNCHANGED <<specs, verbose, test, pathPrev, pathStats, stats, testOut, testLog, testSummary>>

(* TestRunnerExecute: specs that are not valid are passed over.             *)
SkipSpec ==
    /\ phase = "next" /\ specs # <<>>
    /\ specs' = Tail(specs)
    /\ UNCHANGED <<verbose, phase, test, pathPrev, pathStats, stats, testOut, testLog, testSummary>>

RunTestSpec ==
    /\ phase = "next" /\ specs # <<>>
    /\ specs' = Tail(specs)
    /\ test' = [id |-> test.id + 1, path |-> Head(specs), status |-> "PASSED"]
    /\ phase' = "before"
    /\ UNCHANGED <<verbose, pathPrev, pathStats, stats, testOut, testLog, testSummary>>

(* BeforeTest.  testOut.clear() resets the error state of the stream, not   *)
(* its contents.                                                            *)
NextGroup(first, line) ==
    /\ testSummary' = testSummary \o (IF first THEN <<>> ELSE <<line>>) \o <<Header(test.path)>>
    /\ pathStats' = Cleared
    /\ pathPrev' = test.path

BeforeTest ==
    /\ phase = "before"
    /\ testOut' = Append(testOut, [id |-> test.id, what |-> "START"])
    /\ IF test.path # pathPrev THEN NextGroup(pathPrev = NoPath, Line(pathStats))
       ELSE UNCHANGED <<testSummary, pathStats, pathPrev>>
    /\ phase' = "execute"
    /\ UNCHANGED <<specs, verbose, test, stats, testLog>>

(* ExecuteTest: the test writes to its stream and has a result.             *)
ExecuteTest ==
    /\ phase = "execute"
    /\ \E status \in Statuses : test' = [test EXCEPT !.status = status]
    /\ testOut' = Append(testOut, [id |-> test.id, what |-> "output"])
    /\ phase' = "after"
    /\ UNCHANGED <<specs, verbose, pathPrev, pathStats, stats, testLog, testSummary>>

(* AfterTest: the output of a test that passed is not kept.  The last line  *)
(* of the output is written after the output was logged, and lost.          *)
Verdict == [id |-> test.id, what |-> test.status, path |-> test.path]
AfterTestThen(out) ==
    /\ phase = "after"
    /\ testLog' = testLog \o
          Append(IF test.status # "PASSED" \/ verbose THEN testOut ELSE <<>>, Verdict)
    /\ pathStats' = IncStats(pathStats, test.status)
    /\ stats' = IncStats(stats, test.status)
    /\ testOut' = out
    /\ phase' = "next"
    /\ UNCHANGED <<specs, verbose, test, pathPrev, testSummary>>

KeepsOutput == AfterTestThen(testOut)    \* a variation
AfterTest == AfterTestThen(<<>>)

TotalsOnly ==    \* a variation
    testSummary' = testSummary \o <<Totals(stats)>>
Close == testSummary' = testSummary \o <<Line(pathStats), Totals(stats)>>

AfterTestSet ==
    /\ phase = "next" /\ specs = <<>>
    /\ Close
    /\ phase' = "done"
    /\ UNCHANGED <<specs, verbose, test, pathPrev, pathStats, stats, testOut, testLog>>

Next ==
    \/ BeforeTestSet \/ SkipSpec \/ RunTestSpec \/ BeforeTest \/ ExecuteTest \/ AfterTest
    \/ AfterTestSet

Spec == Init /\ [][Next]_vars
-----------------------------------------------------------------------------
Sum(seq) ==
    LET sum[i \in 0..Len(seq)] == IF i = 0 THEN 0 ELSE sum[i - 1] + seq[i]
    IN  sum[Len(seq)]

\* The number of verdicts in the log with a status, and of those on a path.
Total(status) == Cardinality({i \in DOMAIN testLog : testLog[i].what = status})
Logged(path, status) ==
    Cardinality({i \in DOMAIN testLog : testLog[i].what = status /\ testLog[i].path = path})

\* The lines of the summary, and those that stand under a path.
Lines == {i \in DOMAIN testSummary : testSummary[i].kind = "line"}
LinesOf(path) ==
    {i \in Lines : IF i = 1 THEN path = NoPath
                  ELSE testSummary[i - 1].kind = "path" /\ testSummary[i - 1].path = path}
SumOver(S, status) ==
    Sum([i \in DOMAIN testSummary |-> IF i \in S THEN testSummary[i].stats[status] ELSE 0])

(* The summary and the log tell the same: under every path the lines add up *)
(* to the verdicts logged for it, and the totals to all of them; and until  *)
(* then every test executed is counted once in the totals and stands in the *)
(* statistics of its group or in a line before.                             *)
SummaryMatchesLog ==
    IF phase # "done"
      THEN \A status \in Statuses :
              stats[status] = pathStats[status] + SumOver(Lines, status)
      ELSE
        /\ \A path \in Paths \cup {NoPath}, status \in Statuses :
              SumOver(LinesOf(path), status) = Logged(path, status)
        /\ Last(testSummary).kind = "totals"
        /\ \A status \in Statuses : Last(testSummary).stats[status] = Total(status)

(* The log shows a test's own output in front of its verdict: all of it     *)
(* unless the test passed, and never the output of another test.            *)
OwnOutput ==
    \A i \in DOMAIN testLog :
        /\ testLog[i].what \in {"FAILED", "ERROR", "NA"} =>
              /\ i > 2
              /\ testLog[i - 1] = [id |-> testLog[i].id, what |-> "output"]
              /\ testLog[i - 2] = [id |-> testLog[i].id, what |-> "START"]
        /\ testLog[i].what \notin Statuses =>
              i < Len(testLog) /\ testLog[i + 1].id = testLog[i].id
=============================================================================

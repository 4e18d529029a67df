--------------------------- MODULE TestRun_proofs ---------------------------
(***************************************************************************)
(* OwnOutput for every list of test specs: the stream of a test holds what *)
(* the test wrote and nothing else, so the log shows it before its verdict.*)
(* SummaryMatchesLog: the tests counted for the current group are those    *)
(* that the log has for its path and the lines under it have not.  The     *)
(* sums over lines are settled by induction.                               *)
(***************************************************************************)
EXTENDS TestRun, NaturalNumbers, FiniteSetTheorems, TLAPS

Entry(what) == [id |-> test.id, what |-> what]

(* What the stream holds in each phase of a test.                           *)
StreamInv ==
    /\ phase \in {"open", "failed", "next", "before", "done"} => testOut = <<>>
    /\ phase = "execute" => testOut = <<Entry("START")>>
    /\ phase = "after" => testOut = <<Entry("START"), Entry("output")>>

Entries == [id : Nat, what : {"START", "output"}]
            \cup [id : Nat, what : Statuses, path : Paths \cup {NoPath}]

Inv ==
    /\ phase \in {"open", "failed", "next", "before", "execute", "after", "done"}
    /\ test.id \in Nat /\ test.status \in Statuses /\ test.path \in Paths \cup {NoPath}
    /\ specs \in Seq(Paths \cup {NoPath})
    /\ testLog \in Seq(Entries)
    /\ StreamInv
    /\ OwnOutput

(* What OwnOutput asks of a log; logs that have it have it joined.          *)
Owns(log) ==
    \A i \in DOMAIN log :
        /\ log[i].what \in {"FAILED", "ERROR", "NA"} =>
              /\ i > 2
              /\ log[i - 1] = [id |-> log[i].id, what |-> "output"]
              /\ log[i - 2] = [id |-> log[i].id, what |-> "START"]
        /\ log[i].what \notin Statuses =>
              i < Len(log) /\ log[i + 1].id = log[i].id

LEMMA Joined ==
    ASSUME NEW s \in Seq(Entries), NEW t \in Seq(Entries), Owns(s), Owns(t)
    PROVE  s \o t \in Seq(Entries) /\ Owns(s \o t)
<1> DEFINE new == s \o t
<1>1. new \in Seq(Entries) /\ Len(new) = Len(s) + Len(t) /\ Len(s) \in Nat /\ Len(t) \in Nat
  OBVIOUS
<1>2. /\ DOMAIN s = 1..Len(s) /\ DOMAIN t = 1..Len(t) /\ DOMAIN new = 1..(Len(s) + Len(t))
  BY <1>1
<1>3. /\ \A i \in DOMAIN s : new[i] = s[i]
      /\ \A i \in DOMAIN new : i > Len(s) => new[i] = t[i - Len(s)]
  OBVIOUS
<1> HIDE DEF new
<1>4. ASSUME NEW i \in DOMAIN new, i \in DOMAIN s
      PROVE  /\ new[i].what \in {"FAILED", "ERROR", "NA"} =>
                   /\ i > 2
                   /\ new[i - 1] = [id |-> new[i].id, what |-> "output"]
                   /\ new[i - 2] = [id |-> new[i].id, what |-> "START"]
             /\ new[i].what \notin Statuses =>
                   i < Len(new) /\ new[i + 1].id = new[i].id
  <2>1. new[i] = s[i] /\ i \in Nat /\ i >= 1 /\ i <= Len(s)
    BY <1>2, <1>3, <1>4
  <2>2. i > 2 => new[i - 1] = s[i - 1] /\ new[i - 2] = s[i - 2]
    <3>1. i > 2 => i - 1 \in DOMAIN s /\ i - 2 \in DOMAIN s
      BY <1>1, <1>2, <2>1
    <3> QED BY <1>3, <3>1
  <2>3. i < Len(s) => new[i + 1] = s[i + 1]
    <3>1. i < Len(s) => i + 1 \in DOMAIN s
      BY <1>1, <1>2, <2>1
    <3> QED BY <1>3, <3>1
  <2>4. /\ s[i].what \in {"FAILED", "ERROR", "NA"} =>
              /\ i > 2
              /\ s[i - 1] = [id |-> s[i].id, what |-> "output"]
              /\ s[i - 2] = [id |-> s[i].id, what |-> "START"]
        /\ s[i].what \notin Statuses => i < Len(s) /\ s[i + 1].id = s[i].id
    BY <1>4 DEF Owns
  <2> QED BY <1>1, <2>1, <2>2, <2>3, <2>4
<1>5. ASSUME NEW i \in DOMAIN new, i \notin DOMAIN s
      PROVE  /\ new[i].what \in {"FAILED", "ERROR", "NA"} =>
                   /\ i > 2
                   /\ new[i - 1] = [id |-> new[i].id, what |-> "output"]
                   /\ new[i - 2] = [id |-> new[i].id, what |-> "START"]
             /\ new[i].what \notin Statuses =>
                   i < Len(new) /\ new[i + 1].id = new[i].id
  <2> DEFINE j == i - Len(s)
  <2>1. /\ i \in Nat /\ i > Len(s) /\ i <= Len(s) + Len(t)
        /\ j \in DOMAIN t /\ j \in Nat /\ new[i] = t[j] /\ i = j + Len(s)
    BY <1>1, <1>2, <1>3, <1>5
  <2>2. j > 2 => new[i - 1] = t[j - 1] /\ new[i - 2] = t[j - 2]
    <3>1. ASSUME j > 2
          PROVE  /\ i - 1 \in DOMAIN new /\ i - 1 > Len(s) /\ (i - 1) - Len(s) = j - 1
                 /\ i - 2 \in DOMAIN new /\ i - 2 > Len(s) /\ (i - 2) - Len(s) = j - 2
      BY <1>1, <1>2, <2>1, <3>1
    <3> HIDE DEF j
    <3> QED BY <1>3, <3>1
  <2>3. j < Len(t) => new[i + 1] = t[j + 1]
    <3>1. ASSUME j < Len(t)
          PROVE  i + 1 \in DOMAIN new /\ i + 1 > Len(s) /\ (i + 1) - Len(s) = j + 1
      BY <1>1, <1>2, <2>1, <3>1
    <3> HIDE DEF j
    <3> QED BY <1>3, <3>1
  <2> HIDE DEF j
  <2>4. /\ t[j].what \in {"FAILED", "ERROR", "NA"} =>
              /\ j > 2
              /\ t[j - 1] = [id |-> t[j].id, what |-> "output"]
              /\ t[j - 2] = [id |-> t[j].id, what |-> "START"]
        /\ t[j].what \notin Statuses => j < Len(t) /\ t[j + 1].id = t[j].id
    BY <2>1 DEF Owns
  <2>5. (j > 2 => i > 2) /\ (j < Len(t) => i < Len(new))
    BY <1>1, <2>1
  <2> QED BY <2>1, <2>2, <2>3, <2>4, <2>5
<1> QED BY <1>1, <1>4, <1>5 DEF Owns, new

LEMMA AppendOne ==
    ASSUME NEW a \in Entries, NEW b \in Entries
    PROVE  Append(<<a>>, b) = <<a, b>>
<1> DEFINE s == Append(<<a>>, b)  t == <<a, b>>
<1>1. <<a>> \in Seq(Entries) /\ t \in Seq(Entries)
  OBVIOUS
<1>2. s \in Seq(Entries) /\ Len(s) = 2 /\ s[1] = a /\ s[2] = b
  BY <1>1
<1>3. Len(t) = 2 /\ t[1] = a /\ t[2] = b
  OBVIOUS
<1> HIDE DEF s, t
<1>4. \A i \in 1..Len(s) : s[i] = t[i]
  BY <1>2, <1>3
<1>5. s = t
  BY <1>1, <1>2, <1>3, <1>4
<1> QED BY <1>5 DEF s, t

LEMMA AfterTestKeeps ==
    ASSUME Inv, AfterTest
    PROVE  Inv'
<1> DEFINE a == Entry("START")  b == Entry("output")
           shown == test.status # "PASSED" \/ verbose
<1>1. /\ testLog' = testLog \o Append(IF shown THEN testOut ELSE <<>>, Verdict)
      /\ testOut' = <<>> /\ phase' = "next" /\ UNCHANGED <<specs, test>>
      /\ testOut = <<a, b>>
  BY DEF AfterTest, AfterTestThen, Inv, StreamInv
<1>2. /\ Verdict \in Entries /\ Verdict.id = test.id /\ Verdict.what = test.status
      /\ a \in Entries /\ b \in Entries
      /\ a = [id |-> test.id, what |-> "START"] /\ b = [id |-> test.id, what |-> "output"]
      /\ test.status \in Statuses
  BY DEF Inv, Verdict, Entries, Entry
<1>3. testLog \in Seq(Entries) /\ Owns(testLog)
  BY DEF Inv, OwnOutput, Owns
<1> HIDE DEF a, b
<1>4. testLog' \in Seq(Entries) /\ Owns(testLog')
  <2>1. CASE shown
    <3>1. testLog' = testLog \o <<a, b, Verdict>>
      BY <1>1, <1>2, <1>3, <2>1
    <3>2. <<a, b, Verdict>> \in Seq(Entries)
      BY <1>2
    <3>3. Owns(<<a, b, Verdict>>)
      BY <1>2 DEF Owns, Statuses
    <3> QED BY <1>3, <3>1, <3>2, <3>3, Joined
  <2>2. CASE ~shown
    <3>1. testLog' = testLog \o <<Verdict>>
      BY <1>1, <1>2, <1>3, <2>2
    <3>2. <<Verdict>> \in Seq(Entries)
      BY <1>2
    <3>3. Owns(<<Verdict>>)
      BY <1>2, <2>2 DEF Owns, Statuses
    <3> QED BY <1>3, <3>1, <3>2, <3>3, Joined
  <2> QED BY <2>1, <2>2
<1>5. OwnOutput' /\ StreamInv'
  BY <1>1, <1>4 DEF OwnOutput, Owns, StreamInv
<1> QED BY <1>1, <1>4, <1>5 DEF Inv
-----------------------------------------------------------------------------
LEMMA InitInv == Init => Inv
<1> SUFFICES ASSUME Init PROVE Inv
  OBVIOUS
<1>1. specs \in Seq(Paths \cup {NoPath})
  <2>1. \E n \in 0..MaxSpecs : specs \in [1..n -> Paths \cup {NoPath}]
    BY DEF Init
  <2> QED BY <2>1, BoundAssumption
<1>2. testLog \in Seq(Entries) /\ OwnOutput
  BY DEF Init, OwnOutput
<1> QED BY <1>1, <1>2 DEF Init, Inv, StreamInv, Statuses

LEMMA StepInv == Inv /\ [Next]_vars => Inv'
<1> SUFFICES ASSUME Inv, [Next]_vars PROVE Inv'
  OBVIOUS
<1>1. CASE BeforeTestSet
  BY <1>1 DEF BeforeTestSet, Inv, StreamInv, OwnOutput
<1>2. CASE SkipSpec
  <2>1. specs' \in Seq(Paths \cup {NoPath}) /\ UNCHANGED <<phase, test, testOut, testLog>>
    BY <1>2 DEF SkipSpec, Inv
  <2> QED BY <2>1 DEF Inv, StreamInv, OwnOutput, Entry
<1>3. CASE RunTestSpec
  <2>1. specs' \in Seq(Paths \cup {NoPath}) /\ Head(specs) \in Paths \cup {NoPath}
    BY <1>3 DEF RunTestSpec, Inv
  <2>2. /\ test'.id = test.id + 1 /\ test'.path = Head(specs) /\ test'.status = "PASSED"
        /\ phase' = "before" /\ phase = "next" /\ UNCHANGED <<testOut, testLog>>
    BY <1>3 DEF RunTestSpec
  <2>3. StreamInv'
    BY <2>2 DEF Inv, StreamInv
  <2>4. test'.id \in Nat /\ test'.path \in Paths \cup {NoPath} /\ test'.status \in Statuses
    BY <2>1, <2>2 DEF Inv, Statuses
  <2> QED BY <2>1, <2>2, <2>3, <2>4 DEF Inv, OwnOutput
<1>4. CASE BeforeTest
  <2>1. testOut' = <<Entry("START")>> /\ phase' = "execute" /\ UNCHANGED <<specs, test, testLog>>
    BY <1>4 DEF BeforeTest, Inv, StreamInv, Entry
  <2> QED BY <2>1 DEF Inv, StreamInv, OwnOutput, Entry
<1>5. CASE ExecuteTest
  <2>1. /\ testOut' = Append(testOut, Entry("output")) /\ testOut = <<Entry("START")>>
        /\ phase' = "after" /\ UNCHANGED <<specs, testLog>>
    BY <1>5 DEF ExecuteTest, Inv, StreamInv, Entry
  <2>2. PICK status \in Statuses : test' = [test EXCEPT !.status = status]
    BY <1>5 DEF ExecuteTest
  <2>3. test'.id = test.id /\ test'.path = test.path /\ test'.status \in Statuses
    BY <2>2
  <2>4. Entry("START")' = Entry("START") /\ Entry("output")' = Entry("output")
    BY <2>3 DEF Entry
  <2>5. StreamInv'
    <3> DEFINE a == Entry("START")  b == Entry("output")
    <3>1. a \in Entries /\ b \in Entries
      BY DEF Entry, Entries, Inv
    <3>2. testOut' = Append(<<a>>, b)
      BY <2>1
    <3> HIDE DEF a, b
    <3>3. Append(<<a>>, b) = <<a, b>>
      BY <3>1, AppendOne
    <3> QED BY <2>1, <2>4, <3>2, <3>3 DEF StreamInv, a, b
  <2> QED BY <2>1, <2>3, <2>5 DEF Inv, OwnOutput
<1>6. CASE AfterTest
  BY <1>6, AfterTestKeeps
<1>7. CASE AfterTestSet
  BY <1>7 DEF AfterTestSet, Inv, StreamInv, OwnOutput
<1>8. CASE UNCHANGED vars
  BY <1>8 DEF vars, Inv, StreamInv, OwnOutput, Entry
<1> QED BY <1>1, <1>2, <1>3, <1>4, <1>5, <1>6, <1>7, <1>8 DEF Next

-----------------------------------------------------------------------------
(* The sum of a sequence, from its recursive function.                      *)
Adds(f, d, n) == f = [i \in 0..n |-> IF i = 0 THEN 0 ELSE f[i - 1] + d[i]]

LEMMA AddsExists ==
    ASSUME NEW d, NEW n \in Nat
    PROVE  \E f : Adds(f, d, n)
<1> DEFINE S == {k \in Nat : \E f : Adds(f, d, k)}
<1>1. 0 \in S
  <2>1. Adds([i \in 0..0 |-> 0], d, 0)
    BY DEF Adds
  <2> QED BY <2>1
<1>2. ASSUME NEW k \in Nat, k \in S
      PROVE  k + 1 \in S
  <2>1. PICK f : Adds(f, d, k)
    BY <1>2
  <2> DEFINE g == [i \in 0..(k + 1) |-> IF i = k + 1 THEN f[k] + d[k + 1] ELSE f[i]]
  <2>2. ASSUME NEW i \in 0..(k + 1)
        PROVE  g[i] = IF i = 0 THEN 0 ELSE g[i - 1] + d[i]
    BY <2>1 DEF Adds
  <2>3. Adds(g, d, k + 1)
    BY <2>2 DEF Adds
  <2> QED BY <2>3
<1> HIDE DEF S
<1>3. Nat \subseteq S
  BY <1>1, <1>2, ByInduction
<1> QED BY <1>3 DEF S

Alike(d, e, n) == \A i \in 1..n : d[i] = e[i]

LEMMA AddsAgree ==
    ASSUME NEW d, NEW e, NEW n \in Nat, NEW m \in Nat, n <= m, Alike(d, e, n),
           NEW f, NEW g, Adds(f, d, n), Adds(g, e, m)
    PROVE  \A i \in 0..n : f[i] = g[i]
<1> DEFINE S == {k \in Nat : k <= n => f[k] = g[k]}
<1>1. 0 \in S
  BY DEF Adds
<1>2. ASSUME NEW k \in Nat, k \in S
      PROVE  k + 1 \in S
  <2>1. SUFFICES ASSUME k + 1 <= n PROVE f[k + 1] = g[k + 1]
    OBVIOUS
  <2>2. /\ f[k] = g[k] /\ k + 1 \in 1..n /\ k + 1 \in 0..n /\ k + 1 \in 0..m
        /\ k + 1 # 0 /\ (k + 1) - 1 = k
    BY <2>1, <1>2
  <2>3. f[k + 1] = f[k] + d[k + 1] /\ g[k + 1] = g[k] + e[k + 1]
    BY <2>2 DEF Adds, Alike
  <2> QED BY <2>2, <2>3 DEF Alike
<1> HIDE DEF S
<1>3. Nat \subseteq S
  BY <1>1, <1>2, ByInduction
<1> QED BY <1>3 DEF S

LEMMA SumIs ==
    ASSUME NEW d \in Seq(Nat), NEW f, Adds(f, d, Len(d))
    PROVE  Sum(d) = f[Len(d)]
<1> DEFINE h == CHOOSE h : Adds(h, d, Len(d))
<1>1. Len(d) \in Nat /\ Len(d) \in 0..Len(d)
  OBVIOUS
<1>2. Adds(h, d, Len(d))
  BY <1>1, AddsExists
<1>3. Sum(d) = h[Len(d)]
  BY DEF Sum, Adds
<1> HIDE DEF h
<1> QED BY <1>1, <1>2, <1>3, AddsAgree DEF Alike

LEMMA SumIsNat ==
    ASSUME NEW d \in Seq(Nat)
    PROVE  Sum(d) \in Nat
<1>1. Len(d) \in Nat
  OBVIOUS
<1>2. PICK f : Adds(f, d, Len(d))
  BY <1>1, AddsExists
<1> DEFINE S == {k \in Nat : k <= Len(d) => f[k] \in Nat}
<1>3. 0 \in S
  BY <1>1, <1>2 DEF Adds
<1>4. ASSUME NEW k \in Nat, k \in S
      PROVE  k + 1 \in S
  <2>1. SUFFICES ASSUME k + 1 <= Len(d) PROVE f[k + 1] \in Nat
    OBVIOUS
  <2>2. f[k] \in Nat /\ d[k + 1] \in Nat
    BY <2>1, <1>1, <1>4
  <2>3. f[k + 1] = f[k] + d[k + 1]
    BY <2>1, <1>1, <1>2 DEF Adds
  <2> QED BY <2>2, <2>3
<1> HIDE DEF S
<1>5. Nat \subseteq S
  BY <1>3, <1>4, ByInduction
<1> QED BY <1>1, <1>2, <1>5, SumIs DEF S

LEMMA SumOfLonger ==
    ASSUME NEW d \in Seq(Nat), NEW e \in Seq(Nat),
           Len(e) = Len(d) + 1, \A i \in 1..Len(d) : d[i] = e[i]
    PROVE  Sum(e) = Sum(d) + e[Len(e)]
<1>1. Len(d) \in Nat /\ Len(e) \in Nat
  OBVIOUS
<1>2. PICK f : Adds(f, d, Len(d))
  BY <1>1, AddsExists
<1>3. PICK g : Adds(g, e, Len(e))
  BY <1>1, AddsExists
<1>4. \A i \in 0..Len(d) : f[i] = g[i]
  <2> DEFINE n == Len(d)  m == Len(e)
  <2>1. n \in Nat /\ m \in Nat /\ n <= m /\ Alike(d, e, n)
    BY <1>1 DEF Alike
  <2>2. Adds(f, d, n) /\ Adds(g, e, m)
    BY <1>2, <1>3
  <2> HIDE DEF n, m
  <2>3. \A i \in 0..n : f[i] = g[i]
    BY <2>1, <2>2, AddsAgree
  <2> QED BY <2>3 DEF n
<1>5. f[Len(d)] = g[Len(d)]
  BY <1>1, <1>4
<1>6. g[Len(e)] = g[Len(d)] + e[Len(e)]
  BY <1>1, <1>3 DEF Adds
<1> QED BY <1>2, <1>3, <1>5, <1>6, SumIs
-----------------------------------------------------------------------------
(* Lines of a summary, and the sums over them, when an entry is added.      *)
SummaryEntries == [kind : {"path"}, path : Paths \cup {NoPath}]
                    \cup [kind : {"line", "totals"}, stats : [Statuses -> Nat]]

LinesIn(s) == {i \in DOMAIN s : s[i].kind = "line"}
LinesUnder(s, path) ==
    {i \in LinesIn(s) : IF i = 1 THEN path = NoPath
                        ELSE s[i - 1].kind = "path" /\ s[i - 1].path = path}
Summands(s, S, status) == [i \in DOMAIN s |-> IF i \in S THEN s[i].stats[status] ELSE 0]

LEMMA SummandsAreNumbers ==
    ASSUME NEW s \in Seq(SummaryEntries), NEW S \in SUBSET LinesIn(s), NEW status \in Statuses
    PROVE  /\ Summands(s, S, status) \in Seq(Nat)
           /\ Len(Summands(s, S, status)) = Len(s)
           /\ Sum(Summands(s, S, status)) \in Nat
<1> DEFINE d == Summands(s, S, status)
<1>1. Len(s) \in Nat /\ DOMAIN s = 1..Len(s)
  OBVIOUS
<1>2. ASSUME NEW i \in 1..Len(s)
      PROVE  (IF i \in S THEN s[i].stats[status] ELSE 0) \in Nat
  <2>1. s[i] \in SummaryEntries
    BY <1>1
  <2>2. CASE i \in S
    <3>1. s[i].kind = "line" /\ s[i] \in [kind : {"line", "totals"}, stats : [Statuses -> Nat]]
      BY <2>1, <2>2 DEF LinesIn, SummaryEntries
    <3> QED BY <2>2, <3>1
  <2> QED BY <2>2
<1>3. d \in [1..Len(s) -> Nat]
  BY <1>1, <1>2 DEF Summands
<1>4. d \in Seq(Nat) /\ Len(d) = Len(s)
  BY <1>1, <1>3
<1> QED BY <1>4, SumIsNat

LEMMA EntryAdded ==
    ASSUME NEW s \in Seq(SummaryEntries), NEW x \in SummaryEntries, NEW status \in Statuses,
           NEW S \in SUBSET LinesIn(s), NEW T \in SUBSET LinesIn(Append(s, x)),
           \A i \in 1..Len(s) : i \in S <=> i \in T
    PROVE  Sum(Summands(Append(s, x), T, status)) =
              Sum(Summands(s, S, status)) + IF Len(s) + 1 \in T THEN x.stats[status] ELSE 0
<1> DEFINE t == Append(s, x)  d == Summands(s, S, status)  e == Summands(t, T, status)
<1>1. /\ t \in Seq(SummaryEntries) /\ Len(s) \in Nat /\ Len(t) = Len(s) + 1
      /\ DOMAIN s = 1..Len(s) /\ DOMAIN t = 1..(Len(s) + 1)
      /\ t[Len(s) + 1] = x /\ \A i \in 1..Len(s) : t[i] = s[i]
  OBVIOUS
<1> HIDE DEF t
<1>2. T \in SUBSET LinesIn(t)
  BY DEF t
<1>3. /\ d \in Seq(Nat) /\ e \in Seq(Nat) /\ Len(d) = Len(s) /\ Len(e) = Len(t)
  BY <1>1, <1>2, SummandsAreNumbers
<1>4. \A i \in 1..Len(d) : d[i] = e[i]
  BY <1>1, <1>3 DEF Summands
<1>5. e[Len(e)] = IF Len(s) + 1 \in T THEN x.stats[status] ELSE 0
  BY <1>1, <1>3 DEF Summands
<1> HIDE DEF d, e
<1>6. Sum(e) = Sum(d) + e[Len(e)]
  BY <1>1, <1>3, <1>4, SumOfLonger
<1> QED BY <1>5, <1>6 DEF d, e, t

(* All lines, and those under a path, of a summary with one entry more.     *)
LEMMA LinesAdded ==
    ASSUME NEW s \in Seq(SummaryEntries), NEW x \in SummaryEntries, NEW status \in Statuses
    PROVE  Sum(Summands(Append(s, x), LinesIn(Append(s, x)), status)) =
              Sum(Summands(s, LinesIn(s), status)) + IF x.kind = "line" THEN x.stats[status] ELSE 0
<1> DEFINE t == Append(s, x)
<1>1. /\ DOMAIN s = 1..Len(s) /\ DOMAIN t = 1..(Len(s) + 1) /\ Len(s) \in Nat
      /\ t[Len(s) + 1] = x /\ \A i \in 1..Len(s) : t[i] = s[i]
  OBVIOUS
<1> HIDE DEF t
<1>2. /\ \A i \in 1..Len(s) : i \in LinesIn(s) <=> i \in LinesIn(t)
      /\ Len(s) + 1 \in LinesIn(t) <=> x.kind = "line"
  BY <1>1 DEF LinesIn
<1> QED BY <1>2, EntryAdded DEF t

Heads(s, path) ==
    IF s = <<>> THEN path = NoPath ELSE s[Len(s)].kind = "path" /\ s[Len(s)].path = path

LEMMA LinesUnderAdded ==
    ASSUME NEW s \in Seq(SummaryEntries), NEW x \in SummaryEntries, NEW status \in Statuses, NEW path
    PROVE  Sum(Summands(Append(s, x), LinesUnder(Append(s, x), path), status)) =
              Sum(Summands(s, LinesUnder(s, path), status)) +
                 IF x.kind = "line" /\ Heads(s, path) THEN x.stats[status] ELSE 0
<1> DEFINE t == Append(s, x)  S == LinesUnder(s, path)  T == LinesUnder(t, path)
<1>1. /\ DOMAIN s = 1..Len(s) /\ DOMAIN t = 1..(Len(s) + 1) /\ Len(s) \in Nat
      /\ t[Len(s) + 1] = x /\ \A i \in 1..Len(s) : t[i] = s[i]
      /\ s = <<>> <=> Len(s) = 0
  OBVIOUS
<1> HIDE DEF t
<1>2. S \in SUBSET LinesIn(s) /\ T \in SUBSET LinesIn(t)
  BY DEF LinesUnder
<1>3. ASSUME NEW i \in 1..Len(s)
      PROVE  i \in S <=> i \in T
  <2>1. i \in LinesIn(s) <=> i \in LinesIn(t)
    BY <1>1 DEF LinesIn
  <2>2. i # 1 => t[i - 1] = s[i - 1]
    BY <1>1
  <2> QED BY <2>1, <2>2 DEF LinesUnder
<1>4. Len(s) + 1 \in T <=> x.kind = "line" /\ Heads(s, path)
  <2>1. Len(s) + 1 \in LinesIn(t) <=> x.kind = "line"
    BY <1>1 DEF LinesIn
  <2>2. Len(s) + 1 # 1 => t[(Len(s) + 1) - 1] = s[Len(s)]
    BY <1>1
  <2>3. Len(s) + 1 = 1 <=> s = <<>>
    BY <1>1
  <2> QED BY <2>1, <2>2, <2>3 DEF LinesUnder, Heads
<1> HIDE DEF S, T
<1>5. Sum(Summands(t, T, status)) =
         Sum(Summands(s, S, status)) + IF Len(s) + 1 \in T THEN x.stats[status] ELSE 0
  BY <1>2, <1>3, EntryAdded DEF t
<1> QED BY <1>4, <1>5 DEF S, T, t
-----------------------------------------------------------------------------
(* The tests of a run with a path, and those of a run without.              *)
Grouped ==
    \/ specs \in Seq({NoPath}) /\ test.path = NoPath /\ pathPrev = NoPath
    \/ /\ specs \in Seq(Paths) /\ pathPrev \in Paths \cup {NoPath}
       /\ phase \in {"before", "execute", "after"} => test.path \in Paths
       /\ phase \in {"execute", "after"} => pathPrev = test.path
       /\ pathPrev = NoPath => pathStats = Cleared

(* What is counted for the current group and stands in no line yet.         *)
Open(path, status) == IF path = pathPrev THEN pathStats[status] ELSE 0

Tally ==
    /\ stats \in [Statuses -> Nat] /\ pathStats \in [Statuses -> Nat]
    /\ testSummary \in Seq(SummaryEntries)
    /\ Grouped
    /\ phase # "done" =>
          IF testSummary = <<>> THEN pathPrev = NoPath
          ELSE testSummary[Len(testSummary)] = Header(pathPrev)
    /\ \A status \in Statuses : stats[status] = Total(status)
    /\ phase # "done" =>
          \A path \in Paths \cup {NoPath}, status \in Statuses :
              Logged(path, status) = SumOver(LinesOf(path), status) + Open(path, status)
    /\ SummaryMatchesLog

LEMMA SumsAre ==
    ASSUME Tally, NEW status \in Statuses, NEW path
    PROVE  /\ SumOver(Lines, status) = Sum(Summands(testSummary, LinesIn(testSummary), status))
           /\ SumOver(LinesOf(path), status)
                = Sum(Summands(testSummary, LinesUnder(testSummary, path), status))
           /\ SumOver(Lines, status) \in Nat /\ SumOver(LinesOf(path), status) \in Nat
<1>1. Lines = LinesIn(testSummary) /\ LinesOf(path) = LinesUnder(testSummary, path)
  BY DEF Lines, LinesIn, LinesOf, LinesUnder
<1>2. \A S : SumOver(S, status) = Sum(Summands(testSummary, S, status))
  BY DEF SumOver, Summands
<1>3. LinesUnder(testSummary, path) \subseteq LinesIn(testSummary)
  BY DEF LinesUnder
<1> QED BY <1>1, <1>2, <1>3, SummandsAreNumbers DEF Tally
-----------------------------------------------------------------------------
(* Verdicts of a log to which output and then one verdict are added.        *)
LEMMA OneMore ==
    ASSUME NEW n \in Nat, NEW m \in Nat, n < m, NEW A \in SUBSET (1..n), NEW B \in SUBSET (1..m),
           \A i \in 1..n : i \in A <=> i \in B, \A i \in (n + 1)..(m - 1) : i \notin B
    PROVE  /\ Cardinality(A) \in Nat
           /\ Cardinality(B) = Cardinality(A) + IF m \in B THEN 1 ELSE 0
<1>1. IsFiniteSet(A)
  <2>1. IsFiniteSet(1..n)
    BY FS_Interval
  <2> QED BY <2>1, FS_Subset
<1>2. B = IF m \in B THEN A \cup {m} ELSE A
  <2>1. \A i \in 1..m : i \in 1..n \/ i \in (n + 1)..(m - 1) \/ i = m
    OBVIOUS
  <2>2. \A i : i \in B <=> i \in A \/ (i = m /\ m \in B)
    <3>1. \A i \in 1..n : i # m /\ i \in 1..m
      OBVIOUS
    <3> QED BY <2>1, <3>1
  <2> QED BY <2>2
<1>3. m \notin A
  OBVIOUS
<1> QED BY <1>1, <1>2, <1>3, FS_AddElement, FS_CardinalityType

VerdictsIn(log, status) == {i \in DOMAIN log : log[i].what = status}
VerdictsOn(log, path, status) ==
    {i \in DOMAIN log : log[i].what = status /\ log[i].path = path}

LEMMA Counted ==
    ASSUME NEW log \in Seq(Entries), NEW out \in Seq(Entries), NEW v \in Entries,
           v.what \in Statuses,
           \A i \in 1..Len(out) : out[i].what \notin Statuses,
           NEW status \in Statuses, NEW path
    PROVE  /\ Cardinality(VerdictsIn(log \o Append(out, v), status))
                = Cardinality(VerdictsIn(log, status)) + IF v.what = status THEN 1 ELSE 0
           /\ Cardinality(VerdictsOn(log \o Append(out, v), path, status))
                = Cardinality(VerdictsOn(log, path, status))
                    + IF v.what = status /\ v.path = path THEN 1 ELSE 0
           /\ Cardinality(VerdictsIn(log, status)) \in Nat
           /\ Cardinality(VerdictsOn(log, path, status)) \in Nat
<1> DEFINE new == log \o Append(out, v)  n == Len(log)  m == Len(log) + Len(out) + 1
<1>1. /\ n \in Nat /\ m \in Nat /\ n < m /\ DOMAIN log = 1..n /\ Len(out) \in Nat
      /\ Append(out, v) \in Seq(Entries) /\ Len(Append(out, v)) = Len(out) + 1
  OBVIOUS
<1>2. new \in Seq(Entries) /\ DOMAIN new = 1..m
  BY <1>1
<1>3. \A i \in 1..n : new[i] = log[i]
  BY <1>1
<1>4. new[m] = v
  BY <1>1
<1>5. \A i \in (n + 1)..(m - 1) : new[i].what \notin Statuses
  <2> SUFFICES ASSUME NEW i \in (n + 1)..(m - 1) PROVE new[i].what \notin Statuses
    OBVIOUS
  <2>1. new[i] = out[i - n] /\ i - n \in 1..Len(out)
    BY <1>1
  <2> QED BY <2>1
<1> HIDE DEF new, n, m
<1>6. ASSUME NEW A, NEW B, A \in SUBSET (1..n), B \in SUBSET (1..m),
             \A i \in 1..n : i \in A <=> i \in B, \A i \in (n + 1)..(m - 1) : i \notin B
      PROVE  Cardinality(A) \in Nat /\ Cardinality(B) = Cardinality(A) + IF m \in B THEN 1 ELSE 0
  BY <1>1, <1>6, OneMore
<1>7. m \in 1..m
  BY <1>1
<1>8. /\ Cardinality(VerdictsIn(log, status)) \in Nat
      /\ Cardinality(VerdictsIn(new, status))
           = Cardinality(VerdictsIn(log, status)) + IF v.what = status THEN 1 ELSE 0
  <2> DEFINE A == VerdictsIn(log, status)  B == VerdictsIn(new, status)
  <2>1. A \in SUBSET (1..n) /\ B \in SUBSET (1..m) /\ (m \in B <=> v.what = status)
    BY <1>1, <1>2, <1>4, <1>7 DEF VerdictsIn
  <2>2. \A i \in 1..n : i \in A <=> i \in B
    BY <1>1, <1>2, <1>3 DEF VerdictsIn
  <2>3. \A i \in (n + 1)..(m - 1) : i \notin B
    BY <1>5 DEF VerdictsIn
  <2> HIDE DEF A, B
  <2>4. Cardinality(A) \in Nat /\ Cardinality(B) = Cardinality(A) + IF m \in B THEN 1 ELSE 0
    BY <1>6, <2>1, <2>2, <2>3
  <2> QED BY <2>1, <2>4 DEF A, B
<1>9. /\ Cardinality(VerdictsOn(log, path, status)) \in Nat
      /\ Cardinality(VerdictsOn(new, path, status))
           = Cardinality(VerdictsOn(log, path, status)) + IF v.what = status /\ v.path = path THEN 1 ELSE 0
  <2> DEFINE A == VerdictsOn(log, path, status)  B == VerdictsOn(new, path, status)
  <2>1. A \in SUBSET (1..n) /\ B \in SUBSET (1..m) /\ (m \in B <=> v.what = status /\ v.path = path)
    BY <1>1, <1>2, <1>4, <1>7 DEF VerdictsOn
  <2>2. \A i \in 1..n : i \in A <=> i \in B
    BY <1>1, <1>2, <1>3 DEF VerdictsOn
  <2>3. \A i \in (n + 1)..(m - 1) : i \notin B
    BY <1>5 DEF VerdictsOn
  <2> HIDE DEF A, B
  <2>4. Cardinality(A) \in Nat /\ Cardinality(B) = Cardinality(A) + IF m \in B THEN 1 ELSE 0
    BY <1>6, <2>1, <2>2, <2>3
  <2> QED BY <2>1, <2>4 DEF A, B
<1> QED BY <1>8, <1>9 DEF new
-----------------------------------------------------------------------------
(* The steps.                                                               *)

LEMMA AfterTestTallies ==
    ASSUME Inv, Tally, AfterTest
    PROVE  Tally'
<1> DEFINE out == IF test.status # "PASSED" \/ verbose THEN testOut ELSE <<>>
<1>1. /\ testLog' = testLog \o Append(out, Verdict)
      /\ phase = "after" /\ phase' = "next"
      /\ pathStats' = IncStats(pathStats, test.status) /\ stats' = IncStats(stats, test.status)
      /\ UNCHANGED <<specs, test, pathPrev, testSummary>>
  BY DEF AfterTest, AfterTestThen
<1>2. /\ testLog \in Seq(Entries) /\ Verdict \in Entries /\ Verdict.what = test.status
      /\ Verdict.path = test.path /\ test.status \in Statuses
      /\ out \in Seq(Entries) /\ \A i \in 1..Len(out) : out[i].what \notin Statuses
  <2> DEFINE a == Entry("START")  b == Entry("output")
  <2>1. testOut = <<a, b>>
    BY <1>1 DEF Inv, StreamInv
  <2>2. a \in Entries /\ b \in Entries /\ a.what = "START" /\ b.what = "output"
    BY DEF Inv, Entry, Entries
  <2>3. Verdict \in Entries /\ Verdict.what = test.status /\ Verdict.path = test.path
    BY DEF Inv, Verdict, Entries
  <2> HIDE DEF a, b
  <2>4. <<a, b>> \in Seq(Entries) /\ \A i \in 1..Len(<<a, b>>) : <<a, b>>[i].what \notin Statuses
    BY <2>2 DEF Statuses
  <2>5. <<>> \in Seq(Entries) /\ \A i \in 1..Len(<<>>) : <<>>[i].what \notin Statuses
    OBVIOUS
  <2> QED BY <2>1, <2>3, <2>4, <2>5 DEF Inv
<1> HIDE DEF out
<1>3. /\ \A status : Total(status) = Cardinality(VerdictsIn(testLog, status))
      /\ \A status : Total(status)' = Cardinality(VerdictsIn(testLog', status))
      /\ \A path, status : Logged(path, status) = Cardinality(VerdictsOn(testLog, path, status))
      /\ \A path, status : Logged(path, status)' = Cardinality(VerdictsOn(testLog', path, status))
  BY DEF Total, Logged, VerdictsIn, VerdictsOn
<1>4. ASSUME NEW status \in Statuses, NEW path
      PROVE  /\ Total(status)' = Total(status) + IF test.status = status THEN 1 ELSE 0
             /\ Logged(path, status)' = Logged(path, status)
                   + IF test.status = status /\ test.path = path THEN 1 ELSE 0
             /\ Total(status) \in Nat /\ Logged(path, status) \in Nat
  BY <1>1, <1>2, <1>3, Counted
<1>5. /\ stats' \in [Statuses -> Nat] /\ pathStats' \in [Statuses -> Nat]
      /\ \A status \in Statuses :
            /\ stats'[status] = stats[status] + IF test.status = status THEN 1 ELSE 0
            /\ pathStats'[status] = pathStats[status] + IF test.status = status THEN 1 ELSE 0
  BY <1>1, <1>2 DEF Tally, IncStats
<1>6. /\ \A status : SumOver(Lines, status)' = SumOver(Lines, status)
      /\ \A path, status : SumOver(LinesOf(path), status)' = SumOver(LinesOf(path), status)
  BY <1>1 DEF SumOver, Lines, LinesOf
<1>7. pathPrev = test.path /\ Grouped'
  BY <1>1, PathAssumption DEF Tally, Grouped
<1>8. ASSUME NEW status \in Statuses
      PROVE  stats'[status] = Total(status)'
  <2>1. Total(status)' = Total(status) + IF test.status = status THEN 1 ELSE 0
    BY <1>4
  <2>2. stats[status] = Total(status)
    BY DEF Tally
  <2> QED BY <1>5, <2>1, <2>2
<1>9. ASSUME NEW path \in Paths \cup {NoPath}, NEW status \in Statuses
      PROVE  Logged(path, status)' = SumOver(LinesOf(path), status)' + Open(path, status)'
  <2>1. Logged(path, status) = SumOver(LinesOf(path), status) + Open(path, status)
    BY <1>1 DEF Tally
  <2>2. Open(path, status)' = Open(path, status) + IF test.status = status /\ test.path = path THEN 1 ELSE 0
    BY <1>1, <1>5, <1>7 DEF Open
  <2>3. Open(path, status) \in Nat /\ SumOver(LinesOf(path), status) \in Nat
    BY SumsAre DEF Open, Tally
  <2> QED BY <1>4, <1>6, <2>1, <2>2, <2>3
<1>10. SummaryMatchesLog'
  <2>1. \A status \in Statuses : stats[status] = pathStats[status] + SumOver(Lines, status)
    BY <1>1 DEF Tally, SummaryMatchesLog
  <2>2. \A status \in Statuses : SumOver(Lines, status) \in Nat
    BY SumsAre
  <2>3. ASSUME NEW status \in Statuses
        PROVE  stats'[status] = pathStats'[status] + SumOver(Lines, status)'
    <3>1. /\ stats[status] = pathStats[status] + SumOver(Lines, status)
          /\ pathStats[status] \in Nat /\ SumOver(Lines, status) \in Nat
      BY <2>1, <2>2 DEF Tally
    <3>2. SumOver(Lines, status)' = SumOver(Lines, status)
      BY <1>6
    <3>3. /\ stats'[status] = stats[status] + IF test.status = status THEN 1 ELSE 0
          /\ pathStats'[status] = pathStats[status] + IF test.status = status THEN 1 ELSE 0
      BY <1>5
    <3> QED BY <3>1, <3>2, <3>3
  <2> QED BY <1>1, <2>3 DEF SummaryMatchesLog
<1> QED BY <1>1, <1>5, <1>7, <1>8, <1>9, <1>10 DEF Tally

(* A line is written for the current group: nothing is open any more.       *)
WithLine(x) == Append(Append(testSummary, Line(pathStats)), x)

LEMMA LineWritten ==
    ASSUME Tally, phase # "done", NEW x \in SummaryEntries, x.kind # "line", NEW status \in Statuses,
           NEW path \in Paths \cup {NoPath},
           NEW t, t = WithLine(x)
    PROVE  /\ t \in Seq(SummaryEntries) /\ t # <<>> /\ t[Len(t)] = x
           /\ Sum(Summands(t, LinesIn(t), status)) = SumOver(Lines, status) + pathStats[status]
           /\ Sum(Summands(t, LinesUnder(t, path), status))
                = SumOver(LinesOf(path), status) + Open(path, status)
<1> DEFINE s == Append(testSummary, Line(pathStats))
<1>0. t = Append(s, x)
  BY DEF WithLine
<1>1. /\ testSummary \in Seq(SummaryEntries) /\ Line(pathStats) \in SummaryEntries
      /\ Line(pathStats).kind = "line" /\ Line(pathStats).stats = pathStats
      /\ pathStats[status] \in Nat
  BY DEF Tally, Line, SummaryEntries
<1>2. s \in Seq(SummaryEntries)
  BY <1>1
<1>3. Heads(testSummary, path) <=> path = pathPrev
  BY DEF Heads, Tally, Header
<1>4. Open(path, status) = IF Heads(testSummary, path) THEN pathStats[status] ELSE 0
  BY <1>3 DEF Open
<1>5. /\ Sum(Summands(s, LinesIn(s), status)) = SumOver(Lines, status) + pathStats[status]
      /\ SumOver(Lines, status) \in Nat
  BY <1>1, LinesAdded, SumsAre
<1>6. /\ Sum(Summands(s, LinesUnder(s, path), status))
            = SumOver(LinesOf(path), status) + Open(path, status)
      /\ SumOver(LinesOf(path), status) \in Nat
  BY <1>1, <1>4, LinesUnderAdded, SumsAre
<1>7. t \in Seq(SummaryEntries) /\ t # <<>> /\ t[Len(t)] = x
  <2> HIDE DEF s
  <2> QED BY <1>0, <1>2
<1> HIDE DEF s
<1>8. /\ Sum(Summands(t, LinesIn(t), status)) = Sum(Summands(s, LinesIn(s), status)) + 0
      /\ Sum(Summands(t, LinesUnder(t, path), status))
            = Sum(Summands(s, LinesUnder(s, path), status)) + 0
  BY <1>0, <1>2, LinesAdded, LinesUnderAdded
<1>9. pathStats[status] \in Nat /\ Open(path, status) \in Nat
  BY <1>1, <1>4
<1> QED BY <1>5, <1>6, <1>7, <1>8, <1>9 DEF s

(* What sums over a new summary are in terms of it.                         *)
LEMMA SumsBecome ==
    /\ \A status : SumOver(Lines, status)' = Sum(Summands(testSummary', LinesIn(testSummary'), status))
    /\ \A path, status : SumOver(LinesOf(path), status)'
                           = Sum(Summands(testSummary', LinesUnder(testSummary', path), status))
  BY DEF SumOver, Lines, LinesOf, LinesIn, LinesUnder, Summands

LEMMA SameLog ==
    ASSUME testLog' = testLog
    PROVE  /\ \A status : Total(status)' = Total(status)
           /\ \A path, status : Logged(path, status)' = Logged(path, status)
  BY DEF Total, Logged

LEMMA NextGroupTallies ==
    ASSUME Inv, Tally, BeforeTest, test.path # pathPrev
    PROVE  Tally'
<1> DEFINE x == Header(test.path)
<1>1. /\ phase = "before" /\ phase' = "execute" /\ UNCHANGED <<specs, test, stats, testLog>>
      /\ testSummary' = testSummary \o (IF pathPrev = NoPath THEN <<>> ELSE <<Line(pathStats)>>) \o <<x>>
      /\ pathStats' = Cleared /\ pathPrev' = test.path
  BY DEF BeforeTest, NextGroup
<1>2. /\ test.path \in Paths /\ test.path # NoPath /\ specs \in Seq(Paths)
      /\ pathPrev = NoPath => pathStats = Cleared
  BY <1>1, PathAssumption DEF Tally, Grouped
<1>3. /\ testSummary \in Seq(SummaryEntries) /\ Line(pathStats) \in SummaryEntries
      /\ x \in SummaryEntries /\ x.kind = "path"
  BY <1>2 DEF Tally, Line, Header, SummaryEntries
<1> HIDE DEF x
<1>4. ASSUME NEW path \in Paths \cup {NoPath}, NEW status \in Statuses
      PROVE  /\ testSummary' \in Seq(SummaryEntries) /\ testSummary' # <<>>
             /\ testSummary'[Len(testSummary')] = x
             /\ SumOver(Lines, status)' = SumOver(Lines, status) + pathStats[status]
             /\ SumOver(LinesOf(path), status)' = SumOver(LinesOf(path), status) + Open(path, status)
  <2>1. CASE pathPrev # NoPath
    <3>1. testSummary' = WithLine(x)
      BY <1>1, <1>3, <2>1 DEF WithLine
    <3>2. phase # "done" /\ x.kind # "line"
      BY <1>1, <1>3
    <3>3. /\ testSummary' \in Seq(SummaryEntries) /\ testSummary' # <<>>
          /\ testSummary'[Len(testSummary')] = x
          /\ Sum(Summands(testSummary', LinesIn(testSummary'), status))
                = SumOver(Lines, status) + pathStats[status]
          /\ Sum(Summands(testSummary', LinesUnder(testSummary', path), status))
                = SumOver(LinesOf(path), status) + Open(path, status)
      BY <1>3, <3>1, <3>2, LineWritten
    <3>4. /\ SumOver(Lines, status)'
                = Sum(Summands(testSummary', LinesIn(testSummary'), status))
          /\ SumOver(LinesOf(path), status)'
                = Sum(Summands(testSummary', LinesUnder(testSummary', path), status))
      BY SumsBecome
    <3> QED BY <3>3, <3>4
  <2>2. CASE pathPrev = NoPath
    <3>1. testSummary' = Append(testSummary, x)
      BY <1>1, <1>3, <2>2
    <3>2. pathStats[status] = 0 /\ Open(path, status) = 0
      BY <1>2, <2>2 DEF Cleared, Open
    <3>3. /\ SumOver(Lines, status)' = SumOver(Lines, status) + 0
          /\ SumOver(LinesOf(path), status)' = SumOver(LinesOf(path), status) + 0
      BY <1>3, <3>1, LinesAdded, LinesUnderAdded, SumsAre, SumsBecome
    <3>4. /\ testSummary' \in Seq(SummaryEntries) /\ testSummary' # <<>>
          /\ testSummary'[Len(testSummary')] = x
      BY <1>3, <3>1
    <3> QED BY <3>2, <3>3, <3>4
  <2> QED BY <2>1, <2>2
<1>5. ASSUME NEW path \in Paths \cup {NoPath}, NEW status \in Statuses
      PROVE  /\ SumOver(Lines, status) \in Nat /\ SumOver(LinesOf(path), status) \in Nat
             /\ pathStats[status] \in Nat /\ Open(path, status) \in Nat
             /\ pathStats'[status] = 0 /\ Open(path, status)' = 0
  BY <1>1, SumsAre DEF Tally, Open, Cleared
<1>6. ASSUME NEW path \in Paths \cup {NoPath}, NEW status \in Statuses
      PROVE  Logged(path, status)' = SumOver(LinesOf(path), status)' + Open(path, status)'
  <2>1. Logged(path, status) = SumOver(LinesOf(path), status) + Open(path, status)
    BY <1>1 DEF Tally
  <2>2. Logged(path, status)' = Logged(path, status)
    BY <1>1, SameLog
  <2> QED BY <1>4, <1>5, <2>1, <2>2
<1>7. ASSUME NEW status \in Statuses
      PROVE  /\ stats'[status] = Total(status)'
             /\ stats'[status] = pathStats'[status] + SumOver(Lines, status)'
  <2>1. stats[status] = pathStats[status] + SumOver(Lines, status) /\ stats[status] = Total(status)
    BY <1>1 DEF Tally, SummaryMatchesLog
  <2>2. stats'[status] = stats[status] /\ Total(status)' = Total(status)
    BY <1>1, SameLog
  <2>3. SumOver(Lines, status)' = SumOver(Lines, status) + pathStats[status]
    BY <1>4
  <2> QED BY <1>5, <2>1, <2>2, <2>3
<1>8. /\ stats' \in [Statuses -> Nat] /\ pathStats' \in [Statuses -> Nat] /\ Grouped'
      /\ testSummary' \in Seq(SummaryEntries) /\ testSummary' # <<>>
      /\ testSummary'[Len(testSummary')] = Header(pathPrev')
  <2>1. "PASSED" \in Statuses
    BY DEF Statuses
  <2>2. Grouped'
    BY <1>1, <1>2 DEF Grouped
  <2> QED BY <1>1, <1>4, <2>1, <2>2 DEF Tally, Cleared, x
<1> QED BY <1>1, <1>6, <1>7, <1>8 DEF Tally, SummaryMatchesLog

LEMMA AfterTestSetTallies ==
    ASSUME Inv, Tally, AfterTestSet
    PROVE  Tally'
<1> DEFINE x == Totals(stats)
<1>1. /\ phase = "next" /\ phase' = "done"
      /\ testSummary' = testSummary \o <<Line(pathStats), x>>
      /\ UNCHANGED <<specs, test, pathPrev, pathStats, stats, testLog>>
  BY DEF AfterTestSet, Close
<1>2. /\ testSummary \in Seq(SummaryEntries) /\ Line(pathStats) \in SummaryEntries
      /\ x \in SummaryEntries /\ x.kind = "totals" /\ x.stats = stats
  BY DEF Tally, Line, Totals, SummaryEntries
<1> HIDE DEF x
<1>3. testSummary' = WithLine(x)
  BY <1>1, <1>2 DEF WithLine
<1>4. phase # "done" /\ x.kind # "line"
  BY <1>1, <1>2
<1>5. ASSUME NEW path \in Paths \cup {NoPath}, NEW status \in Statuses
      PROVE  /\ testSummary' \in Seq(SummaryEntries) /\ testSummary' # <<>>
             /\ testSummary'[Len(testSummary')] = x
             /\ SumOver(LinesOf(path), status)' = SumOver(LinesOf(path), status) + Open(path, status)
  <2>1. /\ testSummary' \in Seq(SummaryEntries) /\ testSummary' # <<>>
        /\ testSummary'[Len(testSummary')] = x
        /\ Sum(Summands(testSummary', LinesIn(testSummary'), status))
              = SumOver(Lines, status) + pathStats[status]
        /\ Sum(Summands(testSummary', LinesUnder(testSummary', path), status))
              = SumOver(LinesOf(path), status) + Open(path, status)
    BY <1>2, <1>3, <1>4, LineWritten
  <2>2. SumOver(LinesOf(path), status)'
           = Sum(Summands(testSummary', LinesUnder(testSummary', path), status))
    BY SumsBecome
  <2> QED BY <2>1, <2>2
<1>6. ASSUME NEW path \in Paths \cup {NoPath}, NEW status \in Statuses
      PROVE  SumOver(LinesOf(path), status)' = Logged(path, status)'
  <2>1. Logged(path, status) = SumOver(LinesOf(path), status) + Open(path, status)
    BY <1>1 DEF Tally
  <2>2. Logged(path, status)' = Logged(path, status)
    BY <1>1, SameLog
  <2> QED BY <1>5, <2>1, <2>2
<1>7. \A status \in Statuses : stats'[status] = Total(status)'
  BY <1>1, SameLog DEF Tally
<1>8. testSummary' \in Seq(SummaryEntries) /\ Last(testSummary)' = x
  <2>1. "PASSED" \in Statuses
    BY DEF Statuses
  <2> QED BY <1>5, <2>1 DEF Last
<1>9. SummaryMatchesLog'
  BY <1>1, <1>2, <1>6, <1>7, <1>8 DEF SummaryMatchesLog
<1>10. Grouped'
  BY <1>1 DEF Tally, Grouped
<1> QED BY <1>1, <1>7, <1>8, <1>9, <1>10 DEF Tally

(* Steps that do not report.                                                *)
LEMMA SilentStepTallies ==
    ASSUME Tally, Grouped', phase' # "done" \/ phase' = phase, phase # "done" \/ phase' = phase,
           UNCHANGED <<pathPrev, pathStats, stats, testLog, testSummary>>
    PROVE  Tally'
<1>1. /\ \A status : SumOver(Lines, status)' = SumOver(Lines, status)
      /\ \A path, status : SumOver(LinesOf(path), status)' = SumOver(LinesOf(path), status)
  BY DEF SumOver, Lines, LinesOf
<1>2. \A path, status : Open(path, status)' = Open(path, status)
  BY DEF Open
<1>3. /\ \A status : Total(status)' = Total(status)
      /\ \A path, status : Logged(path, status)' = Logged(path, status)
  BY SameLog
<1>4. SummaryMatchesLog'
  BY <1>1, <1>3 DEF Tally, SummaryMatchesLog
<1> QED BY <1>1, <1>2, <1>3, <1>4 DEF Tally

LEMMA InitTally == Init => Tally
<1> SUFFICES ASSUME Init PROVE Tally
  OBVIOUS
<1>1. /\ specs \in Seq(Paths) \/ specs \in Seq({NoPath})
      /\ phase = "open" /\ test.path = NoPath /\ pathPrev = NoPath
      /\ pathStats = Cleared /\ stats = Cleared /\ testLog = <<>> /\ testSummary = <<>>
  <2>1. CASE \E n \in 0..MaxSpecs : specs \in [1..n -> Paths]
    <3>1. specs \in Seq(Paths)
      BY <2>1, BoundAssumption
    <3> QED BY <3>1 DEF Init
  <2>2. CASE \E n \in 0..MaxSpecs : specs = [i \in 1..n |-> NoPath]
    <3>1. specs \in Seq({NoPath})
      BY <2>2, BoundAssumption
    <3> QED BY <3>1 DEF Init
  <2> QED BY <2>1, <2>2 DEF Init
<1>2. Sum(<<>>) = 0
  <2>1. <<>> \in Seq(Nat) /\ Len(<<>>) = 0
    OBVIOUS
  <2>2. PICK f : Adds(f, <<>>, 0)
    BY AddsExists
  <2>3. f[0] = 0
    BY <2>2 DEF Adds
  <2>4. Adds(f, <<>>, Len(<<>>))
    BY <2>1, <2>2
  <2> QED BY <2>1, <2>3, <2>4, SumIs
<1>3. \A S, status : SumOver(S, status) = 0
  <2>1. \A S, status :
           [i \in DOMAIN testSummary |-> IF i \in S THEN testSummary[i].stats[status] ELSE 0] = <<>>
    BY <1>1
  <2> QED BY <1>2, <2>1 DEF SumOver
<1>4. /\ \A status : Total(status) = 0
      /\ \A path, status : Logged(path, status) = 0
  BY <1>1, FS_EmptySet DEF Total, Logged
<1>5. stats \in [Statuses -> Nat] /\ pathStats \in [Statuses -> Nat]
      /\ \A status \in Statuses : stats[status] = 0 /\ pathStats[status] = 0
  BY <1>1 DEF Cleared
<1>6. testSummary \in Seq(SummaryEntries)
  BY <1>1
<1>7. SummaryMatchesLog
  BY <1>1, <1>3, <1>5 DEF SummaryMatchesLog
<1>8. Grouped
  BY <1>1 DEF Grouped
<1> QED BY <1>1, <1>3, <1>4, <1>5, <1>6, <1>7, <1>8 DEF Tally, Open

LEMMA StepTally == Inv /\ Tally /\ [Next]_vars => Tally'
<1> SUFFICES ASSUME Inv, Tally, [Next]_vars PROVE Tally'
  OBVIOUS
<1>1. CASE BeforeTestSet
  <2>1. Grouped'
    BY <1>1 DEF BeforeTestSet, Tally, Grouped
  <2> QED BY <1>1, <2>1, SilentStepTallies DEF BeforeTestSet
<1>2. CASE SkipSpec
  <2>1. Grouped'
    BY <1>2 DEF SkipSpec, Tally, Grouped
  <2> QED BY <1>2, <2>1, SilentStepTallies DEF SkipSpec
<1>3. CASE RunTestSpec
  <2>1. test'.path = Head(specs) /\ phase' = "before" /\ specs' = Tail(specs) /\ specs # <<>>
    BY <1>3 DEF RunTestSpec
  <2>2. Grouped'
    BY <1>3, <2>1 DEF RunTestSpec, Tally, Grouped
  <2> QED BY <1>3, <2>2, SilentStepTallies DEF RunTestSpec
<1>4. CASE BeforeTest /\ test.path = pathPrev
  <2>1. Grouped'
    BY <1>4 DEF BeforeTest, Tally, Grouped
  <2> QED BY <1>4, <2>1, SilentStepTallies DEF BeforeTest
<1>5. CASE BeforeTest /\ test.path # pathPrev
  BY <1>5, NextGroupTallies
<1>6. CASE ExecuteTest
  <2>1. test'.path = test.path
    BY <1>6 DEF ExecuteTest
  <2>2. Grouped'
    BY <1>6, <2>1 DEF ExecuteTest, Tally, Grouped
  <2> QED BY <1>6, <2>2, SilentStepTallies DEF ExecuteTest
<1>7. CASE AfterTest
  BY <1>7, AfterTestTallies
<1>8. CASE AfterTestSet
  BY <1>8, AfterTestSetTallies
<1>9. CASE UNCHANGED vars
  <2>1. Grouped'
    BY <1>9 DEF vars, Tally, Grouped
  <2> QED BY <1>9, <2>1, SilentStepTallies DEF vars
<1> QED BY <1>1, <1>2, <1>3, <1>4, <1>5, <1>6, <1>7, <1>8, <1>9 DEF Next
-----------------------------------------------------------------------------
(* The log shows the output of a test, and only its own, before its verdict.*)
THEOREM OwnOutputHolds == Spec => []OwnOutput
<1>1. Inv => OwnOutput
  BY DEF Inv
<1> QED BY <1>1, InitInv, StepInv, PTL DEF Spec

(* The summary counts under each path, and in all, what the log says.       *)
THEOREM SummaryMatchesLogHolds == Spec => []SummaryMatchesLog
<1>1. Tally => SummaryMatchesLog
  BY DEF Tally
<1> QED BY <1>1, InitInv, StepInv, InitTally, StepTally, PTL DEF Spec
=============================================================================

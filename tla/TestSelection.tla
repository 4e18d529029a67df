---------------------------- MODULE TestSelection ----------------------------
(***************************************************************************)
(* Which tests a run consists of: the options -tests and -exclude filter   *)
(* the tree of test sets (hexl_base/HexlTest.cpp, HCTestFactory and        *)
(* HCRunner::CreateTestSet).  A union of test sets knows only its own      *)
(* part of a name, so that each level of the tree cuts its part off the    *)
(* pattern and hands the rest down; the sets at the leaves compare what is *)
(* left.  Names are sequences of characters: where a pattern ends inside a *)
(* name is what the filters are about.                                     *)
(***************************************************************************)
EXTENDS Naturals, Sequences, SequencesExt

(* Test sets: a union, a basic one with the names of its tests, a basic one *)
(* behind filters, the empty one.                                           *)
Union(base, sets) == [kind |-> "union", base |-> base, sets |-> sets]
Basic(names) == [kind |-> "basic", names |-> names]
Filtered(parent, filters) == [kind |-> "filtered", parent |-> parent, filters |-> filters]
Empty == [kind |-> "empty"]

NameFilter(pattern) == [kind |-> "name", pattern |-> pattern]
ExcludeFilter(prefixes) == [kind |-> "exclude", prefixes |-> prefixes]

MatchesWhole(filter, name) ==    \* a variation
    IF filter.kind = "name" THEN IsPrefix(filter.pattern, name)
    ELSE \A i \in DOMAIN filter.prefixes : filter.prefixes[i] # name

Matches(filter, name) ==
    IF filter.kind = "name" THEN IsPrefix(filter.pattern, name)
    ELSE \A i \in DOMAIN filter.prefixes : ~IsPrefix(filter.prefixes[i], name)

(* CutTestNamePrefix: whether the base is there, and what follows it.       *)
Cuts(name, base) == IsPrefix(base, name)
RestFrom(name, n) == SubSeq(name, n, Len(name))
RestKeepsSlash(name, base) == RestFrom(name, Len(base) + 1)    \* a variation
Rest(name, base) ==
    LET rest == RestFrom(name, Len(base) + 1)
        Slashes(n) == \A i \in 1..n : rest[i] = "/"
    IN  RestFrom(rest, 1 + CHOOSE n \in 0..Len(rest) :
            Slashes(n) /\ (n < Len(rest) => ~Slashes(n + 1)))

(* A set that was filtered before is filtered by both.                      *)
Replace(old, filter) == {filter}    \* a variation
AndFilter(old, filter) == old \cup {filter}

RECURSIVE FilterByName(_, _), FilterByExcludes(_, _), Iterate(_)

FilterByName(ts, pattern) ==
    CASE ts.kind = "basic" -> Filtered(ts, {NameFilter(pattern)})
      [] ts.kind = "filtered" -> Filtered(ts.parent, AndFilter(ts.filters, NameFilter(pattern)))
      [] ts.kind = "empty" -> Empty
      [] ts.kind = "union" ->
            IF pattern = <<>> THEN ts
            ELSE IF ~Cuts(pattern, ts.base) THEN Empty
            ELSE IF Rest(pattern, ts.base) = <<>> THEN ts
            ELSE Union(ts.base, [i \in DOMAIN ts.sets |->
                    FilterByName(ts.sets[i], Rest(pattern, ts.base))])

\* The prefixes that concern a union; it drops the others.
Concerned(prefixes, base) == SelectSeq(prefixes, LAMBDA p : Cuts(p, base))

FilterByExcludes(ts, prefixes) ==
    CASE ts.kind = "basic" -> Filtered(ts, {ExcludeFilter(prefixes)})
      [] ts.kind = "filtered" -> Filtered(ts.parent, AndFilter(ts.filters, ExcludeFilter(prefixes)))
      [] ts.kind = "empty" -> Empty
      [] ts.kind = "union" ->
            LET down == Concerned(prefixes, ts.base)
                rests == [i \in DOMAIN down |-> Rest(down[i], ts.base)]
            IN  IF \E i \in DOMAIN rests : rests[i] = <<>> THEN Empty
                ELSE Union(ts.base,
                        [i \in DOMAIN ts.sets |-> FilterByExcludes(ts.sets[i], rests)])

(* The names of the tests as the iterators report them: every union puts    *)
(* its base in front.                                                       *)
Iterate(ts) ==
    CASE ts.kind = "basic" -> ts.names
      [] ts.kind = "filtered" ->
            SelectSeq(Iterate(ts.parent), LAMBDA n : \A f \in ts.filters : Matches(f, n))
      [] ts.kind = "empty" -> <<>>
      [] ts.kind = "union" ->
            LET all == FlattenSeq([i \in DOMAIN ts.sets |-> Iterate(ts.sets[i])])
                Based(n) == IF ts.base = <<>> THEN n ELSE ts.base \o <<"/">> \o n
            IN  [i \in DOMAIN all |-> Based(all[i])]
-----------------------------------------------------------------------------
(* The options, applied to the test set of the program in the order of      *)
(* HCRunner::CreateTestSet: -tests first, then the lines of -exclude.       *)
CreateTestSet(tree, tests) == IF tests = <<"all">> THEN tree ELSE FilterByName(tree, tests)
Exclude(ts, exclude) == IF exclude = <<>> THEN ts ELSE FilterByExcludes(ts, exclude)
Ran(tree, tests, exclude) == Iterate(Exclude(CreateTestSet(tree, tests), exclude))
-----------------------------------------------------------------------------
(* What the options mean.                                                   *)
Category(names, p) == p # <<>> /\ Last(p) = "/" /\ \E i \in DOMAIN names : IsPrefix(p, names[i])
Named(names, p) == Category(names, p) \/ p \in ToSet(names)
StartingWith(names, p) == SelectSeq(names, LAMBDA n : IsPrefix(p, n))
Without(names, prefixes) ==
    SelectSeq(names, LAMBDA n : \A i \in DOMAIN prefixes : ~IsPrefix(prefixes[i], n))

\* Categories and tests select by their names, and are excluded by them.
CategoriesSelectOn(tree, tests, exclude) ==
    LET names == Iterate(tree)
    IN  /\ Named(names, tests)
        /\ \A i \in DOMAIN exclude : Named(names, exclude[i])
        => Ran(tree, tests, exclude) = Without(StartingWith(names, tests), exclude)

\* A pattern, however it is written, excludes exactly what it selects.
ComplementaryOn(tree, tests) ==
    tests \notin {<<"all">>, <<>>} =>
        LET selected == Iterate(FilterByName(tree, tests))
            others == Iterate(FilterByExcludes(tree, <<tests>>))
        IN  /\ ToSet(selected) \cup ToSet(others) = ToSet(Iterate(tree))
            /\ Len(selected) + Len(others) = Len(Iterate(tree))

\* The exclude file has the same effect on a selection as on all tests.
FiltersComposeOn(tree, tests, exclude) ==
    LET left == ToSet(Ran(tree, <<"all">>, exclude))
    IN  Ran(tree, tests, exclude) =
            SelectSeq(Ran(tree, tests, <<>>), LAMBDA n : n \in left)
=============================================================================

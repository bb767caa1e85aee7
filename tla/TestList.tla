------------------------------ MODULE TestList ------------------------------
(***************************************************************************)
(* Which tests run, and in which order (framework/sandstone_tests.cpp and  *)
(* .h, and the part of main() that uses them): --enable, --test-list-file, *)
(* --use-builtin-test-list, --disable and mce_check, then one pass after   *)
(* the other over the list.                                                *)
(*                                                                         *)
(* A name is an id, a pattern (the ids it matches) or a group; a line of a *)
(* file is empty, not understood, or a name and a duration.                *)
(***************************************************************************)
EXTENDS Integers, SequencesExt, FiniteSetsExt

CONSTANTS
  Catalog,       \* sequence of [id, quality, groups], in the order of the binary
  Mce,           \* mce_check
  Selections,    \* the command lines
  MaxPasses      \* bound: passes over the list

VARIABLES
  selection,     \* the command line
  phase,         \* where main() is
  test_set,      \* sequence of [test, duration]
  pass,          \* the tests of this pass that are run, in order
  passes         \* passes begun

testListVars == <<selection, phase, test_set, pass, passes>>

Prod == 2
AllTests == Append(Catalog, Mce)

Entry(t, duration) == [test |-> t, duration |-> duration]

Entries(tests) == [i \in DOMAIN tests |-> Entry(tests[i], 0)]

\* ids are unique; a group has all its tests, a pattern only those of the quality
lookup(name) ==
  CASE name.kind = "id"    -> SelectSeq(AllTests, LAMBDA t : t.id = name.id)
    [] name.kind = "glob"  -> SelectSeq(AllTests, LAMBDA t : /\ t.quality >= selection.quality
                                                             /\ t.id \in name.ids)
    [] name.kind = "group" -> SelectSeq(Catalog, LAMBDA t : name.id \in t.groups)

\* the constructor with enable_all_tests
EnableAll == Entries(SelectSeq(Catalog, LAMBDA t : t.quality >= selection.quality))

Specific == selection.enable # <<>> \/ selection.list_given \/ selection.builtin_given

TestListInit ==
  /\ selection \in Selections
  /\ phase = "construct" /\ test_set = <<>> /\ pass = <<>> /\ passes = 0

Construct ==
  /\ phase = "construct" /\ phase' = "enable"
  /\ test_set' = IF Specific THEN <<>> ELSE EnableAll
  /\ UNCHANGED <<selection, pass, passes>>

AddEnabled ==
  /\ phase = "enable"
  /\ IF (\E i \in DOMAIN selection.enable : lookup(selection.enable[i]) = <<>>)
        /\ ~selection.ignore_unknown
     THEN phase' = "EX_USAGE" /\ UNCHANGED test_set
     ELSE /\ phase' = "list"
          /\ test_set' = test_set \o FlattenSeq([i \in DOMAIN selection.enable |->
                                                   Entries(lookup(selection.enable[i]))])
  /\ UNCHANGED <<selection, pass, passes>>

\* parse_test_list_line(): one test, no pattern of several and no group of several
parse_test_list_line(line) ==
  IF line.kind # "test" THEN line.kind
  ELSE LET found == lookup(line.name)
       IN IF found = <<>> THEN "not found" ELSE IF Len(found) # 1 THEN "bad" ELSE "test"

load_test_list(lines) ==
  LET good == SelectSeq(lines, LAMBDA l : parse_test_list_line(l) = "test")
  IN [i \in DOMAIN good |-> Entry(lookup(good[i].name)[1], good[i].duration)]

ListError(lines) ==
  \E i \in DOMAIN lines :
    \/ parse_test_list_line(lines[i]) = "bad"
    \/ parse_test_list_line(lines[i]) = "not found" /\ ~selection.ignore_unknown

add_test_list ==
  /\ phase = "list"
  /\ IF ListError(selection.list) THEN phase' = "EX_USAGE" /\ UNCHANGED test_set
     ELSE phase' = "builtin" /\ test_set' = test_set \o load_test_list(selection.list)
  /\ UNCHANGED <<selection, pass, passes>>

\* every test of the list is put into the set twice
add_builtin_test_list ==
  /\ phase = "builtin"
  /\ IF selection.builtin_given /\ selection.builtin = <<>> THEN phase' = "EX_USAGE" /\ UNCHANGED test_set
     ELSE /\ phase' = "mce"
          /\ test_set' = test_set \o FlattenSeq([i \in DOMAIN selection.builtin |->
                                                   LET e == Entry(selection.builtin[i], 0)
                                                   IN <<e, e>>])
  /\ UNCHANGED <<selection, pass, passes>>

AddMce ==
  /\ phase = "mce" /\ phase' = "disable"
  /\ test_set' = IF selection.ignore_mce THEN test_set ELSE Append(test_set, Entry(Mce, 0))
  /\ UNCHANGED <<selection, pass, passes>>

\* mutant: removes the first entry of the test
remove_once(set, tests) ==
  LET hit == {i \in DOMAIN set : set[i].test \in tests} IN
  IF hit = {} THEN set ELSE RemoveAt(set, Min(hit))

remove(set, tests) == SelectSeq(set, LAMBDA e : e.test \notin tests)

\* with exec, or where MCEs cannot be counted, mce_check goes
RemoveDisabled ==
  /\ phase = "disable" /\ phase' = "begin"
  /\ LET disabled == UNION {Range(lookup(selection.disable[i])) : i \in DOMAIN selection.disable}
     IN test_set' = remove(remove(test_set, disabled), IF selection.no_mce THEN {Mce} ELSE {})
  /\ UNCHANGED <<selection, pass, passes>>

\* begin(): mce_check stays where it is if it is last
Shuffled(list) ==
  LET n == IF Last(list).test = Mce THEN Len(list) - 1 ELSE Len(list)
  IN {[i \in DOMAIN list |-> IF i <= n THEN list[p[i]] ELSE list[i]] : p \in Permutations(1..n)}

\* get_first_test() and get_next_test() pass over tests that are to be skipped
InThePass(e) == ~(e.test.quality < 0 /\ selection.quality >= 0)

BeginPass ==
  /\ phase \in {"begin", "pass"} /\ phase' = "pass"
  /\ passes < MaxPasses /\ passes' = passes + 1
  /\ selection.randomize => test_set # <<>>
  /\ IF selection.randomize THEN test_set' \in Shuffled(test_set) ELSE UNCHANGED test_set
  /\ pass' = SelectSeq(test_set', InThePass)
  /\ UNCHANGED selection

\* the last element of an empty vector is read
BeginUndefined ==
  /\ phase = "begin" /\ selection.randomize /\ test_set = <<>>
  /\ phase' = "undefined"
  /\ UNCHANGED <<selection, test_set, pass, passes>>

TestListNext ==
  \/ Construct \/ AddEnabled \/ add_test_list \/ add_builtin_test_list \/ AddMce \/ RemoveDisabled
  \/ BeginPass \/ BeginUndefined
  \/ (phase \in {"EX_USAGE", "undefined"} \/ passes = MaxPasses) /\ UNCHANGED testListVars

TestListSpec == TestListInit /\ [][TestListNext]_testListVars
-----------------------------------------------------------------------------
Running == phase = "pass"

\* the tests a name stands for
Meant(name) ==
  {t \in Range(AllTests) :
     CASE name.kind = "id"    -> t.id = name.id
       [] name.kind = "glob"  -> t.id \in name.ids /\ t.quality >= selection.quality
       [] name.kind = "group" -> name.id \in t.groups}

Disabled(t) == \E i \in DOMAIN selection.disable : t \in Meant(selection.disable[i])

\* how often the command line asks for a test, built-in lists aside
Asked(t) ==
  (IF ~Specific /\ t # Mce /\ t.quality >= selection.quality THEN 1 ELSE 0)
  + Cardinality({i \in DOMAIN selection.enable : t \in Meant(selection.enable[i])})
  + Cardinality({i \in DOMAIN selection.list :
                   selection.list[i].kind = "test" /\ t \in Meant(selection.list[i].name)})

Occurrences(list, t) == Cardinality({i \in DOMAIN list : list[i].test = t})

(***************************************************************************)
(* In every pass a test runs as often as the command line asks for it: not *)
(* at all if it is disabled, however it was enabled, or of too low a       *)
(* quality.  A test of the built-in list runs more often than it is asked  *)
(* for.                                                                    *)
(***************************************************************************)
AsOftenAsAsked ==
  Running =>
    \A t \in Range(Catalog) :
      LET n == Occurrences(pass, t)
          builtin == t \in Range(selection.builtin)
      IN IF Disabled(t) \/ (t.quality < 0 /\ selection.quality >= 0) THEN n = 0
         ELSE IF builtin THEN n > Asked(t) ELSE n = Asked(t)

=============================================================================

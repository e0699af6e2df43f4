------------------------------ MODULE MCCmocka ------------------------------
(***************************************************************************)
(* Instances of Cmocka for TLC.                                            *)
(***************************************************************************)
EXTENDS Cmocka

Values == {1, 2}

Names == {"g", "h"}

Offers ==
  [k \in Key |->
    IF k = "f"
    THEN {[value |-> EqualTo(1), count |-> 2], [value |-> EqualTo(2), count |-> ALWAYS],
          [value |-> EqualTo(1), count |-> ONCE]}
    ELSE {[value |-> InRange(2, 3), count |-> 1], [value |-> Anything, count |-> ALWAYS]}]

Orders ==
  {[value |-> "g", count |-> 1], [value |-> "h", count |-> 1],
   [value |-> "g", count |-> ALWAYS], [value |-> "h", count |-> ONCE]}

Bare == [setup |-> FALSE, teardown |-> FALSE]
Both == [setup |-> TRUE, teardown |-> TRUE]

Group(setup, teardown, tests) ==
  [groupSetup |-> setup, groupTeardown |-> teardown, tests |-> tests]

Half(setup) == [setup |-> setup, teardown |-> ~setup]

\* Without fixtures, as in unit_test.c; with those of the tests; with those of
\* the group, and half of each.
FourSuites ==
  {Group(FALSE, FALSE, <<Bare, Bare>>), Group(FALSE, FALSE, <<Both, Bare>>),
   Group(FALSE, TRUE, <<Bare>>), Group(TRUE, TRUE, <<Half(TRUE), Half(FALSE)>>)}

=============================================================================

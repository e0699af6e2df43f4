------------------------------- MODULE Cmocka -------------------------------
(***************************************************************************)
(* The unit test library: one call of _cmocka_run_group_tests (cmocka.c)   *)
(* with its fixtures, what a test or fixture does to the lists of mocked   *)
(* functions and to the list of allocated blocks, and how it ends.         *)
(*                                                                         *)
(* All is one thread; a body is an arbitrary sequence of calls of the      *)
(* library.  A block that was freed may come back from the next malloc.    *)
(***************************************************************************)
EXTENDS MockStore

CONSTANTS
  Mocked,     \* mocked functions with values to return
  Parameter,  \* parameters of mocked functions
  Name,       \* functions in the order of calls
  Offered,    \* what bodies announce of the former two
  Ordered,    \* what bodies announce of the order
  Suites,     \* groups of tests
  Block,      \* bound: addresses of blocks
  MaxOps      \* bound: calls of the library in all bodies

Key == Mocked \cup Parameter

Item(V) == [value : V, count : Int \ {0}]

ASSUME CmockaAssumption ==
  /\ Mocked \cap Parameter = {}
  /\ Offered \in [Key -> SUBSET Item(SUBSET Value)]
  /\ Ordered \subseteq Item(Name)
  /\ \A s \in Suites :
       /\ s.groupSetup \in BOOLEAN /\ s.groupTeardown \in BOOLEAN
       /\ s.tests \in Seq([setup : BOOLEAN, teardown : BOOLEAN]) /\ s.tests # <<>>
  /\ Block \cap {"head", "null"} = {}
  /\ MaxOps \in Nat

VARIABLES
  suite,
  at,            \* the body that runs or has just ended, or the end
  test,          \* the index of the test it belongs to
  running,       \* global_running_test
  rc,            \* what cmocka_run_one_test_or_fixture gave last
  store,         \* the lists of announced values, parameters and calls
  blocks,        \* global_allocated_blocks
  checkPoint,    \* the node after which blocks are the body's own
  fixturePoint,  \* check_point of the test's state: set by its setup
  skipTest,      \* global_skip_test
  status,        \* of the tests
  total,         \* tests counted by result
  told, seen,    \* history: what the body announced and used
  own,           \* history: blocks the body allocated and did not free
  broken,        \* history: tests that failed, 0 and AfterAll for the group's
                 \* setup and teardown
  fixtureSkips,  \* history: calls of skip in fixtures
  ops

heap == <<blocks, checkPoint, own>>
lists == <<store, told, seen>>
results == <<status, total, skipTest, fixturePoint>>
verdict == <<broken, fixtureSkips>>
vars == <<suite, at, test, running, rc, heap, lists, results, verdict, ops>>

Empty == [queue |-> [k \in Key |-> <<>>], order |-> <<>>]

Bodies == {"group_setup", "setup", "test", "teardown", "group_teardown"}

\* The place of the group's teardown behind the tests.
AfterAll == Len(suite.tests) + 1

Result == {"passed", "failed", "error", "skipped"}

TypeOK ==
  /\ suite \in Suites
  /\ at \in Bodies \cup {"finish", "returned", "exited"}
  /\ test \in 0 .. Len(suite.tests)
  /\ running \in BOOLEAN
  /\ rc \in {-1, 0, 1}
  /\ {store, told} \subseteq [queue : [Key -> Seq(Item(SUBSET Value))],
                              order : Seq(Item(Name))]
  /\ seen \in [queue : [Key -> Seq(SUBSET Value)], order : Seq(Name)]
  /\ blocks \in Seq(Block) /\ IsInjective(blocks)
  /\ {checkPoint, fixturePoint} \subseteq Block \cup {"head", "null"}
  /\ skipTest \in BOOLEAN
  /\ status \in [1 .. Len(suite.tests) -> Result \cup {"not_started"}]
  /\ total \in [Result -> Nat]
  /\ own \subseteq Block
  /\ broken \subseteq 0 .. AfterAll /\ fixtureSkips \in Nat
  /\ ops \in 0 .. MaxOps

-----------------------------------------------------------------------------
\* check_point_allocated_blocks: the last node of the list, or its head.
LastBlock == IF blocks = <<>> THEN "head" ELSE Last(blocks)

\* A check point whose block was freed.
Dangling == checkPoint # "head" /\ checkPoint \notin Range(blocks)

\* Where a node is in the list, whose head is in place 0.
Place(node) ==
  IF node = "head" THEN 0 ELSE CHOOSE i \in DOMAIN blocks : blocks[i] = node

\* Slip: the walk begins behind the first node after the check point.
OwnBlocksButOne == SubSeq(blocks, Place(checkPoint) + 2, Len(blocks))

\* The nodes after the check point.
OwnBlocks == SubSeq(blocks, Place(checkPoint) + 1, Len(blocks))

\* cmocka_run_one_test_or_fixture up to the call of the body.
Begin(body, point) ==
  /\ at' = body
  /\ running' = TRUE
  /\ store' = Empty /\ told' = Empty /\ seen' = Empty
  /\ checkPoint' = point
  /\ own' = {}

\* A test has no check point but its own; its fixtures have one together,
\* which is null for a test without setup.
BeginTest(i) ==
  LET body == IF suite.tests[i].setup THEN "setup" ELSE "test" IN
  /\ test' = i
  /\ Begin(body, LastBlock)
  /\ fixturePoint' = IF suite.tests[i].setup THEN LastBlock ELSE "null"

Init ==
  /\ suite \in Suites
  /\ running = TRUE /\ rc = 0
  /\ at = IF suite.groupSetup THEN "group_setup"
          ELSE IF suite.tests[1].setup THEN "setup" ELSE "test"
  /\ test = IF suite.groupSetup THEN 0 ELSE 1
  /\ store = Empty /\ told = Empty /\ seen = Empty
  /\ blocks = <<>> /\ checkPoint = "head" /\ own = {}
  /\ fixturePoint = IF at = "setup" THEN "head" ELSE "null"
  /\ skipTest = FALSE
  /\ status = [i \in 1 .. Len(suite.tests) |-> "not_started"]
  /\ total = [r \in Result |-> 0]
  /\ broken = {} /\ fixtureSkips = 0 /\ ops = 0

-----------------------------------------------------------------------------
\* Calls of the library by a body.
Call == running /\ ops < MaxOps /\ ops' = ops + 1

\* exit_test while a test runs: the jump back to the runner.
Jump == running' = FALSE /\ rc' = -1

Breaks ==
  broken' = broken \cup {IF at = "group_teardown" THEN AfterAll ELSE test}

Stays == UNCHANGED <<running, rc, verdict>>

\* _will_return and _expect_check.  Item has no count of 0: _will_return does
\* not take it, _expect_check does and serves it as _mock would.
Announce(k, item) ==
  /\ Call /\ Stays
  /\ store' = [store EXCEPT !.queue[k] = Append(@, item)]
  /\ told' = [told EXCEPT !.queue[k] = Append(@, item)]
  /\ UNCHANGED <<suite, at, test, heap, seen, results>>

\* _expect_function_call
AnnounceCall(item) ==
  /\ Call /\ Stays
  /\ store' = [store EXCEPT !.order = Append(@, item)]
  /\ told' = [told EXCEPT !.order = Append(@, item)]
  /\ UNCHANGED <<suite, at, test, heap, seen, results>>

\* get_symbol_value
Take(k) ==
  /\ Call /\ store.queue[k] # <<>>
  /\ store' = [store EXCEPT !.queue[k] = UseAt(@, 1)]
  /\ seen' = [seen EXCEPT !.queue[k] = Append(@, Head(store.queue[k]).value)]
  /\ UNCHANGED <<suite, at, test, heap, told, results>>

\* _mock
Mock(f) == Take(f) /\ Stays

\* _check_expected: a value that is not accepted fails the body.
CheckExpected(p, v) ==
  /\ Take(p)
  /\ IF v \in Head(store.queue[p]).value
     THEN Stays
     ELSE Jump /\ Breaks /\ UNCHANGED fixtureSkips

\* No value for the symbol.
UseNothing(k) ==
  /\ Call /\ store.queue[k] = <<>>
  /\ Jump /\ Breaks
  /\ UNCHANGED <<suite, at, test, heap, lists, results, fixtureSkips>>

\* _function_called
FunctionCalled(f) ==
  LET i == CalledNode(store.order, f) IN
  /\ Call
  /\ IF i = 0
     THEN Jump /\ Breaks /\ UNCHANGED <<store, seen, fixtureSkips>>
     ELSE /\ Stays
          /\ store' = [store EXCEPT !.order = UseAt(@, i)]
          /\ seen' = [seen EXCEPT !.order = Append(@, f)]
  /\ UNCHANGED <<suite, at, test, heap, told, results>>

\* _test_malloc: a new block at the end of the list.
Malloc(b) ==
  /\ Call /\ Stays
  /\ b \notin Range(blocks)
  /\ blocks' = Append(blocks, b)
  /\ own' = own \cup {b}
  /\ UNCHANGED <<suite, at, test, lists, results, checkPoint>>

\* _test_free; a block whose guard is corrupt fails the body.
Free(b) ==
  /\ Call /\ Stays
  /\ \E i \in DOMAIN blocks : blocks[i] = b /\ blocks' = RemoveAt(blocks, i)
  /\ own' = own \ {b}
  /\ UNCHANGED <<suite, at, test, lists, results, checkPoint>>

\* _skip, in a fixture too
Skip ==
  /\ Call /\ Jump
  /\ skipTest' = TRUE
  /\ fixtureSkips' = fixtureSkips + IF at = "test" THEN 0 ELSE 1
  /\ UNCHANGED <<suite, at, test, heap, lists, status, total, fixturePoint, broken>>

\* A failed assertion, mock_assert, fail, or a signal.
Fail ==
  /\ Call /\ Jump /\ Breaks
  /\ UNCHANGED <<suite, at, test, heap, lists, results, fixtureSkips>>

-----------------------------------------------------------------------------
\* The body returns and is checked: blocks, then what is left in the lists.
BlocksChecked == at \in {"test", "teardown", "group_teardown"}

\* The walk from a freed node reads the pattern that free wrote there, and
\* the signal fails the body.
ReturnDangling ==
  /\ running /\ BlocksChecked /\ Dangling
  /\ Jump /\ Breaks
  /\ UNCHANGED <<suite, at, test, heap, lists, results, fixtureSkips, ops>>

\* fail_if_blocks_allocated frees what it finds, up to a block whose guard is
\* corrupt.
ReturnLeaking ==
  /\ running /\ BlocksChecked /\ ~Dangling /\ OwnBlocks # <<>>
  /\ \E n \in 0 .. Len(OwnBlocks) :
       /\ blocks' = SubSeq(blocks, 1, Place(checkPoint))
                      \o SubSeq(OwnBlocks, n + 1, Len(OwnBlocks))
       /\ own' = own \ {OwnBlocks[i] : i \in 1 .. n}
  /\ Jump /\ Breaks
  /\ UNCHANGED <<suite, at, test, lists, results, checkPoint, fixtureSkips, ops>>

\* fail_if_leftover_values
Leftover ==
  \/ \E k \in Key : WithoutAlways(store.queue[k]) # <<>>
  \/ StillDue(store.order) # {}

BlocksClean == BlocksChecked => ~Dangling /\ OwnBlocks = <<>>

ReturnLeftover ==
  /\ running /\ BlocksClean /\ Leftover
  /\ Jump /\ Breaks
  /\ UNCHANGED <<suite, at, test, heap, lists, results, fixtureSkips, ops>>

\* A fixture may return that it failed.
Return ==
  /\ running /\ BlocksClean /\ ~Leftover
  /\ running' = FALSE
  /\ rc' \in IF at = "test" THEN {0} ELSE {0, 1}
  /\ IF rc' = 0 THEN UNCHANGED broken ELSE Breaks
  /\ UNCHANGED <<suite, at, test, heap, lists, results, fixtureSkips, ops>>

Body ==
  \/ \E k \in Key : UseNothing(k) \/ (\E item \in Offered[k] : Announce(k, item))
  \/ \E f \in Mocked : Mock(f)
  \/ \E p \in Parameter, v \in Value : CheckExpected(p, v)
  \/ \E item \in Ordered : AnnounceCall(item)
  \/ \E f \in Name : FunctionCalled(f)
  \/ \E b \in Block : Malloc(b) \/ Free(b)
  \/ Skip \/ Fail
  \/ ReturnDangling \/ ReturnLeaking \/ ReturnLeftover \/ Return

-----------------------------------------------------------------------------
\* The runner, between bodies.
Ended(body) == at = body /\ ~running

\* The group's own check point is the head of the list.
EndTests ==
  /\ IF suite.groupTeardown
     THEN Begin("group_teardown", "head")
     ELSE at' = "finish" /\ UNCHANGED <<running, lists, checkPoint, own>>
  /\ UNCHANGED <<test, fixturePoint>>

\* cmocka_run_one_tests has given the test its result, which is counted.
Count(result) ==
  /\ status' = [status EXCEPT ![test] = result]
  /\ total' = [total EXCEPT ![result] = @ + 1]
  /\ IF test < Len(suite.tests) THEN BeginTest(test + 1) ELSE EndTests

AfterGroupSetup ==
  /\ Ended("group_setup")
  /\ IF rc = 0
     THEN BeginTest(1) /\ UNCHANGED total
     ELSE EndTests /\ total' = [total EXCEPT !["error"] = @ + 1]
  /\ UNCHANGED <<suite, rc, blocks, status, skipTest, verdict, ops>>

AfterSetup ==
  /\ Ended("setup")
  /\ IF rc = 0
     THEN Begin("test", LastBlock) /\ UNCHANGED <<test, status, total, fixturePoint>>
     ELSE Count("error")
  /\ UNCHANGED <<suite, rc, blocks, skipTest, verdict, ops>>

\* Slip: a teardown always takes a check point of its own.
TeardownOwnPoint(result) ==
  /\ Begin("teardown", LastBlock)
  /\ status' = [status EXCEPT ![test] = result]
  /\ UNCHANGED <<test, total, fixturePoint>>

\* A test with a teardown has its result before, and is counted after it.
\* Without a check point of a setup the teardown takes a new one.
Teardown(result) ==
  /\ Begin("teardown", IF fixturePoint = "null" THEN LastBlock ELSE fixturePoint)
  /\ status' = [status EXCEPT ![test] = result]
  /\ UNCHANGED <<test, total, fixturePoint>>

\* Slip: the next test is to be skipped as well.
AfterTestSkipped ==
  LET result == IF rc = 0 THEN "passed" ELSE IF skipTest THEN "skipped" ELSE "failed" IN
  /\ Ended("test")
  /\ IF suite.tests[test].teardown THEN Teardown(result) ELSE Count(result)
  /\ UNCHANGED <<suite, rc, blocks, skipTest, verdict, ops>>

\* global_skip_test is reset only where a failed test finds it set.
AfterTest ==
  LET result == IF rc = 0 THEN "passed" ELSE IF skipTest THEN "skipped" ELSE "failed" IN
  /\ Ended("test")
  /\ skipTest' = IF rc = 0 THEN skipTest ELSE FALSE
  /\ IF suite.tests[test].teardown THEN Teardown(result) ELSE Count(result)
  /\ UNCHANGED <<suite, rc, blocks, verdict, ops>>

AfterTeardown ==
  /\ Ended("teardown")
  /\ Count(IF rc = 0 THEN status[test] ELSE "error")
  /\ UNCHANGED <<suite, rc, blocks, skipTest, verdict, ops>>

AfterGroupTeardown ==
  /\ Ended("group_teardown")
  /\ at' = "finish"
  /\ UNCHANGED <<suite, test, running, rc, heap, lists, results, verdict, ops>>

\* fail_if_blocks_allocated: no test runs, so exit_test ends the program.
Finish ==
  /\ at = "finish"
  /\ at' = IF blocks = <<>> THEN "returned" ELSE "exited"
  /\ UNCHANGED <<suite, test, running, rc, heap, lists, results, verdict, ops>>

Runner ==
  \/ AfterGroupSetup \/ AfterSetup \/ AfterTest \/ AfterTeardown
  \/ AfterGroupTeardown \/ Finish

Next == Body \/ Runner

Spec == Init /\ [][Next]_vars

\* What _cmocka_run_group_tests returns.
ReturnValue == total["failed"] + total["error"]

-----------------------------------------------------------------------------
\* A mocked function returns, and a parameter is checked against, what was
\* announced of it, in the order and as often as announced, and functions are
\* called in the order announced, however announcements and uses are mixed
\* (get_symbol_value, cmocka.c:709; _function_called, cmocka.c:911).
ServedInOrder ==
  /\ \A k \in Key : Serves(told.queue[k], seen.queue[k])
  /\ ServesOrder(told.order, seen.order)

\* A body passes only if all that it announced and that has to be used was
\* used as announced, and no call of another order got through
\* (fail_if_leftover_values, cmocka.c:2633).
PassedMeansKept ==
  at \in Bodies /\ ~running /\ rc = 0 =>
    /\ \A k \in Key : Kept(told.queue[k], seen.queue[k])
    /\ KeptOrder(told.order, seen.order)

\* A body is failed for its mocks only if it has used them otherwise than
\* announced: a value or a call is refused only where the announcements allow
\* none, also behind calls that may come at any time (cmocka.c:939), and a
\* body that returns has left something unused.  The exception is what was
\* announced behind a value that is returned without end, which fails the body
\* although it need not be used: only the first node of a queue is removed
\* (cmocka.c:796).
RefusedForCause ==
  running =>
    /\ \A k \in Key : store.queue[k] = <<>> =>
         \A i \in DOMAIN told.queue[k] :
           ~Serves(told.queue[k], Append(seen.queue[k], told.queue[k][i].value))
    /\ \A f \in Name : CalledNode(store.order, f) = 0 =>
         ~ServesOrder(told.order, Append(seen.order, f))
    /\ Leftover =>
         \/ ~KeptOrder(told.order, seen.order)
         \/ \E k \in Key : \/ ~Kept(told.queue[k], seen.queue[k])
                           \/ OutOfReach(told.queue[k])

\* A test that passes has freed its blocks, whatever earlier tests and
\* fixtures left in the list: unless it freed the very block that is its
\* check point and has got it anew, which hides what it allocated in between
\* (cmocka.c:1961).
LeaksFound ==
  Ended("test") /\ rc = 0 => own = {} \/ checkPoint \in own

\* The program is ended by exit(-1) in place of the number of failures only
\* if the group's teardown broke off or, in a group without one, a test did not
\* pass, a setup had no teardown, or the group has a setup.
ExitMeansUnclean ==
  at = "exited" =>
    IF suite.groupTeardown THEN rc = -1
    ELSE \/ suite.groupSetup
         \/ \E i \in DOMAIN suite.tests :
              status[i] # "passed" \/ (suite.tests[i].setup /\ ~suite.tests[i].teardown)

\* Every test that failed in a body of its own, and the group's setup, is in
\* the value returned, which main returns to the shell (unit_test.c:169), with
\* two exceptions.  A fixture that calls skip makes one later failed test count
\* as skipped, for global_skip_test is only reset by a test (cmocka.c:2731).
\* And a group's teardown that fails is printed and never counted
\* (cmocka.c:2892): a group in which nothing else failed returns 0.
FailuresCounted ==
  at = "returned" => ReturnValue + fixtureSkips >= Cardinality(broken \ {AfterAll})

=============================================================================

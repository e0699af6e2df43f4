----------------------------- MODULE MockStore -----------------------------
(***************************************************************************)
(* The lists in which cmocka keeps what a test announces of its mocked     *)
(* functions: values to return and parameters to check, in a queue per     *)
(* symbol, and the order of calls.  A node has a refcount: how many times  *)
(* it may be used, or one of two negative marks.                           *)
(***************************************************************************)
EXTENDS Integers, Sequences, FiniteSets, SequencesExt

CONSTANT Value  \* the integers that mocked functions pass and return

ALWAYS == -1    \* WILL_RETURN_ALWAYS: at least once
ONCE == -2      \* WILL_RETURN_ONCE: any number of times, none included

\* What a check accepts: _expect_value, _expect_in_range and their kin.  A
\* string or an area of memory is a value.
EqualTo(v) == {v}
NotEqualTo(v) == Value \ {v}
InSet(S) == S
NotInSet(S) == Value \ S
InRange(min, max) == {v \in Value : min <= v /\ v <= max}
NotInRange(min, max) == Value \ InRange(min, max)
Anything == Value

-----------------------------------------------------------------------------
\* Slip: a value is served one time too many.
UseAtOffByOne(list, i) ==
  LET n == list[i].count IN
  IF n = 0 THEN RemoveAt(list, i)
  ELSE IF n > ONCE THEN [list EXCEPT ![i].count = n - 1] ELSE list

\* The refcount of a node that is used: it goes with the last use, and a node
\* that is used always is marked as used.
UseAt(list, i) ==
  LET n == list[i].count IN
  IF n = 1 THEN RemoveAt(list, i)
  ELSE IF n > ONCE THEN [list EXCEPT ![i].count = n - 1] ELSE list

\* remove_always_return_values: of every queue the first node, if it was used
\* or need not be.
WithoutAlways(queue) ==
  IF queue # <<>> /\ Head(queue).count < -1 THEN Tail(queue) ELSE queue

\* remove_always_return_values_from_list: the nodes it leaves in the order,
\* wherever they are.
StillDue(order) == {i \in DOMAIN order : order[i].count >= -1}

\* Slip: the walk does not stop at a call that is still to come.
CalledNodeAnywhere(order, f) ==
  IF \E i \in DOMAIN order : order[i].value = f
  THEN CHOOSE i \in DOMAIN order : order[i].value = f
  ELSE 0

\* Slip: the walk does not pass over nodes that are marked.
CalledNodeFirst(order, f) ==
  IF order # <<>> /\ Head(order).value = f THEN 1 ELSE 0

\* _function_called: the node that allows a call of f, or 0.  The walk passes
\* over nodes that are marked, and stops at f or at a call that is due.  With
\* one marked node only it reads through a null pointer, which fails the test
\* just as well.
CalledNode(order, f) ==
  LET allows(i) ==
        /\ order[i].value = f
        /\ \A j \in 1 .. i - 1 : order[j].count < -1 /\ order[j].value # f
  IN IF \E i \in DOMAIN order : allows(i)
     THEN CHOOSE i \in DOMAIN order : allows(i)
     ELSE 0

-----------------------------------------------------------------------------
\* What the lists are meant to do, in terms of what a test has announced and
\* of the uses that followed: f[n] is the announced node that serves use n.

Servings(list, uses) ==
  {f \in [DOMAIN uses -> DOMAIN list] :
     \A n \in DOMAIN uses : list[f[n]].value = uses[n]}

\* How often f uses node i before its n-th use.
UsedBefore(f, n, i) == Cardinality({m \in 1 .. n - 1 : f[m] = i})

UsedUp(f, n, list, i) ==
  list[i].count > 0 /\ UsedBefore(f, n, i) = list[i].count

\* A queue: the first node that the uses before have not used up.
InTurn(f, queue) ==
  \A n \in DOMAIN f :
    /\ ~UsedUp(f, n, queue, f[n])
    /\ \A i \in 1 .. f[n] - 1 : UsedUp(f, n, queue, i)

\* The order of calls: what is announced a number of times is called as often
\* before anything behind it is called, what is announced always at least
\* once, and what may be called at any time is not passed over.
InOrder(f, order) ==
  \A n \in DOMAIN f :
    /\ ~UsedUp(f, n, order, f[n])
    /\ \A i \in 1 .. f[n] - 1 :
         \/ UsedUp(f, n, order, i)
         \/ /\ order[i].count < 0 /\ order[i].value # order[f[n]].value
            /\ order[i].count = ALWAYS => UsedBefore(f, n, i) > 0

\* Everything that has to be used is used.
AllUsed(f, list) ==
  \A i \in DOMAIN list :
    \/ UsedUp(f, Len(f) + 1, list, i)
    \/ list[i].count = ALWAYS /\ UsedBefore(f, Len(f) + 1, i) > 0
    \/ list[i].count < ALWAYS

Serves(queue, uses) == \E f \in Servings(queue, uses) : InTurn(f, queue)

ServesOrder(order, calls) == \E f \in Servings(order, calls) : InOrder(f, order)

Kept(queue, uses) ==
  \E f \in Servings(queue, uses) : InTurn(f, queue) /\ AllUsed(f, queue)

\* Something was announced behind a value that is returned without end.
OutOfReach(queue) ==
  \E i \in DOMAIN queue : queue[i].count < 0 /\ i < Len(queue)

KeptOrder(order, calls) ==
  \E f \in Servings(order, calls) : InOrder(f, order) /\ AllUsed(f, order)

=============================================================================

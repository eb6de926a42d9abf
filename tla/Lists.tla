------------------------------- MODULE Lists --------------------------------
(***************************************************************************)
(* The operations on sequences that the models share, under the names they *)
(* have in SequencesExt.  That module also brings bags, and the theorems   *)
(* about them, into every proof obligation of the modules that extend it,  *)
(* which then take more than twice the time to check.                      *)
(***************************************************************************)
EXTENDS Integers, Sequences, FiniteSetsExt

\* A set in all its orders, in some order, and in the order of Before.
SetToSeqs(S) == Injection(1..Cardinality(S), S)
SetToSeq(S) == CHOOSE s \in [1..Cardinality(S) -> S] : IsInjective(s)
SetToSortSeq(S, Before(_, _)) == CHOOSE s \in SetToSeqs(S) : \A i, j \in DOMAIN s : i < j => Before(s[i], s[j])

\* The sequences of ss, one after the other.
FlattenSeq(ss) ==
    LET joined[n \in 0..Len(ss)] == IF n = 0 THEN <<>> ELSE joined[n - 1] \o ss[n]
    IN  joined[Len(ss)]

\* op applied from the first element to the last.
FoldLeft(op(_, _), base, s) ==
    LET folded[n \in 0..Len(s)] == IF n = 0 THEN base ELSE op(folded[n - 1], s[n])
    IN  folded[Len(s)]

\* The first place where Test holds, or 0.
SelectInSeq(s, Test(_)) ==
    LET places == {i \in DOMAIN s : Test(s[i])}
    IN  IF places = {} THEN 0 ELSE Min(places)

\* How often each element occurs.
ToBag(s) == [x \in Range(s) |-> Cardinality({i \in DOMAIN s : s[i] = x})]

IsPrefix(s, t) == Len(s) <= Len(t) /\ s = SubSeq(t, 1, Len(s))
IsSuffix(s, t) == Len(s) <= Len(t) /\ s = SubSeq(t, Len(t) - Len(s) + 1, Len(t))
=============================================================================

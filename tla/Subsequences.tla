---------------------------- MODULE Subsequences ----------------------------
(***************************************************************************)
(* What std::list::remove_if, std::deque::erase and the like leave of a    *)
(* list: SelectSeq by the positions that stay, in a form that a proof can  *)
(* expand (SelectSeq is recursive).                                        *)
(***************************************************************************)
EXTENDS Naturals, FiniteSets

\* The k-th smallest member of I, a finite set of numbers.
Nth(I, k) == CHOOSE i \in I : Cardinality({j \in I : j < i}) = k - 1

\* The elements of s at the positions I, in their order.
SubSeqAt(s, I) == [k \in 1 .. Cardinality(I) |-> s[Nth(I, k)]]

=============================================================================

----------------------------- MODULE MCFsStore -----------------------------
(* FsStore over two paths, two threads and four contents, of which one     *)
(* holds conflict markers.                                                 *)
EXTENDS FsStore, TLC

CONSTANTS p1, p2, t1, t2, l1, l2, l3, a, b, c, x

OnePath == {p1}
TwoPaths == {p1, p2}
TwoThreads == {t1, t2}
TwoLocks == {l1, l2}
ThreeLocks == {l1, l2, l3}
FourContents == {a, b, c, x}
Marked == {x}

\* Texts that differ merge with conflicts, and a proposal of a with too many.
MergeTexts(base, proposed, current) == IF proposed = a THEN None ELSE x

Request(op, p) ==
    [op |-> op, path |-> p, ifMatch |-> None, ifNone |-> FALSE, base |-> a, body |-> b]

OneSeed == {c}

\* Conditional and unconditional requests for one path, a write to another.
Mixed ==
    {Request(op, p1) : op \in Handlers \ {"put"}}
    \cup {[Request("put", p1) EXCEPT !.ifMatch = c],
          [Request("put", p1) EXCEPT !.ifNone = TRUE],
          [Request("delete", p1) EXCEPT !.ifMatch = b],
          [Request("reconcile", p1) EXCEPT !.body = x],
          [Request("reconcile", p1) EXCEPT !.base = b, !.body = a],
          [Request("put", p2) EXCEPT !.ifMatch = Star]}

\* Requests for one path that wait for each other, and one for another path.
Contended ==
    {[Request("put", p1) EXCEPT !.ifMatch = c], Request("reconcile", p1),
     Request("delete", p2), Request("head", p1)}

StoreSymmetry == Permutations(TwoThreads) \cup Permutations(ThreeLocks)
=============================================================================

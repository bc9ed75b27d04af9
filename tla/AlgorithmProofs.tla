--------------------------- MODULE AlgorithmProofs ---------------------------
(***************************************************************************)
(* Proofs about the algorithms, for every input: how much of a body the    *)
(* Worker reads, when a database is ready, the room a download may take,   *)
(* what a reference leads to, how an image is fitted, which archives are   *)
(* bundles, and what is read of a serial line.  The run of MCHost checks   *)
(* the same statements on small inputs.                                    *)
(*                                                                         *)
(* An algorithm goes over its input step by step.  What holds of every     *)
(* step is shown of the set of the steps it holds of: it has the first     *)
(* one, and with each the next (Upward), because a least step it had not   *)
(* would follow one it has.  That a recursive function is defined at all   *)
(* is Unfolding: what its step makes of its values is again a value.       *)
(***************************************************************************)
EXTENDS Integers, Sequences, FiniteSets, SequenceTheorems, FiniteSetTheorems,
        WellFoundedInduction, TLAPS
CONSTANT MaxBundleSize

Budget == INSTANCE LibraryBudget
Checks == INSTANCE WorkerChecks
Docs == INSTANCE Resources
Bundle == INSTANCE SyncBundle
Wire == INSTANCE SerialWire

-----------------------------------------------------------------------------
(* Induction and recursion.                                                 *)

\* A set of numbers with a member has a least one.
LEMMA LeastNumber ==
  ASSUME NEW S, S \subseteq Nat, S # {}
  PROVE  \E n \in S : \A m \in S : n <= m
<1>1. PICK n \in S : \A m \in S : ~ (<<m, n>> \in OpToRel(<, Nat))
  BY WFMin, NatLessThanWellFounded, Zenon
<1>2. \A m \in S : n <= m
  <2> SUFFICES ASSUME NEW m \in S PROVE n <= m OBVIOUS
  <2>1. m \in Nat /\ n \in Nat OBVIOUS
  <2>2. ~(m < n) BY <1>1, <2>1, Zenon DEF OpToRel
  <2> QED BY <2>1, <2>2
<1> QED BY <1>2

\* Induction in the form of sets: what holds of the first number, and of each
\* that follows one of which it holds, holds of all.
LEMMA Upward ==
  ASSUME NEW a \in Nat, NEW b \in Nat, NEW S,
         a \in S, \A k \in a + 1 .. b : k - 1 \in S => k \in S
  PROVE  \A k \in a .. b : k \in S
<1> DEFINE Missing == {k \in a .. b : k \notin S}
<1>1. Missing \subseteq Nat OBVIOUS
<1>2. Missing = {}
  <2> SUFFICES ASSUME Missing # {} PROVE FALSE OBVIOUS
  <2> HIDE DEF Missing
  <2>1. PICK k \in Missing : \A m \in Missing : k <= m BY <1>1, LeastNumber
  <2>2. k \in a .. b /\ k \notin S BY DEF Missing
  <2>3. k \in a + 1 .. b /\ k - 1 \in a .. b BY <2>2
  <2>4. k - 1 \notin Missing BY <2>1, <2>3
  <2>5. k - 1 \in S BY <2>3, <2>4 DEF Missing
  <2> QED BY <2>2, <2>3, <2>5
<1> QED BY <1>2

\* Recursion: a step that is a function has a function that takes it again and
\* again, as far as wanted.
Unfolds(f, S, base, last, step) ==
  /\ f \in [0 .. last -> S]
  /\ f[0] = base /\ \A n \in 1 .. last : f[n] = step[n][f[n - 1]]

LEMMA Unfolding ==
  ASSUME NEW S, NEW base, NEW last, NEW step,
         base \in S, last \in Nat, step \in [1 .. last -> [S -> S]]
  PROVE  \E f : Unfolds(f, S, base, last, step)
<1> DEFINE Upto(k) == \E g \in [0 .. k -> S] :
                        /\ g[0] = base
                        /\ \A n \in 1 .. k : g[n] = step[n][g[n - 1]]
           Reached == {k \in 0 .. last : Upto(k)}
<1>1. Upto(0)
  <2> DEFINE g == [n \in 0 .. 0 |-> base]
  <2>1. g \in [0 .. 0 -> S] /\ g[0] = base OBVIOUS
  <2>2. \A n \in 1 .. 0 : FALSE OBVIOUS
  <2> HIDE DEF g
  <2> QED BY <2>1, <2>2
<1>2. ASSUME NEW k \in 1 .. last, Upto(k - 1) PROVE Upto(k)
  <2>1. PICK g \in [0 .. k - 1 -> S] : /\ g[0] = base
                                       /\ \A n \in 1 .. k - 1 : g[n] = step[n][g[n - 1]]
    BY <1>2
  <2> DEFINE h == [n \in 0 .. k |-> IF n < k THEN g[n] ELSE step[k][g[k - 1]]]
  <2>2. g[k - 1] \in S BY <2>1
  <2>3. step[k][g[k - 1]] \in S
    <3>1. step[k] \in [S -> S] OBVIOUS
    <3> QED BY <2>2, <3>1
  <2>4. h \in [0 .. k -> S] BY <2>1, <2>3
  <2>5. h[0] = base BY <2>1
  <2>6. ASSUME NEW n \in 1 .. k PROVE h[n] = step[n][h[n - 1]]
    <3>1. CASE n < k
      <4>1. n \in 1 .. k - 1 /\ h[n] = g[n] /\ h[n - 1] = g[n - 1] BY <3>1
      <4> QED BY <2>1, <4>1
    <3>2. CASE n = k
      <4>1. h[n] = step[k][g[k - 1]] /\ h[n - 1] = g[k - 1] BY <3>2
      <4> QED BY <3>2, <4>1
    <3> QED BY <3>1, <3>2
  <2> HIDE DEF h
  <2> QED BY <2>4, <2>5, <2>6
<1> HIDE DEF Upto
<1>3. \A k \in 0 .. last : k \in Reached
  <2>1. 0 \in Reached BY <1>1
  <2>2. \A k \in 0 + 1 .. last : k - 1 \in Reached => k \in Reached BY <1>2
  <2> HIDE DEF Reached
  <2> QED BY <2>1, <2>2, Upward
<1>4. Upto(last) BY <1>3
<1> QED BY <1>4 DEF Upto, Unfolds

-----------------------------------------------------------------------------
(* Sums of sequences of numbers.                                           *)

\* What Total adds up, number by number.
SumsOf(sums, sizes) ==
  sums = [n \in 0 .. Len(sizes) |-> IF n = 0 THEN 0 ELSE sums[n - 1] + sizes[n]]

\* Total is the last of them.
LEMMA TotalOfSums ==
  ASSUME NEW sizes
  PROVE  Budget!Total(sizes) = (CHOOSE sums : SumsOf(sums, sizes))[Len(sizes)]
BY DEF Budget!Total, SumsOf

\* There are such sums of every sequence of numbers: of the first numbers,
\* and with them of one more.
LEMMA SumsExist ==
  ASSUME NEW sizes \in Seq(Nat)
  PROVE  \E sums \in [0 .. Len(sizes) -> Nat] : SumsOf(sums, sizes)
<1> DEFINE Up(k) == \E g \in [0 .. k -> Nat] :
                      /\ g[0] = 0
                      /\ \A n \in 1 .. k : g[n] = g[n - 1] + sizes[n]
           Summed == {k \in 0 .. Len(sizes) : Up(k)}
<1>1. Up(0)
  <2> DEFINE g == [n \in 0 .. 0 |-> 0]
  <2>1. g \in [0 .. 0 -> Nat] /\ g[0] = 0 OBVIOUS
  <2>2. \A n \in 1 .. 0 : FALSE OBVIOUS
  <2> HIDE DEF g
  <2> QED BY <2>1, <2>2
<1>2. ASSUME NEW k \in 1 .. Len(sizes), Up(k - 1) PROVE Up(k)
  <2>1. PICK g \in [0 .. k - 1 -> Nat] : /\ g[0] = 0
                                         /\ \A n \in 1 .. k - 1 : g[n] = g[n - 1] + sizes[n]
    BY <1>2
  <2> DEFINE h == [n \in 0 .. k |-> IF n < k THEN g[n] ELSE g[k - 1] + sizes[k]]
  <2>2. sizes[k] \in Nat /\ g[k - 1] \in Nat BY <2>1
  <2>3. h \in [0 .. k -> Nat] BY <2>1, <2>2
  <2>4. h[0] = 0 BY <2>1
  <2>5. ASSUME NEW n \in 1 .. k PROVE h[n] = h[n - 1] + sizes[n]
    <3>1. CASE n < k
      <4>1. n \in 1 .. k - 1 /\ h[n] = g[n] /\ h[n - 1] = g[n - 1] BY <3>1
      <4> QED BY <2>1, <4>1
    <3>2. CASE n = k
      <4>1. h[n] = g[k - 1] + sizes[k] /\ h[n - 1] = g[k - 1] BY <3>2
      <4> QED BY <3>2, <4>1
    <3> QED BY <3>1, <3>2
  <2> HIDE DEF h
  <2> QED BY <2>3, <2>4, <2>5
<1>3. Len(sizes) \in Nat OBVIOUS
<1> HIDE DEF Up
<1>4. \A k \in 0 .. Len(sizes) : k \in Summed
  <2>1. 0 \in Summed BY <1>1, <1>3
  <2>2. \A k \in 0 + 1 .. Len(sizes) : k - 1 \in Summed => k \in Summed BY <1>2, <1>3
  <2> HIDE DEF Summed
  <2> QED BY <1>3, <2>1, <2>2, Upward
<1>5. Up(Len(sizes)) BY <1>3, <1>4
<1>6. PICK g \in [0 .. Len(sizes) -> Nat] :
        /\ g[0] = 0
        /\ \A n \in 1 .. Len(sizes) : g[n] = g[n - 1] + sizes[n]
  BY <1>5 DEF Up
<1>7. \A n \in 0 .. Len(sizes) : g[n] = IF n = 0 THEN 0 ELSE g[n - 1] + sizes[n]
  BY <1>3, <1>6
<1>8. g = [n \in 0 .. Len(sizes) |-> IF n = 0 THEN 0 ELSE g[n - 1] + sizes[n]] BY <1>7
<1> QED BY <1>8 DEF SumsOf

\* Sums of a sequence and of the beginning of another are the same where the
\* numbers are.
LEMMA SumsAgree ==
  ASSUME NEW sizes \in Seq(Nat), NEW sums \in [0 .. Len(sizes) -> Nat], SumsOf(sums, sizes),
         NEW n \in 0 .. Len(sizes), NEW part, SumsOf(part, SubSeq(sizes, 1, n))
  PROVE  part[n] = sums[n]
<1> DEFINE front == SubSeq(sizes, 1, n)
           Same == {k \in 0 .. n : part[k] = sums[k]}
<1>1. n \in Nat /\ Len(front) = n /\ \A k \in 1 .. n : front[k] = sizes[k] OBVIOUS
<1>2. \A k \in 0 .. n : part[k] = IF k = 0 THEN 0 ELSE part[k - 1] + sizes[k]
  <2> HIDE DEF front
  <2>1. part = [k \in 0 .. n |-> IF k = 0 THEN 0 ELSE part[k - 1] + front[k]]
    BY <1>1 DEF SumsOf, front
  <2>2. \A k \in 0 .. n : part[k] = IF k = 0 THEN 0 ELSE part[k - 1] + front[k]
    BY <2>1, Zenon
  <2> QED BY <1>1, <2>2
<1>3. \A k \in 0 .. n : sums[k] = IF k = 0 THEN 0 ELSE sums[k - 1] + sizes[k]
  <2>1. sums = [k \in 0 .. Len(sizes) |-> IF k = 0 THEN 0 ELSE sums[k - 1] + sizes[k]]
    BY DEF SumsOf
  <2>2. \A k \in 0 .. Len(sizes) : sums[k] = IF k = 0 THEN 0 ELSE sums[k - 1] + sizes[k]
    BY <2>1, Zenon
  <2> QED BY <2>2
<1>4. 0 \in Same BY <1>1, <1>2, <1>3
<1>5. \A k \in 0 + 1 .. n : k - 1 \in Same => k \in Same BY <1>1, <1>2, <1>3
<1>6. \A k \in 0 .. n : k \in Same
  <2> HIDE DEF Same
  <2> QED BY <1>1, <1>4, <1>5, Upward
<1> QED BY <1>1, <1>6

\* What the sums of the first numbers have in common.
LEMMA Sums ==
  ASSUME NEW sizes \in Seq(Nat)
  PROVE  /\ Budget!SumTo(sizes, 0) = 0
         /\ Budget!SumTo(sizes, Len(sizes)) = Budget!Total(sizes)
         /\ \A n \in 0 .. Len(sizes) : Budget!SumTo(sizes, n) \in Nat
         /\ \A n \in 1 .. Len(sizes) :
              Budget!SumTo(sizes, n) = Budget!SumTo(sizes, n - 1) + sizes[n]
         /\ \A m, n \in 0 .. Len(sizes) :
              m <= n => Budget!SumTo(sizes, m) <= Budget!SumTo(sizes, n)
<1>1. PICK sums \in [0 .. Len(sizes) -> Nat] : SumsOf(sums, sizes) BY SumsExist
<1>2. ASSUME NEW n \in 0 .. Len(sizes) PROVE Budget!SumTo(sizes, n) = sums[n]
  <2> DEFINE front == SubSeq(sizes, 1, n)
             part == CHOOSE part : SumsOf(part, front)
  <2>1. front \in Seq(Nat) /\ Len(front) = n OBVIOUS
  <2>2. \E s : SumsOf(s, front) BY <2>1, SumsExist
  <2>3. SumsOf(part, front) BY <2>2
  <2>4. Budget!Total(front) = part[n] BY <2>1, TotalOfSums
  <2>5. part[n] = sums[n] BY <1>1, <2>3, SumsAgree
  <2> QED BY <2>4, <2>5 DEF Budget!SumTo
<1>3. Len(sizes) \in Nat OBVIOUS
<1>4. \A k \in 0 .. Len(sizes) : sums[k] = IF k = 0 THEN 0 ELSE sums[k - 1] + sizes[k]
  <2>1. sums = [k \in 0 .. Len(sizes) |-> IF k = 0 THEN 0 ELSE sums[k - 1] + sizes[k]]
    BY <1>1 DEF SumsOf
  <2> QED BY <2>1, Zenon
<1>5. SubSeq(sizes, 1, Len(sizes)) = sizes OBVIOUS
<1>6. Budget!SumTo(sizes, Len(sizes)) = Budget!Total(sizes) BY <1>5 DEF Budget!SumTo
<1>7. ASSUME NEW m \in 0 .. Len(sizes), NEW n \in 0 .. Len(sizes), m <= n
      PROVE  sums[m] <= sums[n]
  <2> DEFINE Above == {k \in m .. Len(sizes) : sums[m] <= sums[k]}
  <2>1. m \in Above BY <1>3
  <2>2. \A k \in m + 1 .. Len(sizes) : k - 1 \in Above => k \in Above
    <3> SUFFICES ASSUME NEW k \in m + 1 .. Len(sizes), k - 1 \in Above PROVE k \in Above OBVIOUS
    <3>1. k \in 1 .. Len(sizes) /\ k - 1 \in 0 .. Len(sizes) /\ k # 0 BY <1>3
    <3>2. sums[k] = sums[k - 1] + sizes[k] BY <1>4, <3>1
    <3>3. sizes[k] \in Nat BY <3>1
    <3>4. sums[m] \in Nat /\ sums[k - 1] \in Nat BY <3>1, Zenon
    <3>5. sums[m] <= sums[k - 1] OBVIOUS
    <3>6. k \in m .. Len(sizes) BY <1>3
    <3> QED BY <3>2, <3>3, <3>4, <3>5, <3>6
  <2>3. \A k \in m .. Len(sizes) : k \in Above
    <3>1. m \in Nat BY <1>3
    <3> HIDE DEF Above
    <3> QED BY <3>1, <1>3, <2>1, <2>2, Upward
  <2>4. n \in m .. Len(sizes) BY <1>7
  <2> QED BY <2>3, <2>4
<1>8. \A n \in 1 .. Len(sizes) :
        n \in 0 .. Len(sizes) /\ n - 1 \in 0 .. Len(sizes) /\ sums[n] = sums[n - 1] + sizes[n]
  BY <1>3, <1>4
<1>9. sums[0] = 0 /\ 0 \in 0 .. Len(sizes) BY <1>3, <1>4
<1> QED BY <1>2, <1>6, <1>7, <1>8, <1>9

-----------------------------------------------------------------------------
(* The room a download may take (LibraryBudget).                           *)

\* The pieces that were written are as many as the bound admits.
LEMMA StreamedIsRight ==
  ASSUME NEW answer, answer.pieces \in Seq(Nat), Budget!Bound(answer) \in Nat
  PROVE  /\ Budget!Streamed(answer) \in 0 .. Len(answer.pieces)
         /\ Budget!SumTo(answer.pieces, Budget!Streamed(answer)) <= Budget!Bound(answer)
<1> DEFINE Fits(n) == Budget!SumTo(answer.pieces, n) <= Budget!Bound(answer)
           Fitting == {n \in 0 .. Len(answer.pieces) : Fits(n)}
           Last(n) == Fits(n) /\ (n = Len(answer.pieces)
                                    \/ Budget!SumTo(answer.pieces, n + 1) > Budget!Bound(answer))
<1>1. Len(answer.pieces) \in Nat OBVIOUS
<1>2. \A n \in 0 .. Len(answer.pieces) : Budget!SumTo(answer.pieces, n) \in Nat BY Sums
<1>3. \E n \in 0 .. Len(answer.pieces) : Last(n)
  <2> SUFFICES ASSUME \A n \in 0 .. Len(answer.pieces) : ~ Last(n) PROVE FALSE OBVIOUS
  <2>1. 0 \in Fitting BY <1>1, Sums
  <2>2. \A n \in 0 + 1 .. Len(answer.pieces) : n - 1 \in Fitting => n \in Fitting
    <3> SUFFICES ASSUME NEW n \in 1 .. Len(answer.pieces), n - 1 \in Fitting PROVE n \in Fitting
      OBVIOUS
    <3>1. n - 1 \in 0 .. Len(answer.pieces) /\ n \in 0 .. Len(answer.pieces)
          /\ n - 1 # Len(answer.pieces) /\ n - 1 + 1 = n BY <1>1
    <3>2. ~ (Budget!SumTo(answer.pieces, n) > Budget!Bound(answer)) BY <3>1
    <3>3. Budget!SumTo(answer.pieces, n) \in Nat BY <1>2, <3>1
    <3> QED BY <3>1, <3>2, <3>3
  <2>3. \A n \in 0 .. Len(answer.pieces) : n \in Fitting
    <3> HIDE DEF Fitting
    <3> QED BY <1>1, <2>1, <2>2, Upward
  <2>4. Len(answer.pieces) \in 0 .. Len(answer.pieces) BY <1>1
  <2> QED BY <2>3, <2>4
<1>4. Budget!Streamed(answer) = CHOOSE n \in 0 .. Len(answer.pieces) : Last(n)
  BY DEF Budget!Streamed
<1> HIDE DEF Last
<1>5. Budget!Streamed(answer) \in 0 .. Len(answer.pieces) /\ Last(Budget!Streamed(answer))
  BY <1>3, <1>4
<1> QED BY <1>5 DEF Last

\* What an extraction stores is within its limit; it is whole only if the
\* archive is; and it lacks room only for contents that exceed the limit.
LEMMA ExtractIsRight ==
  ASSUME NEW contents \in Seq(Nat), NEW archive \in Nat, NEW limit \in Nat
  PROVE  LET end == Budget!Extract(contents, archive, limit)
         IN  /\ end.peak \in Nat /\ end.peak <= limit
             /\ end.outcome = "updated" =>
                  Len(contents) + Budget!Total(contents) <= archive
             /\ end.outcome = "insufficient" => Budget!Total(contents) > limit
<1> DEFINE Admitted(n) == Budget!SumTo(contents, n) <= limit
           Whole(n) == n + Budget!SumTo(contents, n) <= archive
           failing == {n \in DOMAIN contents : ~Admitted(n) \/ ~Whole(n)}
           first == CHOOSE n \in failing : \A m \in failing : n <= m
           before == Budget!SumTo(contents, first - 1)
           rest == archive - first - before
           part == IF rest > 0 THEN Budget!Smaller(contents[first], rest) ELSE 0
           end == Budget!Extract(contents, archive, limit)
<1>1. Len(contents) \in Nat /\ DOMAIN contents = 1 .. Len(contents) OBVIOUS
<1>2. end = IF failing = {} THEN Budget!Attempt("updated", Budget!Total(contents))
            ELSE IF ~Admitted(first) THEN Budget!Attempt("insufficient", before)
            ELSE Budget!Attempt("invalid", before + part)
  BY DEF Budget!Extract
<1>3. \A n \in 0 .. Len(contents) : Budget!SumTo(contents, n) \in Nat BY Sums
<1>4. Len(contents) \in 0 .. Len(contents)
      /\ Budget!Total(contents) = Budget!SumTo(contents, Len(contents)) BY <1>1, Sums
<1>5. CASE failing = {}
  <2>1. end.outcome = "updated" /\ end.peak = Budget!Total(contents)
    BY <1>2, <1>5 DEF Budget!Attempt
  <2>2. Budget!Total(contents) <= limit /\ Len(contents) + Budget!Total(contents) <= archive
    <3>1. CASE Len(contents) = 0
      <4>1. Budget!SumTo(contents, 0) = 0 BY Sums
      <4>2. Budget!Total(contents) = 0 BY <1>4, <3>1, <4>1
      <4> QED BY <3>1, <4>2
    <3>2. CASE Len(contents) > 0
      <4>1. Len(contents) \in DOMAIN contents /\ Len(contents) \notin failing BY <1>1, <1>5, <3>2
      <4>2. Admitted(Len(contents)) /\ Whole(Len(contents)) BY <4>1
      <4> QED BY <1>4, <4>2
    <3> QED BY <1>1, <3>1, <3>2
  <2>3. Budget!Total(contents) \in Nat BY <1>3, <1>4
  <2> QED BY <2>1, <2>2, <2>3
<1>6. CASE failing # {}
  <2>1. failing \subseteq Nat /\ failing \subseteq 1 .. Len(contents) BY <1>1
  <2>2. first \in failing /\ \A m \in failing : first <= m
    <3> HIDE DEF failing
    <3>1. \E n \in failing : \A m \in failing : n <= m BY <1>6, <2>1, LeastNumber
    <3> QED BY <3>1
  <2> HIDE DEF first
  <2>3. first \in 1 .. Len(contents) /\ first - 1 \in 0 .. Len(contents)
        /\ first \in 0 .. Len(contents)
    BY <1>1, <2>1, <2>2
  <2>4. Budget!SumTo(contents, first) = before + contents[first] BY <2>3, Sums
  <2>5. contents[first] \in Nat /\ before \in Nat /\ Budget!SumTo(contents, first) \in Nat
    BY <1>3, <2>3
  <2>6. before <= limit
    <3>1. CASE first = 1 BY <3>1, Sums
    <3>2. CASE first # 1
      <4>1. first - 1 \in DOMAIN contents BY <1>1, <2>3, <3>2
      <4>2. first - 1 \notin failing BY <2>2, <2>3
      <4> QED BY <4>1, <4>2
    <3> QED BY <3>1, <3>2
  <2>7. CASE ~ Admitted(first)
    <3>1. end.outcome = "insufficient" /\ end.peak = before
      <4> HIDE DEF end, failing, before
      <4>1. end = Budget!Attempt("insufficient", before) BY <1>2, <1>6, <2>7
      <4> QED BY <4>1 DEF Budget!Attempt
    <3>2. Budget!SumTo(contents, first) <= Budget!Total(contents)
      BY <1>1, <1>4, <2>3, Sums
    <3>3. Budget!Total(contents) \in Nat BY <1>3, <1>4
    <3>4. Budget!Total(contents) > limit BY <2>5, <2>7, <3>2, <3>3
    <3> QED BY <2>5, <2>6, <3>1, <3>4
  <2>8. CASE Admitted(first)
    <3>1. end.outcome = "invalid" /\ end.peak = before + part
      <4> HIDE DEF end, failing, before, part
      <4>1. end = Budget!Attempt("invalid", before + part) BY <1>2, <1>6, <2>8
      <4> QED BY <4>1 DEF Budget!Attempt
    <3>2. part \in Nat /\ part <= contents[first] BY <2>3, <2>5 DEF Budget!Smaller
    <3> QED BY <2>4, <2>5, <2>8, <3>1, <3>2
  <2> QED BY <2>7, <2>8
<1> QED BY <1>5, <1>6

\* BudgetIsSound, for libraries, answers, contents and limits of any size; an
\* answer is not longer than it announces, which HTTP sees to.
THEOREM BudgetSound ==
  ASSUME MaxBundleSize \in Nat,
         NEW place \in {"absent", "generation", "outside"},
         NEW nodes \in Seq([kind : {"file", "link", "other"}, size : Nat]),
         NEW answer \in [announced : Nat \union {Budget!NotAnnounced}, pieces : Seq(Nat)],
         answer.announced = Budget!NotAnnounced \/ Budget!Total(answer.pieces) <= answer.announced,
         NEW contents \in Seq(Nat), NEW limit \in Nat
  PROVE  Budget!BudgetIsSound(place, nodes, answer, contents, limit)
<1> DEFINE library == Budget!LibrarySize(place, nodes)
           archive == Budget!Total(answer.pieces)
           written == Budget!Streamed(answer)
           stored == Budget!SumTo(answer.pieces, written)
           bound == Budget!Bound(answer)
           extraction == Budget!Extract(contents, stored, Budget!Available(limit, library, stored))
           end == Budget!Download(place, nodes, answer, contents, limit)
           wanted == Budget!Total(contents)
<1>1. library \in Nat
  <2> DEFINE sizes == [n \in DOMAIN nodes |-> IF nodes[n].kind = "file" THEN nodes[n].size ELSE 0]
  <2>1. sizes \in Seq(Nat)
    <3>1. DOMAIN nodes = 1 .. Len(nodes) /\ Len(nodes) \in Nat OBVIOUS
    <3>2. ASSUME NEW n \in 1 .. Len(nodes) PROVE nodes[n].size \in Nat
      <4> DEFINE Node == [kind : {"file", "link", "other"}, size : Nat]
      <4>1. nodes \in Seq(Node) OBVIOUS
      <4> HIDE DEF Node
      <4>2. nodes[n] \in Node BY <3>1, <4>1
      <4> QED BY <4>2 DEF Node
    <3>3. sizes \in [1 .. Len(nodes) -> Nat] BY <3>1, <3>2
    <3>4. \A m \in Nat : [1 .. m -> Nat] \subseteq Seq(Nat) OBVIOUS
    <3> HIDE DEF sizes
    <3> QED BY <3>1, <3>3, <3>4
  <2> HIDE DEF sizes
  <2>2. Budget!SumTo(sizes, Len(sizes)) = Budget!Total(sizes)
        /\ Len(sizes) \in 0 .. Len(sizes)
    BY <2>1, Sums
  <2>3. Budget!Total(sizes) \in Nat BY <2>1, <2>2, Sums
  <2> QED BY <2>3 DEF Budget!LibrarySize, sizes
<1>2. answer.pieces \in Seq(Nat) /\ bound \in Nat BY DEF Budget!Bound, Budget!NotAnnounced
<1>3. Len(answer.pieces) \in Nat /\ written \in 0 .. Len(answer.pieces)
  BY <1>2, StreamedIsRight
<1>4. stored <= bound BY <1>2, StreamedIsRight
<1>5. stored \in Nat /\ archive \in Nat /\ (written = Len(answer.pieces) => stored = archive)
  <2>1. Len(answer.pieces) \in 0 .. Len(answer.pieces) BY <1>3
  <2>2. archive = Budget!SumTo(answer.pieces, Len(answer.pieces)) BY <1>2, Sums
  <2>3. stored \in Nat BY <1>2, <1>3, Sums
  <2>4. archive \in Nat BY <1>2, <2>1, <2>2, Sums
  <2> QED BY <2>2, <2>3, <2>4
<1>6. wanted \in Nat
  <2>1. Len(contents) \in 0 .. Len(contents) OBVIOUS
  <2>2. wanted = Budget!SumTo(contents, Len(contents)) BY Sums
  <2> QED BY <2>1, <2>2, Sums
<1>7. ASSUME library + bound <= limit
      PROVE  /\ extraction.peak \in Nat /\ library + stored + extraction.peak <= limit
             /\ extraction.outcome = "updated" => Len(contents) + wanted <= stored
             /\ extraction.outcome = "insufficient" => library + stored + wanted > limit
  <2> DEFINE room == Budget!Available(limit, library, stored)
  <2>1. room = limit - (library + stored) BY DEF Budget!Available, Budget!Required
  <2> HIDE DEF room, library, stored, bound, wanted
  <2>2. room \in Nat BY <1>1, <1>2, <1>4, <1>5, <1>7, <2>1
  <2>3. /\ extraction.peak \in Nat /\ extraction.peak <= room
        /\ extraction.outcome = "updated" => Len(contents) + wanted <= stored
        /\ extraction.outcome = "insufficient" => wanted > room
    BY <1>5, <2>2, ExtractIsRight DEF room, wanted
  <2> HIDE DEF extraction
  <2> QED BY <1>1, <1>5, <1>6, <2>1, <2>3
<1>8. end = IF ~ Budget!Measurable(place, nodes) THEN Budget!Attempt("failed", 0)
            ELSE IF bound > MaxBundleSize THEN Budget!Attempt("invalid", library)
            ELSE IF library + bound > limit THEN Budget!Attempt("insufficient", library)
            ELSE IF written < Len(answer.pieces) THEN Budget!Attempt("invalid", library + stored)
            ELSE IF stored < answer.announced THEN Budget!Attempt("network", library + stored)
            ELSE Budget!Attempt(extraction.outcome, library + stored + extraction.peak)
  BY DEF Budget!Download, Budget!Required
<1> DEFINE whole == Len(contents) + wanted <= archive
           Sound(a) == /\ a.peak > library => a.peak <= limit
                       /\ a.outcome = "updated" => whole /\ archive <= MaxBundleSize
                       /\ a.outcome = "insufficient" =>
                            library + bound > limit \/ library + archive + wanted > limit
                       /\ limit >= 3 * MaxBundleSize /\ library <= MaxBundleSize /\ whole =>
                            a.outcome # "insufficient"
<1>9. Budget!BudgetIsSound(place, nodes, answer, contents, limit) <=> Sound(end)
  BY DEF Budget!BudgetIsSound
<1> SUFFICES Sound(end) BY <1>9
<1>10. Len(contents) \in Nat OBVIOUS
<1> HIDE DEF library, archive, written, stored, bound, extraction, end, wanted
<1>11. ASSUME NEW outcome, NEW peak \in Nat, end = Budget!Attempt(outcome, peak),
              peak > library => peak <= limit,
              outcome \notin {"updated", "insufficient"}
       PROVE  Sound(end)
  <2>1. end.outcome = outcome /\ end.peak = peak BY <1>11 DEF Budget!Attempt
  <2> QED BY <1>11, <2>1
<1> HIDE DEF Sound
<1>12. CASE ~ Budget!Measurable(place, nodes)
  <2>1. end = Budget!Attempt("failed", 0) BY <1>8, <1>12
  <2>2. ~ (0 > library) BY <1>1
  <2> QED BY <1>11, <2>1, <2>2
<1>13. CASE bound > MaxBundleSize /\ Budget!Measurable(place, nodes)
  <2>1. end = Budget!Attempt("invalid", library) BY <1>8, <1>13
  <2>2. ~ (library > library) BY <1>1
  <2> QED BY <1>1, <1>11, <2>1, <2>2
<1>14. CASE /\ Budget!Measurable(place, nodes) /\ ~ (bound > MaxBundleSize)
            /\ library + bound > limit
  <2>1. end = Budget!Attempt("insufficient", library) BY <1>8, <1>14
  <2>2. end.outcome = "insufficient" /\ end.peak = library BY <2>1 DEF Budget!Attempt
  <2>3. ~ (limit >= 3 * MaxBundleSize /\ library <= MaxBundleSize) BY <1>1, <1>2, <1>14
  <2>4. ~ (library > library) BY <1>1
  <2> QED BY <1>14, <2>2, <2>3, <2>4 DEF Sound
<1>15. CASE /\ Budget!Measurable(place, nodes) /\ ~ (bound > MaxBundleSize)
            /\ ~ (library + bound > limit)
  <2>1. bound <= MaxBundleSize /\ library + bound <= limit BY <1>1, <1>2, <1>15
  <2>2. library + stored \in Nat /\ library + stored <= limit
    BY <1>1, <1>2, <1>4, <1>5, <2>1
  <2>3. CASE written < Len(answer.pieces)
    <3> DEFINE held == library + stored
    <3>1. end = Budget!Attempt("invalid", held) BY <1>8, <1>15, <2>3
    <3>2. held \in Nat /\ held <= limit BY <2>2
    <3> HIDE DEF held
    <3> QED BY <1>11, <3>1, <3>2
  <2>4. CASE ~ (written < Len(answer.pieces)) /\ stored < answer.announced
    <3> DEFINE held == library + stored
    <3>1. end = Budget!Attempt("network", held) BY <1>8, <1>15, <2>4
    <3>2. held \in Nat /\ held <= limit BY <2>2
    <3> HIDE DEF held
    <3> QED BY <1>11, <3>1, <3>2
  <2>5. CASE ~ (written < Len(answer.pieces)) /\ ~ (stored < answer.announced)
    <3>1. end = Budget!Attempt(extraction.outcome, library + stored + extraction.peak)
      BY <1>8, <1>15, <2>5
    <3>2. /\ end.outcome = extraction.outcome
          /\ end.peak = library + stored + extraction.peak
      BY <3>1 DEF Budget!Attempt
    <3>3. stored = archive /\ archive <= MaxBundleSize
      <4>1. written = Len(answer.pieces) BY <1>3, <2>5
      <4>2. stored = archive BY <1>5, <4>1
      <4> QED BY <1>2, <1>4, <1>5, <2>1, <4>2
    <3>4. end.peak <= limit BY <1>7, <2>1, <3>2
    <3>5. end.outcome = "updated" => whole /\ archive <= MaxBundleSize
      BY <1>7, <2>1, <3>2, <3>3
    <3>6. end.outcome = "insufficient" => library + archive + wanted > limit
      BY <1>7, <2>1, <3>2, <3>3
    <3>7. limit >= 3 * MaxBundleSize /\ library <= MaxBundleSize /\ whole =>
            ~ (library + archive + wanted > limit)
      <4> SUFFICES ASSUME limit >= 3 * MaxBundleSize, library <= MaxBundleSize, whole
                   PROVE  ~ (library + archive + wanted > limit)
        OBVIOUS
      <4>1. wanted <= archive BY <1>5, <1>6, <1>10
      <4>2. wanted <= MaxBundleSize BY <1>5, <1>6, <3>3, <4>1
      <4>3. library + archive + wanted <= 3 * MaxBundleSize BY <1>1, <1>5, <1>6, <3>3, <4>2
      <4> QED BY <1>1, <1>5, <1>6, <4>3
    <3> QED BY <3>4, <3>5, <3>6, <3>7 DEF Sound
  <2> QED BY <2>3, <2>4, <2>5
<1> QED BY <1>12, <1>13, <1>14, <1>15

-----------------------------------------------------------------------------
(* The readiness of a database (WorkerChecks).                             *)

\* The rows of the migration history.
Records == [migration_id : Int, migration_name : Nat]

\* A record without a fault is that of its migration: one of this release, or
\* the one that was reviewed.
LEMMA FaultlessRecord ==
  ASSUME NEW rows \in Seq(Records), NEW i \in DOMAIN rows
  PROVE  /\ Checks!RecordFault(rows, i) \in {"none", "history_incomplete", "name_mismatch"}
         /\ Checks!RecordFault(rows, i) = "none" <=>
              i <= 8 /\ rows[i] = [migration_id |-> i, migration_name |-> i]
<1>1. i \in Nat /\ i >= 1 OBVIOUS
<1>2. rows[i] \in Records OBVIOUS
<1>3. PICK id \in Int, name \in Nat : rows[i] = [migration_id |-> id, migration_name |-> name]
  BY <1>2 DEF Records
<1>4. rows[i].migration_id = id /\ rows[i].migration_name = name BY <1>3
<1>5. rows[i] = [migration_id |-> i, migration_name |-> i] <=> id = i /\ name = i BY <1>3
<1>6. rows[i] \in Checks!COMPATIBLE_FUTURE_MIGRATIONS <=> id = 8 /\ name = 8
  BY <1>3 DEF Checks!COMPATIBLE_FUTURE_MIGRATIONS
<1>7. Checks!RecordFault(rows, i) = "none" <=>
        /\ id = i /\ name # 0
        /\ i <= 7 => name = i
        /\ i > 7 => id = 8 /\ name = 8
  BY <1>4, <1>6 DEF Checks!RecordFault, Checks!EmptyName, Checks!KNOWN_MIGRATIONS
<1>8. Checks!RecordFault(rows, i) \in {"none", "history_incomplete", "name_mismatch"}
  BY DEF Checks!RecordFault
<1>9. Checks!RecordFault(rows, i) = "none" <=> i <= 8 /\ id = i /\ name = i
  BY <1>1, <1>7
<1> QED BY <1>5, <1>8, <1>9

\* ReadinessIsSound, for migration histories of any length: a database is ready
\* exactly when its history is that of the release or of the reviewed migration
\* after it.
THEOREM ReadinessSound ==
  ASSUME NEW rows \in Seq(Records)
  PROVE  Checks!ReadinessIsSound(rows)
<1> DEFINE original == [i \in DOMAIN rows |-> [migration_id |-> i, migration_name |-> i]]
           faulty == {i \in DOMAIN rows : Checks!RecordFault(rows, i) # "none"}
           required == {i \in DOMAIN rows : rows[i].migration_id = 7}
           first == CHOOSE i \in faulty : \A j \in faulty : i <= j
           verdict == Checks!Inspect(rows)
           length == Len(rows)
<1>1. length \in Nat /\ DOMAIN rows = 1 .. length OBVIOUS
<1>2. rows = original <=> \A i \in DOMAIN rows : rows[i] = [migration_id |-> i, migration_name |-> i]
  BY <1>1
<1>3. faulty = {} <=> rows = original /\ length <= 8
  <2>1. ASSUME faulty = {} PROVE rows = original /\ length <= 8
    <3>1. \A i \in DOMAIN rows : i <= 8 /\ rows[i] = [migration_id |-> i, migration_name |-> i]
      BY <2>1, FaultlessRecord
    <3>2. length <= 8
      <4> SUFFICES ASSUME length > 8 PROVE FALSE BY <1>1
      <4>1. length \in DOMAIN rows BY <1>1
      <4> QED BY <3>1, <4>1
    <3> QED BY <1>2, <3>1, <3>2
  <2>2. ASSUME rows = original, length <= 8 PROVE faulty = {}
    <3>1. \A i \in DOMAIN rows : i <= 8 BY <1>1, <2>2
    <3> HIDE DEF original
    <3>2. \A i \in DOMAIN rows : rows[i] = [migration_id |-> i, migration_name |-> i]
      BY <1>2, <2>2
    <3> QED BY <3>1, <3>2, FaultlessRecord
  <2> QED BY <2>1, <2>2
<1>4. CASE \E i \in DOMAIN rows : rows[i].migration_id < 0
  <2>1. verdict = "history_incomplete" BY <1>4 DEF Checks!Inspect
  <2>2. rows # original
    <3> SUFFICES ASSUME rows = original PROVE FALSE OBVIOUS
    <3>1. PICK i \in DOMAIN rows : rows[i].migration_id < 0 BY <1>4
    <3>2. rows[i] = [migration_id |-> i, migration_name |-> i] BY <1>2
    <3>3. i \in Nat BY <1>1
    <3>4. rows[i].migration_id = i BY <3>2
    <3> QED BY <3>1, <3>3, <3>4
  <2> HIDE DEF verdict
  <2>3. verdict # "none" /\ verdict # "schema_outdated" BY <2>1
  <2> QED BY <2>2, <2>3 DEF Checks!ReadinessIsSound, verdict
<1>5. CASE ~ \E i \in DOMAIN rows : rows[i].migration_id < 0
  <2>1. verdict = Checks!Assess(rows, Checks!RELEASE_SCHEMA_REQUIREMENT)
    BY <1>5 DEF Checks!Inspect
  <2>2. verdict =
          CASE rows = <<>> -> "missing_history"
            [] faulty # {} -> Checks!RecordFault(rows, first)
            [] faulty = {} /\ rows # <<>> /\ required = {} -> "schema_outdated"
            [] OTHER -> IF \E i \in required : rows[i].migration_name = 7
                        THEN "none" ELSE "name_mismatch"
    BY <2>1 DEF Checks!Assess, Checks!RELEASE_SCHEMA_REQUIREMENT
  <2>3. rows = <<>> <=> length = 0 BY <1>1
  <2>4. CASE rows = <<>>
    <3>1. faulty = {} BY <2>4
    <3>2. verdict = "missing_history"
      <4> HIDE DEF verdict, faulty, required, first
      <4> QED BY <2>2, <2>4, <3>1
    <3>3. length = 0 BY <2>3, <2>4
    <3> QED BY <3>2, <3>3 DEF Checks!ReadinessIsSound
  <2>5. CASE rows # <<>> /\ faulty # {}
    <3>1. first \in faulty
      <4>1. faulty \subseteq Nat BY <1>1
      <4> HIDE DEF faulty
      <4>2. \E i \in faulty : \A j \in faulty : i <= j BY <2>5, <4>1, LeastNumber
      <4> QED BY <4>2
    <3>2. first \in DOMAIN rows /\ Checks!RecordFault(rows, first) # "none" BY <3>1
    <3>3. Checks!RecordFault(rows, first) \in {"history_incomplete", "name_mismatch"}
      <4> HIDE DEF first
      <4> QED BY <3>2, FaultlessRecord
    <3>4. verdict = Checks!RecordFault(rows, first)
      <4> HIDE DEF verdict, faulty, required, first
      <4> QED BY <2>2, <2>5
    <3>5. verdict # "none" /\ verdict # "schema_outdated"
      <4> HIDE DEF verdict, first
      <4> QED BY <3>3, <3>4
    <3>6. ~ (rows = original /\ length <= 8) BY <1>3, <2>5
    <3> HIDE DEF verdict
    <3>7. ~ (rows = original /\ length \in 1 .. 6) BY <1>1, <3>6
    <3> QED BY <3>5, <3>6, <3>7 DEF Checks!ReadinessIsSound, verdict
  <2>6. CASE rows # <<>> /\ faulty = {}
    <3>1. rows = original /\ length <= 8 /\ length >= 1 BY <1>1, <1>3, <2>3, <2>6
    <3>2. \A i \in DOMAIN rows : rows[i].migration_id = i /\ rows[i].migration_name = i
      <4>1. \A i \in DOMAIN rows : rows[i] = [migration_id |-> i, migration_name |-> i]
        BY <1>2, <3>1
      <4> QED BY <4>1
    <3>3. required = {i \in 1 .. length : i = 7} BY <1>1, <3>2
    <3>4. CASE length >= 7
      <4>1. 7 \in required /\ rows[7].migration_name = 7 BY <1>1, <3>2, <3>4
      <4>2. verdict = "none"
        <5> HIDE DEF verdict, faulty, required, first
        <5> QED BY <2>2, <2>6, <4>1
      <4> HIDE DEF verdict
      <4> QED BY <1>1, <3>1, <3>4, <4>2 DEF Checks!ReadinessIsSound, verdict
    <3>5. CASE length < 7
      <4>1. required = {} BY <1>1, <3>3, <3>5
      <4>2. verdict = "schema_outdated"
        <5> HIDE DEF verdict, faulty, required, first
        <5> QED BY <2>2, <2>6, <4>1
      <4> HIDE DEF verdict
      <4>3. length \in 1 .. 6
        <5>1. length >= 1 /\ length <= 6 BY <1>1, <3>1, <3>5
        <5> HIDE DEF length
        <5> QED BY <1>1, <5>1
      <4> QED BY <1>1, <3>1, <3>5, <4>2, <4>3 DEF Checks!ReadinessIsSound, verdict
    <3> QED BY <1>1, <3>4, <3>5
  <2> QED BY <2>4, <2>5, <2>6
<1> QED BY <1>4, <1>5

-----------------------------------------------------------------------------
(* The body of a request (WorkerChecks).                                   *)

\* A body that is being read, and the parts of it that were.
BodyOf(body, chunks, limit) ==
  body = [n \in 0 .. Len(chunks) |->
            IF n = 0 THEN [kept |-> 0, fault |-> "none"]
            ELSE Checks!AppendChunk(body[n - 1], chunks[n], limit)]
Bodies == [kept : Nat, fault : {"none", "invalid", "too_large"}]
Chunks == Nat \union {Checks!Broken}

LEMMA BodyExists ==
  ASSUME NEW chunks \in Seq(Chunks), NEW limit \in Nat
  PROVE  \E body : BodyOf(body, chunks, limit)
<1> DEFINE length == Len(chunks)
           base == [kept |-> 0, fault |-> "none"]
           step == [n \in 1 .. length |-> [body \in Bodies |-> Checks!AppendChunk(body, chunks[n], limit)]]
<1>1. length \in Nat /\ base \in Bodies BY DEF Bodies
<1>2. ASSUME NEW body \in Bodies, NEW n \in 1 .. length
      PROVE  Checks!AppendChunk(body, chunks[n], limit) \in Bodies
  <2>1. chunks[n] \in Chunks OBVIOUS
  <2>2. chunks[n] = Checks!Broken \/ chunks[n] \in Nat BY <2>1 DEF Chunks
  <2> QED BY <2>2 DEF Bodies, Checks!AppendChunk
<1>3. step \in [1 .. length -> [Bodies -> Bodies]] BY <1>2
<1>4. \A body \in Bodies, n \in 1 .. length :
        step[n][body] = Checks!AppendChunk(body, chunks[n], limit)
  OBVIOUS
<1> HIDE DEF step, base
<1>5. PICK body \in [0 .. length -> Bodies] :
        /\ body[0] = base
        /\ \A n \in 1 .. length : body[n] = step[n][body[n - 1]]
  <2> HIDE DEF length
  <2>1. PICK body : Unfolds(body, Bodies, base, length, step) BY <1>1, <1>3, Unfolding
  <2> QED BY <2>1 DEF Unfolds
<1>6. ASSUME NEW n \in 0 .. length
      PROVE  body[n] = IF n = 0 THEN base ELSE Checks!AppendChunk(body[n - 1], chunks[n], limit)
  <2>1. CASE n = 0 BY <1>5, <2>1
  <2>2. CASE n # 0
    <3>1. n \in 1 .. length /\ n - 1 \in 0 .. length BY <1>1, <2>2
    <3>2. body[n - 1] \in Bodies BY <1>5, <3>1
    <3> QED BY <1>4, <1>5, <2>2, <3>1, <3>2
  <2> QED BY <2>1, <2>2
<1>7. body = [n \in 0 .. length |->
                IF n = 0 THEN base ELSE Checks!AppendChunk(body[n - 1], chunks[n], limit)]
  BY <1>5, <1>6
<1> QED BY <1>7 DEF BodyOf, base

\* What was kept of the first chunks, if all is well, is all of them and within
\* the limit; and when they were too large, some of them were.
BodyUpTo(body, chunks, limit, n) ==
  LET sum == Budget!SumTo(Checks!Sizes(chunks), n)
  IN  /\ body[n] \in Bodies /\ body[n].kept <= limit
      /\ body[n].fault = "none" =>
           body[n].kept = sum /\ \A m \in 1 .. n : chunks[m] # Checks!Broken
      /\ body[n].fault = "too_large" =>
           \E m \in 1 .. n : Budget!SumTo(Checks!Sizes(chunks), m) > limit

LEMMA BodyKept ==
  ASSUME NEW chunks \in Seq(Chunks), NEW limit \in Nat, NEW body, BodyOf(body, chunks, limit)
  PROVE  BodyUpTo(body, chunks, limit, Len(chunks))
<1> DEFINE length == Len(chunks)
           sizes == Checks!Sizes(chunks)
           Right == {n \in 0 .. length : BodyUpTo(body, chunks, limit, n)}
<1>1. length \in Nat OBVIOUS
<1>2. \A n \in 1 .. length : chunks[n] = Checks!Broken \/ chunks[n] \in Nat BY DEF Chunks
<1>3. sizes \in Seq(Nat) /\ Len(sizes) = length
  <2>1. sizes \in [1 .. length -> Nat] BY <1>2 DEF Checks!Sizes
  <2>2. \A m \in Nat : \A s \in [1 .. m -> Nat] : s \in Seq(Nat) /\ Len(s) = m OBVIOUS
  <2> HIDE DEF length, sizes
  <2> QED BY <1>1, <2>1, <2>2
<1>4. \A n \in 0 .. length :
        body[n] = IF n = 0 THEN [kept |-> 0, fault |-> "none"]
                  ELSE Checks!AppendChunk(body[n - 1], chunks[n], limit)
  <2>1. body = [n \in 0 .. length |-> IF n = 0 THEN [kept |-> 0, fault |-> "none"]
                                     ELSE Checks!AppendChunk(body[n - 1], chunks[n], limit)]
    BY DEF BodyOf
  <2> QED BY <2>1, Zenon
<1>5. 0 \in Right
  <2>1. body[0] = [kept |-> 0, fault |-> "none"] BY <1>1, <1>4
  <2>2. Budget!SumTo(sizes, 0) = 0 BY <1>3, Sums
  <2> QED BY <1>1, <2>1, <2>2 DEF BodyUpTo, Bodies
<1>6. ASSUME NEW n \in 1 .. length, n - 1 \in Right PROVE n \in Right
  <2> DEFINE before == body[n - 1]
             chunk == chunks[n]
             sum == Budget!SumTo(sizes, n - 1)
  <2>1. body[n] = Checks!AppendChunk(before, chunk, limit) BY <1>1, <1>4
  <2>2. before \in Bodies /\ before.kept <= limit BY <1>6 DEF BodyUpTo
  <2>3. before.fault = "none" =>
          before.kept = sum /\ \A m \in 1 .. n - 1 : chunks[m] # Checks!Broken
    BY <1>6 DEF BodyUpTo
  <2>4. before.fault = "too_large" =>
          \E m \in 1 .. n : Budget!SumTo(sizes, m) > limit
    BY <1>6 DEF BodyUpTo
  <2>5. Budget!SumTo(sizes, n) = sum + sizes[n] BY <1>3, Sums
  <2>6. sizes[n] = IF chunk = Checks!Broken THEN 0 ELSE chunk BY DEF Checks!Sizes
  <2>7. PICK kept \in Nat, fault \in {"none", "invalid", "too_large"} :
          before = [kept |-> kept, fault |-> fault]
    BY <2>2 DEF Bodies
  <2>8. before.kept = kept /\ before.fault = fault BY <2>7
  <2> HIDE DEF before, chunk, sum, sizes
  <2>9. CASE fault # "none"
    <3>1. body[n] = before BY <2>1, <2>8, <2>9 DEF Checks!AppendChunk
    <3>2. fault \in {"invalid", "too_large"} BY <2>9
    <3> QED BY <2>2, <2>4, <2>8, <3>1, <3>2 DEF BodyUpTo, sizes
  <2>10. CASE fault = "none" /\ chunk = Checks!Broken
    <3>1. body[n] = [kept |-> kept, fault |-> "invalid"]
      BY <2>1, <2>7, <2>8, <2>10 DEF Checks!AppendChunk
    <3> QED BY <2>2, <2>8, <3>1 DEF BodyUpTo, Bodies
  <2>11. CASE fault = "none" /\ chunk # Checks!Broken /\ kept + chunk > limit
    <3>1. body[n] = [kept |-> kept, fault |-> "too_large"]
      BY <2>1, <2>7, <2>8, <2>11 DEF Checks!AppendChunk
    <3>2. Budget!SumTo(sizes, n) > limit BY <2>3, <2>5, <2>6, <2>8, <2>11
    <3>3. n \in 1 .. n BY <1>1
    <3> QED BY <2>2, <2>8, <3>1, <3>2, <3>3 DEF BodyUpTo, Bodies, sizes
  <2>12. CASE fault = "none" /\ chunk # Checks!Broken /\ ~ (kept + chunk > limit)
    <3>1. body[n] = [kept |-> kept + chunk, fault |-> "none"]
      BY <2>1, <2>7, <2>8, <2>12 DEF Checks!AppendChunk
    <3>2. chunk \in Nat BY <1>2, <2>12 DEF chunk
    <3>3. kept + chunk \in Nat /\ kept + chunk <= limit BY <2>12, <3>2
    <3>4. kept + chunk = Budget!SumTo(sizes, n) BY <2>3, <2>5, <2>6, <2>8, <2>12
    <3>5. \A m \in 1 .. n : chunks[m] # Checks!Broken
      <4>1. \A m \in 1 .. n : m \in 1 .. n - 1 \/ m = n BY <1>1
      <4> QED BY <2>3, <2>8, <2>12, <4>1 DEF chunk
    <3> QED BY <3>1, <3>3, <3>4, <3>5 DEF BodyUpTo, Bodies, sizes
  <2>13. BodyUpTo(body, chunks, limit, n) BY <2>9, <2>10, <2>11, <2>12
  <2> QED BY <1>1, <2>13
<1>7. \A n \in 0 .. length : n \in Right
  <2>1. \A n \in 0 + 1 .. length : n - 1 \in Right => n \in Right BY <1>6
  <2> HIDE DEF Right, length
  <2> QED BY <1>1, <1>5, <2>1, Upward
<1> QED BY <1>1, <1>7

\* BodyIsSound, for bodies of any chunks and any declared length and limit.
THEOREM BodySound ==
  ASSUME NEW declared \in Nat \union {Checks!NotDeclared, Checks!Garbled},
         NEW chunks \in Seq(Chunks), NEW limit \in Nat
  PROVE  Checks!BodyIsSound(declared, chunks, limit)
<1> DEFINE sizes == Checks!Sizes(chunks)
           read == Checks!ReadBody(declared, chunks, limit)
           chosen == CHOOSE body : BodyOf(body, chunks, limit)
           effect == Checks!PushEffect(declared, chunks, limit)
           length == Len(chunks)
<1>1. length \in Nat /\ DOMAIN chunks = 1 .. length OBVIOUS
<1>2. \A n \in 1 .. length : chunks[n] = Checks!Broken \/ chunks[n] \in Nat BY DEF Chunks
<1>3. sizes \in Seq(Nat) /\ Len(sizes) = length
  <2>1. sizes \in [1 .. length -> Nat] BY <1>2 DEF Checks!Sizes
  <2>2. \A m \in Nat : \A s \in [1 .. m -> Nat] : s \in Seq(Nat) /\ Len(s) = m OBVIOUS
  <2> HIDE DEF length, sizes
  <2> QED BY <1>1, <2>1, <2>2
<1>4. Checks!Total(sizes) = Budget!Total(sizes)
      /\ \A n \in DOMAIN chunks : Checks!Total(SubSeq(sizes, 1, n)) = Budget!SumTo(sizes, n)
  BY DEF Checks!Total, Budget!Total, Budget!SumTo
<1>5. BodyUpTo(chosen, chunks, limit, length) BY BodyExists, BodyKept
<1>6. read = LET fault == Checks!LengthFault(declared, limit)
             IN  IF fault # "none" THEN [kept |-> 0, fault |-> fault] ELSE chosen[length]
  BY DEF Checks!ReadBody, BodyOf
<1>7. Checks!LengthFault(declared, limit) \in {"none", "invalid", "too_large"}
      /\ (Checks!LengthFault(declared, limit) = "too_large" => declared > limit)
  BY DEF Checks!LengthFault
<1>8. effect = CASE read.fault = "none" -> "pushed"
                 [] read.fault = "too_large" -> "cleared"
                 [] read.fault = "invalid" -> "kept"
  BY DEF Checks!PushEffect
<1>9. Checks!BodyIsSound(declared, chunks, limit) <=>
        /\ read.kept <= limit
        /\ effect = "pushed" =>
             /\ \A n \in DOMAIN chunks : chunks[n] # Checks!Broken
             /\ read.kept = Checks!Total(sizes) /\ Checks!Total(sizes) <= limit
        /\ effect = "cleared" =>
             declared > limit \/ \E n \in DOMAIN chunks : Checks!Total(SubSeq(sizes, 1, n)) > limit
  BY DEF Checks!BodyIsSound
<1> HIDE DEF read, effect, chosen, sizes, length
<1>10. CASE Checks!LengthFault(declared, limit) # "none"
  <2>1. read.kept = 0 /\ read.fault = Checks!LengthFault(declared, limit) BY <1>6, <1>10
  <2>2. read.fault \in {"invalid", "too_large"} BY <1>7, <1>10, <2>1
  <2>3. effect # "pushed" BY <1>8, <2>2
  <2>4. effect = "cleared" => declared > limit BY <1>7, <1>8, <2>1, <2>2
  <2> QED BY <1>9, <2>1, <2>3, <2>4
<1>11. CASE Checks!LengthFault(declared, limit) = "none"
  <2>1. read = chosen[length] BY <1>6, <1>11
  <2>2. read \in Bodies /\ read.kept <= limit BY <1>5, <2>1 DEF BodyUpTo
  <2>3. read.fault \in {"none", "invalid", "too_large"} BY <2>2 DEF Bodies
  <2>4. ASSUME effect = "pushed"
        PROVE  /\ \A n \in DOMAIN chunks : chunks[n] # Checks!Broken
               /\ read.kept = Checks!Total(sizes)
    <3>1. read.fault = "none" BY <1>8, <2>3, <2>4
    <3>2. read.kept = Budget!SumTo(sizes, length)
          /\ \A n \in 1 .. length : chunks[n] # Checks!Broken
      BY <1>5, <2>1, <3>1 DEF BodyUpTo, sizes
    <3>3. Budget!SumTo(sizes, length) = Budget!Total(sizes) BY <1>3, Sums
    <3> QED BY <1>1, <1>4, <3>2, <3>3
  <2>5. ASSUME effect = "cleared"
        PROVE  \E n \in DOMAIN chunks : Checks!Total(SubSeq(sizes, 1, n)) > limit
    <3>1. read.fault = "too_large" BY <1>8, <2>3, <2>5
    <3>2. PICK n \in 1 .. length : Budget!SumTo(sizes, n) > limit
      BY <1>5, <2>1, <3>1 DEF BodyUpTo, sizes
    <3> QED BY <1>1, <1>4, <3>2
  <2> QED BY <1>9, <2>2, <2>4, <2>5
<1> QED BY <1>7, <1>10, <1>11

-----------------------------------------------------------------------------
(* References and files (Resources).                                       *)

\* Names of files and directories, the outcomes of a walk over such names, and
\* what a component of a path does to one (normalize_relative).
Special == {".", "..", "/"}
Walks(S) == {Docs!Refused} \union {Docs!Found(v) : v \in Seq(S \ Special)}
Walked(walk, component) ==
  IF ~walk.ok \/ component = "/" THEN Docs!Refused
  ELSE IF component = "." THEN walk
  ELSE IF component = ".." THEN Docs!Up(walk.value)
  ELSE Docs!Found(Append(walk.value, component))

\* A component leads from an outcome of a walk to another one.
LEMMA WalkedIsWalk ==
  ASSUME NEW S, NEW walk \in Walks(S), NEW component \in S
  PROVE  Walked(walk, component) \in Walks(S)
<1> DEFINE Clean == S \ Special
<1>1. \A v \in Seq(Clean) : Docs!Found(v) \in Walks(S) BY DEF Walks
<1>2. Docs!Refused \in Walks(S) BY DEF Walks
<1>3. CASE walk = Docs!Refused
  <2>1. ~ walk.ok BY <1>3 DEF Docs!Refused
  <2> QED BY <1>2, <2>1 DEF Walked
<1>4. CASE walk # Docs!Refused
  <2>1. PICK v \in Seq(Clean) : walk = Docs!Found(v) BY <1>4 DEF Walks
  <2>2. walk.ok = TRUE /\ walk.value = v BY <2>1 DEF Docs!Found
  <2>3. Docs!Up(v) \in Walks(S)
    <3>1. v = <<>> \/ Docs!Front(v) \in Seq(Clean)
      <4> HIDE DEF Clean
      <4> QED BY DEF Docs!Front
    <3> QED BY <1>1, <1>2, <3>1 DEF Docs!Up
  <2>4. component \notin Special => Docs!Found(Append(v, component)) \in Walks(S)
    <3> SUFFICES ASSUME component \notin Special PROVE Append(v, component) \in Seq(Clean)
      BY <1>1
    <3>1. component \in Clean OBVIOUS
    <3> HIDE DEF Clean
    <3> QED BY <3>1
  <2> QED BY <1>2, <2>2, <2>3, <2>4 DEF Walked, Special
<1> QED BY <1>3, <1>4

\* The walk Normalize takes, component by component.
LEMMA NormalWalk ==
  ASSUME NEW S, NEW path \in Seq(S)
  PROVE  \E walk \in [0 .. Len(path) -> Walks(S)] :
           /\ walk[0] = Docs!Found(<<>>)
           /\ \A n \in 1 .. Len(path) : walk[n] = Walked(walk[n - 1], path[n])
           /\ Docs!Normalize(path) = walk[Len(path)]
<1> DEFINE length == Len(path)
           base == Docs!Found(<<>>)
           step == [n \in 1 .. length |-> [walk \in Walks(S) |-> Walked(walk, path[n])]]
<1>1. length \in Nat /\ \A n \in 1 .. length : path[n] \in S OBVIOUS
<1>2. base \in Walks(S)
  <2>1. <<>> \in Seq(S \ Special) OBVIOUS
  <2> QED BY <2>1 DEF Walks
<1>3. \A n \in 1 .. length, walk \in Walks(S) : Walked(walk, path[n]) \in Walks(S)
  BY <1>1, WalkedIsWalk
<1>4. step \in [1 .. length -> [Walks(S) -> Walks(S)]] BY <1>3
<1>5. \A n \in 1 .. length, walk \in Walks(S) : step[n][walk] = Walked(walk, path[n]) OBVIOUS
<1> HIDE DEF step, base, length
<1>6. PICK walk : Unfolds(walk, Walks(S), base, length, step)
  BY <1>1, <1>2, <1>4, Unfolding
<1>7. /\ walk \in [0 .. length -> Walks(S)]
      /\ walk[0] = base /\ \A n \in 1 .. length : walk[n] = Walked(walk[n - 1], path[n])
  <2>1. /\ walk \in [0 .. length -> Walks(S)]
        /\ walk[0] = base /\ \A n \in 1 .. length : walk[n] = step[n][walk[n - 1]]
    BY <1>6 DEF Unfolds
  <2> SUFFICES ASSUME NEW n \in 1 .. length PROVE walk[n] = Walked(walk[n - 1], path[n])
    BY <2>1
  <2>2. n - 1 \in 0 .. length BY <1>1
  <2>3. walk[n - 1] \in Walks(S) BY <2>1, <2>2
  <2> QED BY <1>5, <2>1, <2>3
<1> DEFINE WalkOf(w) == w = [n \in 0 .. length |-> IF n = 0 THEN base ELSE Walked(w[n - 1], path[n])]
           chosen == CHOOSE w : WalkOf(w)
<1>8. WalkOf(walk)
  <2>1. \A n \in 0 .. length : n = 0 \/ n \in 1 .. length BY <1>1
  <2>2. \A n \in 0 .. length : walk[n] = IF n = 0 THEN base ELSE Walked(walk[n - 1], path[n])
    BY <1>7, <2>1
  <2> QED BY <1>7, <2>2
<1>9. Docs!Normalize(path) = chosen[length] BY DEF Docs!Normalize, Walked, base, length
<1> HIDE DEF chosen
<1>10. WalkOf(chosen) BY <1>8 DEF chosen
<1>11. chosen[0] = base /\ \A n \in 1 .. length : chosen[n] = Walked(chosen[n - 1], path[n])
  <2>1. \A n \in 0 .. length : chosen[n] = IF n = 0 THEN base ELSE Walked(chosen[n - 1], path[n])
    BY <1>10, Zenon
  <2>2. 0 \in 0 .. length /\ \A n \in 1 .. length : n \in 0 .. length /\ n # 0 BY <1>1
  <2> QED BY <2>1, <2>2
<1>12. \A n \in 0 .. length : chosen[n] \in Walks(S)
  <2> DEFINE Right == {n \in 0 .. length : chosen[n] \in Walks(S)}
  <2>1. 0 \in Right BY <1>1, <1>2, <1>11
  <2>2. \A n \in 0 + 1 .. length : n - 1 \in Right => n \in Right BY <1>1, <1>3, <1>11
  <2>3. \A n \in 0 .. length : n \in Right
    <3> HIDE DEF Right
    <3> QED BY <1>1, <2>1, <2>2, Upward
  <2> QED BY <2>3
<1>13. chosen \in [0 .. length -> Walks(S)] BY <1>10, <1>12
<1> QED BY <1>9, <1>11, <1>13 DEF base, length

\* Names only: the path is its own normal form.
LEMMA CleanIsNormal ==
  ASSUME NEW S, NEW path \in Seq(S \ Special)
  PROVE  Docs!Normalize(path) = Docs!Found(path)
<1> DEFINE Clean == S \ Special
           length == Len(path)
<1>1. length \in Nat /\ \A n \in 1 .. length : path[n] \notin Special
  <2> HIDE DEF Clean
  <2>1. \A n \in 1 .. length : path[n] \in Clean BY DEF Clean
  <2> QED BY <2>1 DEF Clean
<1>2. PICK walk \in [0 .. length -> Walks(Clean)] :
        /\ walk[0] = Docs!Found(<<>>)
        /\ \A n \in 1 .. length : walk[n] = Walked(walk[n - 1], path[n])
        /\ Docs!Normalize(path) = walk[length]
  <2> HIDE DEF Clean
  <2> QED BY NormalWalk DEF Clean
<1> DEFINE Part(n) == SubSeq(path, 1, n)
           Right == {n \in 0 .. length : walk[n] = Docs!Found(Part(n))}
<1>3. /\ Part(0) = <<>> /\ Part(length) = path
      /\ \A n \in 1 .. length : Part(n) = Append(Part(n - 1), path[n])
  <2> HIDE DEF Clean
  <2>1. path \in Seq(Clean) BY DEF Clean
  <2> QED BY <2>1
<1> HIDE DEF Part
<1>4. 0 \in Right BY <1>1, <1>2, <1>3
<1>5. ASSUME NEW n \in 1 .. length, n - 1 \in Right PROVE n \in Right
  <2>1. walk[n - 1].ok = TRUE /\ walk[n - 1].value = Part(n - 1) BY <1>5 DEF Docs!Found
  <2>2. walk[n] = Docs!Found(Append(Part(n - 1), path[n]))
    BY <1>1, <1>2, <2>1 DEF Walked, Special
  <2>3. n \in 0 .. length BY <1>1
  <2>4. Part(n) = Append(Part(n - 1), path[n]) BY <1>3
  <2> QED BY <2>2, <2>3, <2>4
<1>6. \A n \in 0 .. length : n \in Right
  <2>1. \A n \in 0 + 1 .. length : n - 1 \in Right => n \in Right BY <1>5
  <2> HIDE DEF Right, length
  <2> QED BY <1>1, <1>4, <2>1, Upward
<1> QED BY <1>1, <1>2, <1>6, <1>3

\* How many of the first components are of some names, one more at a time.
Count(path, n, names) == Docs!Cardinality({m \in 1 .. n : path[m] \in names})

LEMMA Counting ==
  ASSUME NEW path, NEW names
  PROVE  /\ Count(path, 0, names) = 0
         /\ \A n \in Nat : Count(path, n, names) \in Nat
         /\ \A n \in Nat \ {0} :
              Count(path, n, names) = Count(path, n - 1, names) + IF path[n] \in names THEN 1 ELSE 0
<1> DEFINE Those(n) == {m \in 1 .. n : path[m] \in names}
<1>0. \A n : Count(path, n, names) = Cardinality(Those(n))
  <2>1. \A T : Docs!Cardinality(T) = Cardinality(T) BY DEF Docs!Cardinality, Cardinality
  <2> QED BY <2>1 DEF Count
<1>1. Count(path, 0, names) = 0
  <2>1. Those(0) = {} OBVIOUS
  <2> QED BY <1>0, <2>1, FS_EmptySet
<1>2. \A n \in Nat : IsFiniteSet(Those(n)) /\ Count(path, n, names) \in Nat
  <2> SUFFICES ASSUME NEW n \in Nat PROVE IsFiniteSet(Those(n)) /\ Count(path, n, names) \in Nat
    OBVIOUS
  <2>1. IsFiniteSet(1 .. n) BY FS_Interval
  <2>2. IsFiniteSet(Those(n)) BY <2>1, FS_Subset
  <2> QED BY <1>0, <2>2, FS_CardinalityType
<1>3. ASSUME NEW n \in Nat \ {0}
      PROVE  Count(path, n, names) = Count(path, n - 1, names) + IF path[n] \in names THEN 1 ELSE 0
  <2>1. n - 1 \in Nat /\ n \in Nat /\ n \notin Those(n - 1) OBVIOUS
  <2>2. CASE path[n] \in names
    <3>1. Those(n) = Those(n - 1) \union {n} BY <2>1, <2>2
    <3>2. Cardinality(Those(n)) = Cardinality(Those(n - 1)) + 1
      <4>1. IsFiniteSet(Those(n - 1)) BY <1>2, <2>1
      <4> HIDE DEF Those
      <4> QED BY <2>1, <3>1, <4>1, FS_AddElement
    <3> QED BY <1>0, <2>2, <3>2
  <2>3. CASE path[n] \notin names
    <3>1. Those(n) = Those(n - 1) BY <2>1, <2>3
    <3>2. Count(path, n - 1, names) \in Nat BY <1>2, <2>1
    <3>3. Count(path, n, names) = Count(path, n - 1, names) BY <1>0, <3>1
    <3> QED BY <2>3, <3>2, <3>3
  <2> QED BY <2>2, <2>3
<1> QED BY <1>1, <1>2, <1>3

\* A path that does not lead out climbs no further than it came.
LEMMA NoClimb ==
  ASSUME NEW S, NEW front \in Seq(S \ Special), NEW path \in Seq(S),
         Docs!Normalize(front \o path).ok, NEW n \in 0 .. Len(path)
  PROVE  2 * Count(path, n, {".."}) + Count(path, n, {"."}) <= n + Len(front)
<1> DEFINE full == front \o path
           start == Len(front)
           length == Len(path)
           ups(k) == Count(path, k, {".."})
           stays(k) == Count(path, k, {"."})
<1>1. /\ front \in Seq(S) /\ full \in Seq(S) /\ start \in Nat /\ length \in Nat
      /\ Len(full) = start + length
  OBVIOUS
<1>2. /\ \A k \in 1 .. start : full[k] = front[k] /\ full[k] \notin Special
      /\ \A k \in 1 .. length : full[start + k] = path[k]
  <2> DEFINE Clean == S \ Special
  <2>1. front \in Seq(Clean) OBVIOUS
  <2> HIDE DEF Clean
  <2>2. \A k \in 1 .. start : full[k] = front[k] /\ front[k] \in Clean BY <2>1
  <2>3. \A k \in 1 .. length : full[start + k] = path[k] OBVIOUS
  <2> QED BY <2>2, <2>3 DEF Clean
<1> HIDE DEF full, start, length, ups, stays
<1>3. PICK walk \in [0 .. Len(full) -> Walks(S)] :
        /\ walk[0] = Docs!Found(<<>>)
        /\ \A k \in 1 .. Len(full) : walk[k] = Walked(walk[k - 1], full[k])
        /\ Docs!Normalize(full) = walk[Len(full)]
  BY <1>1, NormalWalk
<1>4. \A k \in 0 .. Len(full) : walk[k].ok
  <2> SUFFICES ASSUME NEW k \in 0 .. Len(full), ~ walk[k].ok PROVE FALSE OBVIOUS
  <2> DEFINE Failed == {l \in k .. Len(full) : ~ walk[l].ok}
  <2>1. k \in Nat /\ Len(full) \in Nat BY <1>1
  <2>2. k \in Failed BY <2>1
  <2>3. \A l \in k + 1 .. Len(full) : l - 1 \in Failed => l \in Failed
    <3> SUFFICES ASSUME NEW l \in k + 1 .. Len(full), l - 1 \in Failed PROVE l \in Failed OBVIOUS
    <3>1. l \in 1 .. Len(full) /\ l \in k .. Len(full) BY <2>1
    <3>2. walk[l] = Docs!Refused BY <1>3, <3>1 DEF Walked
    <3> QED BY <3>1, <3>2 DEF Docs!Refused
  <2>4. \A l \in k .. Len(full) : l \in Failed
    <3> HIDE DEF Failed
    <3> QED BY <2>1, <2>2, <2>3, Upward
  <2>5. Len(full) \in k .. Len(full) BY <2>1
  <2>6. ~ walk[Len(full)].ok BY <2>4, <2>5
  <2> QED BY <1>3, <2>6 DEF full
<1>5. ASSUME NEW k \in 1 .. Len(full)
      PROVE  /\ walk[k - 1].value \in Seq(S) /\ walk[k].value \in Seq(S)
             /\ Len(walk[k].value) =
                  IF full[k] = "." THEN Len(walk[k - 1].value)
                  ELSE IF full[k] = ".." THEN Len(walk[k - 1].value) - 1
                  ELSE Len(walk[k - 1].value) + 1
  <2>1. k - 1 \in 0 .. Len(full) /\ k \in 0 .. Len(full) BY <1>1
  <2>2. \A l \in 0 .. Len(full) : \E v \in Seq(S) : walk[l] = Docs!Found(v)
    <3> SUFFICES ASSUME NEW l \in 0 .. Len(full) PROVE \E v \in Seq(S) : walk[l] = Docs!Found(v)
      OBVIOUS
    <3>1. walk[l] \in Walks(S) /\ walk[l] # Docs!Refused BY <1>3, <1>4 DEF Docs!Refused
    <3>2. PICK v \in Seq(S \ Special) : walk[l] = Docs!Found(v) BY <3>1 DEF Walks
    <3>3. v \in Seq(S) OBVIOUS
    <3> QED BY <3>2, <3>3
  <2>3. PICK u \in Seq(S) : walk[k - 1] = Docs!Found(u) BY <2>1, <2>2
  <2>4. PICK v \in Seq(S) : walk[k] = Docs!Found(v) BY <2>1, <2>2
  <2>5. walk[k - 1].ok = TRUE /\ walk[k - 1].value = u /\ walk[k].ok = TRUE /\ walk[k].value = v
    BY <2>3, <2>4 DEF Docs!Found
  <2>6. walk[k] = Walked(walk[k - 1], full[k]) BY <1>3
  <2>7. CASE full[k] = "."
    <3>1. walk[k] = walk[k - 1]
      BY <2>5, <2>6, <2>7 DEF Walked, Docs!Refused
    <3> QED BY <2>5, <2>7, <3>1
  <2>8. CASE full[k] = ".."
    <3>1. walk[k] = Docs!Up(u) BY <2>5, <2>6, <2>8 DEF Walked
    <3>2. u # <<>> /\ v = Docs!Front(u)
      BY <2>5, <3>1 DEF Docs!Up, Docs!Refused, Docs!Found
    <3>3. Len(u) \in Nat /\ Len(u) # 0 BY <3>2
    <3>4. v = SubSeq(u, 1, Len(u) - 1) BY <3>2 DEF Docs!Front
    <3>5. Len(v) = Len(u) - 1
      <4>1. \A m \in 1 .. Len(u) : Len(SubSeq(u, 1, m - 1)) = m - 1 OBVIOUS
      <4>2. Len(u) \in 1 .. Len(u) BY <3>3
      <4> QED BY <3>4, <4>1, <4>2
    <3> QED BY <2>5, <2>8, <3>5
  <2>9. CASE full[k] \notin {".", ".."}
    <3>1. v = Append(u, full[k])
      BY <2>5, <2>6, <2>9 DEF Walked, Docs!Refused, Docs!Found
    <3>2. Len(v) = Len(u) + 1 BY <3>1
    <3> QED BY <2>5, <2>9, <3>2
  <2> QED BY <2>7, <2>8, <2>9
<1> DEFINE Depth(k) == Len(walk[k].value)
<1>6. Depth(start) = start
  <2> DEFINE Right == {k \in 0 .. start : Depth(k) = k}
  <2>1. 0 \in Right BY <1>1, <1>3 DEF Docs!Found
  <2>2. ASSUME NEW k \in 1 .. start, k - 1 \in Right PROVE k \in Right
    <3>1. k \in 1 .. Len(full) /\ full[k] \notin Special BY <1>1, <1>2
    <3>2. Depth(k) = Depth(k - 1) + 1 BY <1>5, <3>1 DEF Special
    <3> QED BY <1>1, <2>2, <3>2
  <2>3. \A k \in 0 .. start : k \in Right
    <3>1. \A k \in 0 + 1 .. start : k - 1 \in Right => k \in Right BY <2>2
    <3> HIDE DEF Right
    <3> QED BY <1>1, <2>1, <3>1, Upward
  <2> QED BY <1>1, <2>3
<1>7. Depth(start + n) = start + n - 2 * ups(n) - stays(n)
  <2> DEFINE Right == {k \in 0 .. length : Depth(start + k) = start + k - 2 * ups(k) - stays(k)}
  <2>1. 0 \in Right
    <3>1. ups(0) = 0 /\ stays(0) = 0 BY Counting DEF ups, stays
    <3> HIDE DEF Depth
    <3> QED BY <1>1, <1>6, <3>1
  <2>2. ASSUME NEW k \in 1 .. length, k - 1 \in Right PROVE k \in Right
    <3>1. start + k \in 1 .. Len(full) /\ full[start + k] = path[k] BY <1>1, <1>2
    <3>2. start + (k - 1) = start + k - 1 /\ k \in Nat \ {0} /\ k - 1 \in Nat BY <1>1
    <3>3. Depth(start + k - 1) \in Nat BY <1>5, <3>1
    <3>4. Depth(start + k) = IF path[k] = "." THEN Depth(start + k - 1)
                             ELSE IF path[k] = ".." THEN Depth(start + k - 1) - 1
                             ELSE Depth(start + k - 1) + 1
      <4>1. \A l \in 1 .. Len(full) :
              Depth(l) = IF full[l] = "." THEN Depth(l - 1)
                         ELSE IF full[l] = ".." THEN Depth(l - 1) - 1 ELSE Depth(l - 1) + 1
        BY <1>5
      <4> HIDE DEF Depth
      <4>2. Depth(start + k) = IF full[start + k] = "." THEN Depth((start + k) - 1)
                               ELSE IF full[start + k] = ".." THEN Depth((start + k) - 1) - 1
                               ELSE Depth((start + k) - 1) + 1
        BY <3>1, <4>1, Zenon
      <4>3. full[start + k] = path[k] BY <3>1
      <4>4. (start + k) - 1 = start + k - 1 BY <1>1
      <4> QED BY <4>2, <4>3, <4>4, Zenon
    <3> HIDE DEF Depth
    <3>5. ups(k) = ups(k - 1) + (IF path[k] = ".." THEN 1 ELSE 0) /\ ups(k - 1) \in Nat
      <4> DEFINE names == {".."}
      <4> HIDE DEF names
      <4>1. /\ \A l \in Nat : Count(path, l, names) \in Nat
            /\ \A l \in Nat \ {0} :
                 Count(path, l, names) = Count(path, l - 1, names) + IF path[l] \in names THEN 1 ELSE 0
        BY Counting
      <4> QED BY <3>2, <4>1 DEF ups, names
    <3>6. stays(k) = stays(k - 1) + (IF path[k] = "." THEN 1 ELSE 0) /\ stays(k - 1) \in Nat
      <4> DEFINE names == {"."}
      <4> HIDE DEF names
      <4>1. /\ \A l \in Nat : Count(path, l, names) \in Nat
            /\ \A l \in Nat \ {0} :
                 Count(path, l, names) = Count(path, l - 1, names) + IF path[l] \in names THEN 1 ELSE 0
        BY Counting
      <4> QED BY <3>2, <4>1 DEF stays, names
    <3>7. Depth(start + k - 1) = start + (k - 1) - 2 * ups(k - 1) - stays(k - 1) BY <2>2, <3>2
    <3>8. Depth(start + k) = start + k - 2 * ups(k) - stays(k)
      <4>1. CASE path[k] = "."
        <5>1. Depth(start + k) = Depth(start + k - 1) /\ ups(k) = ups(k - 1) /\ stays(k) = stays(k - 1) + 1
          BY <3>4, <3>5, <3>6, <4>1
        <5> QED BY <1>1, <3>5, <3>6, <3>7, <5>1, SMTT(20)
      <4>2. CASE path[k] = ".."
        <5>1. Depth(start + k) = Depth(start + k - 1) - 1 /\ ups(k) = ups(k - 1) + 1 /\ stays(k) = stays(k - 1)
          BY <3>4, <3>5, <3>6, <4>2
        <5> QED BY <1>1, <3>5, <3>6, <3>7, <5>1, SMTT(20)
      <4>3. CASE path[k] \notin {".", ".."}
        <5>1. Depth(start + k) = Depth(start + k - 1) + 1 /\ ups(k) = ups(k - 1) /\ stays(k) = stays(k - 1)
          BY <3>4, <3>5, <3>6, <4>3
        <5> QED BY <1>1, <3>5, <3>6, <3>7, <5>1, SMTT(20)
      <4> QED BY <4>1, <4>2, <4>3
    <3> QED BY <1>1, <3>8
  <2>3. \A k \in 0 .. length : k \in Right
    <3>1. \A k \in 0 + 1 .. length : k - 1 \in Right => k \in Right BY <2>2
    <3> HIDE DEF Right
    <3> QED BY <1>1, <2>1, <3>1, Upward
  <2> QED BY <2>3 DEF length
<1>8. Depth(start + n) \in Nat
  <2>1. n \in 0 .. length BY DEF length
  <2>2. CASE start + n = 0 BY <1>1, <1>3, <2>2 DEF Docs!Found
  <2>3. CASE start + n # 0
    <3>1. start + n \in 1 .. Len(full) BY <1>1, <2>1, <2>3
    <3> QED BY <1>5, <3>1
  <2> QED BY <2>2, <2>3
<1>9. n \in Nat BY <1>1 DEF length
<1>10. ups(n) \in Nat /\ stays(n) \in Nat BY <1>9, Counting DEF ups, stays
<1> HIDE DEF Depth
<1>11. 2 * ups(n) + stays(n) <= n + start BY <1>1, <1>7, <1>8, <1>9, <1>10
<1> QED BY <1>11 DEF ups, stays, start

\* What a path is normalised to has names only.
LEMMA NormalIsClean ==
  ASSUME NEW S, NEW path \in Seq(S), Docs!Normalize(path).ok
  PROVE  Docs!Normalize(path).value \in Seq(S \ Special)
<1>1. PICK walk \in [0 .. Len(path) -> Walks(S)] : Docs!Normalize(path) = walk[Len(path)]
  BY NormalWalk
<1>2. Len(path) \in 0 .. Len(path) OBVIOUS
<1>3. Docs!Normalize(path) \in Walks(S) BY <1>1, <1>2
<1>4. Docs!Normalize(path) # Docs!Refused BY DEF Docs!Refused
<1>5. PICK v \in Seq(S \ Special) : Docs!Normalize(path) = Docs!Found(v) BY <1>3, <1>4 DEF Walks
<1> QED BY <1>5 DEF Docs!Found

\* Where the whole path exists, it is the longest part that does, so what is
\* below the root is what is read (ensure_within_root).
LEMMA WholeIsLongest ==
  ASSUME NEW S, NEW fs, NEW path \in Seq(S), Docs!Canonical(fs, path).ok
  PROVE  Docs!StaysWithin(fs, path) = Docs!Within(Docs!Canonical(fs, path).value, Docs!Root)
<1> DEFINE existing == {n \in 0 .. Len(path) : Docs!Canonical(fs, Docs!Prefix(n, path)).ok}
           longest == CHOOSE n \in existing : \A m \in existing : m <= n
<1>1. Len(path) \in Nat /\ Docs!Prefix(Len(path), path) = path BY DEF Docs!Prefix
<1>2. Len(path) \in existing BY <1>1
<1>3. longest = Len(path)
  <2>1. \A n \in existing : n \in Nat /\ n <= Len(path) BY <1>1
  <2> HIDE DEF existing
  <2>2. longest \in existing /\ \A m \in existing : m <= longest BY <1>2, <2>1
  <2> HIDE DEF longest
  <2>3. longest \in Nat /\ longest <= Len(path) /\ Len(path) <= longest BY <1>2, <2>1, <2>2
  <2> QED BY <1>1, <2>3
<1>4. Docs!StaysWithin(fs, path) =
        Docs!Within(Docs!Canonical(fs, Docs!Prefix(longest, path)).value, Docs!Root)
  BY DEF Docs!StaysWithin
<1> HIDE DEF longest
<1> QED BY <1>1, <1>3, <1>4

\* Without links every path that exists is its own canonical form.
LEMMA Unlinked ==
  ASSUME NEW S, NEW fs, NEW path \in Seq(S),
         \A p \in DOMAIN fs : ~ Docs!IsLink(fs, p),
         \A p \in DOMAIN fs : p # <<>> => Docs!Front(p) \in DOMAIN fs
  PROVE  Docs!Canonical(fs, path) =
           IF path = <<>> \/ path \in DOMAIN fs THEN Docs!Found(path) ELSE Docs!Refused
<1> DEFINE length == Len(path)
           Part(n) == SubSeq(path, 1, n)
           Next(w, n) ==
             IF ~ w[n - 1].ok THEN Docs!Refused
             ELSE LET here == Append(w[n - 1].value, path[n]) IN
                    IF here \notin DOMAIN fs THEN Docs!Refused
                    ELSE IF ~ Docs!IsLink(fs, here) THEN Docs!Found(here)
                    ELSE IF fs[here].to \in DOMAIN fs THEN Docs!Found(fs[here].to) ELSE Docs!Refused
           Form(n) == IF n = 0 \/ Part(n) \in DOMAIN fs THEN Docs!Found(Part(n)) ELSE Docs!Refused
           WalkOf(w) == w = [n \in 0 .. length |-> IF n = 0 THEN Docs!Found(<<>>) ELSE Next(w, n)]
           chosen == CHOOSE w : WalkOf(w)
           plain == [n \in 0 .. length |-> Form(n)]
<1>1. /\ length \in Nat /\ Part(0) = <<>> /\ Part(length) = path
      /\ \A n \in 1 .. length : Part(n) = Append(Part(n - 1), path[n])
  OBVIOUS
<1>2. ASSUME NEW n \in 1 .. length
      PROVE  Part(n) # <<>> /\ Docs!Front(Part(n)) = Part(n - 1)
  <2>1. Part(n - 1) \in Seq(S) /\ path[n] \in S BY <1>1
  <2>2. Part(n) = Append(Part(n - 1), path[n]) BY <1>1
  <2> HIDE DEF Part
  <2> QED BY <2>1, <2>2 DEF Docs!Front
<1> HIDE DEF Part
\* One component more: it exists only below what exists.
<1>3. ASSUME NEW w, NEW n \in 1 .. length, w[n - 1] = Form(n - 1) PROVE Next(w, n) = Form(n)
  <2>1. n # 0 /\ Part(n) = Append(Part(n - 1), path[n]) BY <1>1
  <2>2. Part(n) \in DOMAIN fs => Part(n - 1) \in DOMAIN fs BY <1>2
  <2>3. CASE n - 1 = 0 \/ Part(n - 1) \in DOMAIN fs
    <3>1. w[n - 1].ok = TRUE /\ w[n - 1].value = Part(n - 1) BY <1>3, <2>3 DEF Docs!Found
    <3> QED BY <2>1, <3>1
  <2>4. CASE ~ (n - 1 = 0 \/ Part(n - 1) \in DOMAIN fs)
    <3>1. ~ w[n - 1].ok BY <1>3, <2>4 DEF Docs!Refused
    <3> QED BY <2>1, <2>2, <2>4, <3>1
  <2> QED BY <2>3, <2>4
<1>4. Form(0) = Docs!Found(<<>>) BY <1>1
<1> HIDE DEF Form, Next
<1>5. WalkOf(plain)
  <2>1. ASSUME NEW n \in 0 .. length
        PROVE  plain[n] = IF n = 0 THEN Docs!Found(<<>>) ELSE Next(plain, n)
    <3>1. CASE n = 0 BY <1>4, <3>1
    <3>2. CASE n # 0
      <4>1. n \in 1 .. length /\ n - 1 \in 0 .. length BY <1>1, <3>2
      <4>2. plain[n - 1] = Form(n - 1) /\ plain[n] = Form(n) BY <4>1
      <4> HIDE DEF plain
      <4>3. Next(plain, n) = Form(n) BY <1>3, <4>1, <4>2
      <4> QED BY <3>2, <4>2, <4>3
    <3> QED BY <3>1, <3>2
  <2>2. plain = [n \in 0 .. length |-> plain[n]] OBVIOUS
  <2> HIDE DEF plain
  <2> QED BY <2>1, <2>2
<1>6. Docs!Canonical(fs, path) = chosen[length] BY DEF Docs!Canonical, Next
<1> HIDE DEF chosen, plain, length
<1>7. WalkOf(chosen) BY <1>5 DEF chosen
<1>8. \A n \in 0 .. length : chosen[n] = IF n = 0 THEN Docs!Found(<<>>) ELSE Next(chosen, n)
  BY <1>7, Zenon
<1> DEFINE Right == {n \in 0 .. length : chosen[n] = Form(n)}
<1>9. 0 \in Right BY <1>1, <1>4, <1>8
<1>10. ASSUME NEW n \in 1 .. length, n - 1 \in Right PROVE n \in Right
  <2>1. n \in 0 .. length /\ n # 0 BY <1>1
  <2>2. Next(chosen, n) = Form(n) BY <1>3, <1>10
  <2> QED BY <1>8, <2>1, <2>2
<1>11. \A n \in 0 .. length : n \in Right
  <2>1. \A n \in 0 + 1 .. length : n - 1 \in Right => n \in Right BY <1>10
  <2> HIDE DEF Right
  <2> QED BY <1>1, <1>9, <2>1, Upward
<1>12. length \in 0 .. length BY <1>1
<1>13. chosen[length] = Form(length) BY <1>11, <1>12
<1>14. length = 0 <=> path = <<>> BY DEF length
<1> QED BY <1>1, <1>6, <1>13, <1>14 DEF Form

\* What is resolved is a name in the library, or nothing is.
LEMMA Resolved ==
  ASSUME NEW S, NEW document \in Seq(S \ Special), document # <<>>,
         NEW reference \in [external : BOOLEAN, path : Seq(S), hashes : Nat],
         Docs!Resolve(document, reference).ok
  PROVE  /\ Docs!Resolve(document, reference).value.document \in Seq(S \ Special)
         /\ \/ reference.external
            \/ reference.path = <<>>
            \/ Docs!Normalize(Docs!Front(document) \o reference.path).ok
<1> DEFINE Clean == S \ Special
           full == Docs!Front(document) \o reference.path
           local == Docs!Normalize(full)
           anchor == reference.hashes - 1
           Document(path) == IF reference.hashes > 0 THEN Docs!Found(Docs!Target("anchor", path, anchor))
                             ELSE Docs!Found(Docs!Target("document", path, 0))
<1>1. \A path : Document(path).value.document = path BY DEF Docs!Found, Docs!Target
<1>2. Docs!Found(Docs!Target("external", <<>>, 0)).value.document = <<>>
      /\ Docs!Found(Docs!Target("asset", local.value, 0)).value.document = local.value
  BY DEF Docs!Found, Docs!Target
<1>3. ~ Docs!Refused.ok BY DEF Docs!Refused
<1>4. full \in Seq(S)
  <2>1. document \in Seq(S) OBVIOUS
  <2>2. Docs!Front(document) \in Seq(S) BY <2>1 DEF Docs!Front
  <2> QED BY <2>2
<1>5. local.ok => local.value \in Seq(S \ Special)
  <2> HIDE DEF full
  <2> QED BY <1>4, NormalIsClean
<1>6. <<>> \in Seq(S \ Special) OBVIOUS
<1>7. Docs!Resolve(document, reference) =
        IF reference.external THEN Docs!Found(Docs!Target("external", <<>>, 0))
        ELSE IF reference.path = <<>> THEN Document(document)
        ELSE IF reference.path[1] = "/" \/ ~local.ok THEN Docs!Refused
        ELSE IF local.value # <<>> /\ Docs!LastOf(local.value) \in Docs!MarkdownNames THEN Document(local.value)
        ELSE IF reference.hashes > 0 THEN Docs!Refused ELSE Docs!Found(Docs!Target("asset", local.value, 0))
  BY DEF Docs!Resolve
<1> HIDE DEF Document, local
<1>8. CASE reference.external BY <1>2, <1>6, <1>7, <1>8
<1>9. CASE ~ reference.external /\ reference.path = <<>> BY <1>1, <1>7, <1>9
<1>10. CASE ~ reference.external /\ reference.path # <<>>
  <2>1. local.ok BY <1>3, <1>7, <1>10
  <2>2. Docs!Resolve(document, reference).value.document = local.value
    BY <1>1, <1>2, <1>3, <1>7, <1>10
  <2> QED BY <1>5, <2>1, <2>2 DEF local
<1> QED BY <1>8, <1>9, <1>10

\* A name in the library is looked up as it is, below the root.
LEMMA NamedInside ==
  ASSUME NEW S, NEW fs, NEW name \in Seq(S \ Special), "library" \in S
  PROVE  /\ Docs!Namespaced(name) = Docs!Found(name)
         /\ Docs!Root \o name \in Seq(S)
         /\ Docs!ReadFile(fs, name) =
              LET real == Docs!Canonical(fs, Docs!Root \o name) IN
                IF real.ok /\ Docs!Within(real.value, Docs!Root) /\ Docs!IsFile(fs, real.value)
                THEN real ELSE Docs!Refused
<1> DEFINE Clean == S \ Special
           whole == Docs!Root \o name
           real == Docs!Canonical(fs, whole)
<1>1. name # <<>> => name[1] # "/"
  <2>1. name # <<>> => name[1] \in Clean
    <3> HIDE DEF Clean
    <3>1. name \in Seq(Clean) BY DEF Clean
    <3> QED BY <3>1
  <2> QED BY <2>1 DEF Special
<1>2. Docs!Normalize(name) = Docs!Found(name) BY CleanIsNormal
<1>3. Docs!Namespaced(name) = Docs!Found(name) BY <1>1, <1>2 DEF Docs!Namespaced
<1>4. whole \in Seq(S)
  <2>1. name \in Seq(S) OBVIOUS
  <2> QED BY <2>1 DEF Docs!Root
<1>5. Docs!Found(name).ok = TRUE /\ Docs!Found(name).value = name BY DEF Docs!Found
<1>6. Docs!ReadFile(fs, name) =
        IF Docs!StaysWithin(fs, whole) /\ real.ok /\ Docs!IsFile(fs, real.value)
        THEN real ELSE Docs!Refused
  BY <1>3, <1>5 DEF Docs!ReadFile
<1>7. real.ok => Docs!StaysWithin(fs, whole) = Docs!Within(real.value, Docs!Root)
  <2> HIDE DEF whole
  <2> QED BY <1>4, WholeIsLongest
<1> HIDE DEF real
<1>8. Docs!ReadFile(fs, name) =
        IF real.ok /\ Docs!Within(real.value, Docs!Root) /\ Docs!IsFile(fs, real.value)
        THEN real ELSE Docs!Refused
  <2>1. CASE real.ok BY <1>6, <1>7, <2>1
  <2>2. CASE ~ real.ok BY <1>6, <2>2
  <2> QED BY <2>1, <2>2
<1> QED BY <1>3, <1>4, <1>8 DEF real

\* The library's files, by the names the browser has for them.
FilesOf(fs) == {SubSeq(p, Len(Docs!Root) + 1, Len(p)) :
                  p \in {q \in DOMAIN fs : Docs!Within(q, Docs!Root) /\ Docs!IsFile(fs, q)}}

\* A name leads below the root, and is that of a file exactly when it does to one.
LEMMA FilesByName ==
  ASSUME NEW S, "library" \in S, NEW fs, DOMAIN fs \subseteq Seq(S), NEW name \in Seq(S)
  PROVE  /\ Docs!Within(Docs!Root \o name, Docs!Root)
         /\ name \in FilesOf(fs) <=>
              Docs!Root \o name \in DOMAIN fs /\ Docs!IsFile(fs, Docs!Root \o name)
<1> DEFINE Whole(rest) == <<"library">> \o rest
<1>1. ASSUME NEW rest \in Seq(S)
      PROVE  /\ Whole(rest) \in Seq(S) /\ Len(Whole(rest)) = Len(rest) + 1 /\ Len(rest) \in Nat
             /\ Whole(rest)[1] = "library"
             /\ \A n \in 1 .. Len(rest) : Whole(rest)[n + 1] = rest[n]
  OBVIOUS
<1>2. ASSUME NEW path \in Seq(S), Len(path) >= 1
      PROVE  /\ SubSeq(path, 1, 1) = <<"library">> <=> path[1] = "library"
             /\ SubSeq(path, 2, Len(path)) \in Seq(S)
             /\ Len(SubSeq(path, 2, Len(path))) = Len(path) - 1
             /\ \A n \in 1 .. Len(path) - 1 : SubSeq(path, 2, Len(path))[n] = path[n + 1]
  <2>1. Len(path) \in Nat /\ \A n \in 1 .. Len(path) : path[n] \in S OBVIOUS
  <2>2. SubSeq(path, 1, 1) = <<"library">> <=> path[1] = "library"
    <3>1. \A n \in 1 .. 1 : path[n] \in S BY <1>2, <2>1
    <3>2. /\ SubSeq(path, 1, 1) \in Seq(S) /\ Len(SubSeq(path, 1, 1)) = 1
          /\ SubSeq(path, 1, 1)[1] = path[1]
      BY <3>1, SubSeqProperties
    <3>3. <<"library">> \in Seq(S) /\ Len(<<"library">>) = 1 /\ <<"library">>[1] = "library"
      OBVIOUS
    <3>4. path[1] = "library" => \A n \in 1 .. 1 : SubSeq(path, 1, 1)[n] = <<"library">>[n]
      BY <3>2, <3>3
    <3> QED BY <3>2, <3>3, <3>4, SeqEqual
  <2>3. \A n \in 2 .. Len(path) : path[n] \in S BY <2>1
  <2> DEFINE rest == SubSeq(path, 2, Len(path))
  <2>4. /\ rest \in Seq(S)
        /\ Len(rest) = IF 2 <= Len(path) THEN Len(path) - 2 + 1 ELSE 0
        /\ \A n \in 1 .. Len(path) - 2 + 1 : rest[n] = path[2 + n - 1]
    BY <2>1, <2>3, SubSeqProperties
  <2> HIDE DEF rest
  <2>5. Len(rest) = Len(path) - 1
    <3>1. CASE Len(path) = 1 BY <2>4, <3>1
    <3>2. CASE Len(path) # 1
      <4>1. 2 <= Len(path)
        <5>1. \A n \in Nat : n >= 1 /\ n # 1 => 2 <= n OBVIOUS
        <5>2. Len(path) >= 1 BY <1>2
        <5> QED BY <2>1, <3>2, <5>1, <5>2
      <4> QED BY <2>1, <2>4, <4>1
    <3> QED BY <3>1, <3>2
  <2>6. \A n \in 1 .. Len(path) - 1 : rest[n] = path[n + 1]
    <3> SUFFICES ASSUME NEW n \in 1 .. Len(path) - 1 PROVE rest[n] = path[n + 1] OBVIOUS
    <3>1. n \in 1 .. Len(path) - 2 + 1 /\ 2 + n - 1 = n + 1 BY <2>1
    <3> QED BY <2>4, <3>1
  <2> QED BY <2>2, <2>4, <2>5, <2>6 DEF rest
<1>3. \A path : Docs!Within(path, Docs!Root) <=> Len(path) >= 1 /\ SubSeq(path, 1, 1) = <<"library">>
  BY DEF Docs!Root, Docs!Within, Docs!Prefix
<1> HIDE DEF Whole
<1>4. ASSUME NEW rest \in Seq(S)
      PROVE  Docs!Within(Whole(rest), Docs!Root) /\ SubSeq(Whole(rest), 2, Len(Whole(rest))) = rest
  <2>1. Len(Whole(rest)) >= 1 BY <1>1
  <2>2. Docs!Within(Whole(rest), Docs!Root) BY <1>1, <1>2, <1>3, <2>1
  <2> DEFINE back == SubSeq(Whole(rest), 2, Len(Whole(rest)))
  <2>3. back \in Seq(S) /\ Len(back) = Len(rest) BY <1>1, <1>2, <2>1
  <2>4. \A n \in 1 .. Len(rest) : back[n] = rest[n] BY <1>1, <1>2, <2>1
  <2> HIDE DEF back
  <2>5. back = rest BY <2>3, <2>4, SeqEqual
  <2> QED BY <2>2, <2>5 DEF back
<1>5. ASSUME NEW path \in Seq(S), Docs!Within(path, Docs!Root)
      PROVE  Whole(SubSeq(path, 2, Len(path))) = path
  <2> DEFINE rest == SubSeq(path, 2, Len(path))
  <2>1. Len(path) \in Nat /\ Len(path) >= 1 /\ path[1] = "library" BY <1>2, <1>3, <1>5
  <2>2. /\ rest \in Seq(S) /\ Len(rest) = Len(path) - 1
        /\ \A n \in 1 .. Len(path) - 1 : rest[n] = path[n + 1]
    BY <1>2, <2>1
  <2> HIDE DEF rest
  <2>3. Whole(rest) \in Seq(S) /\ Len(Whole(rest)) = Len(path) BY <1>1, <2>1, <2>2
  <2>4. \A n \in 1 .. Len(path) : Whole(rest)[n] = path[n]
    <3> SUFFICES ASSUME NEW n \in 1 .. Len(path) PROVE Whole(rest)[n] = path[n] OBVIOUS
    <3>1. CASE n = 1 BY <1>1, <2>1, <2>2, <3>1
    <3>2. CASE n # 1
      <4>1. PICK m \in 1 .. Len(path) - 1 : n = m + 1
        <5>1. n - 1 \in 1 .. Len(path) - 1 /\ n = (n - 1) + 1 BY <2>1, <3>2
        <5> QED BY <5>1
      <4> QED BY <1>1, <2>2, <4>1
    <3> QED BY <3>1, <3>2
  <2>5. Whole(rest) = path BY <2>3, <2>4, SeqEqual
  <2> QED BY <2>5 DEF rest
<1>6. Docs!Within(Whole(name), Docs!Root) BY <1>4
<1>7. /\ Docs!Root \o name = Whole(name) /\ Len(Docs!Root) + 1 = 2
  BY DEF Docs!Root, Whole
<1>8. name \in FilesOf(fs) <=> Whole(name) \in DOMAIN fs /\ Docs!IsFile(fs, Whole(name))
  <2>1. FilesOf(fs) = {SubSeq(p, 2, Len(p)) :
                         p \in {q \in DOMAIN fs : Docs!Within(q, Docs!Root) /\ Docs!IsFile(fs, q)}}
    BY <1>7 DEF FilesOf
  <2>2. ASSUME name \in FilesOf(fs)
        PROVE  Whole(name) \in DOMAIN fs /\ Docs!IsFile(fs, Whole(name))
    <3>1. PICK p \in DOMAIN fs : /\ Docs!Within(p, Docs!Root) /\ Docs!IsFile(fs, p)
                                 /\ name = SubSeq(p, 2, Len(p))
      BY <2>1, <2>2
    <3>2. Whole(name) = p BY <1>5, <3>1
    <3> QED BY <3>1, <3>2
  <2>3. ASSUME Whole(name) \in DOMAIN fs, Docs!IsFile(fs, Whole(name))
        PROVE  name \in FilesOf(fs)
    <3>1. name = SubSeq(Whole(name), 2, Len(Whole(name))) BY <1>4
    <3> QED BY <1>6, <2>1, <2>3, <3>1
  <2> QED BY <2>2, <2>3
<1> QED BY <1>6, <1>7, <1>8

\* The two clauses on what is read.
LEMMA ReadIsSound ==
  ASSUME NEW S, "library" \in S, NEW fs, DOMAIN fs \subseteq Seq(S),
         \A p \in DOMAIN fs : p # <<>> => Docs!Front(p) \in DOMAIN fs,
         NEW name \in Seq(S \ Special)
  PROVE  /\ Docs!ReadFile(fs, name).ok => Docs!Within(Docs!ReadFile(fs, name).value, Docs!Root)
         /\ (\A p \in DOMAIN fs : ~ Docs!IsLink(fs, p)) =>
              /\ Docs!ReadFile(fs, name).ok <=> Docs!ReadBrowser(FilesOf(fs), name).ok
              /\ Docs!ReadFile(fs, name).ok =>
                   Docs!ReadFile(fs, name).value = Docs!Root \o Docs!ReadBrowser(FilesOf(fs), name).value
<1> DEFINE whole == Docs!Root \o name
           real == Docs!Canonical(fs, whole)
           read == Docs!ReadFile(fs, name)
           browser == Docs!ReadBrowser(FilesOf(fs), name)
<1>1. ~ Docs!Refused.ok BY DEF Docs!Refused
<1>2. whole \in Seq(S) /\ read = IF real.ok /\ Docs!Within(real.value, Docs!Root) /\ Docs!IsFile(fs, real.value)
                                THEN real ELSE Docs!Refused
  BY NamedInside
<1>3. read.ok => Docs!Within(read.value, Docs!Root)
  <2> HIDE DEF read, real
  <2> QED BY <1>1, <1>2
<1>4. ASSUME \A p \in DOMAIN fs : ~ Docs!IsLink(fs, p)
      PROVE  (read.ok <=> browser.ok) /\ (read.ok => read.value = Docs!Root \o browser.value)
  <2>1. name \in Seq(S) OBVIOUS
  <2>2. /\ Docs!Within(whole, Docs!Root)
        /\ name \in FilesOf(fs) <=> whole \in DOMAIN fs /\ Docs!IsFile(fs, whole)
    BY <2>1, FilesByName
  <2>3. whole # <<>> BY <2>1 DEF Docs!Root
  <2>4. real = IF whole \in DOMAIN fs THEN Docs!Found(whole) ELSE Docs!Refused
    <3> HIDE DEF whole
    <3> QED BY <1>2, <1>4, <2>3, Unlinked
  <2>5. browser = IF name \in FilesOf(fs) THEN Docs!Found(name) ELSE Docs!Refused
    <3>1. Docs!Normalize(name) = Docs!Found(name) BY CleanIsNormal
    <3>2. Docs!Found(name).ok = TRUE /\ Docs!Found(name).value = name BY DEF Docs!Found
    <3> QED BY <3>1, <3>2 DEF Docs!ReadBrowser
  <2>6. CASE name \in FilesOf(fs)
    <3>1. real = Docs!Found(whole) /\ browser = Docs!Found(name) BY <2>2, <2>4, <2>5, <2>6
    <3>2. real.ok = TRUE /\ real.value = whole /\ browser.ok = TRUE /\ browser.value = name
      <4> HIDE DEF real, browser, whole
      <4> QED BY <3>1 DEF Docs!Found
    <3> HIDE DEF real, browser, read
    <3>3. read = real BY <1>2, <2>2, <2>6, <3>2
    <3> QED BY <3>2, <3>3
  <2>7. CASE name \notin FilesOf(fs)
    <3> HIDE DEF real, browser, read, whole
    <3>1. browser = Docs!Refused BY <2>5, <2>7
    <3>2. read = Docs!Refused
      <4>1. CASE whole \in DOMAIN fs
        <5>1. real = Docs!Found(whole) BY <2>4, <4>1
        <5>2. real.value = whole BY <5>1 DEF Docs!Found
        <5> QED BY <1>2, <2>2, <2>7, <4>1, <5>2
      <4>2. CASE whole \notin DOMAIN fs BY <1>1, <1>2, <2>4, <4>2
      <4> QED BY <4>1, <4>2
    <3> QED BY <1>1, <3>1, <3>2
  <2> QED BY <2>6, <2>7
<1> QED BY <1>3, <1>4

\* ReferenceIsSound, for any library with any links in it, any document of it
\* and any reference.  A path exists only if the directory it is in does.
THEOREM ReferenceSound ==
  ASSUME NEW S, "library" \in S, NEW fs, DOMAIN fs \subseteq Seq(S),
         \A p \in DOMAIN fs : p # <<>> => Docs!Front(p) \in DOMAIN fs,
         NEW document \in Seq(S \ Special), document # <<>>,
         NEW reference \in [external : BOOLEAN, path : Seq(S), hashes : Nat],
         reference.external => reference.path = <<>>
  PROVE  Docs!ReferenceIsSound(fs, document, reference)
<1> DEFINE resolved == Docs!Resolve(document, reference)
           touched == Docs!Activate(document, reference)
           name == resolved.value.document
           read == Docs!ReadFile(fs, name)
           browser == Docs!ReadBrowser(FilesOf(fs), name)
           climbs == \E n \in DOMAIN reference.path :
                       2 * Count(reference.path, n, {".."}) + Count(reference.path, n, {"."})
                         > n + Len(document) - 1
<1>1. resolved.ok => name \in Seq(S \ Special)
                     /\ (reference.path = <<>> \/ Docs!Normalize(Docs!Front(document) \o reference.path).ok)
  BY Resolved
<1>2. resolved.ok => \A n \in DOMAIN name : name[n] \notin {".", "..", "/"}
  <2> SUFFICES ASSUME resolved.ok PROVE \A n \in DOMAIN name : name[n] \notin {".", "..", "/"}
    OBVIOUS
  <2> DEFINE Clean == S \ Special
  <2> HIDE DEF name, resolved, Clean
  <2>1. \A n \in DOMAIN name : name[n] \in Clean BY <1>1 DEF Clean
  <2> QED BY <2>1 DEF Clean, Special
<1>3. resolved.ok => ~ climbs
  <2> SUFFICES ASSUME resolved.ok, NEW n \in DOMAIN reference.path
               PROVE ~ (2 * Count(reference.path, n, {".."}) + Count(reference.path, n, {"."})
                          > n + Len(document) - 1)
    OBVIOUS
  <2> DEFINE Clean == S \ Special
             front == Docs!Front(document)
  <2>1. n \in 0 .. Len(reference.path) /\ n \in Nat /\ reference.path # <<>> OBVIOUS
  <2>2. front \in Seq(S \ Special) /\ Len(front) = Len(document) - 1 /\ Len(document) \in Nat
    <3> HIDE DEF Clean
    <3>1. document \in Seq(Clean) BY DEF Clean
    <3>2. Len(document) \in Nat /\ Len(document) # 0 BY <3>1
    <3>3. \A m \in 1 .. Len(document) :
            SubSeq(document, 1, m - 1) \in Seq(Clean) /\ Len(SubSeq(document, 1, m - 1)) = m - 1
      BY <3>1
    <3>4. Len(document) \in 1 .. Len(document) BY <3>2
    <3>5. front \in Seq(Clean) /\ Len(front) = Len(document) - 1 BY <3>3, <3>4 DEF Docs!Front
    <3> QED BY <3>2, <3>5 DEF Clean
  <2>3. Docs!Normalize(front \o reference.path).ok BY <1>1, <2>1
  <2>4. reference.path \in Seq(S) OBVIOUS
  <2> HIDE DEF front
  <2>5. 2 * Count(reference.path, n, {".."}) + Count(reference.path, n, {"."}) <= n + Len(front)
    BY <2>1, <2>2, <2>3, <2>4, NoClimb
  <2>6. Count(reference.path, n, {".."}) \in Nat /\ Count(reference.path, n, {"."}) \in Nat
    BY <2>1, Counting
  <2> QED BY <2>1, <2>2, <2>5, <2>6
<1>4. touched.ok /\ touched.value.kind \in {"document", "anchor"} =>
        resolved.ok /\ resolved.value.kind = touched.value.kind
        /\ resolved.value.document = touched.value.document
  <2>1. CASE reference.path = <<>> /\ reference.hashes > 0 /\ ~reference.external
    <3>1. touched = Docs!Found(Docs!Target("anchor", document, 0)) BY <2>1 DEF Docs!Activate
    <3>2. resolved = Docs!Found(Docs!Target("anchor", document, reference.hashes - 1))
      BY <2>1 DEF Docs!Resolve
    <3> QED BY <3>1, <3>2 DEF Docs!Found, Docs!Target
  <2>2. CASE reference.external
    <3>1. touched = Docs!Found(Docs!Target("external", <<>>, 0)) BY <2>2 DEF Docs!Activate
    <3> QED BY <3>1 DEF Docs!Found, Docs!Target
  <2>3. CASE ~ (reference.path = <<>> /\ reference.hashes > 0 /\ ~reference.external)
             /\ ~ reference.external
    <3>1. touched = IF ~ Docs!NamedMarkdown(reference.path)
                    THEN Docs!Found(Docs!Target("asset", reference.path, 0))
                    ELSE IF resolved.ok /\ resolved.value.kind # "asset" THEN resolved ELSE Docs!Refused
      BY <2>3 DEF Docs!Activate
    <3> HIDE DEF touched, resolved
    <3>2. Docs!Found(Docs!Target("asset", reference.path, 0)).value.kind = "asset"
      BY DEF Docs!Found, Docs!Target
    <3>3. ~ Docs!Refused.ok BY DEF Docs!Refused
    <3> QED BY <3>1, <3>2, <3>3
  <2> QED BY <2>1, <2>2, <2>3
<1>5. resolved.ok =>
        /\ read.ok => Docs!Within(read.value, Docs!Root)
        /\ (\A p \in DOMAIN fs : ~ Docs!IsLink(fs, p)) =>
             (read.ok <=> browser.ok) /\ (read.ok => read.value = Docs!Root \o browser.value)
  <2> SUFFICES ASSUME resolved.ok
               PROVE /\ read.ok => Docs!Within(read.value, Docs!Root)
                     /\ (\A p \in DOMAIN fs : ~ Docs!IsLink(fs, p)) =>
                          (read.ok <=> browser.ok) /\ (read.ok => read.value = Docs!Root \o browser.value)
    OBVIOUS
  <2>1. name \in Seq(S \ Special) BY <1>1
  <2> HIDE DEF name
  <2> QED BY <2>1, ReadIsSound
<1>6. Docs!ReferenceIsSound(fs, document, reference) <=>
        /\ resolved.ok => \A n \in DOMAIN name : name[n] \notin {".", "..", "/"}
        /\ resolved.ok => ~climbs
        /\ touched.ok /\ touched.value.kind \in {"document", "anchor"} =>
             resolved.ok /\ resolved.value.kind = touched.value.kind
             /\ resolved.value.document = touched.value.document
        /\ resolved.ok /\ read.ok => Docs!Within(read.value, Docs!Root)
        /\ resolved.ok /\ (\A p \in DOMAIN fs : ~ Docs!IsLink(fs, p)) =>
             /\ read.ok <=> browser.ok
             /\ read.ok => read.value = Docs!Root \o browser.value
  BY DEF Docs!ReferenceIsSound, FilesOf, Count
<1> HIDE DEF resolved, touched, name, read, browser, climbs
<1> QED BY <1>2, <1>3, <1>4, <1>5, <1>6

-----------------------------------------------------------------------------
(* The size of an image (Resources).                                       *)

\* Division rounds down.
LEMMA Quotient ==
  ASSUME NEW a \in Nat, NEW b \in Nat, b >= 1
  PROVE  /\ a \div b \in Nat
         /\ (a \div b) * b <= a /\ a < (a \div b) * b + b
<1>1. a \div b \in Int /\ (a \div b) * b <= a /\ a < (a \div b) * b + b OBVIOUS
<1>2. a \div b >= 0 OBVIOUS
<1> QED BY <1>1, <1>2

\* A product with a larger factor is larger.
LEMMA Products ==
  ASSUME NEW a \in Nat, NEW b \in Nat, NEW c \in Nat, a <= b
  PROVE  a * c <= b * c /\ c * a <= c * b
OBVIOUS

\* And the other way round.
LEMMA Factors ==
  ASSUME NEW a \in Nat, NEW b \in Nat, NEW c \in Nat, a * c < b * c
  PROVE  a < b
<1>1. ASSUME b <= a PROVE FALSE
  <2>1. b * c <= a * c BY <1>1, Products
  <2>2. a * c \in Nat /\ b * c \in Nat OBVIOUS
  <2> QED BY <2>1, <2>2
<1> QED BY <1>1

\* FitIsSound, for images and boxes of any size.
THEOREM FitSound ==
  ASSUME NEW width \in Nat \ {0}, NEW height \in Nat \ {0},
         NEW maxWidth \in Nat, NEW maxHeight \in Nat
  PROVE  Docs!FitIsSound(width, height, maxWidth, maxHeight)
<1> DEFINE w == Docs!AtLeastOne(maxWidth)
           h == Docs!AtLeastOne(maxHeight)
           q == (height * w) \div width
           p == (width * h) \div height
           lh == Docs!AtLeastOne(q)
           lw == Docs!AtLeastOne(p)
           fit == Docs!Fitted(width, height, maxWidth, maxHeight)
           Sound(f) ==
             /\ f[1] \in 1 .. w /\ f[2] \in 1 .. h /\ f[1] <= width /\ f[2] <= height
             /\ f = <<width, height>> \/ f[1] = w \/ f[2] = h
             /\ f = <<width, height>> \/ 1 \in {f[1], f[2]}
                \/ \/ f[2] * width <= height * f[1] /\ height * f[1] < (f[2] + 1) * width
                   \/ f[1] * height <= width * f[2] /\ width * f[2] < (f[1] + 1) * height
<1>1. width \in Nat /\ width >= 1 /\ height \in Nat /\ height >= 1 OBVIOUS
<1>2. w \in Nat /\ w >= 1 /\ h \in Nat /\ h >= 1 BY DEF Docs!AtLeastOne
<1>3. Docs!AtLeastOne(width) = width /\ Docs!AtLeastOne(height) = height
  BY <1>1 DEF Docs!AtLeastOne
<1>4. fit = IF width <= w /\ height <= h THEN <<width, height>>
            ELSE IF lh <= h THEN <<w, lh>> ELSE <<lw, h>>
  BY <1>3 DEF Docs!Fitted
<1>5. Docs!FitIsSound(width, height, maxWidth, maxHeight) <=> Sound(fit)
  BY DEF Docs!FitIsSound
<1> SUFFICES Sound(fit) BY <1>5
<1> HIDE DEF w, h, fit
<1>6. height * w \in Nat /\ width * h \in Nat BY <1>1, <1>2
<1>7. q \in Nat /\ q * width <= height * w /\ height * w < q * width + width
  BY <1>1, <1>6, Quotient
<1>8. p \in Nat /\ p * height <= width * h /\ width * h < p * height + height
  BY <1>1, <1>6, Quotient
<1>9. lh = (IF q = 0 THEN 1 ELSE q) /\ lw = (IF p = 0 THEN 1 ELSE p) BY DEF Docs!AtLeastOne
<1> HIDE DEF q, p, lh, lw
<1>10. lh \in Nat /\ lh >= 1 /\ lw \in Nat /\ lw >= 1 BY <1>7, <1>8, <1>9
<1>11. /\ q * width \in Nat /\ p * height \in Nat
       /\ (q + 1) * width = q * width + width /\ (p + 1) * height = p * height + height
  BY <1>1, <1>7, <1>8
<1>12. /\ height * w = w * height /\ width * h = h * width
       /\ height * width = width * height /\ width * height \in Nat
       /\ w * height \in Nat /\ h * width \in Nat
  BY <1>1, <1>2
<1>13. CASE width <= w /\ height <= h
  <2>1. fit = <<width, height>> BY <1>4, <1>13
  <2> QED BY <1>1, <1>2, <1>13, <2>1
<1>14. CASE ~ (width <= w /\ height <= h) /\ lh <= h
  <2>1. fit = <<w, lh>> BY <1>4, <1>14
  <2>2. w <= width
    <3> SUFFICES ASSUME width < w PROVE FALSE BY <1>1, <1>2
    <3>1. h < height BY <1>1, <1>2, <1>14
    <3>2. width * height <= w * height BY <1>1, <1>2, Products
    <3>3. height * width < (q + 1) * width
      BY <1>7, <1>11, <1>12, <3>2
    <3>4. height < q + 1 BY <1>1, <1>7, <3>3, Factors
    <3> QED BY <1>1, <1>2, <1>7, <1>9, <1>14, <3>1, <3>4
  <2>3. lh <= height
    <3>1. w * height <= width * height BY <1>1, <1>2, <2>2, Products
    <3>2. q * width < (height + 1) * width
      <4>1. (height + 1) * width = height * width + width BY <1>1
      <4> QED BY <1>1, <1>7, <1>11, <1>12, <3>1, <4>1
    <3>3. q < height + 1 BY <1>1, <1>7, <3>2, Factors
    <3> QED BY <1>1, <1>7, <1>9, <3>3
  <2>4. lh = 1 \/ (lh * width <= height * w /\ height * w < (lh + 1) * width)
    BY <1>7, <1>9, <1>11
  <2>5. fit[1] = w /\ fit[2] = lh BY <2>1
  <2>6. w \in 1 .. w /\ lh \in 1 .. h BY <1>2, <1>10, <1>14
  <2> QED BY <2>2, <2>3, <2>4, <2>5, <2>6
<1>15. CASE ~ (width <= w /\ height <= h) /\ ~ (lh <= h)
  <2>1. fit = <<lw, h>> BY <1>4, <1>15
  <2>2. q > h BY <1>2, <1>7, <1>9, <1>15
  <2>3. h <= height
    <3> SUFFICES ASSUME height < h PROVE FALSE BY <1>1, <1>2
    <3>1. w <= width BY <1>1, <1>2, <1>15
    <3>2. w * height <= width * height BY <1>1, <1>2, <3>1, Products
    <3>3. q * width < (height + 1) * width
      <4>1. (height + 1) * width = height * width + width BY <1>1
      <4> QED BY <1>1, <1>7, <1>11, <1>12, <3>2, <4>1
    <3>4. q < height + 1 BY <1>1, <1>7, <3>3, Factors
    <3> QED BY <1>1, <1>2, <1>7, <2>2, <3>4
  <2>4. p < w
    <3>1. (h + 1) * width <= q * width BY <1>1, <1>2, <1>7, <2>2, Products
    <3>2. (h + 1) * width = h * width + width BY <1>1, <1>2
    <3>3. p * height < w * height
      BY <1>1, <1>7, <1>8, <1>11, <1>12, <3>1, <3>2
    <3> QED BY <1>1, <1>2, <1>8, <3>3, Factors
  <2>5. lw <= w BY <1>2, <1>8, <1>9, <2>4
  <2>6. lw <= width
    <3>1. h * width <= height * width BY <1>1, <1>2, <2>3, Products
    <3>2. p * height < (width + 1) * height
      <4>1. (width + 1) * height = width * height + height BY <1>1
      <4> QED BY <1>1, <1>8, <1>11, <1>12, <3>1, <4>1
    <3>3. p < width + 1 BY <1>1, <1>8, <3>2, Factors
    <3> QED BY <1>1, <1>8, <1>9, <3>3
  <2>7. lw = 1 \/ (lw * height <= width * h /\ width * h < (lw + 1) * height)
    BY <1>8, <1>9, <1>11
  <2>8. fit[1] = lw /\ fit[2] = h BY <2>1
  <2>9. lw \in 1 .. w /\ h \in 1 .. h BY <1>2, <1>10, <2>5
  <2> QED BY <2>3, <2>6, <2>7, <2>8, <2>9
<1> QED BY <1>13, <1>14, <1>15

-----------------------------------------------------------------------------
(* The archives of bundles (SyncBundle).                                   *)

\* The members of a sequence are different when they are as many as it is long.
LEMMA Distinct ==
  ASSUME NEW T, NEW s \in Seq(T)
  PROVE  LET members == {s[n] : n \in 1 .. Len(s)} IN
           /\ IsFiniteSet(members)
           /\ (\A m, n \in 1 .. Len(s) : m # n => s[m] # s[n]) <=> Cardinality(members) = Len(s)
<1> DEFINE members == {s[n] : n \in 1 .. Len(s)}
           length == Len(s)
           f == [n \in 1 .. length |-> s[n]]
<1>1. length \in Nat OBVIOUS
<1>2. IsFiniteSet(1 .. length) /\ Cardinality(1 .. length) = length BY <1>1, FS_Interval
<1>3. f \in Surjection(1 .. length, members) BY DEF Surjection
<1>4. f \in Injection(1 .. length, members) <=> \A m, n \in 1 .. length : m # n => s[m] # s[n]
  <2>1. f \in [1 .. length -> members] /\ \A n \in 1 .. length : f[n] = s[n] OBVIOUS
  <2> HIDE DEF f, length, members
  <2>2. f \in Injection(1 .. length, members) <=> \A m, n \in 1 .. length : f[m] = f[n] => m = n
    BY <2>1 DEF Injection, IsInjective
  <2> QED BY <2>1, <2>2
<1> HIDE DEF f, length, members
<1>5. IsFiniteSet(members)
      /\ (Cardinality(members) = Cardinality(1 .. length) <=> f \in Injection(1 .. length, members))
  BY <1>2, <1>3, FS_Surjection
<1> QED BY <1>2, <1>4, <1>5 DEF length, members

\* Sizes adds up what the files have for sizes.
SizesOf(files) == [n \in 1 .. Len(files) |-> files[n].size]

LEMMA SizesAreSums ==
  ASSUME NEW files, Len(files) \in Nat, SizesOf(files) \in [1 .. Len(files) -> Nat]
  PROVE  /\ SizesOf(files) \in Seq(Nat) /\ Len(SizesOf(files)) = Len(files)
         /\ Bundle!Sizes(files) = Budget!Total(SizesOf(files))
<1> DEFINE sizes == SizesOf(files)
           last == Len(files)
           SumOf(sum) == sum = [n \in 0 .. last |-> IF n = 0 THEN 0 ELSE sum[n - 1] + files[n].size]
           chosen == CHOOSE sum : SumOf(sum)
           total == CHOOSE sum : SumsOf(sum, sizes)
<1>1. last \in Nat /\ sizes \in Seq(Nat) /\ Len(sizes) = last
  <2>1. \A m \in Nat : \A s \in [1 .. m -> Nat] : s \in Seq(Nat) /\ Len(s) = m OBVIOUS
  <2> HIDE DEF sizes
  <2> QED BY <2>1 DEF sizes
<1>2. \A n \in 1 .. last : files[n].size = sizes[n] BY DEF SizesOf
<1>3. Bundle!Sizes(files) = chosen[last] BY DEF Bundle!Sizes
<1>4. Budget!Total(sizes) = total[last] BY <1>1 DEF Budget!Total, SumsOf
<1>5. PICK sums \in [0 .. last -> Nat] : SumsOf(sums, sizes)
  <2> HIDE DEF sizes
  <2> QED BY <1>1, SumsExist
<1>6. SumsOf(total, sizes) BY <1>5
<1> HIDE DEF total
<1>7. \A n \in 0 .. last : total[n] = IF n = 0 THEN 0 ELSE total[n - 1] + sizes[n]
  <2>1. total = [n \in 0 .. last |-> IF n = 0 THEN 0 ELSE total[n - 1] + sizes[n]]
    BY <1>1, <1>6 DEF SumsOf
  <2> QED BY <2>1, Zenon
<1>8. SumOf(sums)
  <2>1. sums = [n \in 0 .. last |-> IF n = 0 THEN 0 ELSE sums[n - 1] + sizes[n]]
    BY <1>1, <1>5 DEF SumsOf
  <2>2. \A n \in 0 .. last : n = 0 \/ n \in 1 .. last BY <1>1
  <2> QED BY <1>2, <2>1, <2>2
<1>9. SumOf(chosen) BY <1>8
<1> HIDE DEF chosen, sizes
<1>10. \A n \in 0 .. last : chosen[n] = IF n = 0 THEN 0 ELSE chosen[n - 1] + files[n].size
  BY <1>9, Zenon
<1> DEFINE Same == {n \in 0 .. last : chosen[n] = total[n]}
<1>11. 0 \in Same BY <1>1, <1>7, <1>10
<1>12. \A n \in 0 + 1 .. last : n - 1 \in Same => n \in Same BY <1>1, <1>2, <1>7, <1>10
<1>13. \A n \in 0 .. last : n \in Same
  <2> HIDE DEF Same, last
  <2> QED BY <1>1, <1>11, <1>12, Upward
<1>14. chosen[last] = total[last] BY <1>1, <1>13
<1> QED BY <1>1, <1>3, <1>4, <1>14 DEF sizes

\* Archives of files with some names and contents.
Paths(S) == Seq(S)
Entries(S, C) == [type : {"regular", "other"}, path : Paths(S), size : Nat, body : C]
Manifests(S) == [supported : BOOLEAN, entry_point : Paths(S), files : Seq([path : Paths(S), size : Nat])]
Archives(S, C) ==
  [entries : Seq(Entries(S, C)), cut : BOOLEAN, tail : {"zeros", "bytes"}, manifest : Manifests(S)]

\* What comes before the n-th entry, whether that one is taken, and what was
\* taken once the first n were.
Before(archive, n) == {archive.entries[m].path : m \in 1 .. n - 1}
StagedUpTo(archive, n) == Budget!SumTo(SizesOf(archive.entries), n)
Passes(archive, n, disk, limit) ==
  LET entry == archive.entries[n] IN
    /\ entry.type = "regular" /\ entry.path[1] # ".." /\ entry.path \notin Before(archive, n)
    /\ ~ (archive.cut /\ n = Len(archive.entries)) /\ StagedUpTo(archive, n) <= limit
    /\ disk => Bundle!CanStage(Before(archive, n), entry.path)
    /\ IF entry.path = <<Bundle!MANIFEST_PATH>> THEN Bundle!ValidManifest(archive.manifest)
       ELSE /\ <<Bundle!MANIFEST_PATH>> \in Before(archive, n)
            /\ entry.path \in Bundle!Listed(archive.manifest)
            /\ Bundle!SizeListed(archive.manifest, entry.path) = entry.size
FilesUpTo(archive, n) ==
  {[path |-> archive.entries[m].path, body |-> archive.entries[m].body] : m \in 1 .. n}
Taken(archive, n) ==
  [ok |-> TRUE, seen |-> Before(archive, n + 1), staged |-> StagedUpTo(archive, n),
   files |-> FilesUpTo(archive, n)]
States(S, C) ==
  [ok : BOOLEAN, seen : SUBSET Paths(S), staged : Nat, files : SUBSET [path : Paths(S), body : C]]

\* An archive's entries and the sums of their sizes.
LEMMA EntriesTyped ==
  ASSUME NEW S, NEW C, NEW archive \in Archives(S, C)
  PROVE  /\ Len(archive.entries) \in Nat
         /\ \A n \in 1 .. Len(archive.entries) : archive.entries[n] \in Entries(S, C)
         /\ SizesOf(archive.entries) \in Seq(Nat) /\ Len(SizesOf(archive.entries)) = Len(archive.entries)
         /\ Bundle!Sizes(archive.entries) = StagedUpTo(archive, Len(archive.entries))
         /\ StagedUpTo(archive, 0) = 0
         /\ \A n \in 0 .. Len(archive.entries) : StagedUpTo(archive, n) \in Nat
         /\ \A n \in 1 .. Len(archive.entries) :
              StagedUpTo(archive, n) = StagedUpTo(archive, n - 1) + archive.entries[n].size
         /\ \A n \in 0 .. Len(archive.entries) :
              StagedUpTo(archive, n) <= StagedUpTo(archive, Len(archive.entries))
<1> DEFINE T == Entries(S, C)
           entries == archive.entries
           sizes == SizesOf(entries)
           length == Len(entries)
<1>1. entries \in Seq(T) BY DEF Archives
<1> HIDE DEF T, entries
<1>2. length \in Nat /\ \A n \in 1 .. length : entries[n] \in T BY <1>1
<1>3. \A n \in 1 .. length : entries[n].size \in Nat BY <1>2 DEF T, Entries
<1>4. sizes \in [1 .. length -> Nat] /\ \A n \in 1 .. length : sizes[n] = entries[n].size
  BY <1>3 DEF SizesOf
<1>5. sizes \in Seq(Nat) /\ Len(sizes) = length /\ Bundle!Sizes(entries) = Budget!Total(sizes)
  BY <1>2, <1>4, SizesAreSums
<1> HIDE DEF sizes, length
<1>6. /\ Budget!SumTo(sizes, 0) = 0
      /\ Budget!SumTo(sizes, length) = Budget!Total(sizes)
      /\ \A n \in 0 .. length : Budget!SumTo(sizes, n) \in Nat
      /\ \A n \in 1 .. length : Budget!SumTo(sizes, n) = Budget!SumTo(sizes, n - 1) + sizes[n]
      /\ \A m, n \in 0 .. length : m <= n => Budget!SumTo(sizes, m) <= Budget!SumTo(sizes, n)
  BY <1>5, Sums
<1>7. length \in 0 .. length /\ \A n \in 0 .. length : n <= length BY <1>2
<1> QED BY <1>2, <1>4, <1>5, <1>6, <1>7 DEF StagedUpTo, sizes, length, entries, T

\* Three fields of a record of four.
LEMMA UpdatedState ==
  ASSUME NEW ok, NEW seen, NEW staged, NEW files, NEW seen2, NEW staged2, NEW files2
  PROVE  [[ok |-> ok, seen |-> seen, staged |-> staged, files |-> files]
            EXCEPT !.seen = seen2, !.staged = staged2, !.files = files2]
           = [ok |-> ok, seen |-> seen2, staged |-> staged2, files |-> files2]
<1> DEFINE zero == [ok |-> ok, seen |-> seen, staged |-> staged, files |-> files]
           one == [zero EXCEPT !.seen = seen2]
           two == [one EXCEPT !.staged = staged2]
           three == [two EXCEPT !.files = files2]
<1>1. one = [ok |-> ok, seen |-> seen2, staged |-> staged, files |-> files] OBVIOUS
<1>2. [[ok |-> ok, seen |-> seen2, staged |-> staged, files |-> files] EXCEPT !.staged = staged2]
        = [ok |-> ok, seen |-> seen2, staged |-> staged2, files |-> files]
  OBVIOUS
<1>3. [[ok |-> ok, seen |-> seen2, staged |-> staged2, files |-> files] EXCEPT !.files = files2]
        = [ok |-> ok, seen |-> seen2, staged |-> staged2, files |-> files2]
  OBVIOUS
<1>4. [zero EXCEPT !.seen = seen2, !.staged = staged2, !.files = files2] = three OBVIOUS
<1> HIDE DEF one
<1>5. two = [ok |-> ok, seen |-> seen2, staged |-> staged2, files |-> files] BY <1>1, <1>2
<1> HIDE DEF two
<1>6. three = [ok |-> ok, seen |-> seen2, staged |-> staged2, files |-> files2] BY <1>3, <1>5
<1> QED BY <1>4, <1>6

\* One entry more is taken if it passes; nothing is after one that does not.
LEMMA EntryTaken ==
  ASSUME NEW S, NEW C, NEW archive \in Archives(S, C), NEW disk \in BOOLEAN, NEW limit \in Nat,
         NEW n \in 1 .. Len(archive.entries)
  PROVE  LET next == Bundle!ProcessEntry(Taken(archive, n - 1), archive, n, disk, limit) IN
           IF Passes(archive, n, disk, limit) THEN next = Taken(archive, n) ELSE ~ next.ok
<1> DEFINE entry == archive.entries[n]
           old == Taken(archive, n - 1)
           more == [old EXCEPT !.seen = @ \union {entry.path}, !.staged = @ + entry.size,
                               !.files = @ \union {[path |-> entry.path, body |-> entry.body]}]
           passes == Passes(archive, n, disk, limit)
           next == Bundle!ProcessEntry(old, archive, n, disk, limit)
<1>1. n \in Nat /\ n >= 1 /\ (n - 1) + 1 = n OBVIOUS
<1>2. old.ok = TRUE /\ old.seen = Before(archive, n) /\ old.staged = StagedUpTo(archive, n - 1)
  BY <1>1 DEF Taken
<1>3. more = Taken(archive, n)
  <2>1. Before(archive, n + 1) = Before(archive, n) \union {entry.path}
    <3>1. 1 .. n + 1 - 1 = (1 .. n - 1) \union {n} BY <1>1
    <3> QED BY <3>1 DEF Before
  <2>2. FilesUpTo(archive, n) = FilesUpTo(archive, n - 1) \union {[path |-> entry.path, body |-> entry.body]}
    <3>1. 1 .. n = (1 .. n - 1) \union {n} BY <1>1
    <3> QED BY <3>1 DEF FilesUpTo
  <2>3. StagedUpTo(archive, n) = StagedUpTo(archive, n - 1) + entry.size BY EntriesTyped
  <2>4. old = [ok |-> TRUE, seen |-> Before(archive, n), staged |-> StagedUpTo(archive, n - 1),
               files |-> FilesUpTo(archive, n - 1)]
    <3>1. Before(archive, (n - 1) + 1) = Before(archive, n) BY <1>1
    <3> QED BY <3>1 DEF Taken
  <2> HIDE DEF old, entry
  <2>5. more = [ok |-> TRUE, seen |-> Before(archive, n) \union {entry.path},
                staged |-> StagedUpTo(archive, n - 1) + entry.size,
                files |-> FilesUpTo(archive, n - 1) \union {[path |-> entry.path, body |-> entry.body]}]
    <3> DEFINE seen == Before(archive, n)
               staged == StagedUpTo(archive, n - 1)
               files == FilesUpTo(archive, n - 1)
               file == [path |-> entry.path, body |-> entry.body]
    <3>1. old.seen = seen /\ old.staged = staged /\ old.files = files BY <2>4
    <3> HIDE DEF seen, staged, files, file
    <3>2. more = [old EXCEPT !.seen = seen \union {entry.path}, !.staged = staged + entry.size,
                             !.files = files \union {file}]
      BY <3>1 DEF file
    <3>3. old = [ok |-> TRUE, seen |-> seen, staged |-> staged, files |-> files]
      BY <2>4 DEF seen, staged, files
    <3> DEFINE yes == TRUE
               seen2 == seen \union {entry.path}
               staged2 == staged + entry.size
               files2 == files \union {file}
    <3>4. old = [ok |-> yes, seen |-> seen, staged |-> staged, files |-> files]
          /\ more = [old EXCEPT !.seen = seen2, !.staged = staged2, !.files = files2]
      BY <3>2, <3>3
    <3> HIDE DEF yes, seen2, staged2, files2, more
    <3>5. more = [ok |-> yes, seen |-> seen2, staged |-> staged2, files |-> files2]
      BY <3>4, UpdatedState
    <3> QED BY <3>5 DEF yes, seen2, staged2, files2, seen, staged, files, file
  <2> QED BY <2>1, <2>2, <2>3, <2>5 DEF Taken
<1>4. more.staged = StagedUpTo(archive, n) BY <1>3 DEF Taken
<1> DEFINE acceptable ==
             /\ entry.type = "regular" /\ entry.path[1] # ".." /\ entry.path \notin old.seen
             /\ ~ (archive.cut /\ n = Len(archive.entries)) /\ more.staged <= limit
             /\ disk => Bundle!CanStage(old.seen, entry.path)
           known ==
             IF entry.path = <<Bundle!MANIFEST_PATH>> THEN Bundle!ValidManifest(archive.manifest)
             ELSE /\ <<Bundle!MANIFEST_PATH>> \in old.seen
                  /\ entry.path \in Bundle!Listed(archive.manifest)
                  /\ Bundle!SizeListed(archive.manifest, entry.path) = entry.size
<1>5. next = IF old.ok /\ acceptable /\ known THEN more ELSE [old EXCEPT !.ok = FALSE]
  BY DEF Bundle!ProcessEntry
<1>6. passes <=> acceptable /\ known BY <1>2, <1>4 DEF Passes
<1>7. ~ [old EXCEPT !.ok = FALSE].ok BY DEF Taken
<1> HIDE DEF old, more, acceptable, known, passes, next
<1>8. CASE passes
  <2>1. next = Taken(archive, n) BY <1>2, <1>3, <1>5, <1>6, <1>8
  <2> QED BY <1>8, <2>1 DEF passes, next, old
<1>9. CASE ~ passes
  <2>1. ~ next.ok BY <1>5, <1>6, <1>7, <1>9
  <2> QED BY <1>9, <2>1 DEF passes, next, old
<1> QED BY <1>8, <1>9

\* An entry makes a state of a state, and of a failed one a failed one.
LEMMA EntryTyped ==
  ASSUME NEW S, NEW C, NEW archive \in Archives(S, C), NEW disk, NEW limit,
         NEW n \in 1 .. Len(archive.entries), NEW state \in States(S, C)
  PROVE  LET next == Bundle!ProcessEntry(state, archive, n, disk, limit) IN
           next \in States(S, C) /\ (~ state.ok => ~ next.ok)
<1> DEFINE entry == archive.entries[n]
           file == [path |-> entry.path, body |-> entry.body]
           more == [state EXCEPT !.seen = @ \union {entry.path}, !.staged = @ + entry.size,
                                 !.files = @ \union {file}]
           none == [state EXCEPT !.ok = FALSE]
           next == Bundle!ProcessEntry(state, archive, n, disk, limit)
<1>1. entry.path \in Paths(S) /\ entry.size \in Nat /\ entry.body \in C
  <2>1. entry \in Entries(S, C) BY EntriesTyped
  <2> QED BY <2>1 DEF Entries
<1>2. PICK ok \in BOOLEAN, seen \in SUBSET Paths(S), staged \in Nat,
           files \in SUBSET [path : Paths(S), body : C] :
        state = [ok |-> ok, seen |-> seen, staged |-> staged, files |-> files]
  BY DEF States
<1>3. more \in States(S, C)
  <2> DEFINE o == ok
             seen2 == seen \union {entry.path}
             staged2 == staged + entry.size
             files2 == files \union {file}
  <2>1. seen2 \in SUBSET Paths(S) /\ staged2 \in Nat /\ files2 \in SUBSET [path : Paths(S), body : C]
    BY <1>1
  <2>2. state = [ok |-> o, seen |-> seen, staged |-> staged, files |-> files]
        /\ more = [state EXCEPT !.seen = seen2, !.staged = staged2, !.files = files2]
    BY <1>2
  <2>3. o \in BOOLEAN OBVIOUS
  <2> HIDE DEF o, seen2, staged2, files2, more
  <2>4. more = [ok |-> o, seen |-> seen2, staged |-> staged2, files |-> files2]
    BY <2>2, UpdatedState
  <2> QED BY <2>1, <2>3, <2>4 DEF States
<1>4. none \in States(S, C) /\ ~ none.ok BY DEF States
<1>5. (next = more /\ state.ok) \/ next = none BY DEF Bundle!ProcessEntry
<1> HIDE DEF more, none, next
<1>6. next \in States(S, C) /\ (~ state.ok => ~ next.ok) BY <1>3, <1>4, <1>5
<1> QED BY <1>6 DEF next

\* What process_archive makes of an archive.
Accepted(archive, disk, limit) ==
  /\ \A n \in 1 .. Len(archive.entries) : Passes(archive, n, disk, limit)
  /\ Bundle!EncodedSize(archive) <= MaxBundleSize /\ archive.tail = "zeros"
  /\ Bundle!Complete(archive.manifest, Before(archive, Len(archive.entries) + 1))

LEMMA ProcessIs ==
  ASSUME NEW S, NEW C, NEW archive \in Archives(S, C), NEW disk \in BOOLEAN, NEW limit \in Nat
  PROVE  Bundle!Process(archive, disk, limit) =
           IF Accepted(archive, disk, limit) THEN Taken(archive, Len(archive.entries)) ELSE Bundle!Refused
<1> DEFINE length == Len(archive.entries)
           base == [ok |-> TRUE, seen |-> {}, staged |-> 0, files |-> {}]
           Next(state, n) == Bundle!ProcessEntry(state, archive, n, disk, limit)
           step == [n \in 1 .. length |-> [state \in States(S, C) |-> Next(state, n)]]
           WalkOf(w) == w = [n \in 0 .. length |-> IF n = 0 THEN base ELSE Next(w[n - 1], n)]
           chosen == CHOOSE w : WalkOf(w)
           last == chosen[length]
<1>1. length \in Nat BY EntriesTyped
<1>2. base \in States(S, C) BY DEF States
<1>3. base = Taken(archive, 0)
  <2>1. Before(archive, 0 + 1) = {} /\ FilesUpTo(archive, 0) = {} BY DEF Before, FilesUpTo
  <2>2. StagedUpTo(archive, 0) = 0 BY EntriesTyped
  <2> QED BY <2>1, <2>2 DEF Taken
<1>4. \A n \in 1 .. length, state \in States(S, C) :
        Next(state, n) \in States(S, C) /\ (~ state.ok => ~ Next(state, n).ok)
  BY EntryTyped
<1>5. \A n \in 1 .. length :
        IF Passes(archive, n, disk, limit) THEN Next(Taken(archive, n - 1), n) = Taken(archive, n)
        ELSE ~ Next(Taken(archive, n - 1), n).ok
  BY EntryTaken
<1>6. Bundle!Process(archive, disk, limit) =
        IF /\ last.ok /\ Bundle!EncodedSize(archive) <= MaxBundleSize /\ archive.tail = "zeros"
           /\ Bundle!Complete(archive.manifest, last.seen)
        THEN last ELSE Bundle!Refused
  BY DEF Bundle!Process
<1> HIDE DEF Next, base, length
<1>7. step \in [1 .. length -> [States(S, C) -> States(S, C)]]
      /\ \A n \in 1 .. length, state \in States(S, C) : step[n][state] = Next(state, n)
  BY <1>4
<1> HIDE DEF step
<1>8. PICK walk : Unfolds(walk, States(S, C), base, length, step) BY <1>1, <1>2, <1>7, Unfolding
<1>9. WalkOf(walk)
  <2>1. /\ walk \in [0 .. length -> States(S, C)] /\ walk[0] = base
        /\ \A n \in 1 .. length : walk[n] = step[n][walk[n - 1]]
    BY <1>8 DEF Unfolds
  <2>2. \A n \in 0 .. length : walk[n] = IF n = 0 THEN base ELSE Next(walk[n - 1], n)
    <3> SUFFICES ASSUME NEW n \in 0 .. length
                 PROVE  walk[n] = IF n = 0 THEN base ELSE Next(walk[n - 1], n)
      OBVIOUS
    <3>1. CASE n = 0 BY <2>1, <3>1
    <3>2. CASE n # 0
      <4>1. n \in 1 .. length /\ n - 1 \in 0 .. length BY <1>1, <3>2
      <4>2. walk[n - 1] \in States(S, C) BY <2>1, <4>1
      <4> QED BY <1>7, <2>1, <3>2, <4>1, <4>2
    <3> QED BY <3>1, <3>2
  <2> QED BY <2>1, <2>2
<1>10. WalkOf(chosen) BY <1>9
<1> HIDE DEF chosen
<1>11. \A n \in 0 .. length : chosen[n] = IF n = 0 THEN base ELSE Next(chosen[n - 1], n)
  BY <1>10, Zenon
<1> DEFINE Clear(n) == \A m \in 1 .. n : Passes(archive, m, disk, limit)
           Is(n) == /\ chosen[n] \in States(S, C)
                    /\ IF Clear(n) THEN chosen[n] = Taken(archive, n) ELSE ~ chosen[n].ok
           Right == {n \in 0 .. length : Is(n)}
<1>12. 0 \in Right
  <2>1. Clear(0) OBVIOUS
  <2>2. chosen[0] = base BY <1>1, <1>11
  <2> QED BY <1>1, <1>2, <1>3, <2>1, <2>2
<1>13. ASSUME NEW n \in 1 .. length, n - 1 \in Right PROVE n \in Right
  <2>1. n \in 0 .. length /\ n # 0 /\ n \in Nat BY <1>1
  <2>2. chosen[n] = Next(chosen[n - 1], n) BY <1>11, <2>1
  <2>3. Is(n - 1) BY <1>13
  <2>4. chosen[n] \in States(S, C) BY <1>4, <2>2, <2>3
  <2>5. Clear(n) <=> Clear(n - 1) /\ Passes(archive, n, disk, limit)
    <3>1. 1 .. n = (1 .. n - 1) \union {n} BY <2>1
    <3> QED BY <3>1
  <2> HIDE DEF Clear
  <2>6. CASE Clear(n - 1)
    <3>1. chosen[n] = Next(Taken(archive, n - 1), n) BY <2>2, <2>3, <2>6
    <3>2. CASE Passes(archive, n, disk, limit)
      <4>1. chosen[n] = Taken(archive, n) BY <1>5, <3>1, <3>2
      <4> QED BY <2>1, <2>4, <2>5, <2>6, <3>2, <4>1
    <3>3. CASE ~ Passes(archive, n, disk, limit)
      <4>1. ~ chosen[n].ok BY <1>5, <3>1, <3>3
      <4> QED BY <2>1, <2>4, <2>5, <3>3, <4>1
    <3> QED BY <3>2, <3>3
  <2>7. CASE ~ Clear(n - 1)
    <3>1. ~ chosen[n].ok BY <1>4, <2>2, <2>3, <2>7
    <3> QED BY <2>1, <2>4, <2>5, <2>7, <3>1
  <2> QED BY <2>6, <2>7
<1>14. \A n \in 0 .. length : n \in Right
  <2>1. \A n \in 0 + 1 .. length : n - 1 \in Right => n \in Right BY <1>13
  <2> HIDE DEF Right
  <2> QED BY <1>1, <1>12, <2>1, Upward
<1>15. Is(length)
  <2>1. length \in 0 .. length BY <1>1
  <2> QED BY <1>14, <2>1
<1>16. CASE Clear(length)
  <2>1. last = Taken(archive, length) BY <1>15, <1>16
  <2>2. last.ok /\ last.seen = Before(archive, length + 1)
    <3> HIDE DEF last
    <3> QED BY <2>1 DEF Taken
  <2>3. Accepted(archive, disk, limit) <=>
          /\ Bundle!EncodedSize(archive) <= MaxBundleSize /\ archive.tail = "zeros"
          /\ Bundle!Complete(archive.manifest, last.seen)
    BY <1>16, <2>2 DEF Accepted, length
  <2> HIDE DEF last
  <2> QED BY <1>6, <2>1, <2>2, <2>3 DEF length
<1>17. CASE ~ Clear(length)
  <2>1. ~ last.ok BY <1>15, <1>17
  <2>2. ~ Accepted(archive, disk, limit) BY <1>17 DEF Accepted, length
  <2> HIDE DEF last
  <2> QED BY <1>6, <2>1, <2>2
<1> QED BY <1>16, <1>17

\* What a valid archive is, and what an extraction asks for besides.
Manifest == <<Bundle!MANIFEST_PATH>>
PathOf(archive, n) == archive.entries[n].path
Valid(archive) ==
  LET length == Len(archive.entries) IN
    /\ length # 0 /\ PathOf(archive, 1) = Manifest /\ Bundle!ValidManifest(archive.manifest)
    /\ \A n \in 1 .. length : archive.entries[n].type = "regular"
    /\ {PathOf(archive, n) : n \in 2 .. length} = Bundle!Listed(archive.manifest)
    /\ length = Bundle!Cardinality(Bundle!Listed(archive.manifest)) + 1
    /\ \A n \in 2 .. length :
         archive.entries[n].size = Bundle!SizeListed(archive.manifest, PathOf(archive, n))
    /\ ~ archive.cut /\ archive.tail = "zeros" /\ Bundle!EncodedSize(archive) <= MaxBundleSize
Apart(archive) ==
  \A m, n \in 1 .. Len(archive.entries) : ~ Bundle!Inside(PathOf(archive, m), PathOf(archive, n))

\* The paths of the entries differ when they are the manifest's and as many
\* others as it lists.
LEMMA PathsDiffer ==
  ASSUME NEW S, NEW C, NEW archive \in Archives(S, C), Len(archive.entries) # 0,
         PathOf(archive, 1) = Manifest, Manifest \notin Bundle!Listed(archive.manifest),
         {PathOf(archive, n) : n \in 2 .. Len(archive.entries)} = Bundle!Listed(archive.manifest)
  PROVE  (\A m, n \in 1 .. Len(archive.entries) : m # n => PathOf(archive, m) # PathOf(archive, n))
           <=> Len(archive.entries) = Bundle!Cardinality(Bundle!Listed(archive.manifest)) + 1
<1> DEFINE length == Len(archive.entries)
           paths == [n \in 1 .. length |-> PathOf(archive, n)]
           listed == Bundle!Listed(archive.manifest)
           members == {paths[n] : n \in 1 .. length}
<1>1. length \in Nat /\ length >= 1 /\ \A n \in 1 .. length : archive.entries[n] \in Entries(S, C)
  BY EntriesTyped
<1>2. \A n \in 1 .. length : paths[n] = PathOf(archive, n) /\ PathOf(archive, n) \in Paths(S)
  BY <1>1 DEF Entries, PathOf
<1>3. paths \in Seq(Paths(S)) /\ Len(paths) = length
  <2>1. paths \in [1 .. length -> Paths(S)] BY <1>2
  <2>2. \A m \in Nat : \A s \in [1 .. m -> Paths(S)] : s \in Seq(Paths(S)) /\ Len(s) = m OBVIOUS
  <2> HIDE DEF paths, length
  <2> QED BY <1>1, <2>1, <2>2
<1> HIDE DEF paths, length
<1>4. /\ IsFiniteSet(members)
      /\ (\A m, n \in 1 .. length : m # n => paths[m] # paths[n]) <=> Cardinality(members) = length
  BY <1>3, Distinct
<1>5. members = listed \union {Manifest} /\ listed \subseteq members
  <2>1. 1 .. length = {1} \union 2 .. length /\ 1 \in 1 .. length BY <1>1
  <2>2. \A n \in 2 .. length : n \in 1 .. length BY <1>1
  <2>3. listed = {paths[n] : n \in 2 .. length} BY <1>2, <2>2 DEF length
  <2>4. paths[1] = Manifest BY <1>2, <2>1
  <2> HIDE DEF listed
  <2> QED BY <2>1, <2>2, <2>3, <2>4
<1>6. IsFiniteSet(listed) BY <1>4, <1>5, FS_Subset
<1>7. Cardinality(members) = Cardinality(listed) + 1
  <2> HIDE DEF members, listed
  <2>1. Manifest \notin listed BY DEF listed
  <2> QED BY <1>5, <1>6, <2>1, FS_AddElement
<1>8. Bundle!Cardinality(listed) = Cardinality(listed)
  <2>1. \A T : Bundle!Cardinality(T) = Cardinality(T) BY DEF Bundle!Cardinality, Cardinality
  <2> QED BY <2>1
<1>9. Cardinality(listed) \in Nat BY <1>6, FS_CardinalityType
<1> HIDE DEF members, listed
<1>10. (\A m, n \in 1 .. length : m # n => paths[m] # paths[n])
         <=> length = Bundle!Cardinality(listed) + 1
  BY <1>1, <1>4, <1>7, <1>8, <1>9
<1> QED BY <1>2, <1>10 DEF length, listed

\* What a valid manifest lists.
LEMMA ManifestLists ==
  ASSUME NEW manifest, Bundle!ValidManifest(manifest)
  PROVE  Manifest \notin Bundle!Listed(manifest)
         /\ \A path \in Bundle!Listed(manifest) : path[1] # ".."
BY DEF Bundle!ValidManifest, Manifest

\* Every entry is taken exactly when the archive is valid, there is room for
\* it, and on a disk no file is where another one needs a directory.
LEMMA AcceptedIsValid ==
  ASSUME NEW S, NEW C, NEW archive \in Archives(S, C), NEW disk \in BOOLEAN, NEW limit \in Nat
  PROVE  Accepted(archive, disk, limit) <=>
           /\ Valid(archive) /\ Bundle!Sizes(archive.entries) <= limit
           /\ disk => Apart(archive)
<1> DEFINE length == Len(archive.entries)
           P(n) == PathOf(archive, n)
           manifest == archive.manifest
           listed == Bundle!Listed(manifest)
           sum(n) == StagedUpTo(archive, n)
<1>1. length \in Nat BY EntriesTyped
<1>2. Bundle!Sizes(archive.entries) = sum(length)
      /\ \A n \in 0 .. length : sum(n) \in Nat /\ sum(n) <= sum(length)
  BY EntriesTyped
<1>3. \A n \in 1 .. length : P(n) \in Paths(S)
  <2>1. \A n \in 1 .. length : archive.entries[n] \in Entries(S, C) BY EntriesTyped
  <2> QED BY <2>1 DEF Entries, PathOf
<1>4. \A n : Before(archive, n) = {P(m) : m \in 1 .. n - 1} BY DEF Before, PathOf
<1>5. \A m, n \in 1 .. length : m < n => P(m) \in Before(archive, n)
  <2> SUFFICES ASSUME NEW m \in 1 .. length, NEW n \in 1 .. length, m < n
               PROVE  P(m) \in Before(archive, n)
    OBVIOUS
  <2>1. m \in 1 .. n - 1 BY <1>1
  <2> QED BY <1>4, <2>1
<1>6. \A n \in 1 .. length : \A path \in Before(archive, n) : \E m \in 1 .. length : m < n /\ path = P(m)
  <2> SUFFICES ASSUME NEW n \in 1 .. length, NEW path \in Before(archive, n)
               PROVE  \E m \in 1 .. length : m < n /\ path = P(m)
    OBVIOUS
  <2>1. PICK m \in 1 .. n - 1 : path = P(m) BY <1>4
  <2>2. m \in 1 .. length /\ m < n BY <1>1
  <2> QED BY <2>1, <2>2
<1>7. Before(archive, length + 1) = {P(m) : m \in 1 .. length}
  <2>1. length + 1 - 1 = length BY <1>1
  <2> QED BY <1>4, <2>1
<1>8. \A n \in 1 .. length : Passes(archive, n, disk, limit) <=>
        /\ archive.entries[n].type = "regular" /\ P(n)[1] # ".." /\ P(n) \notin Before(archive, n)
        /\ ~ (archive.cut /\ n = length) /\ sum(n) <= limit
        /\ disk => Bundle!CanStage(Before(archive, n), P(n))
        /\ IF P(n) = Manifest THEN Bundle!ValidManifest(manifest)
           ELSE /\ Manifest \in Before(archive, n) /\ P(n) \in listed
                /\ Bundle!SizeListed(manifest, P(n)) = archive.entries[n].size
  BY DEF Passes, PathOf, Manifest
<1>9. Accepted(archive, disk, limit) <=>
        /\ \A n \in 1 .. length : Passes(archive, n, disk, limit)
        /\ Bundle!EncodedSize(archive) <= MaxBundleSize /\ archive.tail = "zeros"
        /\ Manifest \in Before(archive, length + 1) /\ listed \subseteq Before(archive, length + 1)
  BY DEF Accepted, Bundle!Complete, Manifest
<1>10. Valid(archive) <=>
        /\ length # 0 /\ P(1) = Manifest /\ Bundle!ValidManifest(manifest)
        /\ \A n \in 1 .. length : archive.entries[n].type = "regular"
        /\ {P(n) : n \in 2 .. length} = listed
        /\ length = Bundle!Cardinality(listed) + 1
        /\ \A n \in 2 .. length : archive.entries[n].size = Bundle!SizeListed(manifest, P(n))
        /\ ~ archive.cut /\ archive.tail = "zeros" /\ Bundle!EncodedSize(archive) <= MaxBundleSize
  BY DEF Valid
<1>11. \A a \in Paths(S) : ~ Bundle!Inside(a, a)
  <2>1. \A a \in Paths(S) : Len(a) \in Nat BY DEF Paths
  <2> QED BY <2>1 DEF Bundle!Inside
<1>12. length # 0 /\ P(1) = Manifest /\ Manifest \notin listed /\ {P(n) : n \in 2 .. length} = listed =>
         ((\A m, n \in 1 .. length : m # n => P(m) # P(n)) <=> length = Bundle!Cardinality(listed) + 1)
  BY PathsDiffer
<1>13. Bundle!ValidManifest(manifest) => Manifest \notin listed /\ \A path \in listed : path[1] # ".."
  BY ManifestLists
<1>14. Manifest[1] # ".." BY DEF Manifest, Bundle!MANIFEST_PATH
<1>15. \A path, staged : Bundle!CanStage(staged, path) <=>
         \A other \in staged : ~ Bundle!Inside(path, other) /\ ~ Bundle!Inside(other, path)
  BY DEF Bundle!CanStage
<1>16. Apart(archive) <=> \A m, n \in 1 .. length : ~ Bundle!Inside(P(m), P(n)) BY DEF Apart
<1> HIDE DEF length, P, manifest, listed, sum
<1>17. \A n \in 2 .. length : n \in 1 .. length /\ n # 1 /\ 1 \in 1 .. length /\ 1 < n BY <1>1
<1>18. ASSUME Accepted(archive, disk, limit)
       PROVE  Valid(archive) /\ sum(length) <= limit /\ (disk => Apart(archive))
  <2>1. length # 0 /\ 1 \in 1 .. length /\ length \in 1 .. length
    <3>1. PICK m \in 1 .. length : P(m) = Manifest BY <1>7, <1>9, <1>18
    <3> QED BY <1>1, <3>1
  <2>2. \A n \in 1 .. length : Passes(archive, n, disk, limit) BY <1>9, <1>18
  <2>3. P(1) = Manifest /\ Bundle!ValidManifest(manifest)
    <3>1. Before(archive, 1) = {} BY <1>4
    <3> QED BY <1>8, <2>1, <2>2, <3>1
  <2>4. \A n \in 2 .. length : P(n) # Manifest /\ P(n) \in listed
                               /\ Bundle!SizeListed(manifest, P(n)) = archive.entries[n].size
    <3> SUFFICES ASSUME NEW n \in 2 .. length
                 PROVE  P(n) # Manifest /\ P(n) \in listed
                        /\ Bundle!SizeListed(manifest, P(n)) = archive.entries[n].size
      OBVIOUS
    <3>1. n \in 1 .. length /\ 1 < n BY <1>17
    <3>2. P(1) \in Before(archive, n) BY <1>5, <2>1, <3>1
    <3>3. P(n) \notin Before(archive, n) BY <1>8, <2>2, <3>1
    <3> QED BY <1>8, <2>2, <2>3, <3>1, <3>2, <3>3
  <2>5. Manifest \notin listed BY <1>13, <2>3
  <2>6. {P(n) : n \in 2 .. length} = listed
    <3>1. ASSUME NEW path \in listed PROVE \E n \in 2 .. length : path = P(n)
      <4>1. PICK m \in 1 .. length : path = P(m) BY <1>7, <1>9, <1>18
      <4>2. m # 1 BY <2>3, <2>5, <4>1
      <4>3. m \in 2 .. length BY <1>1, <4>2
      <4> QED BY <4>1, <4>3
    <3> QED BY <2>4, <3>1
  <2>7. \A m, n \in 1 .. length : m # n => P(m) # P(n)
    <3> SUFFICES ASSUME NEW m \in 1 .. length, NEW n \in 1 .. length, m # n PROVE P(m) # P(n)
      OBVIOUS
    <3>1. P(m) \notin Before(archive, m) /\ P(n) \notin Before(archive, n) BY <1>8, <2>2
    <3>2. m < n \/ n < m BY <1>1
    <3> QED BY <1>5, <3>1, <3>2
  <2>8. length = Bundle!Cardinality(listed) + 1 BY <1>12, <2>1, <2>3, <2>5, <2>6, <2>7
  <2>9. sum(length) <= limit /\ ~ archive.cut BY <1>8, <2>1, <2>2
  <2>10. disk => Apart(archive)
    <3> SUFFICES ASSUME disk, NEW m \in 1 .. length, NEW n \in 1 .. length
                 PROVE  ~ Bundle!Inside(P(m), P(n))
      BY <1>16
    <3>1. Bundle!CanStage(Before(archive, m), P(m)) /\ Bundle!CanStage(Before(archive, n), P(n))
      BY <1>8, <2>2
    <3>2. CASE m = n BY <1>3, <1>11, <3>2
    <3>3. CASE m # n
      <4>1. m < n \/ n < m BY <1>1, <3>3
      <4> QED BY <1>5, <1>15, <3>1, <4>1
    <3> QED BY <3>2, <3>3
  <2>11. \A n \in 1 .. length : archive.entries[n].type = "regular" BY <1>8, <2>2
  <2>12. archive.tail = "zeros" /\ Bundle!EncodedSize(archive) <= MaxBundleSize BY <1>9, <1>18
  <2>13. Valid(archive) BY <1>10, <2>1, <2>3, <2>4, <2>6, <2>8, <2>9, <2>11, <2>12
  <2> QED BY <2>9, <2>10, <2>13
<1>19. ASSUME Valid(archive), sum(length) <= limit, disk => Apart(archive)
       PROVE  Accepted(archive, disk, limit)
  <2>1. /\ length # 0 /\ P(1) = Manifest /\ Bundle!ValidManifest(manifest)
        /\ \A n \in 1 .. length : archive.entries[n].type = "regular"
        /\ {P(n) : n \in 2 .. length} = listed
        /\ length = Bundle!Cardinality(listed) + 1
        /\ \A n \in 2 .. length : archive.entries[n].size = Bundle!SizeListed(manifest, P(n))
        /\ ~ archive.cut /\ archive.tail = "zeros" /\ Bundle!EncodedSize(archive) <= MaxBundleSize
    BY <1>10, <1>19
  <2>2. Manifest \notin listed /\ \A path \in listed : path[1] # ".." BY <1>13, <2>1
  <2>3. \A m, n \in 1 .. length : m # n => P(m) # P(n) BY <1>12, <2>1, <2>2
  <2>4. \A n \in 1 .. length : n = 1 \/ n \in 2 .. length BY <1>1
  <2>5. 1 \in 1 .. length BY <1>1, <2>1
  <2>6. ASSUME NEW n \in 1 .. length PROVE Passes(archive, n, disk, limit)
    <3>1. P(n)[1] # ".." BY <1>14, <2>1, <2>2, <2>4
    <3>2. P(n) \notin Before(archive, n)
      <4> SUFFICES ASSUME P(n) \in Before(archive, n) PROVE FALSE OBVIOUS
      <4>1. PICK m \in 1 .. length : m < n /\ P(n) = P(m) BY <1>6
      <4>2. m # n BY <1>1, <4>1
      <4> QED BY <2>3, <4>1, <4>2
    <3>3. sum(n) <= limit
      <4>1. n \in 0 .. length /\ length \in 0 .. length BY <1>1
      <4>2. sum(n) \in Nat /\ sum(length) \in Nat /\ sum(n) <= sum(length) BY <1>2, <4>1
      <4> QED BY <1>19, <4>2
    <3>4. disk => Bundle!CanStage(Before(archive, n), P(n))
      <4> SUFFICES ASSUME disk, NEW other \in Before(archive, n)
                   PROVE  ~ Bundle!Inside(P(n), other) /\ ~ Bundle!Inside(other, P(n))
        BY <1>15
      <4>1. PICK m \in 1 .. length : other = P(m) BY <1>6
      <4> QED BY <1>16, <1>19, <4>1
    <3>5. CASE n = 1 BY <1>8, <2>1, <3>1, <3>2, <3>3, <3>4, <3>5
    <3>6. CASE n \in 2 .. length
      <4>1. P(n) \in listed /\ P(n) # Manifest BY <2>1, <2>2, <3>6
      <4>2. Manifest \in Before(archive, n) BY <1>5, <1>17, <2>1, <3>6
      <4> QED BY <1>8, <2>1, <3>1, <3>2, <3>3, <3>4, <3>6, <4>1, <4>2
    <3> QED BY <2>4, <3>5, <3>6
  <2>7. Manifest \in Before(archive, length + 1) BY <1>7, <2>1, <2>5
  <2>8. listed \subseteq Before(archive, length + 1)
    <3>1. \A n \in 2 .. length : n \in 1 .. length BY <1>17
    <3> QED BY <1>7, <2>1, <3>1
  <2> QED BY <1>9, <2>1, <2>6, <2>7, <2>8
<1> QED BY <1>2, <1>18, <1>19

\* The encoded archive has room for its entries.
LEMMA ValidFits ==
  ASSUME NEW S, NEW C, NEW archive \in Archives(S, C), MaxBundleSize \in Nat, Valid(archive)
  PROVE  Bundle!Sizes(archive.entries) <= MaxBundleSize
<1> DEFINE sizes == Bundle!Sizes(archive.entries)
           length == Len(archive.entries)
<1>1. length \in Nat /\ sizes \in Nat
  <2>1. length \in Nat BY EntriesTyped
  <2>2. length \in 0 .. length BY <2>1
  <2> QED BY <2>1, <2>2, EntriesTyped
<1>2. sizes + length + 1 <= MaxBundleSize BY DEF Valid, Bundle!EncodedSize
<1> HIDE DEF sizes, length
<1> QED BY <1>1, <1>2 DEF sizes

\* FormatIsSound, for every archive, destination and limit: the entries that
\* process_archive takes one by one are those of a manifest followed by the
\* files it lists, in any order, each once and of its size; an extraction
\* leaves all of them in its destination, or what was there.
THEOREM FormatSound ==
  ASSUME NEW S, NEW C, NEW archive \in Archives(S, C), NEW destination, NEW limit \in Nat,
         MaxBundleSize \in Nat
  PROVE  Bundle!FormatIsSound(archive, destination, limit)
<1> DEFINE entries == archive.entries
           length == Len(entries)
           paths == [n \in DOMAIN entries |-> entries[n].path]
           valid ==
             /\ entries # <<>> /\ paths[1] = Manifest /\ Bundle!ValidManifest(archive.manifest)
             /\ \A n \in DOMAIN entries : entries[n].type = "regular"
             /\ {paths[n] : n \in 2 .. Len(paths)} = Bundle!Listed(archive.manifest)
             /\ Len(paths) = Bundle!Cardinality(Bundle!Listed(archive.manifest)) + 1
             /\ \A n \in 2 .. Len(paths) :
                  entries[n].size = Bundle!SizeListed(archive.manifest, paths[n])
             /\ ~ archive.cut /\ archive.tail = "zeros"
             /\ Bundle!EncodedSize(archive) <= MaxBundleSize
           apart == \A m, n \in DOMAIN paths : ~ Bundle!Inside(paths[m], paths[n])
           extractable ==
             /\ valid /\ Bundle!Sizes(entries) <= limit
             /\ apart
             /\ destination \in {Bundle!Absent, Bundle!Empty}
           files == {[path |-> paths[n], body |-> entries[n].body] : n \in DOMAIN paths}
           all == Bundle!Destination("directory", files)
           steps == Bundle!Extraction(archive, destination, limit)
           outcome == Bundle!Process(archive, TRUE, limit)
<1>1. length \in Nat /\ DOMAIN entries = 1 .. length /\ (entries # <<>> <=> length # 0)
  <2>1. entries \in Seq(Entries(S, C)) BY DEF Archives
  <2> DEFINE T == Entries(S, C)
  <2> HIDE DEF T, entries
  <2> QED BY <2>1 DEF T
<1>2. DOMAIN paths = 1 .. length /\ \A n \in 1 .. length : paths[n] = PathOf(archive, n)
  BY <1>1 DEF PathOf
<1>3. Len(paths) = length
  <2>1. \A m \in Nat : \A f : DOMAIN f = 1 .. m => Len(f) = m OBVIOUS
  <2> HIDE DEF paths, length
  <2> QED BY <1>1, <1>2, <2>1
<1>4. valid <=> Valid(archive)
  <2>1. length # 0 => 1 \in 1 .. length BY <1>1
  <2>2. \A n \in 2 .. length : n \in 1 .. length BY <1>1
  <2>3. {paths[n] : n \in 2 .. length} = {PathOf(archive, n) : n \in 2 .. length} BY <1>2, <2>2
  <2> HIDE DEF paths
  <2> QED BY <1>1, <1>2, <1>3, <2>1, <2>2, <2>3 DEF Valid
<1>5. apart <=> Apart(archive)
  <2> HIDE DEF paths
  <2> QED BY <1>2 DEF Apart
<1>6. files = FilesUpTo(archive, length)
  <2> HIDE DEF paths, length
  <2> QED BY <1>2 DEF FilesUpTo, PathOf
<1> DEFINE checked == Bundle!Process(archive, FALSE, MaxBundleSize)
<1>7. checked.ok <=> valid
  <2>1. checked = IF Accepted(archive, FALSE, MaxBundleSize)
                  THEN Taken(archive, length) ELSE Bundle!Refused
    BY ProcessIs
  <2>2. Taken(archive, length).ok /\ ~ Bundle!Refused.ok BY DEF Taken, Bundle!Refused
  <2>3. Accepted(archive, FALSE, MaxBundleSize)
          <=> Valid(archive) /\ Bundle!Sizes(archive.entries) <= MaxBundleSize
    BY AcceptedIsValid
  <2> HIDE DEF checked, valid
  <2> QED BY <1>4, <2>1, <2>2, <2>3, ValidFits
<1> DEFINE taken == valid /\ Bundle!Sizes(entries) <= limit /\ apart
<1>8. (outcome.ok <=> taken) /\ (taken => outcome.files = files)
  <2>1. outcome = IF Accepted(archive, TRUE, limit) THEN Taken(archive, length) ELSE Bundle!Refused
    BY ProcessIs
  <2>2. Taken(archive, length).ok /\ Taken(archive, length).files = FilesUpTo(archive, length)
        /\ ~ Bundle!Refused.ok
    BY DEF Taken, Bundle!Refused
  <2>3. Accepted(archive, TRUE, limit)
          <=> Valid(archive) /\ Bundle!Sizes(archive.entries) <= limit /\ Apart(archive)
    BY AcceptedIsValid
  <2> HIDE DEF outcome, valid, apart, files, length
  <2> QED BY <1>4, <1>5, <1>6, <2>1, <2>2, <2>3
<1>9. Bundle!Absent # Bundle!Empty
  <2>1. Bundle!Absent.kind = "absent" /\ Bundle!Empty.kind = "directory"
    BY DEF Bundle!Absent, Bundle!Empty, Bundle!Destination
  <2> QED BY <2>1
<1>10. steps = IF destination \notin {Bundle!Absent, Bundle!Empty} \/ ~ outcome.ok THEN <<destination>>
               ELSE IF destination = Bundle!Empty
                    THEN <<Bundle!Empty, Bundle!Absent, Bundle!Destination("directory", outcome.files)>>
                    ELSE <<Bundle!Absent, Bundle!Destination("directory", outcome.files)>>
  BY DEF Bundle!Extraction
<1> HIDE DEF outcome, steps, valid, apart, files
<1>11. /\ IF extractable THEN steps[Len(steps)] = all ELSE steps = <<destination>>
       /\ \A n \in DOMAIN steps :
            steps[n] \in {destination, all} \/ (destination = Bundle!Empty /\ steps[n] = Bundle!Absent)
  <2>1. CASE ~ extractable
    <3>1. steps = <<destination>> BY <1>8, <1>10, <2>1
    <3> QED BY <2>1, <3>1
  <2>2. CASE extractable /\ destination = Bundle!Empty
    <3>1. steps = <<destination, Bundle!Absent, all>> BY <1>8, <1>10, <2>2
    <3> HIDE DEF all, extractable
    <3> QED BY <2>2, <3>1
  <2>3. CASE extractable /\ destination = Bundle!Absent
    <3>1. steps = <<destination, all>> BY <1>8, <1>9, <1>10, <2>3
    <3> HIDE DEF all, extractable
    <3> QED BY <2>3, <3>1
  <2> QED BY <2>1, <2>2, <2>3
<1> QED BY <1>7, <1>11 DEF Bundle!FormatIsSound, Bundle!Positions, Manifest, valid, apart, files, steps

-----------------------------------------------------------------------------
(* The lines of the serial protocol (SerialWire).                          *)

\* Requests the tool makes, words of a line, and responses of the service: a
\* word is not empty, a text has words exactly when it has a length.
Requests ==
  [kind : Wire!PlainRequests, bytes : {0}, crc32 : {0}]
    \union [kind : {"EXEC", "SHELL"}, bytes : Nat, crc32 : Nat]
Words(S) == [parts : Seq(S), number : Nat \union {Wire!NoNumber}]
              \ {[parts |-> <<>>, number |-> Wire!NoNumber]}
Texts(S) == {text \in [words : Seq(Words(S)), length : Nat, newline : BOOLEAN] :
               text.words = <<>> <=> text.length = 0}
Responses(S) ==
  [kind : DOMAIN Wire!Leads, text : Texts(S), numbers : {<<>>}]
    \union [kind : {"ACK", "SHELL"}, text : Texts(S), numbers : [1 .. 1 -> Nat]]
    \union [kind : {"FRAMEBUFFER"}, text : Texts(S), numbers : [1 .. 3 -> Nat]]
    \union [kind : {"PONG", "REBOOTING"}, text : {Wire!Text(<<>>, 0, FALSE)}, numbers : {<<>>}]

\* RequestIsSound, for payloads of any size.
THEOREM RequestSound ==
  ASSUME NEW request \in Requests
  PROVE  Wire!RequestIsSound(request)
<1> DEFINE words == Wire!EncodeRequest(request)
           read == Wire!DecodeRequest(words)
<1>1. CASE request.kind \in Wire!PlainRequests
  <2>1. request = [kind |-> request.kind, bytes |-> 0, crc32 |-> 0]
    BY <1>1 DEF Requests, Wire!PlainRequests
  <2>2. words = <<Wire!Bare("PRS1"), Wire!Bare(request.kind)>> BY <1>1 DEF Wire!EncodeRequest
  <2>3. words[2].parts[1] = request.kind /\ Len(words) = 2
    <3> HIDE DEF words
    <3> QED BY <2>2 DEF Wire!Bare
  <2> HIDE DEF words
  <2>4. read = Wire!Good(Wire!WireRequest(request.kind, 0, 0))
    BY <1>1, <2>3 DEF Wire!DecodeRequest, Wire!PlainRequests
  <2>5. read = Wire!Good(request) BY <2>1, <2>4, Zenon DEF Wire!WireRequest
  <2> QED BY <1>1, <2>5 DEF Wire!RequestIsSound, words
<1>2. CASE request.kind \in {"EXEC", "SHELL"}
  <2>1. request = [kind |-> request.kind, bytes |-> request.bytes, crc32 |-> request.crc32]
        /\ request.bytes \in Nat /\ request.crc32 \in Nat /\ request.kind \notin Wire!PlainRequests
    BY <1>2 DEF Requests, Wire!PlainRequests
  <2>2. words = <<Wire!Bare("PRS1"), Wire!Bare(request.kind), Wire!Number(request.bytes),
                  Wire!Number(request.crc32)>>
    BY <2>1 DEF Wire!EncodeRequest
  <2>3. /\ words[2].parts[1] = request.kind /\ Len(words) = 4
        /\ words[3].number = request.bytes /\ words[4].number = request.crc32
    <3> HIDE DEF words
    <3> QED BY <2>2 DEF Wire!Bare, Wire!Number
  <2> HIDE DEF words
  <2>4. read = Wire!ParseUpload(words) BY <1>2, <2>1, <2>3 DEF Wire!DecodeRequest
  <2>5. read = IF request.bytes \in 1 .. Wire!PayloadLimit(request.kind)
               THEN Wire!Good(Wire!WireRequest(request.kind, request.bytes, request.crc32)) ELSE Wire!Bad
    BY <2>3, <2>4, Zenon DEF Wire!ParseUpload
  <2>6. read = IF request.bytes \in 1 .. Wire!PayloadLimit(request.kind) THEN Wire!Good(request) ELSE Wire!Bad
    BY <2>1, <2>5, Zenon DEF Wire!WireRequest
  <2>7. ~ Wire!Bad.ok BY DEF Wire!Bad
  <2> HIDE DEF read
  <2> QED BY <1>2, <2>1, <2>6, <2>7 DEF Wire!RequestIsSound, words, read
<1> QED BY <1>1, <1>2 DEF Requests

\* A field is found by its key only, and holds what was put in it.
LEMMA FieldWord ==
  ASSUME NEW S, NEW word \in Words(S), NEW key
  PROVE  /\ Wire!FieldValue(Wire!Field(key, word)) = word
         /\ Wire!Field(key, word).number = word.number
         /\ \A other : Wire!HasKey(Wire!Field(key, word), other) <=> other = key
<1> DEFINE field == Wire!Field(key, word)
           parts == word.parts
<1>1. parts \in Seq(S) /\ word = [parts |-> parts, number |-> word.number]
      /\ ~ (parts = <<>> /\ word.number = Wire!NoNumber)
  BY DEF Words
<1> DEFINE more == <<key>> \o parts
<1>0. \A old, new, n : [[parts |-> old, number |-> n] EXCEPT !.parts = new] = [parts |-> new, number |-> n]
  OBVIOUS
<1>2. field = [parts |-> more, number |-> word.number]
  <2>1. field = [word EXCEPT !.parts = more] BY DEF Wire!Field
  <2> HIDE DEF parts, more, field
  <2> QED BY <1>0, <1>1, <2>1
<1>3. Tail(more) = parts /\ more[1] = key /\ Len(more) > 0 /\ (more = <<key>> => parts = <<>>)
  <2> HIDE DEF parts
  <2> QED BY <1>1, SMTT(20)
<1> HIDE DEF parts, field
<1>4. field.parts = more /\ field.number = word.number BY <1>2
<1>5. Wire!FieldValue(field) = [parts |-> parts, number |-> word.number]
  <2>1. Wire!FieldValue(field) = [field EXCEPT !.parts = parts]
    <3> HIDE DEF more
    <3> QED BY <1>3, <1>4 DEF Wire!FieldValue
  <2> HIDE DEF more
  <2> QED BY <1>0, <1>2, <2>1
<1>6. ASSUME NEW other PROVE Wire!HasKey(field, other) <=> other = key
  <2>1. field # Wire!Bare(key)
    <3> SUFFICES ASSUME field = Wire!Bare(key) PROVE FALSE OBVIOUS
    <3>1. field.parts = <<key>> /\ field.number = Wire!NoNumber BY DEF Wire!Bare
    <3> QED BY <1>1, <1>3, <1>4, <3>1
  <2> HIDE DEF more
  <2> QED BY <1>3, <1>4, <2>1 DEF Wire!HasKey
<1> QED BY <1>1, <1>4, <1>5, <1>6 DEF field

\* The end of a sequence, by its elements.
LEMMA EndIs ==
  ASSUME NEW T, NEW all \in Seq(T), NEW rest \in Seq(T), NEW first \in Nat,
         Len(all) = first + Len(rest), \A n \in 1 .. Len(rest) : all[first + n] = rest[n]
  PROVE  SubSeq(all, first + 1, Len(all)) = rest
<1> DEFINE last == Len(rest)
           length == Len(all)
           sub == SubSeq(all, first + 1, length)
<1>1. last \in Nat /\ length \in Nat /\ \A n \in first + 1 .. length : all[n] \in T OBVIOUS
<1>2. /\ sub \in Seq(T)
      /\ Len(sub) = IF first + 1 <= length THEN length - (first + 1) + 1 ELSE 0
      /\ \A n \in 1 .. length - (first + 1) + 1 : sub[n] = all[(first + 1) + n - 1]
  <2>1. first + 1 \in Int /\ length \in Int BY <1>1
  <2> HIDE DEF length
  <2> QED BY <1>1, <2>1, SubSeqProperties
<1>3. Len(sub) = last /\ 1 .. length - (first + 1) + 1 = 1 .. last
      /\ \A n \in 1 .. last : (first + 1) + n - 1 = first + n
  <2>1. length = first + last OBVIOUS
  <2> HIDE DEF sub, last, length
  <2> QED BY <1>1, <1>2, <2>1
<1> HIDE DEF sub, length
<1>4. \A n \in 1 .. last : sub[n] = rest[n] BY <1>2, <1>3
<1>5. \A s, t \in Seq(T) : Len(s) = Len(t) /\ (\A n \in 1 .. Len(t) : s[n] = t[n]) => s = t OBVIOUS
<1>6. sub = rest BY <1>2, <1>3, <1>4, <1>5
<1> QED BY <1>6 DEF length, sub

\* What follows the beginning of a line.
LEMMA Behind ==
  ASSUME NEW T, NEW start \in Seq(T), NEW rest \in Seq(T)
  PROVE  /\ start \o rest \in Seq(T) /\ Len(start \o rest) = Len(start) + Len(rest)
         /\ SubSeq(start \o rest, Len(start) + 1, Len(start \o rest)) = rest
         /\ \A n \in 1 .. Len(start) : (start \o rest)[n] = start[n]
<1> DEFINE line == start \o rest
           first == Len(start)
<1>1. /\ first \in Nat /\ line \in Seq(T) /\ Len(line) = first + Len(rest)
      /\ \A n \in 1 .. first : line[n] = start[n]
      /\ \A n \in 1 .. Len(rest) : line[first + n] = rest[n]
  OBVIOUS
<1> HIDE DEF line, first
<1>2. SubSeq(line, first + 1, Len(line)) = rest BY <1>1, EndIs
<1> QED BY <1>1, <1>2 DEF line, first

\* One word more.
LEMMA Appended ==
  ASSUME NEW T, NEW s \in Seq(T), NEW e \in T, NEW longer, longer = s \o <<e>>
  PROVE  /\ longer \in Seq(T) /\ Len(longer) = Len(s) + 1 /\ longer[Len(s) + 1] = e
         /\ \A n \in 1 .. Len(s) : longer[n] = s[n]
OBVIOUS

\* A word of one part.
LEMMA BareWord ==
  ASSUME NEW part
  PROVE  /\ Wire!Bare(part).parts[1] = part
         /\ \A other : Wire!Bare(part) = Wire!Bare(other) => part = other
<1>1. \A p : <<p>>[1] = p OBVIOUS
<1>2. \A p : Wire!Bare(p).parts = <<p>> BY DEF Wire!Bare
<1>3. ASSUME NEW other, Wire!Bare(part) = Wire!Bare(other) PROVE part = other
  <2>1. <<part>> = <<other>> BY <1>2, <1>3
  <2> QED BY <1>1, <2>1
<1> QED BY <1>1, <1>2, <1>3

\* The number of a field.
LEMMA NumberField ==
  ASSUME NEW n \in Nat, NEW key
  PROVE  LET field == Wire!Field(key, Wire!Number(n)) IN
           /\ Wire!FieldValue(field) = Wire!Number(n) /\ Wire!FieldValue(field).number = n
           /\ field.number = n /\ \A other : Wire!HasKey(field, other) <=> other = key
<1>1. Wire!Number(n) \in Words({}) /\ Wire!Number(n).number = n
  <2>1. <<>> \in Seq({}) /\ n # Wire!NoNumber BY DEF Wire!NoNumber
  <2> QED BY <2>1 DEF Words, Wire!Number
<1> QED BY <1>1, FieldWord

\* The first of two words that has the name is the field.
LEMMA NamedIs ==
  ASSUME NEW first, NEW second, NEW name
  PROVE  /\ Wire!HasKey(first, name) =>
              Wire!Named(<<first, second>>, name) = Wire!Good(Wire!FieldValue(first))
         /\ ~ Wire!HasKey(first, name) /\ Wire!HasKey(second, name) =>
              Wire!Named(<<first, second>>, name) = Wire!Good(Wire!FieldValue(second))
<1> DEFINE words == <<first, second>>
           places == {n \in DOMAIN words : Wire!HasKey(words[n], name)}
           place == CHOOSE n \in places : \A m \in places : n <= m
<1>1. DOMAIN words = {1, 2} /\ words[1] = first /\ words[2] = second OBVIOUS
<1>2. Wire!Named(words, name) = IF places = {} THEN Wire!Bad ELSE Wire!Good(Wire!FieldValue(words[place]))
  BY DEF Wire!Named
<1> HIDE DEF words
<1>3. ASSUME Wire!HasKey(first, name)
      PROVE  Wire!Named(words, name) = Wire!Good(Wire!FieldValue(first))
  <2>1. 1 \in places /\ places \subseteq {1, 2} BY <1>1, <1>3
  <2> HIDE DEF places
  <2>2. \A m \in places : 1 <= m BY <2>1
  <2>3. place \in places /\ place <= 1 BY <2>1, <2>2
  <2>4. place = 1
    <3> HIDE DEF place
    <3> QED BY <2>1, <2>3
  <2> QED BY <1>1, <1>2, <2>1, <2>4
<1>4. ASSUME ~ Wire!HasKey(first, name), Wire!HasKey(second, name)
      PROVE  Wire!Named(words, name) = Wire!Good(Wire!FieldValue(second))
  <2>1. places = {2} BY <1>1, <1>4
  <2> HIDE DEF places
  <2>2. place = 2 BY <2>1
  <2> QED BY <1>1, <1>2, <2>1, <2>2
<1> QED BY <1>3, <1>4 DEF words

\* What is made of a line depends on the kind it names and what is behind.
Names(words, kind, rest) ==
  \/ words[2] = Wire!Bare("OK") /\ words[3] = Wire!Bare(kind) /\ rest = SubSeq(words, 4, Len(words))
  \/ words[2] = Wire!Bare(kind) /\ kind # "OK" /\ rest = SubSeq(words, 3, Len(words))
ReadAs(kind, rest) ==
  CASE kind \in DOMAIN Wire!Leads -> IF rest = <<>> THEN Wire!Bad ELSE Wire!Decoded(kind, rest, <<>>)
    [] kind = "ACK" -> Wire!ParseAck(rest)
    [] kind = "SHELL" ->
         IF ~ Wire!NamedNumber(rest, "bytes").ok \/ ~ Wire!Named(rest, "status").ok THEN Wire!Bad
         ELSE Wire!Decoded(kind, <<Wire!Named(rest, "status").value>>,
                           <<Wire!NamedNumber(rest, "bytes").value>>)
    [] kind = "FRAMEBUFFER" -> Wire!ParseFramebuffer(rest)
    [] OTHER -> IF rest = <<>> THEN Wire!Decoded(kind, <<>>, <<>>) ELSE Wire!Bad

LEMMA KindRead ==
  ASSUME NEW words, NEW length \in Nat, length <= Wire!MAX_LINE_LEN,
         NEW kind, NEW rest, Names(words, kind, rest)
  PROVE  Wire!DecodeResponse(Wire!WireLine(words, length)) = ReadAs(kind, rest)
<1> DEFINE line == Wire!WireLine(words, length)
           found == IF words[2] = Wire!Bare("OK") THEN words[3].parts[1] ELSE words[2].parts[1]
           behind == SubSeq(words, IF words[2] = Wire!Bare("OK") THEN 4 ELSE 3, Len(words))
<1>1. line.words = words /\ line.length = length BY DEF Wire!WireLine
<1>2. found = kind /\ behind = rest
  <2>1. Wire!Bare(kind).parts[1] = kind /\ (Wire!Bare(kind) = Wire!Bare("OK") => kind = "OK") BY BareWord
  <2> QED BY <2>1 DEF Names
<1>3. ~ (length > Wire!MAX_LINE_LEN) BY DEF Wire!MAX_LINE_LEN
<1> HIDE DEF line, found, behind
<1>4. Wire!DecodeResponse(line) = ReadAs(kind, rest)
  BY <1>1, <1>2, <1>3 DEF Wire!DecodeResponse, ReadAs, found, behind
<1> QED BY <1>4 DEF line

\* A line longer than the reader takes is refused.
LEMMA LongRefused ==
  ASSUME NEW words, NEW length \in Nat, length > Wire!MAX_LINE_LEN
  PROVE  Wire!DecodeResponse(Wire!WireLine(words, length)) = Wire!Bad
BY DEF Wire!DecodeResponse, Wire!WireLine

\* The kinds of responses, one by one.
LEMMA Kinds ==
  /\ DOMAIN Wire!Leads = {"INFO", "STATUS", "PROBE", "RENDERED", "READY", "EXEC", "ERR"}
  /\ \A kind, rest :
       /\ kind \in DOMAIN Wire!Leads =>
            ReadAs(kind, rest) = IF rest = <<>> THEN Wire!Bad ELSE Wire!Decoded(kind, rest, <<>>)
       /\ kind = "ACK" => ReadAs(kind, rest) = Wire!ParseAck(rest)
       /\ kind = "SHELL" /\ Wire!NamedNumber(rest, "bytes").ok /\ Wire!Named(rest, "status").ok =>
            ReadAs(kind, rest) = Wire!Decoded(kind, <<Wire!Named(rest, "status").value>>,
                                              <<Wire!NamedNumber(rest, "bytes").value>>)
       /\ kind = "FRAMEBUFFER" => ReadAs(kind, rest) = Wire!ParseFramebuffer(rest)
       /\ kind \in {"PONG", "REBOOTING"} /\ rest = <<>> => ReadAs(kind, rest) = Wire!Decoded(kind, <<>>, <<>>)
<1>1. DOMAIN Wire!Leads = {"INFO", "STATUS", "PROBE", "RENDERED", "READY", "EXEC", "ERR"} BY DEF Wire!Leads
<1> QED BY <1>1 DEF ReadAs

\* The responses that are a text are read as they were written.
LEMMA LeadRead ==
  ASSUME NEW S, NEW kind \in DOMAIN Wire!Leads, NEW words \in Seq(Words(S)), NEW length \in Nat,
         length <= Wire!MAX_LINE_LEN
  PROVE  Wire!DecodeResponse(Wire!WireLine(Wire!Leading(kind) \o words, length))
           = IF words = <<>> THEN Wire!Bad ELSE Wire!Decoded(kind, words, <<>>)
<1> DEFINE T == Words(S) \union {Wire!Bare("PRS1"), Wire!Bare("OK"), Wire!Bare(kind)}
           start == Wire!Leading(kind)
           all == start \o words
<1>1. kind \in {"INFO", "STATUS", "PROBE", "RENDERED", "READY", "EXEC", "ERR"} /\ kind # "OK"
  BY DEF Wire!Leads
<1>0. words \in Seq(T)
  <2>1. \A A, B : A \subseteq B => \A s \in Seq(A) : s \in Seq(B) OBVIOUS
  <2> QED BY <2>1
<1>2. Names(all, kind, words)
  <2>1. Wire!Bare("PRS1") \in T /\ Wire!Bare("OK") \in T /\ Wire!Bare(kind) \in T
    OBVIOUS
  <2>2. CASE kind \in {"READY", "ERR"}
    <3>1. start = <<Wire!Bare("PRS1"), Wire!Bare(kind)>> BY <2>2 DEF Wire!Leading
    <3> HIDE DEF start, T
    <3>2. start \in Seq(T) /\ Len(start) = 2 /\ start[2] = Wire!Bare(kind) BY <2>1, <3>1
    <3>3. (\A n \in 1 .. Len(start) : all[n] = start[n])
          /\ SubSeq(all, Len(start) + 1, Len(all)) = words
      BY <1>0, <3>2, Behind
    <3> HIDE DEF all
    <3> QED BY <1>1, <2>1, <3>2, <3>3 DEF Names
  <2>3. CASE kind \notin {"READY", "ERR"}
    <3>1. start = <<Wire!Bare("PRS1"), Wire!Bare("OK"), Wire!Bare(kind)>> BY <2>3 DEF Wire!Leading
    <3> HIDE DEF start, T
    <3>2. start \in Seq(T) /\ Len(start) = 3 /\ start[2] = Wire!Bare("OK")
          /\ start[3] = Wire!Bare(kind)
      BY <2>1, <3>1
    <3>3. (\A n \in 1 .. Len(start) : all[n] = start[n])
          /\ SubSeq(all, Len(start) + 1, Len(all)) = words
      BY <1>0, <3>2, Behind
    <3> HIDE DEF all
    <3> QED BY <1>1, <2>1, <3>2, <3>3 DEF Names
  <2> QED BY <2>2, <2>3
<1> HIDE DEF all
<1>3. Wire!DecodeResponse(Wire!WireLine(all, length)) = ReadAs(kind, words) BY <1>2, KindRead
<1> QED BY <1>3, Kinds DEF all

\* An acknowledgement of one word, which is no number of bytes.
LEMMA AckRead ==
  ASSUME NEW word, ~ Wire!HasKey(word, "bytes"), NEW count \in Nat,
         NEW length \in Nat, length <= Wire!MAX_LINE_LEN
  PROVE  Wire!DecodeResponse(Wire!WireLine(
           <<Wire!Bare("PRS1"), Wire!Bare("ACK")>> \o <<word>> \o <<Wire!Field("bytes", Wire!Number(count))>>,
           length)) = Wire!Decoded("ACK", <<word>>, <<count>>)
<1> DEFINE field == Wire!Field("bytes", Wire!Number(count))
           one == Wire!Bare("PRS1")
           two == Wire!Bare("ACK")
           words == <<one, two>> \o <<word>> \o <<field>>
           rest == <<word, field>>
<1>2. /\ Wire!FieldValue(field).number = count /\ Wire!HasKey(field, "bytes") BY NumberField
<1> HIDE DEF field, one, two
<1>3. words[2] = two /\ SubSeq(words, 3, Len(words)) = rest
  <2> DEFINE T == {one, two, word, field}
             start == <<one, two>>
             middle == start \o <<word>>
  <2>1. one \in T /\ two \in T /\ word \in T /\ field \in T OBVIOUS
  <2> HIDE DEF T
  <2>2. start \in Seq(T) /\ Len(start) = 2 /\ start[2] = two BY <2>1
  <2>3. rest \in Seq(T) /\ Len(rest) = 2 /\ rest[1] = word /\ rest[2] = field BY <2>1
  <2> HIDE DEF start, rest
  <2>4. middle \in Seq(T) /\ Len(middle) = 3 /\ middle[2] = two /\ middle[3] = word
    <3>1. /\ middle \in Seq(T) /\ Len(middle) = Len(start) + 1 /\ middle[Len(start) + 1] = word
          /\ \A n \in 1 .. Len(start) : middle[n] = start[n]
      <4>1. middle = start \o <<word>> OBVIOUS
      <4> HIDE DEF middle
      <4> QED BY <2>1, <2>2, <4>1, Appended
    <3> HIDE DEF middle
    <3> QED BY <2>2, <3>1
  <2> HIDE DEF middle
  <2>5. words \in Seq(T) /\ Len(words) = 4 /\ words[2] = two /\ words[3] = word /\ words[4] = field
    <3>1. words = middle \o <<field>> BY DEF middle, start
    <3>2. /\ words \in Seq(T) /\ Len(words) = Len(middle) + 1 /\ words[Len(middle) + 1] = field
          /\ \A n \in 1 .. Len(middle) : words[n] = middle[n]
      BY <2>1, <2>4, <3>1, Appended
    <3> HIDE DEF words
    <3> QED BY <2>4, <3>2
  <2> HIDE DEF words
  <2>6. \A n \in 1 .. Len(rest) : words[2 + n] = rest[n] BY <2>3, <2>5
  <2>7. SubSeq(words, 2 + 1, Len(words)) = rest BY <2>3, <2>5, <2>6, EndIs
  <2> QED BY <2>5, <2>7
<1> HIDE DEF words
<1>4. Wire!DecodeResponse(Wire!WireLine(words, length)) = Wire!ParseAck(rest)
  <2>1. Names(words, "ACK", rest) BY <1>3 DEF two, Names
  <2> HIDE DEF rest
  <2>2. Wire!DecodeResponse(Wire!WireLine(words, length)) = ReadAs("ACK", rest) BY <2>1, KindRead
  <2> QED BY <2>2, Kinds
<1>5. Wire!Named(rest, "bytes") = Wire!Good(Wire!FieldValue(field)) BY <1>2, NamedIs
<1>6. rest[1] = word OBVIOUS
<1> HIDE DEF rest
<1>7. Wire!NamedNumber(rest, "bytes") = Wire!Good(count)
  <2>1. Wire!Named(rest, "bytes").ok /\ Wire!Named(rest, "bytes").value.number = count /\ count # Wire!NoNumber
    BY <1>2, <1>5 DEF Wire!Good, Wire!NoNumber
  <2> QED BY <2>1 DEF Wire!NamedNumber
<1>8. Wire!ParseAck(rest) = Wire!Decoded("ACK", <<word>>, <<count>>)
  BY <1>6, <1>7 DEF Wire!ParseAck, Wire!Good
<1> QED BY <1>4, <1>8 DEF words, one, two, field

\* The header of a command's output, with a status of one word.
LEMMA ShellRead ==
  ASSUME NEW S, NEW word \in Words(S), NEW count \in Nat, NEW length \in Nat, length <= Wire!MAX_LINE_LEN
  PROVE  Wire!DecodeResponse(Wire!WireLine(
           <<Wire!Bare("PRS1"), Wire!Bare("OK"), Wire!Bare("SHELL"), Wire!Field("bytes", Wire!Number(count)),
             Wire!Field("status", word)>> \o <<>>, length)) = Wire!Decoded("SHELL", <<word>>, <<count>>)
<1> DEFINE bytes == Wire!Field("bytes", Wire!Number(count))
           status == Wire!Field("status", word)
           one == Wire!Bare("PRS1")
           two == Wire!Bare("OK")
           three == Wire!Bare("SHELL")
           words == <<one, two, three, bytes, status>> \o <<>>
           rest == <<bytes, status>>
<1>2. /\ Wire!FieldValue(bytes).number = count
      /\ \A other : Wire!HasKey(bytes, other) <=> other = "bytes"
  BY NumberField
<1>3. Wire!FieldValue(status) = word /\ Wire!HasKey(status, "status") BY FieldWord
<1> HIDE DEF bytes, status, one, two, three
<1>4. words[2] = two /\ words[3] = three /\ SubSeq(words, 4, Len(words)) = rest
  <2> DEFINE T == {one, two, three, bytes, status}
             start == <<one, two, three, bytes, status>>
  <2>1. one \in T /\ two \in T /\ three \in T /\ bytes \in T /\ status \in T OBVIOUS
  <2> HIDE DEF T
  <2>2. start \in Seq(T) /\ Len(start) = 5 /\ start[2] = two /\ start[3] = three
        /\ start[4] = bytes /\ start[5] = status
    BY <2>1
  <2>3. rest \in Seq(T) /\ Len(rest) = 2 /\ rest[1] = bytes /\ rest[2] = status BY <2>1
  <2> HIDE DEF start, rest
  <2>4. /\ words \in Seq(T) /\ Len(words) = 5 /\ words[2] = two /\ words[3] = three
        /\ words[4] = bytes /\ words[5] = status
    <3>1. words = start BY <2>2, ConcatEmptySeq DEF start
    <3> HIDE DEF words
    <3> QED BY <2>2, <3>1
  <2> HIDE DEF words
  <2>5. \A n \in 1 .. Len(rest) : words[3 + n] = rest[n] BY <2>3, <2>4
  <2>6. SubSeq(words, 3 + 1, Len(words)) = rest BY <2>3, <2>4, <2>5, EndIs
  <2> QED BY <2>4, <2>6
<1> HIDE DEF words
<1>5. Wire!Named(rest, "bytes") = Wire!Good(Wire!FieldValue(bytes)) BY <1>2, NamedIs
<1>6. Wire!Named(rest, "status") = Wire!Good(word)
  <2>1. ~ Wire!HasKey(bytes, "status") BY <1>2
  <2> QED BY <1>3, <2>1, NamedIs
<1> HIDE DEF rest
<1>7. Wire!NamedNumber(rest, "bytes") = Wire!Good(count)
  <2>1. Wire!Named(rest, "bytes").ok /\ Wire!Named(rest, "bytes").value.number = count /\ count # Wire!NoNumber
    BY <1>2, <1>5 DEF Wire!Good, Wire!NoNumber
  <2> QED BY <2>1 DEF Wire!NamedNumber
<1>8. Wire!NamedNumber(rest, "bytes").ok /\ Wire!Named(rest, "status").ok
      /\ Wire!NamedNumber(rest, "bytes").value = count /\ Wire!Named(rest, "status").value = word
  BY <1>6, <1>7 DEF Wire!Good
<1>9. Wire!DecodeResponse(Wire!WireLine(words, length)) = Wire!Decoded("SHELL", <<word>>, <<count>>)
  <2>1. Wire!DecodeResponse(Wire!WireLine(words, length)) =
          Wire!Decoded("SHELL", <<Wire!Named(rest, "status").value>>, <<Wire!NamedNumber(rest, "bytes").value>>)
    <3>1. Names(words, "SHELL", rest) BY <1>4 DEF two, three, Names
    <3> HIDE DEF words, rest
    <3> QED BY <1>8, <3>1, KindRead, Kinds
  <2> QED BY <1>8, <2>1
<1> QED BY <1>9 DEF words, one, two, three, bytes, status

\* The header of a frame, with a format of one word.
LEMMA FrameRead ==
  ASSUME NEW S, NEW word \in Words(S), NEW width \in Nat \ {0}, NEW height \in Nat \ {0},
         NEW bytes \in Nat \ {0}, NEW length \in Nat, length <= Wire!MAX_LINE_LEN
  PROVE  Wire!DecodeResponse(Wire!WireLine(
           <<Wire!Bare("PRS1"), Wire!Bare("OK"), Wire!Bare("FRAMEBUFFER"),
             Wire!Field("width", Wire!Number(width)), Wire!Field("height", Wire!Number(height)),
             Wire!Field("format", word)>> \o <<>> \o <<Wire!Field("bytes", Wire!Number(bytes))>>, length))
           = Wire!Decoded("FRAMEBUFFER", <<word>>, <<width, height, bytes>>)
<1> DEFINE w == Wire!Field("width", Wire!Number(width))
           h == Wire!Field("height", Wire!Number(height))
           f == Wire!Field("format", word)
           b == Wire!Field("bytes", Wire!Number(bytes))
           one == Wire!Bare("PRS1")
           two == Wire!Bare("OK")
           three == Wire!Bare("FRAMEBUFFER")
           words == <<one, two, three, w, h, f>> \o <<>> \o <<b>>
           rest == <<w, h, f, b>>
<1>2. /\ w.number = width /\ Wire!HasKey(w, "width") /\ h.number = height /\ Wire!HasKey(h, "height")
      /\ b.number = bytes /\ Wire!HasKey(b, "bytes")
  BY NumberField
<1>3. Wire!FieldValue(f) = word /\ Wire!HasKey(f, "format") BY FieldWord
<1> HIDE DEF w, h, f, b, one, two, three
<1>4. words[2] = two /\ words[3] = three /\ SubSeq(words, 4, Len(words)) = rest
  <2> DEFINE T == {one, two, three, w, h, f, b}
             start == <<one, two, three, w, h, f>>
             longer == start \o <<b>>
  <2>1. one \in T /\ two \in T /\ three \in T /\ w \in T /\ h \in T /\ f \in T /\ b \in T OBVIOUS
  <2> HIDE DEF T
  <2>2. start \in Seq(T) /\ Len(start) = 6 /\ start[2] = two /\ start[3] = three
        /\ start[4] = w /\ start[5] = h /\ start[6] = f
    BY <2>1
  <2>3. /\ rest \in Seq(T) /\ Len(rest) = 4
        /\ rest[1] = w /\ rest[2] = h /\ rest[3] = f /\ rest[4] = b
    BY <2>1
  <2> HIDE DEF start, rest
  <2>4. words = longer
    <3>1. start \o <<>> = start BY <2>2, ConcatEmptySeq
    <3> QED BY <3>1 DEF start
  <2> HIDE DEF words
  <2>5. /\ words \in Seq(T) /\ Len(words) = 7 /\ words[2] = two /\ words[3] = three
        /\ words[4] = w /\ words[5] = h /\ words[6] = f /\ words[7] = b
    <3>1. /\ longer \in Seq(T) /\ Len(longer) = Len(start) + 1 /\ longer[Len(start) + 1] = b
          /\ \A n \in 1 .. Len(start) : longer[n] = start[n]
      <4>1. longer = start \o <<b>> OBVIOUS
      <4>2. start \in Seq(T) /\ b \in T BY <2>1, <2>2
      <4> HIDE DEF longer
      <4> QED BY <4>1, <4>2, Appended
    <3> HIDE DEF longer
    <3> QED BY <2>2, <2>4, <3>1
  <2>6. \A n \in 1 .. Len(rest) : words[3 + n] = rest[n] BY <2>3, <2>5
  <2>7. SubSeq(words, 3 + 1, Len(words)) = rest BY <2>3, <2>5, <2>6, EndIs
  <2> QED BY <2>5, <2>7
<1> HIDE DEF words
<1>5. Len(rest) = 4 /\ rest[1] = w /\ rest[2] = h /\ rest[3] = f /\ rest[4] = b OBVIOUS
<1> HIDE DEF rest
<1>6. Wire!ParseFramebuffer(rest) = Wire!Decoded("FRAMEBUFFER", <<word>>, <<width, height, bytes>>)
  BY <1>2, <1>3, <1>5 DEF Wire!ParseFramebuffer
<1>7. Wire!DecodeResponse(Wire!WireLine(words, length)) = Wire!ParseFramebuffer(rest)
  <2>1. Names(words, "FRAMEBUFFER", rest) BY <1>4 DEF two, three, Names
  <2> HIDE DEF words, rest
  <2>2. Wire!DecodeResponse(Wire!WireLine(words, length)) = ReadAs("FRAMEBUFFER", rest) BY <2>1, KindRead
  <2> QED BY <2>2, Kinds
<1> QED BY <1>6, <1>7 DEF words, one, two, three, w, h, f, b

\* ResponseIsSound, for texts of any words and numbers of any size.
THEOREM ResponseSound ==
  ASSUME NEW S, NEW response \in Responses(S)
  PROVE  Wire!ResponseIsSound(response)
<1> DEFINE kind == response.kind
           text == response.text
           numbers == response.numbers
           words == text.words
           line == Wire!EncodeResponse(response)
           read == Wire!DecodeResponse(line.value)
           same == [kind |-> kind, words |-> words, numbers |-> numbers]
           field == kind \in {"ACK", "SHELL", "FRAMEBUFFER"}
           sound ==
             line.ok =>
               /\ line.value.length <= Wire!MAX_LINE_LEN + 21
               /\ (/\ line.value.length <= Wire!MAX_LINE_LEN
                   /\ field => Len(words) = 1
                   /\ kind = "ACK" => ~ Wire!HasKey(words[1], "bytes"))
                    => read = Wire!Good(same)
               /\ read.ok /\ ~ field => read = Wire!Good(same)
<1>1. Wire!ResponseIsSound(response) <=> sound BY DEF Wire!ResponseIsSound
<1>2. \A k, w, n : Wire!Decoded(k, w, n) = Wire!Good([kind |-> k, words |-> w, numbers |-> n])
  BY DEF Wire!Decoded
<1>3. \A v : Wire!Good(v).ok /\ Wire!Good(v).value = v BY DEF Wire!Good
<1>4. \A w, n : Wire!WireLine(w, n).length = n BY DEF Wire!WireLine
<1>5. ~ Wire!Bad.ok BY DEF Wire!Bad
<1>6. Wire!MAX_LINE_LEN = 1024 BY DEF Wire!MAX_LINE_LEN
<1>7. /\ DOMAIN Wire!Leads = {"INFO", "STATUS", "PROBE", "RENDERED", "READY", "EXEC", "ERR"}
      /\ Wire!Leads["ERR"] = 9
      /\ \A k \in DOMAIN Wire!Leads : Wire!Leads[k] \in Nat /\ Wire!Leads[k] <= 17
  BY DEF Wire!Leads
<1>8. text \in Texts(S) =>
        /\ words \in Seq(Words(S)) /\ text.length \in Nat
        /\ Wire!Valid(text) => words # <<>> /\ text.length <= 1015
  BY <1>6, <1>7 DEF Texts, Wire!Valid
<1>9. words \in Seq(Words(S)) /\ Len(words) = 1 => words = <<words[1]>> /\ words[1] \in Words(S)
                                                    /\ Tail(words) = <<>>
  <2> DEFINE T == Words(S)
  <2> HIDE DEF words, T
  <2> SUFFICES ASSUME words \in Seq(T), Len(words) = 1
               PROVE  words = <<words[1]>> /\ words[1] \in T /\ Tail(words) = <<>>
    BY DEF T
  <2>1. words # <<>> /\ words[1] \in T OBVIOUS
  <2>2. Tail(words) \in Seq(T) /\ Len(Tail(words)) = 0 BY <2>1, HeadTailProperties
  <2> DEFINE one == <<words[1]>>
  <2>3. one \in Seq(T) /\ Len(one) = 1 /\ one[1] = words[1] BY <2>1
  <2>4. \A a, b \in Seq(T) : Len(a) = 1 /\ Len(b) = 1 /\ a[1] = b[1] => a = b OBVIOUS
  <2>5. Tail(words) = <<>>
    <3> DEFINE rest == Tail(words)
    <3>1. \A s \in Seq(T) : Len(s) = 0 => s = <<>> OBVIOUS
    <3>2. rest \in Seq(T) /\ Len(rest) = 0 BY <2>2
    <3> HIDE DEF rest
    <3>3. rest = <<>> BY <3>1, <3>2
    <3> QED BY <3>3 DEF rest
  <2> HIDE DEF one
  <2>6. words = one BY <2>3, <2>4
  <2> QED BY <2>1, <2>5, <2>6 DEF one
<1>10. CASE response \in [kind : DOMAIN Wire!Leads, text : Texts(S), numbers : {<<>>}]
  <2> DEFINE length == Wire!Leads[kind] + text.length + 1
             wire == Wire!WireLine(Wire!Leading(kind) \o words, length)
  <2>1. kind \in DOMAIN Wire!Leads /\ text \in Texts(S) /\ numbers = <<>> /\ ~ field BY <1>7, <1>10
  <2>2. line = IF Wire!Valid(text) THEN Wire!Good(wire) ELSE Wire!Bad
    BY <1>7, <2>1 DEF Wire!EncodeResponse
  <2>3. CASE ~ Wire!Valid(text)
    <3>1. ~ line.ok BY <1>5, <2>2, <2>3
    <3> QED BY <1>1, <3>1
  <2>4. CASE Wire!Valid(text)
    <3>1. line.ok /\ line.value = wire BY <1>3, <2>2, <2>4
    <3>2. words # <<>> /\ words \in Seq(Words(S)) /\ length \in Nat /\ length <= 1024 + 21
      <4> DEFINE lead == Wire!Leads[kind]
      <4>1. lead \in Nat /\ lead <= 17 BY <1>7, <2>1
      <4>2. words # <<>> /\ words \in Seq(Words(S)) /\ text.length \in Nat /\ text.length <= 1015
        BY <1>8, <2>1, <2>4
      <4> HIDE DEF lead, words, text
      <4> QED BY <4>1, <4>2 DEF lead
    <3>3. wire.length = length BY <1>4
    <3> HIDE DEF line, length, wire, words
    <3>4. CASE length <= Wire!MAX_LINE_LEN
      <4>1. Wire!DecodeResponse(wire) = Wire!Decoded(kind, words, <<>>)
        BY <2>1, <3>2, <3>4, LeadRead DEF wire
      <4>2. read = Wire!Good(same) BY <1>2, <2>1, <3>1, <4>1
      <4> QED BY <1>1, <1>6, <3>1, <3>2, <3>3, <4>2
    <3>5. CASE length > Wire!MAX_LINE_LEN
      <4>1. Wire!DecodeResponse(wire) = Wire!Bad BY <3>2, <3>5, LongRefused DEF wire
      <4> HIDE DEF same, field
      <4> QED BY <1>1, <1>5, <1>6, <3>1, <3>2, <3>3, <3>5, <4>1
    <3> QED BY <1>6, <3>2, <3>4, <3>5
  <2> QED BY <2>3, <2>4
<1>11. CASE response \in [kind : {"ACK"}, text : Texts(S), numbers : [1 .. 1 -> Nat]]
  <2> DEFINE length == 18 + text.length
             all == <<Wire!Bare("PRS1"), Wire!Bare("ACK")>> \o words
                      \o <<Wire!Field("bytes", Wire!Number(numbers[1]))>>
             wire == Wire!WireLine(all, length)
  <2>1. kind = "ACK" /\ text \in Texts(S) /\ numbers \in [1 .. 1 -> Nat] /\ field BY <1>11
  <2>2. line = IF Wire!Valid(text) THEN Wire!Good(wire) ELSE Wire!Bad
    BY <1>7, <2>1 DEF Wire!EncodeResponse
  <2>3. CASE ~ Wire!Valid(text)
    <3>1. ~ line.ok BY <1>5, <2>2, <2>3
    <3> QED BY <1>1, <3>1
  <2>4. CASE Wire!Valid(text)
    <3>1. line.ok /\ line.value = wire BY <1>3, <2>2, <2>4
    <3>2. words \in Seq(Words(S)) /\ length \in Nat /\ length <= 1024 + 21 BY <1>8, <2>1, <2>4
    <3>3. wire.length = length BY <1>4
    <3>4. ASSUME length <= Wire!MAX_LINE_LEN, Len(words) = 1, ~ Wire!HasKey(words[1], "bytes")
          PROVE  read = Wire!Good(same)
      <4> DEFINE word == words[1]
                 count == numbers[1]
      <4>1. words = <<word>> BY <1>9, <3>2, <3>4
      <4>2. numbers = <<count>> /\ count \in Nat BY <2>1
      <4>3. all = <<Wire!Bare("PRS1"), Wire!Bare("ACK")>> \o <<word>>
                    \o <<Wire!Field("bytes", Wire!Number(count))>>
        BY <4>1
      <4> HIDE DEF word, count, all, length
      <4>4. Wire!DecodeResponse(Wire!WireLine(all, length)) = Wire!Decoded("ACK", <<word>>, <<count>>)
        BY <3>2, <3>4, <4>2, <4>3, AckRead DEF word
      <4> QED BY <1>2, <2>1, <3>1, <4>1, <4>2, <4>4
    <3> HIDE DEF read, same, wire, length
    <3> QED BY <1>1, <1>6, <2>1, <3>1, <3>2, <3>3, <3>4
  <2> QED BY <2>3, <2>4
<1>12. CASE response \in [kind : {"SHELL"}, text : Texts(S), numbers : [1 .. 1 -> Nat]]
  <2> DEFINE length == 30 + text.length
             all == <<Wire!Bare("PRS1"), Wire!Bare("OK"), Wire!Bare("SHELL"),
                      Wire!Field("bytes", Wire!Number(numbers[1])), Wire!Field("status", words[1])>>
                      \o Tail(words)
             wire == Wire!WireLine(all, length)
  <2>1. kind = "SHELL" /\ text \in Texts(S) /\ numbers \in [1 .. 1 -> Nat] /\ field BY <1>12
  <2>2. line = IF Wire!Valid(text) THEN Wire!Good(wire) ELSE Wire!Bad
    BY <1>7, <2>1 DEF Wire!EncodeResponse
  <2>3. CASE ~ Wire!Valid(text)
    <3>1. ~ line.ok BY <1>5, <2>2, <2>3
    <3> QED BY <1>1, <3>1
  <2>4. CASE Wire!Valid(text)
    <3>1. line.ok /\ line.value = wire BY <1>3, <2>2, <2>4
    <3>2. words \in Seq(Words(S)) /\ length \in Nat /\ length <= 1024 + 21 BY <1>8, <2>1, <2>4
    <3>3. wire.length = length BY <1>4
    <3>4. ASSUME length <= Wire!MAX_LINE_LEN, Len(words) = 1 PROVE read = Wire!Good(same)
      <4> DEFINE word == words[1]
                 count == numbers[1]
      <4>1. words = <<word>> /\ word \in Words(S) /\ Tail(words) = <<>> BY <1>9, <3>2, <3>4
      <4>2. numbers = <<count>> /\ count \in Nat BY <2>1
      <4>3. all = <<Wire!Bare("PRS1"), Wire!Bare("OK"), Wire!Bare("SHELL"),
                    Wire!Field("bytes", Wire!Number(count)), Wire!Field("status", word)>> \o <<>>
        BY <4>1
      <4> HIDE DEF word, count, all, length
      <4>4. Wire!DecodeResponse(Wire!WireLine(all, length)) = Wire!Decoded("SHELL", <<word>>, <<count>>)
        BY <3>2, <3>4, <4>1, <4>2, <4>3, ShellRead
      <4> QED BY <1>2, <2>1, <3>1, <4>1, <4>2, <4>4
    <3> HIDE DEF read, same, wire, length
    <3> QED BY <1>1, <1>6, <2>1, <3>1, <3>2, <3>3, <3>4
  <2> QED BY <2>3, <2>4
<1>13. CASE response \in [kind : {"FRAMEBUFFER"}, text : Texts(S), numbers : [1 .. 3 -> Nat]]
  <2> DEFINE length == 53 + text.length
             all == <<Wire!Bare("PRS1"), Wire!Bare("OK"), Wire!Bare("FRAMEBUFFER"),
                      Wire!Field("width", Wire!Number(numbers[1])),
                      Wire!Field("height", Wire!Number(numbers[2])), Wire!Field("format", words[1])>>
                      \o Tail(words) \o <<Wire!Field("bytes", Wire!Number(numbers[3]))>>
             wire == Wire!WireLine(all, length)
             fits == Wire!Valid(text) /\ 0 \notin {numbers[n] : n \in DOMAIN numbers}
                     /\ length <= Wire!MAX_LINE_LEN
  <2>1. kind = "FRAMEBUFFER" /\ text \in Texts(S) /\ numbers \in [1 .. 3 -> Nat] /\ field BY <1>13
  <2>2. line = IF fits THEN Wire!Good(wire) ELSE Wire!Bad
    <3>1. line = Wire!EncodeFramebuffer(text, numbers) BY <1>7, <2>1 DEF Wire!EncodeResponse
    <3> QED BY <3>1 DEF Wire!EncodeFramebuffer
  <2>3. CASE ~ fits
    <3>1. ~ line.ok BY <1>5, <2>2, <2>3
    <3> QED BY <1>1, <3>1
  <2>4. CASE fits
    <3>1. line.ok /\ line.value = wire BY <1>3, <2>2, <2>4
    <3>2. words \in Seq(Words(S)) /\ length \in Nat /\ length <= Wire!MAX_LINE_LEN BY <1>8, <2>1, <2>4
    <3>3. wire.length = length BY <1>4
    <3>4. ASSUME Len(words) = 1 PROVE read = Wire!Good(same)
      <4> DEFINE word == words[1]
                 width == numbers[1]
                 height == numbers[2]
                 bytes == numbers[3]
      <4>1. words = <<word>> /\ word \in Words(S) /\ Tail(words) = <<>> BY <1>9, <3>2, <3>4
      <4>2. numbers = <<width, height, bytes>> BY <2>1
      <4>3. width \in Nat \ {0} /\ height \in Nat \ {0} /\ bytes \in Nat \ {0} BY <2>1, <2>4
      <4>4. all = <<Wire!Bare("PRS1"), Wire!Bare("OK"), Wire!Bare("FRAMEBUFFER"),
                    Wire!Field("width", Wire!Number(width)), Wire!Field("height", Wire!Number(height)),
                    Wire!Field("format", word)>> \o <<>> \o <<Wire!Field("bytes", Wire!Number(bytes))>>
        BY <4>1
      <4> HIDE DEF word, width, height, bytes, all, length
      <4>5. Wire!DecodeResponse(Wire!WireLine(all, length))
              = Wire!Decoded("FRAMEBUFFER", <<word>>, <<width, height, bytes>>)
        BY <3>2, <4>1, <4>3, <4>4, FrameRead
      <4> QED BY <1>2, <2>1, <3>1, <4>1, <4>2, <4>5
    <3> HIDE DEF read, same, wire, length
    <3> QED BY <1>1, <1>6, <2>1, <3>1, <3>2, <3>3, <3>4
  <2> QED BY <2>3, <2>4
<1>14. CASE response \in [kind : {"PONG", "REBOOTING"}, text : {Wire!Text(<<>>, 0, FALSE)}, numbers : {<<>>}]
  <2> DEFINE all == <<Wire!Bare("PRS1"), Wire!Bare("OK"), Wire!Bare(kind)>>
             wire == Wire!WireLine(all, 8 + 9)
  <2>1. kind \in {"PONG", "REBOOTING"} /\ words = <<>> /\ numbers = <<>> /\ ~ field
    BY <1>14 DEF Wire!Text
  <2>2. line = Wire!Good(wire) BY <1>7, <2>1 DEF Wire!EncodeResponse
  <2>3. line.ok /\ line.value = wire /\ wire.length = 17 BY <1>3, <1>4, <2>2
  <2>4. Names(all, kind, <<>>)
    <3>1. \A a, b, c : <<a, b, c>>[2] = b /\ <<a, b, c>>[3] = c /\ SubSeq(<<a, b, c>>, 4, Len(<<a, b, c>>)) = <<>>
      <4> TAKE a, b, c
      <4>1. Len(<<a, b, c>>) = 3 OBVIOUS
      <4> QED BY <4>1, SubSeqEmpty
    <3> QED BY <3>1 DEF Names
  <2> HIDE DEF all
  <2>5. Wire!DecodeResponse(wire) = ReadAs(kind, <<>>) BY <1>6, <2>4, KindRead
  <2>6. ReadAs(kind, <<>>) = Wire!Decoded(kind, <<>>, <<>>) BY <2>1, Kinds
  <2>7. read = Wire!Good(same) BY <1>2, <2>1, <2>3, <2>5, <2>6
  <2> HIDE DEF read, same, wire, line
  <2> QED BY <1>1, <1>6, <2>1, <2>3, <2>7
<1> QED BY <1>10, <1>11, <1>12, <1>13, <1>14 DEF Responses

=============================================================================

---------------------------- MODULE LibraryBudget ---------------------------
(***************************************************************************)
(* The room a synchronization takes on the tmpfs of the reader (sync.rs):  *)
(* the library in use is measured, the announced archive is compared with  *)
(* the configured limit, the archive is streamed to a file, and what is    *)
(* left bounds its extraction.  An attempt is an operator of the library,  *)
(* the answer of the server and the limit.  Sums that leave 64 bits are    *)
(* refused by the code; no file system holds as much.  What lies there     *)
(* besides (retired generations, files an earlier process left) is not     *)
(* counted by the code, nor here.                                          *)
(***************************************************************************)
EXTENDS Integers, Sequences

\* MAX_BUNDLE_SIZE; the header of an entry counts one.
CONSTANT MaxBundleSize

NotAnnounced == -1

Total(sizes) ==
  LET sum[n \in 0 .. Len(sizes)] == IF n = 0 THEN 0 ELSE sum[n - 1] + sizes[n]
  IN  sum[Len(sizes)]
SumTo(sizes, n) == Total(SubSeq(sizes, 1, n))
Smaller(m, n) == IF m < n THEN m ELSE n

Nodes == [kind : {"file", "link", "other"}, size : {1, 3}]

\* existing_library_size and directory_size: what the link `current` leads to.
Measurable(place, nodes) ==
  \/ place = "absent"
  \/ place = "generation" /\ \A n \in DOMAIN nodes : nodes[n].kind # "link"
LibrarySize(place, nodes) ==
  IF place = "absent" THEN 0
  ELSE Total([n \in DOMAIN nodes |-> IF nodes[n].kind = "file" THEN nodes[n].size ELSE 0])

FaultyRequired(library, archive) == archive
Required(library, archive) == library + archive
Available(limit, library, archive) == limit - Required(library, archive)

Attempt(outcome, peak) == [outcome |-> outcome, peak |-> peak]

\* The answer of the server: the length it announces and the pieces that
\* arrive.  HTTP delivers no more than was announced.
Answers(pieces) ==
  {[announced |-> announced, pieces |-> pieces] :
     announced \in {NotAnnounced} \union Total(pieces) .. MaxBundleSize + 1}
Bound(answer) == IF answer.announced = NotAnnounced THEN MaxBundleSize ELSE answer.announced

\* stream_bundle: the pieces written before one exceeds the bound.
Streamed(answer) ==
  CHOOSE n \in 0 .. Len(answer.pieces) :
    /\ SumTo(answer.pieces, n) <= Bound(answer)
    /\ n = Len(answer.pieces) \/ SumTo(answer.pieces, n + 1) > Bound(answer)

\* process_archive: the entries, the manifest first, are staged until one
\* exceeds the limit or the stream ends in it.
Extract(contents, archive, limit) ==
  LET Admitted(n) == SumTo(contents, n) <= limit
      Whole(n) == n + SumTo(contents, n) <= archive
      failing == {n \in DOMAIN contents : ~Admitted(n) \/ ~Whole(n)}
      first == CHOOSE n \in failing : \A m \in failing : n <= m
      before == SumTo(contents, first - 1)
      rest == archive - first - before
  IN  IF failing = {} THEN Attempt("updated", Total(contents))
      ELSE IF ~Admitted(first) THEN Attempt("insufficient", before)
      ELSE Attempt("invalid", before + IF rest > 0 THEN Smaller(contents[first], rest) ELSE 0)

\* download_and_publish: its end, and the most that was stored by then.
Download(place, nodes, answer, contents, limit) ==
  LET library == LibrarySize(place, nodes)
      stored == SumTo(answer.pieces, Streamed(answer))
      extraction == Extract(contents, stored, Available(limit, library, stored))
  IN  IF ~Measurable(place, nodes) THEN Attempt("failed", 0)
      ELSE IF Bound(answer) > MaxBundleSize THEN Attempt("invalid", library)
      ELSE IF Required(library, Bound(answer)) > limit THEN Attempt("insufficient", library)
      ELSE IF Streamed(answer) < Len(answer.pieces) THEN Attempt("invalid", library + stored)
      ELSE IF stored < answer.announced THEN Attempt("network", library + stored)
      ELSE Attempt(extraction.outcome, library + stored + extraction.peak)

-----------------------------------------------------------------------------
(* Properties.                                                             *)

\* Library, archive and extraction together never exceed the limit, at any
\* write; a download is refused for lack of room only when what is announced,
\* or archive and contents, would exceed it; and three times the size of a
\* bundle (the default of 48 MiB) is room enough for every whole archive over
\* every library such an archive left.
BudgetIsSound(place, nodes, answer, contents, limit) ==
  LET end == Download(place, nodes, answer, contents, limit)
      library == LibrarySize(place, nodes)
      archive == Total(answer.pieces)
      whole == Len(contents) + Total(contents) <= archive
  IN  /\ end.peak > library => end.peak <= limit
      /\ end.outcome = "updated" => whole /\ archive <= MaxBundleSize
      /\ end.outcome = "insufficient" =>
           \/ library + Bound(answer) > limit
           \/ library + archive + Total(contents) > limit
      /\ limit >= 3 * MaxBundleSize /\ library <= MaxBundleSize /\ whole =>
           end.outcome # "insufficient"

=============================================================================

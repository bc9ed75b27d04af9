---------------------------- MODULE ReaderProofs ----------------------------
(***************************************************************************)
(* Proofs about the readers.  ReaderSession: the history names the place   *)
(* that is open and Back undoes the last link, while no entry has been     *)
(* dropped, for every limit of the history and of the cache.  BrowserSync: *)
(* "unchanged" is only said of the library on the screen, for any archives *)
(* and any number of pushes, and the page leaves the inbox alone.          *)
(* Pagination: the pages of every document are well broken, whatever its   *)
(* blocks, the heights of its lines, the viewport and the spacing.         *)
(* MCComponents: the variables of the device's components, proved typed in *)
(* DeviceProofs, and of the readers keep their types in the composition.   *)
(***************************************************************************)
EXTENDS MCComponents, DeviceProofs, SequenceTheorems, FiniteSetTheorems, TLAPS

-----------------------------------------------------------------------------
(* ReaderSession.                                                          *)

\* The history is one of places, and the reader is at one of its entries.
HistoryInv ==
  /\ open \in Places
  /\ visited \in Seq(Places) /\ index \in 1 .. Len(visited)

\* The entry one back is the place the last link was followed from.
LinkInv == left # NoPlace /\ ~dropped => index > 1 /\ visited[index - 1] = left

ReaderIInv == HistoryInv /\ PlaceIsRemembered /\ LinkInv

\* Opening a document, at an anchor or not, leads to a place.
LEMMA PlaceOfIsPlace ==
  ASSUME NEW document \in Documents, NEW anchor \in {"none", "heading"}
  PROVE  PlaceOf(document, anchor) \in Places
BY DEF PlaceOf, AnchorPassage, Places

\* The session starts with its first place as its only entry.
LEMMA ReaderInitInv == ReaderInit => ReaderIInv
<1> SUFFICES ASSUME ReaderInit PROVE ReaderIInv OBVIOUS
<1>1. open \in Places BY PlaceOfIsPlace DEF ReaderInit, Documents, Entry
<1>2. visited = <<open>> /\ index = 1 /\ overlay = NoPlace /\ left = NoPlace BY DEF ReaderInit
<1> QED BY <1>1, <1>2 DEF ReaderIInv, HistoryInv, PlaceIsRemembered, LinkInv

\* The entry that is current is given the place that is open.
LEMMA RememberedIs ==
  ASSUME HistoryInv
  PROVE  /\ Remembered \in Seq(Places) /\ Len(Remembered) = Len(visited)
         /\ Leave = Remembered
         /\ Remembered[index] = open
         /\ \A i \in 1 .. Len(visited) : i # index => Remembered[i] = visited[i]
BY DEF HistoryInv, Remembered, Leave

\* A link is followed: what lay ahead is forgotten, or what lay furthest back.
LEMMA PushKeeps ==
  ASSUME HistoryInv, NEW entries \in Seq(Places), Len(entries) = Len(visited),
         entries[index] = open \/ dropped, NEW entry \in Places, Push(entries, entry),
         open' = entry, left' = open, overlay' = NoPlace
  PROVE  ReaderIInv'
<1> DEFINE all == Append(SubSeq(entries, 1, index), entry)
           over == Len(all) > MaxHistoryEntries
<1>1. index \in Nat /\ index >= 1 /\ index <= Len(entries) BY DEF HistoryInv
<1>2. /\ all \in Seq(Places) /\ Len(all) = index + 1
      /\ all[index + 1] = entry /\ all[index] = entries[index]
  <2>1. /\ SubSeq(entries, 1, index) \in Seq(Places) /\ Len(SubSeq(entries, 1, index)) = index
        /\ SubSeq(entries, 1, index)[index] = entries[index]
    BY <1>1
  <2> QED BY <1>1, <2>1
<1>3. visited' = (IF over THEN Tail(all) ELSE all)
      /\ index' = (IF over THEN Max({index - 1, 1}) ELSE Len(all))
      /\ dropped' = (dropped \/ over)
  BY DEF Push
<1> HIDE DEF all
<1>4. CASE over
  <2>1. visited' \in Seq(Places) /\ Len(visited') = index BY <1>1, <1>2, <1>3, <1>4
  <2>2. Max({index - 1, 1}) \in 1 .. index
    <3>1. \E m \in {index - 1, 1} : \A n \in {index - 1, 1} : m >= n BY <1>1
    <3> DEFINE top == Max({index - 1, 1})
    <3>2. top \in {index - 1, 1} /\ \A n \in {index - 1, 1} : top >= n BY <3>1 DEF Max
    <3>3. top \in Nat /\ top >= 1 /\ top <= index BY <1>1, <3>2
    <3>4. top \in 1 .. index
      <4> HIDE DEF top
      <4> QED BY <1>1, <3>3
    <3> QED BY <3>4
  <2> QED BY <1>3, <1>4, <2>1, <2>2 DEF ReaderIInv, HistoryInv, PlaceIsRemembered, LinkInv
<1>5. CASE ~over
  <2>1. visited' = all /\ index' = index + 1 BY <1>2, <1>3, <1>5
  <2>2. index' \in 1 .. Len(visited') BY <1>1, <1>2, <2>1
  <2>3. visited'[index'] = open' BY <1>2, <2>1
  <2>4. ~dropped' => visited'[index' - 1] = left' /\ index' > 1
    <3>1. ~dropped' => ~dropped BY <1>3, Zenon
    <3>2. index' - 1 = index /\ index' > 1 BY <1>1, <2>1
    <3> QED BY <1>2, <2>1, <3>1, <3>2
  <2>5. HistoryInv' BY <1>2, <2>1, <2>2 DEF HistoryInv
  <2>6. PlaceIsRemembered' BY <2>3 DEF PlaceIsRemembered
  <2> QED BY <2>4, <2>5, <2>6 DEF ReaderIInv, LinkInv
<1> QED BY <1>4, <1>5

\* A set of passages has a first and a last one.
LEMMA EndsOfPassages ==
  ASSUME NEW S, S \subseteq 1 .. 3, S # {}
  PROVE  Min(S) \in S /\ Max(S) \in S
<1>1. S \subseteq {1, 2, 3} OBVIOUS
<1>2. \E m \in S : \A n \in S : m <= n
  <2>1. CASE 1 \in S BY <1>1, <2>1
  <2>2. CASE 1 \notin S /\ 2 \in S BY <1>1, <2>2
  <2>3. CASE S = {3} BY <2>3
  <2> QED BY <1>1, <2>1, <2>2, <2>3
<1>3. \E m \in S : \A n \in S : m >= n
  <2>1. CASE 3 \in S BY <1>1, <2>1
  <2>2. CASE 3 \notin S /\ 2 \in S BY <1>1, <2>2
  <2>3. CASE S = {1} BY <2>3
  <2> QED BY <1>1, <2>1, <2>2, <2>3
<1> QED BY <1>2, <1>3 DEF Min, Max

\* Pages are turned to where a page starts, and the entry is told.
LEMMA TurnKeeps ==
  ASSUME ReaderIInv, TurnPage
  PROVE  ReaderIInv'
<1> DEFINE starts == PageStarts(arrangement)
           before == {start \in starts : start <= open.passage}
           after == starts \ before
<1>1. starts \subseteq 1 .. 3 BY DEF PageStarts
<1>2. HistoryInv /\ UNCHANGED <<index, left, dropped>> /\ overlay' = NoPlace
  BY DEF ReaderIInv, TurnPage, Dismissed
<1>3. ASSUME NEW passage \in 1 .. 3, MoveTo(passage) PROVE ReaderIInv'
  <2>1. open' \in Places BY <1>2, <1>3 DEF MoveTo, HistoryInv, Places
  <2>2. visited' = [visited EXCEPT ![index] = open'] BY <1>2, <1>3 DEF MoveTo, HistoryInv
  <2> QED BY <1>2, <2>1, <2>2 DEF ReaderIInv, HistoryInv, PlaceIsRemembered, LinkInv
<1>4. CASE UNCHANGED <<open, visited>>
  BY <1>2, <1>4 DEF ReaderIInv, HistoryInv, PlaceIsRemembered, LinkInv
<1>5. CASE after # {} /\ MoveTo(Min(after))
  <2>1. Min(after) \in 1 .. 3 BY <1>1, <1>5, EndsOfPassages
  <2> HIDE DEF after
  <2> QED BY <1>3, <1>5, <2>1
<1>6. CASE Cardinality(before) > 1 /\ MoveTo(Max(before \ {Max(before)}))
  <2>1. before \ {Max(before)} # {}
    <3>1. SUFFICES ASSUME before \subseteq {Max(before)} PROVE FALSE OBVIOUS
    <3>2. before = {} \/ before = {Max(before)} BY <3>1
    <3> HIDE DEF before
    <3>3. Cardinality(before) = 0 \/ Cardinality(before) = 1
      BY <3>2, FS_EmptySet, FS_Singleton, Zenon
    <3> QED BY <1>6, <3>3
  <2>2. Max(before \ {Max(before)}) \in 1 .. 3
    <3> HIDE DEF starts
    <3> QED BY <1>1, <2>1, EndsOfPassages
  <2> HIDE DEF before
  <2> QED BY <1>3, <1>6, <2>2
<1> QED BY <1>4, <1>5, <1>6 DEF TurnPage

\* Links, within the document and to others.
LEMMA LinksKeep ==
  ASSUME ReaderIInv, FollowAnchor \/ FollowDocument \/ FollowExternal
  PROVE  ReaderIInv'
<1>1. HistoryInv BY DEF ReaderIInv
<1>2. CASE FollowAnchor
  <2>1. CASE UNCHANGED <<open, visited, index, left, dropped>>
    BY <1>2, <2>1 DEF FollowAnchor, Dismissed, ReaderIInv, HistoryInv, PlaceIsRemembered, LinkInv
  <2>2. ASSUME NEW anchor \in {"heading"}, open' = PlaceOf(open.document, anchor), left' = open,
               Push(Leave, open')
        PROVE  ReaderIInv'
    <3>1. open' \in Places BY <1>1, <2>2, PlaceOfIsPlace DEF HistoryInv, Places
    <3> QED BY <1>1, <1>2, <2>2, <3>1, RememberedIs, PushKeeps DEF FollowAnchor, Dismissed
  <2> QED BY <1>2, <2>1, <2>2 DEF FollowAnchor, Anchors
<1>3. CASE FollowDocument
  <2>1. ASSUME NEW document \in Documents, NEW anchor \in Anchors, LoadFails(document, anchor)
        PROVE  ReaderIInv'
    BY <1>3, <2>1 DEF FollowDocument, LoadFails, Dismissed, ReaderIInv, HistoryInv,
       PlaceIsRemembered, LinkInv
  <2>2. ASSUME NEW document \in Documents, NEW anchor \in Anchors, anchor # "missing",
               open' = PlaceOf(document, anchor), left' = open, Push(visited, open')
        PROVE  ReaderIInv'
    <3>1. open' \in Places BY <2>2, PlaceOfIsPlace DEF Anchors
    <3>2. overlay' = NoPlace BY <1>3 DEF FollowDocument, Dismissed
    <3>3. visited \in Seq(Places) /\ (visited[index] = open \/ dropped)
      BY DEF ReaderIInv, HistoryInv, PlaceIsRemembered
    <3> QED BY <1>1, <2>2, <3>1, <3>2, <3>3, PushKeeps
  <2> QED BY <1>3, <2>1, <2>2 DEF FollowDocument
<1>4. CASE FollowExternal
  BY <1>4 DEF FollowExternal, ReaderIInv, HistoryInv, PlaceIsRemembered, LinkInv
<1> QED BY <1>2, <1>3, <1>4

\* Back and forward go to what the history remembers, or nowhere.
LEMMA HistoryKeeps ==
  ASSUME ReaderIInv, HistoryBack \/ HistoryForward \/ HistoryFails
  PROVE  ReaderIInv'
<1>1. HistoryInv BY DEF ReaderIInv
<1>2. ASSUME NEW target, MoveHistory(target) PROVE ReaderIInv'
  <2>1. /\ target \in DOMAIN visited /\ visited' = Remembered /\ index' = target
        /\ open' = Remembered[target] /\ left' = NoPlace /\ overlay' = NoPlace
    BY <1>2 DEF MoveHistory, Dismissed
  <2>2. target \in 1 .. Len(visited) BY <1>1, <2>1 DEF HistoryInv
  <2> QED BY <1>1, <2>1, <2>2, RememberedIs DEF ReaderIInv, HistoryInv, PlaceIsRemembered, LinkInv
<1>3. CASE HistoryFails
  <2>1. visited' = Remembered /\ overlay' = NoPlace /\ UNCHANGED <<open, index, left, dropped>>
    BY <1>3 DEF HistoryFails, Dismissed
  <2> QED BY <1>1, <2>1, RememberedIs DEF ReaderIInv, HistoryInv, PlaceIsRemembered, LinkInv
<1> QED BY <1>2, <1>3 DEF HistoryBack, HistoryForward

\* A change of layout keeps the place; another bundle starts a history.
LEMMA LayoutKeeps ==
  ASSUME ReaderIInv,
         ToggleFullscreen \/ SetFontScale \/ SetOrientation \/ Publish \/ ReloadEmpty \/ Reload
  PROVE  ReaderIInv'
<1>1. HistoryInv BY DEF ReaderIInv
<1>2. CASE ToggleFullscreen \/ SetFontScale \/ SetOrientation
  <2>1. visited' = Remembered /\ overlay' = NoPlace /\ UNCHANGED <<open, index, left, dropped>>
    BY <1>2 DEF ToggleFullscreen, SetFontScale, SetOrientation, Reflow, Dismissed
  <2> QED BY <1>1, <2>1, RememberedIs DEF ReaderIInv, HistoryInv, PlaceIsRemembered, LinkInv
<1>3. CASE Publish \/ ReloadEmpty
  BY <1>3 DEF Publish, ReloadEmpty, Dismissed, ReaderIInv, HistoryInv, PlaceIsRemembered, LinkInv
<1>4. CASE Reload
  <2>1. PICK again \in BOOLEAN, found \in BOOLEAN :
          \E top \in {PlaceOf(IF again THEN open.document ELSE Entry, "none")} :
            /\ open' = IF again /\ found THEN PlaceOf(open.document, open.anchor) ELSE top
            /\ visited' = IF open' = top THEN <<top>> ELSE <<top, open'>>
            /\ index' = Len(visited')
    BY <1>4 DEF Reload
  <2> DEFINE top == PlaceOf(IF again THEN open.document ELSE Entry, "none")
  <2>2. open.document \in Documents /\ open.anchor \in {"none", "heading"} /\ Entry \in Documents
    BY <1>1 DEF HistoryInv, Places, Documents
  <2>3. top \in Places /\ open' \in Places BY <2>1, <2>2, PlaceOfIsPlace
  <2> HIDE DEF top
  <2>4. visited' \in Seq(Places) /\ index' \in 1 .. Len(visited') /\ visited'[index'] = open'
    BY <2>1, <2>3 DEF top
  <2>5. left' = NoPlace /\ overlay' = NoPlace BY <1>4 DEF Reload, Dismissed
  <2> QED BY <2>3, <2>4, <2>5 DEF ReaderIInv, HistoryInv, PlaceIsRemembered, LinkInv
<1> QED BY <1>2, <1>3, <1>4

\* Every operation of the session keeps its invariant.
LEMMA ReaderNextInv == ReaderIInv /\ [ReaderNext]_readerVars => ReaderIInv'
<1> SUFFICES ASSUME ReaderIInv, [ReaderNext]_readerVars PROVE ReaderIInv' OBVIOUS
<1>1. CASE UNCHANGED readerVars
  BY <1>1 DEF readerVars, ReaderIInv, HistoryInv, PlaceIsRemembered, LinkInv
<1>2. CASE ReaderNext BY <1>2, TurnKeeps, LinksKeep, HistoryKeeps, LayoutKeeps DEF ReaderNext
<1> QED BY <1>1, <1>2

\* The invariant of the session, of which the theorems below are parts.
THEOREM ReaderInductive == ReaderSpec => []ReaderIInv
<1> QED BY ReaderInitInv, ReaderNextInv, PTL DEF ReaderSpec

\* The history names the place that is open, and the code of a link is shown
\* over it.
THEOREM PlaceRemembered == ReaderSpec => []PlaceIsRemembered
<1>1. ReaderIInv => PlaceIsRemembered BY DEF ReaderIInv
<1> QED BY ReaderInductive, <1>1, PTL

\* Back undoes the last link, while no entry has been dropped.
THEOREM LinkUndone == ReaderSpec => LinkIsUndone
<1>1. ReaderIInv /\ [ReaderNext]_readerVars
        => [HistoryBack /\ left # NoPlace /\ ~dropped => open' = left]_readerVars
  <2> SUFFICES ASSUME ReaderIInv, HistoryBack, left # NoPlace, ~dropped PROVE open' = left
    OBVIOUS
  <2>1. open' = Remembered[index - 1] BY DEF HistoryBack, MoveHistory
  <2>2. index > 1 /\ visited[index - 1] = left BY DEF ReaderIInv, LinkInv
  <2>3. index - 1 \in 1 .. Len(visited) /\ index - 1 # index BY <2>2 DEF ReaderIInv, HistoryInv
  <2> QED BY <2>1, <2>2, <2>3, RememberedIs DEF ReaderIInv
<1> QED BY ReaderInductive, <1>1, PTL DEF ReaderSpec, LinkIsUndone

-----------------------------------------------------------------------------
(* BrowserSync.                                                            *)

\* What the page knows of the current revision is on the screen; what it
\* knows of an older one can never again be taken for current.
SnapshotShown ==
  /\ number \in Nat
  /\ known.revision \in Nat /\ known.revision <= number
  /\ known.kind # "unknown" /\ known.revision = number => showing = Posted

\* The manifest that an archive is fetched for is of a revision that was.
PendingReply ==
  visit.at = "bundle" => visit.reply.revision \in Nat /\ visit.reply.revision <= number

BrowserIInv == SnapshotShown /\ PendingReply

\* A page that was just loaded knows no snapshot and waits for no reply.
LEMMA BrowserInitInv == BrowserInit => BrowserIInv
BY DEF BrowserInit, BrowserIInv, SnapshotShown, PendingReply, NothingKnown, Still, Remote!Init

\* Steps of the page between requests.
LEMMA PageKeeps ==
  ASSUME BrowserIInv,
         \/ PressAuthorize \/ Answered \/ PressSync \/ CheckSession \/ RequestFails
         \/ PressOpen \/ OpenDirectory \/ ReloadPage \/ SessionExpires
  PROVE  BrowserIInv'
<1> USE DEF BrowserIInv, SnapshotShown, PendingReply, NothingKnown, Still, Visiting, EndVisit, hosted,
            Posted
<1>1. CASE PressAuthorize BY <1>1 DEF PressAuthorize
<1>2. CASE Answered BY <1>2 DEF Answered
<1>3. CASE PressSync BY <1>3 DEF PressSync
<1>4. CASE CheckSession BY <1>4 DEF CheckSession
<1>5. CASE RequestFails BY <1>5 DEF RequestFails
<1>6. CASE PressOpen BY <1>6 DEF PressOpen
<1>7. CASE OpenDirectory BY <1>7 DEF OpenDirectory
<1>8. CASE ReloadPage BY <1>8 DEF ReloadPage
<1>9. CASE SessionExpires BY <1>9 DEF SessionExpires
<1> QED BY <1>1, <1>2, <1>3, <1>4, <1>5, <1>6, <1>7, <1>8, <1>9

\* What a request brings is shown before it is known.
LEMMA AnswersKeep ==
  ASSUME BrowserIInv, ReceiveNotModified \/ ReceiveEmpty \/ ReceiveCurrent \/ ShowBundle
  PROVE  BrowserIInv'
<1> USE DEF BrowserIInv, SnapshotShown, PendingReply, NothingKnown, Still, Visiting, EndVisit, hosted,
            Posted, KnownEmpty, KnownCurrent
<1>1. CASE ReceiveNotModified BY <1>1 DEF ReceiveNotModified
<1>2. CASE ReceiveEmpty BY <1>2 DEF ReceiveEmpty
<1>3. CASE ReceiveCurrent BY <1>3 DEF ReceiveCurrent
<1>4. CASE ShowBundle BY <1>4 DEF ShowBundle
<1> QED BY <1>1, <1>2, <1>3, <1>4

\* A push makes all that is known a thing of the past.
LEMMA InboxKeeps ==
  ASSUME BrowserIInv, RemoteStep
  PROVE  BrowserIInv'
<1>1. \/ number' = number + 1
      \/ UNCHANGED <<posted, number>>
  BY DEF RemoteStep, Remote!Next, Remote!Clear, Remote!Publish, Remote!Discard
<1> QED BY <1>1 DEF RemoteStep, BrowserIInv, SnapshotShown, PendingReply, Posted

\* Every step of the page and of the inbox keeps the invariant.
LEMMA BrowserNextInv == BrowserIInv /\ [BrowserNext]_browserVars => BrowserIInv'
<1> SUFFICES ASSUME BrowserIInv, [BrowserNext]_browserVars PROVE BrowserIInv' OBVIOUS
<1>1. CASE UNCHANGED browserVars
  BY <1>1 DEF browserVars, hosted, BrowserIInv, SnapshotShown, PendingReply, Posted
<1>2. CASE BrowserNext BY <1>2, PageKeeps, AnswersKeep, InboxKeeps DEF BrowserNext
<1> QED BY <1>1, <1>2

\* The invariant of the page, on which the theorem below rests.
THEOREM BrowserInductive == BrowserSpec => []BrowserIInv
<1> QED BY BrowserInitInv, BrowserNextInv, PTL DEF BrowserSpec

\* "Unchanged" is only said of the library on the screen.
THEOREM UnchangedShown == BrowserSpec => UnchangedIsShown
<1>1. BrowserIInv /\ [BrowserNext]_browserVars
        => [visit'.outcome = "unchanged" /\ visit' # visit => showing = Posted]_browserVars
  <2> SUFFICES ASSUME BrowserIInv, BrowserNext, visit'.outcome = "unchanged", visit' # visit
               PROVE  showing = Posted
    OBVIOUS
  <2> USE DEF Still, Visiting, EndVisit
  <2>1. ~(PressAuthorize \/ Answered \/ PressSync \/ CheckSession \/ RequestFails)
    BY DEF PressAuthorize, Answered, PressSync, CheckSession, RequestFails
  <2>2. ~(ShowBundle \/ PressOpen \/ OpenDirectory \/ ReloadPage \/ SessionExpires \/ RemoteStep)
    BY DEF ShowBundle, PressOpen, OpenDirectory, ReloadPage, SessionExpires, RemoteStep
  <2>3. known = KnownCurrent(number, Posted) \/ known = KnownEmpty(number)
    BY <2>1, <2>2 DEF BrowserNext, ReceiveNotModified, ReceiveEmpty, ReceiveCurrent
  <2> QED BY <2>3 DEF BrowserIInv, SnapshotShown, KnownCurrent, KnownEmpty
<1> QED BY BrowserInductive, <1>1, PTL DEF BrowserSpec, UnchangedIsShown

\* Seen from the inbox, the page is a reader: only the inbox's own steps
\* change it, in every behaviour of the composition.
THEOREM InboxUndisturbedByPage == BrowserSpec => Remote!Spec
<1>1. BrowserInit => Remote!Init BY DEF BrowserInit
<1>2. [BrowserNext]_browserVars => [Remote!Next]_Remote!vars
  <2> SUFFICES ASSUME [BrowserNext]_browserVars PROVE [Remote!Next]_Remote!vars OBVIOUS
  <2>1. CASE RemoteStep BY <2>1 DEF RemoteStep
  <2>2. CASE UNCHANGED hosted BY <2>2 DEF hosted, Remote!vars
  <2>3. RemoteStep \/ UNCHANGED hosted
    BY DEF BrowserNext, browserVars, PressAuthorize, Answered, PressSync, CheckSession, RequestFails,
       ReceiveNotModified, ReceiveEmpty, ReceiveCurrent, ShowBundle, PressOpen, OpenDirectory,
       ReloadPage, SessionExpires
  <2> QED BY <2>1, <2>2, <2>3
<1> QED BY <1>1, <1>2, PTL DEF BrowserSpec, Remote!Spec

-----------------------------------------------------------------------------
(* Pagination.                                                             *)

\* What the layout hands over: a line lies in its row, and a row in its block;
\* the lines of a row or block agree on it, and a row of a table has a header
\* at or above it; the document begins below the padding.
LaidLines == [kind : Kinds, top : Nat, bottom : Nat, block : Nat, blockEnd : Nat,
              row : Nat, rowEnd : Nat, header : BOOLEAN, above : Nat]

SameBlock(m, n) ==
  lines[m].kind = lines[n].kind /\ lines[m].block = lines[n].block /\ lines[m].blockEnd = lines[n].blockEnd
SameRow(m, n) ==
  lines[m].row = lines[n].row /\ lines[m].rowEnd = lines[n].rowEnd
  /\ lines[m].header = lines[n].header /\ lines[m].above = lines[n].above

LaidOut(n) ==
  /\ lines[n].block \in 1 .. n /\ lines[n].row \in lines[n].block .. n
  /\ lines[n].rowEnd \in n + 1 .. lines[n].blockEnd /\ lines[n].blockEnd <= Len(lines) + 1
  /\ \A m \in lines[n].block .. lines[n].blockEnd - 1 : SameBlock(m, n)
  /\ \A m \in lines[n].row .. lines[n].rowEnd - 1 :
       /\ SameRow(m, n)
       /\ lines[n].kind \in Units => lines[m].bottom <= lines[lines[n].rowEnd - 1].bottom
  /\ IF lines[n].kind = "table"
     THEN /\ lines[n].above \in lines[n].block .. lines[n].row
          /\ lines[lines[n].above].row = lines[n].above /\ lines[lines[n].above].header
     ELSE lines[n].row = lines[n].block /\ lines[n].rowEnd = lines[n].blockEnd

LinesInv ==
  /\ pageHeight \in PageHeights /\ spacing \in Spacings
  /\ lines \in Seq(LaidLines)
  /\ \A n \in 1 .. Len(lines) : LaidOut(n)
  /\ Len(lines) > 0 /\ lines[1].kind \in Units => lines[1].top = PaddingTop

-----------------------------------------------------------------------------
\* A block is a nonempty row of lines.
LEMMA BlockTypes ==
  ASSUME NEW block \in Blocks
  PROVE  /\ block.kind \in Kinds /\ block.lines \in Seq(LinePlaces)
         /\ Len(block.lines) \in Nat /\ Len(block.lines) > 0
         /\ block.kind \in Units => block.lines[1].top = 0
         /\ \A n \in 1 .. Len(block.lines) :
              block.lines[n].top \in Nat /\ block.lines[n].bottom \in Nat
<1>1. block.kind \in Kinds BY BlocksAssumption, Zenon
<1>2. block.lines \in Seq(LinePlaces) /\ block.lines # <<>> BY BlocksAssumption, Zenon
<1>3. block.kind \in Units => block.lines[1].top = 0 BY BlocksAssumption, Zenon
<1>4. \A n \in 1 .. Len(block.lines) : block.lines[n] \in LinePlaces BY <1>2
<1>5. \A n \in 1 .. Len(block.lines) :
        block.lines[n].top \in Nat /\ block.lines[n].bottom \in Nat
  BY <1>4 DEF LinePlaces
<1>6. Len(block.lines) \in Nat /\ Len(block.lines) > 0 BY <1>2
<1> QED BY <1>1, <1>2, <1>3, <1>5, <1>6

\* The bounds of the rows of a block.
LEMMA RowBoundaries ==
  ASSUME NEW block \in Blocks, NEW row \in block.rows
  PROVE  /\ Len(block.lines) \in Nat /\ DOMAIN block.lines = 1 .. Len(block.lines)
         /\ row.first \in Nat /\ row.last \in Nat
         /\ 1 <= row.first /\ row.first <= row.last /\ row.last <= Len(block.lines)
         /\ row.header \in BOOLEAN
<1>1. Len(block.lines) \in Nat /\ DOMAIN block.lines = 1 .. Len(block.lines) BY BlocksAssumption
<1>2. row.first \in DOMAIN block.lines /\ row.last \in row.first .. Len(block.lines)
      /\ row.header \in BOOLEAN
  BY BlocksAssumption
<1> QED BY <1>1, <1>2

\* A line of a block lies in one row, which begins and ends in the block.
LEMMA RowFacts ==
  ASSUME NEW block \in Blocks, NEW n \in 1 .. Len(block.lines)
  PROVE  /\ RowOf(block, n) \in block.rows /\ n \in RowOf(block, n).first .. RowOf(block, n).last
         /\ RowOf(block, n).first \in 1 .. Len(block.lines)
         /\ RowOf(block, n).last \in RowOf(block, n).first .. Len(block.lines)
         /\ RowOf(block, n).header \in BOOLEAN
         /\ \A m \in RowOf(block, n).first .. RowOf(block, n).last :
              /\ RowOf(block, m) = RowOf(block, n)
              /\ block.kind \in Units =>
                   block.lines[m].bottom <= block.lines[RowOf(block, n).last].bottom
<1>1. DOMAIN block.lines = 1 .. Len(block.lines) BY BlocksAssumption
<1>2. \E row \in block.rows : n \in row.first .. row.last BY <1>1, BlocksAssumption
<1>3. RowOf(block, n) \in block.rows /\ n \in RowOf(block, n).first .. RowOf(block, n).last
  BY <1>2, Zenon DEF RowOf
<1> DEFINE r == RowOf(block, n)
<1> HIDE DEF r
<1>4. /\ r \in block.rows /\ n \in r.first .. r.last BY <1>3 DEF r
<1>5. /\ r.first \in 1 .. Len(block.lines) /\ r.last \in r.first .. Len(block.lines)
      /\ r.header \in BOOLEAN
      /\ \A m \in r.first .. r.last :
           block.kind \in Units => block.lines[m].bottom <= block.lines[r.last].bottom
  BY <1>1, <1>4, BlocksAssumption
<1>6. ASSUME NEW m \in r.first .. r.last PROVE RowOf(block, m) = r
  <2>1. \E row \in block.rows : m \in row.first .. row.last BY <1>4
  <2>2. RowOf(block, m) \in block.rows /\ m \in RowOf(block, m).first .. RowOf(block, m).last
    BY <2>1, Zenon DEF RowOf
  <2>3. PICK other \in block.rows : other = RowOf(block, m) /\ m \in other.first .. other.last BY <2>2
  <2>4. /\ other.first \in Nat /\ other.last \in Nat /\ r.first \in Nat /\ r.last \in Nat
    BY <1>4, <2>3, RowBoundaries
  <2>5. ~(r.last < other.first) /\ ~(other.last < r.first) BY <2>3, <2>4
  <2>6. r = other BY <1>4, <2>5, BlocksAssumption
  <2> QED BY <2>3, <2>6
<1> QED BY <1>4, <1>5, <1>6 DEF r

\* The header of a row of a table is a row at or above it.
LEMMA HeaderFacts ==
  ASSUME NEW block \in Blocks, block.kind = "table", NEW n \in 1 .. Len(block.lines)
  PROVE  LET header == CHOOSE h \in Headers(block, RowOf(block, n)) : TRUE IN
           /\ Headers(block, RowOf(block, n)) # {}
           /\ header \in block.rows /\ header.header
           /\ header.first \in 1 .. RowOf(block, n).first
           /\ RowOf(block, header.first) = header
<1> DEFINE r == RowOf(block, n)
           header == CHOOSE h \in Headers(block, r) : TRUE
<1>1. DOMAIN block.lines = 1 .. Len(block.lines) BY BlocksAssumption
<1>2. r \in block.rows BY RowFacts
<1> HIDE DEF r
<1>3. Headers(block, r) # {} /\ \A h \in Headers(block, r) : h.first <= r.first
  BY <1>2, BlocksAssumption
<1>4. header \in Headers(block, r) BY <1>3, Zenon
<1> HIDE DEF header
<1>5. header \in block.rows /\ header.header /\ header.first <= r.first BY <1>3, <1>4 DEF Headers
<1>6. /\ header.first \in 1 .. Len(block.lines) /\ header.last \in header.first .. Len(block.lines)
      /\ r.first \in 1 .. Len(block.lines)
  BY <1>1, <1>2, <1>5, BlocksAssumption
<1>7. header.first \in header.first .. header.last BY <1>6
<1>8. \E row \in block.rows : header.first \in row.first .. row.last BY <1>5, <1>7
<1>9. RowOf(block, header.first) \in block.rows
      /\ header.first \in RowOf(block, header.first).first .. RowOf(block, header.first).last
  BY <1>8, Zenon DEF RowOf
<1>10. PICK other \in block.rows :
         other = RowOf(block, header.first) /\ header.first \in other.first .. other.last
  BY <1>9
<1>11. other.first \in Nat /\ other.last \in Nat BY RowBoundaries
<1>12. ~(header.last < other.first) /\ ~(other.last < header.first) BY <1>6, <1>10, <1>11
<1>13. header = other BY <1>5, <1>12, BlocksAssumption
<1> QED BY <1>3, <1>5, <1>6, <1>10, <1>13 DEF header, r

\* Nothing is laid out at first.
LEMMA LayInit == PaginationInit => LinesInv
BY DEF PaginationInit, LinesInv, LaidOut


\* The header of a row of a table, as a line of the document.
LEMMA HeaderLines ==
  ASSUME NEW block \in Blocks, NEW n \in 1 .. Len(block.lines), NEW first \in Nat \ {0}
  PROVE  /\ HeaderLine(block, RowOf(block, n), first) \in Nat
         /\ block.kind = "table" =>
              \E h \in 1 .. RowOf(block, n).first :
                /\ HeaderLine(block, RowOf(block, n), first) = first - 1 + h
                /\ RowOf(block, h).header /\ RowOf(block, h).first = h
<1> DEFINE row == RowOf(block, n)
           h == CHOOSE h \in Headers(block, row) : TRUE
<1>1. CASE Headers(block, row) = {}
  <2>1. HeaderLine(block, row, first) = 0 BY <1>1 DEF HeaderLine, Nowhere
  <2>2. block.kind # "table" BY <1>1, HeaderFacts
  <2> QED BY <2>1, <2>2
<1>2. CASE Headers(block, row) # {}
  <2>1. h \in Headers(block, row) BY <1>2
  <2>2. h \in block.rows BY <2>1 DEF Headers
  <2>3. h.first \in Nat /\ 1 <= h.first BY <2>2, RowBoundaries
  <2>4. HeaderLine(block, row, first) = first - 1 + h.first BY <1>2 DEF HeaderLine
  <2>5. block.kind = "table" =>
          h.header /\ h.first \in 1 .. row.first /\ RowOf(block, h.first) = h
    BY HeaderFacts
  <2> HIDE DEF h, row
  <2>6. HeaderLine(block, row, first) \in Nat BY <2>3, <2>4
  <2>7. block.kind = "table" =>
          \E g \in 1 .. row.first :
            /\ HeaderLine(block, row, first) = first - 1 + g
            /\ RowOf(block, g).header /\ RowOf(block, g).first = g
    <3> SUFFICES ASSUME block.kind = "table"
                 PROVE  \E g \in 1 .. row.first :
                          /\ HeaderLine(block, row, first) = first - 1 + g
                          /\ RowOf(block, g).header /\ RowOf(block, g).first = g
      OBVIOUS
    <3>1. h.first \in 1 .. row.first /\ RowOf(block, h.first) = h /\ h.header BY <2>5
    <3> QED BY <2>4, <3>1
  <2> QED BY <2>6, <2>7 DEF row
<1> QED BY <1>1, <1>2

\* What is laid out of a line of a block.
LEMMA LineTypes ==
  ASSUME NEW block \in Blocks, NEW k \in 1 .. Len(block.lines), NEW first \in Nat \ {0}, NEW top \in Nat
  PROVE  LineOf(block, k, first, top) \in LaidLines
<1> DEFINE row == RowOf(block, k)
           place == block.lines[k]
           above == HeaderLine(block, row, first)
<1>1. block.kind \in Kinds /\ Len(block.lines) \in Nat /\ place.top \in Nat /\ place.bottom \in Nat
  BY BlockTypes
<1>2. row.first \in Nat /\ 1 <= row.first /\ row.last \in Nat /\ row.header \in BOOLEAN
  BY <1>1, RowFacts
<1>3. above \in Nat BY HeaderLines
<1>4. LineOf(block, k, first, top) =
       [kind |-> block.kind, top |-> top + place.top, bottom |-> top + place.bottom,
        block |-> first, blockEnd |-> first + Len(block.lines),
        row |-> first - 1 + row.first, rowEnd |-> first + row.last, header |-> row.header,
        above |-> above]
  BY DEF LineOf
<1> HIDE DEF row, place, above
<1>5. top + place.top \in Nat /\ top + place.bottom \in Nat BY <1>1
<1>6. first + Len(block.lines) \in Nat BY <1>1
<1>7. first - 1 + row.first \in Nat BY <1>2
<1>8. first + row.last \in Nat BY <1>2
<1> QED BY <1>1, <1>2, <1>3, <1>4, <1>5, <1>6, <1>7, <1>8 DEF LaidLines

\* The lines of a block as they are appended.
LEMMA NewLines ==
  ASSUME NEW block \in Blocks, NEW first \in Nat \ {0}, NEW top \in Nat
  PROVE  /\ BlockLines(block, first, top) \in Seq(LaidLines)
         /\ Len(BlockLines(block, first, top)) = Len(block.lines)
         /\ \A k \in 1 .. Len(block.lines) :
              BlockLines(block, first, top)[k] = LineOf(block, k, first, top)
<1>1. Len(block.lines) \in Nat BY BlockTypes
<1>2. \A k \in 1 .. Len(block.lines) : LineOf(block, k, first, top) \in LaidLines BY LineTypes
<1> QED BY <1>1, <1>2 DEF BlockLines

\* A sequence appended to another.
LEMMA Appended ==
  ASSUME NEW S, NEW s \in Seq(S), NEW t \in Seq(S)
  PROVE  /\ s \o t \in Seq(S) /\ Len(s \o t) = Len(s) + Len(t)
         /\ \A n \in 1 .. Len(s) : (s \o t)[n] = s[n]
         /\ \A k \in 1 .. Len(t) : (s \o t)[Len(s) + k] = t[k]
OBVIOUS

\* Another block keeps what the layout hands over.
LEMMA LayKeeps ==
  ASSUME LinesInv, LayBlock
  PROVE  LinesInv'
<1>1. PICK block \in Blocks :
        lines' = lines \o BlockLines(block, Len(lines) + 1, CursorY + SpacingBefore(block.kind))
  BY DEF LayBlock
<1>2. lines \in Seq(LaidLines) /\ Len(lines) \in Nat BY DEF LinesInv
<1>3. Len(block.lines) \in Nat /\ Len(block.lines) > 0 BY BlockTypes
<1>4. CursorY + SpacingBefore(block.kind) \in Nat
  <2>1. spacing \in Spacings BY DEF LinesInv
  <2>2. spacing.before \in Nat /\ spacing.heading \in Nat /\ spacing.other \in Nat /\ PaddingTop \in Nat
    BY <2>1, PageAssumption
  <2>3. CursorY \in Nat
    <3>1. CASE lines = <<>> BY <2>2, <3>1 DEF CursorY
    <3>2. CASE lines # <<>>
      <4>1. Len(lines) \in 1 .. Len(lines) BY <1>2, <3>2
      <4>2. lines[Len(lines)] \in LaidLines BY <1>2, <4>1
      <4>3. lines[Len(lines)].bottom \in Nat BY <4>2 DEF LaidLines
      <4>4. CursorY = lines[Len(lines)].bottom + SpacingAfter(lines[Len(lines)].kind)
        BY <3>2 DEF CursorY
      <4>5. SpacingAfter(lines[Len(lines)].kind) \in Nat BY <2>2 DEF SpacingAfter
      <4> QED BY <4>3, <4>4, <4>5
    <3> QED BY <3>1, <3>2
  <2>4. SpacingBefore(block.kind) \in Nat BY <2>2 DEF SpacingBefore
  <2> QED BY <2>3, <2>4
<1>5. PICK top \in Nat : top = CursorY + SpacingBefore(block.kind) BY <1>4
<1>6. PICK N \in Nat : N = Len(lines) BY <1>2
<1>7. PICK K \in Nat : K = Len(block.lines) /\ K > 0 BY <1>3
<1>8. PICK new \in Seq(LaidLines) :
        /\ Len(new) = K /\ lines' = lines \o new
        /\ \A k \in 1 .. K : new[k] = LineOf(block, k, N + 1, top)
  <2>1. N + 1 \in Nat \ {0} OBVIOUS
  <2> DEFINE new == BlockLines(block, N + 1, top)
  <2>2. new \in Seq(LaidLines) /\ Len(new) = Len(block.lines)
        /\ \A k \in 1 .. Len(block.lines) : new[k] = LineOf(block, k, N + 1, top)
    BY <2>1, NewLines
  <2>3. lines' = lines \o new BY <1>1, <1>5, <1>6
  <2> HIDE DEF new
  <2> QED BY <1>7, <2>2, <2>3
<1>9. lines' \in Seq(LaidLines) /\ Len(lines') = N + K
  BY <1>2, <1>6, <1>8, Appended
<1>10. \A n \in 1 .. N : lines'[n] = lines[n]
  BY <1>2, <1>6, <1>8, Appended
<1>11. \A k \in 1 .. K : lines'[N + k] = LineOf(block, k, N + 1, top)
  BY <1>2, <1>6, <1>8, Appended
<1>12. ASSUME NEW n \in 1 .. N PROVE LaidOut(n)'
  <2>1. LaidOut(n) BY <1>6 DEF LinesInv
  <2>2. lines[n].block \in 1 .. n /\ lines[n].row \in lines[n].block .. n
        /\ lines[n].rowEnd \in n + 1 .. lines[n].blockEnd /\ lines[n].blockEnd <= N + 1
    BY <1>6, <2>1 DEF LaidOut
  <2>3. PICK ln \in LaidLines : ln = lines[n] BY <1>2, <1>6
  <2>4. lines'[n] = ln BY <1>10, <2>3
  <2>5. ln.block \in Nat /\ ln.row \in Nat /\ ln.rowEnd \in Nat /\ ln.blockEnd \in Nat /\ ln.above \in Nat
    BY DEF LaidLines
  <2>6. ASSUME NEW m \in ln.block .. ln.blockEnd - 1 PROVE SameBlock(m, n)'
    <3>1. m \in 1 .. N BY <2>2, <2>3, <2>5
    <3>2. SameBlock(m, n) BY <2>1, <2>3 DEF LaidOut
    <3> QED BY <1>10, <3>1, <3>2 DEF SameBlock
  <2>7. ASSUME NEW m \in ln.row .. ln.rowEnd - 1
        PROVE  /\ SameRow(m, n)'
               /\ ln.kind \in Units => lines'[m].bottom <= lines'[ln.rowEnd - 1].bottom
    <3>1. 1 <= ln.block /\ ln.block <= ln.row /\ ln.rowEnd <= ln.blockEnd /\ ln.blockEnd <= N + 1
          /\ ln.rowEnd > n
      BY <2>2, <2>3, <2>5
    <3>2. m \in 1 .. N BY <2>5, <3>1
    <3>3. ln.rowEnd - 1 \in 1 .. N BY <2>5, <3>1
    <3>4. /\ SameRow(m, n)
          /\ ln.kind \in Units => lines[m].bottom <= lines[ln.rowEnd - 1].bottom
      BY <2>1, <2>3 DEF LaidOut
    <3> QED BY <1>10, <3>2, <3>3, <3>4 DEF SameRow
  <2>8. IF ln.kind = "table"
        THEN /\ ln.above \in ln.block .. ln.row
             /\ lines'[ln.above].row = ln.above /\ lines'[ln.above].header
        ELSE ln.row = ln.block /\ ln.rowEnd = ln.blockEnd
    <3>1. CASE ln.kind # "table" BY <2>1, <2>3, <3>1 DEF LaidOut
    <3>2. CASE ln.kind = "table"
      <4>1. ln.above \in ln.block .. ln.row /\ lines[ln.above].row = ln.above /\ lines[ln.above].header
        BY <2>1, <2>3, <3>2 DEF LaidOut
      <4>2. ln.above \in 1 .. N BY <2>2, <2>3, <2>5, <4>1
      <4> QED BY <1>10, <3>2, <4>1, <4>2
    <3> QED BY <3>1, <3>2
  <2>9. ln.blockEnd <= Len(lines') + 1 BY <1>7, <1>9, <2>2, <2>3, <2>5
  <2> QED BY <2>2, <2>3, <2>4, <2>6, <2>7, <2>8, <2>9 DEF LaidOut
<1>13. ASSUME NEW k \in 1 .. K PROVE LaidOut(N + k)'
  <2> DEFINE row == RowOf(block, k)
  <2>1. /\ row \in block.rows /\ k \in row.first .. row.last
        /\ row.first \in 1 .. K /\ row.last \in row.first .. K /\ row.header \in BOOLEAN
    BY <1>7, RowFacts
  <2>2. \A m \in row.first .. row.last :
          /\ RowOf(block, m) = row
          /\ block.kind \in Units => block.lines[m].bottom <= block.lines[row.last].bottom
    BY <1>7, RowFacts
  <2> HIDE DEF row
  <2>3. PICK f \in Nat, l \in Nat : f = row.first /\ l = row.last /\ 1 <= f /\ f <= k /\ k <= l /\ l <= K
    BY <2>1
  <2>4. ASSUME NEW j \in 1 .. K
        PROVE  /\ lines'[N + j].kind = block.kind /\ lines'[N + j].block = N + 1
               /\ lines'[N + j].blockEnd = N + 1 + K
    <3>1. lines'[N + j] = LineOf(block, j, N + 1, top) BY <1>11
    <3>2. lines'[N + j].kind = block.kind BY <3>1 DEF LineOf
    <3>3. lines'[N + j].block = N + 1 BY <3>1 DEF LineOf
    <3>4. lines'[N + j].blockEnd = N + 1 + K BY <1>7, <3>1 DEF LineOf
    <3> QED BY <3>2, <3>3, <3>4
  <2>5. ASSUME NEW j \in f .. l
        PROVE  /\ lines'[N + j].row = N + f /\ lines'[N + j].rowEnd = N + 1 + l
               /\ lines'[N + j].header = row.header
               /\ lines'[N + j].above = HeaderLine(block, row, N + 1)
               /\ lines'[N + j].bottom = top + block.lines[j].bottom
    <3>1. j \in 1 .. K BY <2>3
    <3>2. RowOf(block, j) = row BY <2>2, <2>3
    <3>3. lines'[N + j] = LineOf(block, j, N + 1, top) BY <1>11, <3>1
    <3>4. N + 1 - 1 + f = N + f OBVIOUS
    <3> QED BY <2>3, <3>2, <3>3, <3>4 DEF LineOf
  <2>6. k \in f .. l /\ l \in f .. l BY <2>3
  <2>7. ASSUME NEW m \in N + 1 .. N + 1 + K - 1 PROVE SameBlock(m, N + k)'
    <3>1. m - N \in 1 .. K /\ m = N + (m - N) OBVIOUS
    <3> QED BY <2>4, <3>1 DEF SameBlock
  <2>8. ASSUME NEW m \in N + f .. N + 1 + l - 1
        PROVE  /\ SameRow(m, N + k)'
               /\ block.kind \in Units => lines'[m].bottom <= lines'[N + l].bottom
    <3>1. PICK j \in f .. l : m = N + j
      <4>1. m - N \in f .. l /\ m = N + (m - N) OBVIOUS
      <4> QED BY <4>1
    <3>2. SameRow(m, N + k)' BY <2>5, <2>6, <3>1 DEF SameRow
    <3>3. block.kind \in Units => block.lines[j].bottom <= block.lines[l].bottom
      BY <2>2, <2>3
    <3>4. block.lines[j].bottom \in Nat /\ block.lines[l].bottom \in Nat
      <4>1. j \in 1 .. K BY <2>3
      <4>2. l \in 1 .. K BY <2>3
      <4> QED BY <1>7, <4>1, <4>2, BlockTypes
    <3>5. block.lines[j].bottom <= block.lines[l].bottom =>
            top + block.lines[j].bottom <= top + block.lines[l].bottom
      <4>1. PICK a \in Nat : a = block.lines[j].bottom BY <3>4
      <4>2. PICK b \in Nat : b = block.lines[l].bottom BY <3>4
      <4>3. a <= b => top + a <= top + b OBVIOUS
      <4> QED BY <4>1, <4>2, <4>3
    <3> QED BY <2>5, <2>6, <3>1, <3>2, <3>3, <3>5
  <2>9. IF block.kind = "table"
        THEN \E h \in 1 .. f : /\ HeaderLine(block, row, N + 1) = N + h
                              /\ lines'[N + h].row = N + h /\ lines'[N + h].header
        ELSE f = 1 /\ l = K
    <3>1. CASE block.kind = "table"
      <4>1. N + 1 \in Nat \ {0} /\ N + 1 - 1 = N /\ k \in 1 .. Len(block.lines) BY <1>7
      <4>2. PICK h \in 1 .. f : /\ HeaderLine(block, row, N + 1) = N + 1 - 1 + h
                               /\ RowOf(block, h).header /\ RowOf(block, h).first = h
        BY <2>3, <3>1, <4>1, HeaderLines DEF row
      <4>3. h \in 1 .. K BY <2>3
      <4>4. lines'[N + h] = LineOf(block, h, N + 1, top) BY <1>11, <4>3
      <4>5. lines'[N + h].row = N + 1 - 1 + RowOf(block, h).first
            /\ lines'[N + h].header = RowOf(block, h).header
        BY <4>4 DEF LineOf
      <4>6. lines'[N + h].row = N + h BY <4>2, <4>5
      <4>7. HeaderLine(block, row, N + 1) = N + h BY <4>2
      <4> QED BY <3>1, <4>2, <4>5, <4>6, <4>7
    <3>2. CASE block.kind # "table"
      <4>1. row = TableRow(1, Len(block.lines), 1, FALSE) BY <2>1, <3>2, BlocksAssumption
      <4> QED BY <1>7, <2>3, <3>2, <4>1 DEF TableRow
    <3> QED BY <3>1, <3>2
  <2>10. /\ lines'[N + k].kind = block.kind /\ lines'[N + k].block = N + 1
         /\ lines'[N + k].blockEnd = N + 1 + K /\ lines'[N + k].row = N + f
         /\ lines'[N + k].rowEnd = N + 1 + l
         /\ lines'[N + k].above = HeaderLine(block, row, N + 1)
    BY <2>4, <2>5, <2>6
  <2>11. /\ N + 1 \in 1 .. N + k /\ N + f \in N + 1 .. N + k
         /\ N + 1 + l \in N + k + 1 .. N + 1 + K /\ N + 1 + K <= Len(lines') + 1
         /\ N + 1 + l - 1 = N + l
    <3>1. N + 1 \in 1 .. N + k BY <2>3
    <3>2. N + f \in N + 1 .. N + k BY <2>3
    <3>3. N + 1 + l \in N + k + 1 .. N + 1 + K BY <2>3
    <3>4. N + 1 + K <= Len(lines') + 1 BY <1>9
    <3> QED BY <3>1, <3>2, <3>3, <3>4
  <2>12. IF block.kind = "table"
         THEN LET above == HeaderLine(block, row, N + 1) IN
              above \in N + 1 .. N + f /\ lines'[above].row = above /\ lines'[above].header
         ELSE N + f = N + 1 /\ N + 1 + l = N + 1 + K
    <3>1. CASE block.kind = "table"
      <4>1. PICK h \in 1 .. f : /\ HeaderLine(block, row, N + 1) = N + h
                               /\ lines'[N + h].row = N + h /\ lines'[N + h].header
        BY <2>9, <3>1
      <4>2. N + h \in N + 1 .. N + f BY <2>3
      <4> QED BY <3>1, <4>1, <4>2
    <3>2. CASE block.kind # "table" BY <2>9, <3>2
    <3> QED BY <3>1, <3>2
  <2> QED BY <2>7, <2>8, <2>10, <2>11, <2>12 DEF LaidOut
<1>14. \A n \in 1 .. Len(lines') : LaidOut(n)'
  <2> SUFFICES ASSUME NEW n \in 1 .. N + K PROVE LaidOut(n)' BY <1>9
  <2>1. CASE n <= N BY <1>12, <2>1
  <2>2. CASE n > N
    <3>1. n - N \in 1 .. K /\ n = N + (n - N) BY <2>2
    <3> QED BY <1>13, <3>1
  <2> QED BY <2>1, <2>2
<1>15. Len(lines') > 0 /\ lines'[1].kind \in Units => lines'[1].top = PaddingTop
  <2>1. CASE N = 0
    <3>1. 1 \in 1 .. K /\ N + 1 = 1 BY <1>7, <2>1
    <3>2. lines'[1] = LineOf(block, 1, N + 1, top) BY <1>11, <2>1, <3>1
    <3>3. lines'[1].kind = block.kind /\ lines'[1].top = top + block.lines[1].top BY <3>2 DEF LineOf
    <3>4. block.kind \in Units => block.lines[1].top = 0 BY BlockTypes
    <3>5. CursorY = PaddingTop
      <4>1. lines = <<>> BY <1>2, <1>6, <2>1, EmptySeq
      <4> QED BY <4>1 DEF CursorY
    <3>6. block.kind \in Units => top = PaddingTop
      <4>1. PaddingTop \in Nat /\ PaddingTop + 0 = PaddingTop BY PageAssumption
      <4> QED BY <1>5, <3>5, <4>1 DEF SpacingBefore, Units
    <3>7. PaddingTop \in Nat BY PageAssumption
    <3> QED BY <3>3, <3>4, <3>6, <3>7
  <2>2. CASE N > 0
    <3>1. lines'[1] = lines[1] BY <1>10, <2>2
    <3>2. Len(lines) > 0 BY <1>6, <2>2
    <3> QED BY <3>1, <3>2 DEF LinesInv
  <2> QED BY <2>1, <2>2
<1>16. pageHeight' \in PageHeights /\ spacing' \in Spacings BY DEF LinesInv, LayBlock
<1> QED BY <1>9, <1>14, <1>15, <1>16 DEF LinesInv

-----------------------------------------------------------------------------
\* The pages of a scan that has come to line `to`: each begins where the one
\* before broke, is broken by the rules and as a rebuilt page would be, and
\* every line lies on one of them.
OpenPages == [start : Nat, origin : Int, header : SUBSET Nat]
Sheets == [start : Nat, end : Nat, origin : Int, header : SUBSET Nat]

SoundPage(p, sheet) ==
  /\ sheet.start \in 1 .. Len(lines) /\ sheet.start < sheet.end
  /\ p = 1 => sheet.start = 1
  /\ sheet.origin = (IF p = 1 THEN 0 ELSE lines[sheet.start].top - PaddingTop) - HeaderHeight(sheet.start)
  /\ sheet.header = HeaderAbove(sheet.start)
  /\ \A n \in sheet.start + 1 .. sheet.end - 1 : ~BreaksBefore(n, sheet)

WellFilled(ls, to) ==
  /\ ls \in Seq(Sheets) /\ Len(ls) > 0
  /\ \A p \in 1 .. Len(ls) : SoundPage(p, ls[p]) /\ ls[p].end <= to
  /\ \A p \in 2 .. Len(ls) :
       ls[p].start = ls[p - 1].end /\ BreaksBefore(ls[p].start, ls[p - 1])
  /\ \A p, q \in 1 .. Len(ls) : p < q => ls[p].end <= ls[q].start
  /\ \A n \in 1 .. to - 1 : \E p \in 1 .. Len(ls) : ls[p].start <= n /\ n < ls[p].end
  /\ ls[Len(ls)].end = to

EmptyDocument == <<[start |-> 1, end |-> 1, origin |-> 0, header |-> {}]>>

PagesInv ==
  /\ at \in Nat /\ at <= Len(lines) + 2 /\ filling \in OpenPages /\ layouts \in Seq(Sheets)
  /\ at <= 1 => filling = NoPage /\ layouts = <<>>
  /\ at >= 2 /\ at <= Len(lines) + 1 => WellFilled(Append(layouts, PageLayout(filling, at)), at)
  /\ at = Len(lines) + 2 =>
       IF lines = <<>> THEN layouts = EmptyDocument ELSE WellFilled(layouts, Len(lines) + 1)

\* The rules look at the first line and the top of a page only.
LEMMA SameRules ==
  ASSUME NEW n, NEW on, NEW sheet, on.start = sheet.start, on.origin = sheet.origin
  PROVE  BreaksBefore(n, on) <=> BreaksBefore(n, sheet)
BY DEF BreaksBefore, RowMoves, Fits, Limit, ImageStays, AtomicMoves, HeadingMoves, ParagraphMoves

\* A line that stays extends the last page.
LEMMA FillMore ==
  ASSUME NEW ls \in Seq(Sheets), NEW x \in Sheets, NEW y \in Sheets, NEW to \in Nat,
         WellFilled(Append(ls, x), to), ~BreaksBefore(to, x),
         y.start = x.start, y.origin = x.origin, y.header = x.header, y.end = to + 1
  PROVE  WellFilled(Append(ls, y), to + 1)
<1>1. PICK M \in Nat : M = Len(ls) BY LenProperties
<1>2. PICK a \in Seq(Sheets) : a = Append(ls, x) BY AppendProperties
<1>3. PICK b \in Seq(Sheets) : b = Append(ls, y) BY AppendProperties
<1>4. /\ Len(a) = M + 1 /\ a[M + 1] = x /\ \A p \in 1 .. M : a[p] = ls[p]
  BY <1>1, <1>2, AppendProperties
<1>5. /\ Len(b) = M + 1 /\ b[M + 1] = y /\ \A p \in 1 .. M : b[p] = ls[p]
  BY <1>1, <1>3, AppendProperties
<1>6. WellFilled(a, to) BY <1>2
<1>7. \A p \in 1 .. M + 1 : SoundPage(p, a[p]) /\ a[p].end <= to BY <1>4, <1>6 DEF WellFilled
<1>8. x.end = to BY <1>4, <1>6 DEF WellFilled
<1>9. x.start \in Nat /\ x.end \in Nat BY DEF Sheets
<1>10. \A n : BreaksBefore(n, x) <=> BreaksBefore(n, y) BY SameRules
<1>11. SoundPage(M + 1, y)
  <2>1. M + 1 \in 1 .. M + 1 OBVIOUS
  <2>2. SoundPage(M + 1, x) BY <1>4, <1>7, <2>1
  <2>3. \A n \in y.start + 1 .. y.end - 1 : ~BreaksBefore(n, y)
    <3> SUFFICES ASSUME NEW n \in y.start + 1 .. y.end - 1 PROVE ~BreaksBefore(n, y) OBVIOUS
    <3>1. n = to \/ n \in x.start + 1 .. x.end - 1 BY <1>8, <1>9
    <3>2. ~BreaksBefore(n, x) BY <2>2, <3>1 DEF SoundPage
    <3> QED BY <1>10, <3>2
  <2>4. x.start \in 1 .. Len(lines) /\ x.start < x.end BY <2>2 DEF SoundPage
  <2>5. y.start < y.end BY <1>8, <1>9, <2>4
  <2> QED BY <2>2, <2>3, <2>5 DEF SoundPage
<1>12. \A p \in 1 .. M + 1 : SoundPage(p, b[p]) /\ b[p].end <= to + 1
  <2> SUFFICES ASSUME NEW p \in 1 .. M + 1 PROVE SoundPage(p, b[p]) /\ b[p].end <= to + 1
    OBVIOUS
  <2>1. CASE p = M + 1 BY <1>5, <1>11, <2>1
  <2>2. CASE p \in 1 .. M
    <3>1. b[p] = a[p] /\ SoundPage(p, a[p]) /\ a[p].end <= to BY <1>4, <1>5, <1>7, <2>2
    <3>2. a[p] \in Sheets BY <1>4, <2>2
    <3>3. a[p].end \in Nat BY <3>2 DEF Sheets
    <3> QED BY <3>1, <3>3
  <2> QED BY <2>1, <2>2
<1>13. \A p \in 1 .. M + 1 : b[p].start = a[p].start /\ (p <= M => b[p] = a[p])
  BY <1>4, <1>5
<1>14. ASSUME NEW p \in 2 .. M + 1
       PROVE  b[p].start = b[p - 1].end /\ BreaksBefore(b[p].start, b[p - 1])
  <2>1. a[p].start = a[p - 1].end /\ BreaksBefore(a[p].start, a[p - 1]) BY <1>4, <1>6 DEF WellFilled
  <2>2. p \in 1 .. M + 1 /\ p - 1 \in 1 .. M + 1 /\ p - 1 <= M OBVIOUS
  <2> QED BY <1>13, <2>1, <2>2
<1>15. ASSUME NEW p \in 1 .. M + 1, NEW q \in 1 .. M + 1, p < q
       PROVE  b[p].end <= b[q].start
  <2>1. a[p].end <= a[q].start BY <1>4, <1>6, <1>15 DEF WellFilled
  <2>2. p <= M BY <1>15
  <2> QED BY <1>13, <2>1, <2>2
<1>16. ASSUME NEW n \in 1 .. to + 1 - 1
       PROVE  \E p \in 1 .. M + 1 : b[p].start <= n /\ n < b[p].end
  <2>1. CASE n = to
    <3>1. M + 1 \in 1 .. M + 1 OBVIOUS
    <3>2. SoundPage(M + 1, x) BY <1>4, <1>7, <3>1
    <3>3. x.start < x.end BY <3>2 DEF SoundPage
    <3>4. b[M + 1].start <= n /\ n < b[M + 1].end BY <1>5, <1>8, <1>9, <2>1, <3>3
    <3> QED BY <3>1, <3>4
  <2>2. CASE n # to
    <3>1. PICK p \in 1 .. M + 1 : a[p].start <= n /\ n < a[p].end
      <4>1. n \in 1 .. to - 1 BY <2>2
      <4>2. \A m \in 1 .. to - 1 : \E p \in 1 .. Len(a) : a[p].start <= m /\ m < a[p].end
        BY <1>6, Zenon DEF WellFilled
      <4> QED BY <1>4, <4>1, <4>2
    <3>2. CASE p <= M BY <1>13, <3>1, <3>2
    <3>3. CASE p = M + 1
      <4>1. b[p].start <= n /\ n < b[p].end BY <1>4, <1>5, <1>8, <3>1, <3>3
      <4> QED BY <4>1
    <3> QED BY <3>2, <3>3
  <2> QED BY <2>1, <2>2
<1>17. b[M + 1].end = to + 1 /\ Len(b) > 0 BY <1>5
<1>18. WellFilled(b, to + 1)
  <2>1. Len(b) = M + 1 BY <1>5
  <2>2. \A p \in 1 .. Len(b) : SoundPage(p, b[p]) /\ b[p].end <= to + 1
    BY <1>12, <2>1, Zenon
  <2>3. \A p \in 2 .. Len(b) : b[p].start = b[p - 1].end /\ BreaksBefore(b[p].start, b[p - 1])
    BY <1>14, <2>1, Zenon
  <2>4. \A p, q \in 1 .. Len(b) : p < q => b[p].end <= b[q].start BY <1>15, <2>1, Zenon
  <2>5. \A n \in 1 .. to + 1 - 1 : \E p \in 1 .. Len(b) : b[p].start <= n /\ n < b[p].end
    BY <1>16, <2>1, Zenon
  <2>6. b[Len(b)].end = to + 1 /\ Len(b) > 0 BY <1>17, <2>1, Zenon
  <2>7. b \in Seq(Sheets) OBVIOUS
  <2> QED BY <2>2, <2>3, <2>4, <2>5, <2>6, <2>7, SMT DEF WellFilled
<1> QED BY <1>3, <1>18

\* A line before which the scan breaks begins the next page.
LEMMA TurnOver ==
  ASSUME NEW ls \in Seq(Sheets), NEW y \in Sheets, NEW to \in 1 .. Len(lines),
         WellFilled(ls, to), BreaksBefore(to, ls[Len(ls)]),
         y.start = to, y.end = to + 1, y.header = HeaderAbove(to),
         y.origin = lines[to].top - PaddingTop - HeaderHeight(to)
  PROVE  WellFilled(Append(ls, y), to + 1)
<1>1. PICK M \in Nat : M = Len(ls) BY LenProperties
<1>2. PICK b \in Seq(Sheets) : b = Append(ls, y) BY AppendProperties
<1>3. /\ Len(b) = M + 1 /\ b[M + 1] = y /\ \A p \in 1 .. M : b[p] = ls[p]
  BY <1>1, <1>2, AppendProperties
<1>4. M > 0 BY <1>1 DEF WellFilled
<1>5. ASSUME NEW p \in 1 .. M
      PROVE  SoundPage(p, ls[p]) /\ ls[p].end <= to /\ ls[p].end \in Nat /\ ls[p].start \in Nat
  <2>1. ls[p] \in Sheets BY <1>1
  <2> QED BY <1>1, <2>1 DEF WellFilled, Sheets
<1>6. SoundPage(M + 1, y)
  <2>1. M + 1 # 1 BY <1>4
  <2>2. y.start < y.end OBVIOUS
  <2>3. \A n \in y.start + 1 .. y.end - 1 : FALSE OBVIOUS
  <2>4. y.origin = (IF M + 1 = 1 THEN 0 ELSE lines[y.start].top - PaddingTop) - HeaderHeight(y.start)
    BY <2>1
  <2> QED BY <2>1, <2>2, <2>3, <2>4 DEF SoundPage
<1>7. \A p \in 1 .. M + 1 : SoundPage(p, b[p]) /\ b[p].end <= to + 1
  <2> SUFFICES ASSUME NEW p \in 1 .. M + 1 PROVE SoundPage(p, b[p]) /\ b[p].end <= to + 1
    OBVIOUS
  <2>1. CASE p = M + 1 BY <1>3, <1>6, <2>1
  <2>2. CASE p \in 1 .. M
    <3>1. b[p] = ls[p] BY <1>3, <2>2
    <3> QED BY <1>5, <2>2, <3>1
  <2> QED BY <2>1, <2>2
<1>8. ASSUME NEW p \in 2 .. M + 1
      PROVE  b[p].start = b[p - 1].end /\ BreaksBefore(b[p].start, b[p - 1])
  <2>1. CASE p = M + 1
    <3>1. M \in 1 .. M BY <1>4
    <3>2. b[p] = y /\ b[p - 1] = ls[M] BY <1>3, <2>1, <3>1
    <3>3. ls[M].end = to BY <1>1 DEF WellFilled
    <3> QED BY <1>1, <3>2, <3>3
  <2>2. CASE p \in 2 .. M
    <3>1. p \in 1 .. M /\ p - 1 \in 1 .. M BY <2>2
    <3>2. b[p] = ls[p] /\ b[p - 1] = ls[p - 1] BY <1>3, <3>1
    <3> QED BY <1>1, <2>2, <3>2 DEF WellFilled
  <2> QED BY <2>1, <2>2
<1>9. ASSUME NEW p \in 1 .. M + 1, NEW q \in 1 .. M + 1, p < q
      PROVE  b[p].end <= b[q].start
  <2>1. p \in 1 .. M BY <1>9
  <2>2. b[p] = ls[p] BY <1>3, <2>1
  <2>3. CASE q = M + 1 BY <1>3, <1>5, <2>1, <2>2, <2>3
  <2>4. CASE q \in 1 .. M
    <3>1. b[q] = ls[q] BY <1>3, <2>4
    <3> QED BY <1>1, <1>9, <2>1, <2>2, <2>4, <3>1 DEF WellFilled
  <2> QED BY <2>3, <2>4
<1>10. ASSUME NEW n \in 1 .. to + 1 - 1
       PROVE  \E p \in 1 .. M + 1 : b[p].start <= n /\ n < b[p].end
  <2>1. CASE n = to
    <3>1. M + 1 \in 1 .. M + 1 OBVIOUS
    <3>2. b[M + 1].start <= n /\ n < b[M + 1].end BY <1>3, <2>1
    <3> QED BY <3>1, <3>2
  <2>2. CASE n # to
    <3>1. PICK p \in 1 .. M : ls[p].start <= n /\ n < ls[p].end BY <1>1, <2>2 DEF WellFilled
    <3>2. b[p] = ls[p] BY <1>3
    <3> QED BY <3>1, <3>2
  <2> QED BY <2>1, <2>2
<1>11. b[M + 1].end = to + 1 /\ Len(b) > 0 BY <1>3
<1>12. WellFilled(b, to + 1)
  <2>1. Len(b) = M + 1 BY <1>3
  <2>2. \A p \in 1 .. Len(b) : SoundPage(p, b[p]) /\ b[p].end <= to + 1
    BY <1>7, <2>1, Zenon
  <2>3. \A p \in 2 .. Len(b) : b[p].start = b[p - 1].end /\ BreaksBefore(b[p].start, b[p - 1])
    BY <1>8, <2>1, Zenon
  <2>4. \A p, q \in 1 .. Len(b) : p < q => b[p].end <= b[q].start BY <1>9, <2>1, Zenon
  <2>5. \A n \in 1 .. to + 1 - 1 : \E p \in 1 .. Len(b) : b[p].start <= n /\ n < b[p].end
    BY <1>10, <2>1, Zenon
  <2>6. b[Len(b)].end = to + 1 /\ Len(b) > 0 BY <1>11, <2>1, Zenon
  <2>7. b \in Seq(Sheets) OBVIOUS
  <2> QED BY <2>2, <2>3, <2>4, <2>5, <2>6, <2>7, SMT DEF WellFilled
<1> QED BY <1>2, <1>12

\* A line of the document.
LEMMA LineFacts ==
  ASSUME LinesInv, NEW n \in 1 .. Len(lines)
  PROVE  /\ lines \in Seq(LaidLines) /\ Len(lines) \in Nat /\ LaidOut(n)
         /\ lines[n].top \in Nat /\ lines[n].bottom \in Nat /\ lines[n].block \in Nat
         /\ lines[n].blockEnd \in Nat /\ lines[n].row \in Nat /\ lines[n].rowEnd \in Nat
         /\ lines[n].above \in Nat /\ lines[n].header \in BOOLEAN
         /\ 1 <= lines[n].block /\ lines[n].block <= lines[n].row /\ lines[n].row <= n
         /\ n < lines[n].rowEnd /\ lines[n].rowEnd <= lines[n].blockEnd
         /\ lines[n].blockEnd <= Len(lines) + 1
<1>1. lines \in Seq(LaidLines) /\ LaidOut(n) BY DEF LinesInv
<1>2. lines[n] \in LaidLines BY <1>1
<1>3. /\ lines[n].top \in Nat /\ lines[n].bottom \in Nat /\ lines[n].block \in Nat
      /\ lines[n].blockEnd \in Nat /\ lines[n].row \in Nat /\ lines[n].rowEnd \in Nat
      /\ lines[n].above \in Nat /\ lines[n].header \in BOOLEAN
  BY <1>2 DEF LaidLines
<1>4. lines[n].block \in 1 .. n /\ lines[n].row \in lines[n].block .. n
      /\ lines[n].rowEnd \in n + 1 .. lines[n].blockEnd /\ lines[n].blockEnd <= Len(lines) + 1
  BY <1>1 DEF LaidOut
<1>5. 1 <= lines[n].block /\ lines[n].block <= lines[n].row /\ lines[n].row <= n
  BY <1>3, <1>4
<1>6. n < lines[n].rowEnd /\ lines[n].rowEnd <= lines[n].blockEnd BY <1>3, <1>4
<1> QED BY <1>1, <1>3, <1>4, <1>5, <1>6

\* The header above a row of a table begins a row of its own.
LEMMA HeaderRow ==
  ASSUME LinesInv, NEW n \in 1 .. Len(lines), lines[n].kind = "table"
  PROVE  /\ lines[n].above \in 1 .. lines[n].row /\ lines[n].above \in 1 .. Len(lines)
         /\ lines[n].above # Nowhere
         /\ lines[lines[n].above].row = lines[n].above /\ lines[lines[n].above].header
<1>1. /\ lines[n].above \in lines[n].block .. lines[n].row
      /\ lines[lines[n].above].row = lines[n].above /\ lines[lines[n].above].header
  BY LineFacts DEF LaidOut
<1>2. lines[n].above \in Nat /\ 1 <= lines[n].above /\ lines[n].above <= lines[n].row
      /\ lines[n].row \in Nat /\ lines[n].row <= n
  BY <1>1, LineFacts
<1> QED BY <1>1, <1>2, LineFacts DEF Nowhere

\* What is repeated above a line is of the document; nothing is above the first.
LEMMA HeaderTypes ==
  ASSUME LinesInv, NEW n \in 1 .. Len(lines)
  PROVE  /\ HeaderAbove(n) \in SUBSET Nat /\ HeaderHeight(n) \in Int
         /\ n = 1 => ~Repeats(n)
<1>1. CASE ~Repeats(n) BY <1>1 DEF HeaderAbove, HeaderHeight
<1>2. CASE Repeats(n)
  <2>1. lines[n].kind = "table" /\ ~lines[n].header BY <1>2 DEF Repeats
  <2>2. PICK h \in 1 .. Len(lines) :
          h = lines[n].above /\ h <= lines[n].row /\ lines[h].header /\ lines[h].row = h
    BY <2>1, HeaderRow
  <2>3. /\ lines[h].rowEnd \in Nat /\ lines[h].top \in Nat /\ h < lines[h].rowEnd
        /\ lines[h].rowEnd <= Len(lines) + 1
    <3>1. lines[h].rowEnd \in Nat /\ lines[h].top \in Nat /\ h < lines[h].rowEnd
      BY LineFacts, Zenon
    <3>2. lines[h].rowEnd \in Nat /\ lines[h].blockEnd \in Nat /\ Len(lines) \in Nat
          /\ lines[h].rowEnd <= lines[h].blockEnd /\ lines[h].blockEnd <= Len(lines) + 1
      BY LineFacts, Zenon
    <3>3. lines[h].rowEnd <= Len(lines) + 1 BY <3>2
    <3> QED BY <3>1, <3>3
  <2>4. lines[h].rowEnd - 1 \in 1 .. Len(lines) BY <2>3, LineFacts
  <2>5. lines[lines[h].rowEnd - 1].bottom \in Nat BY <2>4, LineFacts
  <2>6. HeaderHeight(n) \in Int BY <1>2, <2>2, <2>3, <2>5 DEF HeaderHeight, Extent
  <2>7. HeaderAbove(n) = h .. (lines[h].rowEnd - 1) BY <1>2, <2>2 DEF HeaderAbove
  <2>8. HeaderAbove(n) \in SUBSET Nat BY <2>3, <2>7
  <2>9. n # 1
    <3>1. h <= n BY <2>2, LineFacts
    <3> QED BY <2>1, <2>2, <3>1
  <2> QED BY <2>6, <2>8, <2>9
<1> QED BY <1>1, <1>2

\* A page that is opened.
LEMMA OpenedPages ==
  ASSUME LinesInv, NEW n \in 1 .. Len(lines)
  PROVE  OpenPage(n, lines[n].top - PaddingTop - HeaderHeight(n), HeaderAbove(n)) \in OpenPages
<1>1. lines[n].top \in Nat BY LineFacts
<1>2. HeaderHeight(n) \in Int /\ HeaderAbove(n) \in SUBSET Nat BY HeaderTypes
<1>3. PaddingTop \in Nat BY PageAssumption
<1>4. lines[n].top - PaddingTop - HeaderHeight(n) \in Int BY <1>1, <1>2, <1>3
<1> QED BY <1>2, <1>4 DEF OpenPage, OpenPages

\* A page that is pushed.
LEMMA PageTypes ==
  ASSUME NEW on \in OpenPages, NEW end \in Nat
  PROVE  /\ PageLayout(on, end) \in Sheets
         /\ PageLayout(on, end).start = on.start /\ PageLayout(on, end).end = end
         /\ PageLayout(on, end).origin = on.origin /\ PageLayout(on, end).header = on.header
BY DEF OpenPages, Sheets, PageLayout

\* The first page of a document with lines.
LEMMA FirstPage ==
  ASSUME LinesInv, Len(lines) > 0, NEW y \in Sheets,
         y.start = 1, y.end = 2, y.origin = 0, y.header = {}
  PROVE  WellFilled(<<y>>, 2)
<1>1. 1 \in 1 .. Len(lines) BY DEF LinesInv
<1>2. ~Repeats(1) BY <1>1, HeaderTypes
<1>3. HeaderHeight(1) = 0 /\ HeaderAbove(1) = {} BY <1>2 DEF HeaderHeight, HeaderAbove
<1>4. \A n \in y.start + 1 .. y.end - 1 : FALSE OBVIOUS
<1>5. SoundPage(1, y)
  <2>1. y.origin = (IF 1 = 1 THEN 0 ELSE lines[y.start].top - PaddingTop) - HeaderHeight(y.start)
    BY <1>3
  <2>2. y.start \in 1 .. Len(lines) /\ y.start < y.end /\ y.header = HeaderAbove(y.start)
    BY <1>1, <1>3
  <2> QED BY <1>4, <2>1, <2>2, Zenon DEF SoundPage
<1>6. PICK ls \in Seq(Sheets) : ls = <<y>>
  <2>1. <<y>> \in Seq(Sheets) OBVIOUS
  <2> QED BY <2>1, Zenon
<1>7. Len(ls) = 1 /\ ls[1] = y BY <1>6
<1>8. \A p \in 1 .. 1 : p = 1 OBVIOUS
<1>9. \A p \in 1 .. Len(ls) : SoundPage(p, ls[p]) /\ ls[p].end <= 2 BY <1>5, <1>7, <1>8
<1>10. \A n \in 1 .. 2 - 1 : \E p \in 1 .. Len(ls) : ls[p].start <= n /\ n < ls[p].end
  <2>1. \A n \in 1 .. 2 - 1 : n = 1 OBVIOUS
  <2>2. 1 \in 1 .. Len(ls) /\ ls[1].start <= 1 /\ 1 < ls[1].end BY <1>7
  <2> QED BY <2>1, <2>2
<1>11. \A p, q \in 1 .. Len(ls) : p < q => ls[p].end <= ls[q].start BY <1>7
<1>12. \A p \in 2 .. Len(ls) : FALSE BY <1>7
<1>13. Len(ls) > 0 /\ ls[Len(ls)].end = 2 BY <1>7
<1> QED BY <1>6, <1>9, <1>10, <1>11, <1>12, <1>13 DEF WellFilled

\* The scan has not begun at first.
LEMMA PagesInit == PaginationInit => PagesInv
<1> SUFFICES ASSUME PaginationInit PROVE PagesInv OBVIOUS
<1>1. at = 0 /\ filling = NoPage /\ layouts = <<>> /\ Len(lines) = 0 BY DEF PaginationInit, Nowhere
<1>2. NoPage \in OpenPages BY DEF NoPage, OpenPage, OpenPages, Nowhere
<1> QED BY <1>1, <1>2 DEF PagesInv

\* What holds of the pages holds while the document stays.
LEMMA SameDocument ==
  ASSUME UNCHANGED <<pageHeight, lines>>, NEW ls, NEW to, WellFilled(ls, to)
  PROVE  WellFilled(ls, to)'
<1>1. ASSUME NEW n, NEW sheet PROVE BreaksBefore(n, sheet)' <=> BreaksBefore(n, sheet)
  BY DEF BreaksBefore, RowMoves, Fits, Limit, ImageStays, AtomicMoves,
    HeadingMoves, ParagraphMoves, FitsFreshPage, Extent, Available, Opens
<1>2. ASSUME NEW n PROVE HeaderAbove(n)' = HeaderAbove(n) /\ HeaderHeight(n)' = HeaderHeight(n)
  BY DEF HeaderAbove, HeaderHeight, Repeats, Extent
<1>3. ASSUME NEW p, NEW sheet, SoundPage(p, sheet) PROVE SoundPage(p, sheet)'
  BY <1>1, <1>2, <1>3 DEF SoundPage
<1> QED BY <1>1, <1>3 DEF WellFilled

\* So it does for the pages of a scan, and
LEMMA SameDocumentScan ==
  ASSUME UNCHANGED <<pageHeight, lines>>,
         WellFilled(Append(layouts', PageLayout(filling', at')), at')
  PROVE  WellFilled(Append(layouts, PageLayout(filling, at)), at)'
<1>1. PICK ls : ls = Append(layouts', PageLayout(filling', at')) OBVIOUS
<1>2. PICK to : to = at' OBVIOUS
<1>3. WellFilled(ls, to) BY <1>1, <1>2
<1>4. WellFilled(ls, to)' BY <1>3, SameDocument
<1> QED BY <1>1, <1>2, <1>4 DEF PageLayout

\* for the pages of a finished document.
LEMMA SameDocumentEnd ==
  ASSUME UNCHANGED <<pageHeight, lines>>, WellFilled(layouts', Len(lines) + 1)
  PROVE  WellFilled(layouts, Len(lines) + 1)'
<1>1. PICK ls : ls = layouts' OBVIOUS
<1>2. PICK to : to = Len(lines) + 1 OBVIOUS
<1>3. WellFilled(ls, to) BY <1>1, <1>2
<1>4. WellFilled(ls, to)' BY <1>3, SameDocument
<1>5. (Len(lines) + 1)' = to BY <1>2
<1> QED BY <1>1, <1>4, <1>5

\* Before the scan there are no pages.
LEMMA NothingBegun ==
  ASSUME at' \in Nat, at' <= 1, at' <= Len(lines') + 2, filling' = NoPage, layouts' = <<>>
  PROVE  PagesInv'
<1>1. NoPage \in OpenPages BY DEF NoPage, OpenPage, OpenPages, Nowhere
<1>2. Len(lines') \in Nat => at' # Len(lines') + 2 OBVIOUS
<1> QED BY <1>1 DEF PagesInv

\* A step of the scan keeps the pages.
LEMMA AddLineKeeps ==
  ASSUME LinesInv, PagesInv, AddLine
  PROVE  PagesInv'
<1>1. Len(lines) \in Nat /\ at \in Nat /\ at # 0 /\ at <= Len(lines) /\ Scanning
  BY DEF LinesInv, PagesInv, AddLine, Scanning, Nowhere
<1>2. filling \in OpenPages /\ layouts \in Seq(Sheets) BY DEF PagesInv
<1>3. /\ UNCHANGED <<pageHeight, lines>> /\ layouts' = layouts /\ at' = at + 1
      /\ filling' = [filling EXCEPT !.start = IF @ = Nowhere THEN at ELSE @]
  BY DEF AddLine
<1>4. at' \in Nat /\ at' <= Len(lines') + 1 /\ at' >= 2 BY <1>1, <1>3
<1>5. /\ filling' \in OpenPages
      /\ filling'.start = IF filling.start = Nowhere THEN at ELSE filling.start
      /\ filling'.origin = filling.origin /\ filling'.header = filling.header
  BY <1>1, <1>2, <1>3 DEF OpenPages
<1>6. PICK y \in Sheets : y = PageLayout(filling', at + 1) /\ y.start = filling'.start
        /\ y.end = at + 1 /\ y.origin = filling.origin /\ y.header = filling.header
  BY <1>1, <1>5, PageTypes
<1>7. WellFilled(Append(layouts, y), at + 1)
  <2>1. CASE at = 1
    <3>1. filling = NoPage /\ layouts = <<>> BY <2>1 DEF PagesInv
    <3>2. y.start = 1 /\ y.end = 2 /\ y.origin = 0 /\ y.header = {}
      BY <1>5, <1>6, <2>1, <3>1 DEF NoPage, OpenPage
    <3>3. Append(layouts, y) = <<y>> BY <3>1
    <3>4. at + 1 = 2 /\ Len(lines) > 0 BY <1>1, <2>1
    <3> QED BY <3>2, <3>3, <3>4, FirstPage
  <2>2. CASE at >= 2
    <3>1. WellFilled(Append(layouts, PageLayout(filling, at)), at) BY <1>1, <2>2 DEF PagesInv
    <3>2. PICK x \in Sheets : x = PageLayout(filling, at) /\ x.start = filling.start
            /\ x.end = at /\ x.origin = filling.origin /\ x.header = filling.header
      BY <1>1, <1>2, PageTypes
    <3>3. x.start # Nowhere
      <4>1. PICK M \in Nat : M = Len(layouts) BY <1>2
      <4>2. Len(Append(layouts, x)) = M + 1 /\ Append(layouts, x)[M + 1] = x
        BY <1>2, <4>1, AppendProperties
      <4>3. SoundPage(M + 1, x)
        <5>1. M + 1 \in 1 .. M + 1 OBVIOUS
        <5> QED BY <3>1, <3>2, <4>2, <5>1 DEF WellFilled
      <4> QED BY <4>3 DEF SoundPage, Nowhere
    <3>4. ~BreaksBefore(at, filling) BY <3>2, <3>3 DEF AddLine
    <3>5. ~BreaksBefore(at, x) BY <3>2, <3>4, SameRules
    <3>6. y.start = x.start BY <1>5, <1>6, <3>2, <3>3
    <3> QED BY <1>1, <1>2, <1>6, <3>1, <3>2, <3>5, <3>6, FillMore
  <2> QED BY <1>1, <2>1, <2>2
<1>8. WellFilled(Append(layouts, PageLayout(filling, at)), at)'
  BY <1>3, <1>6, <1>7, SameDocumentScan
<1>9. at' # Len(lines') + 2 BY <1>1, <1>3
<1> QED BY <1>2, <1>3, <1>4, <1>5, <1>8, <1>9 DEF PagesInv

\* A break pushes the page and opens the next.
LEMMA BreakPageKeeps ==
  ASSUME LinesInv, PagesInv, BreakPage
  PROVE  PagesInv'
<1>1. Len(lines) \in Nat /\ at \in Nat /\ at # 0 /\ at <= Len(lines) /\ Scanning
  BY DEF LinesInv, PagesInv, BreakPage, Scanning, Nowhere
<1>2. filling \in OpenPages /\ layouts \in Seq(Sheets) BY DEF PagesInv
<1>3. /\ UNCHANGED <<pageHeight, lines>> /\ layouts' = Append(layouts, PageLayout(filling, at))
      /\ at' = at + 1 /\ filling.start # Nowhere /\ BreaksBefore(at, filling)
      /\ filling' = OpenPage(at, lines[at].top - PaddingTop - HeaderHeight(at), HeaderAbove(at))
  BY DEF BreakPage
<1>4. at' \in Nat /\ at' <= Len(lines') + 1 /\ at' >= 2 BY <1>1, <1>3
<1>5. at \in 1 .. Len(lines) BY <1>1
<1>6. filling' \in OpenPages BY <1>3, <1>5, OpenedPages
<1>7. at >= 2
  <2>1. at # 1 BY <1>3 DEF PagesInv, NoPage, OpenPage
  <2> QED BY <1>1, <2>1
<1>8. PICK x \in Sheets : x = PageLayout(filling, at) /\ x.start = filling.start
        /\ x.end = at /\ x.origin = filling.origin
  BY <1>1, <1>2, PageTypes
<1>9. PICK ls \in Seq(Sheets) : ls = Append(layouts, x) BY <1>2, AppendProperties
<1>10. WellFilled(ls, at) BY <1>1, <1>7, <1>8, <1>9 DEF PagesInv
<1>11. ls[Len(ls)] = x BY <1>2, <1>9, AppendProperties
<1>12. BreaksBefore(at, ls[Len(ls)]) BY <1>3, <1>8, <1>11, SameRules
<1>13. PICK y \in Sheets : /\ y = PageLayout(filling', at + 1) /\ y.start = at /\ y.end = at + 1
         /\ y.header = HeaderAbove(at)
         /\ y.origin = lines[at].top - PaddingTop - HeaderHeight(at)
  <2>1. at + 1 \in Nat BY <1>1
  <2>2. /\ filling'.start = at /\ filling'.header = HeaderAbove(at)
        /\ filling'.origin = lines[at].top - PaddingTop - HeaderHeight(at)
    BY <1>3 DEF OpenPage
  <2> QED BY <1>6, <2>1, <2>2, PageTypes
<1>14. WellFilled(Append(ls, y), at + 1) BY <1>5, <1>10, <1>12, <1>13, TurnOver
<1>15. WellFilled(Append(layouts, PageLayout(filling, at)), at)'
  BY <1>3, <1>8, <1>9, <1>13, <1>14, SameDocumentScan
<1>16. layouts' \in Seq(Sheets) BY <1>3, <1>8, <1>9
<1>17. at' # Len(lines') + 2 BY <1>1, <1>3
<1> QED BY <1>4, <1>6, <1>15, <1>16, <1>17 DEF PagesInv

\* The last page ends with the document.
LEMMA FinishKeeps ==
  ASSUME LinesInv, PagesInv, Finish
  PROVE  PagesInv'
<1>1. /\ at = Len(lines) + 1 /\ at' = at + 1 /\ UNCHANGED <<pageHeight, lines, filling>>
      /\ layouts' = Append(layouts, PageLayout(IF filling.start = Nowhere
                                               THEN [filling EXCEPT !.start = at] ELSE filling, at))
  BY DEF Finish
<1>2. Len(lines) \in Nat /\ at \in Nat BY <1>1 DEF LinesInv, PagesInv
<1>3. filling \in OpenPages /\ layouts \in Seq(Sheets) BY DEF PagesInv
<1>4. CASE Len(lines) = 0
  <2>1. at = 1 /\ lines = <<>> BY <1>1, <1>4, EmptySeq DEF LinesInv
  <2>2. filling = NoPage /\ layouts = <<>> BY <2>1 DEF PagesInv
  <2>3. layouts' = EmptyDocument
    BY <1>1, <2>1, <2>2 DEF NoPage, OpenPage, PageLayout, Nowhere, EmptyDocument
  <2>4. EmptyDocument \in Seq(Sheets) BY DEF EmptyDocument, Sheets
  <2>5. at' = 2 /\ lines' = <<>> /\ Len(lines') = 0 BY <1>1, <1>4, <2>1
  <2>6. at' \in Nat /\ at' <= Len(lines') + 2 /\ ~(at' <= 1) /\ ~(at' <= Len(lines') + 1)
        /\ at' = Len(lines') + 2
    BY <2>5
  <2>7. filling' \in OpenPages /\ layouts' \in Seq(Sheets) BY <1>1, <1>3, <2>3, <2>4
  <2> QED BY <2>3, <2>5, <2>6, <2>7, Zenon DEF PagesInv, EmptyDocument
<1>5. CASE Len(lines) > 0
  <2>1. WellFilled(Append(layouts, PageLayout(filling, at)), at) BY <1>1, <1>2, <1>5 DEF PagesInv
  <2>2. filling.start # Nowhere
    <3>1. PICK M \in Nat : M = Len(layouts) BY <1>3
    <3>2. PICK x \in Sheets : x = PageLayout(filling, at) /\ x.start = filling.start
      BY <1>2, <1>3, PageTypes
    <3>3. Len(Append(layouts, x)) = M + 1 /\ Append(layouts, x)[M + 1] = x
      BY <1>3, <3>1, AppendProperties
    <3>4. SoundPage(M + 1, x)
      <4>1. M + 1 \in 1 .. M + 1 OBVIOUS
      <4> QED BY <2>1, <3>2, <3>3, <4>1 DEF WellFilled
    <3> QED BY <3>2, <3>4 DEF SoundPage, Nowhere
  <2>3. layouts' = Append(layouts, PageLayout(filling, at)) BY <1>1, <2>2
  <2>4. WellFilled(layouts', Len(lines) + 1) BY <1>1, <2>1, <2>3
  <2>5. WellFilled(layouts, Len(lines) + 1)' BY <1>1, <2>4, SameDocumentEnd
  <2>6. layouts' \in Seq(Sheets) BY <2>4 DEF WellFilled
  <2>7. lines' # <<>> BY <1>1, <1>5
  <2>8. at' = Len(lines') + 2 /\ at' \in Nat /\ at' > 1 BY <1>1, <1>2, <1>5
  <2> QED BY <1>1, <1>3, <2>5, <2>6, <2>7, <2>8 DEF PagesInv
<1> QED BY <1>2, <1>4, <1>5

\* Every step keeps the invariant.
LEMMA PaginationStep ==
  ASSUME LinesInv, PagesInv, [PaginationNext]_paginationVars
  PROVE  LinesInv' /\ PagesInv'
<1>1. CASE LayBlock
  <2>1. LinesInv' BY <1>1, LayKeeps
  <2>2. at' = 0 /\ filling' = NoPage /\ layouts' = <<>> BY <1>1 DEF LayBlock, PagesInv, Nowhere
  <2>3. Len(lines') \in Nat BY <2>1 DEF LinesInv
  <2> QED BY <2>1, <2>2, <2>3, NothingBegun
<1>2. CASE PaginationNext /\ ~LayBlock
  <2>1. UNCHANGED <<pageHeight, spacing, lines>>
    BY <1>2 DEF PaginationNext, BeginScan, BreakPage, AddLine, Finish
  <2>2. LinesInv' BY <2>1 DEF LinesInv, LaidOut, SameBlock, SameRow
  <2>3. CASE BeginScan
    <3>1. at' = 1 /\ filling' = NoPage /\ layouts' = <<>> BY <2>3 DEF BeginScan, PagesInv, Nowhere
    <3>2. Len(lines') \in Nat BY <2>2 DEF LinesInv
    <3> QED BY <2>2, <3>1, <3>2, NothingBegun
  <2>4. CASE AddLine BY <2>2, <2>4, AddLineKeeps
  <2>5. CASE BreakPage BY <2>2, <2>5, BreakPageKeeps
  <2>6. CASE Finish BY <2>2, <2>6, FinishKeeps
  <2> QED BY <1>2, <2>3, <2>4, <2>5, <2>6 DEF PaginationNext
<1>3. CASE UNCHANGED paginationVars
  <2>1. UNCHANGED <<pageHeight, spacing, lines, at, filling, layouts>> BY <1>3 DEF paginationVars
  <2>2. LinesInv' BY <2>1 DEF LinesInv, LaidOut, SameBlock, SameRow
  <2>3. at >= 2 /\ at <= Len(lines) + 1 =>
          WellFilled(Append(layouts, PageLayout(filling, at)), at)'
    <3> SUFFICES ASSUME at >= 2 /\ at <= Len(lines) + 1
                 PROVE  WellFilled(Append(layouts, PageLayout(filling, at)), at)'
      OBVIOUS
    <3>1. WellFilled(Append(layouts, PageLayout(filling, at)), at) BY DEF PagesInv
    <3> QED BY <2>1, <3>1, SameDocumentScan
  <2>4. at = Len(lines) + 2 =>
          IF lines = <<>> THEN layouts = EmptyDocument ELSE WellFilled(layouts, Len(lines) + 1)'
    <3> SUFFICES ASSUME at = Len(lines) + 2, lines # <<>> PROVE WellFilled(layouts, Len(lines) + 1)'
      BY DEF PagesInv
    <3>1. WellFilled(layouts, Len(lines) + 1) BY DEF PagesInv
    <3> QED BY <2>1, <3>1, SameDocumentEnd
  <2> QED BY <2>1, <2>2, <2>3, <2>4 DEF PagesInv, EmptyDocument
<1> QED BY <1>1, <1>2, <1>3

-----------------------------------------------------------------------------
\* The page a line lies on is unique.
LEMMA PageIs ==
  ASSUME WellFilled(layouts, Len(lines) + 1), NEW p \in 1 .. Len(layouts), NEW n \in Nat,
         layouts[p].start <= n, n < layouts[p].end
  PROVE  PageOf(n) = p
<1>1. layouts \in Seq(Sheets) /\ DOMAIN layouts = 1 .. Len(layouts) BY DEF WellFilled
<1>2. PICK q \in 1 .. Len(layouts) :
        q = PageOf(n) /\ layouts[q].start <= n /\ n < layouts[q].end
  BY <1>1 DEF PageOf
<1>3. layouts[p] \in Sheets /\ layouts[q] \in Sheets BY <1>1
<1>4. layouts[p].start \in Nat /\ layouts[p].end \in Nat
      /\ layouts[q].start \in Nat /\ layouts[q].end \in Nat
  BY <1>3 DEF Sheets
<1>5. ~(p < q)
  <2> SUFFICES ASSUME p < q PROVE FALSE OBVIOUS
  <2>1. layouts[p].end <= layouts[q].start BY DEF WellFilled
  <2> QED BY <1>2, <1>4, <2>1
<1>6. ~(q < p)
  <2> SUFFICES ASSUME q < p PROVE FALSE OBVIOUS
  <2>1. layouts[q].end <= layouts[p].start BY DEF WellFilled
  <2> QED BY <1>2, <1>4, <2>1
<1> QED BY <1>2, <1>5, <1>6

\* Every line lies on a page.
LEMMA PageExists ==
  ASSUME LinesInv, WellFilled(layouts, Len(lines) + 1), NEW n \in 1 .. Len(lines)
  PROVE  \E p \in 1 .. Len(layouts) :
           PageOf(n) = p /\ layouts[p].start <= n /\ n < layouts[p].end
<1>1. n \in 1 .. (Len(lines) + 1) - 1 /\ n \in Nat BY DEF LinesInv
<1>2. \A m \in 1 .. (Len(lines) + 1) - 1 :
        \E p \in 1 .. Len(layouts) : layouts[p].start <= m /\ m < layouts[p].end
  BY Zenon DEF WellFilled
<1>3. PICK p \in 1 .. Len(layouts) : layouts[p].start <= n /\ n < layouts[p].end BY <1>1, <1>2
<1>4. PageOf(n) = p BY <1>1, <1>3, PageIs
<1> QED BY <1>3, <1>4

\* A row whose first line is on a page fits that page, if it fits any.
LEMMA UnitFits ==
  ASSUME LinesInv, WellFilled(layouts, Len(lines) + 1), NEW n \in 1 .. Len(lines),
         lines[n].kind \in Units,
         Extent(lines[n].row, lines[n].rowEnd) + HeaderHeight(n) <= Available,
         NEW p \in 1 .. Len(layouts),
         layouts[p].start <= lines[n].row, lines[n].row < layouts[p].end
  PROVE  Fits(lines[n].rowEnd - 1, layouts[p])
<1>1. PICK u \in Nat, e \in Nat :
        u = lines[n].row /\ e = lines[n].rowEnd /\ u \in 1 .. Len(lines) /\ e - 1 \in 1 .. Len(lines)
        /\ u \in u .. e - 1 /\ n \in u .. e - 1
  <2>1. Len(lines) \in Nat /\ n \in Nat BY DEF LinesInv
  <2>2. /\ lines[n].row \in Nat /\ lines[n].rowEnd \in Nat /\ 1 <= lines[n].row
        /\ lines[n].row <= n /\ n < lines[n].rowEnd /\ lines[n].rowEnd <= Len(lines) + 1
    BY LineFacts
  <2>3. PICK u \in Nat, e \in Nat : u = lines[n].row /\ e = lines[n].rowEnd BY <2>2
  <2>4. u \in 1 .. Len(lines) BY <2>1, <2>2, <2>3
  <2>5. e - 1 \in 1 .. Len(lines) BY <2>1, <2>2, <2>3
  <2>6. u \in u .. e - 1 /\ n \in u .. e - 1 BY <2>1, <2>2, <2>3
  <2> QED BY <2>3, <2>4, <2>5, <2>6
<1>2. /\ lines[u].kind = lines[n].kind /\ lines[u].row = u /\ lines[u].rowEnd = e
      /\ lines[u].header = lines[n].header /\ lines[u].above = lines[n].above
      /\ lines[u].block = lines[n].block /\ lines[u].blockEnd = lines[n].blockEnd
      /\ (lines[n].kind # "table" => lines[n].block = u /\ lines[n].blockEnd = e)
  <2>1. LaidOut(n) BY LineFacts
  <2>2. SameRow(u, n) BY <1>1, <2>1 DEF LaidOut
  <2>3. u \in lines[n].block .. lines[n].blockEnd - 1
    <3>1. lines[n].block \in Nat /\ lines[n].blockEnd \in Nat /\ lines[n].block <= lines[n].row
          /\ lines[n].rowEnd <= lines[n].blockEnd /\ lines[n].row <= n /\ n < lines[n].rowEnd
      BY LineFacts
    <3> QED BY <1>1, <3>1
  <2>4. SameBlock(u, n) BY <2>1, <2>3 DEF LaidOut
  <2>5. lines[n].kind # "table" => lines[n].block = u /\ lines[n].blockEnd = e
    BY <1>1, <2>1 DEF LaidOut
  <2> QED BY <1>1, <2>2, <2>4, <2>5 DEF SameRow, SameBlock
<1>3. HeaderHeight(u) = HeaderHeight(n) BY <1>2 DEF HeaderHeight, Repeats
<1>4. lines[u].top \in Nat /\ lines[u].bottom \in Nat /\ lines[e - 1].bottom \in Nat
      /\ HeaderHeight(u) \in Int
  BY <1>1, LineFacts, HeaderTypes
<1>5. pageHeight \in Nat /\ PaddingTop \in Nat /\ PaddingBottom \in Nat
  BY PageAssumption DEF LinesInv
<1>6. lines[e - 1].bottom - lines[u].top + HeaderHeight(u) <= pageHeight - PaddingTop - PaddingBottom
  BY <1>1, <1>3 DEF Extent, Available
<1>7. SoundPage(p, layouts[p]) /\ layouts[p] \in Sheets BY DEF WellFilled
<1>8. CASE layouts[p].start = u
  <2>1. layouts[p].origin = (IF p = 1 THEN 0 ELSE lines[u].top - PaddingTop) - HeaderHeight(u)
    BY <1>7, <1>8 DEF SoundPage
  <2>2. CASE p = 1
    <3>1. u = 1 BY <1>7, <1>8, <2>2 DEF SoundPage
    <3>2. Len(lines) > 0 /\ lines[1].kind \in Units BY <1>1, <1>2, <3>1 DEF LinesInv
    <3>3. lines[u].top = PaddingTop BY <3>1, <3>2 DEF LinesInv
    <3>4. HeaderHeight(u) = 0 BY <1>1, <3>1, HeaderTypes DEF HeaderHeight
    <3>5. layouts[p].origin = 0 BY <2>1, <2>2, <3>4
    <3>6. lines[e - 1].bottom <= 0 + pageHeight - PaddingBottom BY <1>4, <1>5, <1>6, <3>3, <3>4
    <3> QED BY <1>1, <3>5, <3>6 DEF Fits, Limit
  <2>3. CASE p # 1
    <3>1. layouts[p].origin = lines[u].top - PaddingTop - HeaderHeight(u) BY <2>1, <2>3
    <3>2. lines[e - 1].bottom
            <= lines[u].top - PaddingTop - HeaderHeight(u) + pageHeight - PaddingBottom
      <4>1. PICK bottom \in Nat : bottom = lines[e - 1].bottom BY <1>4
      <4>2. PICK top \in Nat : top = lines[u].top BY <1>4
      <4>3. PICK height \in Int : height = HeaderHeight(u) BY <1>4
      <4>4. bottom - top + height <= pageHeight - PaddingTop - PaddingBottom
        BY <1>6, <4>1, <4>2, <4>3
      <4>5. bottom <= top - PaddingTop - height + pageHeight - PaddingBottom BY <1>5, <4>4
      <4> QED BY <4>1, <4>2, <4>3, <4>5
    <3> QED BY <1>1, <3>1, <3>2 DEF Fits, Limit
  <2> QED BY <2>2, <2>3
<1>9. CASE layouts[p].start # u
  <2>1. layouts[p].start \in Nat /\ layouts[p].end \in Nat BY <1>7 DEF Sheets
  <2>2. u \in layouts[p].start + 1 .. layouts[p].end - 1 BY <1>1, <1>9, <2>1, SMTT(20)
  <2>3. ~BreaksBefore(u, layouts[p]) BY <1>7, <2>2 DEF SoundPage
  <2>4. CASE lines[n].kind = "table" BY <1>1, <1>2, <2>3, <2>4 DEF BreaksBefore, RowMoves
  <2>5. CASE lines[n].kind \in {"rule", "image"}
    <3>1. Opens(u) BY <1>2, <2>5 DEF Opens
    <3>2. ~ImageStays(u, layouts[p]) BY <3>1 DEF ImageStays
    <3>3. Fits(u, layouts[p]) /\ ~AtomicMoves(u, layouts[p]) BY <2>3, <3>2 DEF BreaksBefore
    <3> QED BY <1>1, <1>2, <2>5, <3>1, <3>3 DEF AtomicMoves
  <2>6. CASE lines[n].kind = "paragraph"
    <3>1. Opens(u) BY <1>2, <2>6 DEF Opens
    <3>2. ~ImageStays(u, layouts[p]) BY <3>1 DEF ImageStays
    <3>3. Fits(u, layouts[p]) /\ ~ParagraphMoves(u, layouts[p]) BY <2>3, <3>2 DEF BreaksBefore
    <3>4. layouts[p].start <= lines[u].block BY <1>1, <1>2, <2>6
    <3>5. HeaderHeight(u) = 0 BY <1>2, <2>6 DEF HeaderHeight, Repeats
    <3>6. FitsFreshPage(u)
      <4>1. lines[u].block = u /\ lines[u].blockEnd = e BY <1>2, <2>6
      <4>2. lines[e - 1].bottom - lines[u].top \in Int BY <1>4
      <4>3. lines[e - 1].bottom - lines[u].top + 0 <= pageHeight - PaddingTop - PaddingBottom
        BY <1>6, <3>5
      <4>4. lines[e - 1].bottom - lines[u].top <= pageHeight - PaddingTop - PaddingBottom
        BY <4>2, <4>3
      <4> QED BY <4>1, <4>4 DEF FitsFreshPage, Extent, Available
    <3> QED BY <1>1, <1>2, <2>6, <3>1, <3>3, <3>4, <3>6 DEF ParagraphMoves
  <2> QED BY <2>4, <2>5, <2>6 DEF Units
<1> QED BY <1>8, <1>9

\* A row is on one page, if it fits any.
LEMMA UnitTogether ==
  ASSUME LinesInv, WellFilled(layouts, Len(lines) + 1), NEW n \in 1 .. Len(lines),
         lines[n].kind \in Units,
         Extent(lines[n].row, lines[n].rowEnd) + HeaderHeight(n) <= Available
  PROVE  Together(lines[n].row, n)
<1>1. /\ lines[n].row \in Nat /\ lines[n].rowEnd \in Nat /\ 1 <= lines[n].row
      /\ lines[n].row <= n /\ n < lines[n].rowEnd /\ lines[n].rowEnd <= Len(lines) + 1
      /\ Len(lines) \in Nat /\ LaidOut(n)
  BY LineFacts
<1>2. PICK u \in Nat, e \in Nat : u = lines[n].row /\ e = lines[n].rowEnd BY <1>1
<1>3. u \in 1 .. Len(lines) BY <1>1, <1>2
<1>4. PICK p \in 1 .. Len(layouts) :
        PageOf(u) = p /\ layouts[p].start <= u /\ u < layouts[p].end
  BY <1>3, PageExists
<1>5. layouts \in Seq(Sheets) BY DEF WellFilled
<1>6. layouts[p].start \in Nat /\ layouts[p].end \in Nat
  <2>1. layouts[p] \in Sheets BY <1>5
  <2> QED BY <2>1 DEF Sheets
<1>7. n < layouts[p].end
  <2> SUFFICES ASSUME ~(n < layouts[p].end) PROVE FALSE OBVIOUS
  <2>1. PICK k \in Nat : k = layouts[p].end /\ u < k /\ k <= n BY <1>4, <1>6
  <2>2. p # Len(layouts)
    <3>1. layouts[Len(layouts)].end = Len(lines) + 1 BY DEF WellFilled
    <3> QED BY <1>1, <2>1, <3>1
  <2>3. p + 1 \in 2 .. Len(layouts) /\ (p + 1) - 1 = p BY <1>5, <2>2
  <2>4. BreaksBefore(k, layouts[p])
    <3>1. \A q \in 2 .. Len(layouts) :
            layouts[q].start = layouts[q - 1].end /\ BreaksBefore(layouts[q].start, layouts[q - 1])
      BY DEF WellFilled
    <3>2. layouts[p + 1].start = layouts[(p + 1) - 1].end
          /\ BreaksBefore(layouts[p + 1].start, layouts[(p + 1) - 1])
      BY <2>3, <3>1
    <3> QED BY <2>1, <2>3, <3>2
  <2>5. Fits(e - 1, layouts[p]) BY <1>2, <1>4, UnitFits
  <2>6. k \in u .. e - 1 /\ k \in 1 .. Len(lines) /\ e - 1 \in 1 .. Len(lines)
    BY <1>1, <1>2, <1>3, <2>1, SMTT(20)
  <2>7. SameRow(k, n) /\ lines[k].bottom <= lines[e - 1].bottom
    BY <1>1, <1>2, <2>6 DEF LaidOut, Units
  <2>8. SameBlock(k, n)
    <3>1. k \in lines[n].block .. lines[n].blockEnd - 1
      <4>1. lines[n].block \in Nat /\ lines[n].blockEnd \in Nat /\ lines[n].block <= lines[n].row
            /\ lines[n].rowEnd <= lines[n].blockEnd
        BY LineFacts
      <4> QED BY <1>1, <1>2, <2>1, <4>1
    <3> QED BY <1>1, <3>1 DEF LaidOut
  <2>9. Fits(k, layouts[p])
    <3>1. lines[k].bottom \in Nat /\ lines[e - 1].bottom \in Nat BY <2>6, LineFacts
    <3>2. Limit(layouts[p]) \in Int
      <4>1. pageHeight \in Nat /\ PaddingBottom \in Nat BY PageAssumption DEF LinesInv
      <4>2. layouts[p].origin \in Int
        <5>1. layouts[p] \in Sheets BY <1>5
        <5> QED BY <5>1 DEF Sheets
      <4> QED BY <4>1, <4>2 DEF Limit
    <3> QED BY <2>5, <2>7, <3>1, <3>2 DEF Fits
  <2>10. lines[k].row = u /\ lines[k].row # k BY <1>2, <2>1, <2>7 DEF SameRow
  <2>11. lines[k].kind = lines[n].kind /\ (lines[k].kind # "table" => lines[k].block = u /\ lines[k].blockEnd = e)
    BY <1>1, <1>2, <2>8 DEF LaidOut, SameBlock
  <2>12. ~RowMoves(k, layouts[p]) BY <2>10 DEF RowMoves
  <2>13. AtomicMoves(k, layouts[p]) \/ HeadingMoves(k, layouts[p]) \/ ParagraphMoves(k, layouts[p])
    BY <2>4, <2>9, <2>12 DEF BreaksBefore
  <2>14. lines[k].kind # "table" => ~Opens(k) BY <2>1, <2>11 DEF Opens
  <2>15. lines[k].kind = "paragraph" /\ k + 2 = lines[k].blockEnd /\ ~Fits(k + 1, layouts[p])
    <3>1. ~AtomicMoves(k, layouts[p])
      <4>1. AtomicMoves(k, layouts[p]) => lines[k].kind # "table" /\ Opens(k) BY DEF AtomicMoves
      <4> QED BY <2>14, <4>1
    <3>2. ~HeadingMoves(k, layouts[p])
      <4>1. HeadingMoves(k, layouts[p]) => lines[k].kind # "table" /\ Opens(k) BY DEF HeadingMoves
      <4> QED BY <2>14, <4>1
    <3>3. ParagraphMoves(k, layouts[p]) BY <2>13, <3>1, <3>2
    <3>4. lines[k].kind = "paragraph" BY <3>3 DEF ParagraphMoves
    <3>5. ~Opens(k) BY <2>14, <3>4
    <3> QED BY <3>3, <3>4, <3>5 DEF ParagraphMoves
  <2>16. k + 1 = e - 1
    <3>1. lines[k].blockEnd = e BY <2>11, <2>15
    <3>2. k + 2 = e BY <2>15, <3>1
    <3> QED BY <3>2
  <2> QED BY <2>5, <2>15, <2>16
<1>8. layouts[p].start <= n BY <1>1, <1>2, <1>4, <1>6
<1>9. PageOf(n) = p BY <1>7, <1>8, PageIs
<1> QED BY <1>2, <1>4, <1>9 DEF Together

\* Pages follow one another, and what is on them fits them.
LEMMA FilledFits ==
  ASSUME LinesInv, WellFilled(layouts, Len(lines) + 1)
  PROVE  PagesFit
<1>1. layouts \in Seq(Sheets) /\ DOMAIN layouts = 1 .. Len(layouts) /\ Len(layouts) \in Nat
  BY DEF WellFilled
<1> SUFFICES ASSUME NEW p \in 1 .. Len(layouts)
             PROVE  /\ p > 1 => layouts[p].start = layouts[p - 1].end
                    /\ layouts[p].start < layouts[p].end
                    /\ \A n \in layouts[p].start + 1 .. layouts[p].end - 1 :
                         \/ Fits(n, layouts[p])
                         \/ lines[n].kind = "image" /\ lines[n].block = layouts[p].start
  BY <1>1 DEF PagesFit
<1>2. p > 1 => layouts[p].start = layouts[p - 1].end
  <2> SUFFICES ASSUME p > 1 PROVE layouts[p].start = layouts[p - 1].end OBVIOUS
  <2>1. p \in 2 .. Len(layouts) BY <1>1
  <2> QED BY <2>1 DEF WellFilled
<1>3. SoundPage(p, layouts[p]) BY DEF WellFilled
<1>4. ASSUME NEW n \in layouts[p].start + 1 .. layouts[p].end - 1
      PROVE  \/ Fits(n, layouts[p])
             \/ lines[n].kind = "image" /\ lines[n].block = layouts[p].start
  <2>1. ~BreaksBefore(n, layouts[p]) BY <1>3 DEF SoundPage
  <2>2. Fits(n, layouts[p]) \/ ImageStays(n, layouts[p]) BY <2>1 DEF BreaksBefore
  <2> QED BY <2>2 DEF ImageStays
<1> QED BY <1>2, <1>3, <1>4 DEF SoundPage

\* What fits a page is on one.
LEMMA FilledTogether ==
  ASSUME LinesInv, WellFilled(layouts, Len(lines) + 1)
  PROVE  UnitsStayTogether
<1> SUFFICES ASSUME NEW n \in 1 .. Len(lines)
             PROVE  /\ lines[n].kind \in {"paragraph", "rule", "image"} /\ FitsFreshPage(n)
                         => Together(lines[n].block, n)
                    /\ lines[n].kind = "table"
                       /\ Extent(lines[n].row, lines[n].rowEnd) + HeaderHeight(n) <= Available
                         => Together(lines[n].row, n)
                    /\ lines[n].kind = "paragraph" /\ n > lines[n].block + 1
                       /\ n + 1 = lines[n].blockEnd
                         => \/ PageOf(n) # PageOf(lines[n].block) + 1
                            \/ Together(n - 1, n)
  BY DEF UnitsStayTogether, LinesInv
<1>1. /\ Len(lines) \in Nat /\ LaidOut(n) /\ lines[n].block \in Nat /\ 1 <= lines[n].block
      /\ lines[n].block <= lines[n].row /\ lines[n].row <= n /\ lines[n].row \in Nat
  BY LineFacts
<1>2. ASSUME lines[n].kind \in {"paragraph", "rule", "image"}, FitsFreshPage(n)
      PROVE  Together(lines[n].block, n)
  <2>1. lines[n].row = lines[n].block /\ lines[n].rowEnd = lines[n].blockEnd
    BY <1>1, <1>2 DEF LaidOut
  <2>2. HeaderHeight(n) = 0 BY <1>2 DEF HeaderHeight, Repeats
  <2>3. PICK x : x = Extent(lines[n].row, lines[n].rowEnd) OBVIOUS
  <2>4. x \in Int
    <3>1. /\ lines[n].rowEnd \in Nat /\ n < lines[n].rowEnd
          /\ lines[n].rowEnd <= lines[n].blockEnd /\ lines[n].blockEnd <= Len(lines) + 1
          /\ lines[n].blockEnd \in Nat
      BY LineFacts
    <3>2. lines[n].rowEnd - 1 \in 1 .. Len(lines) BY <1>1, <3>1
    <3>3. lines[n].row \in 1 .. Len(lines) BY <1>1
    <3>4. lines[lines[n].rowEnd - 1].bottom \in Nat BY <3>2, LineFacts
    <3>5. lines[lines[n].row].top \in Nat BY <3>3, LineFacts
    <3> QED BY <2>3, <3>4, <3>5 DEF Extent
  <2>5. x <= Available BY <1>2, <2>1, <2>3 DEF FitsFreshPage
  <2>6. x + HeaderHeight(n) <= Available BY <2>2, <2>4, <2>5
  <2>7. Together(lines[n].row, n) BY <1>2, <2>3, <2>6, UnitTogether DEF Units
  <2> QED BY <2>1, <2>7
<1>3. ASSUME lines[n].kind = "table",
             Extent(lines[n].row, lines[n].rowEnd) + HeaderHeight(n) <= Available
      PROVE  Together(lines[n].row, n)
  BY <1>3, UnitTogether DEF Units
<1>4. ASSUME lines[n].kind = "paragraph", n > lines[n].block + 1, n + 1 = lines[n].blockEnd,
             PageOf(n) = PageOf(lines[n].block) + 1, ~Together(n - 1, n)
      PROVE  FALSE
  <2>1. PICK b \in Nat : b = lines[n].block /\ b \in 1 .. Len(lines) /\ b < n - 1
    BY <1>1, <1>4
  <2>2. n - 1 \in 1 .. Len(lines) /\ n - 1 \in Nat /\ n \in Nat BY <1>1, <2>1
  <2>3. PICK p \in 1 .. Len(layouts) :
          PageOf(b) = p /\ layouts[p].start <= b /\ b < layouts[p].end
    BY <2>1, PageExists
  <2>4. PICK q \in 1 .. Len(layouts) :
          PageOf(n) = q /\ layouts[q].start <= n /\ n < layouts[q].end
    BY PageExists
  <2>5. q = p + 1 BY <1>4, <2>1, <2>3, <2>4
  <2>6. layouts[p] \in Sheets /\ layouts[q] \in Sheets BY DEF WellFilled
  <2>7. layouts[p].start \in Nat /\ layouts[p].end \in Nat
        /\ layouts[q].start \in Nat /\ layouts[q].end \in Nat
    BY <2>6 DEF Sheets
  <2>8. layouts[q].start = n
    <3> SUFFICES ASSUME layouts[q].start # n PROVE FALSE OBVIOUS
    <3>1. layouts[q].start <= n - 1 /\ n - 1 < layouts[q].end BY <2>2, <2>4, <2>7
    <3>2. PageOf(n - 1) = q BY <2>2, <3>1, PageIs
    <3> QED BY <1>4, <2>4, <3>2 DEF Together
  <2>9. layouts[p].end = n /\ BreaksBefore(n, layouts[p])
    <3>1. q \in 2 .. Len(layouts) /\ q - 1 = p BY <2>5
    <3>2. layouts[q].start = layouts[q - 1].end /\ BreaksBefore(layouts[q].start, layouts[q - 1])
      BY <3>1 DEF WellFilled
    <3> QED BY <2>8, <3>1, <3>2
  <2>10. SameBlock(n - 1, n)
    <3>1. n - 1 \in lines[n].block .. lines[n].blockEnd - 1 BY <1>4, <2>1, <2>2
    <3> QED BY <1>1, <3>1 DEF LaidOut
  <2>11. ~BreaksBefore(n - 1, layouts[p])
    <3>1. n - 1 \in layouts[p].start + 1 .. layouts[p].end - 1 BY <2>1, <2>2, <2>3, <2>7, <2>9
    <3>2. SoundPage(p, layouts[p]) BY DEF WellFilled
    <3> QED BY <3>1, <3>2 DEF SoundPage
  <2>12. /\ lines[n - 1].kind = "paragraph" /\ lines[n - 1].block = b
         /\ lines[n - 1].blockEnd = n + 1 /\ (n - 1) + 2 = n + 1 /\ (n - 1) + 1 = n
    BY <1>4, <2>1, <2>2, <2>10 DEF SameBlock
  <2>13. Fits(n, layouts[p])
    <3>1. ~ImageStays(n - 1, layouts[p]) BY <2>12 DEF ImageStays
    <3>2. ~ParagraphMoves(n - 1, layouts[p]) BY <2>11, <3>1 DEF BreaksBefore
    <3> QED BY <2>3, <2>12, <3>2 DEF ParagraphMoves
  <2>14. AtomicMoves(n, layouts[p]) \/ HeadingMoves(n, layouts[p]) \/ ParagraphMoves(n, layouts[p])
    BY <1>4, <2>9, <2>13 DEF BreaksBefore, RowMoves
  <2>15. ~Opens(n) /\ n + 2 # lines[n].blockEnd BY <1>4, <2>1, <2>2 DEF Opens
  <2> QED BY <1>4, <2>14, <2>15 DEF AtomicMoves, HeadingMoves, ParagraphMoves
<1> QED BY <1>2, <1>3, <1>4

\* The directory agrees with the scan.
LEMMA FilledAgrees ==
  ASSUME LinesInv, WellFilled(layouts, Len(lines) + 1)
  PROVE  DirectoryAgrees
<1>1. layouts \in Seq(Sheets) /\ DOMAIN layouts = 1 .. Len(layouts) /\ Len(layouts) \in Nat
      /\ DOMAIN lines = 1 .. Len(lines)
  BY DEF WellFilled, LinesInv
<1> SUFFICES ASSUME NEW p \in 1 .. Len(layouts), NEW s \in Nat, s = layouts[p].start
             PROVE  /\ Rebuilt(p, s) = [header |-> layouts[p].header, origin |-> layouts[p].origin]
                    /\ s \in 1 .. Len(lines) /\ lines[s].kind = "table"
                         => \/ RuledAbove(s, layouts[p])
                            \/ lines[s].header /\ Extent(lines[s].row, lines[s].rowEnd) > Available
  <2>1. \A p \in 1 .. Len(layouts) : layouts[p].start \in Nat
    <3> SUFFICES ASSUME NEW p \in 1 .. Len(layouts) PROVE layouts[p].start \in Nat OBVIOUS
    <3>1. layouts[p] \in Sheets BY <1>1
    <3> QED BY <3>1 DEF Sheets
  <2> QED BY <1>1, <2>1, Zenon DEF DirectoryAgrees
<1>2. SoundPage(p, layouts[p]) BY DEF WellFilled
<1>3. s \in 1 .. Len(lines) BY <1>2 DEF SoundPage
<1>4. Rebuilt(p, s) = [header |-> layouts[p].header, origin |-> layouts[p].origin]
  BY <1>1, <1>2, <1>3 DEF SoundPage, Rebuilt
<1>5. ASSUME lines[s].kind = "table"
      PROVE  \/ RuledAbove(s, layouts[p])
             \/ lines[s].header /\ Extent(lines[s].row, lines[s].rowEnd) > Available
  <2>1. CASE Repeats(s)
    <3>1. PICK h \in 1 .. Len(lines) : h = lines[s].above /\ lines[h].row = h
      BY <1>3, <1>5, HeaderRow
    <3>2. layouts[p].header = h .. (lines[h].rowEnd - 1)
      BY <1>2, <2>1, <3>1 DEF SoundPage, HeaderAbove
    <3>3. h < lines[h].rowEnd /\ lines[h].rowEnd \in Nat /\ h \in Nat
      BY LineFacts
    <3>4. h \in layouts[p].header BY <3>2, <3>3
    <3> QED BY <3>1, <3>4 DEF RuledAbove
  <2>2. CASE ~Repeats(s) /\ lines[s].row = s
    <3>1. lines[s].header
      <4>1. lines[s].above # Nowhere BY <1>3, <1>5, HeaderRow
      <4> QED BY <1>5, <2>2, <4>1 DEF Repeats
    <3> QED BY <2>2, <3>1 DEF RuledAbove
  <2>3. CASE ~Repeats(s) /\ lines[s].row # s
    <3>1. lines[s].header
      <4>1. lines[s].above # Nowhere BY <1>3, <1>5, HeaderRow
      <4> QED BY <1>5, <2>3, <4>1 DEF Repeats
    <3>2. PICK u \in Nat, e \in Nat :
            /\ u = lines[s].row /\ e = lines[s].rowEnd /\ 1 <= u /\ u < s /\ s < e
            /\ e <= Len(lines) + 1
      <4>1. /\ lines[s].row \in Nat /\ lines[s].rowEnd \in Nat /\ 1 <= lines[s].block
            /\ lines[s].block <= lines[s].row /\ lines[s].row <= s /\ s < lines[s].rowEnd
            /\ lines[s].rowEnd <= lines[s].blockEnd /\ lines[s].blockEnd <= Len(lines) + 1
            /\ lines[s].block \in Nat /\ lines[s].blockEnd \in Nat /\ Len(lines) \in Nat
        BY <1>3, LineFacts
      <4>2. PICK u \in Nat, e \in Nat : u = lines[s].row /\ e = lines[s].rowEnd BY <4>1
      <4>3. 1 <= u /\ u < s BY <2>3, <4>1, <4>2
      <4>4. s < e /\ e <= Len(lines) + 1 BY <4>1, <4>2
      <4> QED BY <4>2, <4>3, <4>4
    <3>3. Extent(u, e) \in Int
      <4>1. Len(lines) \in Nat BY <1>3, LineFacts
      <4>2. u \in 1 .. Len(lines) /\ e - 1 \in 1 .. Len(lines) BY <3>2, <4>1
      <4>3. lines[u].top \in Nat /\ lines[e - 1].bottom \in Nat BY <4>2, LineFacts
      <4> QED BY <4>3 DEF Extent
    <3>4. Available \in Int BY PageAssumption DEF Available, LinesInv
    <3>5. ASSUME ~(Extent(u, e) > Available) PROVE FALSE
      <4>1. HeaderHeight(s) = 0 BY <2>3 DEF HeaderHeight
      <4>2. PICK x \in Int : x = Extent(u, e) BY <3>3
      <4>3. x + HeaderHeight(s) <= Available BY <3>4, <3>5, <4>1, <4>2
      <4>4. Together(u, s) BY <1>3, <1>5, <3>2, <4>2, <4>3, UnitTogether DEF Units
      <4>5. layouts[p].start < layouts[p].end BY <1>2 DEF SoundPage
      <4>6. PageOf(s) = p BY <4>5, PageIs
      <4>7. u \in 1 .. Len(lines)
        <5>1. Len(lines) \in Nat BY <1>3, LineFacts
        <5> QED BY <1>3, <3>2, <5>1
      <4>8. PICK q \in 1 .. Len(layouts) : PageOf(u) = q /\ layouts[q].start <= u
        BY <4>7, PageExists
      <4>9. q = p BY <4>4, <4>6, <4>8 DEF Together
      <4> QED BY <3>2, <4>8, <4>9
    <3> QED BY <3>1, <3>2, <3>5
  <2> QED BY <2>1, <2>2, <2>3
<1> QED BY <1>4, <1>5

\* An empty document has one empty page.
LEMMA EmptyPages ==
  ASSUME lines = <<>>, layouts = EmptyDocument
  PROVE  PagesFit /\ UnitsStayTogether /\ DirectoryAgrees
<1>1. Len(lines) = 0 /\ DOMAIN lines = {} BY EmptySeq
<1>2. DOMAIN layouts = 1 .. 1 BY DEF EmptyDocument
<1>3. layouts[1] = [start |-> 1, end |-> 1, origin |-> 0, header |-> {}] BY DEF EmptyDocument
<1>4. \A p \in DOMAIN layouts : p = 1 BY <1>2
<1>5. PagesFit
  <2>1. \A n \in 1 + 1 .. 1 - 1 : FALSE OBVIOUS
  <2> QED BY <1>3, <1>4, <2>1 DEF PagesFit
<1>6. UnitsStayTogether BY <1>1 DEF UnitsStayTogether
<1>7. DirectoryAgrees
  <2>1. 1 \notin DOMAIN lines BY <1>1
  <2>2. Rebuilt(1, 1) = [header |-> {}, origin |-> 0] BY <2>1 DEF Rebuilt
  <2>3. layouts[1].start = 1 /\ layouts[1].header = {} /\ layouts[1].origin = 0 BY <1>3
  <2> QED BY <1>4, <2>1, <2>2, <2>3, Zenon DEF DirectoryAgrees
<1> QED BY <1>5, <1>6, <1>7

\* The pages of every document, of any blocks, heights, spacing and length,
\* are well broken: they follow one another, hold what fits them, keep together
\* what fits a page, and are rebuilt from the directory as they were scanned.
THEOREM PagesBroken == PaginationSpec => []PagesAreWellBroken
<1>1. PaginationInit => LinesInv /\ PagesInv BY LayInit, PagesInit
<1>2. LinesInv /\ PagesInv /\ [PaginationNext]_paginationVars => LinesInv' /\ PagesInv'
  BY PaginationStep
<1>3. LinesInv /\ PagesInv => PagesAreWellBroken
  <2> SUFFICES ASSUME LinesInv, PagesInv, at = Len(lines) + 2
               PROVE  PagesFit /\ UnitsStayTogether /\ DirectoryAgrees
    BY DEF PagesAreWellBroken, Finished
  <2>1. CASE lines = <<>> BY <2>1, EmptyPages DEF PagesInv
  <2>2. CASE lines # <<>>
    <3>1. WellFilled(layouts, Len(lines) + 1) BY <2>2 DEF PagesInv
    <3> QED BY <3>1, FilledFits, FilledTogether, FilledAgrees
  <2> QED BY <2>1, <2>2
<1> QED BY <1>1, <1>2, <1>3, PTL DEF PaginationSpec

-----------------------------------------------------------------------------
(* The types of the variables.                                             *)

\* The cache holds a document at most once.
Caches == {documents \in Seq(Documents) : IsInjective(documents)}

\* A document is taken out of the cache.
LEMMA TakenOut ==
  ASSUME NEW documents \in Caches, NEW document
  PROVE  /\ RemoveFirst(documents, document) \in Caches
         /\ Len(RemoveFirst(documents, document)) \in Nat /\ Len(RemoveFirst(documents, document)) <= Len(documents)
         /\ \A i \in 1 .. Len(RemoveFirst(documents, document)) : RemoveFirst(documents, document)[i] # document
<1>1. /\ documents \in Seq(Documents) /\ Len(documents) \in Nat
      /\ \A i, k \in 1 .. Len(documents) : documents[i] = documents[k] => i = k
  BY DEF Caches, IsInjective
<1>2. CASE ~ \E i \in 1 .. Len(documents) : documents[i] = document
  <2>1. RemoveFirst(documents, document) = documents BY <1>2 DEF RemoveFirst
  <2> QED BY <1>1, <1>2, <2>1
<1>3. CASE \E i \in 1 .. Len(documents) : documents[i] = document
  <2>1. PICK j \in 1 .. Len(documents) : documents[j] = document BY <1>3
  <2>2. {i \in 1 .. Len(documents) : documents[i] = document} = {j}
    BY <1>1, <2>1
  <2>3. Min({j}) = j BY <2>1 DEF Min
  <2>4. SelectInSeq(documents, LAMBDA v : v = document) = j
    BY <2>2, <2>3 DEF SelectInSeq
  <2>5. RemoveFirst(documents, document) = SubSeq(documents, 1, j - 1) \o SubSeq(documents, j + 1, Len(documents))
    BY <1>3, <2>4 DEF RemoveFirst, RemoveAt
  <2> DEFINE short == SubSeq(documents, 1, j - 1) \o SubSeq(documents, j + 1, Len(documents))
  <2>6. /\ short \in Seq(Documents) /\ Len(short) = Len(documents) - 1
        /\ \A i \in 1 .. Len(short) : short[i] = documents[IF i < j THEN i ELSE i + 1]
    <3> DEFINE before == SubSeq(documents, 1, j - 1)
               behind == SubSeq(documents, j + 1, Len(documents))
    <3>1. before \in Seq(Documents) /\ Len(before) = j - 1 /\ \A i \in 1 .. j - 1 : before[i] = documents[i]
      BY <1>1, <2>1
    <3>2. behind \in Seq(Documents) /\ Len(behind) = Len(documents) - j
          /\ \A i \in 1 .. Len(documents) - j : behind[i] = documents[i + j]
      BY <1>1, <2>1
    <3> HIDE DEF before, behind
    <3>3. before \o behind \in Seq(Documents) /\ Len(before \o behind) = Len(documents) - 1
      <4>1. before \in Seq(Documents) /\ behind \in Seq(Documents) BY <3>1, <3>2
      <4>2. Len(before \o behind) = Len(before) + Len(behind) /\ before \o behind \in Seq(Documents)
        BY <4>1, ConcatProperties
      <4>3. (j - 1) + (Len(documents) - j) = Len(documents) - 1 BY <1>1, <2>1
      <4> QED BY <3>1, <3>2, <4>2, <4>3
    <3>4. ASSUME NEW i \in 1 .. Len(documents) - 1
          PROVE  (before \o behind)[i] = documents[IF i < j THEN i ELSE i + 1]
      <4>1. CASE i < j BY <1>1, <2>1, <3>1, <3>2, <4>1
      <4>2. CASE i >= j
        <5>1. (before \o behind)[i] = behind[i - Len(before)] BY <1>1, <2>1, <3>1, <3>2, <4>2
        <5>2. PICK k \in 1 .. Len(documents) - j : k = i - (j - 1) BY <1>1, <2>1, <4>2
        <5>3. behind[k] = documents[k + j] BY <3>2
        <5>4. k + j = i + 1 BY <1>1, <2>1, <5>2
        <5>5. i - Len(before) = k BY <3>1, <5>2
        <5>6. ~(i < j) BY <2>1, <4>2
        <5> QED BY <5>1, <5>3, <5>4, <5>5, <5>6
      <4>3. i < j \/ i >= j BY <1>1, <2>1
      <4> QED BY <4>1, <4>2, <4>3, Zenon
    <3> QED BY <3>3, <3>4 DEF before, behind
  <2> HIDE DEF short
  <2>7. ASSUME NEW i \in 1 .. Len(short), NEW k \in 1 .. Len(short), short[i] = short[k] PROVE i = k
    <3>1. PICK m \in 1 .. Len(documents) : m = IF i < j THEN i ELSE i + 1 BY <1>1, <2>1, <2>6
    <3>2. PICK n \in 1 .. Len(documents) : n = IF k < j THEN k ELSE k + 1 BY <1>1, <2>1, <2>6
    <3>3. documents[m] = documents[n] BY <2>6, <2>7, <3>1, <3>2
    <3>4. m = n BY <1>1, <3>3
    <3> QED BY <2>1, <3>1, <3>2, <3>4
  <2>8. ASSUME NEW i \in 1 .. Len(short) PROVE short[i] # document
    <3>1. PICK m \in 1 .. Len(documents) : m = IF i < j THEN i ELSE i + 1 BY <1>1, <2>1, <2>6
    <3>2. m # j BY <2>1, <3>1
    <3> QED BY <1>1, <2>1, <2>6, <3>1, <3>2
  <2>9. short \in Caches
    <3>1. DOMAIN short = 1 .. Len(short) BY <2>6
    <3> QED BY <2>6, <2>7, <3>1 DEF Caches, IsInjective
  <2>10. RemoveFirst(documents, document) = short BY <2>5 DEF short
  <2>11. Len(short) \in Nat /\ Len(short) <= Len(documents) BY <1>1, <2>6
  <2> QED BY <2>8, <2>9, <2>10, <2>11
<1> QED BY <1>2, <1>3

\* A document is put into the cache, of which the oldest may go.
LEMMA PutIn ==
  ASSUME NEW documents \in Caches, Len(documents) <= CachedDocuments, NEW document \in Documents
  PROVE  Cached(documents, document) \in Caches /\ Len(Cached(documents, document)) <= CachedDocuments
<1>1. CachedDocuments \in Nat BY SessionAssumption
<1>2. CASE CachedDocuments = 0 BY <1>2 DEF Cached
<1>3. CASE CachedDocuments > 0
  <2> DEFINE remaining == RemoveFirst(documents, document)
             rest == IF Len(remaining) < CachedDocuments THEN remaining ELSE Tail(remaining)
  <2>1. /\ remaining \in Seq(Documents) /\ Len(remaining) \in Nat
        /\ \A i, k \in 1 .. Len(remaining) : remaining[i] = remaining[k] => i = k
        /\ Len(remaining) <= Len(documents) /\ \A i \in 1 .. Len(remaining) : remaining[i] # document
    BY TakenOut DEF Caches, IsInjective
  <2>2. Cached(documents, document) = Append(rest, document) BY <1>1, <1>3 DEF Cached
  <2> HIDE DEF remaining
  <2>3. Len(documents) \in Nat BY DEF Caches
  <2>4. /\ rest \in Seq(Documents) /\ Len(rest) \in Nat /\ Len(rest) < CachedDocuments
        /\ \A i \in 1 .. Len(rest) : rest[i] # document
        /\ \A i, k \in 1 .. Len(rest) : rest[i] = rest[k] => i = k
    <3>1. CASE Len(remaining) < CachedDocuments BY <2>1, <3>1
    <3>2. CASE ~(Len(remaining) < CachedDocuments)
      <4>1. remaining # <<>> /\ rest = Tail(remaining) BY <1>3, <2>1, <3>2
      <4>2. /\ rest \in Seq(Documents) /\ Len(rest) = Len(remaining) - 1
            /\ \A i \in 1 .. Len(rest) : rest[i] = remaining[i + 1] /\ i + 1 \in 1 .. Len(remaining)
        BY <2>1, <4>1
      <4>3. \A i \in 1 .. Len(rest) : rest[i] # document BY <2>1, <4>2
      <4>4. \A i, k \in 1 .. Len(rest) : rest[i] = rest[k] => i = k
        <5> HIDE DEF rest
        <5> SUFFICES ASSUME NEW i \in 1 .. Len(rest), NEW k \in 1 .. Len(rest), rest[i] = rest[k] PROVE i = k
          OBVIOUS
        <5>1. i + 1 \in 1 .. Len(remaining) /\ k + 1 \in 1 .. Len(remaining)
              /\ remaining[i + 1] = remaining[k + 1]
          BY <4>2
        <5>2. i + 1 = k + 1 BY <2>1, <5>1
        <5> QED BY <5>2
      <4>5. Len(rest) \in Nat /\ Len(rest) < CachedDocuments BY <1>1, <2>1, <2>3, <3>2, <4>1, <4>2
      <4> QED BY <4>2, <4>3, <4>4, <4>5
    <3> QED BY <3>1, <3>2
  <2> HIDE DEF rest
  <2>5. Append(rest, document) \in Seq(Documents) /\ Len(Append(rest, document)) = Len(rest) + 1
        /\ \A i \in 1 .. Len(rest) + 1 :
             Append(rest, document)[i] = IF i = Len(rest) + 1 THEN document ELSE rest[i]
    BY <2>4
  <2>6. ASSUME NEW i \in 1 .. Len(rest) + 1, NEW k \in 1 .. Len(rest) + 1,
               Append(rest, document)[i] = Append(rest, document)[k]
        PROVE  i = k
    <3>1. CASE i = Len(rest) + 1 BY <2>4, <2>5, <2>6, <3>1
    <3>2. CASE k = Len(rest) + 1 BY <2>4, <2>5, <2>6, <3>2
    <3>3. CASE i \in 1 .. Len(rest) /\ k \in 1 .. Len(rest) BY <2>4, <2>5, <2>6, <3>3
    <3> QED BY <2>4, <3>1, <3>2, <3>3
  <2>7. Append(rest, document) \in Caches
    <3> DEFINE all == Append(rest, document)
    <3>1. all \in Seq(Documents) /\ DOMAIN all = 1 .. Len(rest) + 1 BY <2>5
    <3>2. \A i, k \in 1 .. Len(rest) + 1 : all[i] = all[k] => i = k BY <2>6
    <3> HIDE DEF all
    <3>3. all \in Caches BY <3>1, <3>2 DEF Caches, IsInjective
    <3> QED BY <3>3 DEF all
  <2> QED BY <1>1, <2>2, <2>4, <2>5, <2>7
<1> QED BY <1>1, <1>2, <1>3
\* The flags of the session and the rest, which the provers take apart.
SessionFlags == {fullscreen, libraryEmpty, dropped} \subseteq BOOLEAN /\ arrangement \in Arrangements
SessionValues ==
  /\ library \in SUBSET Documents /\ provided \in SUBSET Documents
  /\ Len(visited) <= MaxHistoryEntries
  /\ cache \in Caches /\ Len(cache) <= CachedDocuments
  /\ overlay \in Places \union {NoPlace} /\ left \in Places \union {NoPlace}

\* Every operation leaves flags,
LEMMA SessionFlagsKept ==
  ASSUME SessionFlags, [ReaderNext]_readerVars PROVE SessionFlags'
<1> USE DEF SessionFlags, Arrangements, session
<1>1. CASE UNCHANGED readerVars BY <1>1 DEF readerVars
<1>2. CASE TurnPage BY <1>2 DEF TurnPage
<1>3. CASE FollowAnchor BY <1>3 DEF FollowAnchor, Push
<1>4. CASE FollowDocument BY <1>4 DEF FollowDocument, LoadFails, Push
<1>5. CASE FollowExternal BY <1>5 DEF FollowExternal
<1>6. CASE HistoryBack \/ HistoryForward BY <1>6 DEF HistoryBack, HistoryForward, MoveHistory
<1>7. CASE HistoryFails BY <1>7 DEF HistoryFails
<1>8. CASE ToggleFullscreen BY <1>8 DEF ToggleFullscreen, Reflow
<1>9. CASE SetFontScale \/ SetOrientation BY <1>9 DEF SetFontScale, SetOrientation, Reflow
<1>10. CASE Publish \/ ReloadEmpty BY <1>10 DEF Publish, ReloadEmpty
<1>11. CASE Reload BY <1>11 DEF Reload
<1> QED BY <1>1, <1>2, <1>3, <1>4, <1>5, <1>6, <1>7, <1>8, <1>9, <1>10, <1>11 DEF ReaderNext

\* no more entries than the history may have,
LEMMA HistoryBounded ==
  ASSUME HistoryInv, Len(visited) <= MaxHistoryEntries, [ReaderNext]_readerVars
  PROVE  Len(visited') <= MaxHistoryEntries
<1> USE SessionAssumption
<1>1. visited \in Seq(Places) /\ index \in 1 .. Len(visited) /\ Len(visited) \in Nat BY DEF HistoryInv
<1>2. Len(Remembered) = Len(visited) /\ Remembered \in Seq(Places) /\ Leave = Remembered BY RememberedIs
<1>3. ASSUME NEW entries \in Seq(Places), Len(entries) = Len(visited), NEW entry, Push(entries, entry)
      PROVE  Len(visited') <= MaxHistoryEntries
  <2> DEFINE before == SubSeq(entries, 1, index)
             all == Append(before, entry)
  <2>1. Len(before) = index /\ before \in Seq(Places) BY <1>1, <1>3
  <2>2. Len(all) = index + 1 /\ all # <<>> /\ Len(Tail(all)) = index
    <3> HIDE DEF before
    <3>1. all \in Seq(Places \union {entry}) BY <2>1
    <3>2. Len(all) = index + 1 BY <2>1
    <3> HIDE DEF all
    <3> QED BY <1>1, <3>1, <3>2
  <2>3. visited' = IF Len(all) > MaxHistoryEntries THEN Tail(all) ELSE all BY <1>3 DEF Push
  <2> HIDE DEF all
  <2> QED BY <1>1, <2>2, <2>3
<1>4. CASE UNCHANGED visited BY <1>4
<1>5. CASE visited' = Remembered BY <1>2, <1>5
<1>6. CASE TurnPage
  <2>1. UNCHANGED visited \/ \E passage : MoveTo(passage) BY <1>6 DEF TurnPage
  <2>2. ASSUME NEW passage, MoveTo(passage) PROVE Len(visited') = Len(visited)
    BY <1>1, <2>2 DEF MoveTo
  <2> QED BY <2>1, <2>2
<1>7. CASE FollowAnchor
  <2>1. UNCHANGED visited \/ Push(Leave, open') BY <1>7 DEF FollowAnchor
  <2> QED BY <1>2, <1>3, <2>1
<1>8. CASE FollowDocument
  <2>1. UNCHANGED visited \/ Push(visited, open') BY <1>8 DEF FollowDocument, LoadFails
  <2> QED BY <1>1, <1>3, <2>1
<1>9. CASE HistoryBack \/ HistoryForward BY <1>5, <1>9 DEF HistoryBack, HistoryForward, MoveHistory
<1>10. CASE HistoryFails BY <1>5, <1>10 DEF HistoryFails
<1>11. CASE ToggleFullscreen \/ SetFontScale \/ SetOrientation
  BY <1>5, <1>11 DEF ToggleFullscreen, SetFontScale, SetOrientation, Reflow
<1>12. CASE Reload
  <2>1. PICK top : visited' = <<top>> \/ visited' = <<top, open'>> BY <1>12 DEF Reload
  <2>2. Len(<<top>>) = 1 /\ Len(<<top, open'>>) = 2 OBVIOUS
  <2>3. 1 <= MaxHistoryEntries /\ 2 <= MaxHistoryEntries OBVIOUS
  <2> QED BY <2>1, <2>2, <2>3, Zenon
<1>13. CASE FollowExternal \/ Publish \/ ReloadEmpty \/ UNCHANGED readerVars
  BY <1>4, <1>13 DEF FollowExternal, Publish, ReloadEmpty, readerVars
<1> QED BY <1>6, <1>7, <1>8, <1>9, <1>10, <1>11, <1>12, <1>13 DEF ReaderNext

\* documents in the cache that are no more than it may hold,
LEMMA CacheKept ==
  ASSUME HistoryInv, cache \in Caches, Len(cache) <= CachedDocuments, [ReaderNext]_readerVars
  PROVE  cache' \in Caches /\ Len(cache') <= CachedDocuments
<1>1. CachedDocuments \in Nat /\ Len(cache) \in Nat BY SessionAssumption DEF Caches
<1>2. open.document \in Documents BY DEF HistoryInv, Places
<1>3. ASSUME NEW document, NEW other \in Documents, cache' = Cached(RemoveFirst(cache, document), other)
      PROVE  cache' \in Caches /\ Len(cache') <= CachedDocuments
  <2>1. PICK taken \in Caches : taken = RemoveFirst(cache, document) BY TakenOut
  <2>2. Len(taken) \in Nat /\ Len(taken) <= CachedDocuments BY <1>1, <2>1, TakenOut
  <2> QED BY <1>3, <2>1, <2>2, PutIn
<1>4. CASE UNCHANGED cache BY <1>4
<1>5. CASE cache' = <<>> BY <1>1, <1>5 DEF Caches, IsInjective
<1>6. CASE FollowDocument
  <2>1. \/ UNCHANGED cache
        \/ \E document \in Documents : cache' = Cached(RemoveFirst(cache, document), document)
        \/ \E document \in Documents : cache' = Cached(RemoveFirst(cache, document), open.document)
    BY <1>6 DEF FollowDocument, LoadFails, CacheAfter
  <2> QED BY <1>2, <1>3, <1>4, <2>1
<1>7. CASE HistoryBack \/ HistoryForward
  BY <1>2, <1>3, <1>7 DEF HistoryBack, HistoryForward, MoveHistory, CacheAfter
<1>8. CASE ToggleFullscreen \/ SetFontScale \/ SetOrientation
  BY <1>5, <1>8 DEF ToggleFullscreen, SetFontScale, SetOrientation, Reflow
<1>9. CASE Reload
  <2>1. cache' = <<>> \/ (CachedDocuments > 0 /\ cache' = <<Entry>>) BY <1>9 DEF Reload
  <2>2. <<Entry>> \in Caches /\ Len(<<Entry>>) = 1 BY DEF Caches, IsInjective, Documents
  <2> QED BY <1>1, <1>5, <2>1, <2>2
<1>10. CASE \/ TurnPage \/ FollowAnchor \/ FollowExternal \/ HistoryFails \/ Publish \/ ReloadEmpty
            \/ UNCHANGED readerVars
  BY <1>4, <1>10 DEF TurnPage, FollowAnchor, FollowExternal, HistoryFails, Publish, ReloadEmpty, readerVars
<1> QED BY <1>6, <1>7, <1>8, <1>9, <1>10 DEF ReaderNext

\* and places and libraries.
LEMMA SessionPlacesKept ==
  ASSUME HistoryInv, SessionValues, [ReaderNext]_readerVars
  PROVE  /\ library' \in SUBSET Documents /\ provided' \in SUBSET Documents
         /\ overlay' \in Places \union {NoPlace} /\ left' \in Places \union {NoPlace}
<1>1. open \in Places BY DEF HistoryInv
<1>2. {Documents, {Entry}, {}} \subseteq SUBSET Documents BY DEF Documents
<1>3. /\ library' = library \/ library' \in {Documents, {Entry}, {}}
      /\ provided' = provided \/ provided' = library
      /\ overlay' \in {overlay, NoPlace, open}
      /\ left' \in {left, NoPlace, open}
  <2> USE DEF session, Dismissed
  <2>1. CASE UNCHANGED readerVars BY <2>1 DEF readerVars
  <2>2. CASE TurnPage BY <2>2 DEF TurnPage
  <2>3. CASE FollowAnchor BY <2>3 DEF FollowAnchor
  <2>4. CASE FollowDocument BY <2>4 DEF FollowDocument, LoadFails
  <2>5. CASE FollowExternal BY <2>5 DEF FollowExternal
  <2>6. CASE HistoryBack \/ HistoryForward BY <2>6 DEF HistoryBack, HistoryForward, MoveHistory
  <2>7. CASE HistoryFails BY <2>7 DEF HistoryFails
  <2>8. CASE ToggleFullscreen \/ SetFontScale \/ SetOrientation
    BY <2>8 DEF ToggleFullscreen, SetFontScale, SetOrientation, Reflow
  <2>9. CASE Publish \/ ReloadEmpty BY <2>9 DEF Publish, ReloadEmpty
  <2>10. CASE Reload BY <2>10 DEF Reload
  <2> QED BY <2>1, <2>2, <2>3, <2>4, <2>5, <2>6, <2>7, <2>8, <2>9, <2>10 DEF ReaderNext
<1> QED BY <1>1, <1>2, <1>3 DEF SessionValues

\* Every variable of the session keeps its type.
LEMMA ReaderTypes ==
  /\ ReaderInit => SessionFlags /\ SessionValues
  /\ ReaderIInv /\ SessionFlags /\ SessionValues /\ [ReaderNext]_readerVars => SessionFlags' /\ SessionValues'
  /\ ReaderIInv /\ SessionFlags /\ SessionValues => ReaderTypeOK
<1>1. ReaderInit => SessionFlags
  <2>1. [statusBar |-> TRUE, large |-> FALSE] \in Arrangements BY DEF Arrangements
  <2>2. ReaderInit => {fullscreen, libraryEmpty, dropped} \subseteq BOOLEAN BY DEF ReaderInit
  <2> QED BY <2>1, <2>2 DEF ReaderInit, SessionFlags
<1>2. ReaderInit => SessionValues
  <2> SUFFICES ASSUME ReaderInit PROVE SessionValues OBVIOUS
  <2>1. visited = <<open>> /\ Len(visited) = 1 BY DEF ReaderInit
  <2>2. cache = <<>> BY DEF ReaderInit
  <2>3. cache \in Caches /\ Len(cache) = 0 BY <2>2 DEF Caches, IsInjective
  <2> QED BY <2>1, <2>3, SessionAssumption DEF ReaderInit, SessionValues
<1>3. ASSUME ReaderIInv, SessionFlags, SessionValues, [ReaderNext]_readerVars
      PROVE  SessionFlags' /\ SessionValues'
  <2>1. HistoryInv BY <1>3 DEF ReaderIInv
  <2>2. SessionFlags' BY <1>3, SessionFlagsKept
  <2>3. Len(visited') <= MaxHistoryEntries BY <1>3, <2>1, HistoryBounded DEF SessionValues
  <2>4. cache' \in Caches /\ Len(cache') <= CachedDocuments BY <1>3, <2>1, CacheKept DEF SessionValues
  <2> QED BY <1>3, <2>1, <2>2, <2>3, <2>4, SessionPlacesKept DEF SessionValues
<1>4. ASSUME ReaderIInv, SessionFlags, SessionValues PROVE ReaderTypeOK
  <2>1. open \in Places /\ visited \in Seq(Places) /\ index \in 1 .. Len(visited) /\ Len(visited) \in Nat
    BY <1>4 DEF ReaderIInv, HistoryInv
  <2>2. Len(visited) \in 1 .. MaxHistoryEntries /\ index \in DOMAIN visited
    BY <1>4, <2>1, SessionAssumption DEF SessionValues
  <2>3. cache \in Seq(Documents) /\ IsInjective(cache) /\ Len(cache) <= CachedDocuments
    BY <1>4 DEF SessionValues, Caches
  <2>4. {library, provided} \subseteq SUBSET Documents /\ {overlay, left} \subseteq Places \union {NoPlace}
    BY <1>4 DEF SessionValues
  <2>5. arrangement \in Arrangements /\ {fullscreen, libraryEmpty, dropped} \subseteq BOOLEAN
    BY <1>4 DEF SessionFlags
  <2> QED BY <2>1, <2>2, <2>3, <2>4, <2>5, Zenon DEF ReaderTypeOK
<1> QED BY <1>1, <1>2, <1>3, <1>4

\* BrowserSync: what the inbox and the reply of a manifest are.
RemoteTyped ==
  /\ posted \in Deliveries \union {"none"}
  /\ visit.at = "bundle" => visit.reply.kind = "current"

\* The library on the screen is an archive that was current,
LEMMA PostedTypes == ASSUME RemoteTyped PROVE Posted \in KnownArchives \union {Blank}
BY DEF RemoteTyped, Posted, KnownArchives

BrowserTyped == BrowserTypeOK /\ RemoteTyped

\* and every variable of the page keeps its type.
LEMMA BrowserTypedKept ==
  ASSUME BrowserIInv, BrowserTyped, [BrowserNext]_browserVars PROVE BrowserTyped'
<1>1. BrowserIInv' BY BrowserNextInv
<1>2. known'.revision \in 0 .. number' BY <1>1 DEF BrowserIInv, SnapshotShown
<1>3. Posted \in KnownArchives \union {Blank} BY PostedTypes DEF BrowserTyped
<1>4. posted' \in Deliveries \union {"none"}
  BY DEF BrowserTyped, RemoteTyped, BrowserNext, browserVars, hosted, PressAuthorize, Answered, PressSync,
     CheckSession, RequestFails, ReceiveNotModified, ReceiveEmpty, ReceiveCurrent, ShowBundle, PressOpen,
     OpenDirectory, ReloadPage, SessionExpires, RemoteStep, Remote!Next, Remote!Clear, Remote!Publish,
     Remote!Discard
<1>5. showing' \in KnownArchives \union {Blank, Directory}
  <2>1. showing' = showing \/ showing' \in {Posted, Blank, Directory}
    BY DEF BrowserNext, browserVars, PressAuthorize, Answered, PressSync,
     CheckSession, RequestFails, ReceiveNotModified, ReceiveEmpty, ReceiveCurrent, ShowBundle, PressOpen,
     OpenDirectory, ReloadPage, SessionExpires, RemoteStep
  <2> QED BY <1>3, <2>1 DEF BrowserTyped, BrowserTypeOK
<1>6. offered' \in BOOLEAN
  BY DEF BrowserTyped, BrowserTypeOK, EndVisit, BrowserNext, browserVars, PressAuthorize, Answered, PressSync,
     CheckSession, RequestFails, ReceiveNotModified, ReceiveEmpty, ReceiveCurrent, ShowBundle, PressOpen,
     OpenDirectory, ReloadPage, SessionExpires, RemoteStep
<1>7. access' \in {"none", "valid", "expired"}
  BY DEF BrowserTyped, BrowserTypeOK, EndVisit, BrowserNext, browserVars, PressAuthorize, Answered, PressSync,
     CheckSession, RequestFails, ReceiveNotModified, ReceiveEmpty, ReceiveCurrent, ShowBundle, PressOpen,
     OpenDirectory, ReloadPage, SessionExpires, RemoteStep
<1>8. known'.kind \in {"unknown", "empty", "current"}
  BY DEF BrowserTyped, BrowserTypeOK, RemoteTyped, NothingKnown, KnownEmpty, KnownCurrent,
     BrowserNext, browserVars, PressAuthorize, Answered, PressSync,
     CheckSession, RequestFails, ReceiveNotModified, ReceiveEmpty, ReceiveCurrent, ShowBundle, PressOpen,
     OpenDirectory, ReloadPage, SessionExpires, RemoteStep
<1>9. \/ visit' = visit
      \/ \E outcome : visit' = Still(outcome)
      \/ \E place \in {"authorize", "session", "manifest", "directory"} : visit' = Visiting(place)
      \/ visit' = [Visiting("bundle") EXCEPT !.reply = KnownCurrent(number, Posted)]
  BY DEF EndVisit, BrowserNext, browserVars, PressAuthorize, Answered, PressSync,
     CheckSession, RequestFails, ReceiveNotModified, ReceiveEmpty, ReceiveCurrent, ShowBundle, PressOpen,
     OpenDirectory, ReloadPage, SessionExpires, RemoteStep
<1>10. /\ visit'.at \in {"idle", "authorize", "session", "manifest", "bundle", "directory"}
       /\ visit'.at \in {"authorize", "session", "manifest", "bundle"} => visit'.outcome = "none"
       /\ visit'.at = "bundle" => visit'.reply.kind = "current"
  BY <1>9 DEF Still, Visiting, KnownCurrent, BrowserTyped, BrowserTypeOK, RemoteTyped
<1> QED BY <1>2, <1>4, <1>5, <1>6, <1>7, <1>8, <1>10 DEF BrowserTyped, BrowserTypeOK, RemoteTyped

\* A page that was just loaded.
LEMMA BrowserInitTyped == BrowserInit => BrowserTyped
<1> SUFFICES ASSUME BrowserInit PROVE BrowserTyped OBVIOUS
<1>1. posted = "none" /\ number = 0 BY DEF BrowserInit, Remote!Init
<1>2. known.kind = "unknown" /\ known.revision = 0 BY DEF BrowserInit, NothingKnown
<1>3. visit.at = "idle" BY DEF BrowserInit, Still
<1>4. access = "none" /\ offered \in BOOLEAN /\ showing \in KnownArchives \union {Blank, Directory}
  BY DEF BrowserInit
<1> QED BY <1>1, <1>2, <1>3, <1>4 DEF BrowserTyped, BrowserTypeOK, RemoteTyped

-----------------------------------------------------------------------------
\* What is repeated above a line is of the document.
LEMMA HeaderOfDocument ==
  ASSUME LinesInv, NEW n \in 1 .. Len(lines) PROVE HeaderAbove(n) \subseteq 1 .. Len(lines)
<1>1. CASE ~Repeats(n) BY <1>1 DEF HeaderAbove
<1>2. CASE Repeats(n)
  <2>1. lines[n].kind = "table" BY <1>2 DEF Repeats
  <2>2. PICK h \in 1 .. Len(lines) : h = lines[n].above BY <2>1, HeaderRow
  <2>3. lines[h].rowEnd \in Nat /\ lines[h].blockEnd \in Nat /\ Len(lines) \in Nat
        /\ lines[h].rowEnd <= lines[h].blockEnd /\ lines[h].blockEnd <= Len(lines) + 1
    BY LineFacts, Zenon
  <2>4. HeaderAbove(n) = h .. (lines[h].rowEnd - 1) BY <1>2, <2>2 DEF HeaderAbove
  <2> QED BY <2>3, <2>4
<1> QED BY <1>1, <1>2

\* A page of well filled pages is of the document.
LEMMA PagesOfDocument ==
  ASSUME LinesInv, NEW ls, NEW to \in Nat, to <= Len(lines) + 1, WellFilled(ls, to), NEW p \in 1 .. Len(ls)
  PROVE  /\ ls[p].start \in 1 .. Len(lines) + 1 /\ ls[p].end \in 1 .. Len(lines) + 1
         /\ ls[p].start \in 1 .. Len(lines)
         /\ ls[p].header \subseteq 1 .. Len(lines)
<1>1. ls[p] \in Sheets /\ SoundPage(p, ls[p]) /\ ls[p].end <= to BY DEF WellFilled
<1>2. ls[p].start \in Nat /\ ls[p].end \in Nat BY <1>1 DEF Sheets
<1>3. Len(lines) \in Nat BY DEF LinesInv
<1>4. ls[p].start \in 1 .. Len(lines) /\ ls[p].start < ls[p].end /\ ls[p].header = HeaderAbove(ls[p].start)
  BY <1>1 DEF SoundPage
<1> QED BY <1>1, <1>2, <1>3, <1>4, HeaderOfDocument

\* The page that is filled is of the document, as are the finished pages.
FillingTyped == filling.start \in 0 .. Len(lines) /\ filling.header \subseteq 1 .. Len(lines)

\* While the scan goes on the page that is filled would be a finished one.
LEMMA FillingOfDocument ==
  ASSUME LinesInv, PagesInv, at <= Len(lines) + 1 PROVE FillingTyped
<1>1. Len(lines) \in Nat /\ at \in Nat /\ filling \in OpenPages /\ layouts \in Seq(Sheets)
  BY DEF LinesInv, PagesInv
<1>2. CASE at <= 1 BY <1>1, <1>2 DEF PagesInv, NoPage, OpenPage, Nowhere, FillingTyped
<1>3. CASE at >= 2
  <2> DEFINE last == PageLayout(filling, at)
  <2>1. last \in Sheets /\ last.start = filling.start /\ last.header = filling.header BY <1>1, PageTypes
  <2>2. WellFilled(Append(layouts, last), at) BY <1>3 DEF PagesInv
  <2> HIDE DEF last
  <2>3. PICK ls \in Seq(Sheets) : ls = Append(layouts, last) BY <1>1, <2>1, AppendProperties
  <2>4. Len(ls) \in 1 .. Len(ls) /\ ls[Len(ls)] = last BY <1>1, <2>1, <2>3, AppendProperties
  <2>5. WellFilled(ls, at) BY <2>2, <2>3
  <2>6. last.start \in 1 .. Len(lines) /\ last.header \subseteq 1 .. Len(lines)
    BY <1>1, <2>4, <2>5, PagesOfDocument
  <2> QED BY <1>1, <2>1, <2>6 DEF FillingTyped
<1> QED BY <1>1, <1>2, <1>3

\* Every page that is finished is of the document.
LEMMA LayoutsOfDocument ==
  ASSUME LinesInv, PagesInv
  PROVE  \A p \in DOMAIN layouts : {layouts[p].start, layouts[p].end} \subseteq 1 .. Len(lines) + 1
<1>1. Len(lines) \in Nat /\ at \in Nat /\ at <= Len(lines) + 2 /\ filling \in OpenPages /\ layouts \in Seq(Sheets)
  BY DEF LinesInv, PagesInv
<1> SUFFICES ASSUME NEW p \in 1 .. Len(layouts)
             PROVE  {layouts[p].start, layouts[p].end} \subseteq 1 .. Len(lines) + 1
  BY <1>1
<1>2. CASE at <= 1 BY <1>2 DEF PagesInv
<1>3. CASE at >= 2 /\ at <= Len(lines) + 1
  <2> DEFINE last == PageLayout(filling, at)
  <2>1. last \in Sheets BY <1>1, PageTypes
  <2>2. WellFilled(Append(layouts, last), at) BY <1>3 DEF PagesInv
  <2> HIDE DEF last
  <2>3. PICK ls \in Seq(Sheets) : ls = Append(layouts, last) BY <1>1, <2>1, AppendProperties
  <2>4. p \in 1 .. Len(ls) /\ ls[p] = layouts[p] BY <1>1, <2>1, <2>3, AppendProperties
  <2>5. WellFilled(ls, at) BY <2>2, <2>3
  <2> QED BY <1>1, <1>3, <2>4, <2>5, PagesOfDocument
<1>4. CASE at = Len(lines) + 2 /\ lines = <<>>
  <2>1. layouts = EmptyDocument BY <1>4 DEF PagesInv
  <2>2. Len(layouts) = 1 /\ layouts[1].start = 1 /\ layouts[1].end = 1 BY <2>1 DEF EmptyDocument
  <2>3. p = 1 BY <2>2
  <2> QED BY <1>1, <2>2, <2>3
<1>5. CASE at = Len(lines) + 2 /\ lines # <<>>
  <2>1. WellFilled(layouts, Len(lines) + 1) BY <1>5 DEF PagesInv
  <2>2. PICK to \in Nat : to = Len(lines) + 1 BY <1>1
  <2>3. WellFilled(layouts, to) BY <2>1, <2>2
  <2> QED BY <1>1, <2>2, <2>3, PagesOfDocument
<1> QED BY <1>1, <1>2, <1>3, <1>4, <1>5

\* Every variable of the paginator keeps its type.
LEMMA PaginationTypes ==
  /\ PaginationInit => FillingTyped
  /\ LinesInv /\ PagesInv /\ FillingTyped /\ [PaginationNext]_paginationVars => FillingTyped'
  /\ LinesInv /\ PagesInv /\ FillingTyped => PaginationTypeOK
<1>1. PaginationInit => FillingTyped
  <2> SUFFICES ASSUME PaginationInit PROVE FillingTyped OBVIOUS
  <2>1. filling.start = 0 /\ filling.header = {} /\ Len(lines) = 0
    BY DEF PaginationInit, NoPage, OpenPage, Nowhere
  <2> QED BY <2>1 DEF FillingTyped
<1>2. ASSUME LinesInv, PagesInv, FillingTyped, [PaginationNext]_paginationVars PROVE FillingTyped'
  <2>1. LinesInv' /\ PagesInv' BY <1>2, PaginationStep
  <2>2. Len(lines) \in Nat /\ Len(lines') \in Nat /\ at' \in Nat BY <1>2, <2>1 DEF LinesInv, PagesInv
  <2>3. CASE at' <= Len(lines') + 1
    <3>1. (at <= Len(lines) + 1)' BY <2>3
    <3> QED BY <2>1, <3>1, FillingOfDocument, PTL
  <2>4. CASE ~(at' <= Len(lines') + 1)
    <3>1. ~LayBlock BY <2>2, <2>4 DEF LayBlock, Nowhere
    <3>2. ~BeginScan BY <2>2, <2>4 DEF BeginScan
    <3>3. ~BreakPage /\ ~AddLine
      <4>1. ASSUME BreakPage \/ AddLine PROVE at <= Len(lines) /\ at' = at + 1 /\ lines' = lines
        BY <4>1 DEF BreakPage, AddLine, Scanning
      <4>2. at \in Nat BY <1>2 DEF PagesInv
      <4> QED BY <2>2, <2>4, <4>1, <4>2
    <3>4. UNCHANGED <<filling, lines>>
      BY <1>2, <3>1, <3>2, <3>3 DEF PaginationNext, Finish, paginationVars
    <3> QED BY <1>2, <3>4 DEF FillingTyped
  <2> QED BY <2>3, <2>4
<1>3. ASSUME LinesInv, PagesInv, FillingTyped PROVE PaginationTypeOK
  <2>1. at \in 0 .. Len(lines) + 2 /\ filling.origin \in Int
    BY <1>3 DEF LinesInv, PagesInv, OpenPages
  <2> QED BY <1>3, <2>1, LayoutsOfDocument DEF FillingTyped, PaginationTypeOK
<1> QED BY <1>1, <1>2, <1>3

-----------------------------------------------------------------------------
(* The components of MCComponents, side by side.                           *)

\* The invariants of the components and their types.
DeviceInv ==
  /\ PassedStepsInv /\ WifiTypeOK
  /\ ShellIInv /\ ShellTyped
  /\ SleepIInv
  /\ DisplayIInv /\ DisplayTyped
ReadersInv ==
  /\ ReaderIInv /\ SessionFlags /\ SessionValues
  /\ SettingsIInv /\ SettingsTypeOK
  /\ LinesInv /\ PagesInv /\ FillingTyped
  /\ BrowserIInv /\ BrowserTyped
ComponentsInv == DeviceInv /\ ReadersInv

\* A component that takes no step keeps its invariant.
LEMMA DeviceStays ==
  /\ UNCHANGED wifiVars /\ PassedStepsInv /\ WifiTypeOK => PassedStepsInv' /\ WifiTypeOK'
  /\ UNCHANGED shellVars /\ ShellIInv /\ ShellTyped => ShellIInv' /\ ShellTyped'
  /\ UNCHANGED sleepVars /\ SleepIInv => SleepIInv'
  /\ UNCHANGED displayVars /\ DisplayIInv /\ DisplayTyped => DisplayIInv' /\ DisplayTyped'
BY WifiNextInv, WifiTypes, ShellTypes, SleepNextInv, DisplayNextInv, DisplayTypedKept, Zenon

\* The same for the readers and the settings.
LEMMA ReadersStay ==
  /\ UNCHANGED readerVars /\ ReaderIInv /\ SessionFlags /\ SessionValues
       => ReaderIInv' /\ SessionFlags' /\ SessionValues'
  /\ UNCHANGED settingsVars /\ SettingsIInv /\ SettingsTypeOK => SettingsIInv' /\ SettingsTypeOK'
  /\ UNCHANGED paginationVars /\ LinesInv /\ PagesInv /\ FillingTyped
       => LinesInv' /\ PagesInv' /\ FillingTyped'
  /\ UNCHANGED browserVars /\ BrowserIInv /\ BrowserTyped => BrowserIInv' /\ BrowserTyped'
BY ReaderNextInv, ReaderTypes, SettingsNextInv, SettingsTypes, PaginationStep, PaginationTypes,
   BrowserNextInv, BrowserTypedKept, Zenon

\* All components start with their invariants,
LEMMA ComponentsInit == MCInit => ComponentsInv
<1> SUFFICES ASSUME MCInit PROVE ComponentsInv OBVIOUS
<1>1. /\ WifiInit /\ ShellInit /\ SleepInit /\ DisplayInit
      /\ ReaderInit /\ SettingsInit /\ BrowserInit /\ PaginationInit
  BY DEF MCInit
<1>2. DeviceInv
  BY <1>1, WifiInitInv, WifiTypes, ShellTypes, SleepInitInv, DisplayInitInv, DisplayTypes, Zenon
  DEF DeviceInv
<1>3. ReadersInv
  BY <1>1, ReaderInitInv, ReaderTypes, SettingsInitInv, SettingsTypes, LayInit, PagesInit,
     PaginationTypes, BrowserInitInv, BrowserInitTyped, Zenon
  DEF ReadersInv
<1> QED BY <1>2, <1>3 DEF ComponentsInv

\* and the step of one leaves the others theirs.
LEMMA ComponentsStep ==
  ASSUME ComponentsInv, [MCNext]_allVars PROVE ComponentsInv'
<1> USE DEF ComponentsInv
<1>1. ASSUME UNCHANGED device PROVE DeviceInv'
  <2>1. UNCHANGED wifiVars /\ UNCHANGED shellVars /\ UNCHANGED sleepVars /\ UNCHANGED displayVars
    BY <1>1 DEF device
  <2> QED BY <2>1, DeviceStays, Zenon DEF DeviceInv
<1>2. ASSUME UNCHANGED others PROVE ReadersInv'
  <2>1. /\ UNCHANGED readerVars /\ UNCHANGED settingsVars /\ UNCHANGED paginationVars
        /\ UNCHANGED browserVars
    BY <1>2 DEF others
  <2> QED BY <2>1, ReadersStay, Zenon DEF ReadersInv
<1>3. CASE UNCHANGED allVars
  <2>1. UNCHANGED device /\ UNCHANGED others BY <1>3 DEF allVars
  <2> QED BY <1>1, <1>2, <2>1
<1>4. CASE WifiNext /\ UNCHANGED <<focus, shellVars, sleepVars, displayVars, others>>
  <2>1. DeviceInv' BY <1>4, WifiNextInv, WifiTypes, DeviceStays, Zenon DEF DeviceInv
  <2> QED BY <1>2, <1>4, <2>1
<1>5. CASE ShellNext /\ UNCHANGED <<focus, wifiVars, sleepVars, displayVars, others>>
  <2>1. DeviceInv' BY <1>5, ShellTypes, DeviceStays, Zenon DEF DeviceInv
  <2> QED BY <1>2, <1>5, <2>1
<1>6. CASE SleepNext /\ UNCHANGED <<focus, wifiVars, shellVars, displayVars, others>>
  <2>1. DeviceInv' BY <1>6, SleepNextInv, DeviceStays, Zenon DEF DeviceInv
  <2> QED BY <1>2, <1>6, <2>1
<1>7. CASE DisplayNext /\ UNCHANGED <<focus, wifiVars, shellVars, sleepVars, others>>
  <2>1. DeviceInv' BY <1>7, DisplayNextInv, DisplayTypedKept, DeviceStays, Zenon DEF DeviceInv
  <2> QED BY <1>2, <1>7, <2>1
<1>8. CASE ReaderNext /\ UNCHANGED <<focus, device, settingsVars, paginationVars, browserVars>>
  <2>1. ReadersInv' BY <1>8, ReaderNextInv, ReaderTypes, ReadersStay, Zenon DEF ReadersInv
  <2> QED BY <1>1, <1>8, <2>1
<1>9. CASE SettingsNext /\ UNCHANGED <<focus, device, readerVars, paginationVars, browserVars>>
  <2>1. ReadersInv' BY <1>9, SettingsNextInv, SettingsTypes, ReadersStay, Zenon DEF ReadersInv
  <2> QED BY <1>1, <1>9, <2>1, SMTT(20)
<1>10. CASE PaginationNext /\ UNCHANGED <<focus, device, readerVars, settingsVars, browserVars>>
  <2>1. ReadersInv' BY <1>10, PaginationStep, PaginationTypes, ReadersStay, Zenon DEF ReadersInv
  <2> QED BY <1>1, <1>10, <2>1
<1>11. CASE BrowserNext /\ UNCHANGED <<focus, device, readerVars, settingsVars, paginationVars>>
  <2>1. ReadersInv' BY <1>11, BrowserNextInv, BrowserTypedKept, ReadersStay, Zenon DEF ReadersInv
  <2> QED BY <1>1, <1>11, <2>1
<1> QED BY <1>3, <1>4, <1>5, <1>6, <1>7, <1>8, <1>9, <1>10, <1>11, Zenon DEF MCNext

\* Every variable of every component has its type, whichever component moves
\* and whatever the others were left at.
THEOREM ComponentsTyped == MCSpec => []MCTypeOK
<1>1. ComponentsInv => MCTypeOK
  <2> SUFFICES ASSUME ComponentsInv PROVE MCTypeOK OBVIOUS
  <2>1. WifiTypeOK /\ ShellTypeOK /\ SleepTypeOK /\ DisplayTypeOK
    BY ShellTypes, DisplayTypes, Zenon DEF ComponentsInv, DeviceInv, SleepIInv, SleepInv
  <2>2. ReaderTypeOK /\ SettingsTypeOK /\ PaginationTypeOK /\ BrowserTypeOK
    BY ReaderTypes, PaginationTypes, Zenon DEF ComponentsInv, ReadersInv, BrowserTyped
  <2> QED BY <2>1, <2>2 DEF MCTypeOK
<1> QED BY ComponentsInit, ComponentsStep, <1>1, PTL DEF MCSpec

=============================================================================

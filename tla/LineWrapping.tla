---------------------------- MODULE LineWrapping ----------------------------
(***************************************************************************)
(* How prs-markdown breaks spans of text and images into lines             *)
(* (layout/mod.rs, wrap_spans).  A character is one of a few, each with    *)
(* its width; a style is the height of its lines; a line is stacked under  *)
(* the one before it.                                                      *)
(***************************************************************************)
EXTENDS Integers, Sequences, SequencesExt

Images == INSTANCE Resources

Lesser(a, b) == IF a < b THEN a ELSE b
Greater(a, b) == IF a < b THEN b ELSE a

\* "i" and "W" stand for narrow and wide characters, "\n" for a hard break.
Measure(character) == CASE character = "W" -> 3 [] character = "i" -> 2 [] OTHER -> 1
TextWidth(text) == FoldLeft(LAMBDA sum, c : sum + Measure(c), 0, text)
LineHeight == 4
Blank == <<" ">>

\* A span: prose, code, whose blanks are kept, or an image.  The link a span
\* belongs to is kept with each fragment.
Span(kind, text, link, size) == [kind |-> kind, text |-> text, link |-> link, size |-> size]
ImageText == <<"image">>

\* LineBuilder
NewLine(y, height) == [y |-> y, height |-> Greater(height, 1), used |-> 0, fragments |-> <<>>]
HasContent(line) == line.fragments # <<>>

Add(line, width, text, measured, height, link) ==
  LET actual == Lesser(measured, width - line.used)
  IN  [line EXCEPT !.fragments = Append(@, [text |-> text, link |-> link,
                                            x |-> line.used, width |-> actual]),
                   !.used = @ + actual,
                   !.height = Greater(@, height)]

\* The loop of wrap_spans: the finished lines, the line being built, the link
\* of a blank that waits for a word, and the word read so far.
NoBlank == "no blank"
Start == [lines |-> <<>>, line |-> NewLine(0, LineHeight), blank |-> NoBlank, word |-> <<>>]

BreakLine(st, height) ==
  [st EXCEPT !.lines = Append(@, st.line),
             !.line = NewLine(st.line.y + st.line.height, height)]

\* The line there is, or a new one when it has content and no room.
Room(st, width, needed, height) ==
  IF HasContent(st.line) /\ st.line.used + needed > width THEN BreakLine(st, height) ELSE st

AddCharacter(st, width, character, link) ==
  LET measured == Lesser(Measure(character), width)
      fresh == Room(st, width, measured, LineHeight)
  IN  [fresh EXCEPT !.line = Add(@, width, <<character>>, measured, LineHeight, link)]

\* append_token
AppendToken(st, width, text, link, leading) ==
  LET measured == TextWidth(text)
      fresh == Room(st, width, measured, LineHeight)
      dropped == text = Blank /\ ~ leading
  IN  IF text = <<>> \/ (dropped /\ ~ HasContent(st.line)) THEN st
      ELSE IF dropped /\ fresh # st THEN fresh
      ELSE IF measured <= width \/ Len(text) <= 1
        THEN [fresh EXCEPT !.line = Add(@, width, text, Lesser(measured, width), LineHeight, link)]
        ELSE FoldLeft(LAMBDA s, c : AddCharacter(s, width, c, link), fresh, text)

TakeBlank(st, width) ==
  IF st.blank = NoBlank THEN st
  ELSE AppendToken([st EXCEPT !.blank = NoBlank], width, Blank, st.blank, FALSE)

\* append_word, and the word is cleared
AppendWord(st, width, link) ==
  IF st.word = <<>> THEN st
  ELSE [AppendToken(TakeBlank(st, width), width, st.word, link, FALSE) EXCEPT !.word = <<>>]

Read(st, width, span, character) ==
  LET written == AppendWord(st, width, span.link)
  IN  CASE character = "\n" -> [BreakLine(written, 1) EXCEPT !.blank = NoBlank]
        [] character = " " ->
             IF span.kind = "code" THEN AppendToken(written, width, Blank, span.link, TRUE)
             ELSE IF HasContent(written.line) THEN [written EXCEPT !.blank = span.link]
             ELSE written
        [] OTHER -> [TakeBlank(st, width) EXCEPT !.word = Append(@, character)]

\* append_image: the image is made to fit the width; a waiting blank is
\* forgotten.
AnyHeight == 1000
AppendImage(st, width, span) ==
  LET size == Images!Fitted(span.size[1], span.size[2], width, AnyHeight)
      height == Greater(size[2], LineHeight)
      fresh == Room([st EXCEPT !.blank = NoBlank], width, size[1], height)
  IN  [fresh EXCEPT !.line = Add(@, width, ImageText, size[1], height, span.link)]

ReadSpan(st, width, span) ==
  IF span.kind = "image" THEN AppendImage(st, width, span)
  ELSE AppendWord(FoldLeft(LAMBDA s, c : Read(s, width, span, c), st, span.text), width, span.link)

\* wrap_spans
Wrap(spans, box) ==
  LET width == Greater(box, 1)
      end == FoldLeft(LAMBDA s, span : ReadSpan(s, width, span), Start, spans)
  IN  IF HasContent(end.line) \/ end.lines = <<>> THEN Append(end.lines, end.line) ELSE end.lines

-----------------------------------------------------------------------------
(* What it promises.                                                       *)

Piece(text, link) == [text |-> text, link |-> link]
Gap == Piece(Blank, "any")

\* The pieces of a text in order, with a Gap for each white character: words
\* that fit a line whole, others character by character.
PiecesOfWord(word, link, width) ==
  CASE word = <<>> -> <<>>
    [] word # <<>> /\ TextWidth(word) <= width -> <<Piece(word, link)>>
    [] OTHER -> [i \in 1 .. Len(word) |-> Piece(<<word[i]>>, link)]

SplitText(span, width) ==
  LET end == FoldLeft(LAMBDA st, c :
                        IF c \in {" ", "\n"}
                          THEN [word |-> <<>>,
                                done |-> Append(st.done \o PiecesOfWord(st.word, span.link, width), Gap)]
                          ELSE [st EXCEPT !.word = Append(@, c)],
                      [word |-> <<>>, done |-> <<>>], span.text)
  IN  end.done \o PiecesOfWord(end.word, span.link, width)

PiecesOf(spans, width) ==
  FlattenSeq([i \in DOMAIN spans |->
                IF spans[i].kind = "image" THEN <<Piece(ImageText, spans[i].link)>>
                ELSE SplitText(spans[i], width)])

\* The same of the lines, with a Gap for each blank and at each end of a line.
PiecesShown(lines) ==
  FlattenSeq([n \in DOMAIN lines |->
                Append([i \in DOMAIN lines[n].fragments |->
                          LET f == lines[n].fragments[i]
                          IN IF f.text = Blank THEN Gap ELSE Piece(f.text, f.link)], Gap)])

Solid(pieces) == SelectSeq(pieces, LAMBDA piece : piece # Gap)

\* The numbers of the pieces a Gap follows.
Gaps(pieces) ==
  {Len(Solid(SubSeq(pieces, 1, i))) : i \in {j \in DOMAIN pieces : pieces[j] = Gap}}

\* Every word and image is shown once, in order, with its link, and whole if a
\* line can hold it; words apart in the source are apart on the screen.
\* (An image does not keep the blank before it.)
Keeps(source, shown) ==
  LET pieces == Solid(source)
      worded == {n \in 1 .. Len(pieces) - 1 : pieces[n + 1].text # ImageText}
  IN  /\ Solid(shown) = pieces
      /\ Gaps(source) \intersect worded \subseteq Gaps(shown)

\* Nothing is clipped that a line can hold, fragments stand side by side within
\* the line, and lines do not overlap.
Stacked(lines, width) ==
  \A n \in DOMAIN lines :
    /\ lines[n].used <= width
    /\ \A i \in DOMAIN lines[n].fragments :
         LET fragment == lines[n].fragments[i]
         IN  /\ fragment.text # ImageText => fragment.width = Lesser(TextWidth(fragment.text), width)
             /\ fragment.x = FoldLeft(LAMBDA sum, f : sum + f.width, 0,
                                      SubSeq(lines[n].fragments, 1, i - 1))
    /\ n > 1 => lines[n].y = lines[n - 1].y + lines[n - 1].height

WrapIsSound(spans, box) ==
  \E lines \in {Wrap(spans, box)} :
    /\ Keeps(PiecesOf(spans, Greater(box, 1)), PiecesShown(lines))
    /\ Stacked(lines, Greater(box, 1))
=============================================================================

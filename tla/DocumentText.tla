----------------------------- MODULE DocumentText -----------------------------
(***************************************************************************)
(* Texts and positions: the edits of the document store (server/phpstrom/  *)
(* documents.go), the mapper between byte offsets, the one-based character *)
(* coordinates of the parser and the zero-based UTF-16 positions of the    *)
(* protocol (server/providers/source_position.go), and the identifier      *)
(* under the cursor (providers.go, completion.go).                         *)
(*                                                                         *)
(* A text is a sequence of characters, a source the sequence of its bytes, *)
(* each a character and which of its bytes it is; it is valid UTF-8.       *)
(* Offsets are zero-based.                                                 *)
(***************************************************************************)
EXTENDS Integers, SequencesExt

Letter == "a"     \* may stand in an identifier
Accent == "e"     \* two bytes, one UTF-16 unit
Emoji == "g"      \* four bytes, two units
Nl == "nl"
Cr == "cr"
Chars == {Letter, Accent, Emoji, Nl, Cr}

Bytes(c) == CASE c = Accent -> 2 [] c = Emoji -> 4 [] OTHER -> 1
Units(c) == IF c = Emoji THEN 2 ELSE 1

Encode(text) == FlattenSeq([i \in DOMAIN text |-> [k \in 1..Bytes(text[i]) |-> <<text[i], k>>]])
Decode(src) == LET first == SelectSeq(src, LAMBDA b : b[2] = 1) IN [i \in DOMAIN first |-> first[i][1]]

Take(s, n) == SubSeq(s, 1, n)
Total(text, Width(_)) == FoldLeft(LAMBDA n, c : n + Width(c), 0, text)
BytesIn(text) == Total(text, Bytes)
UnitsIn(text) == Total(text, Units)
One(c) == 1

(* How far a walk from character to character goes until it has passed     *)
(* target, measured by Width.                                              *)
Steps(text, target, Width(_)) ==
  LET enough == {j \in 0..Len(text) : Total(Take(text, j), Width) >= target}
  IN IF enough = {} THEN Len(text) ELSE Min(enough)

TrimCr(text) == IF text # <<>> /\ Last(text) = Cr THEN Front(text) ELSE text

(* newSourcePositionMapper: where each line starts.                        *)
LineStarts(src) ==
  <<0>> \o SelectSeq([i \in DOMAIN src |-> i], LAMBDA i : src[i] = <<Nl, 1>>)

(* The characters of a line (the first is 1) without what ends it.         *)
LineText(src, line) ==
  LET starts == LineStarts(src)
      end == IF line < Len(starts) THEN starts[line + 1] - 1 ELSE Len(src)
  IN Decode(SubSeq(src, starts[line] + 1, end))

-----------------------------------------------------------------------------
(***************************************************************************)
(* The document store.                                                     *)
(***************************************************************************)
ByByte(src, line, char) ==
  IF line >= Len(LineStarts(src)) THEN Len(src)
  ELSE LineStarts(src)[line + 1] + Min({char, BytesIn(LineText(src, line + 1))})

(* The last line keeps a trailing carriage return.                         *)
ByteOffsetFromUTF16Position(src, line, char) ==
  LET starts == LineStarts(src)
      content == IF line + 1 < Len(starts) THEN TrimCr(LineText(src, line + 1)) ELSE LineText(src, line + 1)
  IN IF line >= Len(starts) THEN Len(src)
     ELSE starts[line + 1] + BytesIn(Take(content, Steps(content, char, Units)))

ApplyEdit(src, range, newText) ==
  LET from == ByteOffsetFromUTF16Position(src, range.start.line, range.start.char)
      to == ByteOffsetFromUTF16Position(src, range.end.line, range.end.char)
  IN IF from > to THEN src ELSE Take(src, from) \o newText \o SubSeq(src, to + 1, Len(src))

(* Change: the edits of one notification, in order; one without a range    *)
(* replaces the text.                                                      *)
Whole == [start |-> "none"]
Change(src, changes) ==
  FoldLeft(LAMBDA s, c : IF c.range = Whole THEN c.text ELSE ApplyEdit(s, c.range, c.text), src, changes)

-----------------------------------------------------------------------------
(***************************************************************************)
(* The position mapper.                                                    *)
(***************************************************************************)
At(line, char) == [line |-> line, char |-> char]

(* position: from one-based characters, and whether there is one.          *)
PositionOf(src, line, column) ==
  LET content == TrimCr(LineText(src, line))
  IN IF line \notin 1..Len(LineStarts(src)) THEN [at |-> At(0, 0), ok |-> FALSE]
     ELSE IF column < 1 THEN [at |-> At(line - 1, 0), ok |-> FALSE]
     ELSE [at |-> At(line - 1, UnitsIn(Take(content, Min({column - 1, Len(content)})))),
           ok |-> column - 1 <= Len(content)]

PositionBefore(p, q) == p.line < q.line \/ (p.line = q.line /\ p.char < q.char)

SpanRange(src, startLine, startColumn, endLine, endColumn) ==
  LET start == PositionOf(src, startLine, startColumn)
      end == PositionOf(src, endLine, endColumn)
  IN IF endLine < 1 \/ endColumn < 1 \/ ~start.ok \/ ~end.ok \/ PositionBefore(end.at, start.at)
     THEN [start |-> start.at, end |-> start.at]
     ELSE [start |-> start.at, end |-> end.at]

(* Between a carriage return and its newline the column stays before both. *)
PositionFromByteOffset(src, offset) ==
  LET starts == LineStarts(src)
      at == Min({offset, Len(src)})
      line == Max({i \in DOMAIN starts : starts[i] <= at})
      content == Decode(SubSeq(src, starts[line] + 1, Len(src)))
      whole == Max({j \in 0..Len(content) : starts[line] + BytesIn(Take(content, j)) <= at})
      split == /\ whole > 0 /\ content[whole] = Cr /\ whole < Len(content) /\ content[whole + 1] = Nl
               /\ starts[line] + BytesIn(Take(content, whole)) = at
  IN At(line - 1, UnitsIn(Take(content, IF split THEN whole - 1 ELSE whole)))

ByteOffsetFromPosition(src, p) ==
  LET content == TrimCr(LineText(src, p.line + 1))
  IN IF p.line >= Len(LineStarts(src)) THEN Len(src)
     ELSE LineStarts(src)[p.line + 1] + BytesIn(Take(content, Steps(content, p.char, Units)))

NoOffset == -1
RunePositionToByte(src, line, column) ==
  LET content == TrimCr(LineText(src, line))
  IN IF line \notin 1..Len(LineStarts(src)) \/ column \notin 1..(Len(content) + 1) THEN NoOffset
     ELSE LineStarts(src)[line] + BytesIn(Take(content, column - 1))

ByteSpanFromRunePositions(src, startLine, startColumn, endLine, endColumn) ==
  LET from == RunePositionToByte(src, startLine, startColumn)
      to == RunePositionToByte(src, endLine, endColumn)
  IN IF from = NoOffset THEN [start |-> 0, end |-> 0]
     ELSE [start |-> from, end |-> IF to >= from THEN to ELSE from]

(* diagnosticRange: where the editor shows a diagnostic.                   *)
DiagnosticRange(src, span) ==
  [start |-> PositionFromByteOffset(src, span.start), end |-> PositionFromByteOffset(src, span.end)]

(* byteOffsetFromRunePosition: clamped to the line.                        *)
ByteOffsetFromRunePosition(src, line, column) ==
  LET content == TrimCr(LineText(src, line))
  IN IF line < 1 THEN 0
     ELSE IF line > Len(LineStarts(src)) THEN Len(src)
     ELSE LineStarts(src)[line] + BytesIn(Take(content, Steps(content, IF column < 1 THEN 0 ELSE column - 1, One)))

-----------------------------------------------------------------------------
(***************************************************************************)
(* The identifier under the cursor.                                        *)
(***************************************************************************)
(* identifierAt: the line's bytes, with the character of the position used *)
(* as a byte offset; the result is the range of bytes.                     *)
IdentifierAt(src, p) ==
  LET bytes == Encode(LineText(src, p.line + 1))
      col == Min({p.char, Len(bytes)})
      letters(i, j) == \A k \in i..j : bytes[k] = <<Letter, 1>>
      start == Min({i \in 0..col : letters(i + 1, col)})
      end == Max({i \in col..Len(bytes) : letters(col + 1, i)})
  IN IF p.line >= Len(LineStarts(src)) THEN <<0, 0>> ELSE <<start, end>>

(* wordAt: the part of it before the cursor.                               *)
WordAt(src, p) ==
  <<IdentifierAt(src, p)[1], Min({p.char, BytesIn(LineText(src, p.line + 1))})>>

-----------------------------------------------------------------------------
(***************************************************************************)
(* The protocol's reading of a text, for reference: positions count the    *)
(* UTF-16 units of the characters that stand before the place.             *)
(***************************************************************************)
(* A place is the number of characters before it; none splits a line end.  *)
Places(text) ==
  {i \in 0..Len(text) : ~(i > 0 /\ i < Len(text) /\ text[i] = Cr /\ text[i + 1] = Nl)}
LineOf(text, i) == Cardinality({j \in 1..i : text[j] = Nl})
LineStart(text, i) == Max({0} \cup {j \in 1..i : text[j] = Nl})
PositionIn(text, i) == At(LineOf(text, i), UnitsIn(SubSeq(text, LineStart(text, i) + 1, i)))
ColumnIn(text, i) == i - LineStart(text, i) + 1
Editor(text, i, j, new) == Take(text, i) \o new \o SubSeq(text, j + 1, Len(text))

(* An edit gives the server the text the editor has.                       *)
EditsApplied(text, new) ==
  \A i, j \in Places(text) : i <= j =>
    Change(Encode(text), <<[range |-> [start |-> PositionIn(text, i), end |-> PositionIn(text, j)],
                            text |-> Encode(new)]>>)
      = Encode(Editor(text, i, j, new))

(* Every way from a place to a position or to an offset and back agrees,   *)
(* and a diagnostic is shown from where it starts to where it ends.        *)
PlacesAgree(text) ==
  LET src == Encode(text) IN
  \A i \in Places(text) :
    LET p == PositionIn(text, i)
        offset == BytesIn(Take(text, i))
        line == p.line + 1
    IN /\ ByteOffsetFromPosition(src, p) = offset
       /\ ByteOffsetFromUTF16Position(src, p.line, p.char) = offset
       /\ PositionFromByteOffset(src, offset) = p
       /\ ByteOffsetFromRunePosition(src, line, ColumnIn(text, i)) = offset
       /\ \A j \in Places(text) : i <= j =>
            LET q == PositionIn(text, j)
                span == ByteSpanFromRunePositions(src, line, ColumnIn(text, i), q.line + 1, ColumnIn(text, j))
            IN /\ DiagnosticRange(src, span) = [start |-> p, end |-> q]
               /\ SpanRange(src, line, ColumnIn(text, i), q.line + 1, ColumnIn(text, j)) = [start |-> p, end |-> q]

(* Where only one-byte characters stand before the cursor on its line, the *)
(* identifier found is the word around it.                                 *)
IdentifiersFound(text) ==
  LET src == Encode(text)
      word(i, j) == \A k \in (i + 1)..j : text[k] = Letter
      ascii(i) == \A k \in (LineStart(text, i) + 1)..i : Bytes(text[k]) = 1
  IN \A i \in Places(text) : ascii(i) =>
       LET from == Min({k \in 0..i : word(k, i)})
           to == Max({k \in i..Len(text) : word(i, k)})
       IN /\ IdentifierAt(src, PositionIn(text, i)) = <<from - LineStart(text, i), to - LineStart(text, i)>>
          /\ WordAt(src, PositionIn(text, i)) = <<from - LineStart(text, i), i - LineStart(text, i)>>
=============================================================================

-------------------------- MODULE CsvInspector_proofs --------------------------
(***************************************************************************)
(* Proofs about CsvInspector, for every content, every chunk size and      *)
(* every change a writer may make.                                         *)
(***************************************************************************)
EXTENDS CsvInspector, SequenceTheorems, TLAPS

-----------------------------------------------------------------------------
(* The decoder *)

DecoderStates == [bad : BOOLEAN, lead : BOOLEAN, text : Seq(Chars)]

Fresh(isLead) == [bad |-> FALSE, lead |-> isLead, text |-> <<>>]

(* A byte takes a state of the decoder to another one. *)
LEMMA DecodeByteType ==
    ASSUME NEW d \in DecoderStates, NEW byte \in Bytes
    PROVE  DecodeByte(d, byte) \in DecoderStates
<1>1. d.bad \in BOOLEAN /\ d.lead \in BOOLEAN /\ d.text \in Seq(Chars)
  BY DEF DecoderStates
<1>2. Append(d.text, "u") \in Seq(Chars)
  BY <1>1, AppendProperties DEF Chars
<1>3. byte \notin {"L", "C"} => Append(d.text, byte) \in Seq(Chars)
  BY <1>1, AppendProperties DEF Bytes, Chars
<1>4. CASE d.bad
  BY <1>4 DEF DecodeByte
<1>5. CASE ~d.bad /\ d.lead # (byte = "C")
  BY <1>5 DEF DecodeByte, DecoderStates
<1>6. CASE ~d.bad /\ d.lead = (byte = "C")
  BY <1>1, <1>2, <1>3, <1>6 DEF DecodeByte, DecoderStates
<1> QED
  BY <1>4, <1>5, <1>6

LEMMA FreshType ==
    ASSUME NEW isLead \in BOOLEAN
    PROVE  Fresh(isLead) \in DecoderStates
BY EmptySeq DEF Fresh, DecoderStates

LEMMA DecodeType ==
    ASSUME NEW isLead \in BOOLEAN, NEW q \in Seq(Bytes)
    PROVE  Decode(isLead, q) \in DecoderStates
<1>1. Decoder!From(Fresh(isLead), q) \in DecoderStates
  BY FreshType, DecodeByteType, Decoder!FromKeeps
<1> QED
  BY <1>1 DEF Decode, Fresh

LEMMA AppendToConcat ==
    ASSUME NEW s \in Seq(Chars), NEW t \in Seq(Chars), NEW c \in Chars
    PROVE  Append(s \o t, c) = s \o Append(t, c)
<1>1. Append(t, c) \in Seq(Chars) /\ s \o t \in Seq(Chars)
  BY AppendProperties, ConcatProperties
<1> QED
  BY <1>1

(* Bytes decoded in two parts: what the decoder keeps of the first part is *)
(* whether it ends inside a character; the texts are joined.               *)
LEMMA DecodeInParts ==
    ASSUME NEW q \in Seq(Bytes), NEW t \in Seq(Bytes), ~Decode(FALSE, q).bad
    PROVE  LET d == Decode(FALSE, q)
               e == Decode(d.lead, t)
           IN  Decode(FALSE, q \o t)
                 = [bad |-> e.bad, lead |-> e.lead, text |-> d.text \o e.text]
<1> DEFINE d == Decode(FALSE, q)
           After(a) == [bad |-> a.bad, lead |-> a.lead, text |-> d.text \o a.text]
           R == {<<a, After(a)>> : a \in DecoderStates}
<1>1. d \in DecoderStates
  BY DecodeType
<1>2. d.text \in Seq(Chars) /\ d.lead \in BOOLEAN /\ d.bad = FALSE
  BY <1>1 DEF DecoderStates
<1>3. After(Fresh(d.lead)) = d
  <2>1. d.text \o <<>> = d.text
    BY <1>2, ConcatEmptySeq
  <2> QED
    BY <1>1, <1>2, <2>1 DEF Fresh, DecoderStates
<1>4. <<Fresh(d.lead), d>> \in R
  BY <1>2, <1>3, FreshType
<1>5. ASSUME NEW a \in DecoderStates, NEW byte \in Bytes
      PROVE  DecodeByte(After(a), byte) = After(DecodeByte(a, byte))
  <2>1. a.text \in Seq(Chars) /\ a.bad \in BOOLEAN /\ a.lead \in BOOLEAN
    BY DEF DecoderStates
  <2>2. ASSUME NEW c \in Chars
        PROVE  Append(d.text \o a.text, c) = d.text \o Append(a.text, c)
    BY <1>2, <2>1, AppendToConcat
  <2>3. CASE a.bad
    BY <2>3 DEF DecodeByte
  <2>4. CASE ~a.bad /\ a.lead # (byte = "C")
    BY <2>4 DEF DecodeByte, DecoderStates
  <2>5. CASE ~a.bad /\ a.lead = (byte = "C")
    BY <2>1, <2>2, <2>5 DEF DecodeByte, DecoderStates, Bytes, Chars
  <2> QED
    BY <2>1, <2>3, <2>4, <2>5
<1>6. ASSUME NEW a, NEW b, NEW byte \in Bytes, <<a, b>> \in R
      PROVE  <<DecodeByte(a, byte), DecodeByte(b, byte)>> \in R
  <2>1. a \in DecoderStates /\ b = After(a)
    BY <1>6
  <2>2. DecodeByte(a, byte) \in DecoderStates
    BY <2>1, DecodeByteType
  <2> QED
    BY <1>5, <2>1, <2>2
<1> HIDE DEF R, d
<1>7. <<Decoder!From(Fresh(d.lead), t), Decoder!From(d, t)>> \in R
  BY <1>4, <1>6, Decoder!FromSimulates
<1>8. Decoder!From(d, t) = After(Decoder!From(Fresh(d.lead), t))
  BY <1>7 DEF R
<1>9. Decode(FALSE, q \o t) = Decoder!From(d, t)
  BY Decoder!FromConcat DEF Decode, d
<1>10. Decode(d.lead, t) = Decoder!From(Fresh(d.lead), t)
  BY DEF Decode, Fresh
<1> QED
  BY <1>8, <1>9, <1>10 DEF d

(* No later byte makes up for one that cannot be decoded. *)
LEMMA UndecodableStays ==
    ASSUME NEW q \in Seq(Bytes), NEW t \in Seq(Bytes), Decode(FALSE, q).bad
    PROVE  Decode(FALSE, q \o t).bad
<1> DEFINE d == Decode(FALSE, q)
           S == {d}
<1>1. \A a \in S, byte \in Bytes : DecodeByte(a, byte) \in S
  BY DEF DecodeByte
<1> HIDE DEF d
<1>2. Decoder!From(d, t) \in S
  BY <1>1, Decoder!FromKeeps
<1>3. Decode(FALSE, q \o t) = Decoder!From(d, t)
  BY Decoder!FromConcat DEF Decode, d
<1> QED
  BY <1>2, <1>3 DEF d

-----------------------------------------------------------------------------
(* Lines *)

(* The last line feed of a text, 0 if it has none. *)
LastFeed(text) == SelectLastInSeq(text, LAMBDA c : c = "n")

LEMMA LastFeedFound ==
    ASSUME NEW text \in Seq(Chars)
    PROVE  /\ LastFeed(text) \in 0..Len(text)
           /\ LastFeed(text) > 0 => text[LastFeed(text)] = "n"
           /\ \A i \in 1..Len(text) : i > LastFeed(text) => text[i] # "n"
<1> DEFINE feeds == {i \in 1..Len(text) : text[i] = "n"}
           Clear(k) == \A i \in 1..Len(text) : i > Len(text) - k => text[i] # "n"
           S == {k \in Nat : k <= Len(text) => Clear(k) \/ \E i \in feeds : \A j \in feeds : i >= j}
<1>1. 0 \in S
  OBVIOUS
<1>2. ASSUME NEW k \in Nat, k \in S
      PROVE  k + 1 \in S
  <2> SUFFICES ASSUME k + 1 <= Len(text), Clear(k)
               PROVE  Clear(k + 1) \/ \E i \in feeds : \A j \in feeds : i >= j
    BY <1>2
  <2>1. CASE text[Len(text) - k] = "n"
    <3>1. Len(text) - k \in feeds
      BY <2>1
    <3>2. \A j \in feeds : Len(text) - k >= j
      OBVIOUS
    <3> QED
      BY <3>1, <3>2
  <2>2. CASE text[Len(text) - k] # "n"
    BY <2>2
  <2> QED
    BY <2>1, <2>2
<1> HIDE DEF S
<1>3. Len(text) \in S
  BY <1>1, <1>2, Decoder!NatSetInduction
<1>4. feeds # {} => \E i \in feeds : \A j \in feeds : i >= j
  BY <1>3 DEF S
<1>5. LastFeed(text) = IF feeds # {} THEN Max(feeds) ELSE 0
  BY DEF LastFeed, SelectLastInSeq
<1>6. feeds # {} => Max(feeds) \in feeds /\ \A j \in feeds : Max(feeds) >= j
  BY <1>4 DEF Max
<1>7. CASE feeds = {}
  BY <1>5, <1>7
<1>8. CASE feeds # {}
  <2>1. LastFeed(text) \in feeds /\ \A j \in feeds : LastFeed(text) >= j
    BY <1>5, <1>6, <1>8
  <2> QED
    BY <2>1
<1> QED
  BY <1>7, <1>8

(* A text is its complete lines and the rest. *)
LEMMA LinesAndRest ==
    ASSUME NEW text \in Seq(Chars)
    PROVE  /\ LinesIn(text) \in Seq(Chars) /\ Rest(text) \in Seq(Chars)
           /\ text = LinesIn(text) \o Rest(text)
           /\ LinesIn(text) # <<>> => LinesIn(text)[Len(LinesIn(text))] = "n"
           /\ \A i \in 1..Len(Rest(text)) : Rest(text)[i] # "n"
<1> DEFINE k == LastFeed(text)
<1>1. /\ k \in 0..Len(text) /\ Len(text) \in Nat
      /\ k > 0 => text[k] = "n"
      /\ \A i \in 1..Len(text) : i > k => text[i] # "n"
  BY LastFeedFound
<1>2. LinesIn(text) = SubSeq(text, 1, k)
  BY DEF LinesIn, LastFeed
<1> HIDE DEF k
<1>3. /\ SubSeq(text, 1, k) \in Seq(Chars) /\ Len(SubSeq(text, 1, k)) = k
      /\ \A i \in 1..k : SubSeq(text, 1, k)[i] = text[i]
  BY <1>1
<1>4. Rest(text) = SubSeq(text, k + 1, Len(text))
  BY <1>2, <1>3 DEF Rest
<1>5. /\ SubSeq(text, k + 1, Len(text)) \in Seq(Chars)
      /\ Len(SubSeq(text, k + 1, Len(text))) = Len(text) - k
      /\ \A i \in 1..(Len(text) - k) : SubSeq(text, k + 1, Len(text))[i] = text[k + i]
  BY <1>1
<1>6. text = SubSeq(text, 1, k) \o SubSeq(text, k + 1, Len(text))
  <2>1. 1 \in 1..(Len(text) + 1) /\ k \in (1 - 1)..Len(text) /\ Len(text) \in k..Len(text)
    BY <1>1
  <2>2. SubSeq(text, 1, k) \o SubSeq(text, k + 1, Len(text)) = SubSeq(text, 1, Len(text))
    BY <2>1, ConcatAdjacentSubSeq
  <2> QED
    BY <2>2, SubSeqFull
<1>7. SubSeq(text, 1, k) # <<>> => SubSeq(text, 1, k)[k] = "n"
  BY <1>1, <1>3, EmptySeq
<1>8. \A i \in 1..(Len(text) - k) : SubSeq(text, k + 1, Len(text))[i] # "n"
  BY <1>1, <1>5
<1> QED
  BY <1>2, <1>3, <1>4, <1>5, <1>6, <1>7, <1>8

(* There is only one way to do so. *)
LEMMA SplitIsUnique ==
    ASSUME NEW l \in Seq(Chars), NEW p \in Seq(Chars),
           l # <<>> => l[Len(l)] = "n",
           \A i \in 1..Len(p) : p[i] # "n"
    PROVE  LinesIn(l \o p) = l /\ Rest(l \o p) = p
<1> DEFINE text == l \o p
           k == LastFeed(text)
<1>1. /\ text \in Seq(Chars) /\ Len(text) = Len(l) + Len(p) /\ Len(l) \in Nat /\ Len(p) \in Nat
      /\ \A i \in 1..(Len(l) + Len(p)) : text[i] = IF i <= Len(l) THEN l[i] ELSE p[i - Len(l)]
  BY ConcatProperties
<1> HIDE DEF text
<1>2. /\ k \in 0..Len(text)
      /\ k > 0 => text[k] = "n"
      /\ \A i \in 1..Len(text) : i > k => text[i] # "n"
  BY <1>1, LastFeedFound
<1> HIDE DEF k
<1>3. k <= Len(l)
  <2> SUFFICES ASSUME k > Len(l) PROVE FALSE
    BY <1>1, <1>2
  <2>1. k - Len(l) \in 1..Len(p) /\ k \in 1..(Len(l) + Len(p)) /\ ~(k <= Len(l)) /\ k > 0
    BY <1>1, <1>2
  <2>2. text[k] = p[k - Len(l)]
    BY <1>1, <2>1
  <2> QED
    BY <1>2, <2>1, <2>2
<1>4. k >= Len(l)
  <2> SUFFICES ASSUME k < Len(l) PROVE FALSE
    BY <1>1, <1>2
  <2>1. Len(l) \in 1..Len(text) /\ Len(l) \in 1..(Len(l) + Len(p)) /\ Len(l) <= Len(l) /\ l # <<>>
    BY <1>1, <1>2, EmptySeq
  <2>2. text[Len(l)] = "n"
    BY <1>1, <2>1
  <2> QED
    BY <1>2, <2>1, <2>2
<1>5. k = Len(l)
  BY <1>1, <1>2, <1>3, <1>4
<1>6. LinesIn(text) = SubSeq(text, 1, Len(l))
  BY <1>5 DEF LinesIn, LastFeed, k
<1>7. LinesIn(text) = l
  <2>1. SubSeq(text, 1, Len(l)) \in Seq(Chars) /\ Len(SubSeq(text, 1, Len(l))) = Len(l)
        /\ \A i \in 1..Len(l) : SubSeq(text, 1, Len(l))[i] = text[i]
    BY <1>1
  <2>2. \A i \in 1..Len(l) : text[i] = l[i]
    BY <1>1
  <2> QED
    BY <1>6, <2>1, <2>2, SeqEqual
<1>8. Rest(text) = SubSeq(text, Len(l) + 1, Len(text))
  BY <1>7 DEF Rest
<1>9. Rest(text) = p
  <2>1. SubSeq(text, Len(l) + 1, Len(text)) \in Seq(Chars)
        /\ Len(SubSeq(text, Len(l) + 1, Len(text))) = Len(p)
        /\ \A i \in 1..Len(p) : SubSeq(text, Len(l) + 1, Len(text))[i] = text[Len(l) + i]
    BY <1>1
  <2>2. ASSUME NEW i \in 1..Len(p)
        PROVE  text[Len(l) + i] = p[i]
    <3>1. /\ Len(l) + i \in 1..(Len(l) + Len(p)) /\ ~(Len(l) + i <= Len(l))
          /\ (Len(l) + i) - Len(l) = i
      BY <1>1
    <3> QED
      BY <1>1, <3>1
  <2> QED
    BY <1>8, <2>1, <2>2, SeqEqual
<1> QED
  BY <1>7, <1>9 DEF text

(* Text that arrives in two parts: the rest of the first is joined to the  *)
(* second, and the lines found are those of the whole.                     *)
LEMMA LinesInParts ==
    ASSUME NEW text \in Seq(Chars), NEW more \in Seq(Chars)
    PROVE  LET buffered == Rest(text) \o more
           IN  /\ LinesIn(text \o more) = LinesIn(text) \o LinesIn(buffered)
               /\ Rest(text \o more) = Rest(buffered)
               /\ buffered \in Seq(Chars)
<1> DEFINE buffered == Rest(text) \o more
           l == LinesIn(text) \o LinesIn(buffered)
           p == Rest(buffered)
<1>1. /\ LinesIn(text) \in Seq(Chars) /\ Rest(text) \in Seq(Chars)
      /\ text = LinesIn(text) \o Rest(text)
      /\ LinesIn(text) # <<>> => LinesIn(text)[Len(LinesIn(text))] = "n"
  BY LinesAndRest
<1>2. buffered \in Seq(Chars)
  BY <1>1, ConcatProperties
<1>3. /\ LinesIn(buffered) \in Seq(Chars) /\ p \in Seq(Chars)
      /\ buffered = LinesIn(buffered) \o p
      /\ LinesIn(buffered) # <<>> => LinesIn(buffered)[Len(LinesIn(buffered))] = "n"
      /\ \A i \in 1..Len(p) : p[i] # "n"
  BY <1>2, LinesAndRest
<1>4. text \o more = LinesIn(text) \o buffered
  <2>1. (LinesIn(text) \o Rest(text)) \o more = LinesIn(text) \o buffered
    BY <1>1, ConcatAssociative
  <2> QED
    BY <1>1, <2>1
<1> HIDE DEF buffered
<1>5. text \o more = l \o p
  <2>1. \A a, b, c \in Seq(Chars) : (a \o b) \o c = a \o (b \o c)
    BY ConcatAssociative
  <2>2. (LinesIn(text) \o LinesIn(buffered)) \o p = LinesIn(text) \o (LinesIn(buffered) \o p)
    BY <1>1, <1>3, <2>1
  <2> QED
    BY <1>3, <1>4, <2>2
<1>6. l \in Seq(Chars) /\ (l # <<>> => l[Len(l)] = "n")
  <2>1. /\ l \in Seq(Chars) /\ Len(l) = Len(LinesIn(text)) + Len(LinesIn(buffered))
        /\ \A i \in 1..Len(l) : l[i] = IF i <= Len(LinesIn(text)) THEN LinesIn(text)[i]
                                       ELSE LinesIn(buffered)[i - Len(LinesIn(text))]
    BY <1>1, <1>3, ConcatProperties
  <2>2. CASE LinesIn(buffered) = <<>>
    <3>1. l = LinesIn(text)
      BY <1>1, <2>2, ConcatEmptySeq
    <3> QED
      BY <1>1, <3>1
  <2>3. CASE LinesIn(buffered) # <<>>
    <3> DEFINE m == Len(LinesIn(text))
               n == Len(LinesIn(buffered))
    <3>1. m \in Nat /\ n \in Nat \ {0}
      BY <1>1, <1>3, <2>3, EmptySeq
    <3>2. m + n \in 1..Len(l) /\ ~(m + n <= m) /\ (m + n) - m = n
      BY <2>1, <3>1
    <3>3. l[m + n] = LinesIn(buffered)[n]
      BY <2>1, <3>2
    <3> QED
      BY <1>3, <2>1, <2>3, <3>3
  <2> QED
    BY <2>2, <2>3
<1> HIDE DEF l, p
<1>7. LinesIn(l \o p) = l /\ Rest(l \o p) = p
  BY <1>3, <1>6, SplitIsUnique
<1> QED
  BY <1>2, <1>5, <1>7 DEF l, p, buffered

-----------------------------------------------------------------------------
(* csv.reader and the rows *)

(* A character takes a state of csv.reader to another one. *)
LEMMA ParseCharType ==
    ASSUME NEW r \in ReaderStates, NEW c \in Chars \cup {"eol"}
    PROVE  ParseChar(r, c) \in ReaderStates
<1>1. /\ r.field \in Seq(Chars) /\ r.row \in Seq(Seq(Chars))
      /\ <<>> \in Seq(Chars)
  BY EmptySeq DEF ReaderStates
<1>2. AtLineEnd(c) \in {"start_record", "eat_crnl"}
  BY DEF AtLineEnd
<1>3. SaveField(r, c) \in ReaderStates
  <2>1. Append(r.row, r.field) \in Seq(Seq(Chars))
    BY <1>1, AppendProperties
  <2> QED
    BY <1>1, <1>2, <2>1 DEF SaveField, ReaderStates
<1>4. \A s \in {"in_field", "quoted"} : c # "eol" => AddTo(r, c, s) \in ReaderStates
  <2>1. c # "eol" => Append(r.field, c) \in Seq(Chars)
    BY <1>1, AppendProperties
  <2> QED
    BY <2>1 DEF AddTo, ReaderStates
<1>5. /\ [r EXCEPT !.bad = TRUE] \in ReaderStates
      /\ [r EXCEPT !.state = AtLineEnd(c)] \in ReaderStates
      /\ [r EXCEPT !.state = "quote_in_quoted"] \in ReaderStates
      /\ [r EXCEPT !.state = "quoted"] \in ReaderStates
  BY <1>2 DEF ReaderStates
<1>6. /\ r.state \in {"start_record", "start_field", "in_field", "quoted", "quote_in_quoted",
                      "eat_crnl"}
      /\ c \notin LineEnds => c # "eol"
      /\ c \notin FieldEnds => c # "eol"
  BY DEF ReaderStates, LineEnds, FieldEnds
<1>7. CASE r.state \in {"start_record", "eat_crnl"} /\ c \in LineEnds
  BY <1>5, <1>7 DEF ParseChar
<1>8. CASE r.state = "eat_crnl" /\ c \notin LineEnds
  BY <1>5, <1>8 DEF ParseChar
<1>9. CASE \/ r.state = "start_record" /\ c \notin LineEnds
           \/ r.state \in {"start_field", "in_field"}
  BY <1>3, <1>4, <1>5, <1>6, <1>9 DEF ParseChar
<1>10. CASE r.state = "quoted"
  BY <1>4, <1>5, <1>10 DEF ParseChar
<1>11. CASE r.state = "quote_in_quoted"
  BY <1>3, <1>4, <1>5, <1>6, <1>11 DEF ParseChar
<1> QED
  BY <1>6, <1>7, <1>8, <1>9, <1>10, <1>11

(* The loop over the rows keeps the types. *)
LEMMA TakeRowType ==
    ASSUME NEW r \in ReaderStates
    PROVE  TakeRow(r) \in ReaderStates
<1>1. <<>> \in Seq(Seq(Chars)) /\ Len(r.row) \in Nat /\ r.columns \in Nat /\ r.count \in Nat
  BY EmptySeq DEF ReaderStates
<1>2. HeaderIsValid(r.row) \in BOOLEAN
  BY DEF HeaderIsValid
<1> DEFINE done == [r EXCEPT !.row = <<>>]
<1>3. done \in ReaderStates /\ done.count \in Nat
  BY <1>1 DEF ReaderStates
<1>4. [done EXCEPT !.columns = Len(r.row), !.bad = ~HeaderIsValid(r.row)] \in ReaderStates
  BY <1>1, <1>2, <1>3 DEF ReaderStates
<1>5. [done EXCEPT !.bad = Len(r.row) # r.columns, !.count = @ + 1] \in ReaderStates
  <2>1. done.count + 1 \in Nat /\ (Len(r.row) # r.columns) \in BOOLEAN
    BY <1>3
  <2> HIDE DEF done
  <2> QED
    BY <1>3, <2>1 DEF ReaderStates
<1> QED
  BY <1>3, <1>4, <1>5 DEF TakeRow

LEMMA ReadCharType ==
    ASSUME NEW r \in ReaderStates, NEW c \in Chars \cup {"eol"}
    PROVE  ReadChar(r, c) \in ReaderStates
BY ParseCharType, TakeRowType DEF ReadChar

LEMMA ReadUnitType ==
    ASSUME NEW r \in ReaderStates, NEW c \in Chars
    PROVE  ReadUnit(r, c) \in ReaderStates
BY ReadCharType DEF ReadUnit

LEMMA PullLinesType ==
    ASSUME NEW r \in ReaderStates, NEW q \in Seq(Chars)
    PROVE  PullLines(r, q) \in ReaderStates /\ PullLastLine(r, q) \in ReaderStates
<1>1. Reader!From(r, q) \in ReaderStates
  BY ReadUnitType, Reader!FromKeeps
<1> QED
  BY <1>1, ReadCharType DEF PullLines, PullLastLine

LEMMA InitReaderType == InitReader \in ReaderStates
BY EmptySeq DEF InitReader, ReaderStates

(* Nothing is read after a record that is refused. *)
LEMMA RefusedStays ==
    ASSUME NEW r, r.bad, NEW q \in Seq(Chars)
    PROVE  PullLines(r, q) = r /\ PullLastLine(r, q) = r
<1> DEFINE S == {r}
<1>1. \A a \in S, c \in Chars : ReadUnit(a, c) \in S
  BY DEF ReadUnit, ReadChar
<1>2. Reader!From(r, q) \in S
  BY <1>1, Reader!FromKeeps
<1> QED
  BY <1>2 DEF PullLines, PullLastLine, ReadChar

LEMMA LinesReadInParts ==
    ASSUME NEW r, NEW q \in Seq(Chars), NEW t \in Seq(Chars)
    PROVE  PullLines(r, q \o t) = PullLines(PullLines(r, q), t)
BY Reader!FromConcat DEF PullLines

-----------------------------------------------------------------------------
(* Contents in two parts *)

(* Decoder, line buffer and reader go on with the second part as if both   *)
(* had come at once.                                                       *)
LEMMA ReadInParts ==
    ASSUME NEW q \in Seq(Bytes), NEW t \in Seq(Bytes), ~Decode(FALSE, q).bad
    PROVE  LET d == Decode(FALSE, q)
               e == Decode(d.lead, t)
               w == Decode(FALSE, q \o t)
               buffered == Rest(d.text) \o e.text
           IN  /\ w.bad = e.bad /\ w.lead = e.lead
               /\ w.text \in Seq(Chars) /\ buffered \in Seq(Chars)
               /\ LinesIn(buffered) \in Seq(Chars)
               /\ Rest(w.text) = Rest(buffered)
               /\ PullLines(InitReader, LinesIn(w.text))
                    = PullLines(PullLines(InitReader, LinesIn(d.text)), LinesIn(buffered))
<1> DEFINE d == Decode(FALSE, q)
           e == Decode(d.lead, t)
           w == Decode(FALSE, q \o t)
           buffered == Rest(d.text) \o e.text
<1>1. d \in DecoderStates /\ d.lead \in BOOLEAN /\ d.text \in Seq(Chars)
  BY DecodeType DEF DecoderStates
<1>2. e \in DecoderStates /\ e.text \in Seq(Chars)
  BY <1>1, DecodeType DEF DecoderStates
<1>3. w = [bad |-> e.bad, lead |-> e.lead, text |-> d.text \o e.text]
  BY DecodeInParts
<1> HIDE DEF d, e, w
<1>3a. w.bad = e.bad /\ w.lead = e.lead /\ w.text = d.text \o e.text
  BY <1>3
<1>4. w.text \in Seq(Chars)
  BY <1>1, <1>2, <1>3a, ConcatProperties
<1>5. /\ buffered \in Seq(Chars)
      /\ LinesIn(d.text \o e.text) = LinesIn(d.text) \o LinesIn(buffered)
      /\ Rest(d.text \o e.text) = Rest(buffered)
  BY <1>1, <1>2, LinesInParts
<1>6. LinesIn(d.text) \in Seq(Chars) /\ LinesIn(buffered) \in Seq(Chars)
  BY <1>1, <1>5, LinesAndRest
<1>7. PullLines(InitReader, LinesIn(d.text) \o LinesIn(buffered))
        = PullLines(PullLines(InitReader, LinesIn(d.text)), LinesIn(buffered))
  BY <1>6, LinesReadInParts
<1> HIDE DEF buffered
<1> QED
  BY <1>3a, <1>4, <1>5, <1>6, <1>7 DEF d, e, w, buffered

(* A content that begins with bytes that are refused is refused as a whole. *)
LEMMA RefusedBeginning ==
    ASSUME NEW q \in Seq(Bytes), NEW t \in Seq(Bytes),
           \/ Decode(FALSE, q).bad
           \/ PullLines(InitReader, LinesIn(Decode(FALSE, q).text)).bad
    PROVE  ~WholeIsValid(q \o t)
<1>1. CASE Decode(FALSE, q).bad
  BY <1>1, UndecodableStays DEF WholeIsValid
<1>2. CASE ~Decode(FALSE, q).bad
  <2> DEFINE d == Decode(FALSE, q)
             w == Decode(FALSE, q \o t)
             buffered == Rest(d.text) \o Decode(d.lead, t).text
             r == PullLines(InitReader, LinesIn(d.text))
  <2>1. /\ w.text \in Seq(Chars) /\ LinesIn(buffered) \in Seq(Chars)
        /\ PullLines(InitReader, LinesIn(w.text)) = PullLines(r, LinesIn(buffered))
    BY <1>2, ReadInParts
  <2>2. Rest(w.text) \in Seq(Chars)
    BY <2>1, LinesAndRest
  <2>3. r.bad
    BY <1>2
  <2> HIDE DEF d, w, buffered, r
  <2>4. PullLines(r, LinesIn(buffered)) = r /\ PullLastLine(r, Rest(w.text)) = r
    BY <2>1, <2>2, <2>3, RefusedStays
  <2>5. WholeReader(q \o t) = r
    BY <2>1, <2>4 DEF WholeReader, w
  <2> QED
    BY <2>3, <2>5 DEF WholeIsValid
<1> QED
  BY <1>1, <1>2

-----------------------------------------------------------------------------
(* Reading a file *)

(* The next chunk, and what is read with it, of a file whose beginning was *)
(* read.                                                                   *)
LEMMA ChunkIsNext ==
    ASSUME file \in Seq(Bytes), read \in Seq(Bytes), chunkSize \in Nat \ {0}
    PROVE  /\ Chunk \in Seq(Bytes)
           /\ read \o Chunk \in Seq(Bytes)
           /\ Len(read) <= Len(file) /\ read = SubSeq(file, 1, Len(read)) =>
                  /\ Len(read \o Chunk) <= Len(file)
                  /\ read \o Chunk = SubSeq(file, 1, Len(read \o Chunk))
                  /\ Chunk = <<>> => read = file
<1> DEFINE m == Len(read)
           n == Min({m + chunkSize, Len(file)})
<1>1. m \in Nat /\ Len(file) \in Nat
  BY LenProperties
<1>2. n = IF m + chunkSize <= Len(file) THEN m + chunkSize ELSE Len(file)
  BY <1>1 DEF Min
<1>3. Chunk = SubSeq(file, m + 1, n)
  BY DEF Chunk
<1> HIDE DEF n
<1>4. n \in 0..Len(file) /\ (m < Len(file) => m < n)
  BY <1>1, <1>2
<1>5. Chunk \in Seq(Bytes) /\ Len(Chunk) = IF m + 1 <= n THEN n - m ELSE 0
  <2>1. \A i \in (m + 1)..n : file[i] \in Bytes
    BY <1>1, <1>4
  <2> QED
    BY <1>1, <1>3, <1>4, <2>1, SubSeqProperties
<1>6. read \o Chunk \in Seq(Bytes) /\ Len(read \o Chunk) = m + Len(Chunk)
  BY <1>5, ConcatProperties
<1>7. ASSUME m <= Len(file), read = SubSeq(file, 1, m)
      PROVE  /\ Len(read \o Chunk) <= Len(file)
             /\ read \o Chunk = SubSeq(file, 1, Len(read \o Chunk))
             /\ Chunk = <<>> => read = file
  <2>1. m <= n
    BY <1>1, <1>2, <1>7
  <2>2. Len(read \o Chunk) = n
    BY <1>1, <1>4, <1>5, <1>6, <2>1
  <2>3. read \o Chunk = SubSeq(file, 1, n)
    <3>1. 1 \in 1..(Len(file) + 1) /\ m \in (1 - 1)..Len(file) /\ n \in m..Len(file)
      BY <1>1, <1>4, <1>7, <2>1
    <3>2. SubSeq(file, 1, m) \o SubSeq(file, m + 1, n) = SubSeq(file, 1, n)
      BY <3>1, ConcatAdjacentSubSeq
    <3> QED
      BY <1>3, <1>7, <3>2
  <2>4. ASSUME Chunk = <<>>
        PROVE  read = file
    <3>1. Len(Chunk) = 0
      BY <2>4
    <3>2. ~(m + 1 <= n)
      BY <1>1, <1>4, <1>5, <3>1
    <3>3. ~(m < Len(file))
      BY <1>1, <1>4, <3>2
    <3>4. m = Len(file)
      BY <1>1, <1>7, <3>3
    <3> QED
      BY <1>7, <3>4, SubSeqFull
  <2>5. n <= Len(file)
    BY <1>1, <1>4
  <2> QED
    BY <2>2, <2>3, <2>4, <2>5
<1> QED
  BY <1>5, <1>6, <1>7

(* A content is its beginning and a rest. *)
LEMMA BeginningAndRest ==
    ASSUME NEW f \in Seq(Bytes), NEW q \in Seq(Bytes), Len(q) <= Len(f),
           q = SubSeq(f, 1, Len(q))
    PROVE  \E t \in Seq(Bytes) : f = q \o t
<1> DEFINE m == Len(q)
           t == SubSeq(f, m + 1, Len(f))
<1>1. m \in 0..Len(f) /\ Len(f) \in Nat
  BY LenProperties
<1>2. t \in Seq(Bytes)
  <2>1. \A i \in (m + 1)..Len(f) : f[i] \in Bytes
    BY <1>1
  <2> QED
    BY <1>1, <2>1, SubSeqProperties
<1>3. SubSeq(f, 1, m) \o t = SubSeq(f, 1, Len(f))
  <2>1. 1 \in 1..(Len(f) + 1) /\ m \in (1 - 1)..Len(f) /\ Len(f) \in m..Len(f)
    BY <1>1
  <2> QED
    BY <2>1, ConcatAdjacentSubSeq
<1>4. f = q \o t
  BY <1>3, SubSeqFull
<1> QED
  BY <1>2, <1>4

-----------------------------------------------------------------------------
(* The inductive invariant *)

LEMMA InitInv == Init => InspectionInv
<1> SUFFICES ASSUME Init PROVE InspectionInv
  OBVIOUS
<1>1. file \in Seq(Bytes) /\ file \in Contents /\ Len(file) \in Nat
  BY ContentsAssumption, LenProperties DEF Init
<1>2. TypeOK
  BY <1>1, EmptySeq, InitReaderType DEF Init, TypeOK, Phases
<1>3. ReadIsBeginning
  <2>1. Len(<<>>) = 0 /\ SubSeq(file, 1, 0) = <<>>
    BY SubSeqEmpty
  <2> QED
    BY <1>1, <2>1 DEF Init, ReadIsBeginning
<1>4. ReadAsOneChunk
  <2>1. Decode(FALSE, <<>>) = Fresh(FALSE)
    BY Decoder!FromEmpty DEF Decode, Fresh
  <2>2. <<>> \in Seq(Chars) /\ <<>> \o <<>> = <<>>
    BY EmptySeq, ConcatEmptySeq
  <2>3. LinesIn(<<>>) = <<>> /\ Rest(<<>>) = <<>>
    <3>1. \A i \in 1..Len(<<>>) : <<>>[i] # "n"
      BY EmptySeq
    <3>2. LinesIn(<<>> \o <<>>) = <<>> /\ Rest(<<>> \o <<>>) = <<>>
      BY <2>2, <3>1, SplitIsUnique
    <3> QED
      BY <2>2, <3>2
  <2>4. PullLines(InitReader, <<>>) = InitReader
    BY Reader!FromEmpty DEF PullLines
  <2>5. /\ Decode(FALSE, read).bad = FALSE /\ Decode(FALSE, read).lead = lead
        /\ Decode(FALSE, read).text = <<>>
    <3>1. read = <<>> /\ lead = FALSE
      BY DEF Init
    <3>2. Decode(FALSE, read) = Fresh(FALSE)
      BY <2>1, <3>1
    <3>3. Fresh(FALSE).bad = FALSE /\ Fresh(FALSE).lead = FALSE /\ Fresh(FALSE).text = <<>>
      BY DEF Fresh
    <3> HIDE DEF Fresh
    <3> QED
      BY <3>1, <3>2, <3>3
  <2>6. pending = <<>> /\ reader = InitReader /\ reader.bad = FALSE
    BY DEF Init, InitReader
  <2> QED
    BY <2>3, <2>4, <2>5, <2>6 DEF ReadAsOneChunk
<1> QED
  BY <1>2, <1>3, <1>4 DEF Init, InspectionInv, EndedIsWhole, VerdictIsTheContents, DigestIsOneContent

LEMMA OpenKeeps == InspectionInv /\ Open => InspectionInv'
<1> SUFFICES ASSUME InspectionInv, Open PROVE InspectionInv'
  OBVIOUS
<1> USE DEF InspectionInv, Open
<1>1. TypeOK'
  BY DEF TypeOK, Phases
<1>2. ReadIsBeginning'
  <2>1. read = <<>> /\ Len(<<>>) = 0 /\ SubSeq(file, 1, 0) = <<>>
    BY SubSeqEmpty DEF ReadIsBeginning
  <2>2. mtime \in Nat /\ Len(file) \in Nat
    BY LenProperties DEF TypeOK
  <2> QED
    BY <2>1, <2>2 DEF ReadIsBeginning
<1>3. ReadAsOneChunk'
  BY DEF ReadAsOneChunk
<1>4. EndedIsWhole' /\ VerdictIsTheContents' /\ DigestIsOneContent'
  BY DEF EndedIsWhole, VerdictIsTheContents, DigestIsOneContent
<1> QED
  BY <1>1, <1>2, <1>3, <1>4

LEMMA FailKeeps == InspectionInv /\ Fail => InspectionInv'
<1> SUFFICES ASSUME InspectionInv, Fail PROVE InspectionInv'
  OBVIOUS
<1> USE DEF InspectionInv, Fail
<1>1. TypeOK'
  BY DEF TypeOK, Phases
<1>2. ReadIsBeginning'
  BY DEF ReadIsBeginning
<1>3. /\ ReadAsOneChunk' /\ EndedIsWhole'
      /\ VerdictIsTheContents' /\ DigestIsOneContent'
  BY DEF ReadAsOneChunk, EndedIsWhole, VerdictIsTheContents, DigestIsOneContent
<1> QED
  BY <1>1, <1>2, <1>3

(* The decoder is begun anew for a chunk with what it keeps, so that the   *)
(* chunk is the second part of what is read by then.                       *)
LEMMA ReadChunkKeeps == InspectionInv /\ ReadChunk => InspectionInv'
<1> SUFFICES ASSUME InspectionInv, ReadChunk PROVE InspectionInv'
  OBVIOUS
<1> DEFINE w == Decode(FALSE, read')
           lines == PullLines(InitReader, LinesIn(w.text))
<1>1. /\ file \in Seq(Bytes) /\ read \in Seq(Bytes) /\ chunkSize \in Nat \ {0}
      /\ reader \in ReaderStates /\ opened.content = opened.content
  BY ChunksAssumption DEF InspectionInv, TypeOK
<1>2. /\ Chunk \in Seq(Bytes) /\ read' = read \o Chunk /\ read' \in Seq(Bytes)
      /\ mtime = opened.mtime => Len(read') <= Len(file) /\ read' = SubSeq(file, 1, Len(read'))
  BY <1>1, ChunkIsNext DEF InspectionInv, ReadIsBeginning, ReadChunk
<1>3. /\ ~Decode(FALSE, read).bad /\ lead = Decode(FALSE, read).lead
      /\ pending = Rest(Decode(FALSE, read).text)
      /\ reader = PullLines(InitReader, LinesIn(Decode(FALSE, read).text))
  BY DEF InspectionInv, ReadAsOneChunk, ReadChunk
<1>4. /\ w.bad = Decoded.bad /\ w.lead = Decoded.lead
      /\ w.text \in Seq(Chars) /\ Buffered \in Seq(Chars) /\ LinesIn(Buffered) \in Seq(Chars)
      /\ Rest(w.text) = Rest(Buffered)
      /\ lines = PullLines(reader, LinesIn(Buffered))
  BY <1>1, <1>2, <1>3, ReadInParts DEF Decoded, Buffered
<1>5. w.bad \in BOOLEAN /\ w.lead \in BOOLEAN
  BY <1>2, DecodeType DEF DecoderStates
<1>6. Rest(Buffered) \in Seq(Chars) /\ lines \in ReaderStates
  BY <1>1, <1>4, LinesAndRest, PullLinesType
<1> HIDE DEF w, lines
<1>7. /\ lead' = w.lead /\ pending' = Rest(w.text) /\ reader' = lines
      /\ phase' = IF w.bad \/ lines.bad THEN "rejected" ELSE "reading"
      /\ UNCHANGED <<file, mtime, chunkSize, opened>>
  BY <1>4 DEF ReadChunk
<1>8. TypeOK'
  BY <1>2, <1>4, <1>5, <1>6, <1>7 DEF InspectionInv, TypeOK, Phases
<1>9. ReadIsBeginning'
  BY <1>2, <1>7 DEF InspectionInv, ReadIsBeginning
<1>10. ReadAsOneChunk'
  BY <1>7 DEF ReadAsOneChunk, w, lines
<1>11. VerdictIsTheContents'
  <2> SUFFICES ASSUME w.bad \/ lines.bad, mtime = opened.mtime
               PROVE  ~WholeIsValid(opened.content)
    BY <1>7 DEF VerdictIsTheContents
  <2>1. PICK t \in Seq(Bytes) : file = read' \o t
    BY <1>1, <1>2, BeginningAndRest
  <2>2. ~WholeIsValid(read' \o t)
    BY <1>2, RefusedBeginning DEF w, lines
  <2> QED
    BY <2>1, <2>2 DEF InspectionInv, ReadIsBeginning
<1>12. EndedIsWhole' /\ DigestIsOneContent'
  BY <1>7 DEF EndedIsWhole, DigestIsOneContent
<1> QED
  BY <1>8, <1>9, <1>10, <1>11, <1>12 DEF InspectionInv

LEMMA EndOfFileKeeps == InspectionInv /\ EndOfFile => InspectionInv'
<1> SUFFICES ASSUME InspectionInv, EndOfFile PROVE InspectionInv'
  OBVIOUS
<1> DEFINE d == Decode(FALSE, read)
<1>1. /\ file \in Seq(Bytes) /\ read \in Seq(Bytes) /\ chunkSize \in Nat \ {0}
      /\ reader \in ReaderStates /\ pending \in Seq(Chars)
  BY ChunksAssumption DEF InspectionInv, TypeOK
<1>2. /\ ~d.bad /\ lead = d.lead /\ pending = Rest(d.text)
      /\ reader = PullLines(InitReader, LinesIn(d.text))
  BY DEF InspectionInv, ReadAsOneChunk, EndOfFile
<1>3. reader' = WholeReader(read) /\ reader' \in ReaderStates
  BY <1>1, <1>2, PullLinesType DEF WholeReader, EndOfFile
<1>4. phase' = IF WholeIsValid(read) THEN "ended" ELSE "rejected"
  BY <1>2, <1>3 DEF WholeIsValid, EndOfFile
<1>5. mtime = opened.mtime => read = opened.content
  BY <1>1, ChunkIsNext DEF InspectionInv, ReadIsBeginning, EndOfFile
<1> HIDE DEF d
<1>6. UNCHANGED <<file, mtime, chunkSize, opened, read, lead, pending>>
  BY DEF EndOfFile
<1>7. TypeOK'
  BY <1>3, <1>4, <1>6 DEF InspectionInv, TypeOK, Phases
<1>8. ReadIsBeginning'
  BY <1>4, <1>6 DEF InspectionInv, ReadIsBeginning
<1>9. ReadAsOneChunk' /\ DigestIsOneContent'
  BY <1>4 DEF ReadAsOneChunk, DigestIsOneContent
<1>10. EndedIsWhole'
  BY <1>3, <1>4, <1>6 DEF EndedIsWhole
<1>11. VerdictIsTheContents'
  BY <1>4, <1>5, <1>6 DEF VerdictIsTheContents
<1> QED
  BY <1>7, <1>8, <1>9, <1>10, <1>11 DEF InspectionInv

(* Equal times and sizes say that the whole content was read. *)
LEMMA ConcludeKeeps == InspectionInv /\ Conclude => InspectionInv'
<1> SUFFICES ASSUME InspectionInv, Conclude PROVE InspectionInv'
  OBVIOUS
<1>1. UNCHANGED <<file, mtime, chunkSize, opened, read, lead, pending, reader>>
  BY DEF Conclude
<1>2. phase' \in {"accepted", "inaccessible"} /\ (phase' = "accepted" => Unchanged)
  BY DEF Conclude
<1>3. WholeIsValid(read) /\ reader = WholeReader(read)
  BY DEF InspectionInv, EndedIsWhole, Conclude
<1>4. Unchanged => read = opened.content
  <2>1. file \in Seq(Bytes) /\ SubSeq(file, 1, Len(file)) = file
    BY SubSeqFull DEF InspectionInv, TypeOK
  <2> QED
    BY <2>1 DEF InspectionInv, ReadIsBeginning, Unchanged
<1>5. TypeOK'
  BY <1>1, <1>2 DEF InspectionInv, TypeOK, Phases
<1>6. ReadIsBeginning'
  BY <1>1, <1>2 DEF InspectionInv, ReadIsBeginning
<1>7. ReadAsOneChunk'
  BY <1>2 DEF ReadAsOneChunk
<1>8. EndedIsWhole'
  BY <1>1, <1>3 DEF EndedIsWhole
<1>9. VerdictIsTheContents' /\ DigestIsOneContent'
  BY <1>1, <1>2, <1>3, <1>4 DEF VerdictIsTheContents, DigestIsOneContent
<1> QED
  BY <1>5, <1>6, <1>7, <1>8, <1>9 DEF InspectionInv

LEMMA WriteKeeps == InspectionInv /\ Write => InspectionInv'
<1> SUFFICES ASSUME InspectionInv, Write PROVE InspectionInv'
  OBVIOUS
<1>1. /\ mtime = 0 /\ mtime' = 1 /\ phase \in {"resolving", "reading", "ended"}
      /\ UNCHANGED <<chunkSize, phase, opened, read, lead, pending, reader>>
  BY DEF Write
<1>2. file' \in Seq(Bytes)
  BY ContentsAssumption DEF InspectionInv, ReadIsBeginning, Write
<1>3. TypeOK'
  BY <1>1, <1>2 DEF InspectionInv, TypeOK
<1>4. ReadIsBeginning'
  <2>1. opened.mtime \in {0, 1} /\ opened.mtime <= 0
    BY <1>1 DEF InspectionInv, TypeOK, ReadIsBeginning
  <2>2. opened.mtime = 0
    BY <2>1
  <2> QED
    BY <1>1, <2>2 DEF InspectionInv, ReadIsBeginning
<1>5. ReadAsOneChunk' /\ EndedIsWhole'
  BY <1>1 DEF InspectionInv, ReadAsOneChunk, EndedIsWhole
<1>6. VerdictIsTheContents' /\ DigestIsOneContent'
  BY <1>1 DEF VerdictIsTheContents, DigestIsOneContent
<1> QED
  BY <1>3, <1>4, <1>5, <1>6 DEF InspectionInv

LEMMA StutterKeeps == InspectionInv /\ UNCHANGED vars => InspectionInv'
<1> SUFFICES ASSUME InspectionInv, UNCHANGED vars PROVE InspectionInv'
  OBVIOUS
<1> USE DEF InspectionInv, vars
<1>1. TypeOK' /\ ReadIsBeginning'
  BY DEF TypeOK, ReadIsBeginning
<1>2. ReadAsOneChunk' /\ EndedIsWhole'
  BY DEF ReadAsOneChunk, EndedIsWhole
<1>3. VerdictIsTheContents' /\ DigestIsOneContent'
  BY DEF VerdictIsTheContents, DigestIsOneContent
<1> QED
  BY <1>1, <1>2, <1>3

-----------------------------------------------------------------------------
(* Theorems *)

(* In every state of an inspection, decoder, line buffer and csv.reader    *)
(* keep what they would keep of the bytes read so far had these come in    *)
(* one chunk, and these bytes are the beginning of the file while its      *)
(* modification time stands.                                               *)
THEOREM Invariance == Spec => []InspectionInv
<1>1. InspectionInv /\ [Next]_vars => InspectionInv'
  BY OpenKeeps, FailKeeps, ReadChunkKeeps, EndOfFileKeeps, ConcludeKeeps, WriteKeeps,
     StutterKeeps DEF Next
<1> QED
  BY <1>1, InitInv, PTL DEF Spec

(* Whatever the chunk size, a file is accepted with the record count of    *)
(* its whole content and rejected only if its whole content is: no quote,  *)
(* line ending, encoded character or record is misread because a chunk     *)
(* ends inside it.                                                         *)
THEOREM ChunkingIsIrrelevant == Spec => []VerdictIsTheContents
<1>1. InspectionInv => VerdictIsTheContents
  BY DEF InspectionInv
<1> QED
  BY <1>1, Invariance, PTL

(* The digest, size and count of an accepted file are of one content, the  *)
(* one it had when it was opened, whatever was written to it meanwhile.    *)
THEOREM DigestOfOneContent == Spec => []DigestIsOneContent
<1>1. InspectionInv => DigestIsOneContent
  BY DEF InspectionInv
<1> QED
  BY <1>1, Invariance, PTL
================================================================================

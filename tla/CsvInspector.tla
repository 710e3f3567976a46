------------------------------ MODULE CsvInspector ------------------------------
(***************************************************************************)
(* LocalCsvArtifactInspector.inspect: one inspection of a file that is read *)
(* chunk by chunk, while another program may write to it.                  *)
(*                                                                         *)
(* The bytes of a chunk are digested, decoded, joined to the text that was *)
(* left over and cut into lines; csv.reader pulls the lines, a record may  *)
(* span several of them and a line, a quote, a line ending or an encoded   *)
(* character may span several chunks.                                      *)
(*                                                                         *)
(* Bytes are named: a letter x, the delimiter, the quote q, the line feed  *)
(* n, the carriage return r, the lead byte L and the continuation byte C   *)
(* of an encoded letter u.                                                 *)
(***************************************************************************)
EXTENDS Naturals, SequencesExt

CONSTANTS
    Contents,    \* the contents the file may have when it is opened
    ChunkSizes,  \* the values of chunk_size
    Changes(_)   \* what a writer may make of a content

Bytes == {"x", ",", "q", "n", "r", "L", "C"}

(* The characters of decoded text. *)
Chars == {"x", ",", "q", "n", "r", "u"}

ASSUME ChunksAssumption == ChunkSizes \subseteq Nat \ {0}
ASSUME ContentsAssumption ==
    /\ Contents \subseteq Seq(Bytes)
    /\ \A content \in Contents : Changes(content) \subseteq Seq(Bytes)

VARIABLES
    file,       \* the content of the file
    mtime,      \* the number of writes to it: its modification time
    chunkSize,  \* the constructor's argument
    phase,      \* where the inspection stands, and how it ended
    opened,     \* initial_stat, and the content at that time
    read,       \* the bytes read, counted and digested
    lead,       \* the decoder keeps the lead byte of a character
    pending,    \* pending_text
    reader      \* the state of csv.reader and of the loop over its rows

vars == <<file, mtime, chunkSize, phase, opened, read, lead, pending, reader>>

-----------------------------------------------------------------------------
(* The incremental decoder: bytes to text, keeping an unfinished character. *)

DecodeByte(d, byte) ==
    CASE d.bad -> d
      [] ~d.bad /\ d.lead # (byte = "C") -> [d EXCEPT !.bad = TRUE]
      [] OTHER -> [d EXCEPT !.lead = (byte = "L"),
                            !.text = CASE byte = "L" -> @
                                       [] byte = "C" -> Append(@, "u")
                                       [] OTHER -> Append(@, byte)]

Decoder == INSTANCE Scan WITH Step <- DecodeByte

Decode(isLead, bytes) ==
    Decoder!From([bad |-> FALSE, lead |-> isLead, text |-> <<>>], bytes)

-----------------------------------------------------------------------------
(* csv.reader in strict mode, character by character; "eol" is the end of   *)
(* a line it was given.                                                    *)

LineEnds == {"n", "r", "eol"}

FieldEnds == LineEnds \cup {","}

AtLineEnd(c) == IF c = "eol" THEN "start_record" ELSE "eat_crnl"

AddTo(r, c, next) == [r EXCEPT !.field = Append(@, c), !.state = next]

(* A delimiter or the end of the line ends the field. *)
SaveField(r, c) ==
    [r EXCEPT !.row = Append(@, r.field), !.field = <<>>,
              !.state = IF c = "," THEN "start_field" ELSE AtLineEnd(c)]

ParseChar(r, c) ==
    CASE r.state \in {"start_record", "eat_crnl"} /\ c \in LineEnds ->
             [r EXCEPT !.state = AtLineEnd(c)]
      [] r.state = "eat_crnl" /\ c \notin LineEnds -> [r EXCEPT !.bad = TRUE]
      [] \/ r.state = "start_record" /\ c \notin LineEnds
         \/ r.state \in {"start_field", "in_field"} ->
             IF c \in FieldEnds THEN SaveField(r, c)
             ELSE IF c = "q" /\ r.state # "in_field" THEN [r EXCEPT !.state = "quoted"]
             ELSE AddTo(r, c, "in_field")
      [] r.state = "quoted" ->
             IF c = "eol" THEN r
             ELSE IF c = "q" THEN [r EXCEPT !.state = "quote_in_quoted"]
             ELSE AddTo(r, c, "quoted")
      [] r.state = "quote_in_quoted" ->
             IF c \in FieldEnds THEN SaveField(r, c)
             ELSE IF c = "q" THEN AddTo(r, c, "quoted")
             ELSE [r EXCEPT !.bad = TRUE]

-----------------------------------------------------------------------------
(* The loop over the rows *)

(* str.strip() *)
Strip(field) ==
    LET kept == {i \in DOMAIN field : field[i] \notin {"n", "r"}}
    IN  IF kept = {} THEN <<>> ELSE SubSeq(field, Min(kept), Max(kept))

HeaderIsValid(row) ==
    LET names == [i \in DOMAIN row |-> Strip(row[i])]
    IN  row # <<>> /\ IsInjective(names) /\ <<>> \notin Range(names)

(* The first row is the header; a row of blank values is skipped, any other *)
(* one has as many columns as the header.                                  *)
TakeRow(r) ==
    LET done == [r EXCEPT !.row = <<>>] IN
    IF r.columns = 0 THEN
        [done EXCEPT !.columns = Len(r.row), !.bad = ~HeaderIsValid(r.row)]
    ELSE IF \A i \in DOMAIN r.row : Strip(r.row[i]) = <<>> THEN done
    ELSE [done EXCEPT !.bad = Len(r.row) # r.columns,
                      !.count = @ + 1]

ReadChar(r, c) ==
    IF r.bad THEN r
    ELSE LET s == ParseChar(r, c)
         IN  IF ~s.bad /\ c = "eol" /\ s.state = "start_record" THEN TakeRow(s) ELSE s

(* A line feed ends a line, which the reader is then through with. *)
ReadUnit(r, c) ==
    IF c = "n" THEN ReadChar(ReadChar(r, c), "eol") ELSE ReadChar(r, c)

Reader == INSTANCE Scan WITH Step <- ReadUnit

PullLines(r, text) == Reader!From(r, text)

(* A last line without a line feed. *)
PullLastLine(r, text) ==
    IF text = <<>> THEN r ELSE ReadChar(Reader!From(r, text), "eol")

InitReader ==
    [state |-> "start_record", field |-> <<>>, row |-> <<>>,
     columns |-> 0, count |-> 0, bad |-> FALSE]

(* The lines are over inside a quoted field, or before a header. *)
EndsEarly(r) == r.state = "quoted" \/ r.columns = 0

-----------------------------------------------------------------------------

Init ==
    /\ file \in Contents
    /\ mtime = 0
    /\ chunkSize \in ChunkSizes
    /\ phase = "resolving"
    /\ opened = [content |-> file, mtime |-> 0]
    /\ read = <<>>
    /\ lead = FALSE
    /\ pending = <<>>
    /\ reader = InitReader

(* The file is open and its status read. *)
Open ==
    /\ phase = "resolving"
    /\ phase' = "reading"
    /\ opened' = [content |-> file, mtime |-> mtime]
    /\ UNCHANGED <<file, mtime, chunkSize, read, lead, pending, reader>>

(* The URI, the path or the file is refused, or the system fails. *)
Fail ==
    /\ phase \in {"resolving", "reading", "ended"}
    /\ phase' = "inaccessible"
    /\ UNCHANGED <<file, mtime, chunkSize, opened, read, lead, pending, reader>>

Chunk == SubSeq(file, Len(read) + 1, Min({Len(read) + chunkSize, Len(file)}))

(* Mutant: every chunk is decoded by itself. *)
DecodedAlone == Decode(FALSE, Chunk)

Decoded == Decode(lead, Chunk)

(* Mutant: a chunk's text takes the place of what was left over. *)
BufferedAlone == Decoded.text

Buffered == pending \o Decoded.text

(* The buffered text up to its last line feed. *)
LinesIn(text) == SubSeq(text, 1, SelectLastInSeq(text, LAMBDA c : c = "n"))

Rest(text) == SubSeq(text, Len(LinesIn(text)) + 1, Len(text))

(* A chunk is decoded and the reader has taken its complete lines. *)
ReadChunk ==
    /\ phase = "reading"
    /\ Chunk # <<>>
    /\ read' = read \o Chunk
    /\ lead' = Decoded.lead
    /\ pending' = Rest(Buffered)
    /\ reader' = PullLines(reader, LinesIn(Buffered))
    /\ phase' = IF Decoded.bad \/ reader'.bad THEN "rejected" ELSE "reading"
    /\ UNCHANGED <<file, mtime, chunkSize, opened>>

(* Nothing is left to read: the rest of the text is the last line. *)
EndOfFile ==
    /\ phase = "reading"
    /\ Chunk = <<>>
    /\ reader' = PullLastLine(reader, pending)
    /\ phase' = IF lead \/ reader'.bad \/ EndsEarly(reader') THEN "rejected" ELSE "ended"
    /\ UNCHANGED <<file, mtime, chunkSize, opened, read, lead, pending>>

(* Mutant: only the sizes are compared. *)
SameSize == Len(file) = Len(opened.content) /\ Len(read) = Len(file)

(* final_stat against initial_stat and the bytes counted. *)
Unchanged ==
    /\ mtime = opened.mtime
    /\ Len(file) = Len(opened.content)
    /\ Len(read) = Len(file)

Conclude ==
    /\ phase = "ended"
    /\ phase' = IF Unchanged THEN "accepted" ELSE "inaccessible"
    /\ UNCHANGED <<file, mtime, chunkSize, opened, read, lead, pending, reader>>

(* Another program writes to the file, once: bound. *)
Write ==
    /\ phase \in {"resolving", "reading", "ended"}
    /\ mtime = 0
    /\ file' \in Changes(file)
    /\ mtime' = 1
    /\ UNCHANGED <<chunkSize, phase, opened, read, lead, pending, reader>>

Next == Open \/ Fail \/ ReadChunk \/ EndOfFile \/ Conclude \/ Write

Spec == Init /\ [][Next]_vars

-----------------------------------------------------------------------------
(* Properties *)

(* The whole content at once: decoded, cut into lines and read. *)
WholeReader(content) ==
    LET text == Decode(FALSE, content).text
    IN  PullLastLine(PullLines(InitReader, LinesIn(text)), Rest(text))

WholeIsValid(content) ==
    LET d == Decode(FALSE, content)
    IN  /\ ~d.bad /\ ~d.lead
        /\ ~WholeReader(content).bad /\ ~EndsEarly(WholeReader(content))

(* What is said of a file does not depend on where its chunks end: it is    *)
(* accepted with the number of records of its whole content, and rejected  *)
(* only if the whole content is, unless it changed.                        *)
VerdictIsTheContents ==
    /\ phase = "accepted" =>
           /\ WholeIsValid(opened.content)
           /\ reader.count = WholeReader(opened.content).count
    /\ phase = "rejected" /\ mtime = opened.mtime => ~WholeIsValid(opened.content)

(* The digest, the size and the count that are returned belong to one      *)
(* content, which the file had from its opening to the last look at it:    *)
(* no mixture of two.                                                      *)
DigestIsOneContent == phase = "accepted" => read = opened.content

Phases == {"resolving", "reading", "ended", "accepted", "rejected", "inaccessible"}

ReaderStates ==
    [state : {"start_record", "start_field", "in_field", "quoted",
              "quote_in_quoted", "eat_crnl"},
     field : Seq(Chars), row : Seq(Seq(Chars)),
     columns : Nat, count : Nat, bad : BOOLEAN]

TypeOK ==
    /\ file \in Seq(Bytes)
    /\ mtime \in {0, 1}
    /\ chunkSize \in ChunkSizes
    /\ phase \in Phases
    /\ opened \in [content : Seq(Bytes), mtime : {0, 1}]
    /\ read \in Seq(Bytes)
    /\ lead \in BOOLEAN
    /\ pending \in Seq(Chars)
    /\ reader \in ReaderStates

(* While the file keeps the modification time it had when it was opened, it *)
(* keeps its content, and what was read of it is its beginning.            *)
ReadIsBeginning ==
    /\ mtime = 0 => file \in Contents
    /\ opened.mtime <= mtime
    /\ phase = "resolving" => read = <<>>
    /\ mtime = opened.mtime =>
           /\ file = opened.content
           /\ Len(read) <= Len(file)
           /\ read = SubSeq(file, 1, Len(read))

(* What decoder, line buffer and reader keep is what they would keep of the *)
(* bytes read so far if these had come in one chunk.                       *)
ReadAsOneChunk ==
    LET d == Decode(FALSE, read) IN
    phase \in {"resolving", "reading"} =>
        /\ ~d.bad
        /\ lead = d.lead
        /\ pending = Rest(d.text)
        /\ reader = PullLines(InitReader, LinesIn(d.text))
        /\ ~reader.bad

EndedIsWhole ==
    phase \in {"ended", "accepted"} =>
        WholeIsValid(read) /\ reader = WholeReader(read)

(* The inductive invariant. *)
InspectionInv ==
    /\ TypeOK
    /\ ReadIsBeginning
    /\ ReadAsOneChunk
    /\ EndedIsWhole
    /\ VerdictIsTheContents
    /\ DigestIsOneContent
================================================================================

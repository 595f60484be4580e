----------------------------- MODULE AnswerDelivery -----------------------------
(* send_rich: the text of an answer, split into messages that fit Telegram's *)
(* limit and sent one by one, with the fallback to plain text that splits    *)
(* what is left once more; then the files its tags name.                     *)
(*                                                                           *)
(* A text is a sequence of paragraphs, a paragraph of lines, a line of       *)
(* source characters: what the text says has its place, <<paragraph, line,   *)
(* column>>, what the HTML adds has a mark in place of the column.  A tag and*)
(* an escape ("&lt;") are two source characters here, the least that can be  *)
(* cut in two: Mark and End, a column and Rest.  TelegramDelivery has the    *)
(* sending of an answer in chunks; this module has what is in them.          *)
(*                                                                           *)
(* A definition that no other one uses is a fault the code could have had in *)
(* place of the definition after it (PROJECT.json, mutants).                 *)
EXTENDS Integers, SequencesExt

CONSTANTS
    Limit,      \* TELEGRAM_MSG_LIMIT
    Answers     \* [text, files]: a text and what becomes of each tagged path

Mark == 0       \* a tag, or what there is of it before its End
End == -1       \* the rest of a tag
Rest == -2      \* the rest of an escaped character, after its column
Torn == -3      \* what is left of an escape on either side of a cut
Open == -4      \* a tag that a cut parted from its End

Marks == {Mark, End, Rest, Torn, Open}
Place == Nat \X Nat \X (Nat \union Marks)
Texts == Seq(Seq(Seq(Place)))
FileKind == {"media", "document", "blocked", "missing"}

Visible(char) == char[3] \notin Marks

(* The characters of a text name the places they have in it.  Tags may stand*)
(* anywhere in a line; nothing is cut yet.                                   *)
InPlace(text) == \A p \in DOMAIN text : \A l \in DOMAIN text[p] :
    \A k \in DOMAIN text[p][l] :
        LET line == text[p][l]
            c == line[k]
        IN /\ c[1] = p /\ c[2] = l /\ c[3] \notin {Torn, Open}
           /\ Visible(c) => \A j \in 1 .. k - 1 : line[j][3] < c[3]
           /\ c[3] = End => k > 1 /\ line[k - 1][3] = Mark
           /\ c[3] = Rest => k > 1 /\ Visible(line[k - 1])

ASSUME AnswersAssumption ==
    /\ Limit \in Nat \ {0}
    /\ \A a \in Answers : a.text \in Texts /\ InPlace(a.text) /\ a.files \in Seq(FileKind)

-----------------------------------------------------------------------------
(* split_html_message.                                                       *)

Chars(text) == FlattenSeq(FlattenSeq(text))

(* A separator between lines takes one place, one between paragraphs two.    *)
ParaLen(para) == Len(FlattenSeq(para)) + Len(para) - 1
TextLen(text) == Len(Chars(text)) + Len(FlattenSeq(text)) + Len(text) - 2
LineLens(para) == [l \in DOMAIN para |-> Len(para[l])]
ParaLens(text) == [p \in DOMAIN text |-> ParaLen(text[p])]

(* The length of the candidate: the current text, if any, and a part.        *)
Bare(length, size, gap) == length + size
Joined(length, size, gap) == IF length > 0 THEN length + gap + size ELSE size

(* Parts are joined as long as they fit together; those too long for any     *)
(* chunk are set aside.  A current text that is empty is dropped.            *)
Empty == [chunks |-> << >>, current |-> << >>, length |-> 0, oversized |-> << >>]
Closed(acc) == IF acc.length > 0 THEN Append(acc.chunks, acc.current) ELSE acc.chunks

NotClosed(acc, part) ==
    [chunks |-> acc.chunks, current |-> << >>, length |-> 0,
     oversized |-> Append(acc.oversized, part)]
SetAside(acc, part) ==
    [chunks |-> Closed(acc), current |-> << >>, length |-> 0,
     oversized |-> Append(acc.oversized, part)]

Put(acc, part, size, gap) ==
    LET candidate == Joined(acc.length, size, gap)
    IN IF candidate <= Limit
         THEN [chunks |-> acc.chunks, length |-> candidate, oversized |-> acc.oversized,
               current |-> IF acc.length > 0 THEN Append(acc.current, part) ELSE <<part>>]
       ELSE IF size <= Limit
         THEN [chunks |-> Closed(acc), length |-> size, oversized |-> acc.oversized,
               current |-> <<part>>]
       ELSE SetAside(acc, part)

PutAll(parts, sizes, gap) ==
    LET PutNext(acc, i) == Put(acc, parts[i], sizes[i], gap)
    IN FoldLeftDomain(PutNext, Empty, parts)

Accumulate(parts, sizes, gap) ==
    LET all == PutAll(parts, sizes, gap)
    IN [chunks |-> Closed(all), oversized |-> all.oversized]

HardSplit(line) ==
    [i \in 1 .. (Len(line) + Limit - 1) \div Limit |->
        << <<SubSeq(line, Limit * (i - 1) + 1, IF Limit * i < Len(line) THEN Limit * i ELSE Len(line))>> >>]

HugeFirst(para) ==
    LET byLine == Accumulate(para, LineLens(para), 1)
    IN FlattenSeq([i \in DOMAIN byLine.oversized |-> HardSplit(byLine.oversized[i])])
         \o [i \in DOMAIN byLine.chunks |-> <<byLine.chunks[i]>>]
SplitParagraph(para) ==
    LET byLine == Accumulate(para, LineLens(para), 1)
    IN [i \in DOMAIN byLine.chunks |-> <<byLine.chunks[i]>>]
         \o FlattenSeq([i \in DOMAIN byLine.oversized |-> HardSplit(byLine.oversized[i])])

Split(text) ==
    IF TextLen(text) <= Limit THEN <<text>>
    ELSE LET byParagraph == Accumulate(text, ParaLens(text), 2)
         IN byParagraph.chunks
              \o FlattenSeq([i \in DOMAIN byParagraph.oversized |->
                               SplitParagraph(byParagraph.oversized[i])])

(* A hard split counts source characters: it cuts a line that no message     *)
(* holds after every Limit of them, within an escape or a tag too.  What it  *)
(* will leave of those is marked in the HTML before it is split.             *)
Parted(line, k, mark) ==
    k % Limit = 0 /\ k \in 1 .. Len(line) - 1 /\ line[k + 1][3] = mark
CutChar(line, k) ==
    LET c == line[k]
    IN IF Parted(line, k, Rest) \/ Parted(line, k - 1, Rest) THEN <<c[1], c[2], Torn>>
       ELSE IF Parted(line, k, End) THEN <<c[1], c[2], Open>>
       ELSE c
CutLine(line) == [k \in DOMAIN line |-> CutChar(line, k)]
Cut(text) == [p \in DOMAIN text |-> [l \in DOMAIN text[p] |-> CutLine(text[p][l])]]

-----------------------------------------------------------------------------
VARIABLES
    answer,
    at,         \* where send_rich is
    left,       \* chunks still to be sent
    messages,   \* the text messages to be seen in the chat
    delivered,  \* what send_rich will return
    next,       \* the tag whose turn it is
    uploads,    \* the tags whose files are to be seen in the chat
    told,       \* the tags the chat got a notice about
    unanswered  \* history: the tags whose upload the network lost

textVars == <<left, messages, delivered>>
fileVars == <<next, uploads, told, unanswered>>
richVars == <<answer, at, textVars, fileVars>>

Stripped(chars, marks) ==
    FlattenSeq([k \in DOMAIN chars |-> IF chars[k][3] \in marks THEN << >> ELSE <<chars[k]>>])
Unmarked(chars) == Stripped(chars, Marks)

(* The chunks are joined again and their tags removed, those that were cut   *)
(* with the separator that has come between: what they parted, a line each,  *)
(* is one line.  Escapes are undone but for those that were cut.             *)
EndsOpen(para) ==
    para # << >> /\ Last(para) # << >> /\ Last(Last(para))[3] = Open
Joint(para, more) == << FlattenSeq(para) \o FlattenSeq(more) >>
Mend(text, paras, i) ==
    IF i > 1 /\ EndsOpen(text[i - 1])
      THEN Append(Front(paras), Joint(Last(paras), text[i]))
      ELSE Append(paras, text[i])
Mended(text) ==
    LET MendNext(paras, i) == Mend(text, paras, i)
    IN FoldLeftDomain(MendNext, << >>, text)

PlainLine(line) == Stripped(line, Marks \ {Torn})
Untagged(text) == [p \in DOMAIN text |-> [l \in DOMAIN text[p] |-> PlainLine(text[p][l])]]
Plain(text) == Untagged(Mended(text))

(* An answer that is nothing but tags has no text to send.                   *)
AlwaysText(chunks) == "html"
Start(chunks) == IF chunks = << >> THEN "file" ELSE "html"

RichInit ==
    /\ answer \in Answers
    /\ left = IF answer.text = << >> THEN << >> ELSE Split(Cut(answer.text))
    /\ at = Start(left)
    /\ messages = << >>
    /\ delivered = TRUE
    /\ next = 1
    /\ uploads = << >>
    /\ told = {}
    /\ unanswered = {}

(* _send_text_chunks.  Telegram takes no message without a text, and no HTML *)
(* with a tag that is cut off.                                               *)
ChunkAppears ==
    /\ TextLen(Head(left)) > 0
    /\ \A c \in Range(Chars(Head(left))) : c[3] # Open
    /\ messages' = Append(messages, Head(left))
ChunkMayAppear == UNCHANGED messages \/ ChunkAppears

ChunkSent ==
    /\ at \in {"html", "plain"}
    /\ ChunkAppears
    /\ left' = Tail(left)
    /\ at' = IF Tail(left) = << >> THEN "file" ELSE at
    /\ UNCHANGED <<answer, delivered, fileVars>>

(* TelegramBadRequest.                                                       *)
ChunkRefused ==
    /\ at = "html"
    /\ left' = Split(Plain(FlattenSeq(left)))
    /\ at' = IF left' = << >> THEN "file" ELSE "plain"
    /\ UNCHANGED <<answer, messages, delivered, fileVars>>

(* TelegramNetworkError: the chunk may have arrived.                         *)
ChunkCut ==
    /\ at = "html"
    /\ ChunkMayAppear
    /\ delivered' = FALSE
    /\ at' = "file"
    /\ UNCHANGED <<answer, left, fileVars>>

(* Any other error, and every error of a plain chunk.                        *)
ChunkRaises ==
    /\ at \in {"html", "plain"}
    /\ ChunkMayAppear
    /\ at' = "raised"
    /\ UNCHANGED <<answer, left, delivered, fileVars>>

-----------------------------------------------------------------------------
(* send_file.                                                                *)

Pending == at = "file" /\ next <= Len(answer.files)
Kind == answer.files[next]
NextFile == at' = "file" /\ next' = next + 1
FileAppears == uploads' = Append(uploads, next)
FileMayAppear == uploads' \in {uploads, Append(uploads, next)}

Return ==
    /\ at = "file"
    /\ next > Len(answer.files)
    /\ at' = "returned"
    /\ UNCHANGED <<answer, textVars, fileVars>>

NotSent ==
    /\ Pending
    /\ Kind \in {"blocked", "missing"}
    /\ at' = "notice"
    /\ UNCHANGED <<answer, textVars, fileVars>>

(* Awaiting the upload: by its mode, or as a document after a refusal.       *)
Uploading == at = "again" \/ (Pending /\ Kind \in {"media", "document"})

Uploaded ==
    /\ Uploading
    /\ FileAppears
    /\ NextFile
    /\ UNCHANGED <<answer, textVars, told, unanswered>>

RefusedSkipped ==
    /\ Uploading
    /\ IF at = "file" /\ Kind = "media"
         THEN at' = "again" /\ UNCHANGED next
         ELSE NextFile
    /\ UNCHANGED <<answer, textVars, uploads, told, unanswered>>
Refused ==
    /\ Uploading
    /\ at' = IF at = "file" /\ Kind = "media" THEN "again" ELSE "notice"
    /\ UNCHANGED <<answer, textVars, fileVars>>

(* An OSError: the file cannot be read (any more).                           *)
Unreadable ==
    /\ Uploading
    /\ at' = "notice"
    /\ UNCHANGED <<answer, textVars, fileVars>>

UploadLostTriedAgain ==
    /\ Uploading
    /\ FileMayAppear
    /\ IF at = "file" /\ Kind = "media"
         THEN at' = "again" /\ UNCHANGED <<next, unanswered>>
         ELSE NextFile /\ unanswered' = unanswered \union {next}
    /\ UNCHANGED <<answer, textVars, told>>
UploadLost ==
    /\ Uploading
    /\ FileMayAppear
    /\ unanswered' = unanswered \union {next}
    /\ NextFile
    /\ UNCHANGED <<answer, textVars, told>>

(* Flood control, a server error.                                            *)
UploadRaises ==
    /\ Uploading
    /\ FileMayAppear
    /\ at' = "raised"
    /\ UNCHANGED <<answer, textVars, next, told, unanswered>>

NoticeSent ==
    /\ at = "notice"
    /\ told' = told \union {next}
    /\ NextFile
    /\ UNCHANGED <<answer, textVars, uploads, unanswered>>

NoticeRaises ==
    /\ at = "notice"
    /\ told' \in {told, told \union {next}}
    /\ at' = "raised"
    /\ UNCHANGED <<answer, textVars, next, uploads, unanswered>>

Text == ChunkSent \/ ChunkRefused \/ ChunkCut \/ ChunkRaises
File == \/ NotSent \/ Uploaded \/ Refused \/ Unreadable \/ UploadLost \/ UploadRaises
        \/ NoticeSent \/ NoticeRaises \/ Return
RichNext == Text \/ File

RichSpec == RichInit /\ [][RichNext]_richVars

-----------------------------------------------------------------------------
(* Properties.                                                               *)

(* The characters the chat shows, and those it should, in order.             *)
Shown == Unmarked(Chars(FlattenSeq(messages)))
Meant == Unmarked(Chars(answer.text))

(* Type correctness.                                                         *)
RichTypeOK ==
    /\ answer \in Answers
    /\ at \in {"html", "plain", "file", "again", "notice", "returned", "raised"}
    /\ at \in {"html", "plain"} => left # << >>
    /\ delivered \in BOOLEAN
    /\ next \in 1 .. Len(answer.files) + 1
    /\ Range(uploads) \union told \union unanswered \subseteq DOMAIN answer.files

(* "chunks that fit Telegram's limit": every message fits and has a text,    *)
(* with the separators, after a hard split and after the second split.       *)
MessagesFit == \A i \in DOMAIN messages : TextLen(messages[i]) \in 1 .. Limit

(* A line no message holds, and whether it is cut within an escape or a tag. *)
LineOf(c) == answer.text[c[1]][c[2]]
Oversized(c) == ParaLen(answer.text[c[1]]) > Limit
Huge(c) == Len(LineOf(c)) > Limit
CutIn(c, mark) == Huge(c) /\ \E k \in DOMAIN LineOf(c) : Parted(LineOf(c), k, mark)
TornApart(c) == Huge(c) /\ \E k \in DOMAIN LineOf(c) :
                         LineOf(c)[k] = c /\ Parted(LineOf(c), k, Rest)

(* "avoid duplicating content that was already delivered": no character is   *)
(* shown twice.  Once no chunk is left, the only ones missing are those whose*)
(* escape was cut, and their two halves are all that is shown beside the     *)
(* text.                                                                     *)
TextOnce ==
    /\ IsInjective(Shown)
    /\ Range(Shown) \subseteq Range(Meant)
    /\ left = << >> => \A c \in Range(Meant) \ Range(Shown) : TornApart(c)
    /\ \A c \in Range(Chars(FlattenSeq(messages))) : c[3] = Torn => CutIn(c, Rest)

(* A part of the text changes places with a later one only when it is an     *)
(* oversized paragraph and the other is not, or such a line in a paragraph,  *)
(* or when a tag was cut: what it parted is one oversized line of the plain  *)
(* text.                                                                     *)
Before(c, d) == \/ c[1] < d[1]
                \/ c[1] = d[1] /\ c[2] < d[2]
                \/ c[1] = d[1] /\ c[2] = d[2] /\ c[3] < d[3]
OnlyOversizedMove == \A j \in DOMAIN Shown : \A i \in 1 .. j - 1 :
    LET c == Shown[i]
        d == Shown[j]
    IN Before(d, c) => \/ Oversized(d) /\ ~Oversized(c)
                       \/ d[1] = c[1] /\ Huge(d) /\ ~Huge(c)
                       \/ CutIn(d, End)

(* The text arrives whole, and but for what is oversized in its order; only  *)
(* a line that is longer than a message loses a character.                   *)
TextWhole == RichTypeOK /\ TextOnce /\ OnlyOversizedMove

(* Each file is shown at most once, in the order of the tags, also when it   *)
(* is sent a second time as a document.                                      *)
FilesOnce == \A i, j \in DOMAIN uploads : i < j => uploads[i] < uploads[j]

(* "in-project files send while out-of-project files are rejected": when     *)
(* send_rich returns, every tag is either shown as a file or told, and only  *)
(* shown when it may be; what the network lost excepted.                     *)
FilesAccounted ==
    /\ \A i \in Range(uploads) : answer.files[i] \in {"media", "document"}
    /\ at = "returned" => \A i \in DOMAIN answer.files \ unanswered :
                             (i \in Range(uploads)) # (i \in told)

(* No file is lost, none is shown twice.                                     *)
FilesShownOrTold == FilesOnce /\ FilesAccounted

-----------------------------------------------------------------------------
(* What the documents promise and the code does not keep.                    *)

(* "delivers the final answer once": the messages read in order are the      *)
(* answer.                                                                   *)
AnswerInItsOrder == \A j \in DOMAIN Shown : \A i \in 1 .. j - 1 : ~Before(Shown[j], Shown[i])

(* "File failures do not affect the return value": once the text is sent,    *)
(* send_rich returns.                                                        *)
FileFailuresContained == at = "raised" => left # << >>
=============================================================================

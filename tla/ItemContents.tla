---------------------------- MODULE ItemContents ----------------------------
(***************************************************************************)
(* The bytes behind a leaf that is not dedup content: files read by a      *)
(* blocking parser or straight from the store and artifacts assembled in   *)
(* memory (sdk/units/content: disk_fs/_content_source, local_file,         *)
(* saas_artifact), the message bodies of Teams and Chat transcripts        *)
(* (saas_teams_html_sanitizer) and calendar events (saas_calendar).        *)
(***************************************************************************)
EXTENDS Integers, Sequences, FiniteSets, SequencesExt

-----------------------------------------------------------------------------
(* Content sources.  s.data is what the backing file, parser or build      *)
(* callback holds, s.size what was declared, s.block the stream block.     *)
Refused == [ok |-> FALSE, err |-> "range"]
Corrupt == [ok |-> FALSE, err |-> "corrupt"]
Got(data) == [ok |-> TRUE, data |-> data]
Smaller(a, b) == IF a < b THEN a ELSE b
Larger(a, b) == IF a > b THEN a ELSE b
Slice(data, offset, n) == SubSeq(data, offset + 1, Smaller(offset + n, Len(data)))
InRange(a, b, size) == 0 <= a /\ a <= b /\ b <= size

BlockingReadUnchecked(s, offset, length) == Got(Slice(s.data, offset, Larger(0, Smaller(length, s.size - offset))))

\* A short read at the declared end is damage; inside the file it returns what is there.
BlockingRead(s, offset, length) ==
    LET n == Larger(0, Smaller(length, s.size - offset))
        got == Slice(s.data, offset, n)
    IN CASE offset < 0 \/ length < 0 -> Refused
         [] n > 0 /\ Len(got) < n /\ offset + n >= s.size -> Corrupt
         [] OTHER -> Got(IF n <= 0 THEN <<>> ELSE got)
StoreRead(s, offset, length) == IF offset < 0 \/ length < 0 THEN Refused ELSE Got(Slice(s.data, offset, length))
ArtifactRead(s, offset, length) == IF offset < 0 \/ length < 0 THEN Refused ELSE Got(Slice(s.data, offset, length))

\* The blocks of a range: offset from its start, and length.
Blocks(s, a, b) == [i \in 1..((b - a + s.block - 1) \div s.block) |-> <<(i - 1) * s.block, Smaller(s.block, b - a - (i - 1) * s.block)>>]
WriteAt(out, offset, data) == [i \in DOMAIN out |-> IF i > offset /\ i <= offset + Len(data) THEN data[i - offset] ELSE out[i]]
\* Copying block by block: the offset advances by what was asked for, the counts by what came.
CopyRange(s, a, b, Read(_, _, _)) ==
    LET Step(acc, blk) ==
            LET r == Read(s, a + blk[1], blk[2])
            IN CASE ~acc.ok -> acc
                 [] acc.ok /\ ~r.ok -> [acc EXCEPT !.ok = FALSE, !.err = r.err]
                 [] OTHER -> [acc EXCEPT !.out = WriteAt(@, blk[1], r.data), !.written = @ + Len(r.data), !.progress = Append(@, Len(r.data))]
    IN FoldLeft(Step, [ok |-> TRUE, err |-> "", out |-> [i \in 1..b - a |-> 0], written |-> 0, progress |-> <<>>], Blocks(s, a, b))
Failed(err) == [ok |-> FALSE, err |-> err, out |-> <<>>, written |-> 0, progress |-> <<>>]
BlockingExport(s, a, b) == IF ~InRange(a, b, s.size) THEN Failed("range") ELSE CopyRange(s, a, b, BlockingRead)
StoreExport(s, a, b) ==
    LET r == CopyRange(s, a, b, StoreRead)
    IN CASE ~InRange(a, b, s.size) -> Failed("range")
         [] InRange(a, b, s.size) /\ r.ok /\ r.written < b - a -> [r EXCEPT !.ok = FALSE, !.err = "format"]
         [] OTHER -> r
\* The whole artifact is assembled first, so its size is the data's.
ArtifactExport(s, a, b) ==
    IF ~InRange(a, b, Len(s.data)) THEN Failed("range")
    ELSE [ok |-> TRUE, err |-> "", out |-> Slice(s.data, a, b - a), written |-> b - a, progress |-> <<b - a>>]
ArtifactStream(s) == [i \in DOMAIN Blocks(s, 0, Len(s.data)) |-> Slice(s.data, Blocks(s, 0, Len(s.data))[i][1], Blocks(s, 0, Len(s.data))[i][2])]
BlockingPlanned(s, a, b) == IF InRange(a, b, s.size) THEN b - a ELSE 0
StorePlanned(s, a, b) == IF InRange(a, b, s.size) THEN b - a ELSE 0
ArtifactPlanned(s, a, b) == IF InRange(a, b, Len(s.data)) THEN b - a ELSE 0
Total(counts) == FoldLeft(LAMBDA n, k : n + k, 0, counts)

\* A source of the declared size exports exactly the range asked for and reports what it planned; a
\* backing file that is too short is never exported to its end, nor an artifact in part.
SourcesExportTheirRange(s, a, b) ==
    /\ LET r == BlockingExport(s, a, b)
       IN /\ r.ok => Total(r.progress) = r.written
          /\ r.ok /\ (Len(s.data) >= s.size \/ b = s.size) => r.out = Slice(s.data, a, b - a) /\ r.written = BlockingPlanned(s, a, b)
          /\ InRange(a, b, s.size) /\ a < b /\ b = s.size /\ Len(s.data) < s.size => ~r.ok
    /\ LET r == StoreExport(s, a, b)
       IN r.ok => r.out = Slice(s.data, a, b - a) /\ r.written = b - a /\ Total(r.progress) = StorePlanned(s, a, b)
    /\ LET r == ArtifactExport(s, a, b)
       IN /\ r.ok => r.out = Slice(s.data, a, b - a) /\ Total(r.progress) = ArtifactPlanned(s, a, b)
          /\ FlattenSeq(ArtifactStream(s)) = s.data
\* Reading past the end returns what exists, never an error (ContentSource.read).
ReadsAreClamped(s, offset, length) ==
    Len(s.data) = s.size =>
       \A r \in {BlockingRead(s, offset, length), StoreRead(s, offset, length), ArtifactRead(s, offset, length)} :
          r = Got(Slice(s.data, offset, length))

-----------------------------------------------------------------------------
(* A message body, as the events of the HTML parser; what is emitted is    *)
(* text, or an element opened, closed or standing alone.                   *)
StructuralTags == {"div", "b", "span", "br"}     \* of _ALLOWED_STRUCTURAL_TAGS
VoidTags == {"br"}                               \* of _VOID_STRUCTURAL_TAGS
Emit(s, part) == [s EXCEPT !.parts = Append(@, part)]
Opened(s, tag, part) == [Emit(s, part) EXCEPT !.open = Append(@, tag)]
\* A sticker of this message is embedded when its cached bytes are plain base64.
HandleImg(s, e, stickers) ==
    IF e.src \in DOMAIN stickers /\ stickers[e.src] = "base64" THEN Emit(s, <<"single", "sticker">>)
    ELSE Emit(s, <<"single", IF e.alt = "" THEN "image" ELSE "escaped">>)
HandleEmoji(s, e) == IF e.alt = "" THEN s ELSE Emit(s, <<"text", "escaped">>)
HandleStartTag(s, e, stickers) ==
    CASE e.tag = "img" -> HandleImg(s, e, stickers)
      [] e.tag = "emoji" -> HandleEmoji(s, e)
      [] e.tag = "at" -> Opened(s, "at", <<"open", "mention">>)
      [] e.tag = "a" -> Opened(s, "a", <<"open", IF e.src = "http" THEN "link" ELSE "a">>)
      [] e.tag \in VoidTags -> Emit(s, <<"single", e.tag>>)
      [] e.tag \in StructuralTags \ VoidTags -> Opened(s, e.tag, <<"open", e.tag>>)
      [] OTHER -> s
HandleStartEndTag(s, e, stickers) ==
    CASE e.tag = "img" -> HandleImg(s, e, stickers)
      [] e.tag = "emoji" -> HandleEmoji(s, e)
      [] e.tag \in VoidTags -> Emit(s, <<"single", e.tag>>)
      [] OTHER -> s
HandleEndTag(s, tag) ==
    IF s.open = <<>> \/ Last(s.open) # tag THEN s
    ELSE [Emit(s, <<"close", IF tag = "at" THEN "span" ELSE tag>>) EXCEPT !.open = Front(@)]
CloseOpenTagsNone(s) == s

CloseOpenTags(s) == FoldLeft(HandleEndTag, s, Reverse(s.open))
HandleData(s, e) == IF e.tag = "blank" THEN s ELSE Emit(s, <<"text", e.tag>>)
RenderMessageBodyHtml(events, stickers) ==
    LET Step(s, e) == CASE e.kind = "start" -> HandleStartTag(s, e, stickers)
                        [] e.kind = "startend" -> HandleStartEndTag(s, e, stickers)
                        [] e.kind = "end" -> HandleEndTag(s, e.tag)
                        [] OTHER -> HandleData(s, e)
    IN CloseOpenTags(FoldLeft(Step, [parts |-> <<>>, open |-> <<>>], events)).parts

\* A body stays inside its message: whatever is missing, crossed or unknown in it, the elements it emits
\* are nested and closed, its text is kept in order, and it emits nothing that is not on the allowlist.
Element(part) == IF part[2] = "mention" THEN "span" ELSE IF part[2] = "link" THEN "a" ELSE part[2]
BodiesAreContained(events, stickers) ==
    LET parts == RenderMessageBodyHtml(events, stickers)
        Nest(stack, part) ==
            CASE stack = <<"broken">> -> stack
              [] part[1] = "open" -> Append(stack, Element(part))
              [] part[1] = "close" -> IF stack # <<>> /\ Last(stack) = Element(part) THEN Front(stack) ELSE <<"broken">>
              [] OTHER -> stack
        texts == SelectSeq(parts, LAMBDA p : p[1] = "text" /\ p[2] # "escaped")
        said == SelectSeq(events, LAMBDA e : e.kind = "data" /\ e.tag # "blank")
    IN /\ FoldLeft(Nest, <<>>, parts) = <<>>
       /\ [i \in DOMAIN texts |-> texts[i][2]] = [i \in DOMAIN said |-> said[i].tag]
       /\ \A p \in ToSet(parts) : p[1] = "open" => Element(p) \in (StructuralTags \ VoidTags) \union {"a"}

-----------------------------------------------------------------------------
(* Calendar events.  A time is a date, or a date and time with a zone.     *)
Absent == [kind |-> "absent"]
ParseWhen(w) ==
    CASE w.kind = "date" -> [kind |-> "date", day |-> w.day]
      [] w.kind = "dateTime" ->
            [kind |-> "datetime", day |-> w.day,
             zone |-> CASE w.offset # "" -> w.offset
                        [] w.offset = "" /\ w.zone \in {"", "UTC"} -> "UTC"
                        [] w.offset = "" /\ w.zone = "unknown" -> "floating"
                        [] OTHER -> w.zone]
      [] OTHER -> [kind |-> "unsupported"]
RecurrenceFreq == [daily |-> "DAILY", weekly |-> "WEEKLY", absoluteMonthly |-> "MONTHLY", relativeMonthly |-> "MONTHLY",
                   absoluteYearly |-> "YEARLY", relativeYearly |-> "YEARLY"]
RecurrenceIndex == [first |-> 1, last |-> -1]        \* of _M365_RECURRENCE_INDEX
Weekdays == {"monday", "friday"}                     \* of _M365_RECURRENCE_WEEKDAY
UntilDate(range, dtstart) == IF range.type = "endDate" /\ range.day # 0 THEN [kind |-> "date", day |-> range.day] ELSE Absent

Until(range, dtstart) ==
    IF range.type = "endDate" /\ range.day # 0
    THEN [kind |-> IF dtstart.kind = "datetime" THEN "datetime" ELSE "date", day |-> range.day] ELSE Absent
RecurrenceRrule(rec, dtstart) ==
    LET p == rec.pattern
        days == SelectSeq(p.days, LAMBDA d : d \in Weekdays)
        relative == p.type \in {"relativeMonthly", "relativeYearly"}
        ordinals == IF ~relative THEN {0} ELSE IF p.index \in DOMAIN RecurrenceIndex THEN {RecurrenceIndex[p.index]} ELSE {}
    IN IF p.type \notin DOMAIN RecurrenceFreq THEN Absent
       ELSE [kind |-> "rule", freq |-> RecurrenceFreq[p.type], interval |-> IF p.interval > 1 THEN p.interval ELSE 1,
             byDay |-> IF p.type = "weekly" \/ relative THEN {<<n, d>> : n \in ordinals, d \in ToSet(days)} ELSE {},
             byMonthDay |-> IF p.type \in {"absoluteMonthly", "absoluteYearly"} THEN p.dayOfMonth ELSE 0,
             byMonth |-> IF p.type \in {"absoluteYearly", "relativeYearly"} THEN p.month ELSE 0,
             until |-> Until(rec.range, dtstart),
             count |-> IF rec.range.type = "numbered" /\ rec.range.day > 0 THEN rec.range.day ELSE 0]
\* meta.recurrence: a Graph structure, or the rules a Google event spells out.  Summary, location and
\* organizer are text copied when present.
BuildIcs(meta, eventId) ==
    LET dtstart == IF meta.start = Absent THEN Absent ELSE ParseWhen(meta.start)
        dtend == IF meta.end = Absent THEN Absent ELSE ParseWhen(meta.end)
        uids == SelectSeq(<<meta.iCalUId, meta.iCalUID, meta.id, eventId>>, LAMBDA u : u # "")
    IN IF meta.rawXml \/ dtstart.kind = "unsupported" \/ dtend.kind = "unsupported" THEN [ok |-> FALSE]
       ELSE [ok |-> TRUE, uid |-> uids[1], dtstart |-> dtstart, dtend |-> dtend, recurrenceId |-> meta.originalStart,
             rules |-> CASE meta.recurrence.kind = "graph" -> {RecurrenceRrule(meta.recurrence, dtstart)} \ {Absent}
                         [] meta.recurrence.kind = "google" -> meta.recurrence.rules
                         [] OTHER -> {}]

\* An event keeps its identity and says when it ends in the terms it starts in: a rule's UNTIL is a date
\* exactly when DTSTART is (RFC 5545), no rule has both UNTIL and COUNT, a zoned time is never floating
\* and a moved occurrence names the one it replaces.
EventsAreSound(meta, eventId) ==
    LET e == BuildIcs(meta, eventId)
    IN e.ok =>
       /\ e.uid # "" /\ e.recurrenceId = meta.originalStart
       /\ meta.start # Absent /\ meta.start.kind = "dateTime" /\ meta.start.zone # "unknown" => e.dtstart.zone # "floating"
       /\ meta.recurrence.kind = "graph" => \A r \in e.rules :
            /\ r.until # Absent => r.until.kind = IF e.dtstart.kind = "datetime" THEN "datetime" ELSE "date"
            /\ r.until = Absent \/ r.count = 0
            /\ r.byDay # {} => r.byMonthDay = 0
=============================================================================

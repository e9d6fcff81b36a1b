-------------------------------- MODULE Rows --------------------------------
(***************************************************************************)
(* Records as rows of a database, and back.                                *)
(*                                                                         *)
(* Transition records, outbox entries, task types and notifications are    *)
(* bound to statements as values each dialect can store, and scanned from  *)
(* what each driver hands back: native values or text, and bytes that are  *)
(* good only until the next row is read.  Columns are known by position on *)
(* both sides.  Text is a sequence of characters, which are numbers, so    *)
(* that databases can order it.                                            *)
(***************************************************************************)
EXTENDS Naturals, Sequences, SequencesExt

CONSTANTS Backends,    \* the dialects considered
          Records,     \* the records of each table that are written
          MaxRows      \* bound: how many rows a table has

VARIABLES
    backend,  \* the dialect in use
    table,    \* the table followed
    stored,   \* its rows: what was recorded, and the values that were bound
    scan      \* the result set being read

rowVars == <<backend, table, stored, scan>>

(* Values ***************************************************************)

Null == [form |-> "null"]
Text(s) == [form |-> "text", text |-> s]
Integer(n) == [form |-> "int", int |-> n]
Time(t) == [form |-> "time", time |-> t]

\* Instants are counted in halves of a microsecond; a second has four.
NoTime == [at |-> 0, zone |-> 0]

NormalizeTime(t) == [at |-> t.at - (t.at % 2), zone |-> 0]

\* Characters of timestamps: what separates date and time, and the zone.
CharSpace == 0
CharT == 7
CharZ == 9

\* Fixed-width: every digit of the fraction is written.
Format(t) ==
    LET micros == (t.at \div 2) % 4 IN <<t.at \div 8, CharT, micros \div 2, micros % 2, CharZ>>

EncodeTime(t) ==
    IF t.at = 0 THEN Null
    ELSE IF backend = "sqlite" THEN Text(Format(NormalizeTime(t)))
    ELSE Time(NormalizeTime(t))

NullString(s) == IF s = << >> THEN Null ELSE Text(s)

EncodeRaw(payload) == NullString(payload)

\* JSON text of a value; 0 is the empty one.
Marshal(v) == <<5, v>>
Unmarshal(text) == text[2]

\* Nothing, and an empty map, are NULL.
EncodeValue(v) == IF v = 0 THEN Null ELSE Text(Marshal(v))

\* A structure has text even when it is empty.
EncodeStruct(v) == Text(Marshal(v))

EncodeSinks(v) == EncodeValue(v)

(* What drivers hand back ***********************************************)

TextForms == {"string", "bytes"}
IntForms == {"number", "text"}
TimeForms == CASE backend = "postgres" -> {"native"}
               [] backend = "mysql" -> {"native", "text"}
               [] backend = "sqlite" -> {"text"}

\* A driver's own text has the layout of the database: a space, and no zone.
DriverText(t) == <<t.at \div 8, CharSpace, ((t.at \div 2) % 4) \div 2, (t.at \div 2) % 2>>

\* Bytes are a slice of the buffer the next row will be read into.
Handed(value, forms, column) ==
    LET text(s) == IF forms.text = "bytes" THEN [form |-> "bytes", column |-> column, text |-> s]
                   ELSE Text(s) IN
    CASE value.form = "null" -> Null
      [] value.form = "text" -> text(value.text)
      [] value.form = "int" -> IF forms.int = "text" THEN text(<<value.int>>) ELSE value
      [] value.form = "time" -> IF forms.time = "text" THEN text(DriverText(value.time))
                                ELSE Time([value.time EXCEPT !.zone = forms.zone])

(* Reading values back **************************************************)

DecodeString(v) == IF v.form = "null" THEN << >> ELSE v.text

DecodeInt(v) ==
    CASE v.form = "null" -> 0
      [] v.form = "int" -> v.int
      [] v.form \in {"text", "bytes"} -> IF v.text = << >> THEN 0 ELSE v.text[1]

\* One of the layouts that are tried accepts it, with any digits of the fraction.
ParseTimestamp(text) ==
    LET digit(i) == IF i \in DOMAIN text /\ text[i] # CharZ THEN text[i] ELSE 0 IN
    IF text = << >> THEN NoTime
    ELSE NormalizeTime([at |-> 8 * text[1] + 4 * digit(3) + 2 * digit(4), zone |-> 0])

DecodeTime(v) ==
    CASE v.form = "null" -> NoTime
      [] v.form = "time" -> NormalizeTime(v.time)
      [] v.form \in {"text", "bytes"} -> ParseTimestamp(v.text)

\* Mutant: the bytes are the driver's own.
DecodeJSONAliased(v) ==
    IF v.form = "bytes" THEN [alias |-> TRUE, column |-> v.column]
    ELSE [alias |-> FALSE, text |-> DecodeString(v)]

\* Byte for byte, and copied.
DecodeJSON(v) == [alias |-> FALSE, text |-> DecodeString(v)]

\* Values are taken out of their JSON before the next row is read.
DecodeValue(v) == IF DecodeString(v) = << >> THEN 0 ELSE Unmarshal(DecodeString(v))

DecodeSinks(v) == DecodeValue(v)

(* The records of each table, by column *********************************)

HistoryArgs(r) ==
    <<Text(r.taskID), Integer(r.version), Text(r.operation), Text(r.from), Text(r.to),
      NullString(r.actor), NullString(r.comment), EncodeTime(r.at)>>

HistoryRecord(v) ==
    [taskID |-> DecodeString(v[1]), version |-> DecodeInt(v[2]), operation |-> DecodeString(v[3]),
     from |-> DecodeString(v[4]), to |-> DecodeString(v[5]), actor |-> DecodeString(v[6]),
     comment |-> DecodeString(v[7]), at |-> DecodeTime(v[8])]

\* Born due, with no attempt, no acceptance and no lease.
OutboxArgs(r) ==
    <<Text(r.id), Text(r.taskID), Text(r.taskType), Text(r.eventType), EncodeTime(r.occurredAt),
      Null, Text(Marshal(r.event)), Integer(0), EncodeTime(r.occurredAt), Null, Null, Null, Null>>

\* The columns the relay's settlements write.
SettlementArgs(r, args) ==
    [args EXCEPT ![6] = EncodeTime(r.publishedAt), ![8] = Integer(r.attempts),
                 ![9] = EncodeTime(r.nextAttemptAt), ![10] = NullString(r.lastError),
                 ![11] = NullString(r.lockedBy), ![12] = EncodeTime(r.lockedUntil),
                 ![13] = EncodeSinks(r.accepted)]

EntryOf(v) ==
    [publishedAt |-> DecodeTime(v[6]), event |-> DecodeValue(v[7]), attempts |-> DecodeInt(v[8]),
     nextAttemptAt |-> DecodeTime(v[9]), lastError |-> DecodeString(v[10]),
     lockedBy |-> DecodeString(v[11]), lockedUntil |-> DecodeTime(v[12]),
     accepted |-> DecodeSinks(v[13])]

\* Durations are counted in halves of a millisecond.
UpsertType(r) ==
    <<Text(r.name), NullString(r.title), NullString(r.description), EncodeRaw(r.inputSchema),
      EncodeRaw(r.outputSchema), Integer(r.priority), Integer(r.deadline \div 2), EncodeValue(r.escalation),
      EncodeStruct(r.assignment), EncodeTime(r.updatedAt), EncodeValue(r.metadata)>>

TypeSpec(v) ==
    [name |-> DecodeString(v[1]), title |-> DecodeString(v[2]), description |-> DecodeString(v[3]),
     inputSchema |-> DecodeJSON(v[4]), outputSchema |-> DecodeJSON(v[5]),
     priority |-> DecodeInt(v[6]), deadline |-> 2 * DecodeInt(v[7]),
     escalation |-> DecodeValue(v[8]), assignment |-> DecodeValue(v[9]),
     metadata |-> DecodeValue(v[11])]

EncodeNotification(n) ==
    <<Text(n.id), Text(n.recipient), Text(n.sourceID), Text(n.subject), Integer(n.subjectVersion),
      Text(n.kind), Text(n.state), NullString(n.closedReason), NullString(n.title),
      EncodeValue(n.links), EncodeRaw(n.data), EncodeTime(n.createdAt), EncodeTime(n.readAt),
      EncodeTime(n.closedAt), EncodeTime(n.inactiveAt)>>

DecodeNotification(v) ==
    [id |-> DecodeString(v[1]), recipient |-> DecodeString(v[2]), sourceID |-> DecodeString(v[3]),
     subject |-> DecodeString(v[4]), subjectVersion |-> DecodeInt(v[5]), kind |-> DecodeString(v[6]),
     state |-> DecodeString(v[7]), closedReason |-> DecodeString(v[8]), title |-> DecodeString(v[9]),
     links |-> DecodeValue(v[10]), data |-> DecodeJSON(v[11]), createdAt |-> DecodeTime(v[12]),
     readAt |-> DecodeTime(v[13]), closedAt |-> DecodeTime(v[14]), inactiveAt |-> DecodeTime(v[15])]

(* Statements and result sets *******************************************)

Bound(r) ==
    CASE table = "history" -> HistoryArgs(r)
      [] table = "outbox" -> OutboxArgs(r)
      [] table = "types" -> UpsertType(r)
      [] table = "notifications" -> EncodeNotification(r)

Scanned(v) ==
    CASE scan.poll -> [event |-> DecodeValue(v[7])]
      [] table = "outbox" /\ ~scan.poll -> EntryOf(v)
      [] table = "history" -> HistoryRecord(v)
      [] table = "types" -> TypeSpec(v)
      [] table = "notifications" -> DecodeNotification(v)

RecordTables == {"history", "outbox", "types", "notifications"}

\* What identifies a row, and the columns rows are read in the order of.
Identity(args) == IF table = "history" THEN <<args[1], args[2]>> ELSE args[1]

OrderColumns ==
    CASE table = "history" -> <<2, 8>> [] table = "outbox" -> <<5, 1>>
      [] table = "types" -> <<1>> [] table = "notifications" -> <<12, 1>>

\* How a database compares text.
TextBefore(s, t) ==
    \E i \in DOMAIN t : /\ \A j \in 1..(i - 1) : j \in DOMAIN s /\ s[j] = t[j]
                        /\ i \notin DOMAIN s \/ s[i] < t[i]

ValueBefore(v, w) ==
    CASE v.form = "text" -> TextBefore(v.text, w.text)
      [] v.form = "int" -> v.int < w.int
      [] v.form = "time" -> v.time.at < w.time.at

RowBefore(x, y) ==
    \E i \in DOMAIN OrderColumns :
        /\ \A j \in 1..(i - 1) : x.args[OrderColumns[j]] = y.args[OrderColumns[j]]
        /\ ValueBefore(x.args[OrderColumns[i]], y.args[OrderColumns[i]])

NoScan == [at |-> "idle", poll |-> FALSE, forms |-> << >>, rows |-> << >>, buffer |-> << >>,
           out |-> << >>]

RowsInit ==
    /\ backend \in Backends
    /\ table \in RecordTables
    /\ stored = {}
    /\ scan = NoScan

Born(r) ==
    IF table # "outbox" THEN r
    ELSE [r EXCEPT !.publishedAt = NoTime, !.attempts = 0, !.nextAttemptAt = r.occurredAt,
                   !.lastError = << >>, !.lockedBy = << >>, !.lockedUntil = NoTime, !.accepted = 0]

Write(r) ==
    LET row == [record |-> Born(r), args |-> Bound(r)]
        same == {x \in stored : Identity(x.args) = Identity(row.args)} IN
    /\ scan.at = "idle"
    /\ same = {} => Cardinality(stored) < MaxRows
    /\ same # {} => table = "types"
    /\ stored' = (stored \ same) \cup {row}
    /\ UNCHANGED <<backend, table, scan>>

Settle(x, r) ==
    /\ scan.at = "idle" /\ table = "outbox"
    /\ stored' = (stored \ {x}) \cup
           {[record |-> [r EXCEPT !.id = x.record.id, !.event = x.record.event,
                                  !.occurredAt = x.record.occurredAt],
             args |-> SettlementArgs(r, x.args)]}
    /\ UNCHANGED <<backend, table, scan>>

MarkOutboxPublished(x, at) ==
    /\ scan.at = "idle" /\ table = "outbox"
    /\ stored' = (stored \ {x}) \cup {[record |-> [x.record EXCEPT !.publishedAt = at],
                                       args |-> [x.args EXCEPT ![6] = EncodeTime(at)]]}
    /\ UNCHANGED <<backend, table, scan>>

DeleteType(x) ==
    /\ scan.at = "idle" /\ table = "types"
    /\ stored' = stored \ {x}
    /\ UNCHANGED <<backend, table, scan>>

Opened(rows, forms, poll) ==
    /\ scan.at = "idle"
    /\ scan' = [NoScan EXCEPT !.at = "rows", !.poll = poll, !.forms = forms, !.rows = rows]
    /\ UNCHANGED <<backend, table, stored>>

\* Events not published yet, oldest first, as a host polls for them.
SelectOutbox(forms, limit) ==
    LET due == SetToSortSeq({x \in stored : x.args[6] = Null}, RowBefore) IN
    /\ table = "outbox"
    /\ Opened(IF limit > 0 /\ limit < Len(due) THEN SubSeq(due, 1, limit) ELSE due, forms, TRUE)

SelectOutboxEntry(x, forms) == table = "outbox" /\ Opened(<<x>>, forms, FALSE)

SelectRows(forms) == table # "outbox" /\ Opened(SetToSortSeq(stored, RowBefore), forms, FALSE)

\* The next row is read over the one before it and decoded.
NextRow ==
    LET row == scan.rows[Len(scan.out) + 1]
        values == [i \in DOMAIN row.args |-> Handed(row.args[i], scan.forms, i)] IN
    /\ scan.at = "rows" /\ Len(scan.out) < Len(scan.rows)
    /\ scan' = [scan EXCEPT !.buffer = [i \in DOMAIN values |->
                                            IF values[i].form = "bytes" THEN values[i].text ELSE << >>],
                            !.out = Append(@, Scanned(values))]
    /\ UNCHANGED <<backend, table, stored>>

EndRows ==
    /\ scan.at = "rows" /\ Len(scan.out) = Len(scan.rows)
    /\ scan' = [scan EXCEPT !.at = "done"]
    /\ UNCHANGED <<backend, table, stored>>

CloseRows == scan.at = "done" /\ scan' = NoScan /\ UNCHANGED <<backend, table, stored>>

DriverForms ==
    {forms \in [text : TextForms, int : IntForms, time : TimeForms, zone : {0, 1}] :
        forms.time = "text" => forms.zone = 0}

RowsNext ==
    \/ \E r \in Records[table] : Write(r)
    \/ \E x \in stored : \/ \E r \in Records["outbox"] : Settle(x, r)
                          \/ MarkOutboxPublished(x, [at |-> 9, zone |-> 1])
                          \/ DeleteType(x)
    \/ \E forms \in DriverForms :
          \/ \E limit \in {0, 1} : SelectOutbox(forms, limit)
          \/ \E x \in stored : SelectOutboxEntry(x, forms)
          \/ SelectRows(forms)
    \/ NextRow \/ EndRows \/ CloseRows

RowsSpec == RowsInit /\ [][RowsNext]_rowVars

(* What is read back ****************************************************)

\* The bytes of a payload once the whole result set has been read.
Contents(raw) == IF raw.alias THEN scan.buffer[raw.column] ELSE raw.text

\* A record as it was scanned, at the end of the scan.
Read(r) ==
    CASE table = "types" -> [r EXCEPT !.inputSchema = Contents(@), !.outputSchema = Contents(@)]
      [] table = "notifications" -> [r EXCEPT !.data = Contents(@)]
      [] table \in {"history", "outbox"} -> r

\* A record as every dialect can store it: instants in UTC and to the
\* microsecond, deadlines to the millisecond.
Normal(r) ==
    CASE scan.poll -> [event |-> r.event]
      [] table = "outbox" /\ ~scan.poll ->
           [publishedAt |-> NormalizeTime(r.publishedAt), event |-> r.event, attempts |-> r.attempts,
            nextAttemptAt |-> NormalizeTime(r.nextAttemptAt), lastError |-> r.lastError,
            lockedBy |-> r.lockedBy, lockedUntil |-> NormalizeTime(r.lockedUntil),
            accepted |-> r.accepted]
      [] table = "history" -> [r EXCEPT !.at = NormalizeTime(@)]
      [] table = "types" -> [f \in DOMAIN r \ {"updatedAt"} |->
                                IF f = "deadline" THEN r[f] - (r[f] % 2) ELSE r[f]]
      [] table = "notifications" ->
           [r EXCEPT !.createdAt = NormalizeTime(@), !.readAt = NormalizeTime(@),
                     !.closedAt = NormalizeTime(@), !.inactiveAt = NormalizeTime(@)]

\* Whatever the dialect and whatever its driver hands back, each record that is
\* read is the one that was written, column by column, and stays so once later
\* rows have been read into the driver's buffer.
RowsReadBack ==
    scan.at = "done" =>
        /\ Len(scan.out) = Len(scan.rows)
        /\ \A i \in DOMAIN scan.out : Read(scan.out[i]) = Normal(scan.rows[i].record)

\* When a record happened, to the microsecond, and what it is told apart by.
Instant(r) == NormalizeTime(IF table = "outbox" THEN r.occurredAt ELSE r.createdAt).at

\* A database orders events and notifications by when they happened, although
\* one of them has only text for instants.
ReadInOrder ==
    scan.at = "done" /\ table \in {"outbox", "notifications"} =>
        \A i, j \in DOMAIN scan.rows :
            i < j => LET r == scan.rows[i].record
                         s == scan.rows[j].record IN
                     \/ Instant(r) < Instant(s)
                     \/ Instant(r) = Instant(s) /\ TextBefore(r.id, s.id)

\* A result set is what was written, in the order it happened.
RowsAreFaithful == RowsReadBack /\ ReadInOrder
=============================================================================

------------------------------ MODULE EventLog ------------------------------
(***************************************************************************)
(* The file of the event log (src/src/storage/event_log.cpp) as operators: *)
(* how a record is written, what replay reads back from any sequence of    *)
(* bytes that interrupted appends can leave, what recovery cuts off, and   *)
(* what compaction keeps.                                                  *)
(* Bytes are abstracted to cells, the least that tells apart the places    *)
(* where a record can be cut: the header in two cells (the magic is in the *)
(* first, the lengths need both), the payload and the checksum.            *)
(* Every record is one this code writes: of the current schema, with a     *)
(* payload it can parse.  Records of an older or an unknown schema, and    *)
(* the record that compaction adds for the older ones, are left out.       *)
(***************************************************************************)
EXTENDS Integers, Sequences, SequencesExt, FiniteSets, FiniteSetsExt

HeaderCells  == 2
MinimumCells == 3    \* minimum_record_size: a header and a checksum
RecordCells  == 4

\* EventLog::serialize, of one record and of several one after the other.
Cell(e, part) == [of |-> e, part |-> part]
Serialize(e) == [i \in 1 .. RecordCells |-> Cell(e, i)]
SerializeAll(es) ==
    [n \in 1 .. RecordCells * Len(es) |->
        Cell(es[((n - 1) \div RecordCells) + 1], ((n - 1) % RecordCells) + 1)]

\* What is in the file when the first cells of es have been written to it.
Written(es, cells) == SubSeq(SerializeAll(es), 1, cells)

\* find_magic: the next place from o on where a record begins.
FindMagic(f, o) == Min({i \in o .. Len(f) : f[i].part = 1} \cup {Len(f) + 1})

\* The lengths in the header are those of a record only if no other write cut it.
HeaderIsWhole(f, o) ==
    SubSeq(f, o, o + HeaderCells - 1) = SubSeq(Serialize(f[o].of), 1, HeaderCells)
ChecksumMatches(f, o) ==
    SubSeq(f, o, o + RecordCells - 1) = Serialize(f[o].of)

(***************************************************************************)
(* replay_unlocked.  A place that is not the start of a record is skipped  *)
(* up to the next magic, a record with a bad checksum by the length its    *)
(* header gives, and a record that the file is too short for ends the      *)
(* replay.                                                                 *)
(***************************************************************************)
NothingLeft  == [events |-> <<>>, corrupt |-> FALSE, truncated |-> FALSE]
TooShort     == [NothingLeft EXCEPT !.truncated = TRUE]
Corrupt(r)   == [r EXCEPT !.corrupt = TRUE]
After(e, r)  == [r EXCEPT !.events = <<e>> \o @]

\* What is read from o on, when later says so for every later place.
ReadFrom(f, o, later) ==
    LET left == Len(f) + 1 - o
    IN  IF left <= 0 THEN NothingLeft
        ELSE IF left < MinimumCells THEN TooShort
        ELSE IF f[o].part # 1 \/ ~HeaderIsWhole(f, o) THEN Corrupt(later[FindMagic(f, o + 1)])
        ELSE IF left < RecordCells THEN TooShort
        ELSE IF ~ChecksumMatches(f, o) THEN Corrupt(later[o + RecordCells])
        ELSE After(f[o].of, later[o + RecordCells])
Scan(f) ==
    LET scan[o \in 1 .. Len(f) + RecordCells] == ReadFrom(f, o, scan) IN scan
Replay(f) == Scan(f)[1]

Events(f)  == Replay(f).events
IsValid(f) == ~Replay(f).corrupt /\ ~Replay(f).truncated

\* Mutants: the number of records instead of their ids, a partial tail that stays.
NextId_Counts(f)  == Len(Events(f)) + 1
Recovered_None(f) == f

\* The next id that the constructor finds.
NextId(f) == Max({0} \cup {e.id : e \in ToSet(Events(f))}) + 1

\* recover_trailing_record: without corruption the valid prefix is all that was read.
Recovered(f) ==
    LET r == Replay(f)
    IN  IF r.truncated /\ ~r.corrupt THEN SubSeq(f, 1, RecordCells * Len(r.events)) ELSE f

(***************************************************************************)
(* compact.  Records that a later one of the same subject replaces are     *)
(* dropped; every other record is kept, in its place and with its id.      *)
(***************************************************************************)
LastOnly == {"AnalysisJobStateChanged", "DrillSessionUpdated", "ProfileSnapshotCreated"}
LineTypes == {"VariationSaved", "VariationDeleted"}
ReplacedBy(e) ==
    IF e.type = "ShallowAnalysisCompleted" THEN {"ShallowAnalysisCompleted", "AnalysisCompleted"}
    ELSE IF e.type \in LineTypes THEN LineTypes
    ELSE IF e.type \in LastOnly THEN {e.type}
    ELSE {}

\* Mutant: the first record of a subject is kept, not the last.
Keeps_First(es, i) ==
    /\ es[i].type # "LogCompacted"
    /\ \A j \in 1 .. i - 1 :
           ~(es[j].type \in ReplacedBy(es[i]) /\ es[j].key = es[i].key)

Keeps(es, i) ==
    /\ es[i].type # "LogCompacted"
    /\ \A j \in i + 1 .. Len(es) :
           ~(es[j].type \in ReplacedBy(es[i]) /\ es[j].key = es[i].key)

Kept(es) == {i \in DOMAIN es : Keeps(es, i)}
Retained(es) ==
    LET kept == Kept(es)
    IN  [n \in 1 .. Cardinality(kept) |->
            es[CHOOSE i \in kept : Cardinality({j \in kept : j < i}) = n - 1]]

Compacted(f, id) ==
    LET es == Append(Retained(Events(f)), [id |-> id, type |-> "LogCompacted", key |-> <<>>])
    IN  Written(es, RecordCells * Len(es))
=============================================================================

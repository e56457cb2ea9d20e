---------------------------- MODULE KismetImport ----------------------------
(***************************************************************************)
(* Importing a Kismet database file: a private copy is taken through one   *)
(* opened handle and hashed, its schema is admitted, its packet rows are   *)
(* read batch by batch from a cursor and normalized, and the import is     *)
(* finished.                                                               *)
(*                                                                         *)
(* The input is documented to be a closed file.  The environment can still *)
(* append to it while it is copied, put another file at its path, cancel,  *)
(* or let the deadline pass.  A version of the file is its rows in row     *)
(* order; the copy takes one row at a time, as it takes one buffer.        *)
(***************************************************************************)
EXTENDS Integers, Sequences, FiniteSets, SequencesExt

CONSTANTS Files,        \* what may be at the path
          Extra,        \* a row a writer may append
          Mappings,     \* the sources a caller may map: sets of datasource ids
          Batches,      \* the batch limits a caller may ask for
          MAX_BATCH, MAX_SOURCES, MAX_ROWS

VARIABLES pc, file, handle, length, copy, after, cancelled, imported, receipts, complete, mapping

vars == <<pc, file, handle, length, copy, after, cancelled, imported, receipts, complete, mapping>>

NoRow == -1000

Init ==
    /\ pc = "path" /\ file \in Files /\ handle = file /\ length = 0 /\ copy = <<>>
    /\ after = NoRow /\ cancelled = FALSE
    /\ imported = <<>> /\ receipts = <<>> /\ complete = FALSE
    /\ mapping \in Mappings

Fail == pc' = "failed" /\ UNCHANGED <<copy, after, imported, receipts, complete>>

-----------------------------------------------------------------------------
(* The private copy                                                        *)

\* open_snapshot_source and the checks on the opened handle.
OpenSource ==
    /\ pc = "path"
    /\ IF cancelled \/ ~ file.regular \/ Len(file.rows) > MAX_ROWS \/ file.sidecar
       THEN Fail /\ UNCHANGED <<handle, length>>
       ELSE /\ pc' = "copying" /\ handle' = file /\ length' = Len(file.rows)
            /\ UNCHANGED <<copy, after, imported, receipts, complete>>
    /\ UNCHANGED <<file, cancelled, mapping>>

\* One turn of the copy loop: the handle is read where the copy has got to.
CopyBuffer ==
    /\ pc = "copying"
    /\ IF cancelled \/ Len(copy) > MAX_ROWS \/ (Len(copy) = Len(handle.rows) /\ Len(copy) # length)
       THEN Fail
       ELSE IF Len(copy) = Len(handle.rows)
            THEN pc' = "copied" /\ UNCHANGED <<copy, after, imported, receipts, complete>>
            ELSE /\ copy' = Append(copy, handle.rows[Len(copy) + 1])
                 /\ UNCHANGED <<pc, after, imported, receipts, complete>>
    /\ UNCHANGED <<file, handle, length, cancelled, mapping>>

\* The schema, the version and the datasources of the copy.
Admissible(f) ==
    /\ f.version \in 5..10
    /\ f.ordinary_tables
    /\ Len(f.sources) <= MAX_SOURCES
    /\ \A i, j \in 1..Len(f.sources) : f.sources[i] = f.sources[j] => i = j

Open ==
    /\ pc = "copied"
    /\ IF cancelled \/ ~ Admissible(handle) THEN Fail
       ELSE pc' = "open" /\ UNCHANGED <<copy, after, imported, receipts, complete>>
    /\ UNCHANGED <<file, handle, length, cancelled, mapping>>

-----------------------------------------------------------------------------
(* Batches                                                                 *)

Sources == ToSet(handle.sources)

\* The conversions of one packet row that can refuse it.  "converts" stands
\* for those of the columns the model leaves out: the timestamp overflows,
\* a length, link type, checksum or packet id is out of range, the rate is
\* no rate, the payload no blob, the name no text.
RowDecodes(row) ==
    /\ row.source \in Sources
    /\ row.converts
    /\ row.micros \in 0..999999
    /\ row.frequency >= 0
    /\ row.stored = -1 \/ (row.stored = 0 /\ row.captured > 0) \/ row.stored = row.captured
    /\ row.original = -1 \/ row.original >= row.captured
    /\ row.error \in {0, 1}

\* The canonical observation of a row; its id is a hash of the copy and the
\* row id.  Zero frequencies and stripped payloads are unknown, not zero.
NormalizeRecord(row) ==
    [id |-> <<copy, row.id>>, row |-> row.id, source |-> row.source,
     frequency |-> IF row.frequency = 0 THEN "unknown" ELSE "known",
     payload |-> IF row.stored = row.captured THEN "known" ELSE "not_retained",
     quality |-> {"clock_uncertain", "unknown_calibration"}
                   \cup (IF row.error = 1 THEN {"malformed"} ELSE {})]

ObservationReceipt(row) == [id |-> <<copy, row.id>>, row |-> row.id, error |-> row.error]

\* ReadBatch that reads no row past the limit and calls a full batch partial
\* only when it is longer than the limit.
ReadBatchNoLookahead(cursor, limit) ==
    LET rest == SelectSeq(copy, LAMBDA row : row.id > cursor)
        rows == SubSeq(rest, 1, Min({limit, Len(rest)}))
    IN [rows |-> rows, complete |-> Len(rows) <= limit,
        next_after |-> IF rows = <<>> THEN cursor ELSE Last(rows).id]

\* Rows after the cursor in row order, one more than the limit to tell
\* whether this is the end.
ReadBatch(cursor, limit) ==
    LET rest == SelectSeq(copy, LAMBDA row : row.id > cursor)
        rows == SubSeq(rest, 1, Min({limit, Len(rest)}))
    IN [rows |-> rows, complete |-> Len(rest) <= limit,
        next_after |-> IF rows = <<>> THEN cursor ELSE Last(rows).id]

\* normalize_batch: the whole batch is refused when a row is.
NormalizeBatch ==
    /\ pc = "open"
    /\ \E limit \in Batches :
         LET batch == ReadBatch(after, limit) IN
         IF \/ cancelled
            \/ Cardinality(Sources) # Cardinality(mapping) \/ ~ Sources \subseteq mapping
            \/ limit \notin 1..MAX_BATCH
            \/ \E i \in 1..Len(batch.rows) : ~ RowDecodes(batch.rows[i])
         THEN Fail
         ELSE /\ after' = batch.next_after /\ complete' = batch.complete
              /\ imported' = imported \o [i \in 1..Len(batch.rows) |-> NormalizeRecord(batch.rows[i])]
              /\ receipts' = receipts
                   \o [i \in 1..Len(batch.rows) |-> ObservationReceipt(batch.rows[i])]
              /\ UNCHANGED <<pc, copy>>
    /\ UNCHANGED <<file, handle, length, cancelled, mapping>>

\* The caller finishes once a batch said that it was the last.
Finish ==
    /\ pc = "open" /\ complete
    /\ IF cancelled \/ Len(copy) # length THEN Fail
       ELSE pc' = "finished" /\ UNCHANGED <<copy, after, imported, receipts, complete>>
    /\ UNCHANGED <<file, handle, length, cancelled, mapping>>

-----------------------------------------------------------------------------
(* The environment                                                         *)

\* A capture is still running and appends to the file that is being copied.
Grow ==
    /\ pc = "copying" /\ Len(handle.rows) = length
    /\ handle' = [handle EXCEPT !.rows = Append(@, Extra)]
    /\ UNCHANGED <<pc, file, length, copy, after, cancelled, imported, receipts, complete, mapping>>

\* Another file takes the path; the handle stays with the first one.
Replace ==
    /\ pc \in {"path", "copying", "open"}
    /\ file' \in Files \ {file}
    /\ UNCHANGED <<pc, handle, length, copy, after, cancelled, imported, receipts, complete, mapping>>

\* Cancellation and the deadline are looked at in the same places.
Cancel ==
    /\ pc \notin {"failed", "finished"} /\ ~ cancelled
    /\ cancelled' = TRUE
    /\ UNCHANGED <<pc, file, handle, length, copy, after, imported, receipts, complete, mapping>>

Next ==
    \/ OpenSource \/ CopyBuffer \/ Open \/ NormalizeBatch \/ Finish
    \/ Grow \/ Replace \/ Cancel

-----------------------------------------------------------------------------
(* Properties                                                              *)

\* A finished import has an observation and a receipt for every row of one
\* version of the selected file, in row order and no row twice, with
\* identities that no two rows share, however the caller sized its batches,
\* whatever was appended during the copy and whatever took the path later.
ImportIsOneVersion ==
    pc = "finished" =>
      /\ [i \in 1..Len(imported) |-> imported[i].row] = [i \in 1..length |-> handle.rows[i].id]
      /\ [i \in 1..Len(receipts) |-> receipts[i].id] = [i \in 1..Len(imported) |-> imported[i].id]
      /\ \A i, j \in 1..Len(imported) : imported[i].id = imported[j].id => i = j
=============================================================================

-------------------------------- MODULE Bronze --------------------------------
(***************************************************************************)
(* databricks/notebooks/01_data_ingestion.py: files land, the stream plans *)
(* them into micro-batches, process_batch writes each to the Delta table   *)
(* and reports it to MLflow, and the checkpoint records it.  The stream    *)
(* may fail between any two of these and replays the batch it had planned. *)
(***************************************************************************)
EXTENDS Naturals, Sequences, FiniteSets, SequencesExt

CONSTANTS
    None,           \* SQL null
    Ids,            \* transaction ids
    Contents,       \* what a file may hold: sets of records
    MaxFiles,       \* bound: files that land
    FilesPerBatch,  \* cloudFiles.maxFilesPerTrigger
    Recognised      \* what isDeltaTable, which takes a path, may say of BRONZE_TABLE, a
                    \* name: {FALSE} unless there is such a path

ASSUME BronzeAssumption ==
    /\ {MaxFiles, FilesPerBatch} \subseteq Nat \ {0}
    /\ Recognised \subseteq BOOLEAN
    /\ \A content \in Contents : \A r \in content : r.transaction_id \in Ids

VARIABLES
    landing,    \* the files in raw/transactions, in order of arrival
    planned,    \* checkpoint: planned[b] is the last file of batch b
    committed,  \* checkpoint: batches that are done
    exists,     \* the bronze table exists
    bronze,     \* bronze[t]: the rows of transaction t, in order of insertion
    reported,   \* batches with a run in MLflow
    pc          \* where the streaming query stands

bronzeVars == <<landing, planned, committed, exists, bronze, reported, pc>>

Records == UNION Contents
Reached(b) == IF b = 0 THEN 0 ELSE planned[b]

\* Records of batch b, every copy of every file.
Batch(b) == UNION {landing[f] : f \in Reached(b - 1) + 1 .. Reached(b)}
Current == committed + 1

BronzeTypeOK ==
    /\ landing \in Seq(Contents) /\ Len(landing) <= MaxFiles
    /\ planned \in Seq(1 .. Len(landing)) /\ \A b \in 2 .. Len(planned) : planned[b - 1] < planned[b]
    /\ committed \in 0 .. Len(planned) /\ Len(planned) <= committed + 1
    /\ exists \in BOOLEAN
    /\ bronze \in [Ids -> Seq(Records)]
    /\ reported \subseteq 1 .. Len(planned)
    /\ pc \in {"down", "waiting", "batch", "written", "reported"}

BronzeInit ==
    /\ landing = <<>> /\ planned = <<>> /\ committed = 0
    /\ exists = FALSE
    /\ bronze = [t \in Ids |-> <<>>]
    /\ reported = {}
    /\ pc = "down"

-----------------------------------------------------------------------------
(* apply_data_quality *)

Currencies == {"CHF", "EUR", "USD", "GBP", "JPY", "AED", "CNY"}

\* A null amount passes no comparison.
Passes(r) ==
    /\ r.amount # None /\ r.amount > 0 /\ r.amount < 1000000000
    /\ r.currency \in Currencies
    /\ r.iban_length = None \/ r.iban_length \in 15 .. 34

IdsOf(records) == {r.transaction_id : r \in records}

\* dropDuplicates comes first and keeps one record of an id, any of them; the filters
\* see only that one.
QualityResults(records) ==
    {{r \in {kept[t] : t \in IdsOf(records)} : Passes(r)} :
        kept \in {k \in [IdsOf(records) -> records] :
                      \A t \in IdsOf(records) : k[t].transaction_id = t}}

-----------------------------------------------------------------------------
(* The columns of encrypted_df, and so of the table *)

RawColumns == {"transaction_id", "timestamp", "amount", "currency", "transaction_type",
    "source_account_id", "source_iban", "source_bic", "source_country", "target_account_id",
    "target_iban", "target_bic", "target_country", "description", "reference", "channel",
    "ip_address"}

\* Which columns are derived from which.
Derived == [source_iban_encrypted |-> "source_iban", source_iban_masked |-> "source_iban",
    target_iban_encrypted |-> "target_iban", target_iban_masked |-> "target_iban",
    ip_address_masked |-> "ip_address", source_account_id_encrypted |-> "source_account_id"]

Metadata == {"ingested_at", "ingestion_source", "data_quality_flags", "year", "month"}

WrittenColumns ==
    (RawColumns \cup DOMAIN Derived \cup Metadata)
        \ {"source_iban", "target_iban", "ip_address", "source_account_id"}

-----------------------------------------------------------------------------
(* process_batch *)

RowsOf(t, rows) == SetToSeq({r \in rows : r.transaction_id = t})

\* Mutant: rows are appended without looking for their id.
MergeAppending(rows) == bronze' = [t \in Ids |-> bronze[t] \o RowsOf(t, rows)]

\* whenNotMatchedInsertAll, and no clause for a match.
Merge(rows) ==
    bronze' = [t \in Ids |-> IF bronze[t] = <<>> THEN RowsOf(t, rows) ELSE bronze[t]]

\* mode("overwrite"), for the first batch, and for every other that is not recognised.
Overwrite(rows) == bronze' = [t \in Ids |-> RowsOf(t, rows)]

WriteBronze ==
    /\ pc = "batch"
    /\ \E rows \in QualityResults(Batch(Current)), found \in Recognised :
           IF exists /\ found THEN Merge(rows) ELSE Overwrite(rows)
    /\ exists' = TRUE
    /\ pc' = "written"
    /\ UNCHANGED <<landing, planned, committed, reported>>

LogMetrics ==
    /\ pc = "written"
    /\ reported' = reported \cup {Current}
    /\ pc' = "reported"
    /\ UNCHANGED <<landing, planned, committed, exists, bronze>>

-----------------------------------------------------------------------------
(* The stream: Auto Loader, checkpoint, failures *)

FileLands(content) ==
    /\ Len(landing) < MaxFiles
    /\ landing' = Append(landing, content)
    /\ UNCHANGED <<planned, committed, exists, bronze, reported, pc>>

\* Mutant: a batch begins only when it is full.
BeginBatchFull ==
    /\ pc = "waiting"
    /\ pc' = "batch"
    /\ IF Len(planned) > committed THEN UNCHANGED planned
       ELSE /\ Reached(committed) + FilesPerBatch <= Len(landing)
            /\ planned' = Append(planned, Reached(committed) + FilesPerBatch)
    /\ UNCHANGED <<landing, committed, exists, bronze, reported>>

\* A batch that was planned and is not done is replayed with the same files; otherwise
\* new files are planned.
BeginBatch ==
    /\ pc = "waiting"
    /\ pc' = "batch"
    /\ IF Len(planned) > committed THEN UNCHANGED planned
       ELSE \E n \in 1 .. FilesPerBatch :
                /\ Reached(committed) + n <= Len(landing)
                /\ planned' = Append(planned, Reached(committed) + n)
    /\ UNCHANGED <<landing, committed, exists, bronze, reported>>

\* Mutant: the checkpoint is written before MLflow is told.
CommitEarly ==
    /\ pc \in {"written", "reported"}
    /\ committed' = committed + 1
    /\ pc' = "waiting"
    /\ UNCHANGED <<landing, planned, exists, bronze, reported>>

CommitBatch ==
    /\ pc = "reported"
    /\ committed' = committed + 1
    /\ pc' = "waiting"
    /\ UNCHANGED <<landing, planned, exists, bronze, reported>>

\* An exception in process_batch, MLflow's included, or the loss of the cluster.
Fail ==
    /\ pc # "down"
    /\ pc' = "down"
    /\ UNCHANGED <<landing, planned, committed, exists, bronze, reported>>

StartQuery ==
    /\ pc = "down"
    /\ pc' = "waiting"
    /\ UNCHANGED <<landing, planned, committed, exists, bronze, reported>>

BronzeNext ==
    \/ \E content \in Contents : FileLands(content)
    \/ BeginBatch \/ WriteBronze \/ LogMetrics \/ CommitBatch
    \/ Fail \/ StartQuery

BronzeSpec == BronzeInit /\ [][BronzeNext]_bronzeVars

\* A running query goes on; nobody is obliged to start it again.
FairBronzeSpec == BronzeSpec /\ WF_bronzeVars(BeginBatch \/ WriteBronze \/ LogMetrics \/ CommitBatch)

-----------------------------------------------------------------------------
(* Properties *)

\* However often batches are replayed and files repeat a transaction, it has one row.
OneRowPerTransaction == \A t \in Ids : Len(bronze[t]) <= 1

\* The batches that come after leave what is in the table there, as an "upsert by
\* transaction_id" does.
RowsRemain == [][\A t \in Ids : bronze[t] # <<>> => bronze'[t] # <<>>]_bronzeVars

\* Batch b is in MLflow, and in the table with every transaction whose copies in it all
\* pass the filters.  (Of one with a copy that does not pass, dropDuplicates may keep that
\* copy.)
Accounted(b) ==
    /\ b \in reported
    /\ \A t \in IdsOf(Batch(b)) :
           (\A r \in Batch(b) : r.transaction_id = t => Passes(r)) => bronze[t] # <<>>

\* The checkpoint moves on only over a batch that is accounted for at that moment, whatever
\* failed and was replayed before.
CheckpointFollowsTable == [][committed' # committed => Accounted(committed')]_bronzeVars

\* What is in the table came from a planned batch and passes the filters.
NothingInvented ==
    \A t \in Ids : \A r \in {bronze[t][i] : i \in DOMAIN bronze[t]} :
        Passes(r) /\ \E b \in 1 .. Len(planned) : r \in Batch(b)

\* "Drop raw PII before persistence": no column is written next to its encrypted or
\* masked form, and each column that is dropped survives in such a form.
RawIdentifiersDropped == exists =>
    /\ \A c \in DOMAIN Derived : Derived[c] \notin WrittenColumns
    /\ RawColumns \ WrittenColumns = {Derived[c] : c \in DOMAIN Derived}

\* The table, at any point of a batch, a failure or a replay.
BronzeInvariant ==
    BronzeTypeOK /\ OneRowPerTransaction /\ NothingInvented /\ RawIdentifiersDropped

\* A file that has landed is in a finished batch eventually, unless the query is down.
LandedIsIngested ==
    \A f \in 1 .. MaxFiles : f <= Len(landing) ~> Reached(committed) >= f \/ pc = "down"
===============================================================================

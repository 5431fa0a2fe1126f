-------------------------- MODULE HistogramWriter --------------------------
(***************************************************************************)
(* The hs00 writer module.  A histogram is identified by its time stamp    *)
(* and arrives in slices.  The module keeps a HistogramRecord for each of  *)
(* the MaxNumberHistoric histograms it is assembling; each has a row of    *)
(* the dataset "histograms".  A record is created when the first slice     *)
(* arrives, taking the row of the oldest one when there are too many, and  *)
(* a histogram whose last slice has arrived is copied to "data".           *)
(* A cell of the file holds the time stamp of the histogram it was written *)
(* for, 0 if it was never written.  Any HDF5 call of write() may throw.    *)
(***************************************************************************)
EXTENDS Integers, Sequences, FiniteSetsExt

CONSTANTS
  Sizes,              \* the configured shape: the size of each dimension
  Stamps,             \* time stamps of the messages
  HMessages,          \* the messages passed to write()
  MaxNumberHistoric,  \* number of histograms assembled at a time
  MaxAge,             \* how much older than the newest a histogram may be
  MaxSlices,          \* bound on the number of messages
  MaxFaults           \* bound on the number of failing HDF5 calls

ASSUME HistogramAssumption ==
  /\ Sizes \in Seq(Nat)
  /\ Stamps \subseteq Nat /\ MaxNumberHistoric \in Nat \ {0}
  /\ {MaxAge, MaxSlices, MaxFaults} \subseteq Nat
  /\ \A m \in HMessages : m.stamp \in Stamps /\ m.shape \in Seq(Nat) /\ m.offset \in Seq(Nat)

VARIABLES
  types,        \* the configured data, edge and error type
  stage,        \* "configured", "created", "open" or "rejected"
  histograms,   \* the rows of the dataset
  errorRows,    \* number of rows of the dataset "errors"
  latest,       \* the dataset "data"
  timestamps,   \* rows of the dataset: time stamp and "complete" flag
  info,         \* time stamps of the rows of info and info_timestamp
  HistogramRecords,     \* time stamp -> [HDFIndex, Slices, ItemsWritten]
  LargestTimestampSeen,
  received,     \* number of messages passed to write()
  faults,       \* number of HDF5 calls that threw
  lostRow,      \* a record was created whose row could not be
  reused        \* rows that were taken from one record for another

hvars == <<types, stage, histograms, errorRows, latest, timestamps, info, HistogramRecords,
           LargestTimestampSeen, received, faults, lostRow, reused>>

-----------------------------------------------------------------------------
(* Configuration                                                           *)

DataTypeMap == {"uint32", "uint64", "float", "double"}
EdgeTypeMap == {"uint32", "uint64", "float", "double"}
CreateErrorTypeMap == {"uint32_t", "uint64_t", "float", "double"}
ReOpenErrorTypeMap == {"uint32", "uint64", "float", "double"}

createFromDataType(t) ==
  t.data \in DataTypeMap /\ t.edge \in EdgeTypeMap /\ t.error \in CreateErrorTypeMap
reOpenFromDataType(t) ==
  t.data \in DataTypeMap /\ t.edge \in EdgeTypeMap /\ t.error \in ReOpenErrorTypeMap

\* The cells of a histogram and the number of them.
Positions == {p \in [DOMAIN Sizes -> UNION {0..(Sizes[i] - 1) : i \in DOMAIN Sizes}] :
                \A i \in DOMAIN Sizes : p[i] < Sizes[i]}
ProductUpTo(shape) ==
  LET product[n \in 0..Len(shape)] == IF n = 0 THEN 1 ELSE product[n - 1] * shape[n] IN product
LinearSize(shape) == ProductUpTo(shape)[Len(shape)]
getTotalItems == IF Sizes = <<>> THEN 0 ELSE LinearSize(Sizes)

-----------------------------------------------------------------------------
(* Slices                                                                  *)

\* doesOverlap, dimension by dimension.
doesOverlap(this, other) ==
  \A i \in DOMAIN this.Offsets :
    IF other.Offsets[i] <= this.Offsets[i]
    THEN other.Offsets[i] + other.Sizes[i] > this.Offsets[i]
    ELSE other.Offsets[i] < this.Offsets[i] + this.Sizes[i]

\* Mutant: slices overlap only if they start at the same place.
hasEmptySlice_SameOrigin(record, slice) ==
  \A s \in record.Slices : s.Offsets # slice.Offsets

hasEmptySlice(record, slice) == \A s \in record.Slices : ~doesOverlap(s, slice)

Covered(slice) ==
  {p \in Positions : \A i \in DOMAIN p : slice.Offsets[i] <= p[i] /\ p[i] < slice.Offsets[i] + slice.Sizes[i]}

-----------------------------------------------------------------------------
(* Life of the module                                                      *)

Blank == [p \in Positions |-> 0]

HInit ==
  /\ types \in [data : {"uint32", "int8"}, edge : {"double"}, error : {"float", "uint32", "uint32_t"}]
  /\ stage = "configured"
  /\ histograms = <<>> /\ errorRows = 0 /\ latest = Blank /\ timestamps = <<>> /\ info = <<>>
  /\ HistogramRecords = <<>>
  /\ LargestTimestampSeen = 0
  /\ received = 0 /\ faults = 0 /\ lostRow = FALSE /\ reused = {}

\* config_post_processing and init_hdf: an unknown type, a malformed shape or
\* an HDF5 exception rejects the module (and with it the write job).
createHDFStructure ==
  /\ stage = "configured"
  /\ \/ createFromDataType(types) /\ stage' = "created"
     \/ stage' = "rejected"
  /\ UNCHANGED <<types, histograms, errorRows, latest, timestamps, info, HistogramRecords,
                 LargestTimestampSeen, received, faults, lostRow, reused>>

\* reopen: a new WriterTyped, without records.
reOpen ==
  /\ stage = "created"
  /\ \/ reOpenFromDataType(types) /\ stage' = "open"
     \/ stage' = "rejected"
  /\ UNCHANGED <<types, histograms, errorRows, latest, timestamps, info, HistogramRecords,
                 LargestTimestampSeen, received, faults, lostRow, reused>>

-----------------------------------------------------------------------------
(* write()                                                                 *)

\* The checks made before anything changes.  An offset vector of another
\* length than the shape is taken for zeros, which are not checked.
Acceptable(m) ==
  /\ m.stamp # 0
  /\ m.typed /\ m.errors # "wrong"
  /\ Len(m.shape) = Len(Sizes)
  /\ Len(m.offset) = Len(m.shape) =>
       \A i \in DOMAIN m.shape : m.offset[i] + m.shape[i] <= Sizes[i]
  /\ m.sized
  /\ m.stamp + MaxAge >= LargestTimestampSeen

fromOffsetsSizes(m) ==
  [ Offsets |-> IF Len(m.offset) = Len(m.shape) THEN m.offset ELSE [i \in DOMAIN m.shape |-> 0],
    Sizes   |-> m.shape ]

\* The record of the time stamp, an existing one or a new one: in a new row, or
\* in the row of the histogram with the smallest time stamp.
newRecord(row) == [HDFIndex |-> row, Slices |-> {}, ItemsWritten |-> 0]
AddNewRow(t) == t \notin DOMAIN HistogramRecords /\ Cardinality(DOMAIN HistogramRecords) < MaxNumberHistoric

RecordsWith(t) ==
  IF t \in DOMAIN HistogramRecords THEN HistogramRecords
  ELSE LET oldest == Min(DOMAIN HistogramRecords)
           kept   == IF AddNewRow(t) THEN DOMAIN HistogramRecords ELSE DOMAIN HistogramRecords \ {oldest}
           row    == IF AddNewRow(t) THEN Len(histograms) + 1 ELSE HistogramRecords[oldest].HDFIndex
       IN  [u \in kept \cup {t} |-> IF u = t THEN newRecord(row) ELSE HistogramRecords[u]]

isFull(record) == record.ItemsWritten = getTotalItems

\* The HDF5 calls of write() in their order: "none" stands for a call of
\* write() in which none of them throws.
Calls == <<"extent", "errors extent", "write", "errors", "timestamps", "info", "info_timestamp", "copy", "none">>
Made(call, failing) ==
  \E i, j \in DOMAIN Calls : Calls[i] = call /\ Calls[j] = failing /\ i < j

\* The dataset "data" becomes a copy of a row, all of it.
copyLatestToData(rows, row) == rows[row]

\* A call of write() whose checks succeed, with the first HDF5 exception (if
\* any) at failing.
writeSlice(m, failing) ==
  LET slice   == fromOffsetsSizes(m)
      records == RecordsWith(m.stamp)
      record  == records[m.stamp]
      row     == record.HDFIndex
      grown   == IF AddNewRow(m.stamp) /\ Made("extent", failing) THEN Append(histograms, Blank) ELSE histograms
      fresh   == Made("errors extent", failing) /\ hasEmptySlice(record, slice)
      written == fresh /\ Made("write", failing)
      counted == written /\ Made("errors", failing)
      stamped == counted /\ Made("timestamps", failing)
      items   == LinearSize(m.shape)
      after   == [ record EXCEPT !.Slices = IF fresh THEN @ \cup {slice} ELSE @,
                                 !.ItemsWritten = IF counted THEN @ + items ELSE @ ]
      cells   == [p \in Positions |-> IF p \in Covered(slice) THEN m.stamp ELSE grown[row][p]]
      flagOf(i) == IF i = row /\ isFull(after) THEN 1 ELSE IF i <= Len(timestamps) THEN timestamps[i][2] ELSE 0
  IN  /\ LargestTimestampSeen' = Max({LargestTimestampSeen, m.stamp})
      /\ HistogramRecords' = [records EXCEPT ![m.stamp] = after]
      /\ histograms' = IF written THEN [grown EXCEPT ![row] = cells] ELSE grown
      /\ errorRows' = IF AddNewRow(m.stamp) /\ Made("errors extent", failing) THEN Len(grown) ELSE errorRows
      /\ lostRow' = (lostRow \/ (AddNewRow(m.stamp) /\ failing = "extent"))
      /\ reused' = IF m.stamp \in DOMAIN HistogramRecords \/ AddNewRow(m.stamp) THEN reused ELSE reused \cup {row}
      /\ timestamps' = IF ~stamped THEN timestamps
                       ELSE [i \in 1..Cardinality(DOMAIN records) |->
                               << IF i = row THEN m.stamp ELSE IF i <= Len(timestamps) THEN timestamps[i][1] ELSE 0,
                                  flagOf(i) >>]
      /\ info' = IF m.info /\ stamped /\ Made("info", failing) THEN Append(info, m.stamp) ELSE info
      /\ latest' = IF stamped /\ Made("info_timestamp", failing) /\ Made("copy", failing) /\ isFull(after)
                   THEN copyLatestToData(histograms', row) ELSE latest

\* Calls that the message makes at all, and calls that must throw: a slice that
\* sticks out of the dataset, a row that is missing.
Makes(m, call) ==
  /\ call \in {"extent", "errors extent"} => AddNewRow(m.stamp)
  /\ call = "errors" => m.errors = "some"
  /\ call \in {"info", "info_timestamp"} => m.info
FitsRow(m, failing) ==
  LET slice == fromOffsetsSizes(m)
      rows  == Len(histograms) + (IF AddNewRow(m.stamp) THEN 1 ELSE 0)
      row   == RecordsWith(m.stamp)[m.stamp].HDFIndex
  IN  /\ Made("write", failing) =>
           row <= rows /\ \A i \in DOMAIN Sizes : slice.Offsets[i] + slice.Sizes[i] <= Sizes[i]
      /\ Made("errors", failing) /\ m.errors = "some" => AddNewRow(m.stamp) \/ row <= errorRows

Receive(m) ==
  /\ stage = "open"
  /\ received < MaxSlices
  /\ received' = received + 1
  /\ \/ /\ ~Acceptable(m)
        /\ UNCHANGED <<histograms, errorRows, latest, timestamps, info, HistogramRecords,
                       LargestTimestampSeen, faults, lostRow, reused>>
     \/ /\ Acceptable(m)
        /\ \E failing \in Range(Calls) :
             /\ failing = "none" \/ Makes(m, failing)
             /\ FitsRow(m, failing)
             /\ LET forced == ~FitsRow(m, "none")
                IN  /\ failing # "none" /\ ~forced => faults < MaxFaults
                    /\ faults' = faults + IF failing # "none" /\ ~forced THEN 1 ELSE 0
             /\ writeSlice(m, failing)
  /\ UNCHANGED <<types, stage>>

HNext == createHDFStructure \/ reOpen \/ \E m \in HMessages : Receive(m)

HSpec == HInit /\ [][HNext]_hvars

-----------------------------------------------------------------------------
(* Properties                                                              *)

\* A record that counts as full has a row in which every cell was written for
\* its time stamp: no slice was counted twice, none was counted that failed to
\* be written, and no other histogram was written to the row.  (A record whose
\* row could not be created shares its row with the next one. write() asks
\* isFull only after it has counted something; the record of a shape without
\* dimensions counts as full before that, and never afterwards.)
FullMeansComplete ==
  ~lostRow => \A t \in DOMAIN HistogramRecords :
    HistogramRecords[t].ItemsWritten > 0 /\ isFull(HistogramRecords[t]) =>
      \A p \in Positions : histograms[HistogramRecords[t].HDFIndex][p] = t

\* The dataset "data" never shows parts of two histograms: it is still empty or
\* all of it belongs to one time stamp.
DataIsOneHistogram ==
  ~lostRow => \E t \in Stamps \cup {0} : \A p \in Positions : latest[p] = t

\* The flag in "timestamps" is not taken back when a row is reused, and the row is
\* then filled with another histogram under it.  The flag of a row that was not
\* reused says that the row is the histogram of the time stamp beside it.
FlagMeansComplete ==
  ~lostRow => \A i \in DOMAIN timestamps \ reused :
    timestamps[i][2] = 1 => \A p \in Positions : histograms[i][p] = timestamps[i][1]

\* What the module may rely on when it copies a row, and a reader of the file: a
\* row whose record is full, a row flagged as complete that was never reused, and
\* the dataset "data" at any moment, are one histogram.
RowsAreHistograms == FullMeansComplete /\ FlagMeansComplete /\ DataIsOneHistogram
=============================================================================

--------------------------- MODULE WriterModules ---------------------------
(***************************************************************************)
(* One writer module over the life of a write job: the datasets are        *)
(* created by init_hdf, opened by reopen, and every message the stream     *)
(* delivers is passed to write().  All of this happens on one thread at a  *)
(* time, but any HDF5 call may throw: init_hdf and reopen turn that into   *)
(* InitResult::ERROR, an exception of write() ends the handling of that    *)
(* message only (MessageWriter counts it and goes on), and whatever was    *)
(* appended before it stays in the file.                                   *)
(***************************************************************************)
EXTENDS WriterScripts, FiniteSets

CONSTANTS
  Kinds,          \* the writer modules considered
  Configs(_),     \* the configurations of a module
  Messages(_),    \* the messages of its streams
  MaxMessages,    \* bound on the number of messages of a job
  MaxThrown       \* bound on the number of messages whose write() fails in HDF5

ASSUME BoundsAssumption == MaxMessages \in Nat /\ MaxThrown \in Nat

ASSUME KindsAssumption ==
  Kinds \subseteq {"f144", "f142", "ev42", "ev44", "se00", "senv", "tdct", "ADAr", "NDAr", "ns10", "ep00", "ep01", "al00"}

\* The fields of a message that are flatbuffer vectors.
VectorFields(w) ==
  CASE w = "ev42" -> {"tof", "id"}
    [] w = "ev44" -> {"tof", "id", "ref", "refIndex"}
    [] w \in {"f144", "f142"} -> {"vals"}
    [] w \in {"se00", "senv"} -> {"vals", "times"}
    [] w = "tdct" -> {"times"}
    [] OTHER -> {}

\* Messages are decoded flatbuffers; time stamps, identifiers and pulse data are
\* not negative, so that every dataset of theirs can hold them.
ASSUME MessagesAssumption ==
  \A w \in Kinds : \A m \in Messages(w) :
    /\ \A x \in VectorFields(w) : x \in DOMAIN m /\ m[x] \in Seq(IF x = "vals" THEN Int ELSE Nat)
    /\ w = "ev42" => "adc" \in DOMAIN m /\ m.adc \in [DOMAIN AdcDatasets -> Seq(Nat)]
    /\ w \in {"se00", "senv"} => "hasTimes" \in DOMAIN m

\* Cues are a positive number of events apart; with cue_interval 0 a message
\* without events would make a cue, for an event of an earlier message.
ASSUME IntervalAssumption ==
  \A w \in Kinds \cap {"ev42", "ev44"} : \A c \in Configs(w) : c.interval \in Nat \ {0}

VARIABLES
  kind,       \* the writer module
  cfg,        \* its configuration
  phase,      \* "configured", "created", "open" or "error"
  file,       \* the datasets created so far
  mem,        \* the members that write() reads and assigns
  k,          \* number of messages passed to write()
  thrown,     \* messages whose write() threw
  irregular   \* messages write() accepts although their parts do not fit

vars == <<kind, cfg, phase, file, mem, k, thrown, irregular>>

-----------------------------------------------------------------------------
(* Messages                                                                *)

\* Messages of which write() appends more rows to one dataset than to its
\* partner: an empty array of log data, vectors of different length.
IsIrregular(w, m) ==
  CASE w \in {"f144", "f142"} -> m.vals = <<>>
    [] w = "ev42" -> \/ Len(m.tof) # Len(m.id)
                     \/ cfg.adc /\ m.pulse /\ \E i \in DOMAIN m.adc : Len(m.adc[i]) # Len(m.tof)
    [] w = "ev44" -> Len(m.tof) # Len(m.id) \/ Len(m.ref) # Len(m.refIndex)
    [] w \in {"se00", "senv"} -> m.hasTimes /\ Len(m.times) # Len(m.vals)
    [] OTHER -> FALSE

-----------------------------------------------------------------------------
(* The module interface                                                    *)

init_hdf(w, c) ==
  CASE w = "f144" -> f144_init_hdf(c) [] w = "f142" -> f142_init_hdf(c)
    [] w = "ev42" -> ev42_init_hdf(c) [] w = "ev44" -> ev44_init_hdf(c)
    [] w = "se00" -> se00_init_hdf(c) [] w = "senv" -> senv_init_hdf(c)
    [] w = "tdct" -> tdct_init_hdf(c) [] w = "ADAr" -> ADAr_init_hdf(c)
    [] w = "NDAr" -> NDAr_init_hdf(c) [] w = "ns10" -> ns10_init_hdf(c)
    [] w = "ep00" -> ep00_init_hdf(c) [] w = "ep01" -> ep01_init_hdf(c)
    [] w = "al00" -> al00_init_hdf(c)

reopen(w, c) ==
  CASE w = "f144" -> f144_reopen [] w = "f142" -> f142_reopen
    [] w = "ev42" -> ev42_reopen(c) [] w = "ev44" -> ev44_reopen
    [] w = "se00" -> se00_reopen [] w = "senv" -> senv_reopen
    [] w = "tdct" -> tdct_reopen [] w = "ADAr" -> ADAr_reopen
    [] w = "NDAr" -> NDAr_reopen [] w = "ns10" -> ns10_reopen
    [] w = "ep00" -> ep00_reopen [] w = "ep01" -> ep01_reopen
    [] w = "al00" -> al00_reopen

write(w, m) ==
  CASE w = "f144" -> f144_write(cfg, file, mem, k + 1, m)
    [] w = "f142" -> f142_write(cfg, file, mem, k + 1, m)
    [] w = "ev42" -> ev42_write(cfg, file, mem, k + 1, m)
    [] w = "ev44" -> ev44_write(cfg, file, mem, k + 1, m)
    [] w = "se00" -> se00_write(cfg, file, mem, k + 1, m)
    [] w = "senv" -> senv_write(cfg, file, mem, k + 1, m)
    [] w = "tdct" -> tdct_write(cfg, file, mem, k + 1, m)
    [] w = "ADAr" -> ADAr_write(cfg, file, mem, k + 1, m)
    [] w = "NDAr" -> NDAr_write(cfg, file, mem, k + 1, m)
    [] w = "ns10" -> ns10_write(cfg, file, mem, k + 1, m)
    [] w = "ep00" -> ep00_write(cfg, file, mem, k + 1, m)
    [] w = "ep01" -> ep01_write(cfg, file, mem, k + 1, m)
    [] w = "al00" -> al00_write(cfg, file, mem, k + 1, m)

Members ==
  [ HasCheckedMessageType |-> FALSE, typeLog |-> "", NrOfWrites |-> 0, LastIndexAtWrite |-> 0,
    Min |-> 0, Max |-> 0, Sum |-> 0, TotalNrOfElementsWritten |-> 0,
    EventsWritten |-> 0, LastEventIndex |-> 0, EventsMetadata |-> 0, CueCounter |-> 0 ]

Init ==
  /\ kind \in Kinds
  /\ cfg \in Configs(kind)
  /\ phase = "configured"
  /\ file = <<>>
  /\ mem = Members
  /\ k = 0
  /\ thrown = {}
  /\ irregular = {}

\* init_hdf creates the datasets in order; an exception after done of them
\* leaves those in the file.
InitHDF ==
  /\ phase = "configured"
  /\ LET order == init_hdf(kind, cfg)
     IN  \E done \in 0..Len(order) :
           /\ file' = [ds \in {order[i][1] : i \in 1..done} |->
                         (CHOOSE p \in {order[i] : i \in 1..done} : p[1] = ds)[2]]
           /\ phase' = IF done = Len(order) /\ done > 0 THEN "created" ELSE "error"
  /\ UNCHANGED <<kind, cfg, mem, k, thrown, irregular>>

\* reopen: the value dataset of the waveform modules is opened through
\* ExtensibleDatasetBase.
Reopen ==
  /\ phase = "created"
  /\ LET order == reopen(kind, cfg)
     IN  \E done \in 0..Len(order) :
           /\ file' = [ds \in DOMAIN file |->
                         IF ds \notin {order[i] : i \in 1..done} THEN file[ds]
                         ELSE IF ds = "value" /\ kind \in {"se00", "senv"}
                              THEN OpenBase(file[ds]) ELSE OpenDataset(file[ds])]
           /\ phase' = IF done = Len(order) THEN "open" ELSE "error"
  /\ UNCHANGED <<kind, cfg, mem, k, thrown, irregular>>

-----------------------------------------------------------------------------
(* Executing a script                                                      *)

Appends == {"element", "vector", "array", "row"}
MayFail(step) == step.op \in Appends /\ ~(step.op = "array" /\ step.cells = <<>>)

\* acc: the datasets, the members, and whether an exception was thrown.
DoStep(acc, step, outcome) ==
  CASE step.op = "throw" -> [acc EXCEPT !.threw = TRUE]
    [] step.op = "set" -> [acc EXCEPT !.mem[step.member] = step.value]
    [] step.op = "element" ->
         [acc EXCEPT !.file[step.ds] = appendElement(@, step.cells[1], outcome), !.threw = outcome # "done"]
    [] step.op = "vector" ->
         [acc EXCEPT !.file[step.ds] = appendArray(@, step.cells, outcome), !.threw = outcome # "done"]
    [] step.op = "array" ->
         [acc EXCEPT !.file[step.ds] = appendAdapter(@, step.cells, outcome), !.threw = outcome # "done"]
    [] step.op = "row" ->
         IF ~RankFits(acc.file[step.ds], step.shape) THEN [acc EXCEPT !.threw = TRUE]
         ELSE [acc EXCEPT !.file[step.ds] = appendRow(@, step.cells[1], step.shape, outcome),
                          !.threw = outcome # "done"]

\* The script up to its first exception; step number at has the outcome given.
Execute(script, at, outcome) ==
  LET after[n \in 0..Len(script)] ==
        IF n = 0 THEN [file |-> file, mem |-> mem, threw |-> FALSE]
        ELSE LET acc == after[n - 1]
             IN  IF acc.threw THEN acc ELSE DoStep(acc, script[n], IF n = at THEN outcome ELSE "done")
  IN  after[Len(script)]

\* The message with its time stamp.
Stamped(m, t) == [x \in DOMAIN m \cup {"t"} |-> IF x = "t" THEN t ELSE m[x]]

Write(m) ==
  /\ phase = "open"
  /\ k < MaxMessages
  /\ LET msg    == Stamped(m, 10 * (k + 1))
         script == write(kind, msg)
         points == {i \in DOMAIN script : MayFail(script[i])}
         faults == IF Cardinality(thrown) < MaxThrown THEN points \X {"extent", "write"} ELSE {}
     IN  \E f \in {<<0, "done">>} \cup faults :
           LET end == Execute(script, f[1], f[2])
           IN  /\ file' = end.file
               /\ mem' = end.mem
               /\ thrown' = IF end.threw THEN thrown \cup {k + 1} ELSE thrown
  /\ k' = k + 1
  /\ irregular' = IF IsIrregular(kind, m) THEN irregular \cup {k + 1} ELSE irregular
  /\ UNCHANGED <<kind, cfg, phase>>

Next == InitHDF \/ Reopen \/ \E m \in Messages(kind) : Write(m)

Spec == Init /\ [][Next]_vars

-----------------------------------------------------------------------------
(* Properties                                                              *)

\* Every dataset has at least as many rows as its object has counted, its
\* chunk has the rank of the dataset and no empty dimension, and the members
\* are in range.
TypeOK ==
  /\ phase \in {"configured", "created", "open", "error"}
  /\ \A ds \in DOMAIN file :
       /\ \A i \in DOMAIN file[ds].rows : file[ds].rows[i].k \in 0..k
       /\ file[ds].n \in 0..Len(file[ds].rows)
       /\ Len(file[ds].chunk) = 1 + Len(file[ds].dims)
       /\ \A i \in DOMAIN file[ds].chunk : file[ds].chunk[i] > 0
  /\ thrown \cup irregular \subseteq 1..k
  /\ mem.LastIndexAtWrite <= mem.NrOfWrites /\ mem.NrOfWrites <= k
  /\ mem.typeLog \in {"", "same", "differs", "out of range"}

\* Datasets whose rows belong together.
Parallel(w) ==
  CASE w = "f144" -> {{"time", "value"}, {"cue_index", "cue_timestamp_zero"}}
    [] w = "f142" -> {{"time", "value"}, {"cue_index", "cue_timestamp_zero"},
                      {"alarm_time", "alarm_status", "alarm_severity"}}
    [] w = "ev42" -> {{"event_id", "event_time_offset"} \cup
                         (IF cfg.adc THEN {AdcDatasets[i] : i \in DOMAIN AdcDatasets} ELSE {}),
                      {"event_time_zero", "event_index"}, {"cue_index", "cue_timestamp_zero"}}
    [] w = "ev44" -> {{"event_id", "event_time_offset"}, {"event_time_zero", "event_time_zero_index"},
                      {"cue_index", "cue_timestamp_zero"}}
    [] w = "tdct" -> {{"cue_index", "cue_timestamp_zero"}}
    [] w \in {"ep00", "ep01"} -> {{"connection_status", "connection_status_time"}}
    [] w = "al00" -> {{"alarm_time", "alarm_severity", "alarm_message"}}
    [] OTHER -> {{"value", "time"}, {"cue_index", "cue_timestamp_zero"}}

\* The messages that the rows of a dataset come from, without those that were
\* not handled completely.
Survivors(ds) ==
  LET rows == SelectSeq(file[ds].rows, LAMBDA c : c.k \notin {0} \cup thrown \cup irregular)
  IN  [i \in DOMAIN rows |-> rows[i].k]

\* What a message that fails in the middle of write(), or is irregular, can do to
\* the datasets that belong together.  The messages handled completely have all
\* their rows in each of them, in the same order.  Rows of equal number belong
\* together up to the first failure; from there on they are shifted, where a
\* message has one row by at most one row for each failed message.  Logs miss at
\* most one cue for each of them; images and cache entries get their cues as long
\* as no message failed (the counter of a cue whose append failed is not reset,
\* and passes the interval).
Failed == thrown \cup irregular
FirstFailed == CHOOSE n \in Failed \cup {k + 1} : \A f \in Failed : n <= f
OneRowKinds == {"f144", "f142", "ADAr", "NDAr", "ns10", "ep00", "ep01", "al00"}
PairedUntilFailure(a, b) ==
  \A i \in DOMAIN file[a].rows : file[a].rows[i].k \in 1..(FirstFailed - 1) =>
    i \in DOMAIN file[b].rows /\ file[b].rows[i].k = file[a].rows[i].k
CuesMissing ==
  CASE kind \in {"f144", "f142"} -> mem.NrOfWrites \div cfg.interval - Extent(file, "cue_index")
    [] kind \in {"ADAr", "NDAr", "ns10"} /\ thrown = {} -> k \div cfg.interval - Extent(file, "cue_index")
    [] OTHER -> 0
DamageIsBounded ==
  phase = "open" =>
    /\ \A g \in Parallel(kind) : \A a, b \in g :
         /\ Survivors(a) = Survivors(b)
         /\ PairedUntilFailure(a, b)
         /\ kind \in OneRowKinds => Extent(file, a) <= Extent(file, b) + Cardinality(Failed)
    /\ CuesMissing \in 0..Cardinality(thrown)

\* As long as no message failed or was irregular, every entry of cue_index and
\* of event_index is the number, as far as an uint32 can hold it, of a row of the
\* message that made the entry (of a message without events, of the place between
\* the earlier and the later messages), and a cue of a log or image carries the
\* time stamp of that row.
IndexTargets(w) ==
  CASE w \in {"ev42", "ev44"} -> {<<"cue_index", "event_id">>, <<"event_index", "event_id">>}
    [] w \in {"f144", "f142", "ADAr", "NDAr", "ns10", "se00", "senv"} ->
         {<<"cue_index", "time">>, <<"cue_index", "value">>}
    [] w = "tdct" -> {<<"cue_index", "time">>}
    [] OTHER -> {}
TimedCues == {"f144", "f142", "ADAr", "NDAr"}
StoredNumber(w, row) == IF w \in {"se00", "senv", "tdct"} THEN CastRowNumber(row - 1) ELSE RowNumber(row - 1)
IndexesFindTheirMessage ==
  phase = "open" /\ thrown = {} /\ irregular = {} =>
    \A p \in IndexTargets(kind) : \A i \in DOMAIN file[p[1]].rows :
      LET entry == file[p[1]].rows[i]
          rows  == file[p[2]].rows
      IN  \E row \in 1..(Len(rows) + 1) :
            /\ entry.x[1] = StoredNumber(kind, row)
            /\ \/ /\ row <= Len(rows) /\ rows[row].k = entry.k
                  /\ kind \in TimedCues /\ p[2] = "time" => file["cue_timestamp_zero"].rows[i].x = rows[row].x
               \/ p[1] = "event_index" /\ \A j \in DOMAIN rows : (rows[j].k > entry.k) <=> (j >= row)

\* The statistics of a log, taken before the conversion, against the values in
\* the file, as long as no message failed or was an empty array: the smallest and
\* the largest value in the file are what the conversion makes of the minimum and
\* the maximum; when it changes neither, the sum is that of the values in the file.
ElementType == IF kind = "f144" THEN f144_config_post_processing(cfg) ELSE f142_config_post_processing(cfg)

\* No step changes or removes a row that an earlier append completed.
CompletedRowsStay ==
  [][\A ds \in DOMAIN file : LET done == IF file[ds].dims = <<>> THEN file[ds].n ELSE Len(file[ds].rows)
                             IN  /\ Len(file'[ds].rows) >= done
                                 /\ \A i \in 1..done : file'[ds].rows[i] = file[ds].rows[i]]_vars
=============================================================================

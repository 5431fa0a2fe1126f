--------------------------- MODULE WriterScripts ---------------------------
(***************************************************************************)
(* What the writer modules of WriterModule/ do with their datasets.  The   *)
(* write() of a module is a sequence of steps on one thread: appends to    *)
(* datasets, assignments to members and, possibly, an exception.  It is    *)
(* given here as a script, computed from the members (mem), the datasets   *)
(* (file), the configuration (cfg), the number k of the message and the    *)
(* message m; the module WriterModules executes scripts and lets any of    *)
(* their appends fail.  Also here: the datasets a module creates in        *)
(* init_hdf and the order in which reopen opens them, the configured       *)
(* element type, and the comparison of that type with the first message.   *)
(* Of the encoding of numbers the element types are kept: HDF5 converts    *)
(* what is appended to the type of the dataset.                            *)
(***************************************************************************)
EXTENDS DatasetOps

CONSTANT UInt32Values  \* number of values of std::uint32_t, the type of the indexes: 2^32

ASSUME UInt32Assumption == UInt32Values \in Nat \ {0}

\* Steps of a script.
Cell(k, x) == [k |-> k, x |-> x]
Cells(k, xs) == [i \in DOMAIN xs |-> Cell(k, <<xs[i]>>)]
Element(ds, k, x) == [op |-> "element", ds |-> ds, cells |-> <<Cell(k, <<x>>)>>]
Vector(ds, k, xs) == [op |-> "vector", ds |-> ds, cells |-> Cells(k, xs)]
Array(ds, k, xs)  == [op |-> "array", ds |-> ds, cells |-> Cells(k, xs)]
Row(ds, k, x, shape) ==
  [op |-> "row", ds |-> ds, cells |-> <<Cell(k, x)>>, shape |-> shape]
Set(member, value) == [op |-> "set", member |-> member, value |-> value]
Throw == [op |-> "throw"]
When(condition, steps) == IF condition THEN steps ELSE <<>>

Extent(file, ds) == Len(file[ds].rows)
SumOf(s) == FoldLeft(LAMBDA a, b : a + b, 0, s)
Least(a, b) == IF a < b THEN a ELSE b
Greatest(a, b) == IF a > b THEN a ELSE b
Ints == {"int8", "uint8", "int16", "uint16", "int32", "uint32", "int64", "uint64"}
Floats == {"float32", "float64"}

\* HDF5 converts to the nearest value of the dataset's type.  Types that are not
\* listed hold all the numbers considered.
TypeMin == [int8 |-> -128, uint8 |-> 0, int16 |-> -32768, uint16 |-> 0, uint32 |-> 0, uint64 |-> 0]
TypeMax == [int8 |-> 127, uint8 |-> 255, int16 |-> 32767, uint16 |-> 65535, uint32 |-> UInt32Values - 1]
Convert(type, v) ==
  LET raised == IF type \in DOMAIN TypeMin THEN Greatest(v, TypeMin[type]) ELSE v
  IN  IF type \in DOMAIN TypeMax THEN Least(raised, TypeMax[type]) ELSE raised
ConvertAll(type, vals) == [i \in DOMAIN vals |-> Convert(type, vals[i])]

\* The number of a row as it is stored in an index: most modules leave its
\* conversion to HDF5, the others cast it.
RowNumber(row) == Convert("uint32", row)
CastRowNumber(row) == row % UInt32Values

\* Configured element type: a name the map lacks leaves the default.
Configured(map, name, default) == IF name \in DOMAIN map THEN map[name] ELSE default
Same(names) == [t \in names |-> t]

\* msgTypeIsConfigType: what is logged for the first message.
TypeComparison(known, configured, elem) ==
  IF elem \notin known THEN "out of range"
  ELSE IF elem # configured THEN "differs" ELSE "same"
CheckType(mem, known, configured, elem) ==
  When(~mem.HasCheckedMessageType,
       << Set("typeLog", TypeComparison(known, configured, elem)),
          Set("HasCheckedMessageType", TRUE) >>)

-----------------------------------------------------------------------------
(* f144 and f142: log data                                                 *)

LogAliases == [ float |-> "float32", double |-> "float64", short |-> "int16",
                int |-> "int32", long |-> "int64" ]
LogTypeMap == [ t \in Ints \cup Floats \cup DOMAIN LogAliases |->
                  IF t \in DOMAIN LogAliases THEN LogAliases[t] ELSE t ]
f144_config_post_processing(cfg) == Configured(LogTypeMap, cfg.type, "float64")
f142_config_post_processing(cfg) == Configured(LogTypeMap, cfg.type, "float64")

f144_init_hdf(cfg) ==
  << <<"time", ExtensibleDataset(cfg.chunk[1])>>,
     <<"cue_timestamp_zero", ExtensibleDataset(cfg.chunk[1])>>,
     <<"cue_index", ExtensibleDataset(cfg.chunk[1])>>,
     <<"value", MultiDimDataset(cfg.shape, cfg.chunk \o cfg.shape)>> >>
f142_init_hdf(cfg) ==
  f144_init_hdf(cfg) \o << <<"alarm_time", ExtensibleDataset(1024)>>,
                           <<"alarm_status", ExtensibleDataset(1024)>>,
                           <<"alarm_severity", ExtensibleDataset(1024)>> >>

f144_reopen == <<"time", "cue_index", "cue_timestamp_zero", "value">>
f142_reopen == f144_reopen \o <<"alarm_time", "alarm_status", "alarm_severity">>

\* The comparison table of f144 lists ArrayByte twice and UByte never.
f144_Known(m) == (Ints \cup Floats) \ (IF m.array THEN {} ELSE {"uint8"})
f142_Known(m) == Ints \cup Floats

\* appendData and appendScalarData: an empty array appends no row and returns
\* a ValuesInformation full of zeros.
ValuesInformation(vals) ==
  IF vals = <<>> THEN [Min |-> 0, Max |-> 0, Sum |-> 0, NrOfElements |-> 0]
  ELSE [ Min |-> FoldLeft(Least, vals[1], vals), Max |-> FoldLeft(Greatest, vals[1], vals),
         Sum |-> SumOf(vals), NrOfElements |-> Len(vals) ]
appendData(type, k, m) ==
  When(m.vals # <<>>, <<Row("value", k, ConvertAll(type, m.vals), <<Len(m.vals)>>)>>)

\* The statistics part of write(), made from the values before the conversion.
LogStatistics(mem, m) ==
  LET info == ValuesInformation(m.vals)
      first == mem.TotalNrOfElementsWritten = 0
  IN  << Set("Min", Least(IF first THEN info.Min ELSE mem.Min, info.Min)),
         Set("Max", Greatest(IF first THEN info.Max ELSE mem.Max, info.Max)),
         Set("Sum", mem.Sum + info.Sum),
         Set("TotalNrOfElementsWritten", mem.TotalNrOfElementsWritten + info.NrOfElements) >>

\* The cue part of write(): every ValueIndexInterval-th message gets a cue.
LogCue(cfg, mem, k, m) ==
  LET writes == mem.NrOfWrites + 1
  IN  << Set("NrOfWrites", writes) >> \o
      When((writes - mem.LastIndexAtWrite) \div cfg.interval > 0,
           << Set("LastIndexAtWrite", writes),
              Element("cue_index", k, RowNumber(writes - 1)),
              Element("cue_timestamp_zero", k, m.t) >>)


f144_write(cfg, file, mem, k, m) ==
  << Element("time", k, m.t) >>
  \o CheckType(mem, f144_Known(m), f144_config_post_processing(cfg), m.elem)
  \o (IF m.elem \notin Ints \cup Floats THEN <<Throw>>
      ELSE appendData(f144_config_post_processing(cfg), k, m) \o LogCue(cfg, mem, k, m)
           \o When(cfg.meta, LogStatistics(mem, m)))

\* Only changes of the alarm are recorded; a status the map lacks becomes
\* UNRECOGNISED_STATUS and a severity without a counterpart the map's default.
AlarmStatuses == {"NO_ALARM", "HIGH", "UDF", "NO_CHANGE"}
AlarmStatusToString(status) == IF status \in AlarmStatuses THEN 1 ELSE 0
F142SeverityToAl00Severity == [ MINOR |-> 1, MAJOR |-> 2, NO_ALARM |-> 0, INVALID |-> 3, NO_CHANGE |-> 3 ]

f142_write(cfg, file, mem, k, m) ==
  << Element("time", k, m.t) >>
  \o CheckType(mem, f142_Known(m), f142_config_post_processing(cfg), m.elem)
  \o (IF m.elem \notin Ints \cup Floats THEN <<Throw>>
      ELSE appendData(f142_config_post_processing(cfg), k, m) \o LogCue(cfg, mem, k, m)
           \o When(cfg.meta, LogStatistics(mem, m))
           \o When(m.status # "NO_CHANGE",
                   << Element("alarm_time", k, m.t),
                      Element("alarm_status", k, AlarmStatusToString(m.status)),
                      Element("alarm_severity", k, F142SeverityToAl00Severity[m.severity]) >>))

-----------------------------------------------------------------------------
(* ev42 and ev44: events                                                   *)

EventDatasets(cfg, names) == [i \in DOMAIN names |-> <<names[i], ExtensibleDataset(cfg.chunk[1])>>]
AdcDatasets == <<"adc_pulse_amplitude", "adc_pulse_peak_area", "adc_pulse_background",
                 "adc_pulse_threshold_time", "adc_pulse_peak_time">>
ev42_init_hdf(cfg) ==
  EventDatasets(cfg, <<"event_time_offset", "event_id", "event_time_zero", "event_index",
                       "cue_index", "cue_timestamp_zero">> \o When(cfg.adc, AdcDatasets))
ev42_reopen(cfg) ==
  <<"event_time_offset", "event_id", "event_time_zero", "event_index", "cue_index",
    "cue_timestamp_zero">> \o When(cfg.adc, AdcDatasets)
ev44_init_hdf(cfg) ==
  EventDatasets(cfg, <<"event_time_offset", "event_id", "event_time_zero",
                       "event_time_zero_index", "event_index", "cue_index", "cue_timestamp_zero">>)
ev44_reopen ==
  <<"event_time_offset", "event_id", "event_time_zero", "event_time_zero_index",
    "event_index", "cue_index", "cue_timestamp_zero">>

\* A read behind the end of a flatbuffer vector is undefined.
Undefined == -1
At(s, i) == IF i \in DOMAIN s THEN s[i] ELSE Undefined

\* The index and cue part of an event writer; t0 is the message's first
\* reference time.
EventCue(cfg, mem, k, m, t0) ==
  LET events == mem.EventsWritten + Len(m.id)
      last   == At(m.tof, Len(m.id))
  IN  << Element("event_index", k, RowNumber(mem.EventsWritten)), Set("EventsWritten", events) >> \o
      When(events > mem.LastEventIndex + cfg.interval,
           << Element("cue_timestamp_zero", k, IF last = Undefined THEN Undefined ELSE t0 + last),
              Element("cue_index", k, RowNumber(events - 1)),
              Set("LastEventIndex", events - 1) >>)

\* Pulse data of the detector, five vectors of any length, or zeros where the
\* message has none.
writeAdcPulseDataFromMessageToFile(k, m) ==
  [i \in DOMAIN AdcDatasets |-> Array(AdcDatasets[i], k, m.adc[i])]
padDatasetsWithZeroesEqualToNumberOfEvents(k, m) ==
  [i \in DOMAIN AdcDatasets |-> Array(AdcDatasets[i], k, [j \in DOMAIN m.tof |-> 0])]

\* Mutant: a message without pulse data is not padded.
writeAdcPulseData_NoPadding(k, m) ==
  When(m.pulse, writeAdcPulseDataFromMessageToFile(k, m))

writeAdcPulseData(k, m) ==
  IF m.pulse THEN writeAdcPulseDataFromMessageToFile(k, m)
  ELSE padDatasetsWithZeroesEqualToNumberOfEvents(k, m)

ev42_write(cfg, file, mem, k, m) ==
  << Array("event_time_offset", k, m.tof), Array("event_id", k, m.id),
     Element("event_time_zero", k, m.t) >>
  \o EventCue(cfg, mem, k, m, m.t)
  \o When(cfg.adc, writeAdcPulseData(k, m))
  \o << Set("EventsMetadata", mem.EventsWritten + Len(m.id)) >>

ev44_write(cfg, file, mem, k, m) ==
  << Array("event_time_offset", k, m.tof), Array("event_id", k, m.id),
     Array("event_time_zero", k, m.ref), Array("event_time_zero_index", k, m.refIndex) >>
  \o EventCue(cfg, mem, k, m, At(m.ref, 1))
  \o << Set("EventsMetadata", mem.EventsWritten + Len(m.id)) >>

-----------------------------------------------------------------------------
(* se00 and senv: waveforms; tdct: chopper time stamps                     *)

se00_config_post_processing(cfg) ==
  Configured([t \in Ints \cup {"float", "double"} |->
                IF t = "float" THEN "float32" ELSE IF t = "double" THEN "float64" ELSE t],
             cfg.type, "int64")
senv_config_post_processing(cfg) == Configured(Same(Ints), cfg.type, "int64")

\* The dataset for values, of whichever element type.
se00_initValueDataset(cfg) == EventDatasets(cfg, <<"value">>)
senv_initValueDataset(cfg) == EventDatasets(cfg, <<"value">>)

se00_init_hdf(cfg) ==
  se00_initValueDataset(cfg) \o EventDatasets(cfg, <<"time", "cue_index", "cue_timestamp_zero">>)
senv_init_hdf(cfg) ==
  senv_initValueDataset(cfg) \o EventDatasets(cfg, <<"time", "cue_index", "cue_timestamp_zero">>)
tdct_init_hdf(cfg) == EventDatasets(cfg, <<"time", "cue_index", "cue_timestamp_zero">>)
se00_reopen == <<"value", "time", "cue_index", "cue_timestamp_zero">>
senv_reopen == <<"value", "time", "cue_index", "cue_timestamp_zero">>
tdct_reopen == <<"time", "cue_index", "cue_timestamp_zero">>

GenerateTimeStamps(origin, delta, count) == [i \in 1..count |-> origin + (i - 1) * delta]

\* The body shared by se00 and senv: types is the set of the switch's cases.  A
\* message may have a vector of time stamps, also an empty one.
WaveformSteps(types, configured, file, mem, k, m) ==
  LET values == IF m.elem \in types THEN ConvertAll(configured, m.vals) ELSE <<>>
  IN  CheckType(mem, types, configured, m.elem)
      \o << Array("value", k, values) >>
      \o When(values # <<>>,
              << Element("cue_index", k, CastRowNumber(Extent(file, "value"))),
                 Element("cue_timestamp_zero", k, m.t),
                 IF m.hasTimes THEN Array("time", k, m.times)
                 ELSE Vector("time", k, GenerateTimeStamps(m.t, m.delta, Len(values))) >>)

se00_write(cfg, file, mem, k, m) ==
  WaveformSteps(Ints \cup Floats, se00_config_post_processing(cfg), file, mem, k, m)
senv_write(cfg, file, mem, k, m) ==
  WaveformSteps(Ints, senv_config_post_processing(cfg), file, mem, k, m)

\* Mutant: the index is taken after the time stamps were appended.
tdct_write_IndexAfter(cfg, file, mem, k, m) ==
  When(m.times # <<>>,
       << Element("cue_index", k, CastRowNumber(Extent(file, "time") + Len(m.times))),
          Element("cue_timestamp_zero", k, m.times[1]),
          Array("time", k, m.times) >>)

tdct_write(cfg, file, mem, k, m) ==
  When(m.times # <<>>,
       << Element("cue_index", k, CastRowNumber(Extent(file, "time"))),
          Element("cue_timestamp_zero", k, m.times[1]),
          Array("time", k, m.times) >>)

-----------------------------------------------------------------------------
(* ADAr and NDAr: area detectors; ns10: NICOS cache entries                *)

\* Scaled for the model: nanoseconds per second, and the EPICS epoch.
NSecMultiplier == 100
TimeDiffUNIXtoEPICSepoch == 7
epicsTimeToNsec(sec, nsec) == (sec + TimeDiffUNIXtoEPICSepoch) * NSecMultiplier + nsec

AreaTypes == Ints \cup Floats \cup {"c_string"}
ADAr_config_post_processing(cfg) == Configured(Same(AreaTypes), cfg.type, "float64")
NDAr_config_post_processing(cfg) == Configured(Same(AreaTypes), cfg.type, "float64")

\* The first chunk size is read outside the try block: an empty one throws.
AreaDatasets(cfg) ==
  << <<"value", MultiDimDataset(cfg.shape, cfg.chunk)>>, <<"time", ExtensibleDataset(cfg.chunk[1])>>,
     <<"cue_index", ExtensibleDataset(cfg.chunk[1])>>,
     <<"cue_timestamp_zero", ExtensibleDataset(cfg.chunk[1])>> >>
ADAr_init_hdf(cfg) == When(cfg.chunk # <<>>, AreaDatasets(cfg))
NDAr_init_hdf(cfg) == When(cfg.chunk # <<>>, AreaDatasets(cfg))
ADAr_reopen == <<"value", "time", "cue_index", "cue_timestamp_zero">>
NDAr_reopen == <<"value", "time", "cue_index", "cue_timestamp_zero">>
ns10_init_hdf(cfg) == EventDatasets(cfg, <<"value", "time", "cue_index", "cue_timestamp_zero">>)
ns10_reopen == <<"value", "time", "cue_index", "cue_timestamp_zero">>

\* Every CueInterval-th message gets a cue for its row of the time dataset.
CounterCue(cfg, file, mem, k, cueTime) ==
  IF mem.CueCounter + 1 = cfg.interval
  THEN << Set("CueCounter", mem.CueCounter + 1), Element("cue_index", k, RowNumber(Extent(file, "time"))),
          Element("cue_timestamp_zero", k, cueTime), Set("CueCounter", 0) >>
  ELSE << Set("CueCounter", mem.CueCounter + 1) >>

ADAr_write(cfg, file, mem, k, m) ==
  CheckType(mem, Ints \cup Floats, ADAr_config_post_processing(cfg), m.elem)
  \o (IF m.elem \notin AreaTypes THEN <<Throw>>
      ELSE << Row("value", k, <<m.t>>, m.shape), Element("time", k, m.t) >>
           \o CounterCue(cfg, file, mem, k, m.t))

NDAr_write(cfg, file, mem, k, m) ==
  LET time == epicsTimeToNsec(m.t, 1)
  IN  IF m.elem \notin AreaTypes \ {"int64", "uint64"} THEN <<Throw>>
      ELSE << Row("value", k, <<m.t>>, m.shape), Element("time", k, time) >>
           \o CounterCue(cfg, file, mem, k, time)

\* The time of a cache entry is in seconds; it is stored in nanoseconds in
\* time and as it is in cue_timestamp_zero.
ns10_write(cfg, file, mem, k, m) ==
  IF ~m.complete \/ ~m.isNumber THEN <<Throw>>
  ELSE << Element("value", k, 1), Element("time", k, NSecMultiplier * m.t) >>
       \o CounterCue(cfg, file, mem, k, m.t)

-----------------------------------------------------------------------------
(* ep00 and ep01: EPICS connection status; al00: EPICS alarms              *)

ep00_init_hdf(cfg) == EventDatasets(cfg, <<"connection_status_time", "connection_status">>)
ep01_init_hdf(cfg) == EventDatasets([chunk |-> <<1024>>], <<"connection_status_time", "connection_status">>)
ep00_reopen == <<"connection_status_time", "connection_status">>
ep01_reopen == <<"connection_status_time", "connection_status">>
ep00_write(cfg, file, mem, k, m) ==
  << Element("connection_status", k, m.status), Element("connection_status_time", k, m.t) >>
ep01_write(cfg, file, mem, k, m) ==
  << Element("connection_status", k, m.status), Element("connection_status_time", k, m.t) >>

al00_init_hdf(cfg) ==
  EventDatasets([chunk |-> <<1024>>], <<"alarm_message", "alarm_time", "alarm_severity">>)
al00_reopen == <<"alarm_time", "alarm_severity", "alarm_message">>

\* An empty text is replaced by "NO ALARM MESSAGE" (9 here).
al00_write(cfg, file, mem, k, m) ==
  << Element("alarm_time", k, m.t), Element("alarm_severity", k, m.severity),
     Element("alarm_message", k, IF m.text = 0 THEN 9 ELSE m.text) >>
=============================================================================

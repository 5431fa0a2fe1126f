---------------------------- MODULE JobCreation ----------------------------
(***************************************************************************)
(* The main thread from the start command to the end of the write job:     *)
(* Master::startWriting calls createFileWritingJob, which creates the file *)
(* and its structure, initialises the writer modules one by one, adds the  *)
(* links, reopens the file in SWMR mode and opens the modules for writing. *)
(* An exception on the way destroys what exists so far, and the program    *)
(* waits for the next start command.  Once the job exists the status topic *)
(* is switched; if that fails the job stays, running, while the state is   *)
(* Idle and the next start command is accepted: here it is the orphan.     *)
(* The metadata tracker and the files on disk outlive all jobs.            *)
(***************************************************************************)
EXTENDS HdfObjects, RemoveIf, FiniteSets

CONSTANTS
  FileNames,    \* names that start commands give
  Structures,   \* nexus structures that start commands give
  InitialisedFile(_),  \* of a structure: the [objects, infos] that HDFFileBase::init makes of it
  Registry,     \* module name -> [datasets, extra, meta, required]
  MaxJobs,      \* bound on the number of start commands
  MaxHdfFaults  \* bound on the number of HDF5 faults

ASSUME JobBounds == MaxJobs \in Nat /\ MaxHdfFaults \in Nat

\* The datasets of a module and the modules that it brings are listed in an order.
ASSUME RegistryAssumption ==
  \A w \in DOMAIN Registry :
    Registry[w].datasets \in Seq(STRING) /\ Registry[w].extra \in Seq(STRING) /\ Registry[w].meta \in Seq(STRING)

\* What init finds are modules with their group, in the order of the structure.
ASSUME InfosAssumption ==
  \A s \in Structures :
    LET infos == InitialisedFile(s).infos
    IN  /\ infos \in Seq(Range(infos))
        /\ \A m \in Range(infos) : /\ DOMAIN m = {"WriterModule", "HDFParentName", "ConfigStream", "found"}
                                   /\ m.HDFParentName \in Seq(STRING)

\* What init creates are groups and datasets, each in a group.
ASSUME ObjectsAssumption ==
  \A s \in Structures :
    LET objects == InitialisedFile(s).objects
    IN  \A p \in DOMAIN objects : /\ DOMAIN objects[p] = {"what", "attrs", "content"}
                                  /\ objects[p].what \in {"group", "dataset"}
                                  /\ p # <<>> => Front(p) \in DOMAIN objects

VARIABLES
  jobStage,   \* "idle", "initialising", "opening" or "writing"
  job,        \* number of start commands so far
  structure,  \* the structure of the current job
  name,       \* its file name
  openFile,   \* the open file: its objects
  SWMRMode,   \* of the open file
  streams,    \* StreamSettingsList
  next,       \* the stream that is handled next
  links,      \* LinkSettingsList
  Writables,  \* of the mdat writer: name -> path
  sources,    \* SourceToModuleMap of the task
  tracker,    \* KnownMetaData: values with their path, name and job
  disk,       \* closed files: name -> [objects, job, orphaned]
  orphan,     \* the job of a start that failed at the status topic
  hdfFaults

jobVars == <<structure, name, openFile, SWMRMode, streams, next, links, Writables, sources>>
jvars == <<jobStage, job, structure, name, openFile, SWMRMode, streams, next, links, Writables, sources, tracker, disk, orphan, hdfFaults>>

NoOrphan == [name |-> "", objects |-> <<>>, Writables |-> <<>>, job |-> 0]

JInit ==
  /\ jobStage = "idle" /\ job = 0
  /\ structure = <<>> /\ name = "" /\ openFile = <<>> /\ SWMRMode = FALSE
  /\ streams = <<>> /\ next = 1 /\ links = <<>> /\ Writables = <<>> /\ sources = <<>>
  /\ tracker = <<>> /\ disk = <<>> /\ orphan = NoOrphan /\ hdfFaults = 0

Fault == hdfFaults < MaxHdfFaults /\ hdfFaults' = hdfFaults + 1
NoFault == UNCHANGED hdfFaults

-----------------------------------------------------------------------------
(* The end of a file                                                       *)

\* The values that are written to a path: those of its group and name, if the
\* group exists and is not a dataset.
ValuesFor(objects, p) ==
  {i \in DOMAIN tracker : /\ tracker[i].path \in DOMAIN objects /\ objects[tracker[i].path].what = "group"
                          /\ p = Append(tracker[i].path, tracker[i].name)}

\* ~HDFFile: addMetaData switches to regular mode and writes all that the
\* tracker knows; a dataset that exists already is left as it is.
addMetaData(objects) ==
  LET paths == {Append(tracker[i].path, tracker[i].name) : i \in DOMAIN tracker}
  IN  [p \in DOMAIN objects \cup {q \in paths : ValuesFor(objects, q) # {}} |->
         IF p \in DOMAIN objects THEN objects[p]
         ELSE Object("metadata", tracker[Min(ValuesFor(objects, p))].job)]

\* writeMetadata of the mdat writer: one string dataset per defined name.
writeMetadata(r) ==
  LET paths == {Append(r.Writables[n], n) : n \in {m \in DOMAIN r.Writables : r.Writables[m] \in DOMAIN r.objects}}
  IN  [p \in DOMAIN r.objects \cup paths |->
         IF p \in DOMAIN r.objects THEN r.objects[p] ELSE Object("metadata", r.job)]

\* The file of a job that was running, as ~StreamController and ~HDFFile leave it.
EndOf(r, orphaned) ==
  With(disk, r.name, [objects |-> addMetaData(writeMetadata(r)), job |-> r.job, orphaned |-> orphaned])

\* The job that was created last, and its file.
Running == [name |-> name, objects |-> openFile, Writables |-> Writables, job |-> job]

\* The file of the job that is being created, left as it is.
Left(f, j, objects) == With(disk, f, [objects |-> objects, job |-> j, orphaned |-> FALSE])

NoJob ==
  /\ structure' = <<>> /\ name' = "" /\ openFile' = <<>> /\ SWMRMode' = FALSE
  /\ streams' = <<>> /\ next' = 1 /\ links' = <<>> /\ Writables' = <<>> /\ sources' = <<>>

\* An exception leaves createFileWritingJob: the task and its file are destroyed.
JobFails(objects) ==
  /\ jobStage' = "idle"
  /\ disk' = Left(name, job, addMetaData(objects))
  /\ NoJob
  /\ UNCHANGED <<job, tracker, orphan>>

-----------------------------------------------------------------------------
(* startWriting and the first half of createFileWritingJob                 *)

\* Mutant: an existing file is replaced.
CanCreate_Replaces(f) == f # ""

\* InitialiseHdf and createFileInRegularMode: the file must not exist.
CanCreate(f) == f # "" /\ f # orphan.name /\ f \notin DOMAIN disk

AllowedNames == {"start_time", "end_time"}

\* extractDetails of the mdat writer: a later module of the same name wins.
extractDetails(infos) ==
  FoldLeft(LAMBDA d, m : IF FieldValue(m.ConfigStream, <<"name">>, "") \in AllowedNames
                         THEN With(d, m.ConfigStream.name, m.HDFParentName) ELSE d,
           <<>>, infos)

isMdat(m) == m.WriterModule = "mdat"
isLink(m) == m.WriterModule = "link"
isExtracted(m) ==
  m.WriterModule # "" /\ HasRequired(m.ConfigStream, {<<"source">>, IF isLink(m) THEN <<"name">> ELSE <<"topic">>})

\* Mutant: the tracker is not cleared before a job.
TrackerAtStart_Kept == Append(tracker, [path |-> <<>>, name |-> "approx_file_size_mb", job |-> job + 1])

\* clearMetaData, then the constructor of FileWriterTask.
TrackerAtStart == <<[path |-> <<>>, name |-> "approx_file_size_mb", job |-> job + 1]>>

startWriting(f, s) ==
  /\ jobStage = "idle"
  /\ job < MaxJobs
  /\ job' = job + 1
  /\ tracker' = TrackerAtStart
  /\ UNCHANGED orphan
  /\ LET made    == InitialisedFile(s)
         modules == {m \in Range(made.infos) : ~isMdat(m) /\ isExtracted(m)}
     IN  \/ /\ CanCreate(f)
            /\ jobStage' = "initialising"
            /\ structure' = s /\ name' = f /\ SWMRMode' = FALSE
            /\ openFile' = made.objects
            /\ Writables' = extractDetails(SelectSeq(made.infos, isMdat))
            /\ streams' = Kept(made.infos, {m \in modules : ~isLink(m)})
            /\ links' = Kept(made.infos, {m \in modules : isLink(m)})
            /\ next' = 1 /\ sources' = <<>>
            /\ NoFault
            /\ UNCHANGED disk
         \/ \* the file cannot be created
            /\ (CanCreate(f) /\ Fault) \/ (~CanCreate(f) /\ NoFault)
            /\ jobStage' = "idle"
            /\ NoJob
            /\ UNCHANGED disk
         \/ \* the file was created and HDFFileBase::init throws: no HDFFile, so no metadata
            /\ CanCreate(f) /\ Fault
            /\ jobStage' = "idle"
            /\ disk' = Left(f, job + 1, made.objects)
            /\ NoJob

-----------------------------------------------------------------------------
(* The writer modules                                                      *)

\* The datasets of a module, created in their order up to the first name that
\* is taken, or until HDF5 fails after done of them.  Either makes init_hdf
\* return ERROR, which the caller ignores.
initModule(objects, group, module, done) ==
  LET ds    == Registry[module].datasets
      upTo  == CHOOSE n \in 0..done : /\ \A i \in 1..n : Append(group, ds[i]) \notin DOMAIN objects
                                      /\ n = done \/ Append(group, ds[n + 1]) \in DOMAIN objects
  IN  [p \in DOMAIN objects \cup {Append(group, ds[i]) : i \in 1..upTo} |->
         IF p \in DOMAIN objects THEN objects[p] ELSE Object("dataset", <<module>>)]

\* Attributes that the structure gave are kept.
setWriterHDFAttributes(objects, group) ==
  [objects EXCEPT ![group].attrs = @ \cup {"NX_class", "topic", "source", "writer_module"}]

\* Mutant: the extra modules are not configured.
ExtraModules_None(m) == <<>>

\* getEnabledExtraModules with getCopyForExtraModule: the copy has an empty
\* configuration, its module gets the source and the topic.
ExtraModules(m) ==
  IF "enable_extra" \in DOMAIN m.ConfigStream /\ ~m.ConfigStream.enable_extra THEN <<>>
  ELSE [i \in DOMAIN Registry[m.WriterModule].extra |->
          [m EXCEPT !.WriterModule = Registry[m.WriterModule].extra[i], !.ConfigStream = <<>>]]

MetaValues(m) ==
  LET meta == Registry[m.WriterModule].meta
  IN  [i \in DOMAIN meta |-> [path |-> m.HDFParentName, name |-> meta[i], job |-> job]]

\* generateWriterInstance: the module must be known and its required fields
\* present.
CanGenerate(m) == m.WriterModule \in DOMAIN Registry /\ HasRequired(m.ConfigStream, Registry[m.WriterModule].required)

initStream ==
  /\ jobStage = "initialising"
  /\ next \in DOMAIN streams
  /\ LET m     == streams[next]
         group == m.HDFParentName
         begun == setWriterHDFAttributes(openFile, group)
     IN  \/ /\ group \in DOMAIN openFile /\ CanGenerate(m)
            /\ \/ openFile' = initModule(begun, group, m.WriterModule, Len(Registry[m.WriterModule].datasets)) /\ NoFault
               \/ \E done \in 0..(Len(Registry[m.WriterModule].datasets) - 1) :
                    openFile' = initModule(begun, group, m.WriterModule, done) /\ Fault
            /\ tracker' = tracker \o MetaValues(m)
            /\ streams' = streams \o ExtraModules(m)
            /\ next' = next + 1
            /\ UNCHANGED <<jobStage, job, structure, name, SWMRMode, links, Writables, sources, disk, orphan>>
         \/ /\ IF group \in DOMAIN openFile /\ CanGenerate(m) THEN Fault ELSE NoFault
            /\ JobFails(openFile)

\* writeLinks and switchToWriteMode; reopening the file may fail.
switchToWriteMode ==
  /\ jobStage = "initialising"
  /\ next = Len(streams) + 1
  /\ \/ /\ openFile' = addLinks(openFile, links)
        /\ SWMRMode' = TRUE
        /\ jobStage' = "opening"
        /\ next' = 1
        /\ NoFault
        /\ UNCHANGED <<job, structure, name, streams, links, Writables, sources, tracker, disk, orphan>>
     \/ /\ Fault
        /\ jobStage' = "idle"
        /\ disk' = Left(name, job, addLinks(openFile, links))
        /\ NoJob
        /\ UNCHANGED <<job, tracker, orphan>>

\* addStreamSourceToWriterModule: a module whose datasets cannot be opened is
\* left out.
addStreamSource ==
  /\ jobStage = "opening"
  /\ next \in DOMAIN streams
  /\ LET m  == streams[next]
         ds == Registry[m.WriterModule].datasets
     IN  \/ /\ \A i \in DOMAIN ds : Append(m.HDFParentName, ds[i]) \in DOMAIN openFile
            /\ sources' = Append(sources, m)
            /\ NoFault
         \/ /\ IF \A i \in DOMAIN ds : Append(m.HDFParentName, ds[i]) \in DOMAIN openFile THEN Fault ELSE NoFault
            /\ UNCHANGED sources
  /\ next' = next + 1
  /\ UNCHANGED <<jobStage, job, structure, name, openFile, SWMRMode, streams, links, Writables, tracker, disk, orphan>>

\* The new StreamController takes the place of an orphan, which is destroyed only
\* now. Then the status topic is switched: if that works the job is running, if
\* it throws the job is left behind.
beginWriting ==
  /\ jobStage = "opening"
  /\ next = Len(streams) + 1
  /\ disk' = IF orphan = NoOrphan THEN disk ELSE EndOf(orphan, TRUE)
  /\ \/ jobStage' = "writing" /\ orphan' = NoOrphan /\ UNCHANGED jobVars
     \/ jobStage' = "idle" /\ orphan' = Running /\ NoJob
  /\ UNCHANGED <<job, tracker, hdfFaults>>

-----------------------------------------------------------------------------
(* The end of the job                                                      *)

\* setToIdle: the controller, an orphan or not, has found its job done. It is
\* destroyed, then the tracker is cleared.
setToIdle ==
  /\ \/ jobStage = "writing" /\ disk' = EndOf(Running, FALSE)
     \/ jobStage = "idle" /\ orphan # NoOrphan /\ disk' = EndOf(orphan, TRUE)
  /\ tracker' = <<>>
  /\ jobStage' = "idle"
  /\ orphan' = NoOrphan
  /\ NoJob
  /\ UNCHANGED <<job, hdfFaults>>

JNext ==
  \/ \E f \in FileNames, s \in Structures : startWriting(f, s)
  \/ initStream
  \/ switchToWriteMode
  \/ addStreamSource
  \/ beginWriting
  \/ setToIdle

JSpec == JInit /\ [][JNext]_jvars

-----------------------------------------------------------------------------
(* Properties                                                              *)

ModeOK == SWMRMode <=> jobStage \in {"opening", "writing"}
HaveParents(objects) == \A p \in DOMAIN objects : p # <<>> => Front(p) \in DOMAIN objects

\* Objects belong to a group of the file, the stream handled next is in range,
\* and a job has a file name exactly while it is being created or written.
JobTypeOK ==
  /\ jobStage \in {"idle", "initialising", "opening", "writing"}
  /\ (jobStage = "idle") <=> (name = "")
  /\ next \in 1..(Len(streams) + 1)
  /\ HaveParents(openFile) /\ HaveParents(orphan.objects)
  /\ ModeOK
  /\ \A i \in DOMAIN sources : sources[i].WriterModule \in DOMAIN Registry

\* Metadata that ends up in a file was registered for the job of that file, never
\* by an earlier job that ended or whose creation failed half way.  The exception
\* is the file of a job that was left behind because its status topic could not
\* be had (Master.cpp:54): it may get values of a start command that came later.
MetaDataOfThisJob ==
  \A f \in DOMAIN disk : \A p \in DOMAIN disk[f].objects :
    disk[f].objects[p].what = "metadata" =>
      \/ disk[f].objects[p].content = disk[f].job
      \/ disk[f].orphaned /\ disk[f].objects[p].content \in (disk[f].job + 1)..job

\* A file on disk is never changed or removed by a later job.
FinishedFilesStay ==
  [][\A f \in DOMAIN disk : f \in DOMAIN disk' /\ disk'[f] = disk[f]]_jvars
=============================================================================

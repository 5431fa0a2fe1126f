--------------------------- MODULE JobProperties ---------------------------
(***************************************************************************)
(* What the file and the sources of a job have to do with the nexus        *)
(* structure of its start command: properties of JobCreation that look     *)
(* into the structure, whose file NexusStructure computes.                 *)
(***************************************************************************)
EXTENDS JobCreation, NexusStructure

\* Nodes of the structure, with the path that their parents give.
RECURSIVE NodesUnder(_, _)
NodesUnder(node, path) ==
  {<<node, path>>} \cup
  IF "children" \notin DOMAIN node THEN {}
  ELSE LET here == IF "name" \in DOMAIN node THEN Append(path, node.name) ELSE path
       IN  UNION {NodesUnder(node.children[i], here) : i \in DOMAIN node.children}

AttributesWork(s) == \A n \in NodesUnder(s, <<>>) : ~writeAttributesIfPresent(n[1]).threw

\* Every module is initialised in the group that contains it in the structure,
\* whatever groups before it could not be created.  (A group whose attributes
\* cannot be written leaves its name on the path of all that follow.)
ModulesFindTheirGroup ==
  AttributesWork(structure) => \A i \in DOMAIN streams : streams[i].HDFParentName = streams[i].found

\* The structure of the file and of the job: types, parents, and the groups of the
\* modules.
StructureOK == JobTypeOK /\ ModulesFindTheirGroup

\* The scalars of a JSON value with their positions, from 0.
RECURSIVE Leaves(_, _)
Leaves(v, pos) ==
  IF ~IsArray(v) THEN {<<pos, v>>} ELSE UNION {Leaves(v.arr[i], Append(pos, i - 1)) : i \in DOMAIN v.arr}

\* A dataset of the structure holds every scalar of its JSON value at the place
\* that row-major order gives it, for ragged and mixed arrays too, and nothing
\* else but default values. A scalar that the dataset's type can hold is stored
\* as it is (a fraction only in float and double); any other one is cast.
DatasetsHoldTheirValues ==
  \A p \in DOMAIN openFile : openFile[p].what = "dataset" /\ Len(openFile[p].content) = 2 =>
    LET config == openFile[p].content[1]
        multi  == openFile[p].content[2]
        leaves == Leaves(FieldValue(config, <<"value", "values">>, <<>>), <<>>)
        rank   == Len(multi.Dimensions)
        type   == FieldValue(config, <<"dtype", "type">>, "double")
        holds(e) == \/ type = "string" /\ "str" \in DOMAIN e
                    \/ type \in {"float", "double"}
                    \/ /\ type # "string" /\ "frac" \notin DOMAIN e
                       /\ type = "uint8" => e.num \in 0..255
                       /\ type = "int8" => e.num \in -128..127
        place(pos) == FoldLeftDomain(LAMBDA sum, i : sum * multi.Dimensions[i] + (IF i <= Len(pos) THEN pos[i] ELSE 0),
                                     0, multi.Dimensions)
    IN  /\ \A l \in leaves : /\ Len(l[1]) <= rank
                              /\ multi.Data[place(l[1]) + 1] = IF holds(l[2]) THEN l[2] ELSE Converted(type, l[2])
        /\ \A i \in DOMAIN multi.Data : \/ \E l \in leaves : place(l[1]) + 1 = i
                                        \/ multi.Data[i] = DefaultElement(type)

\* The modules that a structure asks for, extra modules included.
Wanted(s) ==
  {n \in NodesUnder(s, <<>>) :
     /\ "module" \in DOMAIN n[1] /\ n[1].module \notin {"dataset", "link", "mdat"}
     /\ {"source", "topic"} \subseteq DOMAIN n[1].config}
Expected(s) ==
  UNION {{<<n[2], n[1].module>>} \cup
         {<<n[2], e>> : e \in IF "enable_extra" \in DOMAIN n[1].config /\ ~n[1].config.enable_extra THEN {}
                              ELSE Range(Registry[n[1].module].extra)} : n \in Wanted(s)}

\* No two groups, and no two modules of a group, need the same name.
NamesUsed(n) ==
  IF "type" \in DOMAIN n[1] THEN {n[1].name}
  ELSE IF n \in Wanted(structure) THEN Range(Registry[n[1].module].datasets)
                                    \cup UNION {Range(Registry[e[2]].datasets) : e \in
                                                  {x \in Expected([children |-> <<n[1]>>]) : x[2] # n[1].module}}
  ELSE IF "config" \in DOMAIN n[1] /\ "name" \in DOMAIN n[1].config THEN {n[1].config.name}
  ELSE {}

NoClash ==
  \A a, b \in {n \in NodesUnder(structure, <<>>) : n[1] # structure} :
    a # b /\ a[2] = b[2] => NamesUsed(a) \cap NamesUsed(b) = {}

\* Unless HDF5 failed, a job that starts writing has a source for every module
\* that the structure asks for and for the extra modules that these bring,
\* as long as no two nodes of a group need the same name.
StreamsBecomeSources ==
  jobStage = "writing" /\ hdfFaults = 0 /\ AttributesWork(structure) /\ NoClash =>
    {<<sources[i].HDFParentName, sources[i].WriterModule>> : i \in DOMAIN sources} = Expected(structure)
=============================================================================

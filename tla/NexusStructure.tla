--------------------------- MODULE NexusStructure ---------------------------
(***************************************************************************)
(* How the JSON "nexus structure" of a start command becomes the groups,   *)
(* datasets and attributes of an HDF5 file, and a list of stream modules.  *)
(* A JSON object is a record, so DOMAIN gives its keys; a JSON value inside*)
(* of a dataset is [arr |-> sequence], [num |-> n], with a field frac if   *)
(* the number has a fractional part after n, or [str |-> s].  The          *)
(* attributes of a node are [form |-> "array" or "object", items |-> <<    *)
(* <<name, whether writing it succeeds>>, ... >>].                         *)
(***************************************************************************)
EXTENDS HdfObjects

-----------------------------------------------------------------------------
(* Arrays                                                                  *)

IsArray(v) == "arr" \in DOMAIN v

RECURSIVE findInnerSize(_, _, _)
findInnerSize(v, Dimensions, CurrentLevel) ==
  IF ~IsArray(v) THEN Dimensions
  ELSE LET grown == IF Len(Dimensions) < CurrentLevel + 1 THEN Append(Dimensions, 0) ELSE Dimensions
           sized == [grown EXCEPT ![CurrentLevel + 1] = Max({@, Len(v.arr)})]
       IN  FoldLeft(LAMBDA dims, e : findInnerSize(e, dims, CurrentLevel + 1), sized, v.arr)

determineArrayDimensions(v) == IF IsArray(v) THEN findInnerSize(v, <<>>, 0) ELSE <<1>>

Product(s) == FoldLeft(LAMBDA a, b : a * b, 1, s)

\* Mutant: the first dimension varies fastest.
posToIndex_ColumnMajor(Dimensions, Pos) ==
  FoldLeftDomain(LAMBDA sum, i : sum + Pos[i] * Product(SubSeq(Dimensions, 1, i - 1)), 0, Pos)

\* Row-major position, from 0.
posToIndex(Dimensions, Pos) ==
  FoldLeftDomain(LAMBDA sum, i : sum + Pos[i] * Product(SubSeq(Dimensions, i + 1, Len(Dimensions))), 0, Pos)

\* Element conversion: anything can be made a string, only numbers (a boolean
\* is one) a number.
Converts(type, e) == type = "string" \/ "num" \in DOMAIN e

\* get<T>() casts: the fractional part is cut off for an integer type, and the
\* number wraps around at the width of the type. The wider integer types hold
\* every number that TLC can count to, and float and double hold them exactly.
NarrowBits == [uint8 |-> 8, int8 |-> 8, uint16 |-> 16, int16 |-> 16]
Signed(type) == type \in {"int8", "int16"}
Wrapped(type, n) ==
  LET width  == 2 ^ NarrowBits[type]
      offset == IF Signed(type) THEN width \div 2 ELSE 0
  IN  ((n + offset) % width) - offset
Converted(type, e) ==
  CASE type = "string" -> IF "str" \in DOMAIN e THEN e ELSE [str |-> ToString(e)]
    [] type \in {"float", "double"} -> e
    [] type \in DOMAIN NarrowBits -> [num |-> Wrapped(type, e.num)]
    [] OTHER -> [num |-> e.num]
DefaultElement(type) == IF type = "string" THEN [str |-> ""] ELSE [num |-> 0]

\* Data is the vector filled so far, empty after an element that does not
\* convert (an array with such an element has a place for it).
RECURSIVE populateMultiVector(_, _, _, _, _, _)
populateMultiVector(v, type, Data, Dimensions, Pos, CurrentLevel) ==
  FoldLeftDomain(
    LAMBDA data, i :
      LET elements == IF IsArray(v) THEN v.arr ELSE <<v>>
          at       == [Pos EXCEPT ![CurrentLevel + 1] = @ + i - 1]
          e        == elements[i]
      IN  IF data = <<>> THEN data
          ELSE IF IsArray(e) THEN populateMultiVector(e, type, data, Dimensions, at, CurrentLevel + 1)
          ELSE IF Converts(type, e) THEN [data EXCEPT ![posToIndex(Dimensions, at) + 1] = Converted(type, e)]
          ELSE <<>>,
    Data, IF IsArray(v) THEN v.arr ELSE <<v>>)

jsonArrayToMultiArray(v, type) ==
  LET Dimensions == determineArrayDimensions(v)
      start      == [i \in 1..Product(Dimensions) |-> DefaultElement(type)]
  IN  [ Dimensions |-> Dimensions,
        Data |-> populateMultiVector(v, type, start, Dimensions, [i \in DOMAIN Dimensions |-> 0], 0) ]

-----------------------------------------------------------------------------
(* Attributes                                                              *)

\* An array of attributes is written as far as possible; an object of
\* attributes up to the first failure, which is thrown.
writeArrayOfAttributes(items) == [names |-> {items[i][1] : i \in {j \in DOMAIN items : items[j][2]}}, threw |-> FALSE]
writeObjectOfAttributes(items) ==
  LET bad  == {i \in DOMAIN items : ~items[i][2]}
      upTo == IF bad = {} THEN Len(items) ELSE Min(bad) - 1
  IN  [names |-> {items[i][1] : i \in 1..upTo}, threw |-> bad # {}]

writeAttributesIfPresent(node) ==
  IF "attributes" \notin DOMAIN node THEN [names |-> {}, threw |-> FALSE]
  ELSE IF node.attributes.form = "array" THEN writeArrayOfAttributes(node.attributes.items)
  ELSE writeObjectOfAttributes(node.attributes.items)

-----------------------------------------------------------------------------
(* The structure                                                           *)

WriteDatasetMap == {"uint8", "uint16", "uint32", "uint64", "int8", "int16", "int32", "int", "int64",
                    "float", "double", "string"}

\* writeDataset: a missing field, an unknown type, an element that does not
\* convert or a name already taken makes it throw.
DatasetOf(config) ==
  jsonArrayToMultiArray(FieldValue(config, <<"value", "values">>, <<>>), FieldValue(config, <<"dtype", "type">>, "double"))
CanWriteDataset(config) ==
  /\ HasRequired(config, {<<"name">>, <<"value", "values">>})
  /\ FieldValue(config, <<"dtype", "type">>, "double") \in WriteDatasetMap
  /\ Len(DatasetOf(config).Data) = Product(DatasetOf(config).Dimensions)

writeDataset(acc, parent, node) ==
  LET config == FieldValue(node, <<"config">>, <<>>)
      path   == Append(parent, config.name)
  IN  IF ~CanWriteDataset(config) \/ path \in DOMAIN acc.objects THEN acc
      ELSE [acc EXCEPT !.objects = With(@, path, [Object("dataset", <<config, DatasetOf(config)>>) EXCEPT
                                                    !.attrs = writeAttributesIfPresent(node).names])]

\* acc: the objects of the file, the modules found (ModuleHDFInfo) and Path, the
\* names of the groups that are being created.  Nothing is thrown.
RECURSIVE createHDFStructures(_, _, _)

\* Mutant: the name is put on the path although the group was not created.
createGroup_PushFirst(acc, parent, node) ==
  LET path  == Append(parent, node.name)
      attrs == writeAttributesIfPresent(node)
      made  == [acc EXCEPT !.objects = With(@, path, [Object("group", <<>>) EXCEPT !.attrs = attrs.names]),
                           !.Path = Append(@, node.name)]
      inner == FoldLeft(LAMBDA a, child : createHDFStructures(child, path, a), made,
                        FieldValue(node, <<"children">>, <<>>))
  IN  IF path \in DOMAIN acc.objects THEN [acc EXCEPT !.Path = Append(@, node.name)]
      ELSE IF attrs.threw THEN made
      ELSE [inner EXCEPT !.Path = Front(@)]

\* A group: an exception while it is created or while its attributes are
\* written skips its children; in the latter case its name stays on the path.
createGroup(acc, parent, node) ==
  LET path  == Append(parent, node.name)
      attrs == writeAttributesIfPresent(node)
      made  == [acc EXCEPT !.objects = With(@, path, [Object("group", <<>>) EXCEPT !.attrs = attrs.names]),
                           !.Path = Append(@, node.name)]
      inner == FoldLeft(LAMBDA a, child : createHDFStructures(child, path, a), made,
                        FieldValue(node, <<"children">>, <<>>))
  IN  IF path \in DOMAIN acc.objects THEN acc
      ELSE IF attrs.threw THEN made
      ELSE [inner EXCEPT !.Path = Front(@)]

createHDFStructures(node, parent, acc) ==
  LET key == UsedKey(node, <<"module", "type">>)
  IN  CASE key = "" -> acc
        [] key = "type" /\ (node.type # "group" \/ FieldValue(node, <<"name">>, "") = "") -> acc
        [] key = "type" /\ node.type = "group" /\ FieldValue(node, <<"name">>, "") # "" -> createGroup(acc, parent, node)
        [] key = "module" /\ node.module = "dataset" -> writeDataset(acc, parent, node)
        [] OTHER -> [acc EXCEPT !.infos = Append(@, [ WriterModule |-> node.module, HDFParentName |-> acc.Path,
                                                      ConfigStream |-> FieldValue(node, <<"config">>, <<>>),
                                                      found |-> parent ])]

\* HDFFileBase::init for the children of the root.
initStructure(structure) ==
  FoldLeft(LAMBDA a, child : createHDFStructures(child, <<>>, a),
           [objects |-> (<<>> :> Object("group", <<>>)), infos |-> <<>>, Path |-> <<>>],
           FieldValue(structure, <<"children">>, <<>>))
=============================================================================

----------------------------- MODULE HdfObjects -----------------------------
(***************************************************************************)
(* The objects of an HDF5 file, the links between them and the fields of a *)
(* JSON configuration.  A JSON object is a record, so DOMAIN gives its     *)
(* keys.  An HDF5 file is a function from paths (sequences of names) to    *)
(* objects [what, attrs, content].                                         *)
(***************************************************************************)
EXTENDS Integers, Sequences, SequencesExt, FiniteSetsExt

-----------------------------------------------------------------------------
(* JsonConfig: fields with alternative keys                                *)

\* Keys are processed in alphabetical order, so the last of the alternatives
\* that is present gives the value of a field.
UsedKey(object, keys) ==
  LET present == {i \in DOMAIN keys : keys[i] \in DOMAIN object}
  IN  IF present = {} THEN "" ELSE keys[Max(present)]

FieldValue(object, keys, default) ==
  IF UsedKey(object, keys) = "" THEN default ELSE object[UsedKey(object, keys)]

\* processConfigData throws if a required field got no value.
HasRequired(object, required) == \A keys \in required : UsedKey(object, keys) # ""

-----------------------------------------------------------------------------
(* Objects                                                                 *)

Object(what, content) == [what |-> what, attrs |-> {}, content |-> content]

With(objects, path, object) == [p \in DOMAIN objects \cup {path} |-> IF p = path THEN object ELSE objects[p]]

-----------------------------------------------------------------------------
(* Links                                                                   *)

\* The target of a link: some "../" and a path relative to the group reached.
addLinkToNode(objects, group, config) ==
  LET base   == SubSeq(group, 1, Max({0, Len(group) - config.ups}))
      target == base \o config.source
      path   == Append(group, config.name)
  IN  IF target \notin DOMAIN objects \/ path \in DOMAIN objects THEN objects
      ELSE With(objects, path, objects[target])

\* The file after the first n links; threw once a link's group does not exist.
AfterLinks(objects, links) ==
  LET after[n \in 0..Len(links)] ==
        IF n = 0 THEN [objects |-> objects, threw |-> FALSE]
        ELSE IF after[n - 1].threw \/ links[n].HDFParentName \notin DOMAIN after[n - 1].objects
             THEN [objects |-> after[n - 1].objects, threw |-> TRUE]
             ELSE [objects |-> addLinkToNode(after[n - 1].objects, links[n].HDFParentName, links[n].ConfigStream),
                   threw |-> FALSE]
  IN  after

\* addLinks: the first link whose group does not exist ends the loop.
addLinks(objects, links) == AfterLinks(objects, links)[Len(links)].objects
=============================================================================

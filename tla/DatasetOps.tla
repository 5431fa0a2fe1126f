----------------------------- MODULE DatasetOps -----------------------------
(***************************************************************************)
(* The extensible HDF5 datasets of NeXusDataset/.  A dataset is a record:  *)
(*   rows   the content of the dataset in the file, one cell per row;      *)
(*   n      NrOfElements, the row count kept by the C++ object;            *)
(*   dims   the other extents (only multi-dimensional datasets have any);  *)
(*   chunk  the chunk dimensions it was created with.                      *)
(* A cell records the number k of the message it came from and its values  *)
(* x (a sequence of integers).  HDF5 fills rows that were never written.   *)
(* An append first extends the dataset and then writes to it, so it can    *)
(* fail in two places: outcome is "done", "extent" or "write".             *)
(***************************************************************************)
EXTENDS Integers, Sequences, SequencesExt

Fill == [k |-> 0, x |-> <<>>]
Outcomes == {"done", "extent", "write"}

\* The rows of a dataset after its extent was set to size rows.
Resized(rows, size) ==
  [i \in 1..size |-> IF i <= Len(rows) THEN rows[i] ELSE Fill]

\* The rows after cells were written behind row number at.
Written(rows, at, cells) ==
  [i \in DOMAIN rows |->
     IF i > at /\ i <= at + Len(cells) THEN cells[i - at] ELSE rows[i]]

-----------------------------------------------------------------------------
(* Creation                                                                *)

\* Mutant: a row larger than the configured chunk gives chunks of no rows.
MultiDimChunk_NoMinimum(shape, chunk) ==
  LET given == IF chunk = <<>> THEN <<1024>> ELSE chunk
  IN  IF Len(given) = 1 + Len(shape) THEN given
      ELSE IF Len(given) = 1 /\ shape # <<>>
           THEN <<given[1] \div FoldLeft(LAMBDA a, b : a * b, 1, shape)>> \o shape
           ELSE <<1024>> \o shape

\* Chunk dimensions of a multi-dimensional dataset: shape is the shape of one
\* row, chunk the configured chunk size.
MultiDimChunk(shape, chunk) ==
  LET full  == <<0>> \o shape
      given == IF chunk = <<>> THEN <<1024>> ELSE chunk
      perRow == FoldLeft(LAMBDA a, b : a * b, 1, shape)
      rows  == given[1] \div perRow
  IN  IF Len(given) = Len(full) THEN given
      ELSE IF Len(given) = 1 /\ Len(full) > 1
           THEN <<IF rows = 0 THEN 1 ELSE rows>> \o shape
           ELSE <<1024>> \o shape

ExtensibleDataset(chunk) == [rows |-> <<>>, n |-> 0, dims |-> <<>>, chunk |-> <<chunk>>]

MultiDimDataset(shape, chunk) ==
  [rows |-> <<>>, n |-> 0, dims |-> shape, chunk |-> MultiDimChunk(shape, chunk)]

\* Opening a dataset takes the row count from the file, except through
\* ExtensibleDatasetBase, whose counter starts from zero.
OpenDataset(d) == [d EXCEPT !.n = Len(d.rows)]
OpenBase(d) == [d EXCEPT !.n = 0]

-----------------------------------------------------------------------------
(* Appending                                                               *)

\* appendArray of a container: grow by the size, write behind NrOfElements.
appendArray(d, cells, outcome) ==
  LET grown == Resized(d.rows, Len(d.rows) + Len(cells))
  IN  CASE outcome = "extent" -> d
        [] outcome = "write"  -> [d EXCEPT !.rows = grown]
        [] OTHER -> [d EXCEPT !.rows = Written(grown, d.n, cells),
                              !.n = d.n + Len(cells)]

\* appendElement, and appendStringElement of a FixedSizeString.
appendElement(d, cell, outcome) == appendArray(d, <<cell>>, outcome)

\* Mutant: the dataset is resized to the new data instead of by it.
appendAdapter_Shrinks(d, cells, outcome) ==
  LET sized == Resized(d.rows, Len(cells))
  IN  IF cells = <<>> \/ outcome = "extent" THEN d
      ELSE IF outcome = "write" THEN [d EXCEPT !.rows = sized]
      ELSE [d EXCEPT !.rows = Written(sized, d.n, cells), !.n = d.n + Len(cells)]

\* appendArray of an ArrayAdapter: nothing for an empty array, otherwise the
\* extent becomes NrOfElements plus the size, whatever it was before.
appendAdapter(d, cells, outcome) ==
  LET sized == Resized(d.rows, d.n + Len(cells))
  IN  IF cells = <<>> \/ outcome = "extent" THEN d
      ELSE IF outcome = "write" THEN [d EXCEPT !.rows = sized]
      ELSE [d EXCEPT !.rows = Written(sized, d.n, cells), !.n = d.n + Len(cells)]

\* The rank check of MultiDimDatasetBase::appendArray, made before any change.
RankFits(d, shape) == Len(shape) = Len(d.dims)

\* appendArray of a multi-dimensional dataset: one row behind the present
\* extent; a larger row extends the dataset, a smaller one is padded.
appendRow(d, cell, shape, outcome) ==
  LET larger == [i \in DOMAIN d.dims |->
                   IF shape[i] > d.dims[i] THEN shape[i] ELSE d.dims[i]]
      grown  == [d EXCEPT !.rows = Append(@, Fill), !.dims = larger]
  IN  CASE outcome = "extent" -> d
        [] outcome = "write"  -> grown
        [] OTHER -> [grown EXCEPT !.rows[Len(grown.rows)] = cell]
=============================================================================

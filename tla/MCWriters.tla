----------------------------- MODULE MCWriters -----------------------------
(***************************************************************************)
(* Every writer module in turn: the dataset-appending modules of           *)
(* WriterModules and the hs00 module of HistogramWriter.                   *)
(***************************************************************************)
EXTENDS WriterModules, HistogramWriter

VARIABLE which  \* "datasets" or "hs00": whose turn it is

Default == [interval |-> 2, shape |-> <<1>>, chunk |-> <<8>>, adc |-> FALSE, meta |-> TRUE, type |-> "double"]
MCConfigs(w) ==
  CASE w \in {"f144", "f142"} -> {Default, [Default EXCEPT !.interval = 1, !.type = "uint8", !.shape = <<2>>]}
    [] w \in {"ev42", "ev44"} -> {[Default EXCEPT !.adc = a] : a \in {TRUE, w = "ev42"}}
                                 \cup {[Default EXCEPT !.interval = 1]}
    [] w \in {"ADAr", "NDAr"} -> {[Default EXCEPT !.shape = <<1, 2>>, !.chunk = c, !.type = "int8"] :
                                    c \in {<<1>>, <<4, 1, 2>>, <<4, 2>>, <<>>}}
    [] OTHER -> {Default, [Default EXCEPT !.type = "int8"]}

Elems == {"float64", "uint8", "none"}
Waveforms ==
  [elem : {"int8", "none"}, vals : {<<4, 200>>, <<>>}, hasTimes : {TRUE}, times : {<<>>, <<70, 71>>, <<70>>}, delta : {2}]
    \cup [elem : {"int8"}, vals : {<<4, 200>>}, hasTimes : {FALSE}, times : {<<>>}, delta : {2}]
Pulses(lengths) == {[i \in DOMAIN AdcDatasets |-> IF i = 3 THEN p ELSE <<6, 7>>] : p \in lengths}
MCMessages(w) ==
  CASE w = "f144" -> [elem : Elems, array : {TRUE}, vals : {<<5, -3>>, <<>>}]
                     \cup [elem : Elems, array : {FALSE}, vals : {<<2>>}]
    [] w = "f142" -> [elem : {"float64", "none"}, array : {TRUE}, vals : {<<5, -3>>, <<2>>, <<>>},
                      status : {"NO_CHANGE", "HIGH", "other"}, severity : {"MAJOR"}]
    [] w = "ev42" -> [tof : {<<3>>, <<3, 4>>}, id : {<<8, 9>>}, pulse : {TRUE}, adc : Pulses({<<6, 7>>, <<6>>})]
                     \cup [tof : {<<3, 4>>}, id : {<<8, 9>>}, pulse : {FALSE}, adc : Pulses({<<>>})]
                     \cup [tof : {<<>>}, id : {<<>>}, pulse : {FALSE}, adc : Pulses({<<>>})]
    [] w = "ev44" -> [tof : {<<3>>, <<3, 4>>}, id : {<<8, 9>>}, ref : {<<50>>, <<50, 60>>}, refIndex : {<<0>>, <<0, 1>>}]
                     \cup [tof : {<<>>}, id : {<<>>}, ref : {<<>>, <<50>>}, refIndex : {<<>>}]
    [] w \in {"se00", "senv"} -> Waveforms
    [] w = "tdct" -> [times : {<<>>, <<3>>, <<3, 4>>}]
    [] w \in {"ADAr", "NDAr"} -> [elem : {"int8", "none"}, shape : {<<1, 2>>, <<2, 1>>, <<3>>}]
    [] w = "ns10" -> [complete : BOOLEAN, isNumber : BOOLEAN]
    [] w \in {"ep00", "ep01"} -> [status : {1, 2}]
    [] w = "al00" -> [severity : {1}, text : {0, 1}]

MCSizes == <<2, 2>>
Slice(shape, offset) == [shape |-> shape, offset |-> offset]
Parts == { Slice(<<2, 2>>, <<0, 0>>), Slice(<<1, 2>>, <<0, 0>>), Slice(<<1, 2>>, <<1, 0>>), Slice(<<2, 1>>, <<0, 1>>) }
Message(stamp, part) ==
  [stamp |-> stamp, typed |-> TRUE, errors |-> "none", sized |-> TRUE, info |-> FALSE] @@ part
MCHMessages ==
  {Message(t, p) : t \in Stamps \ {0}, p \in Parts}
    \cup {[Message(t, Slice(<<1, 2>>, <<0, 0>>)) EXCEPT !.errors = "some", !.info = TRUE] : t \in Stamps}
    \cup {Message(1, Slice(<<1, 2>>, <<2, 0>>)), Message(1, Slice(<<3, 2>>, <<>>)),
          [Message(1, Slice(<<2>>, <<0>>)) EXCEPT !.typed = FALSE]}

\* One module at a time; the state of the other kind rests.
MCInit ==
  /\ Init /\ HInit
  /\ \/ which = "datasets" /\ types = [data |-> "uint32", edge |-> "double", error |-> "float"]
     \/ which = "hs00" /\ kind = "ep01" /\ cfg = Default
MCNext ==
  \/ which = "datasets" /\ Next /\ UNCHANGED <<which, hvars>>
  \/ which = "hs00" /\ HNext /\ UNCHANGED <<which, vars>>
MCSpec == MCInit /\ [][MCNext]_<<which, vars, hvars>>
=============================================================================

------------------------------ MODULE Options ------------------------------
(***************************************************************************)
(* The options of the suites: pkg/suites/options.go and                    *)
(* internal/suites/options.  A user writes keys in a spelling of his own   *)
(* and may leave most of them out; a suite gets a struct with every field. *)
(*                                                                         *)
(* Options are functions from keys to values.  A value is a scalar or has  *)
(* options in it, whose values are scalars: no schema nests deeper.  A key *)
(* that a user wrote is <<letters, look>>: what is left of it without case *)
(* and symbols is taken for the name of the schema it agrees with.         *)
(***************************************************************************)
Scalar(s) == [value |-> s]
Nested(o) == [options |-> o]

IsOptions(v) == "options" \in DOMAIN v

NoOptions == <<>>

-----------------------------------------------------------------------------
(* Canonicalize.                                                           *)

\* canonicalizeKeys has no error: every key is in the schema, and no two of
\* them are the same one.
KeysFit(o, schema) ==
  /\ \A k \in DOMAIN o : k[1] \in DOMAIN schema
  /\ \A j, k \in DOMAIN o : j[1] = k[1] => j = k

\* Canonicalize has none: a value has the shape of that in the schema, too.
Fits(o, schema) ==
  /\ KeysFit(o, schema)
  /\ \A k \in DOMAIN o :
       /\ IsOptions(o[k]) = IsOptions(schema[k[1]])
       /\ IsOptions(o[k]) =>
            /\ KeysFit(o[k].options, schema[k[1]].options)
            /\ \A j \in DOMAIN o[k].options : ~IsOptions(o[k].options[j])

\* The same values under the names of the schema.
Renamed(o) ==
  [name \in {k[1] : k \in DOMAIN o} |-> o[CHOOSE k \in DOMAIN o : k[1] = name]]

\* Canonicalize, where it has no error.
Canonicalized(o) ==
  LET outer == Renamed(o) IN
    [name \in DOMAIN outer |->
       IF IsOptions(outer[name]) THEN Nested(Renamed(outer[name].options)) ELSE outer[name]]

-----------------------------------------------------------------------------
(* Merge and FromOptions.                                                  *)

\* maps.Copy: the entries of the other options over those of o.
Copied(o, other) ==
  [k \in DOMAIN o \cup DOMAIN other |-> IF k \in DOMAIN other THEN other[k] ELSE o[k]]

\* Merge: the other options win, but nested options are merged in turn.
\* Variant: they replace what is there.
Replace(o, other) == Copied(o, other)

Merge(o, other) ==
  [k \in DOMAIN o \cup DOMAIN other |->
     IF k \in DOMAIN o \cap DOMAIN other /\ IsOptions(o[k]) /\ IsOptions(other[k])
     THEN Nested(Copied(o[k].options, other[k].options))
     ELSE Copied(o, other)[k]]

\* FromOptions: a struct, given as its fields and the fields of these, takes
\* what it has a field for, and what it has none for is dropped unread.
OfStruct(o, fields) ==
  [k \in DOMAIN o \cap DOMAIN fields |->
     IF IsOptions(o[k])
     THEN Nested([j \in DOMAIN o[k].options \cap fields[k] |-> o[k].options[j]])
     ELSE o[k]]

\* No value it takes is of the wrong type, or refused by the suite.
Decodes(struct, bad) ==
  \A k \in DOMAIN struct :
    IF IsOptions(struct[k])
    THEN \A j \in DOMAIN struct[k].options : struct[k].options[j].value \notin bad
    ELSE struct[k].value \notin bad
=============================================================================

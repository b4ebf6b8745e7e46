----------------------------- MODULE FFIParamsCodec -----------------------------
(***************************************************************************)
(* The database codec of FFIParams (pkg/fftypes/ffi.go): Value marshals    *)
(* the params to a JSON column, Scan restores them.  A destination         *)
(* variable is reused from one read to the next, as a row-scanning loop    *)
(* does; the column is written by this codec, or set to SQL NULL, or holds *)
(* something that is not JSON params.                                      *)
(*                                                                         *)
(* Params are abstracted to sequences of parameter names; Nil is the nil   *)
(* FFIParams slice.  JSON text is "null", an array of params, or text that *)
(* does not parse.                                                         *)
(***************************************************************************)
EXTENDS Naturals, Sequences

CONSTANTS
    Names,      \* parameter names
    Schemas,    \* JSON schemas of a parameter
    NoSchema,   \* a nil Schema (*JSONAny), omitted from the JSON
    MaxParams,  \* bound on the number of params in one FFIParams
    Nil,        \* the nil FFIParams
    NilPtr      \* a nil *FFIParam in a slice's backing array

\* FFIParam: name is always marshalled, schema is omitempty
Param == [name : Names, schema : Schemas \cup {NoSchema}]

\* FFIParams ([]*FFIParam): a non-nil value, or Nil
Params == UNION {[1..k -> Param] : k \in 0..MaxParams}

\* JSON texts
JsonNull == [kind |-> "null"]
JsonArray(p) == [kind |-> "array", elems |-> p]
JsonGarbage == [kind |-> "invalid"]

\* A Go slice: nil or not, its length, and its backing array (whose length
\* is the capacity).  A slot past the length keeps what was last stored in
\* it.
NilSlice == [isNil |-> TRUE, len |-> 0, back |-> <<>>]
Contents(s) == IF s.isNil THEN Nil ELSE SubSeq(s.back, 1, s.len)
ParamNames(p) == [i \in DOMAIN p |-> p[i].name]

VARIABLES
    column,   \* the value the driver returns for the column
    stored,   \* the FFIParams last written to the column (Nil for NULL)
    dest,     \* the FFIParams variable that reads scan into, as a slice
    scanned   \* did the last Scan return without error?

vars == <<column, stored, dest, scanned>>

-----------------------------------------------------------------------------

\* Mutant: an empty slice is written as null, like a nil one.
ValueEmptyAsNull(p) == IF p = Nil \/ p = <<>> THEN JsonNull ELSE JsonArray(p)

\* Value: json.Marshal(p); a nil slice marshals to null
Value(p) == IF p = Nil THEN JsonNull ELSE JsonArray(p)

\* Decoding a JSON object into the *FFIParam in a slot: a nil pointer gets
\* a new zero FFIParam; an existing one is decoded in place, so a schema
\* the object omits keeps the value the old FFIParam had.
DecodeParam(slot, e) ==
    IF slot = NilPtr THEN e
    ELSE [name |-> e.name,
          schema |-> IF e.schema = NoSchema THEN slot.schema ELSE e.schema]

\* reflect.Value.Grow(1) on a []*T: capacity 0 -> 1, then doubling; the
\* new backing array holds the first len elements and nil after them.
GrowCap(c) == IF c = 0 THEN 1 ELSE 2 * c

\* encoding/json array into slice, element i: grow when i > cap, extend
\* the length to i when i > len, decode into slot i.
DecodeElem(s, i, e) ==
    LET g == IF i > Len(s.back)
             THEN [j \in 1..GrowCap(Len(s.back)) |->
                      IF j <= s.len THEN s.back[j] ELSE NilPtr]
             ELSE s.back
    IN [isNil |-> FALSE,
        len   |-> IF i > s.len THEN i ELSE s.len,
        back  |-> [g EXCEPT ![i] = DecodeParam(g[i], e)]]

RECURSIVE DecodeFrom(_, _, _)
DecodeFrom(s, elems, i) ==
    IF i > Len(elems) THEN s
    ELSE DecodeFrom(DecodeElem(s, i, elems[i]), elems, i + 1)

\* Mutant: the length is not cut back to the number of elements decoded.
UnmarshalIntoNoShrink(d, text) ==
    CASE text.kind = "null"  -> [val |-> d, ok |-> TRUE]
      [] text.kind = "array" -> [val |-> DecodeFrom(d, text.elems, 1), ok |-> TRUE]
      [] OTHER               -> [val |-> d, ok |-> FALSE]

\* json.Unmarshal(text, &p) with p the *FFIParams receiver: null sets the
\* local pointer p to nil and leaves *p as it was; an array is decoded into
\* the existing slice *p element by element, its length then set to the
\* number of elements (an empty array makes a new empty slice); text that
\* does not parse is an error and changes nothing.
UnmarshalInto(d, text) ==
    CASE text.kind = "null"  -> [val |-> d, ok |-> TRUE]
      [] text.kind = "array" ->
           [val |-> IF text.elems = <<>>
                    THEN [isNil |-> FALSE, len |-> 0, back |-> <<>>]
                    ELSE [DecodeFrom(d, text.elems, 1) EXCEPT !.len = Len(text.elems)],
            ok  |-> TRUE]
      [] OTHER               -> [val |-> d, ok |-> FALSE]

\* Scan: case nil: p = nil (the local receiver; *p keeps its value);
\* string and []byte: json.Unmarshal; any other type: MsgTypeRestoreFailed
Scan(d, src) ==
    CASE src.type = "nil"                  -> [val |-> d, ok |-> TRUE]
      [] src.type \in {"string", "bytes"}  -> UnmarshalInto(d, src.text)
      [] OTHER                             -> [val |-> d, ok |-> FALSE]

Init ==
    /\ column = [type |-> "nil"]
    /\ stored = Nil
    /\ dest = NilSlice
    /\ scanned = TRUE

\* The params are written through Value; the driver returns the []byte
\* Value produced, or the same text as a string.
Write ==
    \E p \in Params \cup {Nil}, t \in {"string", "bytes"} :
        /\ column' = [type |-> t, text |-> Value(p)]
        /\ stored' = p
        /\ UNCHANGED <<dest, scanned>>

\* The column is set to SQL NULL.
WriteNull ==
    /\ column' = [type |-> "nil"]
    /\ stored' = Nil
    /\ UNCHANGED <<dest, scanned>>

\* The column holds something Value did not write.
WriteForeign ==
    \E src \in {[type |-> "int64"], [type |-> "string", text |-> JsonGarbage]} :
        /\ column' = src
        /\ stored' = Nil
        /\ UNCHANGED <<dest, scanned>>

\* A row is read: Scan into the destination, which holds what the last
\* read left in it.
Read ==
    LET r == Scan(dest, column)
    IN /\ dest' = r.val
       /\ scanned' = r.ok
       /\ UNCHANGED <<column, stored>>

\* The reader declares a fresh destination (var p FFIParams) for the next
\* row instead of reusing the last one.
Declare ==
    /\ dest' = NilSlice
    /\ UNCHANGED <<column, stored, scanned>>

Next == Write \/ WriteNull \/ WriteForeign \/ Read \/ Declare

Spec == Init /\ [][Next]_vars

-----------------------------------------------------------------------------

\* Scan of a SQL NULL or a JSON null column (sql.Scanner): a Read that
\* returns without error leaves a nil FFIParams in the destination, whatever
\* it held before.
ScanNullRestoresNil ==
    [][Read /\ scanned' /\ stored = Nil => Contents(dest') = Nil]_vars

\* Scan restores the params Value wrote, schemas included, into a
\* destination reused from earlier reads.
ScanRestoresWrittenParams ==
    [][Read /\ scanned' /\ stored # Nil => Contents(dest') = stored]_vars

\* Scan into a fresh (nil) destination restores exactly the params Value
\* wrote, an empty list included.
ScanIntoFreshRestores ==
    [][Read /\ scanned' /\ stored # Nil /\ dest.isNil =>
           Contents(dest') = stored]_vars

\* Even into a reused destination, Scan restores the number and names of
\* the params Value wrote: the slice is grown and cut to the array decoded.
ScanRestoresNames ==
    [][Read /\ scanned' /\ stored # Nil =>
           /\ Contents(dest') # Nil
           /\ ParamNames(Contents(dest')) = ParamNames(stored)]_vars

=============================================================================

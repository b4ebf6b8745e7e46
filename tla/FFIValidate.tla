------------------------------- MODULE FFIValidate -------------------------------
(***************************************************************************)
(* FFI.Validate and SetBroadcastMessage (pkg/fftypes/ffi.go) on an FFI    *)
(* definition that a caller submits, validates and, once valid, attaches   *)
(* a broadcast message to.                                                 *)
(*                                                                         *)
(* Field values are abstracted to a small set of strings; ValidNames are  *)
(* the ones ValidateFFNameField accepts (its regexp needs at least one     *)
(* character, so the empty string is never among them).  Validate's error  *)
(* is abstracted to the field name it reports (MsgInvalidName, fieldName). *)
(***************************************************************************)
EXTENDS Naturals, Sequences

CONSTANTS
    Strings,     \* field values, "" included
    ValidNames,  \* the values ValidateFFNameField accepts
    MsgIDs,      \* broadcast message IDs
    None         \* no message / no error

ASSUME /\ "" \in Strings
       /\ ValidNames \subseteq Strings \ {""}

\* FFI: the fields Validate and SetBroadcastMessage touch
FFIRec == [name : Strings, version : Strings, networkName : Strings,
           message : MsgIDs \cup {None}]

\* ValidateFFNameField(ctx, str, fieldName)
ValidateFFNameField(str, fieldName) ==
    IF str \in ValidNames THEN None ELSE fieldName

VARIABLES
    ffi,     \* the FFI being defined
    result,  \* what the last Validate returned: None, or the field it names
    checked  \* has Validate run on ffi since it was submitted?

vars == <<ffi, result, checked>>

-----------------------------------------------------------------------------

\* Mutant: networkName is validated even when it is empty.
ValidateAlwaysNetworkName(f) ==
    LET errs == <<ValidateFFNameField(f.name, "name"),
                  ValidateFFNameField(f.version, "version"),
                  ValidateFFNameField(f.networkName, "networkName")>>
        bad  == {i \in DOMAIN errs : errs[i] # None}
    IN IF bad = {} THEN None ELSE errs[CHOOSE i \in bad : \A j \in bad : i <= j]

\* FFI.Validate: name, then version, then networkName when it is set; the
\* first failing check is returned.
Validate(f) ==
    CASE ValidateFFNameField(f.name, "name") # None ->
             ValidateFFNameField(f.name, "name")
      [] ValidateFFNameField(f.version, "version") # None ->
             ValidateFFNameField(f.version, "version")
      [] f.networkName # "" /\ ValidateFFNameField(f.networkName, "networkName") # None ->
             ValidateFFNameField(f.networkName, "networkName")
      [] OTHER -> None

Init ==
    /\ ffi \in [name : Strings, version : Strings, networkName : Strings,
                message : {None}]
    /\ result = None
    /\ checked = FALSE

\* A new definition is submitted, without a message.
Submit ==
    /\ \E n, v, nn \in Strings :
           ffi' = [name |-> n, version |-> v, networkName |-> nn, message |-> None]
    /\ result' = None
    /\ checked' = FALSE

\* f.Validate(ctx, existing): existing is not read.
DoValidate ==
    /\ result' = Validate(ffi)
    /\ checked' = TRUE
    /\ UNCHANGED ffi

\* f.SetBroadcastMessage(msgID), by a caller that publishes only an FFI
\* whose Validate returned nil.
SetBroadcastMessage ==
    /\ checked /\ result = None
    /\ \E m \in MsgIDs : ffi' = [ffi EXCEPT !.message = m]
    /\ UNCHANGED <<result, checked>>

Next == Submit \/ DoValidate \/ SetBroadcastMessage

Spec == Init /\ [][Next]_vars

-----------------------------------------------------------------------------

\* The definition of a valid FFI: a name and version that are valid FF
\* names, and a network name that is empty or a valid FF name.
WellFormed(f) ==
    /\ f.name \in ValidNames
    /\ f.version \in ValidNames
    /\ f.networkName \in ValidNames \cup {""}

\* Validate accepts exactly the well-formed FFIs, and an error names a
\* field that is wrong, the first one of name, version, networkName: so
\* a broadcast message is only ever attached to a well-formed definition,
\* and an unset networkName is never reported.
ValidateReportsFirstInvalidField ==
    /\ checked =>
         /\ (result = None) = WellFormed(ffi)
         /\ result = "name" => ffi.name \notin ValidNames
         /\ result = "version" => ffi.name \in ValidNames /\ ffi.version \notin ValidNames
         /\ result = "networkName" => WellFormed([ffi EXCEPT !.networkName = ""])
    /\ ffi.message # None => WellFormed(ffi)

=============================================================================

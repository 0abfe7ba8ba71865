------------------------------ MODULE Arguments ------------------------------
(* How the generated executor coerces the arguments of a field, before its    *)
(* resolver is called (graph/main.generated.go), and the text of a cursor     *)
(* (graph/models/models.go). The arguments of a field are a function from the *)
(* names given to values; what they become is an outcome of Executor. What     *)
(* the library rejects before it executes an operation is not here: unknown   *)
(* names, unknown values of an enum, null where the schema does not allow it. *)
EXTENDS Executor

Null == [kind |-> "null"]
Number(n) == [kind |-> "number", number |-> n]
HugeNumber == [kind |-> "huge"]  \* an integer of more than 64 bits
Name(s) == [kind |-> "string", string |-> s]
OrderBy(field, direction) == [kind |-> "object", field |-> field, direction |-> direction]

\* The text of a cursor is base64 of JSON; any other text is none of a cursor,
\* and neither is a value that is no string, which the library lets pass.
MarshalText(cursor) == [kind |-> "string", decoded |-> {cursor}]
NoCursor == [kind |-> "string", decoded |-> {}]

UnmarshalText(text) == IF text.decoded = {} THEN Erred ELSE Optional(text.decoded)

UnmarshalGQL(v) == IF v.kind = "string" THEN UnmarshalText(v) ELSE Erred

-----------------------------------------------------------------------------
(* Values by their type.                                                     *)

UnmarshalNString(v) == Returned(v.string)
UnmarshalInt(v) == IF v.kind = "number" THEN Returned(v.number) ELSE Erred
UnmarshalOInt(v) == IF v = Null THEN Optional({}) ELSE UnmarshalInt(v)
UnmarshalOCursor(v) == IF v = Null THEN Optional({}) ELSE UnmarshalGQL(v)

UnmarshalInputLiverOrder(v) == Returned([field |-> v.field, direction |-> v.direction])
UnmarshalOLiverOrder(v) == IF v = Null THEN Optional({}) ELSE UnmarshalInputLiverOrder(v)

-----------------------------------------------------------------------------
(* The arguments of each field. One that is not given is nil.                *)

Coerced(args, name, unmarshalled) ==
  IF name \in DOMAIN args THEN unmarshalled ELSE Optional({})

ErrorsDropped(coerced) == Returned([name \in DOMAIN coerced |-> coerced[name].value])  \* variant

\* The first that cannot be coerced is the error of the field. That its path
\* goes on with the name of the argument is left out.
Together(coerced) ==
  IF \E name \in DOMAIN coerced : coerced[name].error THEN Erred
  ELSE Returned([name \in DOMAIN coerced |-> coerced[name].value])

\* The library gives an argument that is absent its default.
WithDefaults(args) == IF "first" \in DOMAIN args THEN args
                      ELSE [n \in DOMAIN args \cup {"first"} |->
                              IF n = "first" THEN Number(0) ELSE args[n]]

LiversArgs(args) ==
  LET given == WithDefaults(args)
  IN  Together([first |-> Coerced(given, "first", UnmarshalOInt(given["first"])),
                after |-> Coerced(given, "after", UnmarshalOCursor(given["after"])),
                orderBy |-> Coerced(given, "orderBy", UnmarshalOLiverOrder(given["orderBy"]))])

LiverArgs(args) == Together([name |-> Coerced(args, "name", UnmarshalNString(args["name"]))])
RegisterLiverArgs(args) == Together([name |-> Coerced(args, "name", UnmarshalNString(args["name"]))])

GroupsArgs(args) ==
  Together([first |-> Coerced(args, "first", UnmarshalOInt(args["first"])),
            after |-> Coerced(args, "after", UnmarshalOCursor(args["after"]))])
==============================================================================

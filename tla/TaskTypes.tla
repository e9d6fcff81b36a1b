------------------------------ MODULE TaskTypes ------------------------------
(***************************************************************************)
(* Task types: their registration, the schemas compiled from them, the     *)
(* payloads held to those schemas, and the typed handles over them.        *)
(*                                                                         *)
(* A schema keeps the keywords that treat payloads differently: the type,  *)
(* the properties, the items, and the completeness keywords a draft is     *)
(* excused from.  A JSON value is a record tagged with its kind, and so is *)
(* a Go type, whose values are the JSON-like values it can hold, with nil  *)
(* for an absent pointer, slice or map.  The JSON Schema library and       *)
(* encoding/json are modelled from how the code uses them.                 *)
(*                                                                         *)
(* Registration happens while the host wires itself up, possibly from      *)
(* several goroutines: what a registration compiles it compiles before it  *)
(* takes the registry's lock.                                              *)
(***************************************************************************)
EXTENDS Naturals, Sequences, FiniteSets, SequencesExt

CONSTANTS TypeNames,     \* the names types are registered under
          Specs,         \* what hosts register: [name, config, input, output, in, out]
          Definers,      \* goroutines that register types
          GoTypes,       \* the named Go structs, each a sequence of fields
          Documents,     \* the payloads callers send
          Patches,       \* the progress patches callers send
          PayloadIDs,    \* the tasks created
          Depth          \* how deep the Go values hosts use are nested

VARIABLES
    registry,   \* the registered types, by name
    definers,   \* where each registration is
    handles,    \* the specifications registered with success
    payloads    \* the tasks' payloads

typeVars == <<registry, definers, handles, payloads>>

(* JSON values and schemas **********************************************)

String == [json |-> "string"]
Number == [json |-> "number"]
Null == [json |-> "null"]
Object(fields) == [json |-> "object", fields |-> fields]
Array(items) == [json |-> "array", items |-> items]
EmptyObject == Object(<< >>)

AnySchema ==
    [type |-> "any", properties |-> << >>, required |-> {}, minProperties |-> 0,
     items |-> {}, minItems |-> 0]

TypeSchema(type) == [AnySchema EXCEPT !.type = type]

\* items holds the item schema, if there is one.
RECURSIVE Valid(_, _)
Valid(schema, value) ==
    /\ schema.type \in {"any", value.json}
    /\ value.json = "object" =>
           /\ schema.required \subseteq DOMAIN value.fields
           /\ Cardinality(DOMAIN value.fields) >= schema.minProperties
           /\ \A name \in DOMAIN schema.properties \cap DOMAIN value.fields :
                  Valid(schema.properties[name], value.fields[name])
    /\ value.json = "array" =>
           /\ Len(value.items) >= schema.minItems
           /\ \A item \in schema.items, i \in DOMAIN value.items : Valid(item, value.items[i])

\* Mutant: only the outermost requirements are dropped.
RelaxTop(schema) == [schema EXCEPT !.required = {}, !.minProperties = 0, !.minItems = 0]

\* The schema of a draft: no completeness requirement, at any depth.
RECURSIVE RelaxSchema(_)
RelaxSchema(schema) ==
    [schema EXCEPT !.required = {}, !.minProperties = 0, !.minItems = 0,
                   !.properties = [name \in DOMAIN @ |-> RelaxSchema(@[name])],
                   !.items = {RelaxSchema(item) : item \in @}]

\* The parts of a value: fields left out, items cut off the end, at any depth.
RECURSIVE Parts(_)
Parts(value) ==
    CASE value.json = "object" ->
             UNION {{Object(f) : f \in {g \in [names -> UNION {Parts(value.fields[n]) : n \in names}] :
                                            \A n \in names : g[n] \in Parts(value.fields[n])}}
                    : names \in SUBSET DOMAIN value.fields}
      [] value.json = "array" -> {Array(SubSeq(value.items, 1, n)) : n \in 0..Len(value.items)}
      [] OTHER -> {value}

(* Schemas derived from Go types ****************************************)

\* Pointers are followed; a struct already on the way down is left open.
RECURSIVE DeriveNode(_, _)
RECURSIVE CollectFields(_, _)

DeriveNode(type, seen) ==
    CASE type.go \in {"string", "time", "bytes"} -> TypeSchema("string")
      [] type.go = "int" -> TypeSchema("number")
      [] type.go = "raw" -> AnySchema
      [] type.go = "pointer" -> DeriveNode(type.elem, seen)
      [] type.go = "slice" -> [TypeSchema("array") EXCEPT !.items = {DeriveNode(type.elem, seen)}]
      [] type.go = "struct" ->
             IF type.name \in seen THEN AnySchema
             ELSE LET fields == CollectFields(GoTypes[type.name], seen \cup {type.name}) IN
                  [TypeSchema("object") EXCEPT
                       !.properties = [n \in {f.name : f \in fields} |->
                                          (CHOOSE f \in fields : f.name = n).schema],
                       !.required = {f.name : f \in {g \in fields : g.required}}]

\* Mutant: a field is optional by its type alone.
CollectUntagged(fields, seen) ==
    UNION {LET field == fields[i] IN
           IF field.tag = "-" THEN {}
           ELSE IF field.embedded THEN CollectFields(GoTypes[field.type.name], seen)
           ELSE {[name |-> field.name, schema |-> DeriveNode(field.type, seen),
                  required |-> field.type.go # "pointer"]}
           : i \in DOMAIN fields}

\* Fields the encoder skips are skipped, and embedded structs flattened.
CollectFields(fields, seen) ==
    UNION {LET field == fields[i] IN
           IF field.tag = "-" THEN {}
           ELSE IF field.embedded THEN CollectFields(GoTypes[field.type.name], seen)
           ELSE {[name |-> field.name, schema |-> DeriveNode(field.type, seen),
                  required |-> field.type.go # "pointer" /\ field.tag # "omitempty"]}
           : i \in DOMAIN fields}

DeriveSchema(type) == DeriveNode(type, {})

(* encoding/json ********************************************************)

Nil == [json |-> "nil"]

\* The values of a Go type, structs nested no deeper than depth.
RECURSIVE GoValues(_, _)
GoValues(type, depth) ==
    CASE type.go \in {"string", "time"} -> {String}
      [] type.go = "int" -> {Number}
      [] type.go = "bytes" -> {Nil, String}
      [] type.go = "raw" -> {Number}
      [] type.go = "pointer" -> {Nil} \cup GoValues(type.elem, depth)
      [] type.go = "slice" -> {Nil} \cup {Array(<<v>>) : v \in GoValues(type.elem, depth)}
      [] type.go = "struct" ->
             IF depth = 0 THEN {}
             ELSE {Object(fields) : fields \in
                      FoldLeft(LAMBDA structs, field :
                                   {[n \in DOMAIN f \cup {field.name} |->
                                        IF n = field.name THEN v ELSE f[n]] :
                                       f \in structs, v \in GoValues(field.type, depth - 1)},
                               {<< >>}, GoTypes[type.name])}

\* What hosts pass to a typed handle of each struct.
TypedValues == [name \in DOMAIN GoTypes |-> GoValues([go |-> "struct", name |-> name], Depth)]

RECURSIVE Marshal(_, _)
Marshal(type, value) ==
    CASE value = Nil -> Null
      [] type.go = "pointer" -> Marshal(type.elem, value)
      [] type.go = "slice" -> Array([i \in DOMAIN value.items |-> Marshal(type.elem, value.items[i])])
      [] type.go = "struct" ->
             LET fields == GoTypes[type.name]
                 kept == {i \in DOMAIN fields :
                             /\ fields[i].tag # "-" /\ ~fields[i].embedded
                             /\ ~(fields[i].tag = "omitempty" /\ value.fields[fields[i].name] = Nil)}
                 inner == {i \in DOMAIN fields : fields[i].embedded}
                 own == [n \in {fields[i].name : i \in kept} |->
                            LET i == CHOOSE j \in kept : fields[j].name = n IN
                            Marshal(fields[i].type, value.fields[n])]
                 flat(i) == Marshal(fields[i].type, value.fields[fields[i].name]).fields IN
             Object([n \in DOMAIN own \cup UNION {DOMAIN flat(i) : i \in inner} |->
                        IF n \in DOMAIN own THEN own[n]
                        ELSE flat(CHOOSE i \in inner : n \in DOMAIN flat(i))[n]])
      [] OTHER -> value

\* Decoding leaves a field nothing names at its zero value.
RECURSIVE Unmarshal(_, _)
Unmarshal(type, doc) ==
    CASE type.go \in {"pointer", "slice", "bytes"} /\ doc = Null -> Nil
      [] type.go = "pointer" -> Unmarshal(type.elem, doc)
      [] type.go = "slice" -> Array([i \in DOMAIN doc.items |-> Unmarshal(type.elem, doc.items[i])])
      [] type.go = "struct" ->
             LET fields == GoTypes[type.name] IN
             Object([n \in {fields[i].name : i \in DOMAIN fields} |->
                        LET field == fields[CHOOSE i \in DOMAIN fields : fields[i].name = n] IN
                        IF field.embedded THEN Unmarshal(field.type, doc)
                        ELSE IF field.tag # "-" /\ n \in DOMAIN doc.fields
                        THEN Unmarshal(field.type, doc.fields[n])
                        ELSE IF field.type.go = "string" THEN String ELSE Nil])
      [] OTHER -> doc

(* Registration *********************************************************)

GoStruct(name) == [go |-> "struct", name |-> name]

\* input and output hold the schemas a host wrote, if it did.  A typed handle
\* derives those left out from its Go types.
SchemasOf(written, name) ==
    IF written = {} /\ name # "none" THEN {DeriveSchema(GoStruct(name))} ELSE written

Define(spec) ==
    [spec EXCEPT !.input = SchemasOf(@, spec.in), !.output = SchemasOf(@, spec.out)]

\* A schema is modelled by what it says, so documents that differ in their
\* layout alone are one here, as they are once the code has made them canonical.
EqualJSON(a, b) == a = b

Equal(a, b) ==
    /\ a.name = b.name /\ a.config = b.config
    /\ EqualJSON(a.input, b.input) /\ EqualJSON(a.output, b.output)

\* What can be refused without the lock is refused; the validators are compiled.
Compile(d, spec) ==
    /\ definers[d] = {}
    /\ spec.name # "" /\ spec.config # "invalid"
    /\ definers' = [definers EXCEPT ![d] = {Define(spec)}]
    /\ UNCHANGED <<registry, handles, payloads>>

\* With the lock: the first registration of a name stands, an equal one succeeds.
Register(d) ==
    \E spec \in definers[d] :
        /\ registry' = [name \in DOMAIN registry \cup {spec.name} |->
                           IF name \in DOMAIN registry THEN registry[name] ELSE spec]
        /\ handles' = IF Equal(registry'[spec.name], spec) THEN handles \cup {spec} ELSE handles
        /\ definers' = [definers EXCEPT ![d] = {}]
        /\ UNCHANGED payloads

(* Validation ***********************************************************)

\* An absent schema accepts anything.
Compiled(schemas) == IF schemas = {} THEN AnySchema ELSE CHOOSE schema \in schemas : TRUE

ValidateInput(name, doc) ==
    name \in DOMAIN registry /\ Valid(Compiled(registry[name].input), doc)

ValidateShape(name, doc) ==
    name \in DOMAIN registry /\ Valid(RelaxSchema(Compiled(registry[name].input)), doc)

\* Mutant: a completion is held to the draft's schema.
ValidateOutputShape(name, doc) ==
    name \in DOMAIN registry /\ Valid(RelaxSchema(Compiled(registry[name].output)), doc)

ValidateOutput(name, doc) ==
    name \in DOMAIN registry /\ Valid(Compiled(registry[name].output), doc)

(* Payloads *************************************************************)

\* given and result remember the Go values a typed handle was called with.
NoPayload ==
    [status |-> "none", type |-> "", input |-> EmptyObject, given |-> {},
     progress |-> EmptyObject, output |-> EmptyObject, result |-> {}]

Create(id, name, input, given) ==
    /\ payloads[id].status = "none"
    /\ ValidateInput(name, input)
    /\ payloads' = [payloads EXCEPT ![id] = [NoPayload EXCEPT !.status = "open", !.type = name,
                                                            !.input = input, !.given = given]]
    /\ UNCHANGED <<registry, definers, handles>>

\* A patch sets or removes one field; removing one that is absent fails.
Applies(doc, patch) == patch.op = "add" \/ patch.field \in DOMAIN doc.fields

ApplyJSONPatch(doc, patch) ==
    Object([n \in IF patch.op = "add" THEN DOMAIN doc.fields \cup {patch.field}
                  ELSE DOMAIN doc.fields \ {patch.field} |->
               IF n = patch.field THEN patch.value ELSE doc.fields[n]])

\* What the patch makes of the progress is checked, not the patch.
SaveProgress(id, patch) ==
    LET merged == ApplyJSONPatch(payloads[id].progress, patch) IN
    /\ payloads[id].status = "open"
    /\ Applies(payloads[id].progress, patch)
    /\ ValidateShape(payloads[id].type, merged)
    /\ payloads' = [payloads EXCEPT ![id].progress = merged]
    /\ UNCHANGED <<registry, definers, handles>>

Complete(id, output, result) ==
    /\ payloads[id].status = "open"
    /\ ValidateOutput(payloads[id].type, output)
    /\ payloads' = [payloads EXCEPT ![id].status = "completed", ![id].output = output,
                                    ![id].result = result]
    /\ UNCHANGED <<registry, definers, handles>>

(* Typed handles ********************************************************)

KindCreate(id, kind) ==
    \E value \in TypedValues[kind.in] :
        Create(id, kind.name, Marshal(GoStruct(kind.in), value), {value})

\* Nothing checks here that the task is of the handle's type.
KindComplete(id, kind) ==
    \E value \in TypedValues[kind.out] :
        Complete(id, Marshal(GoStruct(kind.out), value), {value})

\* A typed read refuses a task of another type.
KindGet(kind, id) ==
    IF payloads[id].type = kind.name
    THEN {[in |-> Unmarshal(GoStruct(kind.in), payloads[id].input),
           out |-> IF payloads[id].status = "completed"
                   THEN {Unmarshal(GoStruct(kind.out), payloads[id].output)} ELSE {}]}
    ELSE {}

\* What the handle's completion handler is called with.
OnCompleted(kind, id) == UNION {read.out : read \in KindGet(kind, id)}

(* The specification ****************************************************)

TypesInit ==
    /\ registry = << >>
    /\ definers = [d \in Definers |-> {}]
    /\ handles = {}
    /\ payloads = [id \in PayloadIDs |-> NoPayload]

Typed == {kind \in handles : kind.in # "none"}

TypesNext ==
    \/ \E d \in Definers : Register(d) \/ \E spec \in Specs : Compile(d, spec)
    \/ \E id \in PayloadIDs :
           \/ \E name \in TypeNames, doc \in Documents : Create(id, name, doc, {})
           \/ \E patch \in Patches : SaveProgress(id, patch)
           \/ \E doc \in Documents : Complete(id, doc, {})
           \/ \E kind \in Typed : KindCreate(id, kind) \/ KindComplete(id, kind)

TypesSpec == TypesInit /\ [][TypesNext]_typeVars

(* What hosts rely on ***************************************************)

\* A registration answered with success is the type in force, then and ever
\* after: of registrations racing for a name, those that describe another type
\* than the winner's fail.
HandlesKeepTheirSpec ==
    \A kind \in handles :
        /\ kind.name \in DOMAIN registry
        /\ registry[kind.name].config = kind.config
        /\ registry[kind.name].input = kind.input /\ registry[kind.name].output = kind.output

\* What is stored conforms to the type in force: a task's input and output in
\* full, its progress as far as it goes, whatever patches built it.
PayloadsConform ==
    \A id \in PayloadIDs :
        LET task == payloads[id] IN
        /\ task.status # "none" =>
               ValidateInput(task.type, task.input) /\ ValidateShape(task.type, task.progress)
        /\ task.status = "completed" => Valid(Compiled(registry[task.type].output), task.output)

\* Types mean one thing, then and ever after, and what is stored conforms to it.
TypesHold == HandlesKeepTheirSpec /\ PayloadsConform

\* A draft is never refused for being incomplete: every part of a payload the
\* schema accepts, the whole included, can be saved on the way to it.
DraftsStaySaveable ==
    \A name \in TypeNames, doc \in Documents :
        ValidateInput(name, doc) => \A part \in Parts(doc) : ValidateShape(name, part)

\* A typed handle accepts every value of its Go types, under the schemas
\* derived from them, and what was stored through a handle is read back through
\* it, and handed to its completion handler, as the value that was given.
TypedValuesAccepted ==
    \A kind \in Typed :
        /\ \A value \in TypedValues[kind.in] :
               ValidateInput(kind.name, Marshal(GoStruct(kind.in), value))
        /\ \A value \in TypedValues[kind.out] :
               ValidateOutput(kind.name, Marshal(GoStruct(kind.out), value))
        /\ \A id \in PayloadIDs : \A read \in KindGet(kind, id) :
               /\ payloads[id].given \subseteq {read.in}
               /\ payloads[id].result \subseteq OnCompleted(kind, id)
=============================================================================

------------------------------- MODULE MCHosts -------------------------------
(* An instance for TLC of what hosts are built on: the schema they apply, types *)
(* with schemas, transactions they may lead and requests over HTTP.             *)
EXTENDS RestRequests, TaskTypes, SchemaSetup

(* The schema: a table with an index, and one that refers to it. *)

MCTables == <<"tasks", "candidates">>
MCColumns == [tasks |-> {"id", "due_at"}, candidates |-> {"task_id"}]
MCIdentifierColumns == [tasks |-> {"id"}, candidates |-> {"task_id"}]
MCIndexes == [tasks |-> {"due_idx"}, candidates |-> {}]
MCIndexedColumns == [due_idx |-> {"due_at"}]
MCReferences == [tasks |-> {}, candidates |-> {"tasks"}]

(* The types: one with schemas of its own, one whose schemas are derived. *)

Field(name, type, tag) == [name |-> name, type |-> type, tag |-> tag, embedded |-> FALSE]
GoString == [go |-> "string"]
Struct(name) == [go |-> "struct", name |-> name]
Pointer(type) == [go |-> "pointer", elem |-> type]
Slice(type) == [go |-> "slice", elem |-> type]

\* Form holds a form of its own kind, so its derivation meets itself.
MCGoTypes ==
    ("Party" :> <<Field("name", GoString, "")>>) @@
    ("Form" :> <<[name |-> "Party", type |-> Struct("Party"), tag |-> "", embedded |-> TRUE],
                 Field("note", Pointer(GoString), "omitempty"),
                 Field("lines", Slice(Struct("Party")), "omitempty"),
                 Field("previous", Pointer(Struct("Form")), "omitempty"),
                 Field("cache", GoString, "-")>>)

PartySchema ==
    [TypeSchema("object") EXCEPT !.properties = ("name" :> TypeSchema("string")), !.required = {"name"}]

OrderSchema ==
    [TypeSchema("object") EXCEPT
        !.properties = ("party" :> PartySchema) @@
                       ("lines" :> [TypeSchema("array") EXCEPT !.items = {PartySchema}, !.minItems = 1]),
        !.required = {"party"}, !.minProperties = 2]

Authored(config, inputs) ==
    [name |-> "order", config |-> config, input |-> inputs, output |-> {PartySchema},
     in |-> "none", out |-> "none"]

Derived(config, in) ==
    [name |-> "form", config |-> config, input |-> {}, output |-> {}, in |-> in, out |-> "Party"]

MCSpecs ==
    {Authored("plain", {OrderSchema}), Authored("urgent", {OrderSchema}),
     Derived("plain", "Form"), Derived("plain", "none"), Derived("invalid", "Form")}

Named == Object("name" :> String)

MCDocuments ==
    {EmptyObject, Named, Object("name" :> Number),
     Object(("party" :> Named) @@ ("lines" :> Array(<<Named, Named>>))),
     Object(("party" :> EmptyObject) @@ ("lines" :> Array(<<Named>>)))}

Patch(op, field, value) == [op |-> op, field |-> field, value |-> value]

MCPatches ==
    {Patch("add", "party", EmptyObject), Patch("add", "party", Object("name" :> Number)),
     Patch("add", "lines", Array(<< >>)), Patch("remove", "party", Null)}

(* The parts share no state, so each behaviour is one of theirs: the others are *)
(* as they may be at first, and stay so.                                         *)

VARIABLE part   \* the part that moves

AtRest == part # "schema" => database = "postgres" /\ tables = << >>

HostsInit ==
    /\ part \in {"requests", "types", "schema"}
    /\ RestInit /\ TypesInit /\ SchemaInit
    /\ AtRest

HostsNext ==
    /\ UNCHANGED part
    /\ \/ part = "requests" /\ RestNext /\ UNCHANGED <<typeVars, schemaVars>>
       \/ part = "types" /\ TypesNext /\ UNCHANGED <<restVars, schemaVars>>
       \/ part = "schema" /\ SchemaNext /\ UNCHANGED <<restVars, typeVars>>

HostsSpec == HostsInit /\ [][HostsNext]_<<part, restVars, typeVars, schemaVars>>

\* Requests, and runs of the document, differ in nothing but their names.
HostsSymmetry == Permutations(Requests) \cup Permutations(Migrators)
=============================================================================

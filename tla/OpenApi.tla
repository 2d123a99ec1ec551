------------------------------- MODULE OpenApi -------------------------------
(***************************************************************************)
(* How a specification is read: frontend/src/lib/openapi/normalize.ts      *)
(* (parameters, keys, the operation an API opens on), resolve.ts ($ref     *)
(* chains) and schema.ts (example values), as ReferenceTab.tsx and the     *)
(* try-it console use them.  The algorithms are operators; each behaviour  *)
(* reads one of the documents of a bounded set, specifications that refer  *)
(* to themselves included.                                                 *)
(***************************************************************************)
EXTENDS Naturals, Sequences, FiniteSets, SequencesExt, TLC

CONSTANTS Name, Root,    \* the named schemas; the one an example is made for
          Defs,          \* what each of them may be
          MAX_DEPTH,
          Declared, Ops, \* parameters of a path item; operations of a document
          TagOrder,      \* the tags the document declares, in order
          OtherTags      \* the ones it uses without declaring them, by name

\* A schema.  "to" is what it refers to: the target of a $ref, the properties of an object
\* (key -> schema), the items of an array, the parts of allOf, the variants of oneOf.
Schema == [kind: {"ref", "object", "array", "allOf", "oneOf", "scalar", "any"}, to: Seq(Name),
           given: BOOLEAN, readOnly: BOOLEAN, writeOnly: BOOLEAN]
Plain == [n \in Name |-> CHOOSE d \in Defs[n] : d.kind = "scalar"]
Parameter == [name: STRING, in: STRING, required: BOOLEAN, own: BOOLEAN]
OperationItem == [path: Nat, method: Nat, id: STRING, tag: STRING, deprecated: BOOLEAN]
\* A schema may be a scalar in any document; "own" marks an operation's parameters; a path has
\* one operation of each method, the keys of an object.  The modules of the runs assume it.
DocumentAssumption ==
    /\ IsFiniteSet(Name) /\ Root \in Name /\ MAX_DEPTH \in Nat
    /\ DOMAIN Defs = Name
    /\ \A n \in Name : Defs[n] \subseteq Schema /\ \E d \in Defs[n] : d.kind = "scalar"
    /\ Declared.shared \cup Declared.own \subseteq Seq(Parameter)
    /\ \A o \in Declared.own : \A i \in DOMAIN o : o[i].own
    /\ TagOrder \in Seq(STRING) /\ OtherTags \in Seq(STRING)
    /\ \A ops \in Ops :
          /\ IsFiniteSet(ops) /\ ops \subseteq OperationItem
          /\ \A o \in ops : o.tag \in {""} \cup Range(TagOrder \o OtherTags)
          /\ \A o, p \in ops : o.path = p.path /\ o.method = p.method => o = p
NoBody == [fields |-> {}, body |-> FALSE, required |-> FALSE]

VARIABLES
    schemas,       \* the schemas of the document
    shared, own,   \* the parameters of a path item, and of an operation of it
    operations,    \* the operations of the document
    swagger2,      \* the document is OpenAPI 2.0
    reading        \* what was made of them: nothing yet, or the results

oaVars == <<schemas, shared, own, operations, swagger2, reading>>
Unread == [done |-> FALSE]

----------------------------------------------------------------------------
(* resolve.ts                                                              *)

Follow[seen \in SUBSET Name] ==
    [n \in Name |->
        IF schemas[n].kind = "ref" /\ schemas[n].to # <<>> /\ n \notin seen
        THEN Follow[seen \cup {n}][schemas[n].to[1]] ELSE n]

\* A chain that comes back, and one that leads nowhere, stops where it is.
resolveRef(n) == Follow[{}][n]

----------------------------------------------------------------------------
(* schema.ts                                                               *)

Parts(n) == IF schemas[n].kind = "allOf" THEN {resolveRef(m) : m \in Range(schemas[n].to)} ELSE {}

\* mergeAllOf follows the parts of parts without looking back: it does not end if there is
\* always a next one, among schemas that each have a part among them.
Loops(n) == \E S \in SUBSET Name : n \in S /\ \A m \in S : Parts(m) \cap S # {}

Lowest(P) == CHOOSE i \in P : \A j \in P : i <= j
Highest(P) == CHOOSE i \in P : \A j \in P : j <= i

\* What a schema says of its type, properties and items.  The parts of allOf in one: a later
\* part's properties replace an earlier one's, the first type counts, "items" are not taken.
\* It is asked only of a schema that does not loop.
mergeAllOf[n \in Name] ==
    LET d == schemas[n]
        merged == [i \in DOMAIN d.to |-> mergeAllOf[resolveRef(d.to[i])]]
        typed == {i \in DOMAIN d.to : merged[i].type # ""}
        Having(k) == {i \in DOMAIN d.to : k \in DOMAIN merged[i].properties}
    IN  IF d.kind # "allOf" \/ Loops(n)
        THEN [type |-> IF d.kind \in {"object", "array", "scalar"} THEN d.kind ELSE "",
              properties |-> IF d.kind = "object" THEN d.to ELSE <<>>,
              items |-> IF d.kind = "array" THEN d.to ELSE <<>>]
        ELSE [type |-> IF typed = {} THEN "" ELSE merged[Lowest(typed)].type,
              properties |-> [k \in UNION {DOMAIN merged[i].properties : i \in DOMAIN d.to} |->
                                 merged[Highest(Having(k))].properties[k]],
              items |-> <<>>]

\* Merged parts have properties, if only none: without a type they are an object.
schemaTypes(n) == IF schemas[n].kind = "allOf" /\ mergeAllOf[n].type = "" THEN "object"
                  ELSE mergeAllOf[n].type

\* Mutant of Excluded: the property's own object is asked, not what it refers to.
ExcludedUnresolved(n, mode) ==
    \/ mode = "request" /\ schemas[n].readOnly
    \/ mode = "response" /\ schemas[n].writeOnly

\* Request examples leave readOnly properties out, responses writeOnly ones.
Excluded(n, mode) ==
    \/ mode = "request" /\ schemas[resolveRef(n)].readOnly
    \/ mode = "response" /\ schemas[resolveRef(n)].writeOnly

Undefined == [t |-> "undefined", v |-> <<>>]
Overflow == [t |-> "overflow", v |-> <<>>]    \* "Maximum call stack size exceeded"

\* A value made from the type of s: an object of its properties, an array of one item.  "of"
\* has the examples of the schemas below.
Built(s, mode, of) ==
    LET d == mergeAllOf[s]
        asked == {k \in DOMAIN d.properties : ~Excluded(d.properties[k], mode)}
        item == IF d.items = <<>> THEN Undefined ELSE of[d.items[1]]
    IN  CASE schemaTypes(s) = "object" ->
                IF \E k \in asked : of[d.properties[k]] = Overflow THEN Overflow
                ELSE [t |-> "object",
                      v |-> [k \in {j \in asked : of[d.properties[j]] # Undefined} |->
                                of[d.properties[k]]]]
          [] schemaTypes(s) = "array" ->
                IF item = Overflow THEN Overflow
                ELSE [t |-> "array", v |-> IF item = Undefined THEN <<>> ELSE <<item>>]
          [] schemaTypes(s) = "scalar" -> [t |-> "scalar", v |-> <<>>]
          [] OTHER -> Undefined

Modes == {"request", "response"}
\* The schemas on the way to one, a merged one beside the one it was made from.
Path == SUBSET (Name \X {"schema", "merged"})

exampleFromSchema[path \in Path] ==
    [mode \in Modes |-> [n \in Name |->
        LET s == resolveRef(n)
            d == schemas[s]
            on == path \cup {<<s, "schema">>}
        IN  IF Cardinality(path) >= MAX_DEPTH \/ <<s, "schema">> \in path THEN Undefined
            ELSE IF d.given THEN [t |-> "given", v |-> <<>>]
            ELSE IF d.kind = "allOf" THEN
                    IF Loops(s) THEN Overflow
                    ELSE IF Cardinality(on) >= MAX_DEPTH THEN Undefined
                    ELSE Built(s, mode, exampleFromSchema[on \cup {<<s, "merged">>}][mode])
            ELSE IF d.kind = "oneOf" /\ d.to # <<>> THEN exampleFromSchema[on][mode][d.to[1]]
            ELSE Built(s, mode, exampleFromSchema[on][mode])]]

----------------------------------------------------------------------------
(* normalize.ts                                                            *)

LOCATIONS == {"path", "query", "header", "cookie"}

\* The items of s at the places P, in their order (Array.filter).
AtPlaces(s, P) ==
    LET rank(i) == Cardinality({j \in P : j <= i})
    IN  [k \in 1..Cardinality(P) |-> s[CHOOSE i \in P : rank(i) = k]]

\* Mutant of mergeParameters: what was there first stays.
mergeParametersKeep(s, o) ==
    LET all == s \o o
        Same(i) == {j \in DOMAIN all : all[j].name = all[i].name /\ all[j].in = all[i].in}
    IN  AtPlaces(all, {i \in DOMAIN all : all[i].in # "" /\ i = Lowest(Same(i))})

\* A parameter without a name or a place is none; of those with the same name and place the
\* last one counts, the operation's own, and stands where the first stood (Map.set).
mergeParameters(s, o) ==
    LET all == s \o o
        Same(i) == {j \in DOMAIN all : all[j].name = all[i].name /\ all[j].in = all[i].in}
    IN  AtPlaces([i \in DOMAIN all |-> all[Highest(Same(i))]],
                 {i \in DOMAIN all : all[i].in # "" /\ i = Lowest(Same(i))})

\* A parameter of the path is required, whatever it says.
toParameter(p) == [p EXCEPT !.required = @ \/ p.in = "path"]

\* 2.0 has the body among the parameters: one "body", or the fields of a form.
swagger2Body(all) ==
    LET body == {i \in DOMAIN all : all[i].in = "body"}
        form == {i \in DOMAIN all : all[i].in = "formData"}
    IN  IF body # {} THEN [fields |-> {}, body |-> TRUE, required |-> all[Lowest(body)].required]
        ELSE [fields |-> {all[i].name : i \in form}, body |-> FALSE,
              required |-> \E i \in form : all[i].required]

\* By path, then by method.
Before(a, b) == a.path < b.path \/ (a.path = b.path /\ a.method < b.method)
Sorted(ops) ==
    [k \in 1..Cardinality(ops) |->
        CHOOSE o \in ops : Cardinality({p \in ops : ~Before(o, p)}) = k]

\* Mutant of assignKeys: operationIds are taken for unique.
assignKeysById(ops) ==
    [i \in DOMAIN ops |->
        IF ops[i].id # "" THEN <<ops[i].id>> ELSE <<ops[i].method, ops[i].path>>]

\* operationId when unique, otherwise "METHOD /path": no operationId is written like that.
assignKeys(ops) ==
    [i \in DOMAIN ops |->
        IF ops[i].id # "" /\ Cardinality({j \in DOMAIN ops : ops[j].id = ops[i].id}) = 1
        THEN <<ops[i].id>> ELSE <<ops[i].method, ops[i].path>>]

\* The groups of the tree: declared tags in their order, other tags by name, no tag.
TagRank(op) ==
    IF op.tag = "" THEN Len(TagOrder \o OtherTags) + 1
    ELSE Lowest({i \in DOMAIN (TagOrder \o OtherTags) : (TagOrder \o OtherTags)[i] = op.tag})

\* What an API opens on: the first of the first group, deprecated ones left out if others
\* are there.  0: there is none.
firstOperation(ops) ==
    LET live == {i \in DOMAIN ops : ~ops[i].deprecated}
        among == IF live = {} THEN DOMAIN ops ELSE live
    IN  IF among = {} THEN 0
        ELSE CHOOSE i \in among : \A j \in among :
                \/ TagRank(ops[i]) < TagRank(ops[j])
                \/ TagRank(ops[i]) = TagRank(ops[j]) /\ i <= j

----------------------------------------------------------------------------
\* A document: its schemas, the parameters of a path, or its operations vary.
OaInit ==
    /\ reading = Unread
    /\ \/ /\ schemas \in [Name -> UNION {Defs[n] : n \in Name}]
          /\ \A n \in Name : schemas[n] \in Defs[n]
          /\ shared = <<>> /\ own = <<>> /\ operations = {} /\ swagger2 = FALSE
       \/ /\ schemas = Plain /\ operations = {}
          /\ shared \in Declared.shared /\ own \in Declared.own /\ swagger2 \in BOOLEAN
       \/ schemas = Plain /\ shared = <<>> /\ own = <<>> /\ operations \in Ops /\ swagger2 = FALSE

\* An empty document.
NoDocument ==
    /\ schemas = Plain /\ shared = <<>> /\ own = <<>> /\ operations = {} /\ swagger2 = FALSE
    /\ reading = Unread

\* The reference page is opened.
normalizeSpec ==
    /\ reading = Unread
    /\ LET all == mergeParameters(shared, own)
           asked == AtPlaces(all, {i \in DOMAIN all : all[i].in \in LOCATIONS})
           ops == Sorted(operations)
       IN  reading' = [done |-> TRUE,
                       examples |-> [mode \in Modes |-> exampleFromSchema[{}][mode][Root]],
                       parameters |-> [i \in DOMAIN asked |-> toParameter(asked[i])],
                       body |-> IF swagger2 THEN swagger2Body(all) ELSE NoBody,
                       operations |-> ops,
                       keys |-> assignKeys(ops),
                       first |-> firstOperation(ops)]
    /\ UNCHANGED <<schemas, shared, own, operations, swagger2>>

OaNext == normalizeSpec

----------------------------------------------------------------------------
OaTypeOK == schemas \in [Name -> Schema] /\ reading.done \in BOOLEAN

\* The values that may stand for a schema below the schemas "up": of its type, its parts
\* likewise, a property missing only if it is not for this mode or nothing may stand for it.
\* None for one of those above, one without a type, and one that is too deep.
Fitting[up \in Path] ==
    [mode \in Modes |-> [n \in Name |->
        LET s == resolveRef(n)
            merged == schemas[s].kind = "allOf" /\ ~schemas[s].given
            of == Fitting[up \cup ({s} \X (IF merged THEN {"schema", "merged"} ELSE {"schema"}))][mode]
            d == mergeAllOf[s]
            Meant(m) == LET p == schemas[resolveRef(m)]
                        IN  ~(IF mode = "request" THEN p.readOnly ELSE p.writeOnly)
            keys == {k \in DOMAIN d.properties : Meant(d.properties[k]) /\ of[d.properties[k]] # {}}
        IN  IF <<s, "schema">> \in up \/ Cardinality(up) + (IF merged THEN 2 ELSE 1) > MAX_DEPTH THEN {}
            ELSE IF schemas[s].given THEN [t: {"given"}, v: {<<>>}]
            ELSE IF schemas[s].kind = "oneOf" /\ schemas[s].to # <<>> THEN of[schemas[s].to[1]]
            ELSE CASE schemaTypes(s) = "object" ->
                         [t: {"object"}, v: {f \in [keys -> UNION Range(of)] :
                                                \A k \in keys : f[k] \in of[d.properties[k]]}]
                   [] schemaTypes(s) = "array" ->
                         [t: {"array"}, v: {<<>>} \cup (IF d.items = <<>> THEN {}
                                                         ELSE {<<x>> : x \in of[d.items[1]]})]
                   [] schemaTypes(s) = "scalar" -> [t: {"scalar"}, v: {<<>>}]
                   [] OTHER -> {}]]

\* Examples of specifications that refer to themselves end, and fit the schema; only parts
\* of allOf that contain themselves are not survived (schema.ts:93 "recursive specs can't
\* hang the page").
ExamplesFit ==
    reading.done => \A mode \in Modes :
        LET example == reading.examples[mode]
            fitting == Fitting[{}][mode][Root]
        IN  CASE example = Overflow -> \E n \in Name : Loops(n)
              [] example = Undefined -> fitting = {}
              [] OTHER -> (~\E n \in Name : Loops(n)) => example \in fitting

\* Every operation can be linked to: its key is its own.  The one an API opens on is there
\* whenever there is any, and is the first the tree shows among those not deprecated.
KeysFind ==
    reading.done =>
        LET all == reading.operations IN
        /\ Range(all) = operations /\ Len(all) = Cardinality(operations)
        /\ \A i, j \in DOMAIN all : i # j => reading.keys[i] # reading.keys[j]
        /\ (reading.first = 0) = (operations = {})
        /\ reading.first # 0 =>
              /\ all[reading.first].deprecated => \A o \in operations : o.deprecated
              /\ \A o \in operations : TagRank(o) < TagRank(all[reading.first]) => o.deprecated

\* No parameter is asked for twice, none is lost (the body of 2.0 takes the place of form
\* fields), and the operation's own one counts.
ParametersOnce ==
    reading.done =>
        /\ \A i, j \in DOMAIN reading.parameters :
              i # j => reading.parameters[i].name # reading.parameters[j].name
                       \/ reading.parameters[i].in # reading.parameters[j].in
        /\ \A p \in Range(shared) \cup Range(own) :
              /\ p.in \in LOCATIONS => \E q \in Range(reading.parameters) : q.name = p.name /\ q.in = p.in
              /\ swagger2 /\ p.in = "body" => reading.body.body
              /\ swagger2 /\ p.in = "formData" => reading.body.body \/ p.name \in reading.body.fields
        /\ \A q \in Range(reading.parameters) :
              /\ q.in = "path" => q.required
              /\ (\E p \in Range(own) : p.name = q.name /\ p.in = q.in) => q.own

=============================================================================

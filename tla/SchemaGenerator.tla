---------------------------- MODULE SchemaGenerator ----------------------------
(***************************************************************************)
(* tl-prefix-gen: it reads schema files line by line into namespaces, then *)
(* sorts and writes one module of tables for each, with the two functions  *)
(* that search them: find_method and lookup_schema of generated.rs.        *)
(*                                                                         *)
(* A line is a record.  Its name is <<prefix, rest>>, with "" for a name   *)
(* without a dot.  The constants that are written beside the tables are    *)
(* left out.                                                               *)
(***************************************************************************)
EXTENDS Naturals, Sequences, FiniteSets

CONSTANTS
    Files,          \* the file names, in the order they are given
    LinesOf,        \* file name -> the lines it may have
    MaxLinesOf,     \* bound: file name -> number of lines
    Precedes(_, _), \* the order of the namespaces' names
    NamePrecedes(_, _),     \* the order of names, written out with their dot
    Builds          \* the sets of namespaces a build of the library enables

NoFlags == 255  \* 0xFF

DeclarationsIn(f) == {line \in LinesOf[f] : line.kind = "declaration"}
AllDeclarations == UNION {DeclarationsIn(f) : f \in DOMAIN LinesOf}

IsWord(token) == token.ty = "#"

Orders(before(_, _), S) ==
    /\ \A a \in S : ~before(a, a)
    /\ \A a, b \in S : a = b \/ before(a, b) \/ before(b, a)
    /\ \A a, b, c \in S : before(a, b) /\ before(b, c) => before(a, c)

ASSUME FilesAssumption ==
    /\ Files \in Seq(DOMAIN LinesOf)
    /\ \A i, j \in DOMAIN Files : Files[i] = Files[j] => i = j
    /\ \A f \in DOMAIN LinesOf : MaxLinesOf[f] \in Nat

(* core.tl declares no namespace, and none is called "core".               *)
ASSUME NamesAssumption ==
    /\ \A f \in DOMAIN LinesOf : \A line \in DeclarationsIn(f) :
          /\ line.name[1] # "core"
          /\ f = "core.tl" => line.name[1] = ""
    /\ \A line \in AllDeclarations : line.id \in Nat

ASSUME OrderAssumption ==
    /\ Orders(Precedes, {"core", "common"} \cup ({line.name[1] : line \in AllDeclarations} \ {""}))
    /\ Orders(NamePrecedes, {line.name : line \in AllDeclarations})

(* No flags word is conditional, and none has the name of another of its   *)
(* constructor; the number of one fits its byte, and is not NoFlags.       *)
ASSUME FieldsAssumption ==
    \A line \in AllDeclarations :
        LET words == {i \in DOMAIN line.fields : IsWord(line.fields[i])}
        IN  /\ Len(line.fields) < NoFlags
            /\ line.fields \in Seq([name : STRING, ty : STRING, flags : STRING, bit : Nat])
            /\ \A i \in words : line.fields[i].flags = ""
            /\ \A i, j \in words : line.fields[i].name = line.fields[j].name => i = j

VARIABLES
    file,           \* the number of the file that is read
    lineNumber,
    isMethod,       \* is_method
    namespaces,     \* name -> [constructors, gated], the BTreeMap
    output,         \* "previous", "truncated" or the tables
    state,          \* "idle", "reading", "error", "written"
    text            \* history: the lines read, [file, line]

generatorVars == <<file, lineNumber, isMethod, namespaces, output, state, text>>

Previous == [kind |-> "previous"]
Truncated == [kind |-> "truncated"]

-----------------------------------------------------------------------------
(* Fields.  A token is [name, ty, flags, bit], where flags names a flags   *)
(* word for a conditional field and is "" for any other; the type of a     *)
(* flags word is "#".                                                      *)
WordsBefore(tokens, i) == {k \in 1 .. i - 1 : IsWord(tokens[k])}
NumberOf(tokens, k) == Cardinality(WordsBefore(tokens, k))

(* The flags words before a conditional field that have the name it gives. *)
Named(tokens, i) == {k \in WordsBefore(tokens, i) : tokens[k].name = tokens[i].flags}
FirstNamed(tokens, i) ==
    CHOOSE k \in Named(tokens, i) : \A m \in Named(tokens, i) : k <= m

(* An optional field refers to a flags word before it.                     *)
WellFormed(tokens) ==
    \A i \in DOMAIN tokens : tokens[i].flags # "" => Named(tokens, i) # {}

(* Mutant: the flags words are numbered by their place among the fields.   *)
ParseFieldsByPlace(tokens) ==
    [i \in DOMAIN tokens |->
        [name |-> tokens[i].name, ty |-> tokens[i].ty, bit |-> tokens[i].bit,
         flagsField |->
            IF IsWord(tokens[i]) THEN i - 1
            ELSE IF tokens[i].flags = "" THEN NoFlags
            ELSE NumberOf(tokens, FirstNamed(tokens, i))]]

(* parse_fields                                                            *)
ParseFields(tokens) ==
    [i \in DOMAIN tokens |->
        [name |-> tokens[i].name, ty |-> tokens[i].ty, bit |-> tokens[i].bit,
         flagsField |->
            IF IsWord(tokens[i]) THEN NumberOf(tokens, i)
            ELSE IF tokens[i].flags = "" THEN NoFlags
            ELSE NumberOf(tokens, FirstNamed(tokens, i))]]

-----------------------------------------------------------------------------
GeneratorInit ==
    /\ file = 0 /\ lineNumber = 0 /\ isMethod = FALSE
    /\ namespaces = << >> /\ text = <<>>
    /\ output = Previous /\ state = "idle"

(* The output file is created, and so emptied, before a schema is read.    *)
Create ==
    /\ state = "idle"
    /\ output' = Truncated
    /\ state' = "reading" /\ file' = 1 /\ lineNumber' = 0
    /\ UNCHANGED <<isMethod, namespaces, text>>

ReadLine(line) ==
    /\ state = "reading" /\ file <= Len(Files)
    /\ lineNumber < MaxLinesOf[Files[file]] /\ line \in LinesOf[Files[file]]
    /\ lineNumber' = lineNumber + 1
    /\ text' = Append(text, [file |-> Files[file], line |-> line])
    /\ UNCHANGED <<file, output>>

(* ---functions--- and ---types---                                         *)
ReadSection(line) ==
    /\ ReadLine(line) /\ line.kind \in {"functions", "types"}
    /\ isMethod' = (line.kind = "functions")
    /\ UNCHANGED <<namespaces, state>>

(* A comment, no `=`, no `#`, or the declaration of `vector`.              *)
ReadSkipped(line) ==
    /\ ReadLine(line) /\ line.kind = "skipped"
    /\ UNCHANGED <<isMethod, namespaces, state>>

Flat == IF Files[file] = "core.tl" THEN "core" ELSE "common"
NamespaceOf(name) == IF name[1] = "" THEN Flat ELSE name[1]

Entries(n) ==
    IF n \in DOMAIN namespaces THEN namespaces[n]
    ELSE [constructors |-> <<>>, gated |-> FALSE]

IsDuplicate(line) ==
    \E i \in DOMAIN Entries(NamespaceOf(line.name)).constructors :
        Entries(NamespaceOf(line.name)).constructors[i].name = line.name

Fails(line) ==
    \/ line.kind = "badId"
    \/ line.kind = "declaration" /\ (IsDuplicate(line) \/ ~WellFormed(line.fields))

(* An identifier that is no number, a duplicate, or a bad field.           *)
ReadError(line) ==
    /\ ReadLine(line) /\ Fails(line)
    /\ state' = "error"
    /\ UNCHANGED <<isMethod, namespaces>>

ReadDeclaration(line) ==
    /\ ReadLine(line) /\ line.kind = "declaration" /\ ~Fails(line)
    /\ LET n == NamespaceOf(line.name)
           new == [name |-> line.name, id |-> line.id, isMethod |-> isMethod,
                   fields |-> ParseFields(line.fields)]
           entry == [constructors |-> Append(Entries(n).constructors, new),
                     gated |-> Entries(n).gated \/ Flat # "core"]
       IN  namespaces' = [m \in DOMAIN namespaces \cup {n} |->
                             IF m = n THEN entry ELSE namespaces[m]]
    /\ UNCHANGED <<isMethod, state>>

(* Mutant: the section outlives its file.                                  *)
NextFileSameSection ==
    /\ state = "reading" /\ file <= Len(Files)
    /\ file' = file + 1 /\ lineNumber' = 0
    /\ UNCHANGED <<isMethod, namespaces, output, state, text>>

(* A file ends wherever it ends; the next one begins with types.           *)
NextFile ==
    /\ state = "reading" /\ file <= Len(Files)
    /\ file' = file + 1 /\ lineNumber' = 0 /\ isMethod' = FALSE
    /\ UNCHANGED <<namespaces, output, state, text>>

-----------------------------------------------------------------------------
(* sort_by: `before` holds the pairs of places in s whose first element is *)
(* less; those neither of which is less keep their order.                  *)
Rank(chosen, before, i) ==
    Cardinality({j \in chosen : <<j, i>> \in before \/ (j < i /\ <<i, j>> \notin before)})

Sorted(s, chosen, before) ==
    [k \in 1 .. Cardinality(chosen) |->
        s[CHOOSE i \in chosen : Rank(chosen, before, i) = k - 1]]

Pairs(s) == (DOMAIN s) \X (DOMAIN s)

(* Mutant: the table keeps the order of the file.                          *)
ByIdUnsorted(constructors) == constructors

ById(constructors) ==
    Sorted(constructors, DOMAIN constructors,
           {p \in Pairs(constructors) : constructors[p[1]].id < constructors[p[2]].id})

Methods(constructors) ==
    Sorted(constructors, {i \in DOMAIN constructors : constructors[i].isMethod},
           {p \in Pairs(constructors) :
               NamePrecedes(constructors[p[1]].name, constructors[p[2]].name)})

(* write_namespace_module for every namespace.                             *)
Write ==
    /\ state = "reading" /\ file > Len(Files)
    /\ output' = [kind |-> "tables",
                  of |-> [n \in DOMAIN namespaces |->
                            LET sorted == ById(namespaces[n].constructors)
                            IN  [gated |-> namespaces[n].gated, schema |-> sorted,
                                 methods |-> Methods(sorted)]]]
    /\ state' = "written"
    /\ UNCHANGED <<file, lineNumber, isMethod, namespaces, text>>

GeneratorNext ==
    \/ Create \/ NextFile \/ Write
    \/ \E line \in UNION {LinesOf[f] : f \in DOMAIN LinesOf} :
          \/ ReadSection(line) \/ ReadSkipped(line)
          \/ ReadError(line) \/ ReadDeclaration(line)

GeneratorSpec == GeneratorInit /\ [][GeneratorNext]_generatorVars

-----------------------------------------------------------------------------
(* What the written functions do in a build that compiles the namespaces   *)
(* `enabled` beside those that have no gate.                               *)
PartitionPoint(table, before) ==
    Cardinality({i \in DOMAIN table : 1 .. i \subseteq before}) + 1

NotFound == [found |-> FALSE]
Hit(entry) == [found |-> TRUE, entry |-> entry]

SearchById(schema, id) ==
    LET i == PartitionPoint(schema, {j \in DOMAIN schema : schema[j].id < id})
    IN  IF i \in DOMAIN schema /\ schema[i].id = id THEN Hit(schema[i]) ELSE NotFound

SearchByName(methods, name) ==
    LET i == PartitionPoint(methods, {j \in DOMAIN methods : NamePrecedes(methods[j].name, name)})
    IN  IF i \in DOMAIN methods /\ methods[i].name = name THEN Hit(methods[i]) ELSE NotFound

Compiled(enabled) == {n \in DOMAIN output.of : output.of[n].gated => n \in enabled}

(* The namespaces are tried in their order, and the first hit counts.      *)
FirstOf(hits) ==
    IF hits = << >> THEN NotFound
    ELSE hits[CHOOSE n \in DOMAIN hits : \A m \in DOMAIN hits : m = n \/ Precedes(n, m)]

LookupSchema(id, enabled) ==
    FirstOf([n \in {m \in Compiled(enabled) : SearchById(output.of[m].schema, id).found} |->
                SearchById(output.of[n].schema, id)])

FindMethod(name, enabled) ==
    FirstOf([n \in {m \in Compiled(enabled) : SearchByName(output.of[m].methods, name).found} |->
                SearchByName(output.of[n].methods, name)])

-----------------------------------------------------------------------------
(* What TL says of the text: a declaration is a method when the last       *)
(* section line above it in its file opens the functions.                  *)
InFunctions(f, i) ==
    \E j \in 1 .. i - 1 :
        /\ text[j].file = f /\ text[j].line.kind = "functions"
        /\ \A k \in j + 1 .. i - 1 : text[k].line.kind # "types"

MethodAt(i) == InFunctions(text[i].file, i)

HomeOf(f, name) ==
    IF name[1] # "" THEN name[1] ELSE IF f = "core.tl" THEN "core" ELSE "common"

Declarations ==
    {[file |-> text[i].file, line |-> text[i].line, method |-> MethodAt(i)] :
        i \in {k \in DOMAIN text : text[k].line.kind = "declaration"}}

(* The schema of a build: core.tl, and of the other files the namespaces   *)
(* the build enables.                                                      *)
SchemaOf(enabled) ==
    {d \in Declarations : d.file = "core.tl" \/ HomeOf(d.file, d.line.name) \in enabled}

(* In every build, the two searches find exactly what the schema of that   *)
(* build declares: an identifier is found when one of its declarations is  *)
(* linked, with that declaration's name and number of fields, and a        *)
(* method's name gives its identifier, while a type's name gives nothing.  *)
LookupIsExact ==
    state = "written" =>
        \A enabled \in Builds :
            LET schema == SchemaOf(enabled)
            IN  \A d \in Declarations :
                    LET byId == LookupSchema(d.line.id, enabled)
                        byName == FindMethod(d.line.name, enabled)
                        same == {e \in schema : e.line.id = d.line.id}
                        methods == {e \in schema : e.line.name = d.line.name /\ e.method}
                    IN  /\ byId.found <=> same # {}
                        /\ byId.found => \E e \in same :
                               /\ byId.entry.name = e.line.name
                               /\ Len(byId.entry.fields) = Len(e.line.fields)
                        /\ byName.found <=> methods # {}
                        /\ byName.found => \E e \in methods : byName.entry.id = e.line.id

(* In the tables, the flags word a conditional field refers to is the one  *)
(* of its constructor that the declaration names, and no other has its     *)
(* number: the serializer sets the bit the peer will look at.              *)
FlagsWordFound ==
    state = "written" =>
        \A d \in Declarations :
            LET table == output.of[HomeOf(d.file, d.line.name)].schema
                fields == table[CHOOSE i \in DOMAIN table : table[i].name = d.line.name].fields
                words == {k \in DOMAIN fields : fields[k].ty = "#"}
            IN  \A j \in DOMAIN fields : d.line.fields[j].flags # "" =>
                   {k \in words : fields[k].flagsField = fields[j].flagsField}
                     = {k \in words : fields[k].name = d.line.fields[j].flags}
===============================================================================

------------------------------- MODULE Rendering ------------------------------
(***************************************************************************)
(* How the assignment controller renders one assignment                    *)
(* (controllers/assignment_controller.go, scheduler/config_validator.go,   *)
(* scheduler/templater.go): it collects config data from the config maps   *)
(* that apply, validates it against the schemas that apply, and expands a  *)
(* template with it.  The orders that Go leaves open (iteration over a     *)
(* map, ties of a sort, the items of a cached list) are choices here.      *)
(*                                                                         *)
(* A key of a config map is the sequence of its dot-separated parts.       *)
(***************************************************************************)
EXTENDS ConfigValues, FiniteSets, FiniteSetsExt, SequencesExt

CONSTANTS
    Sources,      \* the sets of config maps that may exist; a config map has a name
                  \* (a number, for the order of names), azure (the prefix of its
                  \* name), platform (its label "platform-config"), labels and data
    Schemas,      \* the sets of schemas that may exist: labels, and the type of each
                  \* key that is required
    ClusterType,  \* name and labels
    Target,       \* name, workload and labels
    Width,        \* length of each part of a key
    Numerals,     \* the texts that are numbers
    Merged(_, _), \* a value merged with another of higher precedence: MergeObjects of
                  \* ConfigMerge
    TextsIn(_),   \* the texts of a value, each with its path: Leaves of ConfigMerge
    Refs(_),      \* the keys to which a text refers, as a template
    Template      \* the keys to which the manifest refers

(***************************************************************************)
(* Labels.                                                                 *)
(***************************************************************************)
LabelOf(labels, l) == IF l \in DOMAIN labels THEN labels[l] ELSE ""

\* isConfigForClusterTypeAndTarget; labels of Flux and the one of config maps are not
\* looked at (and are not in the model).
Applies(labels) ==
    \A l \in DOMAIN labels :
        CASE l = "cluster-type"      -> labels[l] = ClusterType.name
          [] l = "deployment-target" -> labels[l] = Target.name
          [] l = "workload"          -> labels[l] = Target.workload
          [] OTHER -> labels[l] \in {LabelOf(ClusterType.labels, l), LabelOf(Target.labels, l)}

\* getLabelsFromKey: pairs of parts are labels, the last part is the key proper.
LabelsFromKey(key) ==
    LET pairs == {i \in 1..Len(key) : 2 * i < Len(key)}
    IN  [l \in {key[2 * i - 1] : i \in pairs} |->
            key[2 * Max({i \in pairs : key[2 * i - 1] = l})]]

\* Mutant of TrimmedKey: the labels are left in the key.
UntrimmedKey(key) == key

TrimmedKey(key) == <<Last(key)>>

\* Number of characters of a key, with its dots.
Length(key) == MapThenSumSet(LAMBDA i : Width[key[i]] + 1, DOMAIN key)

(***************************************************************************)
(* Values.                                                                 *)
(***************************************************************************)

\* What is asked of a merge of values, of any values in V: all texts of the new value are
\* in it, and those of the old value that have a place beside them; and nothing else.
MergeKeepsTexts(V) ==
    \A old, new \in V :
        TextsIn(Merged(old, new)) =
            TextsIn(new) \cup {f \in TextsIn(old) : \A g \in TextsIn(new) : ~Clash(f.path, g.path)}

\* Config maps are named and their keys have parts; names are ordered.
ASSUME SourcesAssumption ==
    \A maps \in Sources : \A m \in maps :
        /\ m.name \in Nat
        /\ \A key \in DOMAIN m.data : key \in Seq(STRING) \ {<< >>} /\ Length(key) \in Nat

-----------------------------------------------------------------------------
VARIABLES
    sources, \* the config maps
    schemas, \* the schemas
    data,    \* config data collected so far
    lost,    \* a list failed, the data was given up
    todo,    \* pairs of a config map and a key of it that are still to be read
    stage,   \* "labelled", "azure", "collected", "expand", "rendered" or "failed"
    refs     \* keys to which the text being expanded refers

vars == <<sources, schemas, data, lost, todo, stage, refs>>

NoData == [k \in {} |-> Text("")]

EntriesOf(maps) == UNION {{m} \X DOMAIN m.data : m \in maps}

Init ==
    /\ sources \in Sources
    /\ schemas \in Schemas
    /\ data = NoData
    /\ lost = FALSE
    /\ todo = EntriesOf({m \in sources : m.platform})
    /\ stage = "labelled"
    /\ refs = {}

Merge(key, value) ==
    LET new == ObjectFromConfigValue(value)
    IN  data' = [k \in DOMAIN data \cup {key} |->
                    IF k # key THEN data[k]
                    ELSE IF k \in DOMAIN data THEN Merged(data[k], new) ELSE new]

\* The loop over config maps with the label, in the order of their names.
ReadLabelled(m, key) ==
    /\ stage = "labelled" /\ <<m, key>> \in todo
    /\ \A e \in todo : m.name <= e[1].name
    /\ todo' = todo \ {<<m, key>>}
    /\ IF Applies(m.labels) THEN Merge(key, m.data[key]) ELSE UNCHANGED data
    /\ UNCHANGED <<sources, schemas, lost, stage, refs>>

\* The second list: config maps of Azure App Configuration, by their names.
ListAzure ==
    /\ stage = "labelled" /\ todo = {}
    /\ todo' = EntriesOf({m \in sources : m.azure})
    /\ stage' = "azure"
    /\ UNCHANGED <<sources, schemas, data, lost, refs>>

Pending(m) == {e[2] : e \in {x \in todo : x[1] = m}}

\* Mutant of ReadAzure: the keys of a config map are not sorted.
ReadAzureUnsorted(m, key) ==
    /\ stage = "azure" /\ <<m, key>> \in todo
    /\ todo' = todo \ {<<m, key>>}
    /\ IF Applies(LabelsFromKey(key)) THEN Merge(TrimmedKey(key), m.data[key]) ELSE UNCHANGED data
    /\ UNCHANGED <<sources, schemas, lost, stage, refs>>

\* Its loop: one config map after the other in any order, keys by increasing length.
ReadAzure(m, key) ==
    /\ stage = "azure" /\ <<m, key>> \in todo
    /\ \A k \in Pending(m) : Length(key) <= Length(k)
    /\ \A e \in todo : e[1] # m => Pending(e[1]) = DOMAIN e[1].data
    /\ todo' = todo \ {<<m, key>>}
    /\ IF Applies(LabelsFromKey(key)) THEN Merge(TrimmedKey(key), m.data[key]) ELSE UNCHANGED data
    /\ UNCHANGED <<sources, schemas, lost, stage, refs>>

\* A list of config maps fails: the caller gets no data, and no error.
ListFails ==
    /\ stage = "labelled" /\ todo \in {{}, EntriesOf({m \in sources : m.platform})}
    /\ data' = NoData /\ lost' = TRUE /\ todo' = {}
    /\ stage' = "collected"
    /\ UNCHANGED <<sources, schemas, refs>>

Collected ==
    /\ stage = "azure" /\ todo = {}
    /\ stage' = "collected"
    /\ UNCHANGED <<sources, schemas, data, lost, todo, refs>>

\* ValidateValues: a text that is a number counts as one, quoted or not.
TypeOf(v) == IF v.kind = "text" THEN (IF v.text \in Numerals THEN "number" ELSE "string")
                                ELSE v.kind

Violates(schema) ==
    \E k \in DOMAIN schema.required :
        k \notin DOMAIN data \/ TypeOf(data[k]) # schema.required[k]

\* validateConfigData; a schema without labels may be one of the target itself.
Invalid == \E s \in schemas : Applies(s.labels) /\ Violates(s)

\* The list of schemas may fail, too.
ValidateConfigData(ok) ==
    /\ stage = "collected"
    /\ IF ok /\ ~Invalid THEN stage' = "expand" /\ refs' = Template
                         ELSE stage' = "failed" /\ UNCHANGED refs
    /\ UNCHANGED <<sources, schemas, data, lost, todo>>

TextsOf(keys) == UNION {{f.text : f \in TextsIn(data[k])} : k \in keys \cap DOMAIN data}

\* Mutant of ReplaceTemplateVariables: a pass keeps what it has replaced.
ReplaceKeepingTemplates ==
    /\ stage = "expand"
    /\ refs' = refs \cup UNION {Refs(t) : t \in TextsOf(refs)}
    /\ IF refs' = {} THEN stage' = "rendered" ELSE UNCHANGED stage
    /\ UNCHANGED <<sources, schemas, data, lost, todo>>

\* replaceTemplateVariables: one pass; again while there are templates in the result.
ReplaceTemplateVariables ==
    /\ stage = "expand"
    /\ refs' = UNION {Refs(t) : t \in TextsOf(refs)}
    /\ IF refs' = {} THEN stage' = "rendered" ELSE UNCHANGED stage
    /\ UNCHANGED <<sources, schemas, data, lost, todo>>

\* The text of a pass does not parse, or executing it fails.
TemplateFails ==
    /\ stage = "expand"
    /\ stage' = "failed"
    /\ UNCHANGED <<sources, schemas, data, lost, todo, refs>>

\* The rendered manifests are the controller's; the model stops here.
Finished == stage \in {"rendered", "failed"} /\ UNCHANGED vars

Step ==
    \/ \E m \in sources : \E key \in DOMAIN m.data : ReadLabelled(m, key) \/ ReadAzure(m, key)
    \/ ListAzure
    \/ Collected
    \/ \E ok \in BOOLEAN : ValidateConfigData(ok)
    \/ ReplaceTemplateVariables

Next == Step \/ ListFails \/ TemplateFails \/ Finished

\* A reconciliation that has begun runs to its end.
Spec == Init /\ [][Next]_vars /\ WF_vars(Step)

(***************************************************************************)
(* Properties.                                                             *)
(***************************************************************************)
TypeOK ==
    /\ sources \in Sources /\ schemas \in Schemas /\ lost \in BOOLEAN
    /\ stage \in {"labelled", "azure", "collected", "expand", "rendered", "failed"}
    /\ todo \subseteq EntriesOf(sources)
    /\ \A k \in DOMAIN data : \E m \in sources : \E key \in DOMAIN m.data :
          (m.platform /\ k = key) \/ (m.azure /\ k = <<Last(key)>>)
    /\ refs \subseteq UNION ({Template} \cup {Refs(t) : t \in TextsOf(DOMAIN data)})

\* What the config maps that apply contribute to a key.
Contributions(k) ==
    {<<"labelled", m, k>> : m \in {x \in sources : x.platform /\ k \in DOMAIN x.data /\ Applies(x.labels)}}
    \cup {<<"azure", e[1], e[2]>> : e \in {x \in EntriesOf({m \in sources : m.azure}) :
                                     Last(x[2]) = Last(k) /\ Len(k) = 1 /\ Applies(LabelsFromKey(x[2]))}}

ValueOf(c) == ObjectFromConfigValue(c[2].data[c[3]])

\* Labelled config maps come first, by their names; then shorter keys before longer ones.
Before(c, d) ==
    \/ c[1] = "labelled" /\ d[1] = "azure"
    \/ c[1] = "labelled" /\ d[1] = "labelled" /\ c[2].name < d[2].name
    \/ c[1] = "azure" /\ d[1] = "azure" /\ c[2] = d[2] /\ Length(c[3]) < Length(d[3])

\* A text of a contribution survives unless a contribution of higher precedence has a
\* text in its place: merging, one contribution at a time and in place, loses nothing
\* else and adds nothing.  (Only keys whose contributions have an order; config maps of
\* Azure have none among them, nor have keys of one length in such a config map.)
ConfigDataIsLayered ==
    stage = "collected" /\ ~lost =>
        \A k \in {e[2] : e \in EntriesOf(sources)} \cup {<<Last(e[2])>> : e \in EntriesOf(sources)} :
            LET cs == Contributions(k)
                Survives(c, f) == \A d \in cs : Before(c, d) =>
                                      \A g \in TextsIn(ValueOf(d)) : ~Clash(f.path, g.path)
            IN  /\ (k \in DOMAIN data) <=> (cs # {})
                /\ cs # {} /\ (\A c, d \in cs : c = d \/ Before(c, d) \/ Before(d, c)) =>
                    TextsIn(data[k]) = UNION {{f \in TextsIn(ValueOf(c)) : Survives(c, f)} : c \in cs}

\* No text leads to a template of the key it stands under: keys can be ranked.
Acyclic ==
    \E rank \in [DOMAIN data -> 1..Cardinality(DOMAIN data)] :
        \A k \in DOMAIN data : \A t \in TextsOf({k}) :
            \A j \in Refs(t) \cap DOMAIN data : rank[j] < rank[k]

\* The assignment is rendered or refused in the end, unless the config data is cyclic
\* (the code then recurses for ever).
RenderingEnds == TRUE ~> (stage \in {"rendered", "failed"} \/ (stage = "expand" /\ ~Acyclic))
=============================================================================

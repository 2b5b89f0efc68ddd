----------------------------- MODULE MCRendering ----------------------------
(* Instances of Rendering: any three of a pool of config maps. *)
EXTENDS Rendering, ConfigMerge

None == [l \in {} |-> ""]
Mp(f) == [kind |-> "map", map |-> f]
Ls(s) == [kind |-> "list", items |-> s]
Item(n, f) == Mp([k \in {"name"} |-> Text(n)] @@ f)
OneKey(k, v) == [x \in {k} |-> v]

Labelled(n, labels, d) ==
    [name |-> n, azure |-> FALSE, platform |-> TRUE, labels |-> labels, data |-> d]
Azure(n, labelled, d) ==
    [name |-> n, azure |-> TRUE, platform |-> labelled, labels |-> None, data |-> d]

\* Key "db" holds a text, a map or a list in turn; "url" and "host" refer to each other.
Db == <<"db">>
Url == <<"url">>
Region(k) == <<"region", "west", k>>
East(k) == <<"region", "east", k>>
Typed(k) == <<"cluster-type", "large", k>>

Pool == {
    Labelled(1, None, Db :> Mp("x" :> Text("1") @@ "y" :> Text("a")) @@ Url :> Text("to-host")),
    Labelled(2, "region" :> "west", Db :> Mp("x" :> Text("2") @@ "z" :> Ls(<<Item("n", "p" :> Text("1"))>>))),
    Labelled(3, "region" :> "east", Db :> Text("a")),
    Labelled(4, "workload" :> "app", Db :> Ls(<<Item("n", "p" :> Text("1")), Text("a")>>)),
    Labelled(5, "deployment-target" :> "func", Db :> Ls(<<Item("n", "p" :> Text("2") @@ "q" :> Text("a")),
                                                          Item("m", "p" :> Text("1"))>>)),
    Labelled(6, "zone" :> "", <<"host">> :> Text("to-url") @@ Db :> [kind |-> "quoted", text |-> "2"]),
    Azure(7, FALSE, Region("db") :> Mp("y" :> Text("1")) @@ Db :> Mp("y" :> Text("2") @@ "x" :> Text("a"))),
    Azure(8, TRUE, Typed("db") :> Mp("z" :> Ls(<<Item("n", "p" :> Text("2"))>>)) @@ East("db") :> Text("a")
                   @@ Typed("host") :> Text("a")),
    Azure(9, FALSE, Region("host") :> Text("to-url") @@ <<"k", "db">> :> Text("1")
                    @@ <<"workload", "app", "db">> :> Text("a")) }

MCSources == UNION {kSubset(k, Pool) : k \in 0..3}

\* The values of the pool and what they merge to, two by two and again.
PoolValues == UNION {{ObjectFromConfigValue(m.data[key]) : key \in DOMAIN m.data} : m \in Pool}
MergedValues == {MergeObjects(e[1], e[2]) : e \in PoolValues \X PoolValues}

\* They are values such as AreValues of RenderingProofs describes.
RECURSIVE IsValue(_)
IsValue(v) ==
    CASE v.kind = "text" -> v.text \in STRING
      [] v.kind = "map"  -> /\ DOMAIN v.map # {} /\ \A k \in DOMAIN v.map : k \in STRING /\ IsValue(v.map[k])
                            /\ "name" \in DOMAIN v.map => v.map["name"].kind = "text"
      [] v.kind = "list" -> /\ v.items # << >> /\ \A i \in DOMAIN v.items : IsValue(v.items[i])
                            /\ \A i, j \in DOMAIN v.items : SameItem(v.items[i], v.items[j]) => i = j

ASSUME MergeAssumption ==
    LET values == PoolValues \cup MergedValues
    IN  MergeKeepsTexts(values) /\ \A v \in values : IsValue(v)

Schema(labels, required) == [labels |-> labels, required |-> required]
MCSchemas == {{}, {Schema(None, Db :> "map"), Schema("region" :> "east", Url :> "number")},
                  {Schema("region" :> "west", Db :> "number")}}

MCClusterType == [name |-> "large", labels |-> "region" :> "west"]
MCTarget == [name |-> "func", workload |-> "app", labels |-> "edge" :> "true"]
MCWidth == [p \in {"k", "db"} |-> 2] @@ [p \in {"url", "app"} |-> 3] @@ [p \in {"host", "west", "east"} |-> 4]
           @@ ("large" :> 5) @@ ("region" :> 6) @@ ("workload" :> 8) @@ ("cluster-type" :> 12)
MCNumerals == {"1", "2"}
MCRefs(t) == CASE t = "to-host" -> {<<"host">>} [] t = "to-url" -> {<<"url">>} [] OTHER -> {}
MCTemplate == {Db, Url}
=============================================================================

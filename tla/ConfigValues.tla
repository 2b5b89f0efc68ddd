----------------------------- MODULE ConfigValues -----------------------------
(***************************************************************************)
(* Values of config data and how two of them are merged (mergeObjects of   *)
(* controllers/assignment_controller.go).  A value is a text, a map or a   *)
(* list of values; a text may be quoted.  The recursive calls are          *)
(* parameters here, so that the definitions can be reasoned about;         *)
(* ConfigMerge ties the knot.                                              *)
(***************************************************************************)
EXTENDS Naturals, Sequences, Functions

Text(t) == [kind |-> "text", text |-> t]

\* getObjectFromConfigValue: quotes are dropped.
ObjectFromConfigValue(v) == IF v.kind = "quoted" THEN Text(v.text) ELSE v

\* The name of an item of a list; Go finds none in two maps without a name equal.
NameOf(item) == IF "name" \in DOMAIN item.map THEN item.map["name"] ELSE [kind |-> "nil"]

SameItem(e, item) == e.kind = "map" /\ item.kind = "map" /\ NameOf(e) = NameOf(item)

\* An item is merged with the items of its name, or appended.
AddItem(Merge(_, _), items, item) ==
    IF \E j \in DOMAIN items : SameItem(items[j], item)
    THEN [j \in DOMAIN items |-> IF SameItem(items[j], item) THEN Merge(items[j], item) ELSE items[j]]
    ELSE Append(items, item)

MergeLists(Merge(_, _), old, new) ==
    LET after[i \in 0..Len(new)] == IF i = 0 THEN old ELSE AddItem(Merge, after[i - 1], new[i])
    IN  after[Len(new)]

MergeMaps(Merge(_, _), old, new) ==
    [k \in DOMAIN old \cup DOMAIN new |->
        IF k \in DOMAIN old \cap DOMAIN new THEN Merge(old[k], new[k])
        ELSE IF k \in DOMAIN new THEN new[k] ELSE old[k]]

\* mergeObjects; Merge is mergeObjects again.
MergeObjectsBy(Merge(_, _), old, new) ==
    CASE old.kind = "list" /\ new.kind = "list" ->
             [kind |-> "list", items |-> MergeLists(Merge, old.items, new.items)]
      [] old.kind = "map" /\ new.kind = "map" ->
             [kind |-> "map", map |-> MergeMaps(Merge, old.map, new.map)]
      [] OTHER -> new

(***************************************************************************)
(* The texts of a value, each with its path; a step is a key of a map, or  *)
(* an item of a list by its name (or by itself when it is not a map).      *)
(***************************************************************************)
StepTo(item) == IF item.kind = "map" THEN <<"named", NameOf(item)>> ELSE <<"item", item>>

Under(step, leaves) == {[path |-> <<step>> \o f.path, text |-> f.text] : f \in leaves}

LeavesBy(Leaves(_), v) ==
    CASE v.kind = "text" -> {[path |-> << >>, text |-> v.text]}
      [] v.kind = "map"  -> UNION {Under(<<"key", k>>, Leaves(v.map[k])) : k \in DOMAIN v.map}
      [] v.kind = "list" -> UNION {Under(StepTo(item), Leaves(item)) : item \in Range(v.items)}

\* Texts at two paths cannot both be in a value: one path goes on where the other ends,
\* or one finds a map where the other finds a list.
Clash(p, q) ==
    \A i \in DOMAIN p \cap DOMAIN q :
        (\A j \in 1..(i - 1) : p[j] = q[j]) /\ p[i] # q[i] => (p[i][1] = "key") # (q[i][1] = "key")
=============================================================================

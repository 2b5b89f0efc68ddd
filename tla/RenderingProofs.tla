---------------------------- MODULE RenderingProofs ----------------------------
(***************************************************************************)
(* Proofs about Rendering: its types; that mergeObjects loses no text it   *)
(* has room for, at any depth; and that collecting config data one key at  *)
(* a time gives what the precedence of the config maps says, for any       *)
(* config maps, labels and keys.                                           *)
(***************************************************************************)
EXTENDS Rendering, SequenceTheorems, WellFoundedInduction, FiniteSetTheorems, TLAPS

Labelled == EntriesOf({m \in sources : m.platform})
OfAzure  == EntriesOf({m \in sources : m.azure})

LEMMA Entries ==
    ASSUME NEW maps, NEW e \in EntriesOf(maps)
    PROVE  e[1] \in maps /\ e[2] \in DOMAIN e[1].data /\ e = <<e[1], e[2]>>
  BY DEF EntriesOf

LEMMA EntryOf ==
    ASSUME NEW maps, NEW m \in maps, NEW key \in DOMAIN m.data
    PROVE  <<m, key>> \in EntriesOf(maps)
  BY DEF EntriesOf

LEMMA EntriesOfSubset ==
    ASSUME NEW maps, NEW more, maps \subseteq more
    PROVE  EntriesOf(maps) \subseteq EntriesOf(more)
  BY DEF EntriesOf

(***************************************************************************)
(* Types.                                                                  *)
(***************************************************************************)

\* What is to be read is of the list in hand; nothing is expanded before all is read.
TypeInv ==
    /\ TypeOK
    /\ stage = "labelled" => todo \subseteq Labelled
    /\ stage = "azure" => todo \subseteq OfAzure
    /\ stage \in {"labelled", "azure", "collected"} => refs = {}

KeyKnown(k) == \E m \in sources : \E key \in DOMAIN m.data :
                  (m.platform /\ k = key) \/ (m.azure /\ k = <<Last(key)>>)

LEMMA TypeInit == Init => TypeInv
<1> SUFFICES ASSUME Init PROVE TypeInv
  OBVIOUS
<1> USE DEF Init
<1>1. Labelled \subseteq EntriesOf(sources) /\ todo = Labelled
  BY EntriesOfSubset DEF Labelled
<1>2. DOMAIN data = {}
  BY DEF NoData
<1> QED
  BY <1>1, <1>2 DEF TypeInv, TypeOK

LEMMA TypeStep == TypeInv /\ [Next]_vars => TypeInv'
<1> SUFFICES ASSUME TypeInv, [Next]_vars PROVE TypeInv'
  OBVIOUS
<1> USE DEF TypeInv
<1>0. TypeOK
  OBVIOUS
<1>1. ASSUME NEW m \in sources, NEW key \in DOMAIN m.data, ReadLabelled(m, key) PROVE TypeInv'
  <2>0. UNCHANGED <<sources, schemas, lost, stage, refs>> /\ stage = "labelled" /\ refs = {} /\ todo' \subseteq todo
    BY <1>1 DEF ReadLabelled
  <2>1. m.platform
    <3>1. <<m, key>> \in Labelled
      BY <1>1, <2>0 DEF ReadLabelled
    <3> QED
      BY <3>1, Entries DEF Labelled
  <2>2. \A k \in DOMAIN data' : k \in DOMAIN data \/ k = key
    BY <1>1 DEF ReadLabelled, Merge
  <2>3. (\A k \in DOMAIN data : KeyKnown(k))'
    BY <1>0, <2>0, <2>1, <2>2 DEF TypeOK, KeyKnown
  <2>4. TypeOK'
    BY <1>0, <2>0, <2>3 DEF TypeOK, KeyKnown
  <2> QED
    BY <2>0, <2>4 DEF Labelled, OfAzure
<1>2. ASSUME NEW m \in sources, NEW key \in DOMAIN m.data, ReadAzure(m, key) PROVE TypeInv'
  <2>0. UNCHANGED <<sources, schemas, lost, stage, refs>> /\ stage = "azure" /\ refs = {} /\ todo' \subseteq todo
    BY <1>2 DEF ReadAzure
  <2>1. m.azure
    <3>1. <<m, key>> \in OfAzure
      BY <1>2, <2>0 DEF ReadAzure
    <3> QED
      BY <3>1, Entries DEF OfAzure
  <2>2. \A k \in DOMAIN data' : k \in DOMAIN data \/ k = <<Last(key)>>
    BY <1>2 DEF ReadAzure, TrimmedKey, Merge
  <2>3. (\A k \in DOMAIN data : KeyKnown(k))'
    BY <1>0, <2>0, <2>1, <2>2 DEF TypeOK, KeyKnown
  <2>4. TypeOK'
    BY <1>0, <2>0, <2>3 DEF TypeOK, KeyKnown
  <2> QED
    BY <2>0, <2>4 DEF Labelled, OfAzure
<1>3. ASSUME ListAzure PROVE TypeInv'
  <2>1. OfAzure \subseteq EntriesOf(sources)
    BY EntriesOfSubset DEF OfAzure
  <2>2. TypeOK'
    BY <1>0, <1>3, <2>1 DEF ListAzure, TypeOK, OfAzure, TextsOf
  <2> QED
    BY <1>3, <2>2 DEF ListAzure, OfAzure
<1>4. ASSUME Collected PROVE TypeInv'
  <2>1. TypeOK'
    BY <1>0, <1>4 DEF Collected, TypeOK, TextsOf
  <2> QED
    BY <1>4, <2>1 DEF Collected
<1>5. ASSUME NEW ok \in BOOLEAN, ValidateConfigData(ok) PROVE TypeInv'
  <2>1. TypeOK'
    BY <1>0, <1>5 DEF ValidateConfigData, TypeOK, TextsOf
  <2> QED
    BY <1>5, <2>1 DEF ValidateConfigData
<1>6. ASSUME ReplaceTemplateVariables PROVE TypeInv'
  <2>1. UNCHANGED <<sources, schemas, data, lost, todo>> /\ stage = "expand" /\ stage' \in {"expand", "rendered"}
    BY <1>6 DEF ReplaceTemplateVariables
  <2>2. TextsOf(refs) \subseteq TextsOf(DOMAIN data)
    BY DEF TextsOf
  <2>3. TextsOf(DOMAIN data)' = TextsOf(DOMAIN data)
    BY <2>1 DEF TextsOf
  <2>4. refs' \subseteq UNION ({Template} \cup {Refs(t) : t \in TextsOf(DOMAIN data)'})
    BY <1>6, <2>2, <2>3 DEF ReplaceTemplateVariables
  <2>5. TypeOK'
    BY <1>0, <2>1, <2>4 DEF TypeOK
  <2> QED
    BY <2>1, <2>5
<1>7. ASSUME ListFails PROVE TypeInv'
  <2>1. TypeOK'
    BY <1>0, <1>7 DEF ListFails, TypeOK, NoData
  <2> QED
    BY <1>7, <2>1 DEF ListFails
<1>8. ASSUME TemplateFails PROVE TypeInv'
  <2>1. TypeOK'
    BY <1>0, <1>8 DEF TemplateFails, TypeOK, TextsOf
  <2> QED
    BY <1>8, <2>1 DEF TemplateFails
<1>9. ASSUME UNCHANGED vars PROVE TypeInv'
  BY <1>0, <1>9 DEF vars, TypeOK, Labelled, OfAzure, TextsOf
<1> QED
  BY <1>1, <1>2, <1>3, <1>4, <1>5, <1>6, <1>7, <1>8, <1>9 DEF Next, Step, Finished

\* Every variable keeps its type, and only texts of the data are expanded.
THEOREM TypeCorrect == Spec => []TypeOK
<1>1. TypeInv => TypeOK
  BY DEF TypeInv
<1> QED
  BY <1>1, TypeInit, TypeStep, PTL DEF Spec

(***************************************************************************)
(* Induction.                                                              *)
(***************************************************************************)
LEMMA LeastNatural ==
    ASSUME NEW T, T \subseteq Nat, T # {}
    PROVE  \E n \in T : \A m \in T : n <= m
<1>1. IsWellFoundedOn(OpToRel(<, Nat), Nat)
  BY NatLessThanWellFounded, Zenon
<1>2. PICK n \in T : \A m \in T : ~(<<m, n>> \in OpToRel(<, Nat))
  BY <1>1, WFMin, Zenon
<1>3. ASSUME NEW m \in T PROVE n <= m
  <2>1. ~(<<m, n>> \in OpToRel(<, Nat))
    BY <1>2, Zenon
  <2>2. ~(m < n)
    BY <2>1 DEF OpToRel
  <2> QED
    BY <2>2
<1> QED
  BY <1>3

LEMMA CountingUp ==
    ASSUME NEW n \in Nat, NEW T, 0 \in T, \A i \in 0..(n - 1) : i \in T => i + 1 \in T
    PROVE  0..n \subseteq T
<1>1. SUFFICES ASSUME 0..n \ T # {} PROVE FALSE
  OBVIOUS
<1>0. 0..n \ T \subseteq Nat
  OBVIOUS
<1>2. PICK i \in 0..n \ T : \A j \in 0..n \ T : i <= j
  BY <1>0, <1>1, LeastNatural, Zenon
<1>3. i # 0 /\ i - 1 \in 0..(n - 1) /\ (i - 1) + 1 = i
  BY <1>2
<1>4. i - 1 \in T
  BY <1>2, <1>3
<1> QED
  BY <1>2, <1>3, <1>4

LEMMA DepthInduction ==
    ASSUME NEW V, NEW depth \in [V -> Nat], NEW T,
           \A v \in V : (\A w \in V : depth[w] < depth[v] => w \in T) => v \in T
    PROVE  V \subseteq T
<1>1. SUFFICES ASSUME V \ T # {} PROVE FALSE
  OBVIOUS
<1> DEFINE D == {depth[v] : v \in V \ T}
<1>2. D \subseteq Nat /\ D # {}
  BY <1>1
<1>3. PICK n \in D : \A m \in D : n <= m
  BY <1>2, LeastNatural
<1>4. PICK v \in V \ T : n = depth[v]
  BY <1>3
<1>5. ASSUME NEW w \in V, depth[w] < depth[v] PROVE w \in T
  BY <1>3, <1>4, <1>5
<1> QED
  BY <1>4, <1>5

(***************************************************************************)
(* Paths.                                                                  *)
(***************************************************************************)
LEMMA PathCons ==
    ASSUME NEW S, NEW s \in S, NEW p \in Seq(S)
    PROVE  /\ <<s>> \o p \in Seq(S) /\ DOMAIN (<<s>> \o p) = 1..(Len(p) + 1) /\ DOMAIN p = 1..Len(p) /\ Len(p) \in Nat
           /\ (<<s>> \o p)[1] = s /\ \A i \in 1..Len(p) : (<<s>> \o p)[i + 1] = p[i]
<1>1. Len(p) \in Nat /\ DOMAIN p = 1..Len(p) /\ <<s>> \in Seq(S) /\ Len(<<s>>) = 1 /\ <<s>>[1] = s
  BY LenProperties
<1>2. <<s>> \o p \in Seq(S) /\ Len(<<s>> \o p) = Len(p) + 1
  BY <1>1, ConcatProperties
<1>3. DOMAIN (<<s>> \o p) = 1..(Len(p) + 1)
  BY <1>2, LenProperties
<1>4. \A i \in 1..(1 + Len(p)) : (<<s>> \o p)[i] = IF i <= 1 THEN <<s>>[i] ELSE p[i - 1]
  BY <1>1, ConcatProperties
<1>5. (<<s>> \o p)[1] = s
  BY <1>1, <1>4
<1>6. ASSUME NEW i \in 1..Len(p) PROVE (<<s>> \o p)[i + 1] = p[i]
  <2>1. i + 1 \in 1..(1 + Len(p)) /\ ~(i + 1 <= 1) /\ (i + 1) - 1 = i
    BY <1>1
  <2> QED
    BY <1>4, <2>1
<1> QED
  BY <1>1, <1>2, <1>3, <1>5, <1>6

\* Behind different steps two paths clash only where a map meets a list.
LEMMA ClashApart ==
    ASSUME NEW S, NEW s \in S, NEW t \in S, NEW p \in Seq(S), NEW q \in Seq(S), s # t
    PROVE  Clash(<<s>> \o p, <<t>> \o q) <=> ((s[1] = "key") # (t[1] = "key"))
<1> DEFINE sp == <<s>> \o p
           tq == <<t>> \o q
<1>1. sp[1] = s /\ tq[1] = t /\ DOMAIN sp = 1..(Len(p) + 1) /\ DOMAIN tq = 1..(Len(q) + 1) /\ Len(p) \in Nat /\ Len(q) \in Nat
  BY PathCons
<1> HIDE DEF sp, tq
<1>2. 1 \in DOMAIN sp \cap DOMAIN tq /\ \A i \in DOMAIN sp \cap DOMAIN tq : i = 1 \/ 1 \in 1..(i - 1)
  BY <1>1
<1>3. ASSUME NEW i \in DOMAIN sp \cap DOMAIN tq, \A j \in 1..(i - 1) : sp[j] = tq[j] PROVE i = 1
  BY <1>1, <1>2, <1>3
<1>4. \A j \in 1..(1 - 1) : sp[j] = tq[j]
  OBVIOUS
<1>5. Clash(sp, tq) <=> ((s[1] = "key") # (t[1] = "key"))
  <2>1. ASSUME Clash(sp, tq) PROVE (s[1] = "key") # (t[1] = "key")
    BY <1>1, <1>2, <1>4, <2>1 DEF Clash
  <2>2. ASSUME (s[1] = "key") # (t[1] = "key") PROVE Clash(sp, tq)
    BY <1>1, <1>3, <2>2 DEF Clash
  <2> QED
    BY <2>1, <2>2
<1> QED
  BY <1>5 DEF sp, tq

\* Behind one step they clash as they do without it.
LEMMA ClashBehind ==
    ASSUME NEW S, NEW s \in S, NEW p \in Seq(S), NEW q \in Seq(S)
    PROVE  Clash(<<s>> \o p, <<s>> \o q) <=> Clash(p, q)
<1> DEFINE sp == <<s>> \o p
           sq == <<s>> \o q
<1>1. /\ sp[1] = s /\ DOMAIN sp = 1..(Len(p) + 1) /\ DOMAIN p = 1..Len(p) /\ Len(p) \in Nat
      /\ \A i \in 1..Len(p) : sp[i + 1] = p[i]
  BY PathCons
<1>2. /\ sq[1] = s /\ DOMAIN sq = 1..(Len(q) + 1) /\ DOMAIN q = 1..Len(q) /\ Len(q) \in Nat
      /\ \A i \in 1..Len(q) : sq[i + 1] = q[i]
  BY PathCons
<1> HIDE DEF sp, sq
<1>3. ASSUME Clash(p, q) PROVE Clash(sp, sq)
  <2>1. ASSUME NEW i \in DOMAIN sp \cap DOMAIN sq, \A j \in 1..(i - 1) : sp[j] = sq[j], sp[i] # sq[i]
        PROVE  (sp[i][1] = "key") # (sq[i][1] = "key")
    <3>1. i # 1 /\ i - 1 \in DOMAIN p \cap DOMAIN q /\ (i - 1) + 1 = i
      BY <1>1, <1>2, <2>1
    <3>2. sp[i] = p[i - 1] /\ sq[i] = q[i - 1]
      BY <1>1, <1>2, <3>1
    <3>3. ASSUME NEW j \in 1..((i - 1) - 1) PROVE p[j] = q[j]
      <4>1. j + 1 \in 1..(i - 1) /\ j \in 1..Len(p) /\ j \in 1..Len(q)
        BY <1>1, <1>2, <3>1
      <4> QED
        BY <1>1, <1>2, <2>1, <4>1
    <3> QED
      BY <1>3, <2>1, <3>1, <3>2, <3>3 DEF Clash
  <2> QED
    BY <2>1 DEF Clash
<1>4. ASSUME Clash(sp, sq) PROVE Clash(p, q)
  <2>1. ASSUME NEW i \in DOMAIN p \cap DOMAIN q, \A j \in 1..(i - 1) : p[j] = q[j], p[i] # q[i]
        PROVE  (p[i][1] = "key") # (q[i][1] = "key")
    <3>1. i + 1 \in DOMAIN sp \cap DOMAIN sq /\ i \in 1..Len(p) /\ i \in 1..Len(q)
      BY <1>1, <1>2, <2>1
    <3>2. sp[i + 1] = p[i] /\ sq[i + 1] = q[i]
      BY <1>1, <1>2, <3>1
    <3>3. ASSUME NEW j \in 1..((i + 1) - 1) PROVE sp[j] = sq[j]
      <4>1. CASE j = 1
        BY <1>1, <1>2, <4>1
      <4>2. CASE j # 1
        <5>1. j - 1 \in 1..(i - 1) /\ j - 1 \in 1..Len(p) /\ j - 1 \in 1..Len(q) /\ (j - 1) + 1 = j
          BY <3>1, <4>2
        <5> QED
          BY <1>1, <1>2, <2>1, <5>1
      <4> QED
        BY <4>1, <4>2
    <3> QED
      BY <1>4, <2>1, <3>1, <3>2, <3>3 DEF Clash
  <2> QED
    BY <2>1 DEF Clash
<1> QED
  BY <1>3, <1>4 DEF sp, sq

\* The texts of a value laid over those of another.
Over(new, old) == new \cup {f \in old : \A g \in new : ~Clash(f.path, g.path)}

\* Texts behind a step.
LEMMA UnderKeeps ==
    ASSUME NEW S, NEW s \in S, NEW A, NEW B, \A f \in A \cup B : f.path \in Seq(S)
    PROVE  Under(s, Over(B, A)) = Over(Under(s, B), Under(s, A))
<1> DEFINE Put(f) == [path |-> <<s>> \o f.path, text |-> f.text]
<1>1. ASSUME NEW f \in A, NEW g \in B PROVE Clash(Put(f).path, Put(g).path) <=> Clash(f.path, g.path)
  BY ClashBehind
<1> HIDE DEF Put
<1>2. \A X : Under(s, X) = {Put(f) : f \in X}
  BY DEF Under, Put
<1> QED
  BY <1>1, <1>2 DEF Over

LEMMA UnderApart ==
    ASSUME NEW S, NEW s \in S, NEW t \in S, s # t, (s[1] = "key") = (t[1] = "key"),
           NEW A, NEW B, \A f \in A \cup B : f.path \in Seq(S),
           NEW f \in Under(s, A), NEW g \in Under(t, B)
    PROVE  ~Clash(f.path, g.path)
<1>1. PICK x \in A : f = [path |-> <<s>> \o x.path, text |-> x.text]
  BY DEF Under
<1>2. PICK y \in B : g = [path |-> <<t>> \o y.path, text |-> y.text]
  BY DEF Under
<1>3. f.path = <<s>> \o x.path /\ g.path = <<t>> \o y.path
  BY <1>1, <1>2
<1>4. ~Clash(<<s>> \o x.path, <<t>> \o y.path)
  BY ClashApart
<1> QED
  BY <1>3, <1>4

(***************************************************************************)
(* Values: texts, maps and lists of values, as deep as one likes.          *)
(***************************************************************************)
IsText(v) == \E t \in STRING : v = Text(t)

IsMap(v, V) ==
    \E keys \in SUBSET STRING : \E f \in [keys -> V] :
        /\ v = [kind |-> "map", map |-> f] /\ keys # {} /\ IsFiniteSet(keys)
        /\ "name" \in keys => IsText(f["name"])

Distinct(items) == \A i, j \in DOMAIN items : SameItem(items[i], items[j]) => i = j

IsList(v, V) ==
    \E s \in Seq(V) : v = [kind |-> "list", items |-> s] /\ s # << >> /\ Distinct(s)

AreValues(V, depth) ==
    /\ \A v : v \in V <=> IsText(v) \/ IsMap(v, V) \/ IsList(v, V)
    /\ depth \in [V -> Nat]
    /\ \A v \in V : v.kind = "map" => \A k \in DOMAIN v.map : depth[v.map[k]] < depth[v]
    /\ \A v \in V : v.kind = "list" => \A i \in DOMAIN v.items : depth[v.items[i]] < depth[v]

Unfold(V) ==
    /\ \A old, new \in V : Merged(old, new) = MergeObjectsBy(Merged, old, new)
    /\ \A v \in V : TextsIn(v) = LeavesBy(TextsIn, v)

LEMMA KindOf ==
    ASSUME NEW V, NEW depth, AreValues(V, depth), NEW v \in V
    PROVE  /\ v.kind \in {"text", "map", "list"}
           /\ v.kind = "text" => IsText(v)
           /\ v.kind = "map" => IsMap(v, V)
           /\ v.kind = "list" => IsList(v, V)
<1>1. IsText(v) => v.kind = "text"
  BY DEF IsText, Text
<1>2. IsMap(v, V) => v.kind = "map"
  BY DEF IsMap
<1>3. IsList(v, V) => v.kind = "list"
  BY DEF IsList
<1>4. IsText(v) \/ IsMap(v, V) \/ IsList(v, V)
  BY DEF AreValues
<1> QED
  BY <1>1, <1>2, <1>3, <1>4

LEMMA MapIs ==
    ASSUME NEW V, NEW depth, AreValues(V, depth), NEW v \in V, v.kind = "map"
    PROVE  /\ v = [kind |-> "map", map |-> v.map]
           /\ DOMAIN v.map \subseteq STRING /\ DOMAIN v.map # {} /\ IsFiniteSet(DOMAIN v.map)
           /\ \A k \in DOMAIN v.map : v.map[k] \in V /\ depth[v.map[k]] < depth[v]
           /\ "name" \in DOMAIN v.map => IsText(v.map["name"])
<1>0. PICK keys \in SUBSET STRING : \E f \in [keys -> V] :
        /\ v = [kind |-> "map", map |-> f] /\ keys # {} /\ IsFiniteSet(keys)
        /\ "name" \in keys => IsText(f["name"])
  BY KindOf DEF IsMap
<1>1. PICK f \in [keys -> V] :
        /\ v = [kind |-> "map", map |-> f] /\ keys # {} /\ IsFiniteSet(keys)
        /\ "name" \in keys => IsText(f["name"])
  BY <1>0
<1>2. v.map = f /\ DOMAIN f = keys
  BY <1>1
<1>3. \A k \in DOMAIN v.map : depth[v.map[k]] < depth[v]
  BY DEF AreValues
<1> QED
  BY <1>1, <1>2, <1>3

LEMMA ListIs ==
    ASSUME NEW V, NEW depth, AreValues(V, depth), NEW v \in V, v.kind = "list"
    PROVE  /\ v = [kind |-> "list", items |-> v.items]
           /\ v.items \in Seq(V) /\ v.items # << >> /\ Distinct(v.items)
           /\ DOMAIN v.items = 1..Len(v.items) /\ Len(v.items) \in Nat /\ 1 \in DOMAIN v.items
           /\ \A i \in DOMAIN v.items : v.items[i] \in V /\ depth[v.items[i]] < depth[v]
<1>1. PICK s \in Seq(V) : v = [kind |-> "list", items |-> s] /\ s # << >> /\ Distinct(s)
  BY KindOf DEF IsList
<1>2. v.items = s
  BY <1>1
<1>3. Len(s) \in Nat /\ DOMAIN s = 1..Len(s) /\ \A i \in 1..Len(s) : s[i] \in V
  BY LenProperties, ElementOfSeq
<1>4. 1 \in DOMAIN s
  BY <1>1, <1>3, EmptySeq
<1>5. \A i \in DOMAIN v.items : depth[v.items[i]] < depth[v]
  BY DEF AreValues
<1> QED
  BY <1>1, <1>2, <1>3, <1>4, <1>5

\* The steps of paths.
Steps(V) == {<<"key", k>> : k \in STRING} \cup {StepTo(v) : v \in V}

LEMMA StepsOf ==
    ASSUME NEW v
    PROVE  StepTo(v)[1] # "key"
  BY DEF StepTo

UnderItem(v) == Under(StepTo(v), TextsIn(v))

LEMMA TextsOfText ==
    ASSUME NEW V, Unfold(V), NEW v \in V, v.kind = "text"
    PROVE  TextsIn(v) = {[path |-> << >>, text |-> v.text]}
  BY DEF Unfold, LeavesBy

LEMMA TextsOfMap ==
    ASSUME NEW V, Unfold(V), NEW v \in V, v.kind = "map"
    PROVE  TextsIn(v) = UNION {Under(<<"key", k>>, TextsIn(v.map[k])) : k \in DOMAIN v.map}
<1>1. v.kind # "text"
  OBVIOUS
<1> QED
  BY <1>1 DEF Unfold, LeavesBy

LEMMA TextsOfList ==
    ASSUME NEW V, Unfold(V), NEW v \in V, v.kind = "list"
    PROVE  TextsIn(v) = UNION {UnderItem(item) : item \in Range(v.items)}
<1>1. v.kind # "text" /\ v.kind # "map"
  OBVIOUS
<1> QED
  BY <1>1 DEF Unfold, LeavesBy, UnderItem

LEMMA TextsShape ==
    ASSUME NEW V, NEW depth, AreValues(V, depth), Unfold(V)
    PROVE  \A v \in V : TextsIn(v) # {} /\ \A f \in TextsIn(v) : f.path \in Seq(Steps(V))
<1> DEFINE Shaped(v) == TextsIn(v) # {} /\ \A f \in TextsIn(v) : f.path \in Seq(Steps(V))
           T == {v \in V : Shaped(v)}
<1>1. ASSUME NEW s \in Steps(V), NEW w, Shaped(w)
      PROVE  Under(s, TextsIn(w)) # {} /\ \A f \in Under(s, TextsIn(w)) : f.path \in Seq(Steps(V))
  <2>1. \A p \in Seq(Steps(V)) : <<s>> \o p \in Seq(Steps(V))
    BY PathCons
  <2>2. PICK leaf \in TextsIn(w) : TRUE
    BY <1>1
  <2>3. [path |-> <<s>> \o leaf.path, text |-> leaf.text] \in Under(s, TextsIn(w))
    BY DEF Under
  <2>4. ASSUME NEW f \in Under(s, TextsIn(w)) PROVE f.path \in Seq(Steps(V))
    <3>1. PICK g \in TextsIn(w) : f = [path |-> <<s>> \o g.path, text |-> g.text]
      BY DEF Under
    <3>2. f.path = <<s>> \o g.path /\ g.path \in Seq(Steps(V))
      BY <1>1, <3>1
    <3> QED
      BY <2>1, <3>2
  <2> QED
    BY <2>3, <2>4
<1>2. ASSUME NEW v \in V, \A w \in V : depth[w] < depth[v] => w \in T PROVE Shaped(v)
  <2>1. CASE v.kind = "text"
    <3>1. << >> \in Seq(Steps(V))
      BY EmptySeq
    <3>2. TextsIn(v) = {[path |-> << >>, text |-> v.text]}
      BY <2>1, TextsOfText
    <3>3. \A f \in TextsIn(v) : f.path = << >>
      BY <3>2
    <3> QED
      BY <3>1, <3>2, <3>3
  <2>2. CASE v.kind = "map"
    <3>1. ASSUME NEW k \in DOMAIN v.map PROVE Shaped(v.map[k]) /\ <<"key", k>> \in Steps(V)
      BY <1>2, <2>2, MapIs DEF Steps
    <3>2. DOMAIN v.map # {}
      BY <2>2, MapIs
    <3>3. TextsIn(v) = UNION {Under(<<"key", k>>, TextsIn(v.map[k])) : k \in DOMAIN v.map}
      BY <2>2, TextsOfMap
    <3> HIDE DEF Shaped
    <3>4. \A k \in DOMAIN v.map : /\ Under(<<"key", k>>, TextsIn(v.map[k])) # {}
                                  /\ \A f \in Under(<<"key", k>>, TextsIn(v.map[k])) : f.path \in Seq(Steps(V))
      BY <1>1, <3>1
    <3> QED
      BY <3>2, <3>3, <3>4 DEF Shaped
  <2>3. CASE v.kind = "list"
    <3>1. ASSUME NEW i \in DOMAIN v.items PROVE Shaped(v.items[i]) /\ StepTo(v.items[i]) \in Steps(V)
      BY <1>2, <2>3, ListIs DEF Steps
    <3>2. 1 \in DOMAIN v.items
      BY <2>3, ListIs
    <3>3. TextsIn(v) = UNION {UnderItem(item) : item \in Range(v.items)}
      BY <2>3, TextsOfList
    <3> HIDE DEF Shaped
    <3>4. \A i \in DOMAIN v.items : UnderItem(v.items[i]) # {} /\ \A f \in UnderItem(v.items[i]) : f.path \in Seq(Steps(V))
      BY <1>1, <3>1 DEF UnderItem
    <3> QED
      BY <3>2, <3>3, <3>4 DEF Shaped, Range
  <2> QED
    BY <2>1, <2>2, <2>3, KindOf
<1> HIDE DEF Shaped
<1>3. \A v \in V : (\A w \in V : depth[w] < depth[v] => w \in T) => v \in T
  BY <1>2
<1>4. depth \in [V -> Nat]
  BY DEF AreValues
<1> HIDE DEF T
<1>5. V \subseteq T
  BY <1>3, <1>4, DepthInduction
<1> QED
  BY <1>5 DEF T, Shaped

MergesWith(V, old, new) ==
    Merged(old, new) \in V /\ TextsIn(Merged(old, new)) = Over(TextsIn(new), TextsIn(old))

\* Values of different kinds, and texts, replace each other.
LEMMA ReplacedValue ==
    ASSUME NEW V, NEW depth, AreValues(V, depth), Unfold(V), NEW old \in V, NEW new \in V,
           old.kind # new.kind \/ new.kind = "text"
    PROVE  MergesWith(V, old, new)
<1>1. Merged(old, new) = new
  <2>1. ~(old.kind = "list" /\ new.kind = "list") /\ ~(old.kind = "map" /\ new.kind = "map")
    OBVIOUS
  <2> QED
    BY <2>1 DEF Unfold, MergeObjectsBy
<1>2. ASSUME NEW f \in TextsIn(old), NEW g \in TextsIn(new) PROVE Clash(f.path, g.path)
  <2>1. \A p : Clash(<< >>, p) /\ Clash(p, << >>)
    BY DEF Clash
  <2>2. CASE old.kind = "text"
    <3>1. f.path = << >>
      BY <2>2, TextsOfText
    <3> QED
      BY <2>1, <3>1
  <2>3. CASE new.kind = "text"
    <3>1. g.path = << >>
      BY <2>3, TextsOfText
    <3> QED
      BY <2>1, <3>1
  <2>4. CASE old.kind = "map" /\ new.kind = "list"
    <3>1. PICK k \in DOMAIN old.map : f \in Under(<<"key", k>>, TextsIn(old.map[k]))
      BY <2>4, TextsOfMap
    <3>2. PICK i \in DOMAIN new.items : g \in UnderItem(new.items[i])
      BY <2>4, TextsOfList DEF Range
    <3>3. PICK x \in TextsIn(old.map[k]) : f = [path |-> <<<<"key", k>>>> \o x.path, text |-> x.text]
      BY <3>1 DEF Under
    <3>4. PICK y \in TextsIn(new.items[i]) : g = [path |-> <<StepTo(new.items[i])>> \o y.path, text |-> y.text]
      BY <3>2 DEF Under, UnderItem
    <3>5. /\ <<"key", k>> \in Steps(V) /\ old.map[k] \in V /\ x.path \in Seq(Steps(V))
          /\ StepTo(new.items[i]) \in Steps(V) /\ new.items[i] \in V /\ y.path \in Seq(Steps(V))
      BY <2>4, MapIs, ListIs, TextsShape DEF Steps
    <3>6. <<"key", k>>[1] = "key" /\ StepTo(new.items[i])[1] # "key"
      BY StepsOf
    <3>7. Clash(<<<<"key", k>>>> \o x.path, <<StepTo(new.items[i])>> \o y.path)
      BY <3>5, <3>6, ClashApart
    <3> QED
      BY <3>3, <3>4, <3>7
  <2>5. CASE old.kind = "list" /\ new.kind = "map"
    <3>1. PICK k \in DOMAIN new.map : g \in Under(<<"key", k>>, TextsIn(new.map[k]))
      BY <2>5, TextsOfMap
    <3>2. PICK i \in DOMAIN old.items : f \in UnderItem(old.items[i])
      BY <2>5, TextsOfList DEF Range
    <3>3. PICK x \in TextsIn(new.map[k]) : g = [path |-> <<<<"key", k>>>> \o x.path, text |-> x.text]
      BY <3>1 DEF Under
    <3>4. PICK y \in TextsIn(old.items[i]) : f = [path |-> <<StepTo(old.items[i])>> \o y.path, text |-> y.text]
      BY <3>2 DEF Under, UnderItem
    <3>5. /\ <<"key", k>> \in Steps(V) /\ new.map[k] \in V /\ x.path \in Seq(Steps(V))
          /\ StepTo(old.items[i]) \in Steps(V) /\ old.items[i] \in V /\ y.path \in Seq(Steps(V))
      BY <2>5, MapIs, ListIs, TextsShape DEF Steps
    <3>6. <<"key", k>>[1] = "key" /\ StepTo(old.items[i])[1] # "key"
      BY StepsOf
    <3>7. Clash(<<StepTo(old.items[i])>> \o y.path, <<<<"key", k>>>> \o x.path)
      BY <3>5, <3>6, ClashApart
    <3> QED
      BY <3>3, <3>4, <3>7
  <2> QED
    BY <2>2, <2>3, <2>4, <2>5, KindOf
<1>3. TextsIn(new) # {}
  BY TextsShape
<1> QED
  BY <1>1, <1>2, <1>3 DEF MergesWith, Over

\* Two maps are merged key by key.
LEMMA MergedMaps ==
    ASSUME NEW V, NEW depth, AreValues(V, depth), Unfold(V), NEW old \in V, NEW new \in V,
           old.kind = "map", new.kind = "map",
           \A w \in V : depth[w] < depth[new] => \A v \in V : MergesWith(V, v, w)
    PROVE  MergesWith(V, old, new)
<1> DEFINE f == MergeMaps(Merged, old.map, new.map)
           keys == DOMAIN old.map \cup DOMAIN new.map
<1>1. Merged(old, new) = [kind |-> "map", map |-> f]
  <2>1. ~(old.kind = "list" /\ new.kind = "list")
    OBVIOUS
  <2> QED
    BY <2>1 DEF Unfold, MergeObjectsBy
<1>2. /\ DOMAIN f = keys
      /\ \A k \in keys : f[k] = IF k \in DOMAIN old.map \cap DOMAIN new.map THEN Merged(old.map[k], new.map[k])
                                ELSE IF k \in DOMAIN new.map THEN new.map[k] ELSE old.map[k]
      /\ f = [k \in keys |-> f[k]]
  BY DEF MergeMaps
<1> HIDE DEF f
<1>3. \A k \in DOMAIN old.map \cap DOMAIN new.map : MergesWith(V, old.map[k], new.map[k])
  BY MapIs
<1>4. ASSUME NEW k \in keys PROVE f[k] \in V
  <2>1. k \in DOMAIN old.map => old.map[k] \in V
    BY MapIs
  <2>2. k \in DOMAIN new.map => new.map[k] \in V
    BY MapIs
  <2> QED
    BY <1>2, <1>3, <2>1, <2>2 DEF MergesWith
<1>5. keys \in SUBSET STRING /\ keys # {} /\ IsFiniteSet(keys)
  <2>1. DOMAIN old.map \subseteq STRING /\ DOMAIN old.map # {} /\ IsFiniteSet(DOMAIN old.map)
    BY MapIs
  <2>2. DOMAIN new.map \subseteq STRING /\ IsFiniteSet(DOMAIN new.map)
    BY MapIs
  <2>3. IsFiniteSet(keys)
    BY <2>1, <2>2, FS_Union
  <2> QED
    BY <2>1, <2>2, <2>3
<1>6. ASSUME "name" \in keys PROVE IsText(f["name"])
  <2>1. CASE "name" \in DOMAIN old.map \cap DOMAIN new.map
    <3>1. IsText(new.map["name"]) /\ new.map["name"] \in V /\ old.map["name"] \in V
      BY <2>1, MapIs
    <3>2. new.map["name"].kind = "text"
      BY <3>1 DEF IsText, Text
    <3>3. Merged(old.map["name"], new.map["name"]) = new.map["name"]
      <4>1. ~(old.map["name"].kind = "list" /\ new.map["name"].kind = "list")
            /\ ~(old.map["name"].kind = "map" /\ new.map["name"].kind = "map")
        BY <3>2
      <4> QED
        BY <3>1, <4>1 DEF Unfold, MergeObjectsBy
    <3> QED
      BY <1>2, <2>1, <3>1, <3>3
  <2>2. CASE "name" \notin DOMAIN old.map \cap DOMAIN new.map
    <3>1. "name" \in DOMAIN old.map => IsText(old.map["name"])
      BY MapIs
    <3>2. "name" \in DOMAIN new.map => IsText(new.map["name"])
      BY MapIs
    <3> QED
      BY <1>2, <1>6, <2>2, <3>1, <3>2
  <2> QED
    BY <2>1, <2>2
<1>7. Merged(old, new) \in V /\ Merged(old, new).kind = "map" /\ Merged(old, new).map = f
  <2>1. f \in [keys -> V]
    BY <1>2, <1>4
  <2>2. IsMap(Merged(old, new), V)
    BY <1>1, <1>5, <1>6, <2>1 DEF IsMap
  <2> QED
    BY <1>1, <2>2 DEF AreValues
<1> DEFINE At(k, v) == Under(<<"key", k>>, TextsIn(v))
<1>8. /\ TextsIn(Merged(old, new)) = UNION {At(k, f[k]) : k \in keys}
      /\ TextsIn(old) = UNION {At(k, old.map[k]) : k \in DOMAIN old.map}
      /\ TextsIn(new) = UNION {At(k, new.map[k]) : k \in DOMAIN new.map}
  <2>1. \A v \in V : v.kind = "map" => TextsIn(v) = UNION {At(k, v.map[k]) : k \in DOMAIN v.map}
    BY TextsOfMap
  <2> HIDE DEF At
  <2>2. TextsIn(Merged(old, new)) = UNION {At(k, f[k]) : k \in keys}
    <3>1. TextsIn(Merged(old, new)) = UNION {At(k, Merged(old, new).map[k]) : k \in DOMAIN Merged(old, new).map}
      BY <1>7, <2>1
    <3> QED
      BY <1>2, <1>7, <3>1
  <2> QED
    BY <2>1, <2>2
<1>9. \A k \in DOMAIN old.map \cap DOMAIN new.map : At(k, f[k]) = Over(At(k, new.map[k]), At(k, old.map[k]))
  <2> SUFFICES ASSUME NEW k \in DOMAIN old.map \cap DOMAIN new.map
               PROVE  At(k, f[k]) = Over(At(k, new.map[k]), At(k, old.map[k]))
    OBVIOUS
  <2>1. f[k] = Merged(old.map[k], new.map[k])
    BY <1>2
  <2>2. TextsIn(f[k]) = Over(TextsIn(new.map[k]), TextsIn(old.map[k]))
    BY <1>3, <2>1 DEF MergesWith
  <2>3. old.map[k] \in V /\ new.map[k] \in V /\ <<"key", k>> \in Steps(V)
    BY MapIs DEF Steps
  <2>4. \A x \in TextsIn(old.map[k]) \cup TextsIn(new.map[k]) : x.path \in Seq(Steps(V))
    BY <2>3, TextsShape
  <2> DEFINE A == TextsIn(old.map[k])
             B == TextsIn(new.map[k])
  <2>5. Under(<<"key", k>>, Over(B, A)) = Over(Under(<<"key", k>>, B), Under(<<"key", k>>, A))
    <3> HIDE DEF A, B
    <3>1. \A x \in A \cup B : x.path \in Seq(Steps(V))
      BY <2>4 DEF A, B
    <3> QED
      BY <2>3, <3>1, UnderKeeps
  <2> QED
    BY <2>2, <2>5
<1>10. ASSUME NEW j \in DOMAIN old.map, NEW k \in DOMAIN new.map, j # k,
              NEW x \in At(j, old.map[j]), NEW y \in At(k, new.map[k])
       PROVE  ~Clash(x.path, y.path)
  <2>1. /\ old.map[j] \in V /\ new.map[k] \in V /\ <<"key", j>> \in Steps(V) /\ <<"key", k>> \in Steps(V)
        /\ <<"key", j>> # <<"key", k>> /\ <<"key", j>>[1] = "key" /\ <<"key", k>>[1] = "key"
    BY <1>10, MapIs DEF Steps
  <2>2. \A z \in TextsIn(old.map[j]) \cup TextsIn(new.map[k]) : z.path \in Seq(Steps(V))
    BY <2>1, TextsShape
  <2> QED
    BY <2>1, <2>2, UnderApart
<1> HIDE DEF At
<1>11. \A k \in keys : /\ k \notin DOMAIN new.map => f[k] = old.map[k] /\ k \in DOMAIN old.map
                       /\ k \notin DOMAIN old.map => f[k] = new.map[k] /\ k \in DOMAIN new.map
  BY <1>2
<1>12. ASSUME NEW x PROVE x \in TextsIn(Merged(old, new)) <=> x \in Over(TextsIn(new), TextsIn(old))
  <2>1. ASSUME NEW k \in keys, x \in At(k, f[k]) PROVE x \in Over(TextsIn(new), TextsIn(old))
    <3>1. CASE k \notin DOMAIN old.map
      BY <1>8, <1>11, <2>1, <3>1 DEF Over
    <3>2. CASE k \notin DOMAIN new.map
      <4>1. x \in At(k, old.map[k]) /\ k \in DOMAIN old.map
        BY <1>11, <2>1, <3>2
      <4>2. \A y \in TextsIn(new) : ~Clash(x.path, y.path)
        BY <1>8, <1>10, <3>2, <4>1
      <4> QED
        BY <1>8, <4>1, <4>2 DEF Over
    <3>3. CASE k \in DOMAIN old.map \cap DOMAIN new.map
      <4>1. x \in Over(At(k, new.map[k]), At(k, old.map[k]))
        BY <1>9, <2>1, <3>3
      <4>2. CASE x \in At(k, new.map[k])
        BY <1>8, <3>3, <4>2 DEF Over
      <4>3. CASE x \in At(k, old.map[k]) /\ \A y \in At(k, new.map[k]) : ~Clash(x.path, y.path)
        <5>1. \A y \in TextsIn(new) : ~Clash(x.path, y.path)
          BY <1>8, <1>10, <3>3, <4>3
        <5> QED
          BY <1>8, <3>3, <4>3, <5>1 DEF Over
      <4> QED
        BY <4>1, <4>2, <4>3 DEF Over
    <3> QED
      BY <2>1, <3>1, <3>2, <3>3
  <2>2. ASSUME x \in TextsIn(new) PROVE x \in TextsIn(Merged(old, new))
    <3>1. PICK k \in DOMAIN new.map : x \in At(k, new.map[k])
      BY <1>8, <2>2
    <3>2. x \in At(k, f[k])
      BY <1>9, <1>11, <3>1 DEF Over
    <3> QED
      BY <1>8, <3>2
  <2>3. ASSUME x \in TextsIn(old), \A y \in TextsIn(new) : ~Clash(x.path, y.path)
        PROVE  x \in TextsIn(Merged(old, new))
    <3>1. PICK k \in DOMAIN old.map : x \in At(k, old.map[k])
      BY <1>8, <2>3
    <3>2. k \in DOMAIN new.map => \A y \in At(k, new.map[k]) : ~Clash(x.path, y.path)
      BY <1>8, <2>3
    <3>3. x \in At(k, f[k])
      BY <1>9, <1>11, <3>1, <3>2 DEF Over
    <3> QED
      BY <1>8, <3>3
  <2> QED
    BY <1>8, <2>1, <2>2, <2>3 DEF Over
<1> QED
  BY <1>7, <1>12 DEF MergesWith

\* Texts of two items that are not merged have room for each other.
LEMMA ItemsApart ==
    ASSUME NEW V, NEW depth, AreValues(V, depth), Unfold(V), NEW x \in V, NEW y \in V, ~SameItem(x, y),
           NEW f \in UnderItem(x), NEW g \in UnderItem(y)
    PROVE  f \in UnderItem(y) \/ ~Clash(f.path, g.path)
<1>1. CASE StepTo(x) = StepTo(y)
  <2>1. ~(x.kind = "map" /\ y.kind = "map")
    BY <1>1 DEF SameItem, StepTo
  <2>2. x.kind # "map" /\ y.kind # "map"
    BY <1>1, <2>1 DEF StepTo
  <2>3. x = y
    BY <1>1, <2>2 DEF StepTo
  <2> QED
    BY <2>3
<1>2. CASE StepTo(x) # StepTo(y)
  <2>1. StepTo(x) \in Steps(V) /\ StepTo(y) \in Steps(V) /\ StepTo(x)[1] # "key" /\ StepTo(y)[1] # "key"
    BY StepsOf DEF Steps
  <2>2. \A z \in TextsIn(x) \cup TextsIn(y) : z.path \in Seq(Steps(V))
    BY TextsShape
  <2>3. f \in Under(StepTo(x), TextsIn(x)) /\ g \in Under(StepTo(y), TextsIn(y))
    BY DEF UnderItem
  <2>4. (StepTo(x)[1] = "key") = (StepTo(y)[1] = "key")
    BY <2>1
  <2> HIDE DEF UnderItem
  <2>5. ~Clash(f.path, g.path)
    BY <1>2, <2>1, <2>2, <2>3, <2>4, UnderApart
  <2> QED
    BY <2>5
<1> QED
  BY <1>1, <1>2

\* Items that are merged keep their name.
LEMMA MergedName ==
    ASSUME NEW V, NEW depth, AreValues(V, depth), Unfold(V), NEW old \in V, NEW new \in V, SameItem(old, new)
    PROVE  Merged(old, new).kind = "map" /\ NameOf(Merged(old, new)) = NameOf(new) /\ StepTo(Merged(old, new)) = StepTo(new)
<1>1. old.kind = "map" /\ new.kind = "map" /\ NameOf(old) = NameOf(new)
  BY DEF SameItem
<1>2. Merged(old, new) = [kind |-> "map", map |-> MergeMaps(Merged, old.map, new.map)]
  <2>1. ~(old.kind = "list" /\ new.kind = "list")
    BY <1>1
  <2> QED
    BY <1>1, <2>1 DEF Unfold, MergeObjectsBy
<1> DEFINE f == MergeMaps(Merged, old.map, new.map)
<1>3. /\ DOMAIN f = DOMAIN old.map \cup DOMAIN new.map
      /\ \A k \in DOMAIN old.map \cap DOMAIN new.map : f[k] = Merged(old.map[k], new.map[k])
  BY DEF MergeMaps
<1> HIDE DEF f
<1>4. Merged(old, new).kind = "map" /\ Merged(old, new).map = f
  BY <1>2 DEF f
<1>5. "name" \in DOMAIN old.map <=> "name" \in DOMAIN new.map
  <2>1. \A v \in V : v.kind = "map" /\ "name" \in DOMAIN v.map => NameOf(v).kind = "text"
    <3> SUFFICES ASSUME NEW v \in V, v.kind = "map", "name" \in DOMAIN v.map PROVE NameOf(v).kind = "text"
      OBVIOUS
    <3>1. IsText(v.map["name"]) /\ NameOf(v) = v.map["name"]
      BY MapIs DEF NameOf
    <3> QED
      BY <3>1 DEF IsText, Text
  <2>2. \A v \in V : v.kind = "map" /\ "name" \notin DOMAIN v.map => NameOf(v).kind = "nil"
    BY DEF NameOf
  <2> QED
    BY <1>1, <2>1, <2>2
<1>6. NameOf(Merged(old, new)) = NameOf(new)
  <2>1. CASE "name" \in DOMAIN new.map
    <3>1. new.map["name"] \in V /\ old.map["name"] \in V /\ IsText(new.map["name"])
      BY <1>1, <1>5, <2>1, MapIs
    <3>2. new.map["name"].kind = "text"
      BY <3>1 DEF IsText, Text
    <3>3. Merged(old.map["name"], new.map["name"]) = new.map["name"]
      <4>1. ~(old.map["name"].kind = "list" /\ new.map["name"].kind = "list")
            /\ ~(old.map["name"].kind = "map" /\ new.map["name"].kind = "map")
        BY <3>2
      <4> QED
        BY <3>1, <4>1 DEF Unfold, MergeObjectsBy
    <3> QED
      BY <1>3, <1>4, <1>5, <2>1, <3>3 DEF NameOf
  <2>2. CASE "name" \notin DOMAIN new.map
    BY <1>3, <1>4, <1>5, <2>2 DEF NameOf
  <2> QED
    BY <2>1, <2>2
<1>7. StepTo(Merged(old, new)) = StepTo(new)
  BY <1>1, <1>4, <1>6 DEF StepTo
<1> QED
  BY <1>4, <1>6, <1>7

ItemTexts(items) == UNION {UnderItem(item) : item \in Range(items)}

\* An item that is added is laid over the items there are.
LEMMA AddedItem ==
    ASSUME NEW V, NEW depth, AreValues(V, depth), Unfold(V), NEW items \in Seq(V), items # << >>, Distinct(items),
           NEW item \in V, \A v \in V : MergesWith(V, v, item)
    PROVE  LET added == AddItem(Merged, items, item)
           IN  /\ added \in Seq(V) /\ added # << >> /\ Distinct(added)
               /\ ItemTexts(added) = Over(UnderItem(item), ItemTexts(items))
<1> DEFINE added == AddItem(Merged, items, item)
<1>0. Len(items) \in Nat /\ DOMAIN items = 1..Len(items) /\ \A i \in DOMAIN items : items[i] \in V
  BY LenProperties, ElementOfSeq
<1>1. CASE \E j \in DOMAIN items : SameItem(items[j], item)
  <2>1. PICK j \in DOMAIN items : SameItem(items[j], item)
    BY <1>1
  <2>2. \A i \in DOMAIN items : i # j => ~SameItem(items[i], item)
    <3>1. \A i \in DOMAIN items : SameItem(items[i], item) => SameItem(items[i], items[j])
      BY <2>1 DEF SameItem
    <3> QED
      BY <3>1 DEF Distinct
  <2> DEFINE m == Merged(items[j], item)
  <2>3. added = [i \in DOMAIN items |-> IF i = j THEN m ELSE items[i]]
    BY <1>1, <2>1, <2>2 DEF AddItem
  <2>4. /\ m \in V /\ TextsIn(m) = Over(TextsIn(item), TextsIn(items[j]))
        /\ m.kind = "map" /\ NameOf(m) = NameOf(item) /\ StepTo(m) = StepTo(item)
    BY <1>0, <2>1, MergedName DEF MergesWith
  <2>5. StepTo(items[j]) = StepTo(item) /\ NameOf(items[j]) = NameOf(item) /\ items[j].kind = "map"
    BY <2>1 DEF SameItem, StepTo
  <2> HIDE DEF m, added
  <2>6. DOMAIN added = DOMAIN items /\ added[j] = m /\ \A i \in DOMAIN items : i # j => added[i] = items[i]
    BY <2>3
  <2>7. added \in Seq(V)
    <3>1. added \in [1..Len(items) -> V]
      BY <1>0, <2>3, <2>4
    <3> QED
      BY <1>0, <3>1, SeqDef
  <2>8. added # << >>
    <3>1. j \in DOMAIN added
      BY <2>6
    <3> QED
      BY <3>1
  <2>9. Distinct(added)
    <3>1. \A i \in DOMAIN items : added[i].kind = items[i].kind /\ (items[i].kind = "map" => NameOf(added[i]) = NameOf(items[i]))
      BY <2>4, <2>5, <2>6
    <3> QED
      BY <2>6, <3>1 DEF Distinct, SameItem
  <2>10. UnderItem(m) = Over(UnderItem(item), UnderItem(items[j]))
    <3> DEFINE A == TextsIn(items[j])
               B == TextsIn(item)
               s == StepTo(item)
    <3>1. s \in Steps(V) /\ \A x \in A \cup B : x.path \in Seq(Steps(V))
      BY <1>0, TextsShape DEF Steps
    <3> HIDE DEF A, B, s
    <3>2. Under(s, Over(B, A)) = Over(Under(s, B), Under(s, A))
      BY <3>1, UnderKeeps
    <3> QED
      BY <2>4, <2>5, <3>2 DEF UnderItem, A, B, s
  <2>11. ASSUME NEW i \in DOMAIN items, i # j, NEW f \in UnderItem(items[i]), NEW g \in UnderItem(item)
         PROVE  f \in UnderItem(item) \/ ~Clash(f.path, g.path)
    BY <1>0, <2>2, <2>11, ItemsApart
  <2> HIDE DEF UnderItem
  <2>12. ASSUME NEW f PROVE f \in ItemTexts(added) <=> f \in Over(UnderItem(item), ItemTexts(items))
    <3>1. f \in ItemTexts(added) <=> \E i \in DOMAIN items : f \in UnderItem(added[i])
      BY <2>6 DEF ItemTexts, Range
    <3>2. f \in ItemTexts(items) <=> \E i \in DOMAIN items : f \in UnderItem(items[i])
      BY DEF ItemTexts, Range
    <3>3. ASSUME NEW i \in DOMAIN items, f \in UnderItem(added[i]) PROVE f \in Over(UnderItem(item), ItemTexts(items))
      <4>1. CASE i = j
        BY <2>6, <2>10, <3>2, <3>3, <4>1 DEF Over
      <4>2. CASE i # j
        BY <2>6, <2>11, <3>2, <3>3, <4>2 DEF Over
      <4> QED
        BY <4>1, <4>2
    <3>4. ASSUME f \in UnderItem(item) PROVE f \in UnderItem(added[j])
      BY <2>6, <2>10, <3>4 DEF Over
    <3>5. ASSUME NEW i \in DOMAIN items, f \in UnderItem(items[i]), \A g \in UnderItem(item) : ~Clash(f.path, g.path)
          PROVE  f \in UnderItem(added[i])
      BY <2>6, <2>10, <3>5 DEF Over
    <3> QED
      BY <3>1, <3>2, <3>3, <3>4, <3>5 DEF Over
  <2>13. ItemTexts(added) = Over(UnderItem(item), ItemTexts(items))
    BY <2>12
  <2> QED
    BY <2>7, <2>8, <2>9, <2>13 DEF added
<1>2. CASE \A j \in DOMAIN items : ~SameItem(items[j], item)
  <2>1. added = Append(items, item)
    BY <1>2 DEF AddItem
  <2> HIDE DEF added
  <2>2. /\ added \in Seq(V) /\ DOMAIN added = 1..(Len(items) + 1) /\ added[Len(items) + 1] = item
        /\ \A i \in 1..Len(items) : added[i] = items[i]
    BY <2>1, AppendProperties, LenProperties
  <2>3. added # << >>
    <3>1. 1 \in DOMAIN added
      BY <1>0, <2>2
    <3> QED
      BY <3>1
  <2>4. Distinct(added)
    <3>1. \A i \in DOMAIN added : i \in 1..Len(items) \/ i = Len(items) + 1
      BY <1>0, <2>2
    <3>2. \A i \in DOMAIN items : ~SameItem(items[i], item) /\ ~SameItem(item, items[i])
      BY <1>2 DEF SameItem
    <3> QED
      BY <1>0, <2>2, <3>1, <3>2 DEF Distinct
  <2>5. \A i \in DOMAIN items : \A f \in UnderItem(items[i]), g \in UnderItem(item) : f \in UnderItem(item) \/ ~Clash(f.path, g.path)
    BY <1>0, <1>2, ItemsApart
  <2>6. ItemTexts(added) = UnderItem(item) \cup ItemTexts(items)
    <3>1. Range(added) = Range(items) \cup {item}
      <4>1. DOMAIN added = DOMAIN items \cup {Len(items) + 1}
        BY <1>0, <2>2
      <4> QED
        BY <1>0, <2>2, <4>1 DEF Range
    <3> QED
      BY <3>1 DEF ItemTexts
  <2> HIDE DEF UnderItem
  <2>7. ASSUME NEW f \in ItemTexts(items) PROVE f \in UnderItem(item) \/ \A g \in UnderItem(item) : ~Clash(f.path, g.path)
    <3>1. PICK i \in DOMAIN items : f \in UnderItem(items[i])
      BY DEF ItemTexts, Range
    <3> QED
      BY <2>5, <3>1
  <2>8. ItemTexts(added) = Over(UnderItem(item), ItemTexts(items))
    BY <2>6, <2>7 DEF Over
  <2> QED
    BY <2>2, <2>3, <2>4, <2>8 DEF added
<1> QED
  BY <1>1, <1>2

\* Two lists are merged item by item.
LEMMA MergedLists ==
    ASSUME NEW V, NEW depth, AreValues(V, depth), Unfold(V), NEW old \in V, NEW new \in V,
           old.kind = "list", new.kind = "list",
           \A w \in V : depth[w] < depth[new] => \A v \in V : MergesWith(V, v, w)
    PROVE  MergesWith(V, old, new)
<1> DEFINE s == old.items
           t == new.items
           n == Len(t)
           Is(g, i) == g = [j \in 0..i |-> IF j = 0 THEN s ELSE AddItem(Merged, g[j - 1], t[j])]
<1>1. /\ s \in Seq(V) /\ s # << >> /\ Distinct(s)
      /\ t \in Seq(V) /\ t # << >> /\ Distinct(t)
      /\ n \in Nat /\ DOMAIN t = 1..n
      /\ \A i \in DOMAIN t : t[i] \in V /\ \A v \in V : MergesWith(V, v, t[i])
  BY ListIs
<1>2. \E g : Is(g, n)
  <2> DEFINE T == {i \in 0..n : \E g : Is(g, i)}
  <2> HIDE DEF s, t, n
  <2>1. 0 \in T
    <3>1. Is([j \in 0..0 |-> s], 0)
      OBVIOUS
    <3>2. 0 \in 0..n
      BY <1>1
    <3> HIDE DEF Is
    <3> QED
      BY <3>1, <3>2
  <2>2. ASSUME NEW i \in 0..(n - 1), i \in T PROVE i + 1 \in T
    <3>1. PICK g : Is(g, i)
      BY <2>2
    <3> DEFINE h == [j \in 0..(i + 1) |-> IF j = i + 1 THEN AddItem(Merged, g[i], t[i + 1]) ELSE g[j]]
    <3>2. \A j \in 0..i : g[j] = IF j = 0 THEN s ELSE AddItem(Merged, g[j - 1], t[j])
      BY <3>1
    <3>3. \A j \in 0..(i + 1) : h[j] = IF j = 0 THEN s ELSE AddItem(Merged, h[j - 1], t[j])
      <4>1. ASSUME NEW j \in 0..i PROVE h[j] = IF j = 0 THEN s ELSE AddItem(Merged, h[j - 1], t[j])
        <5>1. h[j] = g[j] /\ (j # 0 => h[j - 1] = g[j - 1])
          BY <1>1
        <5> QED
          BY <3>2, <5>1
      <4>2. h[i + 1] = AddItem(Merged, h[i], t[i + 1]) /\ i + 1 # 0 /\ (i + 1) - 1 = i
        BY <1>1
      <4>3. \A j \in 0..(i + 1) : j \in 0..i \/ j = i + 1
        BY <1>1
      <4> HIDE DEF h
      <4> QED
        BY <4>1, <4>2, <4>3
    <3>4. h = [j \in 0..(i + 1) |-> h[j]]
      OBVIOUS
    <3> HIDE DEF h
    <3>5. Is(h, i + 1)
      BY <3>3, <3>4
    <3> QED
      BY <1>1, <3>5
  <2> HIDE DEF T
  <2>3. 0..n \subseteq T
    BY <1>1, <2>1, <2>2, CountingUp
  <2> QED
    BY <1>1, <2>3 DEF T
<1>3. PICK g : Is(g, n) /\ MergeLists(Merged, s, t) = g[n]
  BY <1>2 DEF MergeLists
<1> HIDE DEF s, t, n
<1>4. g[0] = s /\ \A i \in 1..n : g[i] = AddItem(Merged, g[i - 1], t[i])
  BY <1>1, <1>3
<1> HIDE DEF Is
<1> DEFINE First(i) == UNION {UnderItem(t[j]) : j \in 1..i}
           Good(i) == /\ g[i] \in Seq(V) /\ g[i] # << >> /\ Distinct(g[i])
                      /\ ItemTexts(g[i]) = Over(First(i), ItemTexts(s))
           T == {i \in 0..n : Good(i)}
<1>5. Good(0)
  <2>1. First(0) = {}
    OBVIOUS
  <2>2. \A X : Over({}, X) = X
    BY DEF Over
  <2> QED
    BY <1>1, <1>4, <2>1, <2>2
<1>6. ASSUME NEW i \in 0..(n - 1), Good(i) PROVE Good(i + 1)
  <2>1. i + 1 \in 1..n /\ (i + 1) - 1 = i /\ i \in Nat
    BY <1>1
  <2>2. g[i + 1] = AddItem(Merged, g[i], t[i + 1]) /\ t[i + 1] \in V /\ \A v \in V : MergesWith(V, v, t[i + 1])
    BY <1>1, <1>4, <2>1
  <2>3. /\ g[i + 1] \in Seq(V) /\ g[i + 1] # << >> /\ Distinct(g[i + 1])
        /\ ItemTexts(g[i + 1]) = Over(UnderItem(t[i + 1]), ItemTexts(g[i]))
    BY <1>6, <2>2, AddedItem
  <2>4. First(i + 1) = First(i) \cup UnderItem(t[i + 1])
    <3>1. 1..(i + 1) = 1..i \cup {i + 1}
      BY <2>1
    <3> HIDE DEF UnderItem
    <3> QED
      BY <3>1
  <2>5. \A f \in First(i), h \in UnderItem(t[i + 1]) : f \in UnderItem(t[i + 1]) \/ ~Clash(f.path, h.path)
    <3> SUFFICES ASSUME NEW f \in First(i), NEW h \in UnderItem(t[i + 1])
                 PROVE  f \in UnderItem(t[i + 1]) \/ ~Clash(f.path, h.path)
      OBVIOUS
    <3>1. PICK j \in 1..i : f \in UnderItem(t[j])
      OBVIOUS
    <3>2. j \in DOMAIN t /\ i + 1 \in DOMAIN t /\ j # i + 1
      BY <1>1, <2>1
    <3>3. ~SameItem(t[j], t[i + 1])
      BY <1>1, <3>2 DEF Distinct
    <3> QED
      BY <1>1, <3>1, <3>2, <3>3, ItemsApart
  <2> HIDE DEF First
  <2> DEFINE U == UnderItem(t[i + 1])
             P == First(i)
             O == ItemTexts(s)
  <2>6. Over(U, Over(P, O)) = Over(P \cup U, O)
    <3>1. \A f \in P : \A h \in U : f \in U \/ ~Clash(f.path, h.path)
      BY <2>5
    <3> HIDE DEF U, P, O
    <3> QED
      BY <3>1 DEF Over
  <2> QED
    BY <1>6, <2>3, <2>4, <2>6
<1>7. Good(n)
  <2> HIDE DEF Good
  <2>1. 0 \in T /\ \A i \in 0..(n - 1) : i \in T => i + 1 \in T
    BY <1>1, <1>5, <1>6
  <2> HIDE DEF T
  <2>2. 0..n \subseteq T
    BY <1>1, <2>1, CountingUp
  <2> QED
    BY <1>1, <2>2 DEF T
<1>8. Merged(old, new) = [kind |-> "list", items |-> g[n]]
  BY <1>3 DEF Unfold, MergeObjectsBy, s, t
<1>9. Merged(old, new) \in V
  <2>1. IsList(Merged(old, new), V)
    BY <1>7, <1>8 DEF IsList
  <2> QED
    BY <2>1 DEF AreValues
<1>10. \A v \in V : v.kind = "list" => TextsIn(v) = ItemTexts(v.items)
  BY TextsOfList DEF ItemTexts
<1>11. First(n) = ItemTexts(t)
  BY <1>1 DEF ItemTexts, Range
<1>12. TextsIn(Merged(old, new)) = ItemTexts(g[n]) /\ TextsIn(old) = ItemTexts(s) /\ TextsIn(new) = ItemTexts(t)
  <2>1. Merged(old, new).kind = "list" /\ Merged(old, new).items = g[n]
    BY <1>8
  <2> QED
    BY <1>9, <1>10, <2>1 DEF s, t
<1> QED
  BY <1>7, <1>9, <1>11, <1>12 DEF MergesWith

\* A set of values that merging stays in, and where it keeps texts.
WellMerged(V) == MergeKeepsTexts(V) /\ \A old, new \in V : Merged(old, new) \in V

\* mergeObjects loses no text but those whose place is taken, and adds none, at any depth.
THEOREM MergeLosesNothing ==
    ASSUME NEW V, NEW depth, AreValues(V, depth), Unfold(V)
    PROVE  WellMerged(V)
<1> DEFINE T == {new \in V : \A old \in V : MergesWith(V, old, new)}
<1>1. ASSUME NEW new \in V, \A w \in V : depth[w] < depth[new] => w \in T PROVE new \in T
  <2> SUFFICES ASSUME NEW old \in V PROVE MergesWith(V, old, new)
    OBVIOUS
  <2>1. \A w \in V : depth[w] < depth[new] => \A v \in V : MergesWith(V, v, w)
    BY <1>1
  <2>2. CASE old.kind = "map" /\ new.kind = "map"
    BY <2>1, <2>2, MergedMaps
  <2>3. CASE old.kind = "list" /\ new.kind = "list"
    BY <2>1, <2>3, MergedLists
  <2>4. CASE old.kind # new.kind \/ new.kind = "text"
    BY <2>4, ReplacedValue
  <2> QED
    BY <2>2, <2>3, <2>4, KindOf
<1>2. depth \in [V -> Nat]
  BY DEF AreValues
<1> HIDE DEF T
<1>3. V \subseteq T
  BY <1>1, <1>2, DepthInduction
<1>4. \A old, new \in V : MergesWith(V, old, new)
  BY <1>3 DEF T
<1> QED
  BY <1>4 DEF MergesWith, Over, MergeKeepsTexts, WellMerged

(***************************************************************************)
(* Config data is layered.                                                 *)
(***************************************************************************)

\* The values of the config maps are among them.
ValuesIn(V) ==
    \A maps \in Sources : \A m \in maps : \A key \in DOMAIN m.data :
        ObjectFromConfigValue(m.data[key]) \in V

Keys == {e[2] : e \in EntriesOf(sources)} \cup {<<Last(e[2])>> : e \in EntriesOf(sources)}

\* The contributions to a key that have been read.
ReadAlready(c) ==
    CASE stage = "labelled" -> c[1] = "labelled" /\ <<c[2], c[3]>> \notin todo
      [] stage = "azure"    -> c[1] = "labelled" \/ <<c[2], c[3]>> \notin todo
      [] OTHER -> TRUE

Done(k) == {c \in Contributions(k) : ReadAlready(c)}

Ordered(k) == \A c, d \in Contributions(k) : c = d \/ Before(c, d) \/ Before(d, c)

\* The texts that survive when the contributions cs are merged in their order.
Surviving(cs) ==
    UNION {{f \in TextsIn(ValueOf(c)) :
                \A d \in cs : Before(c, d) => \A g \in TextsIn(ValueOf(d)) : ~Clash(f.path, g.path)} : c \in cs}

\* What is read next does not come before what has been read.
OrderInv ==
    /\ stage = "labelled" => \A e \in todo : \A d \in Labelled \ todo : d[1].name <= e[1].name
    /\ stage = "azure" => \A e \in todo : \A d \in OfAzure \ todo :
                              d[1] = e[1] => Length(d[2]) <= Length(e[2])

\* The data so far is what the contributions read so far leave of each other.
LayerInv(V) ==
    stage \in {"labelled", "azure", "collected"} /\ ~lost =>
        \A k \in Keys :
            /\ k \in DOMAIN data <=> Done(k) # {}
            /\ k \in DOMAIN data => data[k] \in V
            /\ Ordered(k) /\ Done(k) # {} => TextsIn(data[k]) = Surviving(Done(k))

\* The step of the induction: one more contribution, which comes after the others.
LEMMA OneMoreLayer ==
    ASSUME NEW V, WellMerged(V), NEW cs, NEW c0, c0 \notin cs, ValueOf(c0) \in V,
           \A c \in cs : Before(c, c0) /\ ~Before(c0, c), ~Before(c0, c0),
           NEW old, cs # {} => old \in V /\ TextsIn(old) = Surviving(cs),
           NEW new, new = IF cs # {} THEN Merged(old, ValueOf(c0)) ELSE ValueOf(c0)
    PROVE  TextsIn(new) = Surviving(cs \cup {c0})
<1> DEFINE Room(f) == \A g \in TextsIn(ValueOf(c0)) : ~Clash(f.path, g.path)
<1>1. ASSUME NEW f PROVE f \in Surviving(cs \cup {c0}) <=>
                            f \in TextsIn(ValueOf(c0)) \/ (f \in Surviving(cs) /\ Room(f))
  BY DEF Surviving
<1>2. CASE cs = {}
  <2>1. Surviving(cs) = {} /\ new = ValueOf(c0)
    BY <1>2 DEF Surviving
  <2> QED
    BY <1>1, <2>1
<1>3. CASE cs # {}
  <2>1. TextsIn(new) = TextsIn(ValueOf(c0)) \cup {f \in TextsIn(old) : Room(f)}
    BY <1>3 DEF WellMerged, MergeKeepsTexts
  <2> QED
    BY <1>1, <1>3, <2>1
<1> QED
  BY <1>2, <1>3

LEMMA ContributionIs ==
    ASSUME NEW k, NEW c
    PROVE  c \in Contributions(k) <=>
              \/ /\ c = <<"labelled", c[2], k>>
                 /\ c[2] \in sources /\ c[2].platform /\ k \in DOMAIN c[2].data /\ Applies(c[2].labels)
              \/ /\ c = <<"azure", c[2], c[3]>> /\ <<c[2], c[3]>> \in OfAzure
                 /\ Last(c[3]) = Last(k) /\ Len(k) = 1 /\ Applies(LabelsFromKey(c[3]))
<1>1. c \in {<<"labelled", m, k>> : m \in {x \in sources : x.platform /\ k \in DOMAIN x.data /\ Applies(x.labels)}}
      <=> /\ c = <<"labelled", c[2], k>>
          /\ c[2] \in sources /\ c[2].platform /\ k \in DOMAIN c[2].data /\ Applies(c[2].labels)
  OBVIOUS
<1>2. c \in {<<"azure", e[1], e[2]>> : e \in {x \in OfAzure :
                     Last(x[2]) = Last(k) /\ Len(k) = 1 /\ Applies(LabelsFromKey(x[2]))}}
      <=> /\ c = <<"azure", c[2], c[3]>> /\ <<c[2], c[3]>> \in OfAzure
          /\ Last(c[3]) = Last(k) /\ Len(k) = 1 /\ Applies(LabelsFromKey(c[3]))
  <2>1. ASSUME NEW e \in OfAzure PROVE e = <<e[1], e[2]>>
    BY Entries DEF OfAzure
  <2> QED
    BY <2>1
<1> QED
  BY <1>1, <1>2 DEF Contributions, OfAzure

LEMMA LabelledContribution ==
    ASSUME NEW k, NEW c \in Contributions(k), c[1] = "labelled"
    PROVE  /\ c = <<"labelled", c[2], k>> /\ c[3] = k /\ c[2] \in sources /\ <<c[2], k>> \in Labelled
           /\ k \in DOMAIN c[2].data /\ Applies(c[2].labels)
<1>1. ~(c = <<"azure", c[2], c[3]>>)
  <2>1. <<"azure", c[2], c[3]>>[1] = "azure"
    OBVIOUS
  <2> QED
    BY <2>1
<1>2. /\ c = <<"labelled", c[2], k>> /\ c[2] \in {m \in sources : m.platform}
      /\ k \in DOMAIN c[2].data /\ Applies(c[2].labels)
  BY <1>1, ContributionIs
<1>3. <<c[2], k>> \in Labelled
  BY <1>2, EntryOf DEF Labelled
<1>4. <<"labelled", c[2], k>>[3] = k
  OBVIOUS
<1> QED
  BY <1>2, <1>3, <1>4

LEMMA AzureContribution ==
    ASSUME NEW k, NEW c \in Contributions(k), c[1] # "labelled"
    PROVE  /\ c = <<"azure", c[2], c[3]>> /\ <<c[2], c[3]>> \in OfAzure
           /\ Last(c[3]) = Last(k) /\ Len(k) = 1 /\ Applies(LabelsFromKey(c[3]))
<1>1. ~(c = <<"labelled", c[2], k>>)
  <2>1. <<"labelled", c[2], k>>[1] = "labelled"
    OBVIOUS
  <2> QED
    BY <2>1
<1> QED
  BY <1>1, ContributionIs

\* Keys are sequences with at least one part.
LEMMA KeyIsSeq ==
    ASSUME sources \in Sources, NEW m \in sources, NEW key \in DOMAIN m.data
    PROVE  /\ m.name \in Nat /\ key \in Seq(STRING) /\ Len(key) \in Nat \ {0} /\ Length(key) \in Nat
           /\ Len(<<Last(key)>>) = 1 /\ Last(<<Last(key)>>) = Last(key)
<1>1. m.name \in Nat /\ key \in Seq(STRING) \ {<< >>} /\ Length(key) \in Nat
  BY SourcesAssumption
<1>2. Len(key) \in Nat \ {0}
  BY <1>1
<1>3. Len(<<Last(key)>>) = 1 /\ Last(<<Last(key)>>) = Last(key)
  BY DEF Last
<1> QED
  BY <1>1, <1>2, <1>3

\* A key of one part is its last part.
LEMMA ShortKey ==
    ASSUME sources \in Sources, NEW k \in Keys, Len(k) = 1
    PROVE  k = <<Last(k)>>
<1>1. PICK e \in EntriesOf(sources) : k = e[2] \/ k = <<Last(e[2])>>
  BY DEF Keys
<1>2. e[1] \in sources /\ e[2] \in DOMAIN e[1].data
  BY <1>1, Entries
<1>3. CASE k = e[2]
  BY <1>2, <1>3, KeyIsSeq DEF Last
<1>4. CASE k = <<Last(e[2])>>
  BY <1>4 DEF Last
<1> QED
  BY <1>1, <1>3, <1>4

LEMMA OrderStep == TypeInv /\ OrderInv /\ [Next]_vars => OrderInv'
<1> SUFFICES ASSUME TypeInv, OrderInv, [Next]_vars PROVE OrderInv'
  OBVIOUS
<1>1. ASSUME NEW m \in sources, NEW key \in DOMAIN m.data, ReadLabelled(m, key) PROVE OrderInv'
  <2>1. /\ stage = "labelled" /\ stage' = "labelled" /\ sources' = sources
        /\ todo' = todo \ {<<m, key>>} /\ \A e \in todo : m.name <= e[1].name
    BY <1>1 DEF ReadLabelled
  <2>2. Labelled' = Labelled
    BY <2>1 DEF Labelled
  <2>3. ASSUME NEW e \in todo', NEW d \in Labelled \ todo' PROVE d[1].name <= e[1].name
    BY <2>1, <2>3 DEF OrderInv
  <2> QED
    BY <2>1, <2>2, <2>3 DEF OrderInv
<1>2. ASSUME NEW m \in sources, NEW key \in DOMAIN m.data, ReadAzure(m, key) PROVE OrderInv'
  <2>1. /\ stage = "azure" /\ stage' = "azure" /\ sources' = sources
        /\ todo' = todo \ {<<m, key>>} /\ \A k \in Pending(m) : Length(key) <= Length(k)
    BY <1>2 DEF ReadAzure
  <2>2. OfAzure' = OfAzure
    BY <2>1 DEF OfAzure
  <2>3. ASSUME NEW e \in todo', NEW d \in OfAzure \ todo', d[1] = e[1] PROVE Length(d[2]) <= Length(e[2])
    <3>1. CASE d \notin todo
      BY <2>1, <2>3, <3>1 DEF OrderInv
    <3>2. CASE d = <<m, key>>
      <4>1. e[2] \in Pending(m)
        BY <2>1, <2>3, <3>2 DEF Pending
      <4> QED
        BY <2>1, <3>2, <4>1
    <3> QED
      BY <2>1, <3>1, <3>2
  <2> QED
    BY <2>1, <2>2, <2>3 DEF OrderInv
<1>3. ASSUME ListAzure PROVE OrderInv'
  <2>1. stage' = "azure" /\ todo' = OfAzure /\ OfAzure' = OfAzure
    BY <1>3 DEF ListAzure, OfAzure
  <2> QED
    BY <2>1 DEF OrderInv
<1>4. ASSUME stage' \in {"collected", "expand", "rendered", "failed"} PROVE OrderInv'
  BY <1>4 DEF OrderInv
<1>5. ASSUME UNCHANGED vars PROVE OrderInv'
  BY <1>5 DEF OrderInv, vars, Labelled, OfAzure
<1> QED
  BY <1>1, <1>2, <1>3, <1>4, <1>5
     DEF Next, Step, Finished, Collected, ValidateConfigData, ReplaceTemplateVariables, ListFails,
         TemplateFails

LEMMA LayerInit ==
    ASSUME NEW V
    PROVE  Init => OrderInv /\ LayerInv(V)
<1> SUFFICES ASSUME Init PROVE OrderInv /\ LayerInv(V)
  OBVIOUS
<1>1. stage = "labelled" /\ todo = Labelled /\ DOMAIN data = {}
  BY DEF Init, Labelled, NoData
<1>2. ASSUME NEW k \in Keys, NEW c \in Done(k) PROVE FALSE
  <2>1. c \in Contributions(k) /\ c[1] = "labelled" /\ <<c[2], c[3]>> \notin todo
    BY <1>1, <1>2 DEF Done, ReadAlready
  <2>2. c = <<"labelled", c[2], k>> /\ c[2] \in {m \in sources : m.platform} /\ k \in DOMAIN c[2].data
    BY <2>1, ContributionIs
  <2>3. <<c[2], k>> \in Labelled
    BY <2>2, EntryOf DEF Labelled
  <2> QED
    BY <1>1, <2>1, <2>2, <2>3
<1> QED
  BY <1>1, <1>2 DEF OrderInv, LayerInv

\* Reading key of m adds the contribution c0 to what has been read for k.
LEMMA LayerAdded ==
    ASSUME NEW V, WellMerged(V), LayerInv(V), stage \in {"labelled", "azure", "collected"}, ~lost,
           NEW k \in Keys, NEW c0, c0 \in Contributions(k), c0 \notin Done(k), ValueOf(c0) \in V,
           ~Before(c0, c0),
           Ordered(k) => \A c \in Done(k) : Before(c, c0) /\ ~Before(c0, c),
           NEW new, new = IF k \in DOMAIN data THEN Merged(data[k], ValueOf(c0)) ELSE ValueOf(c0)
    PROVE  /\ new \in V
           /\ Ordered(k) => TextsIn(new) = Surviving(Done(k) \cup {c0})
<1>1. /\ k \in DOMAIN data <=> Done(k) # {}
      /\ k \in DOMAIN data => data[k] \in V
      /\ Ordered(k) /\ Done(k) # {} => TextsIn(data[k]) = Surviving(Done(k))
  BY DEF LayerInv
<1>2. new \in V
  BY <1>1 DEF WellMerged
<1>3. ASSUME Ordered(k) PROVE TextsIn(new) = Surviving(Done(k) \cup {c0})
  <2>1. PICK cs : cs = Done(k)
    OBVIOUS
  <2>2. PICK old : cs # {} => old = data[k] /\ old \in V /\ TextsIn(old) = Surviving(cs)
    BY <1>1, <1>3, <2>1
  <2>3. new = IF cs # {} THEN Merged(old, ValueOf(c0)) ELSE ValueOf(c0)
    BY <1>1, <2>1, <2>2
  <2>4. \A c \in cs : Before(c, c0) /\ ~Before(c0, c)
    BY <1>3, <2>1
  <2>5. c0 \notin cs /\ (cs # {} => old \in V /\ TextsIn(old) = Surviving(cs))
    BY <2>1, <2>2
  <2>6. TextsIn(new) = Surviving(cs \cup {c0})
    BY <2>3, <2>4, <2>5, OneMoreLayer
  <2> QED
    BY <2>1, <2>6
<1> QED
  BY <1>2, <1>3

\* What a step does that reads one contribution, or none, for a key.
LEMMA LayerKept ==
    ASSUME NEW V, LayerInv(V), NEW k \in Keys, ~lost, stage \in {"labelled", "azure", "collected"},
           sources' = sources, Done(k)' = Done(k),
           k \in DOMAIN data' <=> k \in DOMAIN data, k \in DOMAIN data => data'[k] = data[k]
    PROVE  /\ k \in DOMAIN data' <=> Done(k)' # {}
           /\ k \in DOMAIN data' => data'[k] \in V
           /\ Ordered(k)' /\ Done(k)' # {} => TextsIn(data'[k]) = Surviving(Done(k)')
<1>1. Ordered(k)' = Ordered(k)
  BY DEF Ordered, Contributions
<1> QED
  BY <1>1 DEF LayerInv

\* A step that merges the contribution c0 to k, which comes after what has been merged.
LEMMA LayerGrows ==
    ASSUME NEW V, WellMerged(V), LayerInv(V), ~lost, stage \in {"labelled", "azure", "collected"},
           NEW k \in Keys, NEW c0, c0 \in Contributions(k), c0 \notin Done(k), ValueOf(c0) \in V,
           ~Before(c0, c0), Ordered(k) => \A c \in Done(k) : Before(c, c0) /\ ~Before(c0, c),
           sources' = sources, Done(k)' = Done(k) \cup {c0},
           k \in DOMAIN data', data'[k] = IF k \in DOMAIN data THEN Merged(data[k], ValueOf(c0)) ELSE ValueOf(c0)
    PROVE  /\ k \in DOMAIN data' <=> Done(k)' # {}
           /\ k \in DOMAIN data' => data'[k] \in V
           /\ Ordered(k)' /\ Done(k)' # {} => TextsIn(data'[k]) = Surviving(Done(k)')
<1>1. Ordered(k)' = Ordered(k)
  BY DEF Ordered, Contributions
<1>2. data'[k] \in V /\ (Ordered(k) => TextsIn(data'[k]) = Surviving(Done(k) \cup {c0}))
  BY LayerAdded
<1> QED
  BY <1>1, <1>2

LEMMA LayerLabelled ==
    ASSUME NEW V, WellMerged(V), ValuesIn(V), TypeInv, OrderInv, LayerInv(V), ~lost,
           NEW m \in sources, NEW key \in DOMAIN m.data, ReadLabelled(m, key)
    PROVE  LayerInv(V)'
<1>1. /\ stage = "labelled" /\ stage' = "labelled" /\ sources' = sources /\ ~lost'
      /\ <<m, key>> \in todo /\ todo' = todo \ {<<m, key>>} /\ sources \in Sources
      /\ \A e \in todo : m.name <= e[1].name
      /\ IF Applies(m.labels) THEN Merge(key, m.data[key]) ELSE UNCHANGED data
  BY DEF ReadLabelled, TypeInv, TypeOK
<1>2. m.platform /\ todo \subseteq Labelled
  <2>1. todo \subseteq Labelled /\ <<m, key>> \in Labelled
    BY <1>1 DEF TypeInv
  <2>2. <<m, key>>[1] \in {x \in sources : x.platform}
    BY <2>1, Entries DEF Labelled
  <2> QED
    BY <2>1, <2>2
<1>c. Keys' = Keys /\ \A k : Contributions(k)' = Contributions(k)
  BY <1>1 DEF Keys, Contributions
<1>3. SUFFICES ASSUME NEW k \in Keys
               PROVE  /\ k \in DOMAIN data' <=> Done(k)' # {}
                      /\ k \in DOMAIN data' => data'[k] \in V
                      /\ Ordered(k)' /\ Done(k)' # {} => TextsIn(data'[k]) = Surviving(Done(k)')
  BY <1>c DEF LayerInv
<1>4. Done(k) = {c \in Contributions(k) : c[1] = "labelled" /\ <<c[2], c[3]>> \notin todo}
  BY <1>1 DEF Done, ReadAlready
<1>5. Done(k)' = {c \in Contributions(k) : c[1] = "labelled" /\ <<c[2], c[3]>> \notin todo'}
  BY <1>1, <1>c DEF Done, ReadAlready
<1>6. CASE k # key \/ ~Applies(m.labels)
  <2>1. ASSUME NEW c \in Contributions(k), c[1] = "labelled" PROVE <<c[2], c[3]>> # <<m, key>>
    <3>1. c[3] = k /\ Applies(c[2].labels)
      BY <2>1, LabelledContribution
    <3> QED
      BY <1>6, <3>1
  <2>2. Done(k)' = Done(k)
    BY <1>1, <1>4, <1>5, <2>1
  <2>3. (k \in DOMAIN data' <=> k \in DOMAIN data) /\ (k \in DOMAIN data => data'[k] = data[k])
    BY <1>1, <1>6 DEF Merge
  <2> QED
    BY <1>1, <2>2, <2>3, LayerKept
<1>7. CASE k = key /\ Applies(m.labels)
  <2> DEFINE c0 == <<"labelled", m, key>>
  <2>1. c0 \in Contributions(k) /\ c0 \notin Done(k)
    <3>1. c0[1] = "labelled" /\ c0[2] = m /\ c0[3] = key
      OBVIOUS
    <3>2. c0 \in Contributions(k)
      BY <1>2, <1>7, <3>1, ContributionIs
    <3> QED
      BY <1>1, <1>4, <3>1, <3>2
  <2>2. ValueOf(c0) = ObjectFromConfigValue(m.data[key]) /\ ValueOf(c0) \in V
    BY <1>1 DEF ValueOf, ValuesIn
  <2>3. ASSUME NEW c \in Contributions(k), c[1] = "labelled"
        PROVE  /\ c = <<"labelled", c[2], key>>
               /\ c[2] \in sources /\ c[2].name \in Nat /\ <<c[2], c[3]>> \in Labelled
    <3>1. /\ c = <<"labelled", c[2], k>> /\ c[3] = k /\ c[2] \in sources /\ <<c[2], k>> \in Labelled
          /\ k \in DOMAIN c[2].data
      BY <2>3, LabelledContribution
    <3>2. c[2].name \in Nat
      BY <1>1, <3>1, KeyIsSeq
    <3> QED
      BY <1>7, <3>1, <3>2
  <2>4. Done(k)' = Done(k) \cup {c0}
    <3>1. ASSUME NEW c \in Contributions(k), c[1] = "labelled" PROVE <<c[2], c[3]>> = <<m, key>> <=> c = c0
      <4>1. c = <<"labelled", c[2], key>> /\ c[3] = key
        BY <1>7, <3>1, LabelledContribution
      <4> QED
        BY <4>1
    <3> QED
      BY <1>1, <1>4, <1>5, <2>1, <3>1
  <2>5. m.name \in Nat /\ ~Before(c0, c0)
    <3>1. m.name \in Nat
      BY <1>1, KeyIsSeq
    <3> QED
      BY <3>1 DEF Before
  <2>6. ASSUME Ordered(k), NEW c \in Done(k) PROVE Before(c, c0) /\ ~Before(c0, c)
    <3>1. c \in Contributions(k) /\ c[1] = "labelled" /\ <<c[2], c[3]>> \in Labelled \ todo /\ c[2].name \in Nat
      BY <1>4, <2>3, <2>6
    <3>2. c[2].name <= m.name
      BY <1>1, <3>1 DEF OrderInv
    <3>3. Before(c, c0) \/ Before(c0, c)
      BY <2>1, <2>6, <3>1 DEF Ordered
    <3>4. /\ Before(c, c0) <=> c[2].name < m.name
          /\ Before(c0, c) <=> m.name < c[2].name
      BY <3>1 DEF Before
    <3> QED
      BY <2>5, <3>1, <3>2, <3>3, <3>4
  <2>7. k \in DOMAIN data' /\ data'[k] = IF k \in DOMAIN data THEN Merged(data[k], ValueOf(c0)) ELSE ValueOf(c0)
    BY <1>1, <1>7, <2>2 DEF Merge
  <2> HIDE DEF c0
  <2> QED
    BY <1>1, <2>1, <2>2, <2>4, <2>5, <2>6, <2>7, LayerGrows
<1> QED
  BY <1>6, <1>7

LEMMA LayerAzure ==
    ASSUME NEW V, WellMerged(V), ValuesIn(V), TypeInv, OrderInv, LayerInv(V), ~lost,
           NEW m \in sources, NEW key \in DOMAIN m.data, ReadAzure(m, key)
    PROVE  LayerInv(V)'
<1>1. /\ stage = "azure" /\ stage' = "azure" /\ sources' = sources /\ ~lost'
      /\ <<m, key>> \in todo /\ todo' = todo \ {<<m, key>>} /\ sources \in Sources
      /\ IF Applies(LabelsFromKey(key)) THEN Merge(<<Last(key)>>, m.data[key]) ELSE UNCHANGED data
  BY DEF ReadAzure, TrimmedKey, TypeInv, TypeOK
<1>2. <<m, key>> \in OfAzure
  BY <1>1 DEF TypeInv
<1>c. Keys' = Keys /\ \A k : Contributions(k)' = Contributions(k)
  BY <1>1 DEF Keys, Contributions
<1>3. SUFFICES ASSUME NEW k \in Keys
               PROVE  /\ k \in DOMAIN data' <=> Done(k)' # {}
                      /\ k \in DOMAIN data' => data'[k] \in V
                      /\ Ordered(k)' /\ Done(k)' # {} => TextsIn(data'[k]) = Surviving(Done(k)')
  BY <1>c DEF LayerInv
<1>4. Done(k) = {c \in Contributions(k) : c[1] = "labelled" \/ <<c[2], c[3]>> \notin todo}
  BY <1>1 DEF Done, ReadAlready
<1>5. Done(k)' = {c \in Contributions(k) : c[1] = "labelled" \/ <<c[2], c[3]>> \notin todo'}
  BY <1>1, <1>c DEF Done, ReadAlready
<1>6. CASE k # <<Last(key)>> \/ ~Applies(LabelsFromKey(key))
  <2>1. ASSUME NEW c \in Contributions(k), c[1] # "labelled" PROVE <<c[2], c[3]>> # <<m, key>>
    <3>1. Last(c[3]) = Last(k) /\ Len(k) = 1 /\ Applies(LabelsFromKey(c[3]))
      BY <2>1, AzureContribution
    <3>2. k = <<Last(k)>>
      BY <1>1, <3>1, ShortKey
    <3> QED
      BY <1>6, <3>1, <3>2
  <2>2. Done(k)' = Done(k)
    BY <1>1, <1>4, <1>5, <2>1
  <2>3. (k \in DOMAIN data' <=> k \in DOMAIN data) /\ (k \in DOMAIN data => data'[k] = data[k])
    BY <1>1, <1>6 DEF Merge
  <2> QED
    BY <1>1, <2>2, <2>3, LayerKept
<1>7. CASE k = <<Last(key)>> /\ Applies(LabelsFromKey(key))
  <2> DEFINE c0 == <<"azure", m, key>>
  <2>1. c0 \in Contributions(k) /\ c0 \notin Done(k)
    <3>1. c0[1] = "azure" /\ c0[2] = m /\ c0[3] = key
      OBVIOUS
    <3>2. Len(k) = 1 /\ Last(k) = Last(key)
      BY <1>1, <1>7, KeyIsSeq
    <3>3. c0 \in Contributions(k)
      BY <1>2, <1>7, <3>1, <3>2, ContributionIs
    <3> QED
      BY <1>1, <1>4, <3>1, <3>3
  <2>2. ValueOf(c0) = ObjectFromConfigValue(m.data[key]) /\ ValueOf(c0) \in V
    BY <1>1 DEF ValueOf, ValuesIn
  <2>3. Done(k)' = Done(k) \cup {c0}
    <3>1. ASSUME NEW c \in Contributions(k), c[1] # "labelled" PROVE <<c[2], c[3]>> = <<m, key>> <=> c = c0
      <4>1. c = <<"azure", c[2], c[3]>>
        BY <3>1, AzureContribution
      <4> QED
        BY <4>1
    <3> QED
      BY <1>1, <1>4, <1>5, <2>1, <3>1
  <2>4. Length(key) \in Nat /\ ~Before(c0, c0)
    <3>1. Length(key) \in Nat
      BY <1>1, KeyIsSeq
    <3> QED
      BY <3>1 DEF Before
  <2>5. ASSUME Ordered(k), NEW c \in Done(k) PROVE Before(c, c0) /\ ~Before(c0, c)
    <3>1. CASE c[1] = "labelled"
      <4>1. c0[1] = "azure"
        OBVIOUS
      <4> HIDE DEF c0
      <4> QED
        BY <3>1, <4>1 DEF Before
    <3>2. CASE c[1] # "labelled"
      <4>1. c \in Contributions(k) /\ c = <<"azure", c[2], c[3]>> /\ <<c[2], c[3]>> \in OfAzure \ todo
        BY <1>4, <2>5, <3>2, AzureContribution
      <4>2. /\ Before(c, c0) <=> c[2] = m /\ Length(c[3]) < Length(key)
            /\ Before(c0, c) <=> m = c[2] /\ Length(key) < Length(c[3])
        BY <4>1 DEF Before
      <4>3. Before(c, c0) \/ Before(c0, c)
        BY <1>4, <2>1, <2>5, <4>1 DEF Ordered
      <4>4. c[2] = m /\ Length(c[3]) <= Length(key)
        BY <1>1, <4>1, <4>2, <4>3 DEF OrderInv
      <4>5. Length(c[3]) \in Nat
        <5>1. c[3] \in DOMAIN m.data
          BY <4>1, <4>4, Entries DEF OfAzure
        <5> QED
          BY <1>1, <5>1, KeyIsSeq
      <4> QED
        BY <2>4, <4>2, <4>3, <4>4, <4>5
    <3> QED
      BY <3>1, <3>2
  <2>6. k \in DOMAIN data' /\ data'[k] = IF k \in DOMAIN data THEN Merged(data[k], ValueOf(c0)) ELSE ValueOf(c0)
    BY <1>1, <1>7, <2>2 DEF Merge
  <2> HIDE DEF c0
  <2> QED
    BY <1>1, <2>1, <2>2, <2>3, <2>4, <2>5, <2>6, LayerGrows
<1> QED
  BY <1>6, <1>7

LEMMA LayerStep ==
    ASSUME NEW V, WellMerged(V), ValuesIn(V)
    PROVE  TypeInv /\ OrderInv /\ LayerInv(V) /\ [Next]_vars => LayerInv(V)'
<1> SUFFICES ASSUME TypeInv, OrderInv, LayerInv(V), [Next]_vars PROVE LayerInv(V)'
  OBVIOUS
<1>1. ASSUME NEW m \in sources, NEW key \in DOMAIN m.data, ReadLabelled(m, key) PROVE LayerInv(V)'
  <2>1. CASE lost
    BY <1>1, <2>1 DEF LayerInv, ReadLabelled
  <2> QED
    BY <1>1, <2>1, LayerLabelled
<1>2. ASSUME NEW m \in sources, NEW key \in DOMAIN m.data, ReadAzure(m, key) PROVE LayerInv(V)'
  <2>1. CASE lost
    BY <1>2, <2>1 DEF LayerInv, ReadAzure
  <2> QED
    BY <1>2, <2>1, LayerAzure
<1>3. ASSUME ListAzure \/ Collected PROVE LayerInv(V)'
  <2>1. /\ sources' = sources /\ data' = data /\ lost' = lost
        /\ stage \in {"labelled", "azure"}
    BY <1>3 DEF ListAzure, Collected
  <2>c. Keys' = Keys /\ \A k : Contributions(k)' = Contributions(k)
    BY <2>1 DEF Keys, Contributions
  <2>2. ASSUME NEW k \in Keys, NEW c \in Contributions(k) PROVE ReadAlready(c)' <=> ReadAlready(c)
    <3>1. CASE ListAzure
      <4>1. stage = "labelled" /\ todo = {} /\ stage' = "azure" /\ todo' = OfAzure
        BY <3>1 DEF ListAzure, OfAzure
      <4>2. c[1] # "labelled" => <<c[2], c[3]>> \in OfAzure
        BY AzureContribution
      <4> QED
        BY <4>1, <4>2 DEF ReadAlready
    <3>2. CASE Collected
      BY <3>2 DEF Collected, ReadAlready
    <3> QED
      BY <1>3, <3>1, <3>2
  <2>3. ASSUME NEW k \in Keys PROVE Done(k)' = Done(k)
    BY <2>2, <2>c DEF Done
  <2>4. CASE lost
    BY <2>1, <2>4 DEF LayerInv
  <2>5. CASE ~lost
    <3>1. ASSUME NEW k \in Keys
          PROVE  /\ k \in DOMAIN data' <=> Done(k)' # {}
                 /\ k \in DOMAIN data' => data'[k] \in V
                 /\ Ordered(k)' /\ Done(k)' # {} => TextsIn(data'[k]) = Surviving(Done(k)')
      BY <2>1, <2>3, <2>5, LayerKept
    <3> QED
      BY <2>c, <3>1 DEF LayerInv
  <2> QED
    BY <2>4, <2>5
<1>4. ASSUME lost' \/ stage' \in {"expand", "rendered", "failed"} PROVE LayerInv(V)'
  BY <1>4 DEF LayerInv
<1>5. ASSUME UNCHANGED vars PROVE LayerInv(V)'
  <2>1. UNCHANGED <<sources, data, lost, todo, stage>>
    BY <1>5 DEF vars
  <2>2. Keys' = Keys /\ \A k : Contributions(k)' = Contributions(k)
    BY <2>1 DEF Keys, Contributions
  <2>3. \A k : Done(k)' = Done(k) /\ Ordered(k)' = Ordered(k)
    BY <2>1, <2>2 DEF Done, ReadAlready, Ordered
  <2> QED
    BY <2>1, <2>2, <2>3 DEF LayerInv
<1> QED
  BY <1>1, <1>2, <1>3, <1>4, <1>5
     DEF Next, Step, Finished, ValidateConfigData, ReplaceTemplateVariables, ListFails,
         TemplateFails

\* All it takes of a merge is that it keeps texts.
LEMMA LayeredByMerge ==
    ASSUME NEW V, WellMerged(V), ValuesIn(V)
    PROVE  Spec => []ConfigDataIsLayered
<1> DEFINE Inv == TypeInv /\ OrderInv /\ LayerInv(V)
<1>1. Init => Inv
  BY TypeInit, LayerInit
<1>2. Inv /\ [Next]_vars => Inv'
  BY TypeStep, OrderStep, LayerStep
<1>3. Inv => ConfigDataIsLayered
  <2> SUFFICES ASSUME Inv, stage = "collected", ~lost PROVE ConfigDataIsLayered
    BY DEF ConfigDataIsLayered
  <2>1. ASSUME NEW k \in Keys PROVE Done(k) = Contributions(k)
    BY DEF Done, ReadAlready
  <2>2. ASSUME NEW k \in Keys
        PROVE  /\ k \in DOMAIN data <=> Contributions(k) # {}
               /\ Ordered(k) /\ Contributions(k) # {} => TextsIn(data[k]) = Surviving(Contributions(k))
    BY <2>1 DEF LayerInv
  <2> QED
    BY <2>2 DEF ConfigDataIsLayered, Keys, Ordered, Surviving
<1> HIDE DEF Inv
<1> QED
  BY <1>1, <1>2, <1>3, PTL DEF Spec

\* Whatever the config maps and the order in which they are read: a text of a config map
\* that applies is in the collected data unless one of higher precedence has its place.
THEOREM DataIsLayered ==
    ASSUME NEW V, NEW depth, AreValues(V, depth), Unfold(V), ValuesIn(V)
    PROVE  Spec => []ConfigDataIsLayered
<1>1. WellMerged(V)
  BY MergeLosesNothing
<1> QED
  BY <1>1, LayeredByMerge

(***************************************************************************)
(* Expansion.                                                              *)
(***************************************************************************)

\* No text leads to a template of its own key: a text refers to keys of lower rank.
Ranked(rank) ==
    /\ rank \in [DOMAIN data -> Nat]
    /\ \A k \in DOMAIN data : \A t \in TextsOf({k}) : \A j \in Refs(t) \cap DOMAIN data : rank[j] < rank[k]

\* Why replaceTemplateVariables, which calls itself while there are templates in the result,
\* comes to an end on config data without cycles: what a pass leaves to be replaced is of
\* lower rank than what it replaced, and when no key of it has data the pass was the last.
THEOREM ExpansionDescends ==
    ASSUME NEW rank, Ranked(rank), NEW n \in Nat, \A k \in refs \cap DOMAIN data : rank[k] <= n,
           ReplaceTemplateVariables
    PROVE  /\ \A k \in refs' \cap DOMAIN data' : rank[k] < n
           /\ refs \cap DOMAIN data = {} => stage' = "rendered"
<1>1. refs' = UNION {Refs(t) : t \in TextsOf(refs)} /\ data' = data
      /\ (refs' = {} => stage' = "rendered")
  BY DEF ReplaceTemplateVariables
<1>2. ASSUME NEW j \in refs' \cap DOMAIN data PROVE rank[j] < n
  <2>1. PICK t \in TextsOf(refs) : j \in Refs(t)
    BY <1>1
  <2>2. PICK k \in refs \cap DOMAIN data : t \in {f.text : f \in TextsIn(data[k])}
    BY <2>1 DEF TextsOf
  <2>3. t \in TextsOf({k})
    BY <2>2 DEF TextsOf
  <2>4. rank[j] < rank[k] /\ rank[k] <= n /\ rank[j] \in Nat /\ rank[k] \in Nat
    BY <1>2, <2>1, <2>2, <2>3 DEF Ranked
  <2> QED
    BY <2>4
<1>3. ASSUME refs \cap DOMAIN data = {} PROVE refs' = {}
  <2>1. TextsOf(refs) = {}
    BY <1>3 DEF TextsOf
  <2> QED
    BY <1>1, <2>1
<1> QED
  BY <1>1, <1>2, <1>3
=============================================================================

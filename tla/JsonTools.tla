------------------------------ MODULE JsonTools ------------------------------
(***************************************************************************)
(* The text-tools operations on JSON values and versions                   *)
(* (src/modules/text-tools/operations_data.py, operations_developer.py),   *)
(* as operators, checked against what each of them is for: flattening is   *)
(* undone by unflattening, a difference leads from one value to the other, *)
(* an inferred schema accepts its samples, versions are ordered.           *)
(*                                                                         *)
(* A value is a leaf, a list or a map; a key is one token and holds no     *)
(* separator or bracket.  Leaf 0 is null.                                  *)
(***************************************************************************)
EXTENDS Integers, Sequences, SequencesExt

VARIABLE task       \* the operation asked for and its arguments

Leaf(n) == [t |-> "leaf", v |-> n]
List(s) == [t |-> "list", items |-> s]
Map(f) == [t |-> "map", fields |-> f]
Null == Leaf(0)
Conflict == [t |-> "conflict"]

Upto2(S) == {<<>>} \cup {<<a>> : a \in S} \cup {<<a, b>> : a, b \in S}
Over(S) == {List(s) : s \in Upto2(S)} \cup {Map(f) : f \in UNION {[K -> S] : K \in SUBSET {"a", "b"}}}
Leaves == {Leaf(0), Leaf(1)}
Shallow == Leaves \cup Over(Leaves)
Deep == Over(Shallow)
Nested == Shallow \cup {List(<<v>>) : v \in Shallow} \cup {Map("a" :> v) : v \in Shallow}

Key(k) == [key |-> k]
Index(i) == [index |-> i]
IsIndex(token) == "index" \in DOMAIN token
Hollow(v) == (v.t = "list" /\ v.items = <<>>) \/ (v.t = "map" /\ DOMAIN v.fields = {})
----------------------------------------------------------------------------
\* flatten_value: the leaves and the empty containers, each with its path.
RECURSIVE Flatten(_, _)
Flatten(v, path) ==
  IF v.t = "leaf" \/ Hollow(v) THEN <<[path |-> path, value |-> v]>>
  ELSE IF v.t = "list"
  THEN FlattenSeq([i \in DOMAIN v.items |-> Flatten(v.items[i], Append(path, Index(i - 1)))])
  ELSE LET keys == SetToSeq(DOMAIN v.fields)
       IN  FlattenSeq([i \in DOMAIN keys |-> Flatten(v.fields[keys[i]], Append(path, Key(keys[i])))])

\* One pass of json_unflatten's loops: walk the path, make the containers that
\* are missing or null, lengthen lists with nulls, store the value.
Padded(items, n) == items \o [i \in 1 .. n - Len(items) |-> Null]
RECURSIVE Put(_, _, _)
Put(at, path, value) ==
  IF path = <<>> THEN value
  ELSE LET token == Head(path)
           box == IF at # Null THEN at ELSE IF IsIndex(token) THEN List(<<>>) ELSE Map([k \in {} |-> Null])
       IN  IF IsIndex(token)
           THEN IF box.t # "list" THEN Conflict
                ELSE LET items == IF Len(box.items) > token.index THEN box.items
                                  ELSE Padded(box.items, token.index + 1)
                         sub == Put(items[token.index + 1], Tail(path), value)
                     IN  IF sub = Conflict THEN Conflict ELSE List([items EXCEPT ![token.index + 1] = sub])
           ELSE IF box.t # "map" THEN Conflict
                ELSE LET old == IF token.key \in DOMAIN box.fields THEN box.fields[token.key] ELSE Null
                         sub == Put(old, Tail(path), value)
                     IN  IF sub = Conflict THEN Conflict ELSE Map((token.key :> sub) @@ box.fields)
Unflatten(pairs) ==
  FoldLeft(LAMBDA root, p : IF root = Conflict THEN Conflict ELSE Put(root, p.path, p.value), Null, pairs)
----------------------------------------------------------------------------
\* diff_json: what was removed, added and changed, from the root down.
Change(path, change, after) == [path |-> path, change |-> change, after |-> after]
RECURSIVE Diff(_, _, _)
Diff(l, r, path) ==
  IF l.t = "map" /\ r.t = "map"
  THEN LET keys == SetToSeq(DOMAIN l.fields \cup DOMAIN r.fields)
           At(k) == Append(path, Key(k))
       IN  FlattenSeq([i \in DOMAIN keys |->
             IF keys[i] \notin DOMAIN r.fields THEN <<Change(At(keys[i]), "removed", Null)>>
             ELSE IF keys[i] \notin DOMAIN l.fields THEN <<Change(At(keys[i]), "added", r.fields[keys[i]])>>
             ELSE Diff(l.fields[keys[i]], r.fields[keys[i]], At(keys[i]))])
  ELSE IF l.t = "list" /\ r.t = "list"
  THEN FlattenSeq([i \in 1 .. Max({Len(l.items), Len(r.items)}) |->
         IF i > Len(r.items) THEN <<Change(Append(path, Index(i - 1)), "removed", Null)>>
         ELSE IF i > Len(l.items) THEN <<Change(Append(path, Index(i - 1)), "added", r.items[i])>>
         ELSE Diff(l.items[i], r.items[i], Append(path, Index(i - 1)))])
  ELSE IF l # r THEN <<Change(path, "changed", r)>> ELSE <<>>

\* What a reader of the difference does with it; a list that lost an index has
\* lost all that follow.
RECURSIVE Without(_, _)
Without(v, path) ==
  LET token == Head(path)
  IN  IF v.t = "list"
      THEN IF Len(path) = 1 THEN List(SubSeq(v.items, 1, Min({token.index, Len(v.items)})))
           ELSE List([v.items EXCEPT ![token.index + 1] = Without(@, Tail(path))])
      ELSE IF Len(path) = 1 THEN Map(Restrict(v.fields, DOMAIN v.fields \ {token.key}))
           ELSE Map([v.fields EXCEPT ![token.key] = Without(@, Tail(path))])
Patched(l, changes) ==
  FoldLeft(LAMBDA v, c : IF c.change = "removed" THEN Without(v, c.path) ELSE Put(v, c.path, c.after), l, changes)

Merge_LeftWins(l, r, arrays) ==
  IF l.t = "map" /\ r.t = "map" THEN Map(l.fields @@ r.fields) ELSE r
\* merge_values with arrays replaced or concatenated.
RECURSIVE Merge(_, _, _)
Merge(l, r, arrays) ==
  IF l.t = "map" /\ r.t = "map"
  THEN Map([k \in DOMAIN l.fields \cup DOMAIN r.fields |->
         IF k \notin DOMAIN r.fields THEN l.fields[k]
         ELSE IF k \notin DOMAIN l.fields THEN r.fields[k]
         ELSE Merge(l.fields[k], r.fields[k], arrays)])
  ELSE IF l.t = "list" /\ r.t = "list" /\ arrays = "concat" THEN List(l.items \o r.items)
  ELSE r
----------------------------------------------------------------------------
\* merge_schemas and infer_schema.  A schema is that of an object, of an array
\* (with the schema of its items, if it had any) or a set of type names.
ObjectSchema(props, required) == [s |-> "object", props |-> props, required |-> required]
ArraySchema(items) == [s |-> "array", items |-> items]
TypeSchema(types) == [s |-> "types", types |-> types]
TypesOf(schema) == IF schema.s = "types" THEN schema.types ELSE {schema.s}
RequiredOfBoth(a, b) == a \cap b
RECURSIVE MergeSchemas(_, _)
MergeSchemas(a, b) ==
  IF a = b THEN a
  ELSE IF a.s = "object" /\ b.s = "object"
  THEN ObjectSchema([k \in DOMAIN a.props \cup DOMAIN b.props |->
                       IF k \notin DOMAIN b.props THEN a.props[k]
                       ELSE IF k \notin DOMAIN a.props THEN b.props[k]
                       ELSE MergeSchemas(a.props[k], b.props[k])],
                    RequiredOfBoth(a.required, b.required))
  ELSE IF a.s = "array" /\ b.s = "array"
  THEN ArraySchema(IF a.items # <<>> /\ b.items # <<>> THEN <<MergeSchemas(a.items[1], b.items[1])>>
                   ELSE a.items \o b.items)
  ELSE TypeSchema(TypesOf(a) \cup TypesOf(b))
RECURSIVE Infer(_)
Infer(v) ==
  IF v.t = "map" THEN ObjectSchema([k \in DOMAIN v.fields |-> Infer(v.fields[k])], DOMAIN v.fields)
  ELSE IF v.t = "list"
  THEN IF v.items = <<>> THEN ArraySchema(<<>>)
       ELSE ArraySchema(<<FoldLeft(LAMBDA s, i : MergeSchemas(s, Infer(i)),
                                   Infer(Head(v.items)), Tail(v.items))>>)
  ELSE TypeSchema({IF v = Null THEN "null" ELSE "integer"})
InferAll(samples) == FoldLeft(LAMBDA s, v : MergeSchemas(s, Infer(v)), Infer(Head(samples)), Tail(samples))

\* What JSON Schema says of a value.
RECURSIVE Accepts(_, _)
Accepts(schema, v) ==
  CASE schema.s = "types" -> (CASE v.t = "map" -> "object" [] v.t = "list" -> "array"
                                [] v = Null -> "null" [] OTHER -> "integer") \in schema.types
    [] schema.s = "array" -> v.t = "list" /\ (schema.items # <<>> =>
                               \A i \in DOMAIN v.items : Accepts(schema.items[1], v.items[i]))
    [] OTHER -> /\ v.t = "map" /\ schema.required \subseteq DOMAIN v.fields
                /\ \A k \in DOMAIN v.fields : k \in DOMAIN schema.props /\ Accepts(schema.props[k], v.fields[k])
----------------------------------------------------------------------------
\* semver and compare_identifiers.  A version is one number and its pre-release
\* identifiers; what follows a plus sign is not compared.  An identifier is a
\* text: digits stand for a number, also with zeros before it; other texts are
\* compared as such, and there 10a is before 2a.
Number == ("2" :> 2) @@ ("02" :> 2) @@ ("10" :> 10)
Place == ("10a" :> 1) @@ ("2a" :> 2)
IsDigits(a) == a \in DOMAIN Number
Identifier == DOMAIN Number \cup DOMAIN Place
Version == [core : 1 .. 2, pre : Upto2(Identifier)]
Sign(a, b) == IF a < b THEN -1 ELSE IF a > b THEN 1 ELSE 0
\* Of two identifiers whose texts differ.
CompareOne(a, b) ==
  IF IsDigits(a) /\ IsDigits(b) THEN IF Number[a] < Number[b] THEN -1 ELSE 1
  ELSE IF IsDigits(a) # IsDigits(b) THEN IF IsDigits(a) THEN -1 ELSE 1
  ELSE IF Place[a] < Place[b] THEN -1 ELSE 1
ComparePre(l, r) ==
  IF l = <<>> /\ r = <<>> THEN 0 ELSE IF l = <<>> THEN 1 ELSE IF r = <<>> THEN -1
  ELSE LET differ == {i \in DOMAIN l \cap DOMAIN r : l[i] # r[i]}
       IN  IF differ = {} THEN Sign(Len(l), Len(r)) ELSE CompareOne(l[Min(differ)], r[Min(differ)])
Compare(v, w) == IF v.core # w.core THEN Sign(v.core, w.core) ELSE ComparePre(v.pre, w.pre)
----------------------------------------------------------------------------
Init == task = [op |-> "none"]
AskFlatten == task.op = "none" /\ \E v \in Deep : task' = [op |-> "flatten", v |-> v]
AskDiff == task.op = "none" /\ \E l, r \in Nested : task' = [op |-> "diff", l |-> l, r |-> r]
AskMerge == task.op = "none" /\ \E l, r \in Nested : task' = [op |-> "merge", l |-> l, r |-> r]
AskSchema == task.op = "none" /\ \E l, r \in Nested : task' = [op |-> "infer", samples |-> <<l, r>>]
AskSemver == task.op = "none" /\ \E v, w \in Version : task' = [op |-> "semver", v |-> v, w |-> w]
Next == AskFlatten \/ AskDiff \/ AskMerge \/ AskSchema \/ AskSemver
Spec == Init /\ [][Next]_task

\* json_unflatten is the inverse of json_flatten on everything but a bare
\* value and an empty container; json_diff is empty for equal values alone and
\* leads from the left value to the right one; json_merge keeps every leaf of
\* the right value.
ValuesSurvive ==
  /\ task.op = "flatten" /\ ~Hollow(task.v) => Unflatten(Flatten(task.v, <<>>)) = task.v
  /\ task.op = "diff" =>
       LET changes == Diff(task.l, task.r, <<>>)
       IN  (changes = <<>>) = (task.l = task.r) /\ Patched(task.l, changes) = task.r
  /\ task.op = "merge" =>
       LET merged == Merge(task.l, task.r, "replace")
       IN  \A p \in Range(Flatten(task.r, <<>>)) :
             ~Hollow(p.value) => p \in Range(Flatten(merged, <<>>))

\* The schema that json_schema_infer makes of samples accepts each of them
\* (infer_schema, merge_schemas).
SchemaAcceptsSamples ==
  task.op = "infer" => \A i \in DOMAIN task.samples : Accepts(InferAll(task.samples), task.samples[i])

\* Comparing versions is a total order: exactly one of less, equal and greater,
\* and transitive (semver, compare_identifiers).  Of versions, that is, whose
\* numeric identifiers have no leading zero, as semantic versions must not.
InOrder(v, w, others) ==
  /\ Compare(v, w) = -Compare(w, v)
  /\ (Compare(v, w) = 0) = (v = w)
  /\ \A u \in others : Compare(u, v) <= 0 /\ Compare(v, w) <= 0 => Compare(u, w) <= 0
Proper(v) == "02" \notin Range(v.pre)
VersionsAreOrdered ==
  task.op = "semver" /\ Proper(task.v) /\ Proper(task.w) =>
    InOrder(task.v, task.w, {u \in Version : Proper(u)})

\* The same of every version that SEMVER_PATTERN admits.  The code breaks it:
\* identifiers of one number and two texts are each greater than the other.
AllVersionsAreOrdered == task.op = "semver" => InOrder(task.v, task.w, Version)
=============================================================================

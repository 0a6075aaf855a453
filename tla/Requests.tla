------------------------------- MODULE Requests -------------------------------
(***************************************************************************)
(* From a request to the files its program finds: python-compute's         *)
(* python_run and python_check, image-render's render_scene and Poly Haven *)
(* import (schemas.py, artifact_io.py, scene.py, polyhaven.py and          *)
(* Sandbox.run of each).  A validator accepts the request, the artifacts   *)
(* it names are copied to /inputs one by one within a budget of bytes,     *)
(* references in a scene's text get names of their own, and the files and  *)
(* the scene are written to /work.                                         *)
(*                                                                         *)
(* The names are few: "n" and "N" differ only in case, "cand" and "cand2"  *)
(* are what staged_name tries first and second for the two artifacts, whose *)
(* identifiers begin with the same eight digits; "setup.ini" is forbidden. *)
(***************************************************************************)
EXTENDS Integers, Sequences, SequencesExt

VARIABLES phase, req,
          work, inputs,     \* /work and /inputs: a function from names to contents
          mapping,          \* reference -> the name it was staged under
          left,             \* bytes of the input budget that remain
          limits            \* the limits an installation resolved, or None

vars == <<phase, req, work, inputs, mapping, left, limits>>

None == [kind |-> "none"]
Empty == [n \in {} |-> 0]
Ids == {1, 2}
Include == 3            \* the include file an import publishes, next to nothing in bytes
Bytes(id) == IF id = Include THEN 0 ELSE id
MaxInputBytes == 3      \* MAX_ARTIFACT_INPUT_BYTES, scaled down
Lower(name) == IF name = "N" THEN "n" ELSE name
AtMostTwo(S) == {<<>>} \cup {<<a>> : a \in S} \cup {<<a, b>> : a, b \in S}
NamesOf(entries) == [k \in DOMAIN entries |-> entries[k].name]
----------------------------------------------------------------------------
\* resolve_limits of python-compute, scaled down: memory and time share the
\* bounds 2..6 and the default 4, a type check asks for 5.  A setting may be
\* anything, also text that is no number.
Lowest == 2
Highest == 6
Text == 9
Settings == 0 .. 7 \cup {Text}
Clamp(value, low, high, fallback) ==
  IF value = Text THEN fallback ELSE IF value < low THEN low ELSE IF value > high THEN high ELSE value
AtMost(a, b) == IF a < b THEN a ELSE b
AtLeast(a, b) == IF a > b THEN a ELSE b
DefaultMemory(wanted, max) == AtMost(Clamp(wanted, Lowest, Highest, 4), max)
ResolveLimits(max, default, maxCheck, defaultCheck) ==
  LET m == Clamp(max, Lowest, Highest, Highest)
      d == DefaultMemory(default, m)
      mc == Clamp(maxCheck, Lowest, Highest, m)
  IN  [max |-> m, default |-> d, maxCheck |-> mc,
       defaultCheck |-> AtMost(Clamp(defaultCheck, Lowest, Highest, AtLeast(d, 5)), mc)]
----------------------------------------------------------------------------
\* What the validators are asked.  The entries of "assets" are python_run's
\* artifactInputs, render_scene's assets and the files of an import.
Assets == AtMostTwo([name : {"n", "N", "cand", "setup.ini"}, id : Ids])
Scene == [from : {"text"}, name : {"n", "cand"}] \cup [from : {"artifact", "example"}, name : {"n"}]
References == {<<>>, <<1>>, <<2>>, <<1, 2>>, <<2, 1>>}
Run == [kind : {"run", "check"}, files : AtMostTwo({"n", "N", "cand"}), assets : Assets]
Render == [kind : {"render"}, files : AtMostTwo({"n", "cand"}), assets : Assets,
           scene : Scene, refs : References]
\* One entry of a plan: the name and the artifact whose size and MD5 it lists.
Plan == AtMostTwo([name : {"n", "N", "cand"}, id : Ids, required : BOOLEAN])
Import == [kind : {"import"}, files : {<<>>}, assets : Assets, plan : Plan]

\* validate_run: exact names, one set of them for files and artifact inputs.
ValidRun(r) == IsInjective(r.files \o NamesOf(r.assets))

\* validate_check of python-compute: at least one file and no artifacts.
ValidCheck(r) == r.files # <<>> /\ IsInjective(r.files) /\ r.assets = <<>>

\* _file_name and _scene_inputs: names are compared without their case, the
\* scene's own name among them when it has one; an example has none.
FileName(name) == name # "setup.ini"
SceneInputs(r) ==
  LET names == r.files \o NamesOf(r.assets)
                 \o (IF r.scene.from = "example" THEN <<>> ELSE <<r.scene.name>>)
  IN  /\ \A k \in DOMAIN names : FileName(names[k])
      /\ IsInjective([k \in DOMAIN names |-> Lower(names[k])])

\* validate_polyhaven and plan: the files of the request and those of the
\* listing each have distinct names; every file of the request is planned.
ValidImport(r) ==
  /\ r.assets # <<>> /\ r.plan # <<>>
  /\ \A k \in DOMAIN r.assets : FileName(r.assets[k].name)
  /\ IsInjective([k \in DOMAIN r.assets |-> Lower(r.assets[k].name)])
  /\ IsInjective([k \in DOMAIN r.plan |-> Lower(r.plan[k].name)])
  /\ \A k \in DOMAIN r.assets : \E p \in DOMAIN r.plan : r.plan[p].name = r.assets[k].name

Valid(r) ==
  CASE r.kind = "run" -> ValidRun(r)
    [] r.kind = "check" -> ValidCheck(r)
    [] r.kind = "render" -> SceneInputs(r)
    [] OTHER -> ValidImport(r)
----------------------------------------------------------------------------
Init ==
  /\ phase = "idle" /\ req = None /\ limits = None
  /\ work = Empty /\ inputs = Empty /\ mapping = Empty
  /\ left = MaxInputBytes

Resolve ==
  /\ phase = "idle" /\ limits = None
  /\ \E max, default, maxCheck, defaultCheck \in Settings :
       limits' = ResolveLimits(max, default, maxCheck, defaultCheck)
  /\ UNCHANGED <<phase, req, work, inputs, mapping, left>>

Accept ==
  /\ phase = "idle" /\ limits = None
  /\ \E r \in Run \cup Render \cup Import : Valid(r) /\ req' = r
  /\ phase' = "staging"
  /\ UNCHANGED <<work, inputs, mapping, left, limits>>

\* The call directory is removed whatever was in it.
Refuse(how) ==
  /\ phase' = how
  /\ req' = None /\ work' = Empty /\ inputs' = Empty /\ mapping' = Empty
  /\ left' = MaxInputBytes
  /\ UNCHANGED limits

\* copy_verified under a name, within what is left of the budget; a target
\* that exists is an error of its own, open(target, "xb").
Copied(id, name) ==
  /\ Bytes(id) <= left /\ name \notin DOMAIN inputs
  /\ inputs' = inputs @@ (name :> id)
  /\ left' = left - Bytes(id)
NotCopied(id, name) ==
  IF Bytes(id) <= left /\ name \in DOMAIN inputs THEN Refuse("clash") ELSE Refuse("refused")

\* stage_inputs and stage_named, one entry.
Staged == Cardinality(DOMAIN inputs) - Cardinality(DOMAIN mapping)
StageAsset ==
  /\ phase = "staging" /\ Staged < Len(req.assets)
  /\ LET e == req.assets[Staged + 1]
     IN  \/ Copied(e.id, e.name) /\ UNCHANGED <<phase, req, work, mapping, limits>>
         \/ NotCopied(e.id, e.name)

Taken_NoFiles == {Lower(n) : n \in DOMAIN inputs} \cup {Lower(req.scene.name)}
\* staged_name: the first candidate no other name takes.
Taken == {Lower(n) : n \in DOMAIN inputs} \cup {Lower(req.files[k]) : k \in DOMAIN req.files}
           \cup {Lower(req.scene.name)}
StagedName == IF "cand" \notin Taken THEN "cand" ELSE IF "cand2" \notin Taken THEN "cand2" ELSE "cand3"

\* stage_references: the artifacts the scene refers to and no asset names.
Named == {req.assets[k].id : k \in DOMAIN req.assets}
Unnamed == SelectSeq(req.refs, LAMBDA id : id \notin Named)
StageReference ==
  /\ phase = "staging" /\ req.kind = "render" /\ Staged = Len(req.assets)
  /\ Cardinality(DOMAIN mapping) < Len(Unnamed)
  /\ LET id == Unnamed[Cardinality(DOMAIN mapping) + 1]
     IN  \/ Copied(id, StagedName) /\ mapping' = mapping @@ (id :> StagedName)
            /\ UNCHANGED <<phase, req, work, limits>>
         \/ NotCopied(id, StagedName)

\* The files, each by its index, and the scene, as 0, are written and the program
\* starts; a reference to
\* an artifact that is also an asset is rewritten to the last such asset.
AllStaged ==
  /\ phase = "staging" /\ Staged = Len(req.assets)
  /\ req.kind = "render" => Cardinality(DOMAIN mapping) = Len(Unnamed)
LastNamed(id) == req.assets[Max({k \in DOMAIN req.assets : req.assets[k].id = id})].name
Start ==
  /\ AllStaged /\ req.kind # "import"
  /\ LET own == IF req.kind = "render" /\ req.scene.from # "example"
                THEN req.scene.name :> 0 ELSE Empty
         files == [n \in Range(req.files) |-> Max({k \in DOMAIN req.files : req.files[k] = n})]
     IN  work' = files @@ own
  /\ mapping' = IF req.kind # "render" THEN Empty
                ELSE mapping @@ [id \in Range(req.refs) \cap Named |-> LastNamed(id)]
  /\ phase' = "running"
  /\ UNCHANGED <<req, inputs, left, limits>>

\* verify: every file given has the size and MD5 of the listing, every
\* required one is given.
Verified ==
  \A p \in DOMAIN req.plan :
    LET e == req.plan[p]
    IN  IF e.name \in DOMAIN inputs THEN inputs[e.name] = e.id ELSE ~e.required
FinishImport ==
  /\ AllStaged /\ req.kind = "import"
  /\ IF Verified
     THEN phase' = "imported" /\ UNCHANGED <<req, work, inputs, mapping, left, limits>>
     ELSE Refuse("refused")

\* render_scene with the assets an import answered: the include, which has a
\* name of its own, and the files it needs.
RenderImported ==
  /\ phase = "imported"
  /\ \E scene \in {s \in Scene : s.from = "example"}, needed \in SUBSET DOMAIN req.assets :
       LET assets == <<[name |-> "inc", id |-> Include]>> \o SetToSeq({req.assets[k] : k \in needed})
           r == [kind |-> "render", files |-> <<>>, assets |-> assets, scene |-> scene, refs |-> <<>>]
       IN  IF SceneInputs(r)
           THEN /\ phase' = "staging" /\ req' = r /\ inputs' = Empty /\ left' = MaxInputBytes
                /\ UNCHANGED <<work, mapping, limits>>
           ELSE Refuse("clash")

Next == Resolve \/ Accept \/ StageAsset \/ StageReference \/ Start \/ FinishImport \/ RenderImported
Spec == Init /\ [][Next]_vars
----------------------------------------------------------------------------
TypeOK ==
  /\ phase \in {"idle", "staging", "running", "imported", "refused", "clash"}
  /\ left \in 0 .. MaxInputBytes
  /\ \A n \in DOMAIN inputs : inputs[n] \in Ids \cup {Include}
  /\ DOMAIN mapping \subseteq Ids

\* Every accepted name leads the program to the content it was given for: a
\* file, a scene, an asset or a reference is never overwritten or shadowed by
\* another one, no accepted request fails on a name in use, and the renderer
\* takes what an import answered (_scene_inputs, staged_name, stage_references
\* and Sandbox.run of image-render; validate_run of python-compute).
NamesLeadToContent ==
  /\ phase # "clash"
  /\ phase = "running" =>
       /\ \A k \in DOMAIN req.files : work[req.files[k]] = k
       /\ \A k \in DOMAIN req.assets : inputs[req.assets[k].name] = req.assets[k].id
       /\ req.kind = "render" =>
            /\ req.scene.from # "example" => work[req.scene.name] = 0
            /\ \A id \in Range(req.refs) : inputs[mapping[id]] = id
            /\ {Lower(n) : n \in DOMAIN work} \cap {Lower(n) : n \in DOMAIN inputs} = {}

\* An import is made of the listed bytes alone, and no call's inputs together
\* exceed the budget (verify and plan of polyhaven.py, the running totals of
\* stage_inputs and InputBudget).
InputsAreWithinBounds ==
  /\ SumFunction([n \in DOMAIN inputs |-> Bytes(inputs[n])]) <= MaxInputBytes
  /\ phase = "imported" =>
       \A n \in DOMAIN inputs : \E p \in DOMAIN req.plan :
         req.plan[p].name = n /\ req.plan[p].id = inputs[n]

\* Whatever an installation is configured with, a field that a call leaves out
\* is given a value the call could have asked for (resolve_limits against the
\* bounds of validate_run and validate_check).
DefaultsAreGrantable ==
  limits # None =>
    /\ limits.default \in Lowest .. limits.max
    /\ limits.defaultCheck \in Lowest .. limits.maxCheck
    /\ {limits.max, limits.maxCheck} \subseteq Lowest .. Highest
=============================================================================

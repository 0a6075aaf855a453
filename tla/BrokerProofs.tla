---------------------------- MODULE BrokerProofs ----------------------------
(***************************************************************************)
(* Proofs about Broker for every service, any finite number of connections *)
(* and any number of slots and of calls per minute: what a call takes, it  *)
(* gives back, whichever way it ends.                                      *)
(***************************************************************************)
EXTENDS Broker, FiniteSetTheorems, TLAPS

-----------------------------------------------------------------------------
(* The inductive invariant.                                                *)

\* What the theorems assume of the constants.
Sizes == IsFiniteSet(Calls) /\ Slots \in Nat /\ PerMinute \in Nat

\* What a call owns at each stage.
Fine(k) ==
    /\ k.stage \notin {"idle", "replying"} => k.kind \in Kinds[service]
    /\ k.stage \in {"idle", "asked", "waiting", "replying"} => k.slot = "none"
    /\ k.stage = "taken" => k.slot # "none" /\ k.kind # "polyhaven"
    /\ k.stage = "working" => k.slot # "none" \/ k.kind = "light"
    /\ k.stage \in {"staging", "staged", "running", "ended"} => k.slot # "none" /\ k.dir
    /\ k.stage \in {"waiting", "working"} => (k.dir <=> k.kind = "polyhaven")
    /\ k.stage \in {"idle", "asked", "taken", "leaving", "replying"} => ~k.dir
    /\ k.stage \notin {"staged", "running", "ended", "cleaning"} => ~k.res
    /\ k.proc => k.stage = "running"
    /\ k.stored => k.stage \in {"cleaning", "leaving", "replying"}
    /\ k.stored /\ service # "ocr" => k.ok

CallsFine == \A c \in Calls : Fine(call[c])

Counted == \A k \in Classes : free[k] + Cardinality(Holding(k)) = Capacity[k]

Purged == up /\ service # "ocr" => ~left

IInv == TypeOK /\ CallsFine /\ Counted /\ Purged

-----------------------------------------------------------------------------
(* What every step of a call comes down to.                                *)

\* The semaphores follow the call's slot.
SlotsFollow(c, new) ==
    \/ free' = free /\ new.slot = call[c].slot
    \/ \E k \in Classes :
           /\ free[k] > 0 /\ free' = [free EXCEPT ![k] = @ - 1]
           /\ call[c].slot = "none" /\ new.slot = k
    \/ \E k \in Classes :
           /\ free' = [free EXCEPT ![k] = @ + 1]
           /\ call[c].slot = k /\ new.slot = "none"

Moves(c) ==
    /\ \E new \in Call : Put(c, new) /\ Fine(new) /\ SlotsFollow(c, new)
    /\ UNCHANGED <<service, up>>
    /\ recent' \in 0..PerMinute
    /\ left' \in BOOLEAN /\ orphans' \in BOOLEAN
    /\ left' = left \/ service = "ocr"

LEMMA HoldingFinite ==
    ASSUME Sizes, NEW k
    PROVE  /\ IsFiniteSet(Holding(k)) /\ Cardinality(Holding(k)) \in Nat
           /\ IsFiniteSet(Holding(k)') /\ Cardinality(Holding(k)') \in Nat
<1>1. Holding(k) \subseteq Calls /\ Holding(k)' \subseteq Calls
  BY DEF Holding
<1>2. IsFiniteSet(Holding(k)) /\ IsFiniteSet(Holding(k)')
  BY <1>1, FS_Subset DEF Sizes
<1> QED
  BY <1>2, FS_CardinalityType

\* Semaphores that count exactly stay within their type.
LEMMA FreeType ==
    ASSUME Sizes, NEW f, f = [k \in Classes |-> f[k]],
           \A k \in Classes : f[k] \in Nat /\ f[k] <= Capacity[k]
    PROVE  f \in [Classes -> 0..(Slots + 1)]
<1>1. \A k \in Classes : f[k] \in 0..(Slots + 1)
  BY DEF Capacity, Sizes
<1> QED
  BY <1>1

LEMMA MovesKeep ==
    ASSUME Sizes, IInv, NEW c \in Calls, Moves(c)
    PROVE  IInv'
<1>1. PICK new \in Call : Put(c, new) /\ Fine(new) /\ SlotsFollow(c, new)
  BY DEF Moves
<1>2. /\ call' \in [Calls -> Call] /\ call'[c] = new
      /\ \A d \in Calls \ {c} : call'[d] = call[d]
  BY <1>1 DEF Put, IInv, TypeOK
<1>3. CallsFine'
  <2>1. \A d \in Calls : Fine(call'[d])
    BY <1>1, <1>2 DEF IInv, CallsFine
  <2> QED
    BY <2>1 DEF CallsFine, Fine, Moves
<1>4. Purged'
  BY DEF Moves, IInv, Purged
<1>5. \A k \in Classes : Cardinality(Holding(k)) \in Nat /\ free[k] \in Nat
  BY HoldingFinite DEF IInv, TypeOK, Sizes
<1>6. Counted' /\ free' = [k \in Classes |-> free'[k]] /\ \A k \in Classes : free'[k] \in Nat
  <2>1. CASE free' = free /\ new.slot = call[c].slot
    <3>1. \A k \in Classes : Holding(k)' = Holding(k)
      BY <1>2, <2>1 DEF Holding
    <3> QED
      BY <1>5, <2>1, <3>1 DEF IInv, Counted, TypeOK
  <2>2. CASE \E k \in Classes :
                 /\ free[k] > 0 /\ free' = [free EXCEPT ![k] = @ - 1]
                 /\ call[c].slot = "none" /\ new.slot = k
    <3>1. PICK k \in Classes : /\ free[k] > 0 /\ free' = [free EXCEPT ![k] = @ - 1]
                               /\ call[c].slot = "none" /\ new.slot = k
      BY <2>2
    <3>2. "none" \notin Classes
      BY DEF Classes
    <3>3. \A l \in Classes \ {k} : Holding(l)' = Holding(l)
      BY <1>2, <3>1, <3>2 DEF Holding
    <3>4. Holding(k)' = Holding(k) \cup {c} /\ c \notin Holding(k)
      BY <1>2, <3>1, <3>2 DEF Holding
    <3>5. Cardinality(Holding(k)') = Cardinality(Holding(k)) + 1
      BY <3>4, HoldingFinite, FS_AddElement
    <3>6. free'[k] = free[k] - 1 /\ \A l \in Classes \ {k} : free'[l] = free[l]
      BY <3>1 DEF IInv, TypeOK
    <3>7. Counted'
      BY <1>5, <3>3, <3>5, <3>6 DEF IInv, Counted
    <3>8. free' = [l \in Classes |-> free'[l]]
      BY <3>1 DEF IInv, TypeOK
    <3> QED
      BY <1>5, <3>1, <3>6, <3>7, <3>8
  <2>3. CASE \E k \in Classes :
                 /\ free' = [free EXCEPT ![k] = @ + 1]
                 /\ call[c].slot = k /\ new.slot = "none"
    <3>1. PICK k \in Classes : /\ free' = [free EXCEPT ![k] = @ + 1]
                               /\ call[c].slot = k /\ new.slot = "none"
      BY <2>3
    <3>2. "none" \notin Classes
      BY DEF Classes
    <3>3. \A l \in Classes \ {k} : Holding(l)' = Holding(l)
      BY <1>2, <3>1, <3>2 DEF Holding
    <3>4. Holding(k)' = Holding(k) \ {c} /\ c \in Holding(k)
      BY <1>2, <3>1, <3>2 DEF Holding
    <3>5. Cardinality(Holding(k)') = Cardinality(Holding(k)) - 1
      BY <3>4, HoldingFinite, FS_RemoveElement
    <3>6. free'[k] = free[k] + 1 /\ \A l \in Classes \ {k} : free'[l] = free[l]
      BY <3>1 DEF IInv, TypeOK
    <3>7. Counted'
      BY <1>5, <3>3, <3>5, <3>6 DEF IInv, Counted
    <3>8. free' = [l \in Classes |-> free'[l]]
      BY <3>1 DEF IInv, TypeOK
    <3> QED
      BY <1>5, <3>6, <3>7, <3>8
  <2> QED
    BY <1>1, <2>1, <2>2, <2>3 DEF SlotsFollow
<1>7. free' \in [Classes -> 0..(Slots + 1)]
  <2>1. \A k \in Classes : Cardinality(Holding(k)') \in Nat /\ Capacity[k] \in Nat
    BY HoldingFinite DEF Capacity, Sizes
  <2>2. \A k \in Classes : free'[k] \in Nat /\ free'[k] <= Capacity[k]
    BY <1>6, <2>1 DEF Counted
  <2> QED
    BY <1>6, <2>2, FreeType
<1>8. service' \in Services /\ up' \in BOOLEAN
  BY DEF Moves, IInv, TypeOK
<1>9. TypeOK'
  BY <1>2, <1>7, <1>8 DEF Moves, TypeOK
<1> QED
  BY <1>3, <1>4, <1>6, <1>9 DEF IInv
-----------------------------------------------------------------------------
(* The steps.                                                              *)

\* The call changes, and keeps its slot or the lack of one.
Keeps(c) == \E new \in Call : Put(c, new) /\ Fine(new) /\ new.slot = call[c].slot

LEMMA KeepsMoves ==
    ASSUME IInv, NEW c \in Calls, Keeps(c), UNCHANGED <<World, free>>, recent' \in 0..PerMinute
    PROVE  Moves(c)
<1>1. PICK new \in Call : Put(c, new) /\ Fine(new) /\ new.slot = call[c].slot
  BY DEF Keeps
<1>2. SlotsFollow(c, new)
  BY <1>1 DEF SlotsFollow
<1> QED
  BY <1>1, <1>2 DEF Moves, World, IInv, TypeOK

LEMMA IdleFine == Idle \in Call /\ Fine(Idle)
<1>1. "ping" \in UNION {Kinds[s] : s \in Services}
  <2>1. "compute" \in Services /\ "ping" \in Kinds["compute"]
    BY DEF Services, Kinds
  <2> QED
    BY <2>1
<1> QED
  BY <1>1 DEF Idle, Call, Fine

LEMMA IsCall ==
    ASSUME IInv, NEW c \in Calls
    PROVE  call[c] \in Call /\ Fine(call[c])
BY DEF IInv, TypeOK, CallsFine

LEMMA SayKeeps ==
    ASSUME IInv, NEW c \in Calls, call[c].slot = "none", NEW ok \in BOOLEAN, Say(c, ok)
    PROVE  Keeps(c)
<1> DEFINE new == [Idle EXCEPT !.stage = "replying", !.ok = ok]
<1>1. new \in Call /\ new.slot = "none"
  BY IdleFine DEF Idle, Call
<1>2. Fine(new)
  BY DEF Fine, Idle
<1> QED
  BY <1>1, <1>2 DEF Say, Keeps

\* A call goes to its cleaning from a stage where it has stored nothing.
Unfinished == {"waiting", "working", "staging", "staged", "ended"}

LEMMA CleaningKeeps ==
    ASSUME IInv, NEW c \in Calls, call[c].stage \in Unfinished,
           \/ Fail(c) \/ Return(c) \/ Publish(c)
           \/ service = "ocr" /\ Stores(c, FALSE)
    PROVE  Keeps(c)
<1>1. /\ call[c] \in Call /\ Fine(call[c])
      /\ call[c].kind \in Kinds[service] /\ ~call[c].proc /\ ~call[c].stored
  BY IsCall DEF Unfinished, Fine
<1>2. CASE Fail(c)
  <2>1. [call[c] EXCEPT !.stage = "cleaning", !.ok = FALSE] \in Call
    BY <1>1 DEF Call
  <2>2. Fine([call[c] EXCEPT !.stage = "cleaning", !.ok = FALSE])
    BY <1>1 DEF Call, Fine
  <2> QED
    BY <1>1, <1>2, <2>1, <2>2 DEF Fail, Keeps, Call
<1>3. CASE Return(c)
  <2>1. [call[c] EXCEPT !.stage = "cleaning", !.ok = TRUE] \in Call
    BY <1>1 DEF Call
  <2>2. Fine([call[c] EXCEPT !.stage = "cleaning", !.ok = TRUE])
    BY <1>1 DEF Call, Fine
  <2> QED
    BY <1>1, <1>3, <2>1, <2>2 DEF Return, Keeps, Call
<1>4. CASE Publish(c) \/ (service = "ocr" /\ Stores(c, FALSE))
  <2>1. PICK ok \in BOOLEAN : Stores(c, ok) /\ (service # "ocr" => ok)
    BY <1>4 DEF Publish
  <2> DEFINE new == [call[c] EXCEPT !.stage = "cleaning", !.ok = ok, !.res = FALSE,
                                    !.stored = call[c].found # "none"]
  <2>2. new \in Call
    BY <1>1 DEF Call
  <2>3. Fine(new)
    BY <1>1, <2>1 DEF Call, Fine
  <2>4. new.slot = call[c].slot /\ Put(c, new)
    BY <1>1, <2>1 DEF Stores, Call
  <2> HIDE DEF new
  <2> QED
    BY <2>2, <2>3, <2>4 DEF Keeps
<1> QED
  BY <1>2, <1>3, <1>4

\* What a service calls its requests, all of them are kinds.
LEMMA KindsAreKinds ==
    ASSUME IInv
    PROVE  Kinds[service] \subseteq UNION {Kinds[s] : s \in Services}
BY DEF IInv, TypeOK

LEMMA ConnectMoves ==
    ASSUME IInv, NEW c \in Calls, Connect(c) \/ CallerLeaves(c) \/ Reply(c)
    PROVE  Moves(c)
<1>1. call[c] \in Call /\ Fine(call[c]) /\ recent \in 0..PerMinute
  BY IsCall DEF IInv, TypeOK
<1>2. CASE Connect(c)
  <2>1. call[c].slot = "none"
    BY <1>1, <1>2 DEF Connect, At, Fine
  <2>2. PICK r \in Requests :
            IF Valid(r)
            THEN Put(c, [Idle EXCEPT !.stage = "asked", !.kind = r.kind,
                                     !.background = r.background, !.store = r.store])
            ELSE Say(c, FALSE)
    BY <1>2 DEF Connect
  <2>3. CASE Valid(r)
    <3> DEFINE new == [Idle EXCEPT !.stage = "asked", !.kind = r.kind,
                                   !.background = r.background, !.store = r.store]
    <3>1. r.kind \in Kinds[service] /\ r.background \in BOOLEAN /\ r.store \in BOOLEAN
      BY DEF Requests
    <3>2. r.kind \in UNION {Kinds[s] : s \in Services}
      BY <3>1, KindsAreKinds
    <3>3. new \in Call /\ new.slot = "none"
      BY <3>1, <3>2, IdleFine DEF Idle, Call
    <3>4. Fine(new)
      BY <3>1 DEF Idle, Fine
    <3>5. Keeps(c)
      BY <2>1, <2>2, <2>3, <3>3, <3>4 DEF Keeps
    <3> QED
      BY <1>1, <1>2, <3>5, KeepsMoves DEF Connect, Counters
  <2>4. CASE ~Valid(r)
    BY <1>1, <1>2, <2>1, <2>2, <2>4, SayKeeps, KeepsMoves DEF Connect, Counters
  <2> QED
    BY <2>3, <2>4
<1>3. CASE CallerLeaves(c)
  <2>1. [call[c] EXCEPT !.gone = TRUE] \in Call
    BY <1>1 DEF Call
  <2>2. Fine([call[c] EXCEPT !.gone = TRUE])
    BY <1>1 DEF Call, Fine
  <2>3. Keeps(c)
    BY <1>1, <1>3, <2>1, <2>2 DEF CallerLeaves, Keeps, Call
  <2> QED
    BY <1>1, <1>3, <2>3, KeepsMoves DEF CallerLeaves, Counters
<1>4. CASE Reply(c)
  <2>1. call[c].slot = "none" /\ Idle.slot = "none"
    BY <1>1, <1>4 DEF Reply, At, Fine, Idle
  <2>2. Keeps(c)
    BY <1>4, <2>1, IdleFine DEF Reply, Keeps
  <2> QED
    BY <1>1, <1>4, <2>2, KeepsMoves DEF Reply, Counters
<1> QED
  BY <1>2, <1>3, <1>4

LEMMA AdmitMoves ==
    ASSUME Sizes, IInv, NEW c \in Calls,
           ComputeAdmit(c) \/ RenderAdmit(c) \/ PolyhavenAdmit(c) \/ ProcessAdmit(c) \/ OcrAdmit(c)
    PROVE  Moves(c)
<1>1. /\ call[c] \in Call /\ Fine(call[c]) /\ recent \in 0..PerMinute
      /\ call[c].stage = "asked" /\ call[c].slot = "none" /\ call[c].kind \in Kinds[service]
      /\ ~call[c].dir /\ ~call[c].res /\ ~call[c].proc /\ ~call[c].stored
  <2>1. /\ call[c] \in Call /\ Fine(call[c]) /\ recent \in 0..PerMinute
        /\ call[c].stage = "asked"
    BY IsCall DEF IInv, TypeOK, ComputeAdmit, RenderAdmit, PolyhavenAdmit, ProcessAdmit, OcrAdmit, At
  <2> QED
    BY <2>1 DEF Fine
<1>2. ~Limited => recent + 1 \in 0..PerMinute
  BY <1>1 DEF Limited, Sizes
<1>3. Say(c, TRUE) \/ Say(c, FALSE) => Keeps(c)
  BY <1>1, SayKeeps
<1>4. ASSUME call[c].kind # "polyhaven", Go(c, "waiting")
      PROVE  Keeps(c)
  <2>1. [call[c] EXCEPT !.stage = "waiting"] \in Call
    BY <1>1 DEF Call
  <2>2. Fine([call[c] EXCEPT !.stage = "waiting"])
    BY <1>1, <1>4 DEF Call, Fine
  <2> QED
    BY <1>1, <1>4, <2>1, <2>2 DEF Go, Keeps, Call
<1>5. CASE ComputeAdmit(c)
  <2>1. call[c].kind # "polyhaven"
    BY <1>1, <1>5 DEF ComputeAdmit, Kinds
  <2>2. CASE Keeps(c) /\ UNCHANGED free /\ recent' \in 0..PerMinute
    BY <1>5, <2>2, KeepsMoves DEF ComputeAdmit
  <2>3. CASE /\ free["background"] > 0
             /\ free' = [free EXCEPT !["background"] = @ - 1]
             /\ Put(c, [call[c] EXCEPT !.stage = "working", !.slot = "background"])
             /\ UNCHANGED recent
    <3> DEFINE new == [call[c] EXCEPT !.stage = "working", !.slot = "background"]
    <3>1. new \in Call
      BY <1>1 DEF Call, Classes
    <3>2. Fine(new)
      BY <1>1, <2>1 DEF Call, Fine
    <3>3. "background" \in Classes /\ new.slot = "background"
      BY <1>1 DEF Classes, Call
    <3>4. SlotsFollow(c, new)
      BY <1>1, <2>3, <3>3 DEF SlotsFollow
    <3> QED
      BY <1>1, <1>5, <2>3, <3>1, <3>2, <3>4 DEF Moves, ComputeAdmit, World, IInv, TypeOK
  <2> QED
    BY <1>1, <1>2, <1>3, <1>4, <1>5, <2>1, <2>2, <2>3 DEF ComputeAdmit, Counters
<1>6. CASE RenderAdmit(c)
  <2>1. ASSUME call[c].kind = "light", Go(c, "working")
        PROVE  Keeps(c)
    <3>1. [call[c] EXCEPT !.stage = "working"] \in Call
      BY <1>1 DEF Call
    <3>2. Fine([call[c] EXCEPT !.stage = "working"])
      BY <1>1, <2>1 DEF Call, Fine
    <3> QED
      BY <1>1, <2>1, <3>1, <3>2 DEF Go, Keeps, Call
  <2>2. Keeps(c)
    BY <1>3, <1>4, <1>6, <2>1 DEF RenderAdmit
  <2> QED
    BY <1>1, <1>6, <2>2, KeepsMoves DEF RenderAdmit, Counters
<1>7. CASE PolyhavenAdmit(c)
  <2>1. ASSUME NEW ok \in BOOLEAN,
               Put(c, [call[c] EXCEPT !.stage = "cleaning", !.dir = TRUE, !.ok = ok])
        PROVE  Keeps(c)
    <3> DEFINE new == [call[c] EXCEPT !.stage = "cleaning", !.dir = TRUE, !.ok = ok]
    <3>1. new \in Call
      BY <1>1 DEF Call
    <3>2. Fine(new)
      BY <1>1 DEF Call, Fine
    <3> QED
      BY <1>1, <2>1, <3>1, <3>2 DEF Keeps, Call
  <2>2. ASSUME Put(c, [call[c] EXCEPT !.stage = "waiting", !.dir = TRUE])
        PROVE  Keeps(c)
    <3> DEFINE new == [call[c] EXCEPT !.stage = "waiting", !.dir = TRUE]
    <3>1. new \in Call
      BY <1>1 DEF Call
    <3>2. Fine(new)
      BY <1>1, <1>7 DEF Call, Fine, PolyhavenAdmit
    <3> QED
      BY <1>1, <2>2, <3>1, <3>2 DEF Keeps, Call
  <2>3. Keeps(c) /\ recent' \in 0..PerMinute
    BY <1>1, <1>2, <1>7, <2>1, <2>2 DEF PolyhavenAdmit
  <2> QED
    BY <1>7, <2>3, KeepsMoves DEF PolyhavenAdmit
<1>8. CASE ProcessAdmit(c)
  <2>1. call[c].kind # "polyhaven"
    BY <1>1, <1>8 DEF ProcessAdmit, Kinds
  <2>2. Keeps(c) /\ recent' \in 0..PerMinute
    BY <1>1, <1>2, <1>3, <1>4, <1>8, <2>1 DEF ProcessAdmit
  <2> QED
    BY <1>8, <2>2, KeepsMoves DEF ProcessAdmit
<1>9. CASE OcrAdmit(c)
  <2>1. CASE Keeps(c) /\ UNCHANGED free
    BY <1>1, <1>9, <2>1, KeepsMoves DEF OcrAdmit
  <2>2. CASE /\ free["gpu"] > 0 /\ free' = [free EXCEPT !["gpu"] = @ - 1]
             /\ Put(c, [call[c] EXCEPT !.stage = "staging", !.slot = "gpu", !.dir = TRUE])
    <3> DEFINE new == [call[c] EXCEPT !.stage = "staging", !.slot = "gpu", !.dir = TRUE]
    <3>1. new \in Call
      BY <1>1 DEF Call, Classes
    <3>2. Fine(new)
      BY <1>1 DEF Call, Fine
    <3>3. "gpu" \in Classes /\ new.slot = "gpu"
      BY <1>1 DEF Classes, Call
    <3>4. SlotsFollow(c, new)
      BY <1>1, <2>2, <3>3 DEF SlotsFollow
    <3> QED
      BY <1>1, <1>9, <2>2, <3>1, <3>2, <3>4 DEF Moves, OcrAdmit, World, IInv, TypeOK
  <2> QED
    BY <1>3, <1>9, <2>1, <2>2 DEF OcrAdmit
<1> QED
  BY <1>5, <1>6, <1>7, <1>8, <1>9

LEMMA SlotMoves ==
    ASSUME Sizes, IInv, NEW c \in Calls, TakeSlot(c) \/ SlotTimeout(c) \/ RenderRate(c)
    PROVE  Moves(c)
<1>1. /\ call[c] \in Call /\ Fine(call[c]) /\ recent \in 0..PerMinute
      /\ call[c].stage \in {"waiting", "taken"} /\ call[c].kind \in Kinds[service]
      /\ ~call[c].res /\ ~call[c].proc /\ ~call[c].stored
  <2>1. /\ call[c] \in Call /\ Fine(call[c]) /\ recent \in 0..PerMinute
        /\ call[c].stage \in {"waiting", "taken"}
    BY IsCall DEF IInv, TypeOK, TakeSlot, SlotTimeout, RenderRate, At
  <2> QED
    BY <2>1 DEF Fine
<1>2. CASE TakeSlot(c)
  <2>1. Wanted(c) \in {"main", "check", "import"}
    BY DEF Wanted
  <2>2. PICK w \in Classes : w = Wanted(c) /\ w # "none"
    BY <2>1 DEF Classes
  <2>3. PICK stage \in {"taken", "working"} :
            /\ stage = "taken" => call[c].kind # "polyhaven"
            /\ Put(c, [call[c] EXCEPT !.slot = w, !.stage = stage])
    BY <1>2, <2>2 DEF TakeSlot
  <2> DEFINE new == [call[c] EXCEPT !.slot = w, !.stage = stage]
  <2>4. new \in Call /\ new.slot = w
    BY <1>1 DEF Call
  <2>5. call[c].slot = "none" /\ (call[c].dir <=> call[c].kind = "polyhaven")
    BY <1>1, <1>2 DEF TakeSlot, At, Fine
  <2>6. Fine(new)
    BY <1>1, <2>2, <2>3, <2>5 DEF Call, Fine
  <2>7. SlotsFollow(c, new)
    BY <1>2, <2>2, <2>4, <2>5 DEF TakeSlot, SlotsFollow
  <2> HIDE DEF new
  <2> QED
    BY <1>1, <1>2, <2>3, <2>4, <2>6, <2>7 DEF new, Moves, TakeSlot, World, IInv, TypeOK
<1>3. CASE SlotTimeout(c)
  <2>1. call[c].stage = "waiting" /\ call[c].slot = "none"
    BY <1>1, <1>3 DEF SlotTimeout, At, Fine
  <2>2. Keeps(c)
    BY <1>3, <2>1, SayKeeps, CleaningKeeps DEF SlotTimeout, Unfinished
  <2> QED
    BY <1>1, <1>3, <2>2, KeepsMoves DEF SlotTimeout, Counters
<1>4. CASE RenderRate(c)
  <2>1. call[c].stage = "taken" /\ call[c].slot # "none" /\ ~call[c].dir /\ call[c].kind # "polyhaven"
    BY <1>1, <1>4 DEF RenderRate, At, Fine
  <2>2. ASSUME Put(c, [call[c] EXCEPT !.stage = "leaving", !.ok = FALSE])
        PROVE  Keeps(c)
    <3>1. [call[c] EXCEPT !.stage = "leaving", !.ok = FALSE] \in Call
      BY <1>1 DEF Call
    <3>2. Fine([call[c] EXCEPT !.stage = "leaving", !.ok = FALSE])
      BY <1>1, <2>1 DEF Call, Fine
    <3> QED
      BY <1>1, <2>2, <3>1, <3>2 DEF Keeps, Call
  <2>3. ASSUME Go(c, "working")
        PROVE  Keeps(c)
    <3>1. [call[c] EXCEPT !.stage = "working"] \in Call
      BY <1>1 DEF Call
    <3>2. Fine([call[c] EXCEPT !.stage = "working"])
      BY <1>1, <2>1 DEF Call, Fine
    <3> QED
      BY <1>1, <2>3, <3>1, <3>2 DEF Go, Keeps, Call
  <2>4. ~Limited => recent + 1 \in 0..PerMinute
    BY <1>1 DEF Limited, Sizes
  <2>5. Keeps(c) /\ recent' \in 0..PerMinute
    BY <1>1, <1>4, <2>2, <2>3, <2>4 DEF RenderRate
  <2> QED
    BY <1>4, <2>5, KeepsMoves DEF RenderRate
<1> QED
  BY <1>2, <1>3, <1>4

LEMMA WorkMoves ==
    ASSUME IInv, NEW c \in Calls,
           Execute(c) \/ StageInputs(c) \/ Reserve(c) \/ Launch(c) \/ ProcessWrites(c)
    PROVE  Moves(c)
<1>1. /\ call[c] \in Call /\ Fine(call[c]) /\ recent \in 0..PerMinute
      /\ call[c].kind \in Kinds[service] /\ ~call[c].stored
      /\ UNCHANGED <<World, Counters>>
  <2>1. /\ call[c] \in Call /\ Fine(call[c]) /\ recent \in 0..PerMinute
        /\ call[c].stage \in {"working", "staging", "staged", "running"}
        /\ UNCHANGED <<World, Counters>>
    BY IsCall DEF IInv, TypeOK, Execute, StageInputs, Reserve, Launch, ProcessWrites, At
  <2> QED
    BY <2>1 DEF Fine
<1>2. SUFFICES Keeps(c)
  BY <1>1, <1>2, KeepsMoves DEF Counters
<1>3. ASSUME NEW new, new \in Call, Fine(new), new.slot = call[c].slot, Put(c, new)
      PROVE  Keeps(c)
  BY <1>3 DEF Keeps
<1>4. CASE Execute(c)
  <2>1. call[c].stage = "working" /\ ~call[c].res /\ ~call[c].proc
        /\ (call[c].dir <=> call[c].kind = "polyhaven")
        /\ (call[c].slot # "none" \/ call[c].kind = "light")
    BY <1>1, <1>4 DEF Execute, At, Fine
  <2>2. ASSUME NEW ok \in BOOLEAN, call[c].kind # "polyhaven",
               Put(c, [call[c] EXCEPT !.stage = "leaving", !.ok = ok])
        PROVE  Keeps(c)
    <3> DEFINE new == [call[c] EXCEPT !.stage = "leaving", !.ok = ok]
    <3>1. new \in Call /\ new.slot = call[c].slot
      BY <1>1 DEF Call
    <3>2. Fine(new)
      BY <1>1, <2>1, <2>2 DEF Call, Fine
    <3> QED
      BY <1>3, <2>2, <3>1, <3>2
  <2>3. ASSUME call[c].kind # "light",
               Put(c, [call[c] EXCEPT !.stage = "staging", !.dir = TRUE])
        PROVE  Keeps(c)
    <3> DEFINE new == [call[c] EXCEPT !.stage = "staging", !.dir = TRUE]
    <3>1. new \in Call /\ new.slot = call[c].slot
      BY <1>1 DEF Call
    <3>2. Fine(new)
      BY <1>1, <2>1, <2>3 DEF Call, Fine
    <3> QED
      BY <1>3, <2>3, <3>1, <3>2
  <2>4. CASE ExecuteImport(c)
    <3>1. [call[c] EXCEPT !.stage = "staging"] \in Call
      BY <1>1 DEF Call
    <3>2. Fine([call[c] EXCEPT !.stage = "staging"])
      BY <1>1, <2>1, <2>4 DEF ExecuteImport, Call, Fine
    <3> QED
      BY <1>1, <2>4, <3>1, <3>2 DEF ExecuteImport, Go, Keeps, Call
  <2>5. service \in {"compute", "process"} => call[c].kind # "polyhaven"
    BY <1>1 DEF Kinds
  <2>6. CASE ExecuteCompute(c)
    BY <2>2, <2>3, <2>5, <2>6 DEF ExecuteCompute
  <2>7. CASE ExecuteRender(c)
    BY <2>2, <2>3, <2>7 DEF ExecuteRender
  <2>8. CASE ExecuteProcess(c)
    BY <2>2, <2>3, <2>5, <2>8 DEF ExecuteProcess
  <2> QED
    BY <1>4, <2>4, <2>6, <2>7, <2>8 DEF Execute
<1>5. CASE StageInputs(c)
  <2>1. call[c].stage = "staging" /\ ~call[c].res /\ ~call[c].proc /\ call[c].slot # "none"
        /\ call[c].dir
    BY <1>1, <1>5 DEF StageInputs, At, Fine
  <2>2. ASSUME Go(c, "staged")
        PROVE  Keeps(c)
    <3>1. [call[c] EXCEPT !.stage = "staged"] \in Call
      BY <1>1 DEF Call
    <3>2. Fine([call[c] EXCEPT !.stage = "staged"])
      BY <1>1, <2>1 DEF Call, Fine
    <3> QED
      BY <1>1, <2>2, <3>1, <3>2 DEF Go, Keeps, Call
  <2> QED
    BY <1>5, <2>1, <2>2, CleaningKeeps DEF StageInputs, Unfinished
<1>6. CASE Reserve(c)
  <2>1. call[c].stage = "staged"
    BY <1>6 DEF Reserve, At
  <2>2. ASSUME Put(c, [call[c] EXCEPT !.res = TRUE])
        PROVE  Keeps(c)
    <3>1. [call[c] EXCEPT !.res = TRUE] \in Call
      BY <1>1 DEF Call
    <3>2. Fine([call[c] EXCEPT !.res = TRUE])
      BY <1>1, <2>1 DEF Call, Fine
    <3> QED
      BY <1>1, <2>2, <3>1, <3>2 DEF Keeps, Call
  <2> QED
    BY <1>6, <2>1, <2>2, CleaningKeeps DEF Reserve, Unfinished
<1>7. CASE Launch(c)
  <2>1. call[c].stage = "staged" /\ call[c].slot # "none" /\ call[c].dir
    BY <1>1, <1>7 DEF Launch, At, Fine
  <2>2. ASSUME Put(c, [call[c] EXCEPT !.stage = "running", !.proc = TRUE])
        PROVE  Keeps(c)
    <3>1. [call[c] EXCEPT !.stage = "running", !.proc = TRUE] \in Call
      BY <1>1 DEF Call
    <3>2. Fine([call[c] EXCEPT !.stage = "running", !.proc = TRUE])
      BY <1>1, <2>1 DEF Call, Fine
    <3> QED
      BY <1>1, <2>2, <3>1, <3>2 DEF Keeps, Call
  <2> QED
    BY <1>7, <2>1, <2>2, CleaningKeeps DEF Launch, Unfinished
<1>8. CASE ProcessWrites(c)
  <2>1. PICK f \in {"completed", "error"} : Put(c, [call[c] EXCEPT !.found = f])
    BY <1>8 DEF ProcessWrites
  <2>2. [call[c] EXCEPT !.found = f] \in Call
    BY <1>1 DEF Call
  <2>3. Fine([call[c] EXCEPT !.found = f])
    BY <1>1 DEF Call, Fine
  <2> QED
    BY <1>1, <2>1, <2>2, <2>3 DEF Keeps, Call
<1> QED
  BY <1>4, <1>5, <1>6, <1>7, <1>8

LEMMA StoppedMoves ==
    ASSUME IInv, NEW c \in Calls,
           \/ ProcessEnds(c) \/ ComputeWatch(c) \/ RenderWatch(c) \/ WorkspaceFull(c) \/ Deadline(c)
    PROVE  Moves(c)
<1>1. PICK reason \in {"exit", "disconnected", "timeout", "workspace"} :
          call[c].stage = "running" /\ Stopped(c, reason)
  BY DEF ProcessEnds, ComputeWatch, RenderWatch, WorkspaceFull, Deadline, At
<1>2. /\ call[c] \in Call /\ Fine(call[c]) /\ recent \in 0..PerMinute
      /\ call[c].kind \in Kinds[service] /\ ~call[c].stored /\ call[c].slot # "none" /\ call[c].dir
  <2>1. call[c] \in Call /\ Fine(call[c]) /\ recent \in 0..PerMinute
    BY IsCall DEF IInv, TypeOK
  <2> QED
    BY <1>1, <2>1 DEF Fine
<1> DEFINE new == [call[c] EXCEPT !.stage = "ended", !.proc = FALSE, !.reason = reason]
<1>3. new \in Call /\ new.slot = call[c].slot
  BY <1>2 DEF Call
<1>4. Fine(new)
  BY <1>2 DEF Call, Fine
<1>5. Keeps(c) /\ UNCHANGED <<World, Counters>>
  <2>1. Put(c, new) /\ UNCHANGED <<World, Counters>>
    BY <1>1 DEF Stopped
  <2> HIDE DEF new
  <2> QED
    BY <1>3, <1>4, <2>1 DEF Keeps
<1> QED
  BY <1>2, <1>5, KeepsMoves DEF Counters

LEMMA DeliverMoves ==
    ASSUME IInv, NEW c \in Calls, Deliver(c) \/ ImportDeliver(c)
    PROVE  Moves(c)
<1>1. /\ call[c] \in Call /\ Fine(call[c]) /\ recent \in 0..PerMinute
      /\ call[c].stage \in {"staged", "ended"}
      /\ UNCHANGED <<World, Counters>>
  BY IsCall DEF IInv, TypeOK, Deliver, ImportDeliver, At
<1>2. Fail(c) \/ Return(c) \/ Publish(c) \/ (service = "ocr" /\ Stores(c, FALSE)) => Keeps(c)
  BY <1>1, CleaningKeeps DEF Unfinished
<1>3. CASE Deliver(c)
  <2>1. Keeps(c)
    BY <1>2, <1>3 DEF Deliver, ComputeDeliver, RenderDeliver, ProcessDeliver, OcrDeliver
  <2> QED
    BY <1>1, <2>1, KeepsMoves DEF Counters
<1>4. CASE ImportDeliver(c)
  <2>1. ASSUME Put(c, [call[c] EXCEPT !.stage = "cleaning", !.ok = TRUE, !.res = FALSE,
                                      !.stored = TRUE])
        PROVE  Keeps(c)
    <3> DEFINE new == [call[c] EXCEPT !.stage = "cleaning", !.ok = TRUE, !.res = FALSE,
                                      !.stored = TRUE]
    <3>1. new \in Call /\ new.slot = call[c].slot
      BY <1>1 DEF Call
    <3>2. Fine(new)
      BY <1>1 DEF Call, Fine
    <3> HIDE DEF new
    <3>3. Put(c, new)
      BY <2>1 DEF new
    <3> QED
      BY <3>1, <3>2, <3>3 DEF Keeps
  <2>2. Keeps(c)
    BY <1>2, <1>4, <2>1 DEF ImportDeliver
  <2> QED
    BY <1>1, <2>2, KeepsMoves DEF Counters
<1> QED
  BY <1>3, <1>4

LEMMA EndMoves ==
    ASSUME IInv, NEW c \in Calls,
           \/ LeaveImport(c) \/ Clean(c) \/ Leave(c)
           \/ Interrupted(c) \/ InterruptedLate(c) \/ Killed(c)
    PROVE  Moves(c)
<1>1. /\ call[c] \in Call /\ Fine(call[c]) /\ recent \in 0..PerMinute
      /\ call[c].slot \in Classes \cup {"none"} /\ "import" \in Classes /\ "none" \notin Classes
      /\ service \in Services /\ up \in BOOLEAN /\ left \in BOOLEAN /\ orphans \in BOOLEAN
  BY IsCall DEF IInv, TypeOK, Call, Classes
<1>2. CASE LeaveImport(c)
  <2> DEFINE new == [call[c] EXCEPT !.slot = "none", !.res = FALSE]
  <2>1. call[c].stage = "cleaning" /\ call[c].slot = "import"
    BY <1>2 DEF LeaveImport, At
  <2>2. new \in Call /\ new.slot = "none"
    BY <1>1 DEF Call
  <2>3. Fine(new)
    BY <1>1, <2>1 DEF Call, Fine
  <2>4. SlotsFollow(c, new)
    BY <1>1, <1>2, <2>1, <2>2 DEF LeaveImport, SlotsFollow
  <2> HIDE DEF new
  <2>5. Put(c, new)
    BY <1>2 DEF LeaveImport, new
  <2> QED
    BY <1>1, <1>2, <2>2, <2>3, <2>4, <2>5 DEF LeaveImport, Moves, World
<1>3. CASE Clean(c)
  <2> DEFINE new == [call[c] EXCEPT !.stage = "leaving", !.dir = FALSE, !.res = FALSE,
                                    !.found = "none", !.reason = "none"]
  <2>1. call[c].stage = "cleaning"
    BY <1>3 DEF Clean, At
  <2>2. new \in Call /\ new.slot = call[c].slot
    BY <1>1 DEF Call
  <2>3. Fine(new)
    BY <1>1, <2>1 DEF Call, Fine
  <2> HIDE DEF new
  <2>4. Put(c, new)
    BY <1>3 DEF Clean, new
  <2>5. Keeps(c)
    BY <2>2, <2>3, <2>4 DEF Keeps
  <2> QED
    BY <1>1, <1>3, <2>5, KeepsMoves DEF Clean, Counters
<1>4. CASE Interrupted(c)
  <2>1. PICK late \in BOOLEAN :
          /\ Put(c, [call[c] EXCEPT
                       !.stage = "cleaning", !.proc = FALSE, !.ok = FALSE,
                       !.stored = late /\ call[c].stage = "ended" /\ call[c].store /\ Rendered(c)])
          /\ orphans' = (orphans \/ (late /\ call[c].stage = "staged" /\ call[c].store))
    BY <1>4 DEF Interrupted
  <2> DEFINE stored == late /\ call[c].stage = "ended" /\ call[c].store /\ Rendered(c)
             new == [call[c] EXCEPT !.stage = "cleaning", !.proc = FALSE, !.ok = FALSE,
                                    !.stored = stored]
  <2>2. Put(c, new)
    BY <2>1
  <2>3. stored \in BOOLEAN /\ orphans' \in BOOLEAN
    BY <2>1, <1>1
  <2> HIDE DEF stored
  <2>4. /\ call[c].stage \in {"staging", "staged", "running", "ended"}
        /\ call[c].kind \in Kinds[service] /\ service = "ocr"
    BY <1>1, <1>4 DEF Interrupted, Fine
  <2>5. new \in Call /\ new.slot = call[c].slot
    BY <1>1, <2>3 DEF Call
  <2>6. Fine(new)
    BY <1>1, <2>3, <2>4 DEF Call, Fine
  <2>7. SlotsFollow(c, new)
    BY <1>4, <2>5 DEF SlotsFollow, Interrupted, Counters
  <2> HIDE DEF new
  <2> QED
    BY <1>1, <1>4, <2>2, <2>3, <2>5, <2>6, <2>7 DEF Interrupted, Counters, Moves
<1>6. CASE InterruptedLate(c)
  <2> DEFINE new == [call[c] EXCEPT !.stage = "leaving", !.dir = FALSE, !.res = FALSE, !.ok = FALSE,
                                    !.found = "none", !.reason = "none"]
  <2>1. call[c].stage \in {"cleaning", "leaving"} /\ service = "ocr"
    BY <1>6 DEF InterruptedLate
  <2>2. new \in Call /\ new.slot = call[c].slot
    BY <1>1 DEF Call
  <2>3. Fine(new)
    BY <1>1, <2>1 DEF Call, Fine
  <2>4. SlotsFollow(c, new)
    BY <1>6, <2>2 DEF SlotsFollow, InterruptedLate, Counters
  <2>5. left' \in BOOLEAN /\ orphans' \in BOOLEAN
    BY <1>1, <1>6 DEF InterruptedLate, Call
  <2> HIDE DEF new
  <2>6. Put(c, new)
    BY <1>6 DEF InterruptedLate, new
  <2> QED
    BY <1>1, <1>6, <2>1, <2>2, <2>3, <2>4, <2>5, <2>6 DEF InterruptedLate, Counters, Moves
<1>5. CASE free' = IF call[c].slot = "none" THEN free ELSE [free EXCEPT ![call[c].slot] = @ + 1]
  <2>1. ASSUME NEW new, new.slot = "none"
        PROVE  SlotsFollow(c, new)
    BY <1>1, <1>5, <2>1 DEF SlotsFollow
  <2>2. CASE Leave(c)
    <3> DEFINE new == [Idle EXCEPT !.stage = "replying", !.ok = call[c].ok,
                                   !.stored = call[c].stored]
    <3>1. new \in Call /\ new.slot = "none"
      <4>1. call[c].ok \in BOOLEAN /\ call[c].stored \in BOOLEAN
        BY <1>1 DEF Call
      <4>2. new \in Call
        BY <4>1, IdleFine DEF Call
      <4>3. Idle.slot = "none" /\ new.slot = Idle.slot
        BY DEF Idle
      <4> QED
        BY <4>2, <4>3
    <3>2. Fine(new)
      BY <1>1 DEF Idle, Fine
    <3>3. SlotsFollow(c, new)
      BY <2>1, <3>1
    <3> HIDE DEF new
    <3>4. Put(c, new)
      BY <2>2 DEF Leave, new
    <3> QED
      BY <1>1, <2>2, <3>1, <3>2, <3>3, <3>4 DEF Leave, Moves, World
  <2>3. CASE Killed(c)
    <3>1. Idle \in Call /\ Fine(Idle) /\ SlotsFollow(c, Idle)
      BY <2>1, IdleFine DEF Idle
    <3>2. left' \in BOOLEAN /\ orphans' \in BOOLEAN
      BY <1>1, <2>3 DEF Killed, Call
    <3> QED
      BY <1>1, <2>3, <3>1, <3>2 DEF Killed, Moves
  <2>4. CASE Interrupted(c) \/ InterruptedLate(c) \/ LeaveImport(c) \/ Clean(c)
    BY <1>2, <1>3, <1>4, <1>6, <2>4
  <2> QED
    BY <2>2, <2>3, <2>4
<1> QED
  BY <1>2, <1>3, <1>4, <1>5, <1>6 DEF Leave, Killed

-----------------------------------------------------------------------------
(* The broker process, and the theorems.                                   *)

\* Without a call nothing is held.
LEMMA EmptyCounted ==
    ASSUME Sizes, \A c \in Calls : call[c] = Idle, free = Capacity
    PROVE  Counted
<1>1. \A k \in Classes : Holding(k) = {}
  BY DEF Holding, Idle, Classes
<1>2. \A k \in Classes : Capacity[k] \in Nat
  BY DEF Capacity, Sizes
<1> QED
  BY <1>1, <1>2, FS_EmptySet DEF Counted

LEMMA CapacityType == Sizes => Capacity \in [Classes -> 0..(Slots + 1)]
<1> SUFFICES ASSUME Sizes, NEW k \in Classes
             PROVE  (IF k = "main" THEN Slots ELSE 1) \in 0..(Slots + 1)
  BY DEF Capacity
<1> QED
  BY DEF Sizes

LEMMA InitInv == Sizes /\ Init => IInv
<1> SUFFICES ASSUME Sizes, Init
             PROVE  IInv
  OBVIOUS
<1>1. \A c \in Calls : call[c] = Idle
  BY DEF Init
<1>2. CallsFine
  BY <1>1, IdleFine DEF CallsFine
<1>3. Counted
  BY <1>1, EmptyCounted DEF Init
<1>4. Purged
  BY DEF Purged, Init
<1>5. call \in [Calls -> Call]
  BY IdleFine DEF Init
<1>6. free \in [Classes -> 0..(Slots + 1)]
  BY CapacityType DEF Init
<1>7. recent \in 0..PerMinute
  BY DEF Init, Sizes
<1>8. service \in Services /\ up \in BOOLEAN /\ left \in BOOLEAN /\ orphans \in BOOLEAN
  BY DEF Init
<1> QED
  BY <1>2, <1>3, <1>4, <1>5, <1>6, <1>7, <1>8 DEF IInv, TypeOK

LEMMA CrashInv ==
    ASSUME Sizes, IInv, Crash
    PROVE  IInv'
<1>1. /\ call' = [c \in Calls |-> Idle] /\ free' = Capacity /\ recent' = 0
      /\ up' = FALSE /\ service' = service
  BY DEF Crash
<1>2. left' \in BOOLEAN /\ orphans' \in BOOLEAN
  BY DEF Crash, IInv, TypeOK
<1>3. \A c \in Calls : call'[c] = Idle
  BY <1>1
<1>4. CallsFine'
  <2>1. Fine(Idle)'
    BY DEF Fine, Idle
  <2> QED
    BY <1>3, <2>1 DEF CallsFine, Fine
<1>5. Counted'
  <2>1. \A k \in Classes : Holding(k)' = {}
    BY <1>3 DEF Holding, Idle, Classes
  <2>2. \A k \in Classes : Capacity[k] \in Nat
    BY DEF Capacity, Sizes
  <2> QED
    BY <1>1, <2>1, <2>2, FS_EmptySet DEF Counted
<1>6. TypeOK'
  <2>1. call' \in [Calls -> Call] /\ free' \in [Classes -> 0..(Slots + 1)] /\ recent' \in 0..PerMinute
    BY <1>1, IdleFine, CapacityType DEF Sizes
  <2>2. service' \in Services /\ up' \in BOOLEAN
    BY <1>1 DEF IInv, TypeOK
  <2> QED
    BY <1>2, <2>1, <2>2 DEF TypeOK
<1>7. Purged'
  BY <1>1 DEF Purged
<1> QED
  BY <1>4, <1>5, <1>6, <1>7 DEF IInv

LEMMA WorldInv ==
    ASSUME Sizes, IInv, Forget \/ Boot \/ CollectReservations
    PROVE  IInv'
<1>1. UNCHANGED <<service, call, free>> /\ recent' \in 0..PerMinute
      /\ up' \in BOOLEAN /\ left' \in BOOLEAN /\ orphans' \in BOOLEAN
  <2>1. recent > 0 => recent - 1 \in 0..PerMinute
    BY DEF IInv, TypeOK, Sizes
  <2>2. CASE Forget
    BY <2>1, <2>2 DEF Forget, World, IInv, TypeOK
  <2>3. CASE Boot \/ CollectReservations
    BY <2>3 DEF Boot, CollectReservations, Counters, IInv, TypeOK
  <2> QED
    BY <2>2, <2>3
<1>2. TypeOK'
  BY <1>1 DEF IInv, TypeOK
<1>3. CallsFine' /\ Counted'
  BY <1>1 DEF IInv, CallsFine, Fine, Counted, Holding
<1>4. Purged'
  BY DEF IInv, Purged, Forget, Boot, CollectReservations, World
<1> QED
  BY <1>2, <1>3, <1>4 DEF IInv

LEMMA NextInv ==
    ASSUME Sizes
    PROVE  IInv /\ [Next]_vars => IInv'
<1> SUFFICES ASSUME IInv, [Next]_vars
             PROVE  IInv'
  OBVIOUS
<1>1. ASSUME NEW c \in Calls,
             \/ Connect(c) \/ CallerLeaves(c) \/ Thread(c) \/ Watch(c)
             \/ ProcessWrites(c) \/ ProcessEnds(c) \/ Deadline(c) \/ WorkspaceFull(c)
             \/ Interrupted(c) \/ InterruptedLate(c) \/ Killed(c)
      PROVE  Moves(c)
  BY <1>1, ConnectMoves, AdmitMoves, SlotMoves, WorkMoves, StoppedMoves, DeliverMoves, EndMoves
     DEF Thread, Watch
<1>2. CASE Next
  BY <1>1, <1>2, MovesKeep, CrashInv, WorldInv DEF Next
<1>3. CASE UNCHANGED vars
  BY <1>3 DEF vars, IInv, TypeOK, CallsFine, Fine, Counted, Holding, Purged
<1> QED
  BY <1>2, <1>3

\* For any finite number of connections: what a call owns at each stage, that the
\* semaphores count the calls that hold them, and that what dead calls left is purged
\* before a connection is accepted, hold in every reachable state.
THEOREM Invariance ==
    ASSUME Sizes
    PROVE  Spec => []IInv
<1>1. Init => IInv
  BY InitInv
<1>2. IInv /\ [Next]_vars => IInv'
  BY NextInv
<1> QED
  BY <1>1, <1>2, PTL DEF Spec

\* Every variable keeps to its type.
THEOREM TypeCorrect ==
    ASSUME Sizes
    PROVE  Spec => []TypeOK
<1>1. IInv => TypeOK
  BY DEF IInv
<1> QED
  BY <1>1, Invariance, PTL

\* The `finally` blocks of handle(): each semaphore has exactly what its calls do not hold,
\* and a sandbox runs only in a call with a slot and a directory.
THEOREM SlotsAreExact ==
    ASSUME Sizes
    PROVE  Spec => []SlotsExact
<1>1. IInv => SlotsExact
  BY DEF IInv, CallsFine, Fine, Counted, SlotsExact
<1> QED
  BY <1>1, Invariance, PTL

\* The `finally` blocks of run() and the purge at the start: while a broker is up only the
\* calls being served own a directory or a process, and a call that has ended, in
\* whichever way, owns no reservation.  (Those of a crash are the store's to collect.)
THEOREM NothingIsLeft ==
    ASSUME Sizes
    PROVE  Spec => []NothingLeft
<1>1. IInv => NothingLeft
  BY DEF IInv, CallsFine, Fine, Purged, NothingLeft
<1> QED
  BY <1>1, Invariance, PTL

\* In the three brokers storing the output is the last thing that can fail: a call that
\* ends in an exception has stored nothing.
THEOREM ErrorsStoreNothing ==
    ASSUME Sizes
    PROVE  Spec => []ErrorStoresNothing
<1>1. IInv => ErrorStoresNothing
  BY DEF IInv, CallsFine, Fine, ErrorStoresNothing
<1> QED
  BY <1>1, Invariance, PTL
=============================================================================

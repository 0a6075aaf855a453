------------------------ MODULE ModuleManagerProofs ------------------------
(***************************************************************************)
(* Proofs about ModuleManager for every set of nodes and operations, every *)
(* kind of module and every number of scripts cut off: the gate lets one   *)
(* mutation in at a time, and background calls keep their directory.       *)
(***************************************************************************)
EXTENDS MCModules, TLAPS

-----------------------------------------------------------------------------
(* The inductive invariant.                                                *)

Queued(m) == op[m].pc = "queue"

\* The mutation that is inside the gate, or that may enter it next.
Ready(m) == Inside(m) \/ (Queued(m) /\ Resolved(op[m].prev))

\* At most one mutation is ready.
OneReady == \A m, p \in Ops : Ready(m) /\ Ready(p) => m = p

\* No two mutations wait for the same one.
OneSuccessor ==
    \A m, p \in Ops :
        /\ Queued(m) /\ Queued(p)
        /\ op[m].prev = op[p].prev /\ ~Resolved(op[m].prev)
        => m = p

\* The end of the line is waiting or inside, and nobody waits for it; without
\* an end nobody is ready.
TailIsLast ==
    /\ tail \in Ops => /\ Queued(tail) \/ Inside(tail)
                       /\ \A m \in Ops : Queued(m) => op[m].prev # tail
    /\ tail \notin Ops => \A m \in Ops : ~Ready(m)

\* What a mutation waits for has been in the line.
WaitsForMutation ==
    \A m \in Ops : Queued(m) /\ op[m].prev \in Ops =>
        Queued(op[m].prev) \/ Inside(op[m].prev) \/ Released(op[m].prev)

GateInv == OneReady /\ OneSuccessor /\ TailIsLast /\ WaitsForMutation

\* A background call from its selection to its end.
Pending(m) ==
    op[m].kind = "call" /\ (op[m].pc = "submit" \/ op[m].work \in {"queued", "calling"})

\* An operation that has begun names its node; what a node does for an
\* operation belongs to its kind.
OpOK(m) ==
    /\ op[m].pc # "idle" => op[m].node \in Nodes
    /\ op[m].pc \in {"idle", "outdated", "select", "submit"} => op[m].work = None
    /\ op[m].kind = "call" => op[m].pc \in {"select", "submit", "done"}
    /\ op[m].pc \in {"select", "submit"} => op[m].kind = "call"
    /\ op[m].pc = "inspect" => op[m].kind = "uninstall"
    /\ op[m].work \in Removals => op[m].kind = "uninstall"
    /\ op[m].kind = "call" => op[m].work \notin Scripts
    /\ op[m].work = "calling" => op[m].kind = "call"
    /\ Pending(m) => manifest.durable

Located == \A m \in Ops : OpOK(m)

\* The lock of the resource key.
OneAtWork ==
    manifest.durable =>
        \A m, p \in Ops :
            /\ op[m].work \in Scripts \cup {"calling"}
            /\ op[p].work \in Scripts \cup {"calling"}
            /\ op[m].node = op[p].node
            => m = p

Uninstalled(n) ==
    \E m \in Ops : op[m].kind = "uninstall" /\ op[m].node = n /\ op[m].work # None

\* A call at work finds its directory, and an old one also a link that does not name
\* the version an update has brought.
Prepared(c) ==
    \/ Uninstalled(op[c].node)
    \/ /\ op[c].work = "calling" => op[c].ver \in node[op[c].node].dirs
       /\ op[c].ver # Current => op[c].work = "calling" /\ node[op[c].node].link # Current

CallInv ==
    \A c \in Ops : Pending(c) => Prepared(c)

IInv == TypeOK /\ GateInv /\ Located /\ OneAtWork /\ CallInv
-----------------------------------------------------------------------------
(* The gate.                                                               *)

OthersStay(m) == \A p \in Ops \ {m} : op'[p] = op[p]

\* The four things a step may mean to the gate.
Still ==
    /\ tail' = tail
    /\ \A m \in Ops : /\ Queued(m)' <=> Queued(m)
                      /\ Inside(m)' <=> Inside(m)
                      /\ Released(m) => Released(m)'
                      /\ Queued(m) => op'[m].prev = op[m].prev

Joins(m) ==
    /\ ~Queued(m) /\ ~Inside(m) /\ ~Released(m)
    /\ Queued(m)' /\ op'[m].prev = tail
    /\ tail' = m
    /\ OthersStay(m)

Enters(m) ==
    /\ Queued(m) /\ Resolved(op[m].prev)
    /\ Inside(m)'
    /\ UNCHANGED tail
    /\ OthersStay(m)

Leaves(m) ==
    /\ Inside(m)
    /\ Released(m)'
    /\ tail' = IF tail = m THEN None ELSE tail
    /\ OthersStay(m)

\* The places of an operation exclude each other.
LEMMA Places ==
    ASSUME NEW m \in Ops
    PROVE  /\ ~(Queued(m) /\ Inside(m)) /\ ~(Queued(m) /\ Released(m)) /\ ~(Inside(m) /\ Released(m))
           /\ (~(Queued(m) /\ Inside(m)) /\ ~(Queued(m) /\ Released(m)) /\ ~(Inside(m) /\ Released(m)))'
BY DEF Queued, Inside, Released

LEMMA StillKeeps ==
    ASSUME GateInv, Still, tail \in Ops \cup {None}
    PROVE  GateInv'
<1>1. ASSUME NEW m \in Ops, Queued(m)
      PROVE  Resolved(op[m].prev)' <=> Resolved(op[m].prev)
  <2>1. op'[m].prev = op[m].prev
    BY <1>1 DEF Still
  <2>2. CASE op[m].prev \in Ops
    <3>1. PICK p \in Ops : p = op[m].prev
      BY <2>2
    <3>2. Queued(p) \/ Inside(p) \/ Released(p)
      BY <1>1, <3>1 DEF GateInv, WaitsForMutation
    <3>3. Released(p)' <=> Released(p)
      BY <3>2, Places DEF Still
    <3> QED
      BY <2>1, <3>1, <3>3 DEF Resolved, Released
  <2> QED
    BY <2>1, <2>2 DEF Resolved
<1>2. \A m \in Ops : Ready(m)' <=> Ready(m)
  BY <1>1 DEF Ready, Still
<1>3. OneReady'
  BY <1>2 DEF GateInv, OneReady
<1>4. OneSuccessor'
  BY <1>1 DEF GateInv, OneSuccessor, Still
<1>5. TailIsLast'
  BY <1>2 DEF GateInv, TailIsLast, Still
<1>6. WaitsForMutation'
  BY DEF GateInv, WaitsForMutation, Still
<1> QED
  BY <1>3, <1>4, <1>5, <1>6 DEF GateInv

LEMMA JoinsKeeps ==
    ASSUME GateInv, tail \in Ops \cup {None}, NEW m \in Ops, Joins(m)
    PROVE  GateInv'
<1>1. \A p \in Ops \ {m} : /\ Queued(p)' <=> Queued(p)
                           /\ Inside(p)' <=> Inside(p)
                           /\ Released(p)' <=> Released(p)
                           /\ op'[p].prev = op[p].prev
  BY DEF Joins, OthersStay, Queued, Inside, Released
<1>2. ~Inside(m)' /\ ~Released(m)'
  BY Places DEF Joins
<1>3. tail # m
  BY DEF Joins, GateInv, TailIsLast
<1>4. \A p \in Ops : Queued(p) => op[p].prev # m
  BY DEF Joins, GateInv, WaitsForMutation
<1>5. \A p \in Ops \ {m} : Queued(p) => (Resolved(op[p].prev)' <=> Resolved(op[p].prev))
  BY <1>1, <1>4 DEF Resolved
<1>6. \A p \in Ops \ {m} : Ready(p)' <=> Ready(p)
  BY <1>1, <1>5 DEF Ready
<1>7. Ready(m)' => tail \notin Ops
  <2>1. SUFFICES ASSUME tail \in Ops
                 PROVE  ~Ready(m)'
    OBVIOUS
  <2>2. PICK t \in Ops : t = tail
    BY <2>1
  <2>3. ~Released(t)
    BY <2>2, Places DEF GateInv, TailIsLast
  <2>4. ~Released(t)'
    BY <1>1, <1>3, <2>2, <2>3
  <2> QED
    BY <1>2, <2>2, <2>4 DEF Ready, Resolved, Released, Joins
<1>8. OneReady'
  <2>1. \A p \in Ops \ {m} : ~(Ready(p)' /\ Ready(m)')
    BY <1>6, <1>7 DEF GateInv, TailIsLast
  <2> QED
    BY <1>6, <2>1 DEF GateInv, OneReady
<1>9. OneSuccessor'
  <2>1. \A p \in Ops \ {m} : Queued(p) => op[p].prev # tail \/ tail \notin Ops
    BY DEF GateInv, TailIsLast
  <2>2. \A p \in Ops \ {m} : Queued(p)' /\ op'[p].prev = op'[m].prev => Resolved(op[m].prev)'
    BY <1>1, <2>1 DEF Joins, Resolved
  <2> QED
    BY <1>1, <1>5, <2>2 DEF GateInv, OneSuccessor
<1>10. TailIsLast'
  BY <1>1, <1>3, <1>4 DEF Joins, TailIsLast
<1>11. WaitsForMutation'
  <2>1. \A t \in Ops : t = tail => Queued(t)' \/ Inside(t)'
    BY <1>1, <1>3 DEF GateInv, TailIsLast
  <2>2. \A p \in Ops \ {m} : op[p].prev \in Ops /\ Queued(p) =>
            \A t \in Ops : t = op[p].prev => Queued(t)' \/ Inside(t)' \/ Released(t)'
    BY <1>1, <1>4 DEF GateInv, WaitsForMutation
  <2>3. \A p, t \in Ops : Queued(p)' /\ t = op'[p].prev => Queued(t)' \/ Inside(t)' \/ Released(t)'
    BY <1>1, <2>1, <2>2 DEF Joins
  <2> QED
    BY <2>3 DEF WaitsForMutation, Queued, Inside, Released
<1> QED
  BY <1>8, <1>9, <1>10, <1>11 DEF GateInv

LEMMA EntersKeeps ==
    ASSUME GateInv, tail \in Ops \cup {None}, NEW m \in Ops, Enters(m)
    PROVE  GateInv'
<1>1. \A p \in Ops \ {m} : /\ Queued(p)' <=> Queued(p)
                           /\ Inside(p)' <=> Inside(p)
                           /\ op'[p].prev = op[p].prev
  BY DEF Enters, OthersStay, Queued, Inside
<1>2. \A p \in Ops : Released(p)' <=> Released(p)
  BY Places DEF Enters, OthersStay, Released
<1>3. ~Queued(m)' /\ Ready(m) /\ Ready(m)'
  BY Places DEF Enters, Ready
<1>4. \A p \in Ops : Ready(p)' <=> Ready(p)
  BY <1>1, <1>2, <1>3 DEF Ready, Resolved
<1>5. OneReady'
  BY <1>4 DEF GateInv, OneReady
<1>6. OneSuccessor'
  BY <1>1, <1>2, <1>3 DEF GateInv, OneSuccessor, Resolved
<1>7. TailIsLast'
  BY <1>1, <1>3, <1>4 DEF GateInv, TailIsLast, Enters
<1>8. WaitsForMutation'
  BY <1>1, <1>2, <1>3 DEF GateInv, WaitsForMutation, Enters
<1> QED
  BY <1>5, <1>6, <1>7, <1>8 DEF GateInv

LEMMA LeavesKeeps ==
    ASSUME GateInv, tail \in Ops \cup {None}, NEW m \in Ops, Leaves(m)
    PROVE  GateInv'
<1>1. \A p \in Ops \ {m} : /\ Queued(p)' <=> Queued(p)
                           /\ Inside(p)' <=> Inside(p)
                           /\ Released(p)' <=> Released(p)
                           /\ op'[p].prev = op[p].prev
  BY DEF Leaves, OthersStay, Queued, Inside, Released
<1>2. ~Queued(m) /\ ~Inside(m)' /\ ~Queued(m)' /\ ~Released(m) /\ Ready(m) /\ ~Ready(m)'
  BY Places DEF Leaves, Ready
<1>3. \A p \in Ops \ {m} : Ready(p)' => Queued(p) /\ op[p].prev = m
  <2>1. SUFFICES ASSUME NEW p \in Ops \ {m}, Ready(p)'
                 PROVE  Queued(p) /\ op[p].prev = m
    OBVIOUS
  <2>2. ~Ready(p)
    BY <1>2 DEF GateInv, OneReady
  <2>3. Queued(p) /\ Resolved(op[p].prev)' /\ ~Resolved(op[p].prev)
    BY <1>1, <2>1, <2>2 DEF Ready
  <2> QED
    BY <1>1, <2>3 DEF Resolved
<1>4. OneReady'
  BY <1>2, <1>3 DEF GateInv, OneReady, OneSuccessor, Resolved
<1>5. \A p \in Ops : ~Resolved(p)' => ~Resolved(p)
  BY <1>1, <1>2 DEF Resolved
<1>6. OneSuccessor'
  <2>1. SUFFICES ASSUME NEW p \in Ops, NEW q \in Ops, Queued(p)', Queued(q)',
                        op'[p].prev = op'[q].prev, ~Resolved(op[p].prev)'
                 PROVE  p = q
    BY DEF OneSuccessor
  <2>2. Queued(p) /\ Queued(q) /\ op[p].prev = op[q].prev /\ op'[p].prev = op[p].prev
    BY <1>1, <1>2, <2>1
  <2>3. ~Resolved(op[p].prev)
    BY <1>5, <2>1, <2>2 DEF Resolved
  <2> QED
    BY <2>2, <2>3 DEF GateInv, OneSuccessor
<1>7. TailIsLast'
  <2>1. CASE tail = m
    <3>1. tail' \notin Ops
      BY <2>1, OpsAssumption DEF Leaves
    <3>2. \A p \in Ops : ~Ready(p)'
      BY <1>2, <1>3, <2>1 DEF GateInv, TailIsLast
    <3> QED
      BY <3>1, <3>2 DEF TailIsLast
  <2>2. CASE tail # m
    <3>1. tail' = tail /\ tail \in Ops
      BY <1>2, <2>2 DEF Leaves, GateInv, TailIsLast
    <3> QED
      BY <1>1, <1>2, <2>2, <3>1 DEF GateInv, TailIsLast
  <2> QED
    BY <2>1, <2>2
<1>8. WaitsForMutation'
  <2>1. Released(m)'
    BY DEF Leaves
  <2> QED
    BY <1>1, <1>2, <2>1 DEF GateInv, WaitsForMutation
<1> QED
  BY <1>4, <1>6, <1>7, <1>8 DEF GateInv

\* Each step means one of these to the gate.
LEMMA GateStep ==
    ASSUME TypeOK, GateInv, Next
    PROVE  Still \/ \E m \in Ops : Joins(m) \/ Enters(m) \/ Leaves(m)
<1> USE DEF TypeOK, OpState, Still, Joins, Enters, Leaves, OthersStay, Queued, Inside, Released, Mutations
<1>1. PICK m \in Ops : (\E k \in Kinds, n \in Nodes : Arrive(m, k, n)) \/ Proceed(m) \/ Work(m)
  BY DEF Next
<1>2. CASE \E k \in Kinds, n \in Nodes : Arrive(m, k, n)
  <2>1. PICK k \in Kinds, n \in Nodes : Arrive(m, k, n)
    BY <1>2
  <2>2. CASE k \in {"update", "call"}
    <3>1. Still
      BY <2>1, <2>2 DEF Arrive
    <3> QED
      BY <3>1
  <2>3. CASE k \notin {"update", "call"}
    <3>1. op[m].pc = "idle" /\ Enqueue(m, k, n)
      BY <2>1, <2>3 DEF Arrive
    <3>2. Joins(m)
      BY <3>1 DEF Enqueue, Idle
    <3> QED
      BY <3>2
  <2> QED
    BY <2>2, <2>3
<1>3. CASE Proceed(m)
  <2>1. CASE Outdated(m)
    <3>1. CASE Enqueue(m, "update", op[m].node)
      <4>1. Joins(m)
        BY <2>1, <3>1 DEF Outdated, Enqueue, Idle
      <4> QED
        BY <4>1
    <3>2. CASE op' = [op EXCEPT ![m].pc = "done"] /\ UNCHANGED tail
      <4>1. Still
        BY <2>1, <3>2 DEF Outdated
      <4> QED
        BY <4>1
    <3> QED
      BY <2>1, <3>1, <3>2 DEF Outdated
  <2>2. CASE Enter(m)
    <3>1. Enters(m)
      BY <2>2 DEF Enter
    <3> QED
      BY <3>1
  <2>3. CASE Refused(m)
    <3>1. Leaves(m)
      BY <2>3 DEF Refused, Leave
    <3> QED
      BY <3>1
  <2>4. CASE Place(m)
    <3>1. Still
      BY <2>4 DEF Place
    <3> QED
      BY <3>1
  <2>5. CASE Submit(m)
    <3>1. Leaves(m)
      BY <2>5 DEF Submit
    <3> QED
      BY <3>1
  <2>6. CASE RunDirect(m)
    <3>1. Still
      BY <2>6 DEF RunDirect
    <3> QED
      BY <3>1
  <2>7. CASE Returned(m)
    <3>1. Leaves(m)
      BY <2>7 DEF Returned, Leave
    <3> QED
      BY <3>1
  <2>8. CASE GivenUp(m)
    <3>1. Leaves(m)
      BY <2>8 DEF GivenUp, Leave
    <3> QED
      BY <3>1
  <2>9. CASE JobWaited(m)
    <3>1. Still
      BY <2>9 DEF JobWaited
    <3> QED
      BY <3>1
  <2>10. CASE Clean(m)
    <3>1. Still
      BY <2>10 DEF Clean
    <3> QED
      BY <3>1
  <2>11. CASE Inspect(m)
    <3>1. Still
      BY <2>11 DEF Inspect
    <3> QED
      BY <3>1
  <2>12. CASE Look(m)
    <3>1. Still
      BY <2>12 DEF Look
    <3> QED
      BY <3>1
  <2>13. CASE Wipe(m)
    <3>1. Leaves(m)
      BY <2>13 DEF Wipe, Leave
    <3> QED
      BY <3>1
  <2>14. CASE Select(m)
    <3>1. Still
      BY <2>14 DEF Select
    <3> QED
      BY <3>1
  <2>15. CASE SubmitCall(m)
    <3>1. Still
      BY <2>15 DEF SubmitCall
    <3> QED
      BY <3>1
  <2> QED
    BY <1>3, <2>1, <2>2, <2>3, <2>4, <2>5, <2>6, <2>7, <2>8, <2>9, <2>10, <2>11, <2>12,
       <2>13, <2>14, <2>15 DEF Proceed
<1>4. CASE Work(m)
  <2>1. tail' = tail /\ \A p \in Ops : op'[p].pc = op[p].pc /\ op'[p].prev = op[p].prev
    <3>1. CASE Start(m) \/ CallEnds(m)
      BY <3>1 DEF Start, CallEnds
    <3>2. CASE Copy(m)
      BY <3>2 DEF Copy
    <3>3. CASE Describe(m) \/ Activate(m)
      BY <3>3 DEF Describe, Complete, Activate
    <3>4. CASE RollBack(m) \/ Removal(m) \/ Cut(m)
      BY <3>4 DEF RollBack, Removal, Cut
    <3> QED
      BY <1>4, <3>1, <3>2, <3>3, <3>4 DEF Work
  <2> QED
    BY <2>1
<1> QED
  BY <1>1, <1>2, <1>3, <1>4

LEMMA GateKept ==
    ASSUME TypeOK, GateInv, [Next]_vars
    PROVE  GateInv'
<1>1. CASE Next
  <2>1. CASE Still
    BY <2>1, StillKeeps DEF TypeOK
  <2>2. ASSUME NEW m \in Ops, Joins(m) \/ Enters(m) \/ Leaves(m)
        PROVE  GateInv'
    BY <2>2, JoinsKeeps, EntersKeeps, LeavesKeeps DEF TypeOK
  <2> QED
    BY <1>1, <2>1, <2>2, GateStep
<1>2. CASE UNCHANGED vars
  <2>1. Still
    BY <1>2 DEF vars, Still, Queued, Inside, Released
  <2> QED
    BY <2>1, StillKeeps DEF TypeOK
<1> QED
  BY <1>1, <1>2

-----------------------------------------------------------------------------
(* Types, and what belongs to an operation.                                *)

\* An operation that does something names its node.
LEMMA NodeKnown ==
    ASSUME Located, NEW m \in Ops, op[m].work # None \/ op[m].pc # "idle"
    PROVE  op[m].node \in Nodes
BY DEF Located, OpOK

LEMMA IdleType == Idle \in OpState
BY DEF Idle, OpState

LEMMA OpUpdate ==
    ASSUME op \in [Ops -> OpState], NEW m \in Ops, NEW r \in OpState, op' = [op EXCEPT ![m] = r]
    PROVE  op' \in [Ops -> OpState]
OBVIOUS

LEMMA NodeUpdate ==
    ASSUME node \in [Nodes -> NodeState], NEW n \in Nodes, NEW r \in NodeState, node' = [node EXCEPT ![n] = r]
    PROVE  node' \in [Nodes -> NodeState]
OBVIOUS

LEMMA TypeKept ==
    ASSUME TypeOK, Located, Next
    PROVE  TypeOK'
<1>1. /\ op \in [Ops -> OpState]
      /\ node \in [Nodes -> NodeState]
      /\ tail \in Ops \cup {None}
  BY DEF TypeOK
<1>2. PICK m \in Ops : (\E k \in Kinds, n \in Nodes : Arrive(m, k, n)) \/ Proceed(m) \/ Work(m)
  BY DEF Next
<1>3. op[m] \in OpState
  BY <1>1, <1>2
<1>4. CASE \E k \in Kinds, n \in Nodes : Arrive(m, k, n)
  <2>1. PICK k \in Kinds, n \in Nodes : Arrive(m, k, n)
    BY <1>4
  <2>2. CASE k \in {"update", "call"}
    <3>1. [op[m] EXCEPT !.kind = "update", !.node = n, !.pc = "outdated"] \in OpState
      BY <1>3 DEF OpState, Mutations
    <3>4. tail \in Ops \cup {None}
      BY <1>1
    <3>5. [op[m] EXCEPT !.kind = "call", !.node = n, !.pc = "select", !.prev = tail] \in OpState
      BY <1>3, <3>4 DEF OpState
    <3>2. \/ op' = [op EXCEPT ![m] = [op[m] EXCEPT !.kind = "update", !.node = n, !.pc = "outdated"]]
          \/ op' = [op EXCEPT ![m] = [op[m] EXCEPT !.kind = "call", !.node = n, !.pc = "select", !.prev = tail]]
      BY <2>1, <2>2 DEF Arrive
    <3>3. op' \in [Ops -> OpState]
      BY <1>1, <3>1, <3>2, <3>5, OpUpdate
    <3> QED
      BY <2>1, <2>2, <3>3 DEF Arrive, TypeOK
  <2>3. CASE k \notin {"update", "call"}
    <3>1. Enqueue(m, k, n) /\ UNCHANGED <<manifest, node, cuts>>
      BY <2>1, <2>3 DEF Arrive
    <3>2. [Idle EXCEPT !.kind = k, !.node = n, !.pc = "queue", !.prev = tail] \in OpState
      BY <1>1, IdleType, KindsAssumption DEF OpState, Mutations
    <3>3. op' \in [Ops -> OpState]
      BY <1>1, <3>1, <3>2, OpUpdate DEF Enqueue
    <3> QED
      BY <3>1, <3>3 DEF Enqueue, TypeOK
  <2> QED
    BY <2>1, <2>2, <2>3
<1>5. CASE Proceed(m)
  <2>1. CASE Outdated(m)
    <3>1. CASE Enqueue(m, "update", op[m].node)
      <4>1. op[m].node \in Nodes \cup {None} /\ tail \in Ops \cup {None}
        BY <1>1, <1>3 DEF OpState
      <4>2. [Idle EXCEPT !.kind = "update", !.node = op[m].node, !.pc = "queue", !.prev = tail] \in OpState
        BY <4>1, IdleType DEF OpState, Mutations
      <4>3. op' \in [Ops -> OpState]
        BY <1>1, <3>1, <4>2, OpUpdate DEF Enqueue
      <4> QED
        BY <2>1, <3>1, <4>3 DEF Outdated, Enqueue, TypeOK
    <3>2. CASE op' = [op EXCEPT ![m].pc = "done"] /\ UNCHANGED tail
      <4>1. op' \in [Ops -> OpState]
        BY <1>1, <3>2 DEF OpState
      <4> QED
        BY <2>1, <3>2, <4>1 DEF Outdated, TypeOK
    <3> QED
      BY <2>1, <3>1, <3>2 DEF Outdated
  <2>2. CASE Enter(m)
    <3>1. PICK pc \in {"inspect", "look", "place"} : op' = [op EXCEPT ![m] = [op[m] EXCEPT !.prev = None, !.pc = pc]]
      BY <2>2 DEF Enter
    <3>2. [op[m] EXCEPT !.prev = None, !.pc = pc] \in OpState
      BY <1>3 DEF OpState
    <3>3. op' \in [Ops -> OpState]
      BY <1>1, <3>1, <3>2, OpUpdate
    <3> QED
      BY <2>2, <3>3 DEF Enter, TypeOK
  <2>3. CASE Refused(m)
    <3>1. op' \in [Ops -> OpState]
      BY <1>1, <2>3 DEF Refused, Leave, OpState
    <3> QED
      BY <2>3, <3>1 DEF Refused, Leave, TypeOK
  <2>4. CASE Place(m)
    <3>1. op' \in [Ops -> OpState]
      BY <1>1, <2>4 DEF Place, OpState
    <3> QED
      BY <2>4, <3>1 DEF Place, TypeOK
  <2>5. CASE Submit(m)
    <3>1. PICK pc \in {"job", "done"} : op' = [op EXCEPT ![m] = [op[m] EXCEPT !.pc = pc, !.work = "queued"]]
      BY <2>5 DEF Submit
    <3>2. [op[m] EXCEPT !.pc = pc, !.work = "queued"] \in OpState
      BY <1>3 DEF OpState
    <3>3. op' \in [Ops -> OpState]
      BY <1>1, <3>1, <3>2, OpUpdate
    <3> QED
      BY <2>5, <3>3 DEF Submit, TypeOK
  <2>6. CASE RunDirect(m)
    <3>1. op' = [op EXCEPT ![m] = [op[m] EXCEPT !.pc = "running", !.work = "queued"]]
      BY <2>6 DEF RunDirect
    <3>2. [op[m] EXCEPT !.pc = "running", !.work = "queued"] \in OpState
      BY <1>3 DEF OpState
    <3>3. op' \in [Ops -> OpState]
      BY <1>1, <3>1, <3>2, OpUpdate
    <3> QED
      BY <2>6, <3>3 DEF RunDirect, TypeOK
  <2>7. CASE Returned(m)
    <3>1. op' \in [Ops -> OpState]
      BY <1>1, <2>7 DEF Returned, Leave, OpState
    <3> QED
      BY <2>7, <3>1 DEF Returned, Leave, TypeOK
  <2>8. CASE GivenUp(m)
    <3>1. op' \in [Ops -> OpState]
      BY <1>1, <2>8 DEF GivenUp, Leave, OpState
    <3> DEFINE n == op[m].node
    <3>2. n \in Nodes
      BY <2>8, NodeKnown DEF GivenUp
    <3>3. [node[n] EXCEPT !.amiss = TRUE] \in NodeState
      BY <1>1, <3>2 DEF NodeState
    <3>4. node' \in [Nodes -> NodeState]
      BY <1>1, <2>8, <3>2, <3>3, NodeUpdate DEF GivenUp
    <3> QED
      BY <2>8, <3>1, <3>4, MaxCutsAssumption DEF GivenUp, Leave, TypeOK
  <2>9. CASE JobWaited(m)
    <3>1. op' \in [Ops -> OpState]
      BY <1>1, <2>9 DEF JobWaited, OpState
    <3> QED
      BY <2>9, <3>1 DEF JobWaited, TypeOK
  <2>10. CASE Clean(m)
    <3>1. op' \in [Ops -> OpState]
      BY <1>1, <2>10 DEF Clean, OpState
    <3> DEFINE n == op[m].node
    <3>2. n \in Nodes
      BY <2>10, NodeKnown DEF Clean
    <3>3. [node[n] EXCEPT !.dirs = @ \ {Old}] \in NodeState
      BY <1>1, <3>2 DEF NodeState
    <3>4. node' \in [Nodes -> NodeState]
      BY <1>1, <2>10, <3>2, <3>3, NodeUpdate DEF Clean
    <3> QED
      BY <2>10, <3>1, <3>4, MaxCutsAssumption DEF Clean, TypeOK
  <2>11. CASE Inspect(m)
    <3> DEFINE n == op[m].node
    <3>1. n \in Nodes
      BY <2>11, NodeKnown DEF Inspect
    <3>2. node[n].receipt \in {0} \cup Versions /\ [node[n] EXCEPT !.amiss = @ \/ BusyJob(n)] \in NodeState
      BY <1>1, <3>1 DEF NodeState, BusyJob
    <3>3. [op[m] EXCEPT !.pc = "running", !.work = "unlink", !.ver = node[n].receipt] \in OpState
      BY <1>3, <3>2 DEF OpState, Removals
    <3>4. op' \in [Ops -> OpState]
      BY <1>1, <3>3, <2>11, OpUpdate DEF Inspect
    <3>5. node' \in [Nodes -> NodeState]
      BY <1>1, <3>1, <3>2, <2>11, NodeUpdate DEF Inspect
    <3> QED
      BY <2>11, <3>4, <3>5 DEF Inspect, TypeOK
  <2>12. CASE Look(m)
    <3>1. op' \in [Ops -> OpState]
      BY <1>1, <2>12 DEF Look, OpState
    <3> QED
      BY <2>12, <3>1 DEF Look, TypeOK
  <2>13. CASE Wipe(m)
    <3>1. op' \in [Ops -> OpState]
      BY <1>1, <2>13 DEF Wipe, Leave, OpState
    <3> DEFINE n == op[m].node
    <3>2. n \in Nodes
      BY <2>13, NodeKnown DEF Wipe
    <3>3. [node[n] EXCEPT !.data = FALSE, !.amiss = @ \/ BusyJob(n) \/ node[n].receipt # 0] \in NodeState
      BY <1>1, <3>2 DEF NodeState, BusyJob
    <3>4. node' \in [Nodes -> NodeState]
      BY <1>1, <2>13, <3>2, <3>3, NodeUpdate DEF Wipe
    <3> QED
      BY <2>13, <3>1, <3>4, MaxCutsAssumption DEF Wipe, Leave, TypeOK
  <2>14. CASE Select(m)
    <3>1. [op[m] EXCEPT !.pc = "done", !.prev = None] \in OpState
      BY <1>3 DEF OpState
    <3>4. Current \in Versions
      BY DEF Versions
    <3>5. [op[m] EXCEPT !.pc = "submit", !.prev = None, !.ver = Current] \in OpState
      BY <1>3, <3>4 DEF OpState
    <3>2. \/ op' = [op EXCEPT ![m] = [op[m] EXCEPT !.pc = "submit", !.prev = None, !.ver = Current]]
          \/ op' = [op EXCEPT ![m] = [op[m] EXCEPT !.pc = "done", !.prev = None]]
      BY <2>14 DEF Select
    <3>3. op' \in [Ops -> OpState]
      BY <1>1, <3>1, <3>2, <3>5, OpUpdate
    <3> QED
      BY <2>14, <3>3 DEF Select, TypeOK
  <2>15. CASE SubmitCall(m)
    <3>1. PICK work \in {"queued", None} : op' = [op EXCEPT ![m] = [op[m] EXCEPT !.pc = "done", !.work = work]]
      BY <2>15 DEF SubmitCall
    <3>2. [op[m] EXCEPT !.pc = "done", !.work = work] \in OpState
      BY <1>3 DEF OpState
    <3>3. op' \in [Ops -> OpState]
      BY <1>1, <3>1, <3>2, OpUpdate
    <3> QED
      BY <2>15, <3>3 DEF SubmitCall, TypeOK
  <2> QED
    BY <1>5, <2>1, <2>2, <2>3, <2>4, <2>5, <2>6, <2>7, <2>8,
       <2>9, <2>10, <2>11, <2>12, <2>13, <2>14, <2>15 DEF Proceed
<1>6. CASE Work(m)
  <2>1. CASE Start(m)
    <3> DEFINE n == op[m].node
               r == [op[m] EXCEPT !.work = "copy", !.prior = node[n].link, !.backup = node[n].receipt]
               d == [node[n] EXCEPT !.data = TRUE]
    <3>1. n \in Nodes
      BY <2>1, NodeKnown DEF Start, None
    <3>2. node[n].link \in {0} \cup Versions /\ node[n].receipt \in {0} \cup Versions /\ d \in NodeState
      BY <1>1, <3>1 DEF NodeState
    <3>3. r \in OpState
      BY <1>3, <3>2 DEF OpState, Scripts
    <3>4. /\ [op[m] EXCEPT !.work = "calling"] \in OpState
          /\ [op[m] EXCEPT !.work = "failed"] \in OpState
      BY <1>3 DEF OpState
    <3>5. op' \in [Ops -> OpState]
      <4>1. \/ op' = [op EXCEPT ![m] = r]
            \/ op' = [op EXCEPT ![m] = [op[m] EXCEPT !.work = "calling"]]
            \/ op' = [op EXCEPT ![m] = [op[m] EXCEPT !.work = "failed"]]
        BY <2>1 DEF Start
      <4> QED
        BY <1>1, <3>3, <3>4, <4>1, OpUpdate
    <3>6. node' \in [Nodes -> NodeState]
      BY <1>1, <3>1, <3>2, <2>1, NodeUpdate DEF Start
    <3> QED
      BY <2>1, <3>5, <3>6 DEF Start, TypeOK
  <2>2. CASE CallEnds(m)
    <3>1. op' \in [Ops -> OpState]
      BY <1>1, <2>2 DEF CallEnds, OpState
    <3> QED
      BY <2>2, <3>1 DEF CallEnds, TypeOK
  <2>3. CASE Copy(m)
    <3>1. op' \in [Ops -> OpState]
      BY <1>1, <2>3 DEF Copy, OpState, Scripts
    <3> DEFINE n == op[m].node
    <3>2. n \in Nodes
      BY <2>3, NodeKnown DEF Copy, None
    <3>3. /\ [node[n] EXCEPT !.dirs = @ \ {Current}] \in NodeState
          /\ [node[n] EXCEPT !.dirs = @ \cup {Current}, !.link = Current] \in NodeState
      BY <1>1, <3>2 DEF NodeState, Versions
    <3>4. node' \in [Nodes -> NodeState]
      <4>1. CASE node' = [node EXCEPT ![n] = [node[n] EXCEPT !.dirs = @ \ {Current}]]
        BY <1>1, <3>2, <3>3, <4>1, NodeUpdate
      <4>2. CASE node' = [node EXCEPT ![n] = [node[n] EXCEPT !.dirs = @ \cup {Current}, !.link = Current]]
        BY <1>1, <3>2, <3>3, <4>2, NodeUpdate
      <4> QED
        BY <1>1, <2>3, <3>2, <4>1, <4>2 DEF Copy, NodeState
    <3> QED
      BY <2>3, <3>1, <3>4, MaxCutsAssumption DEF Copy, TypeOK
  <2>4. CASE Describe(m)
    <3>1. op' \in [Ops -> OpState]
      BY <1>1, <2>4 DEF Describe, Complete, OpState, Scripts
    <3>2. op[m].node \in Nodes
      BY <2>4, NodeKnown DEF Describe, None
    <3>3. PICK b \in BOOLEAN : \/ node' = [node EXCEPT ![op[m].node] = [node[op[m].node] EXCEPT !.receipt = Current]]
                              \/ node' = [node EXCEPT ![op[m].node] = [node[op[m].node] EXCEPT !.receipt = Current, !.amiss = b]]
      BY <2>4, <1>1, <3>2 DEF Describe, Complete, NodeState
    <3>4. /\ [node[op[m].node] EXCEPT !.receipt = Current] \in NodeState
          /\ [node[op[m].node] EXCEPT !.receipt = Current, !.amiss = b] \in NodeState
      BY <1>1, <3>2 DEF NodeState, Versions
    <3>5. node' \in [Nodes -> NodeState]
      BY <1>1, <3>2, <3>3, <3>4, NodeUpdate
    <3> QED
      BY <2>4, <3>1, <3>5 DEF Describe, Complete, TypeOK
  <2>5. CASE Activate(m)
    <3>1. op' \in [Ops -> OpState]
      BY <1>1, <2>5 DEF Activate, Complete, OpState
    <3>2. op[m].node \in Nodes
      BY <2>5, NodeKnown DEF Activate, None
    <3>3. PICK b \in BOOLEAN : \/ node' = [node EXCEPT ![op[m].node] = [node[op[m].node] EXCEPT !.receipt = Current]]
                              \/ node' = [node EXCEPT ![op[m].node] = [node[op[m].node] EXCEPT !.receipt = Current, !.amiss = b]]
      BY <2>5, <1>1, <3>2 DEF Activate, Complete, NodeState
    <3>4. /\ [node[op[m].node] EXCEPT !.receipt = Current] \in NodeState
          /\ [node[op[m].node] EXCEPT !.receipt = Current, !.amiss = b] \in NodeState
      BY <1>1, <3>2 DEF NodeState, Versions
    <3>5. node' \in [Nodes -> NodeState]
      BY <1>1, <3>2, <3>3, <3>4, NodeUpdate
    <3> QED
      BY <2>5, <3>1, <3>5 DEF Activate, Complete, TypeOK
  <2>6. CASE RollBack(m)
    <3>1. op' \in [Ops -> OpState]
      BY <1>1, <2>6 DEF RollBack, OpState
    <3> DEFINE n == op[m].node
               amiss == node[n].amiss \/ (op[m].work = "swap" /\ op[m].prior = Current)
               r == [node[n] EXCEPT !.link = op[m].prior, !.amiss = amiss,
                                    !.receipt = IF op[m].work = "activate" THEN op[m].backup ELSE @]
    <3>2. n \in Nodes
      BY <2>6, NodeKnown DEF RollBack, Scripts, None
    <3>3. op[m].prior \in {0} \cup Versions /\ op[m].backup \in {0} \cup Versions
      BY <1>3 DEF OpState
    <3>4. amiss \in BOOLEAN
      OBVIOUS
    <3> HIDE DEF amiss
    <3>5. r \in NodeState
      BY <1>1, <3>2, <3>3, <3>4 DEF NodeState
    <3>6. node' = [node EXCEPT ![n] = r]
      BY <2>6 DEF RollBack, amiss
    <3>7. node' \in [Nodes -> NodeState]
      BY <1>1, <3>2, <3>5, <3>6, NodeUpdate
    <3> QED
      BY <2>6, <3>1, <3>7 DEF RollBack, TypeOK
  <2>7. CASE Removal(m)
    <3>1. op' \in [Ops -> OpState]
      BY <1>1, <2>7 DEF Removal, OpState, Removals
    <3> DEFINE n == op[m].node
    <3>2. n \in Nodes
      BY <2>7, NodeKnown DEF Removal, None
    <3>3. /\ [node[n] EXCEPT !.link = IF @ = op[m].ver THEN 0 ELSE @] \in NodeState
          /\ [node[n] EXCEPT !.dirs = @ \ {op[m].ver}] \in NodeState
          /\ [node[n] EXCEPT !.receipt = 0] \in NodeState
      BY <1>1, <3>2 DEF NodeState
    <3>4. node' \in [Nodes -> NodeState]
      BY <1>1, <2>7, <3>2, <3>3, NodeUpdate DEF Removal
    <3> QED
      BY <2>7, <3>1, <3>4 DEF Removal, TypeOK
  <2>8. CASE Cut(m)
    <3>1. op' \in [Ops -> OpState]
      BY <1>1, <2>8 DEF Cut, OpState
    <3> DEFINE n == op[m].node
    <3>2. n \in Nodes
      BY <2>8, NodeKnown DEF Cut, Scripts, Removals, None
    <3>3. [node[n] EXCEPT !.amiss = TRUE] \in NodeState
      BY <1>1, <3>2 DEF NodeState
    <3>4. node' \in [Nodes -> NodeState]
      BY <1>1, <2>8, <3>2, <3>3, NodeUpdate DEF Cut
    <3> QED
      BY <2>8, <3>1, <3>4, MaxCutsAssumption DEF Cut, TypeOK
  <2> QED
    BY <1>6, <2>1, <2>2, <2>3, <2>4, <2>5, <2>6, <2>7, <2>8 DEF Work
<1> QED
  BY <1>2, <1>4, <1>5, <1>6

\* A step concerns one operation, and keeps what belongs to it.
LEMMA OneOp ==
    ASSUME TypeOK, Located, Next
    PROVE  \E m \in Ops : OthersStay(m) /\ OpOK(m)' /\ UNCHANGED manifest
<1>1. op \in [Ops -> OpState]
  BY DEF TypeOK
<1>2. PICK m \in Ops : (\E k \in Kinds, n \in Nodes : Arrive(m, k, n)) \/ Proceed(m) \/ Work(m)
  BY DEF Next
<1>3. CASE \E k \in Kinds, n \in Nodes : Arrive(m, k, n)
  <2>1. PICK k \in Kinds, n \in Nodes : Arrive(m, k, n)
    BY <1>3
  <2>2. CASE k \in {"update", "call"}
    <3>1. OthersStay(m) /\ UNCHANGED manifest
      BY <1>1, <2>1, <2>2 DEF Arrive, OthersStay
    <3>2. OpOK(m) /\ op[m].pc = "idle"
      BY <2>1 DEF Arrive, Located
    <3>3. /\ op'[m].node = n /\ op'[m].work = op[m].work
          /\ \/ op'[m].kind = "update" /\ op'[m].pc = "outdated"
             \/ op'[m].kind = "call" /\ op'[m].pc = "select"
      BY <1>1, <2>1, <2>2 DEF Arrive, OpState
    <3> QED
      BY <3>1, <3>2, <3>3 DEF OpOK, Pending, Scripts, Removals, None
  <2>3. CASE k \notin {"update", "call"}
    <3>1. Enqueue(m, k, n) /\ UNCHANGED manifest
      BY <2>1, <2>3 DEF Arrive
    <3> QED
      BY <1>1, <2>3, <3>1 DEF Enqueue, Idle, OthersStay, OpOK, Pending, Scripts, Removals, None
  <2> QED
    BY <2>1, <2>2, <2>3
<1>4. CASE Proceed(m)
  <2>1. CASE Outdated(m)
    <3>1. OthersStay(m) /\ UNCHANGED manifest
      BY <1>1, <2>1 DEF Outdated, Enqueue, Idle, OthersStay
    <3>2. OpOK(m) /\ op[m].pc = "outdated"
      BY <2>1 DEF Outdated, Located
    <3>3. CASE Enqueue(m, "update", op[m].node)
      <4>1. op'[m] = [Idle EXCEPT !.kind = "update", !.node = op[m].node, !.pc = "queue", !.prev = tail]
        BY <1>1, <3>3 DEF Enqueue
      <4>2. op'[m].kind = "update" /\ op'[m].node = op[m].node /\ op'[m].pc = "queue" /\ op'[m].work = None
        BY <4>1 DEF Idle
      <4> QED
        BY <3>1, <3>2, <4>2 DEF OpOK, Pending, Scripts, Removals, None
    <3>4. CASE op' = [op EXCEPT ![m].pc = "done"]
      <4>1. /\ op'[m].kind = op[m].kind /\ op'[m].node = op[m].node
            /\ op'[m].pc = "done" /\ op'[m].work = op[m].work
        BY <1>1, <3>4 DEF OpState
      <4> QED
        BY <3>1, <3>2, <4>1 DEF OpOK, Pending, Scripts, Removals, None
    <3> QED
      BY <2>1, <3>3, <3>4 DEF Outdated
  <2>2. CASE Enter(m)
    BY <1>1, <2>2 DEF Enter, OthersStay, OpOK, Pending, Located, Scripts, Removals, Mutations, None
  <2>3. CASE Refused(m)
    BY <1>1, <2>3 DEF Refused, Leave, OthersStay, OpOK, Pending, Located, Scripts, Removals, Mutations, None
  <2>4. CASE Place(m)
    BY <1>1, <2>4 DEF Place, OthersStay, OpOK, Pending, Located, Scripts, Removals, Mutations, None
  <2>5. CASE Submit(m)
    BY <1>1, <2>5 DEF Submit, OthersStay, OpOK, Pending, Located, Scripts, Removals, Mutations, None
  <2>6. CASE RunDirect(m)
    BY <1>1, <2>6 DEF RunDirect, OthersStay, OpOK, Pending, Located, Scripts, Removals, Mutations, None
  <2>7. CASE Returned(m)
    BY <1>1, <2>7 DEF Returned, Leave, OthersStay, OpOK, Pending, Located, Scripts, Removals, Mutations, None
  <2>8. CASE GivenUp(m)
    BY <1>1, <2>8 DEF GivenUp, Leave, OthersStay, OpOK, Pending, Located, Scripts, Removals, Mutations, None
  <2>9. CASE JobWaited(m)
    BY <1>1, <2>9 DEF JobWaited, OthersStay, OpOK, Pending, Located, Scripts, Removals, Mutations, None
  <2>10. CASE Clean(m)
    BY <1>1, <2>10 DEF Clean, OthersStay, OpOK, Pending, Located, Scripts, Removals, Mutations, None
  <2>11. CASE Inspect(m)
    BY <1>1, <2>11 DEF Inspect, OthersStay, OpOK, Pending, Located, Scripts, Removals, Mutations, None
  <2>12. CASE Look(m)
    BY <1>1, <2>12 DEF Look, OthersStay, OpOK, Pending, Located, Scripts, Removals, Mutations, None
  <2>13. CASE Wipe(m)
    BY <1>1, <2>13 DEF Wipe, Leave, OthersStay, OpOK, Pending, Located, Scripts, Removals, Mutations, None
  <2>14. CASE Select(m)
    <3>1. OthersStay(m) /\ UNCHANGED manifest
      BY <1>1, <2>14 DEF Select, OthersStay
    <3>2. OpOK(m)
      BY DEF Located
    <3>3. /\ op'[m].kind = op[m].kind /\ op'[m].node = op[m].node /\ op'[m].work = op[m].work
          /\ op[m].pc = "select"
          /\ op'[m].pc = "done" \/ (op'[m].pc = "submit" /\ manifest.durable)
      BY <1>1, <2>14 DEF Select, OpState
    <3> QED
      BY <3>1, <3>2, <3>3 DEF OpOK, Pending, Scripts, Removals, None
  <2>15. CASE SubmitCall(m)
    BY <1>1, <2>15 DEF SubmitCall, OthersStay, OpOK, Pending, Located, Scripts, Removals, Mutations, None
  <2> QED
    BY <1>4, <2>1, <2>2, <2>3, <2>4, <2>5, <2>6, <2>7, <2>8,
       <2>9, <2>10, <2>11, <2>12, <2>13, <2>14, <2>15 DEF Proceed
<1>5. CASE Work(m)
  <2>1. CASE Start(m)
    <3>1. OthersStay(m) /\ UNCHANGED manifest
      BY <1>1, <2>1 DEF Start, OthersStay
    <3>2. OpOK(m)
      BY DEF Located
    <3>3. /\ op'[m].kind = op[m].kind /\ op'[m].node = op[m].node /\ op'[m].pc = op[m].pc
          /\ op[m].work = "queued"
          /\ \/ op'[m].work = "calling" /\ op[m].kind = "call"
             \/ op'[m].work = "copy" /\ op[m].kind # "call"
             \/ op'[m].work = "failed"
      BY <1>1, <2>1 DEF Start, OpState
    <3> QED
      BY <3>1, <3>2, <3>3 DEF OpOK, Pending, Scripts, Removals, None
  <2>2. CASE CallEnds(m)
    BY <1>1, <2>2 DEF CallEnds, OthersStay, OpOK, Pending, Located, Scripts, Removals, Mutations, None
  <2>3. CASE Copy(m)
    <3>1. OthersStay(m) /\ UNCHANGED manifest
      BY <1>1, <2>3 DEF Copy, OthersStay
    <3>2. OpOK(m)
      BY DEF Located
    <3>3. /\ op'[m].kind = op[m].kind /\ op'[m].node = op[m].node /\ op'[m].pc = op[m].pc
          /\ op[m].work \in {"copy", "swap"} /\ op'[m].work \in {"swap", "describe"}
      BY <1>1, <2>3 DEF Copy, OpState
    <3> QED
      BY <3>1, <3>2, <3>3 DEF OpOK, Pending, Scripts, Removals, None
  <2>4. CASE Describe(m)
    <3>1. OthersStay(m) /\ UNCHANGED manifest
      BY <1>1, <2>4 DEF Describe, Complete, OthersStay
    <3>2. OpOK(m)
      BY DEF Located
    <3>3. /\ op'[m].kind = op[m].kind /\ op'[m].node = op[m].node /\ op'[m].pc = op[m].pc
          /\ op[m].work = "describe" /\ op'[m].work \in {"activate", "succeeded"}
      BY <1>1, <2>4 DEF Describe, Complete, OpState
    <3> QED
      BY <3>1, <3>2, <3>3 DEF OpOK, Pending, Scripts, Removals, None
  <2>5. CASE Activate(m)
    BY <1>1, <2>5 DEF Activate, Complete, OthersStay, OpOK, Pending, Located, Scripts, Removals, Mutations, None
  <2>6. CASE RollBack(m)
    BY <1>1, <2>6 DEF RollBack, OthersStay, OpOK, Pending, Located, Scripts, Removals, Mutations, None
  <2>7. CASE Removal(m)
    <3>1. OthersStay(m) /\ UNCHANGED manifest
      BY <1>1, <2>7 DEF Removal, OthersStay
    <3>2. OpOK(m)
      BY DEF Located
    <3>3. /\ op'[m].kind = op[m].kind /\ op'[m].node = op[m].node /\ op'[m].pc = op[m].pc
          /\ op[m].work \in Removals /\ op'[m].work \in {"remove", "forget", "succeeded"}
      BY <1>1, <2>7 DEF Removal, OpState, Removals
    <3> QED
      BY <3>1, <3>2, <3>3 DEF OpOK, Pending, Scripts, Removals, None
  <2>8. CASE Cut(m)
    BY <1>1, <2>8 DEF Cut, OthersStay, OpOK, Pending, Located, Scripts, Removals, Mutations, None
  <2> QED
    BY <1>5, <2>1, <2>2, <2>3, <2>4, <2>5, <2>6, <2>7, <2>8 DEF Work
<1> QED
  BY <1>2, <1>3, <1>4, <1>5
-----------------------------------------------------------------------------
(* The lock, and the calls.                                                *)

\* What operation m has begun at its node it keeps to.
Carries(m) ==
    op[m].work # None =>
        op'[m].kind = op[m].kind /\ op'[m].node = op[m].node /\ op'[m].work # None

\* It is at work if it was before, or has found the lock free.
TakesLock(m) ==
    op'[m].work \in Scripts \cup {"calling"} =>
        /\ op'[m].node = op[m].node
        /\ \/ op[m].work \in Scripts \cup {"calling"}
           \/ manifest.durable => ~Locked(op[m].node)

\* As a call it goes on with its version, whose directory it finds when it starts, or
\* has just chosen the catalog's.
CallsGoOn(m) ==
    Pending(m)' =>
        /\ op'[m].node = op[m].node
        /\ \/ /\ Pending(m) /\ op'[m].ver = op[m].ver
              /\ op[m].work = "calling" => op'[m].work = "calling"
              /\ op'[m].work = "calling" =>
                    op[m].work = "calling" \/ op[m].ver \in node'[op[m].node].dirs
           \/ op'[m].ver = Current /\ op'[m].work # "calling"

\* Only its own node changes, and what it may take away there.
Changes(m) ==
    \A n \in Nodes :
        \/ node[n].dirs \subseteq node'[n].dirs /\ node'[n].link = node[n].link
        \/ /\ n = op[m].node
           /\ \/ op[m].work \in Removals \cup Scripts
              \/ /\ node[n].link = Current /\ node'[n].link = Current
                 /\ node[n].dirs \ {Old} \subseteq node'[n].dirs

Effect(m) ==
    OthersStay(m) /\ Carries(m) /\ TakesLock(m) /\ CallsGoOn(m) /\ Changes(m) /\ UNCHANGED manifest

LEMMA NoChange ==
    ASSUME NEW m \in Ops, node' = node
    PROVE  Changes(m)
BY DEF Changes

LEMMA Effects ==
    ASSUME TypeOK, Located, Next
    PROVE  \E m \in Ops : Effect(m)
<1> USE DEF Scripts, Removals, None
<1>1. op \in [Ops -> OpState] /\ node \in [Nodes -> NodeState]
  BY DEF TypeOK
<1>2. PICK m \in Ops : (\E k \in Kinds, n \in Nodes : Arrive(m, k, n)) \/ Proceed(m) \/ Work(m)
  BY DEF Next
<1>3. op[m] \in OpState /\ OpOK(m)
  BY <1>1 DEF Located
<1>4. CASE \E k \in Kinds, n \in Nodes : Arrive(m, k, n)
  <2>1. PICK k \in Kinds, n \in Nodes : Arrive(m, k, n)
    BY <1>4
  <2>2. node' = node /\ manifest' = manifest /\ op[m].work = None
    BY <1>3, <2>1 DEF Arrive, OpOK
  <2>3. CASE k \in {"update", "call"}
    <3>1. OthersStay(m) /\ op'[m].work = None /\ op'[m].pc \in {"outdated", "select"}
      BY <1>1, <2>1, <2>2, <2>3 DEF Arrive, OthersStay, OpState
    <3> QED
      BY <2>2, <3>1, NoChange DEF Effect, Carries, TakesLock, CallsGoOn, Pending
  <2>4. CASE k \notin {"update", "call"}
    <3>1. Enqueue(m, k, n)
      BY <2>1, <2>4 DEF Arrive
    <3>2. OthersStay(m) /\ op'[m].work = None /\ op'[m].pc = "queue"
      BY <1>1, <3>1 DEF Enqueue, Idle, OthersStay
    <3> QED
      BY <2>2, <3>2, NoChange DEF Effect, Carries, TakesLock, CallsGoOn, Pending
  <2> QED
    BY <2>3, <2>4
<1>5. CASE Proceed(m)
  <2>1. CASE Outdated(m)
    <3>1. node' = node /\ manifest' = manifest /\ op[m].work = None
      BY <1>3, <2>1 DEF Outdated, OpOK
    <3>2. CASE Enqueue(m, "update", op[m].node)
      <4>1. OthersStay(m) /\ op'[m].work = None /\ op'[m].pc = "queue"
        BY <1>1, <3>2 DEF Enqueue, Idle, OthersStay
      <4> QED
        BY <3>1, <4>1, NoChange DEF Effect, Carries, TakesLock, CallsGoOn, Pending
    <3>3. CASE op' = [op EXCEPT ![m].pc = "done"]
      <4>1. OthersStay(m) /\ op'[m].work = None /\ op'[m].pc = "done"
        BY <1>1, <3>1, <3>3 DEF OthersStay, OpState
      <4> QED
        BY <3>1, <4>1, NoChange DEF Effect, Carries, TakesLock, CallsGoOn, Pending
    <3> QED
      BY <2>1, <3>2, <3>3 DEF Outdated
  <2>2. CASE Enter(m)
    <3>1. OthersStay(m) /\ UNCHANGED manifest
      BY <1>1, <2>2 DEF Enter, OthersStay
    <3>2. /\ op'[m].kind = op[m].kind /\ op'[m].node = op[m].node
          /\ op'[m].work = op[m].work /\ op'[m].ver = op[m].ver
      BY <1>1, <1>3, <2>2 DEF Enter, OpState
    <3>3. Changes(m)
      BY <2>2, NoChange DEF Enter
    <3>4. op'[m].pc # "submit" /\ op[m].pc # "idle" /\ (op[m].pc = "apply" => op[m].kind # "call")
      BY <1>1, <1>3, <2>2 DEF Enter, OpState, OpOK
    <3> QED
      BY <1>3, <3>1, <3>2, <3>3, <3>4 DEF Effect, Carries, TakesLock, CallsGoOn, Pending, OpOK
  <2>3. CASE Refused(m)
    <3>1. OthersStay(m) /\ UNCHANGED manifest
      BY <1>1, <2>3 DEF Refused, Leave, OthersStay
    <3>2. /\ op'[m].kind = op[m].kind /\ op'[m].node = op[m].node
          /\ op'[m].work = op[m].work /\ op'[m].ver = op[m].ver
      BY <1>1, <1>3, <2>3 DEF Refused, Leave, OpState
    <3>3. Changes(m)
      BY <2>3, NoChange DEF Refused
    <3>4. op'[m].pc # "submit" /\ op[m].pc # "idle" /\ (op[m].pc = "apply" => op[m].kind # "call")
      BY <1>1, <1>3, <2>3 DEF Refused, Leave, OpState, OpOK
    <3> QED
      BY <1>3, <3>1, <3>2, <3>3, <3>4 DEF Effect, Carries, TakesLock, CallsGoOn, Pending, OpOK
  <2>4. CASE Place(m)
    <3>1. OthersStay(m) /\ UNCHANGED manifest
      BY <1>1, <2>4 DEF Place, OthersStay
    <3>2. /\ op'[m].kind = op[m].kind /\ op'[m].node = op[m].node
          /\ op'[m].work = op[m].work /\ op'[m].ver = op[m].ver
      BY <1>1, <1>3, <2>4 DEF Place, OpState
    <3>3. Changes(m)
      BY <2>4, NoChange DEF Place
    <3>4. op'[m].pc # "submit" /\ op[m].pc # "idle" /\ (op[m].pc = "apply" => op[m].kind # "call")
      BY <1>1, <1>3, <2>4 DEF Place, OpState, OpOK
    <3> QED
      BY <1>3, <3>1, <3>2, <3>3, <3>4 DEF Effect, Carries, TakesLock, CallsGoOn, Pending, OpOK
  <2>5. CASE Submit(m)
    <3>1. OthersStay(m) /\ UNCHANGED manifest
      BY <1>1, <2>5 DEF Submit, OthersStay
    <3>2. /\ op'[m].kind = op[m].kind /\ op'[m].node = op[m].node
          /\ op'[m].work = "queued" /\ op[m].pc = "apply"
      BY <1>1, <1>3, <2>5 DEF Submit, OpState
    <3>3. Changes(m)
      BY <2>5, NoChange DEF Submit
    <3>4. op'[m].pc # "submit" /\ op[m].pc # "idle" /\ (op[m].pc = "apply" => op[m].kind # "call")
      BY <1>1, <1>3, <2>5 DEF Submit, OpState, OpOK
    <3> QED
      BY <1>3, <3>1, <3>2, <3>3, <3>4 DEF Effect, Carries, TakesLock, CallsGoOn, Pending, OpOK
  <2>6. CASE RunDirect(m)
    <3>1. OthersStay(m) /\ UNCHANGED manifest
      BY <1>1, <2>6 DEF RunDirect, OthersStay
    <3>2. /\ op'[m].kind = op[m].kind /\ op'[m].node = op[m].node
          /\ op'[m].work = "queued" /\ op[m].pc = "apply"
      BY <1>1, <1>3, <2>6 DEF RunDirect, OpState
    <3>3. Changes(m)
      BY <2>6, NoChange DEF RunDirect
    <3>4. op'[m].pc # "submit" /\ op[m].pc # "idle" /\ (op[m].pc = "apply" => op[m].kind # "call")
      BY <1>1, <1>3, <2>6 DEF RunDirect, OpState, OpOK
    <3> QED
      BY <1>3, <3>1, <3>2, <3>3, <3>4 DEF Effect, Carries, TakesLock, CallsGoOn, Pending, OpOK
  <2>7. CASE Returned(m)
    <3>1. OthersStay(m) /\ UNCHANGED manifest
      BY <1>1, <2>7 DEF Returned, Leave, OthersStay
    <3>2. /\ op'[m].kind = op[m].kind /\ op'[m].node = op[m].node
          /\ op'[m].work = op[m].work /\ op'[m].ver = op[m].ver
      BY <1>1, <1>3, <2>7 DEF Returned, Leave, OpState
    <3>3. Changes(m)
      BY <2>7, NoChange DEF Returned
    <3>4. op'[m].pc # "submit" /\ op[m].pc # "idle" /\ (op[m].pc = "apply" => op[m].kind # "call")
      BY <1>1, <1>3, <2>7 DEF Returned, Leave, OpState, OpOK
    <3> QED
      BY <1>3, <3>1, <3>2, <3>3, <3>4 DEF Effect, Carries, TakesLock, CallsGoOn, Pending, OpOK
  <2>8. CASE GivenUp(m)
    <3>1. OthersStay(m) /\ UNCHANGED manifest
      BY <1>1, <2>8 DEF GivenUp, Leave, OthersStay
    <3>2. /\ op'[m].kind = op[m].kind /\ op'[m].node = op[m].node
          /\ op'[m].work = op[m].work /\ op'[m].ver = op[m].ver
      BY <1>1, <1>3, <2>8 DEF GivenUp, Leave, OpState
    <3>3. Changes(m)
      BY <1>1, <1>3, <2>8 DEF GivenUp, Leave, Changes, NodeState
    <3>4. op'[m].pc # "submit" /\ op[m].pc # "idle" /\ (op[m].pc = "apply" => op[m].kind # "call")
      BY <1>1, <1>3, <2>8 DEF GivenUp, Leave, OpState, OpOK
    <3> QED
      BY <1>3, <3>1, <3>2, <3>3, <3>4 DEF Effect, Carries, TakesLock, CallsGoOn, Pending, OpOK
  <2>9. CASE JobWaited(m)
    <3>1. OthersStay(m) /\ UNCHANGED manifest
      BY <1>1, <2>9 DEF JobWaited, OthersStay
    <3>2. /\ op'[m].kind = op[m].kind /\ op'[m].node = op[m].node
          /\ op'[m].work = op[m].work /\ op'[m].ver = op[m].ver
      BY <1>1, <1>3, <2>9 DEF JobWaited, OpState
    <3>3. Changes(m)
      BY <2>9, NoChange DEF JobWaited
    <3>4. op'[m].pc # "submit" /\ op[m].pc # "idle" /\ (op[m].pc = "apply" => op[m].kind # "call")
      BY <1>1, <1>3, <2>9 DEF JobWaited, OpState, OpOK
    <3> QED
      BY <1>3, <3>1, <3>2, <3>3, <3>4 DEF Effect, Carries, TakesLock, CallsGoOn, Pending, OpOK
  <2>10. CASE Clean(m)
    <3>1. OthersStay(m) /\ UNCHANGED manifest
      BY <1>1, <2>10 DEF Clean, OthersStay
    <3>2. /\ op'[m].kind = op[m].kind /\ op'[m].node = op[m].node
          /\ op'[m].work = op[m].work /\ op'[m].ver = op[m].ver
      BY <1>1, <1>3, <2>10 DEF Clean, OpState
    <3>3. Changes(m)
      BY <1>1, <1>3, <2>10 DEF Clean, Changes, NodeState
    <3>4. op'[m].pc # "submit" /\ op[m].pc # "idle" /\ (op[m].pc = "apply" => op[m].kind # "call")
      BY <1>1, <1>3, <2>10 DEF Clean, OpState, OpOK
    <3> QED
      BY <1>3, <3>1, <3>2, <3>3, <3>4 DEF Effect, Carries, TakesLock, CallsGoOn, Pending, OpOK
  <2>11. CASE Inspect(m)
    <3>1. OthersStay(m) /\ UNCHANGED manifest
      BY <1>1, <2>11 DEF Inspect, OthersStay
    <3>2. /\ op'[m].kind = op[m].kind /\ op'[m].node = op[m].node
          /\ op'[m].work = "unlink"
      BY <1>1, <1>3, <2>11 DEF Inspect, OpState
    <3>3. Changes(m)
      BY <1>1, <1>3, <2>11 DEF Inspect, Changes, NodeState
    <3>4. op'[m].pc # "submit" /\ op[m].pc # "idle" /\ (op[m].pc = "apply" => op[m].kind # "call")
      BY <1>1, <1>3, <2>11 DEF Inspect, OpState, OpOK
    <3> QED
      BY <1>3, <3>1, <3>2, <3>3, <3>4 DEF Effect, Carries, TakesLock, CallsGoOn, Pending, OpOK
  <2>12. CASE Look(m)
    <3>1. OthersStay(m) /\ UNCHANGED manifest
      BY <1>1, <2>12 DEF Look, OthersStay
    <3>2. /\ op'[m].kind = op[m].kind /\ op'[m].node = op[m].node
          /\ op'[m].work = op[m].work /\ op'[m].ver = op[m].ver
      BY <1>1, <1>3, <2>12 DEF Look, OpState
    <3>3. Changes(m)
      BY <2>12, NoChange DEF Look
    <3>4. op'[m].pc # "submit" /\ op[m].pc # "idle" /\ (op[m].pc = "apply" => op[m].kind # "call")
      BY <1>1, <1>3, <2>12 DEF Look, OpState, OpOK
    <3> QED
      BY <1>3, <3>1, <3>2, <3>3, <3>4 DEF Effect, Carries, TakesLock, CallsGoOn, Pending, OpOK
  <2>13. CASE Wipe(m)
    <3>1. OthersStay(m) /\ UNCHANGED manifest
      BY <1>1, <2>13 DEF Wipe, Leave, OthersStay
    <3>2. /\ op'[m].kind = op[m].kind /\ op'[m].node = op[m].node
          /\ op'[m].work = op[m].work /\ op'[m].ver = op[m].ver
      BY <1>1, <1>3, <2>13 DEF Wipe, Leave, OpState
    <3>3. Changes(m)
      BY <1>1, <1>3, <2>13 DEF Wipe, Leave, Changes, NodeState
    <3>4. op'[m].pc # "submit" /\ op[m].pc # "idle" /\ (op[m].pc = "apply" => op[m].kind # "call")
      BY <1>1, <1>3, <2>13 DEF Wipe, Leave, OpState, OpOK
    <3> QED
      BY <1>3, <3>1, <3>2, <3>3, <3>4 DEF Effect, Carries, TakesLock, CallsGoOn, Pending, OpOK
  <2>14. CASE Select(m)
    <3>1. OthersStay(m) /\ UNCHANGED manifest
      BY <1>1, <2>14 DEF Select, OthersStay
    <3>2. /\ op'[m].kind = op[m].kind /\ op'[m].node = op[m].node
          /\ op'[m].work = op[m].work
      BY <1>1, <1>3, <2>14 DEF Select, OpState
    <3>3. node' = node /\ op[m].work = None
      BY <1>3, <2>14 DEF Select, OpOK
    <3>4. op'[m].pc = "submit" => op'[m].ver = Current
      BY <1>1, <1>3, <2>14 DEF Select, OpState
    <3> QED
      BY <3>1, <3>2, <3>3, <3>4, NoChange DEF Effect, Carries, TakesLock, CallsGoOn, Pending
  <2>15. CASE SubmitCall(m)
    <3>1. OthersStay(m) /\ UNCHANGED manifest
      BY <1>1, <2>15 DEF SubmitCall, OthersStay
    <3>2. /\ op'[m].kind = op[m].kind /\ op'[m].node = op[m].node
          /\ op[m].pc = "submit" /\ op'[m].work \in {"queued", None} /\ op'[m].ver = op[m].ver
      BY <1>1, <1>3, <2>15 DEF SubmitCall, OpState
    <3>3. Changes(m)
      BY <2>15, NoChange DEF SubmitCall
    <3>4. op'[m].pc # "submit" /\ op[m].pc # "idle" /\ (op[m].pc = "apply" => op[m].kind # "call")
      BY <1>1, <1>3, <2>15 DEF SubmitCall, OpState, OpOK
    <3> QED
      BY <1>3, <3>1, <3>2, <3>3, <3>4 DEF Effect, Carries, TakesLock, CallsGoOn, Pending, OpOK
  <2> QED
    BY <1>5, <2>1, <2>2, <2>3, <2>4, <2>5, <2>6, <2>7, <2>8,
       <2>9, <2>10, <2>11, <2>12, <2>13, <2>14, <2>15 DEF Proceed
<1>6. CASE Work(m)
  <2>1. CASE Start(m)
    <3>1. OthersStay(m) /\ UNCHANGED manifest
      BY <1>1, <2>1 DEF Start, OthersStay
    <3>2. /\ op'[m].kind = op[m].kind /\ op'[m].node = op[m].node
          /\ op[m].work = "queued" /\ op'[m].ver = op[m].ver
          /\ \/ op'[m].work \in {"copy", "calling"} /\ (manifest.durable => ~Locked(op[m].node))
             \/ op'[m].work = "failed"
          /\ op'[m].work = "calling" =>
                op[m].kind = "call" /\ op[m].ver \in node'[op[m].node].dirs
      BY <1>1, <1>3, <2>1 DEF Start, OpState
    <3>3. Changes(m)
      BY <1>1, <1>3, <2>1 DEF Start, Changes, NodeState
    <3>4. op'[m].pc = op[m].pc
      BY <1>1, <1>3, <2>1 DEF Start, OpState
    <3> QED
      BY <1>3, <3>1, <3>2, <3>3, <3>4 DEF Effect, Carries, TakesLock, CallsGoOn, Pending, OpOK
  <2>2. CASE CallEnds(m)
    <3>1. OthersStay(m) /\ UNCHANGED manifest
      BY <1>1, <2>2 DEF CallEnds, OthersStay
    <3>2. /\ op'[m].kind = op[m].kind /\ op'[m].node = op[m].node
          /\ op'[m].work = "succeeded" /\ op[m].work = "calling"
      BY <1>1, <1>3, <2>2 DEF CallEnds, OpState
    <3>3. Changes(m)
      BY <2>2, NoChange DEF CallEnds
    <3>4. op'[m].pc = op[m].pc
      BY <1>1, <1>3, <2>2 DEF CallEnds, OpState
    <3> QED
      BY <1>3, <3>1, <3>2, <3>3, <3>4 DEF Effect, Carries, TakesLock, CallsGoOn, Pending, OpOK
  <2>3. CASE Copy(m)
    <3>1. OthersStay(m) /\ UNCHANGED manifest
      BY <1>1, <2>3 DEF Copy, OthersStay
    <3>2. /\ op'[m].kind = op[m].kind /\ op'[m].node = op[m].node
          /\ \/ op[m].work = "copy" /\ op'[m].work = "swap"
             \/ op[m].work = "swap" /\ op'[m].work = "describe"
      BY <1>1, <1>3, <2>3 DEF Copy, OpState
    <3>3. Changes(m)
      BY <1>1, <1>3, <2>3 DEF Copy, Changes, NodeState
    <3>4. op'[m].pc = op[m].pc
      BY <1>1, <1>3, <2>3 DEF Copy, OpState
    <3> QED
      BY <1>3, <3>1, <3>2, <3>3, <3>4 DEF Effect, Carries, TakesLock, CallsGoOn, Pending, OpOK
  <2>4. CASE Describe(m)
    <3>1. OthersStay(m) /\ UNCHANGED manifest
      BY <1>1, <2>4 DEF Describe, Complete, OthersStay
    <3>2. /\ op'[m].kind = op[m].kind /\ op'[m].node = op[m].node
          /\ op[m].work = "describe" /\ op'[m].work \in {"activate", "succeeded"}
      BY <1>1, <1>3, <2>4 DEF Describe, Complete, OpState
    <3>3. Changes(m)
      BY <1>1, <1>3, <2>4 DEF Describe, Complete, Changes, NodeState
    <3>4. op'[m].pc = op[m].pc
      BY <1>1, <1>3, <2>4 DEF Describe, Complete, OpState
    <3> QED
      BY <1>3, <3>1, <3>2, <3>3, <3>4 DEF Effect, Carries, TakesLock, CallsGoOn, Pending, OpOK
  <2>5. CASE Activate(m)
    <3>1. OthersStay(m) /\ UNCHANGED manifest
      BY <1>1, <2>5 DEF Activate, Complete, OthersStay
    <3>2. /\ op'[m].kind = op[m].kind /\ op'[m].node = op[m].node
          /\ op[m].work = "activate" /\ op'[m].work = "succeeded"
      BY <1>1, <1>3, <2>5 DEF Activate, Complete, OpState
    <3>3. Changes(m)
      BY <1>1, <1>3, <2>5 DEF Activate, Complete, Changes, NodeState
    <3>4. op'[m].pc = op[m].pc
      BY <1>1, <1>3, <2>5 DEF Activate, Complete, OpState
    <3> QED
      BY <1>3, <3>1, <3>2, <3>3, <3>4 DEF Effect, Carries, TakesLock, CallsGoOn, Pending, OpOK
  <2>6. CASE RollBack(m)
    <3>1. OthersStay(m) /\ UNCHANGED manifest
      BY <1>1, <2>6 DEF RollBack, OthersStay
    <3>2. /\ op'[m].kind = op[m].kind /\ op'[m].node = op[m].node
          /\ op[m].work \in Scripts /\ op'[m].work = "failed"
      BY <1>1, <1>3, <2>6 DEF RollBack, OpState
    <3>3. Changes(m)
      BY <1>1, <1>3, <2>6 DEF RollBack, Changes, NodeState
    <3>4. op'[m].pc = op[m].pc
      BY <1>1, <1>3, <2>6 DEF RollBack, OpState
    <3> QED
      BY <1>3, <3>1, <3>2, <3>3, <3>4 DEF Effect, Carries, TakesLock, CallsGoOn, Pending, OpOK
  <2>7. CASE Removal(m)
    <3>1. OthersStay(m) /\ UNCHANGED manifest
      BY <1>1, <2>7 DEF Removal, OthersStay
    <3>2. /\ op'[m].kind = op[m].kind /\ op'[m].node = op[m].node
          /\ op[m].work \in Removals /\ op'[m].work \in {"remove", "forget", "succeeded"}
      BY <1>1, <1>3, <2>7 DEF Removal, OpState
    <3>3. Changes(m)
      BY <1>1, <1>3, <2>7 DEF Removal, Changes, NodeState
    <3>4. op'[m].pc = op[m].pc
      BY <1>1, <1>3, <2>7 DEF Removal, OpState
    <3> QED
      BY <1>3, <3>1, <3>2, <3>3, <3>4 DEF Effect, Carries, TakesLock, CallsGoOn, Pending, OpOK
  <2>8. CASE Cut(m)
    <3>1. OthersStay(m) /\ UNCHANGED manifest
      BY <1>1, <2>8 DEF Cut, OthersStay
    <3>2. /\ op'[m].kind = op[m].kind /\ op'[m].node = op[m].node
          /\ op[m].work \in Scripts \cup Removals /\ op'[m].work \in {"queued", "failed"}
      BY <1>1, <1>3, <2>8 DEF Cut, OpState
    <3>3. Changes(m)
      BY <1>1, <1>3, <2>8 DEF Cut, Changes, NodeState
    <3>4. op'[m].pc = op[m].pc
      BY <1>1, <1>3, <2>8 DEF Cut, OpState
    <3> QED
      BY <1>3, <3>1, <3>2, <3>3, <3>4 DEF Effect, Carries, TakesLock, CallsGoOn, Pending, OpOK
  <2> QED
    BY <1>6, <2>1, <2>2, <2>3, <2>4, <2>5, <2>6, <2>7, <2>8 DEF Work
<1> QED
  BY <1>2, <1>4, <1>5, <1>6

LEMMA LocatedKept ==
    ASSUME TypeOK, Located, Next
    PROVE  Located'
<1>1. PICK m \in Ops : OthersStay(m) /\ OpOK(m)' /\ UNCHANGED manifest
  BY OneOp
<1>2. ASSUME NEW p \in Ops \ {m}
      PROVE  OpOK(p)'
  BY <1>1 DEF Located, OpOK, Pending, OthersStay
<1> QED
  BY <1>1, <1>2 DEF Located

LEMMA OneAtWorkKept ==
    ASSUME TypeOK, Located, OneAtWork, Next
    PROVE  OneAtWork'
<1>1. PICK m \in Ops : Effect(m)
  BY Effects
<1>2. SUFFICES ASSUME manifest.durable,
                      NEW q \in Ops, NEW p \in Ops,
                      op'[q].work \in Scripts \cup {"calling"},
                      op'[p].work \in Scripts \cup {"calling"},
                      op'[q].node = op'[p].node
               PROVE  q = p
  BY <1>1 DEF OneAtWork, Effect
<1>3. ASSUME NEW r \in Ops \ {m}, op'[m].work \in Scripts \cup {"calling"},
             op'[r].work \in Scripts \cup {"calling"}, op'[m].node = op'[r].node
      PROVE  FALSE
  <2>1. op[r].work \in Scripts \cup {"calling"} /\ op[r].node = op[m].node
    BY <1>1, <1>3 DEF Effect, OthersStay, TakesLock
  <2>2. op[m].work \notin Scripts \cup {"calling"}
    BY <1>2, <2>1 DEF OneAtWork
  <2>3. ~Locked(op[m].node)
    BY <1>1, <1>2, <1>3, <2>2 DEF Effect, TakesLock
  <2> QED
    BY <2>1, <2>3 DEF Locked
<1>4. CASE q # m /\ p # m
  BY <1>1, <1>2, <1>4 DEF OneAtWork, Effect, OthersStay
<1> QED
  BY <1>2, <1>3, <1>4

LEMMA UninstalledStays ==
    ASSUME NEW m \in Ops, Effect(m), NEW n, Uninstalled(n)
    PROVE  Uninstalled(n)'
<1>1. PICK p \in Ops : op[p].kind = "uninstall" /\ op[p].node = n /\ op[p].work # None
  BY DEF Uninstalled
<1>2. op'[p].kind = "uninstall" /\ op'[p].node = n /\ op'[p].work # None
  BY <1>1 DEF Effect, OthersStay, Carries
<1> QED
  BY <1>2 DEF Uninstalled

LEMMA CallInvKept ==
    ASSUME TypeOK, Located, OneAtWork, CallInv, Next
    PROVE  CallInv'
<1>1. PICK m \in Ops : Effect(m)
  BY Effects
<1>2. SUFFICES ASSUME NEW c \in Ops, Pending(c)'
               PROVE  Prepared(c)'
  BY DEF CallInv
<1>3. op'[c].node = op[c].node
  BY <1>1, <1>2 DEF Effect, OthersStay, CallsGoOn
<1>4. CASE op'[c].ver = Current /\ op'[c].work # "calling"
  BY <1>3, <1>4 DEF Prepared
<1>5. CASE /\ Pending(c) /\ op'[c].ver = op[c].ver
           /\ op[c].work = "calling" => op'[c].work = "calling"
           /\ op'[c].work = "calling" =>
                op[c].work = "calling" \/ op[c].ver \in node'[op[c].node].dirs
  <2>1. Prepared(c)
    BY <1>5 DEF CallInv
  <2>2. PICK n : n = op[c].node
    OBVIOUS
  <2>3. CASE Uninstalled(n)
    <3>1. Uninstalled(n)'
      BY <1>1, <2>3, UninstalledStays
    <3> QED
      BY <1>3, <2>2, <3>1 DEF Prepared
  <2>4. CASE ~Uninstalled(n)
    <3>1. /\ op[c].work = "calling" => op[c].ver \in node[n].dirs
          /\ op[c].ver # Current => op[c].work = "calling" /\ node[n].link # Current
      BY <2>1, <2>4, <2>2 DEF Prepared
    <3>2. n \in Nodes
      BY <1>5, <2>2, NodeKnown DEF Pending, None
    <3>3. op[m].work \in Removals => op[m].node # n
      BY <2>4 DEF Located, OpOK, Uninstalled, Removals, None
    <3>4. op[c].work = "calling" => ~(op[m].work \in Scripts /\ op[m].node = n)
      BY <1>5, <2>2, <3>1 DEF OneAtWork, Located, OpOK, Pending, Scripts
    <3>5. op[c].ver \in {0, Old, Current}
      BY DEF TypeOK, OpState, Versions
    <3>6. /\ op[c].work = "calling" => op[c].ver \in node'[n].dirs
          /\ op[c].ver # Current => node'[n].link # Current
      BY <1>1, <3>1, <3>2, <3>3, <3>4, <3>5 DEF Effect, Changes, Old, Current
    <3> QED
      BY <1>3, <1>5, <2>2, <3>1, <3>6 DEF Prepared
  <2> QED
    BY <2>3, <2>4
<1> QED
  BY <1>1, <1>2, <1>3, <1>4, <1>5 DEF Effect, OthersStay, CallsGoOn, Pending

-----------------------------------------------------------------------------
(* The theorems.                                                           *)

LEMMA InitInv ==
    ASSUME Init
    PROVE  IInv
<1>1. PICK v \in [Nodes -> Initial] :
        /\ node = [n \in Nodes |-> Installed(v[n])]
        /\ op \in [Ops -> {Idle}] \cup
               {[m \in Ops |-> IF m = c THEN LeftRunning(n, v[n]) ELSE Idle] :
                   c \in {c \in Ops : "call" \in Kinds /\ manifest.durable},
                   n \in {n \in Nodes : v[n] # 0}}
  BY DEF Init
<1>2. \A n \in Nodes : v[n] \in {0, Old, Current}
  BY InitialAssumption
<1>3. \/ \A m \in Ops : op[m] = Idle
      \/ \E c \in Ops, n \in Nodes :
            /\ manifest.durable /\ v[n] # 0
            /\ op = [m \in Ops |-> IF m = c THEN LeftRunning(n, v[n]) ELSE Idle]
  BY <1>1
<1>4. \A m \in Ops :
        \/ op[m] = Idle
        \/ /\ manifest.durable
           /\ \E n \in Nodes : v[n] # 0 /\ op[m] = LeftRunning(n, v[n])
  BY <1>3
<1>5. \A n \in Nodes : v[n] # 0 =>
        /\ LeftRunning(n, v[n]) \in OpState
        /\ LeftRunning(n, v[n]).kind = "call" /\ LeftRunning(n, v[n]).node = n
        /\ LeftRunning(n, v[n]).pc = "done" /\ LeftRunning(n, v[n]).work = "calling"
        /\ LeftRunning(n, v[n]).ver = v[n]
  BY <1>2 DEF LeftRunning, Idle, OpState, Versions
<1>6. /\ Idle.kind = None /\ Idle.node = None /\ Idle.pc = "idle" /\ Idle.work = None
  BY DEF Idle
<1>7. TypeOK
  <2>1. node \in [Nodes -> NodeState]
    BY <1>1, <1>2 DEF Installed, NodeState, Versions
  <2>2. op \in [Ops -> OpState]
    <3>1. \A m \in Ops : op[m] \in OpState
      BY <1>4, <1>5, IdleType
    <3>2. op = [m \in Ops |-> op[m]]
      BY <1>1
    <3> QED
      BY <3>1, <3>2
  <2> QED
    BY <2>1, <2>2, ManifestsAssumption, MaxCutsAssumption DEF Init, TypeOK
<1>8. GateInv
  <2>1. \A m \in Ops : ~Queued(m) /\ ~Inside(m) /\ ~Ready(m)
    BY <1>4, <1>5, <1>6 DEF Queued, Inside, Ready
  <2> QED
    BY <2>1, OpsAssumption
       DEF Init, GateInv, OneReady, OneSuccessor, TailIsLast, WaitsForMutation
<1>9. Located
  BY <1>4, <1>5, <1>6 DEF Located, OpOK, Pending, None, Scripts, Removals
<1>10. OneAtWork
  BY <1>3, <1>5, <1>6 DEF OneAtWork, None, Scripts
<1>11. CallInv
  <2>1. SUFFICES ASSUME NEW c \in Ops, Pending(c)
                 PROVE  Prepared(c)
    BY DEF CallInv
  <2>2. PICK n \in Nodes : v[n] # 0 /\ op[c] = LeftRunning(n, v[n])
    BY <1>4, <1>6, <2>1 DEF Pending, None
  <2>3. node[n].dirs = {v[n]} /\ node[n].link = v[n]
    BY <1>1, <2>2 DEF Installed
  <2> QED
    BY <1>5, <2>2, <2>3 DEF Prepared
<1> QED
  BY <1>7, <1>8, <1>9, <1>10, <1>11 DEF IInv

LEMMA InvKept ==
    ASSUME IInv, [Next]_vars
    PROVE  IInv'
<1>1. GateInv'
  BY GateKept DEF IInv
<1>2. CASE Next
  BY <1>1, <1>2, TypeKept, LocatedKept, OneAtWorkKept, CallInvKept DEF IInv
<1>3. CASE UNCHANGED vars
  <2>1. TypeOK' /\ Located' /\ OneAtWork'
    BY <1>3 DEF IInv, vars, TypeOK, Located, OpOK, Pending, OneAtWork
  <2>2. CallInv'
    BY <1>3 DEF IInv, vars, CallInv, Pending, Prepared, Uninstalled
  <2> QED
    BY <1>1, <2>1, <2>2 DEF IInv
<1> QED
  BY <1>2, <1>3

\* The inductive invariant holds of every behaviour.
THEOREM Invariance == Spec => []IInv
<1>1. Init => IInv
  BY InitInv
<1>2. IInv /\ [Next]_vars => IInv'
  BY InvKept
<1> QED
  BY <1>1, <1>2, PTL DEF Spec

\* The state of nodes, operations and gate keeps its type.
THEOREM TypeCorrect == Spec => []TypeOK
<1>1. IInv => TypeOK
  BY DEF IInv
<1> QED
  BY <1>1, Invariance, PTL

\* withModuleMutation admits one mutation of a module at a time, for every
\* number of operations and in every order in which they end.
THEOREM MutationsAreExclusive == Spec => []MutationsExclusive
<1>1. IInv => MutationsExclusive
  BY DEF IInv, GateInv, OneReady, Ready, MutationsExclusive
<1> QED
  BY <1>1, Invariance, PTL

\* Background calls keep the directory of their version until an uninstall,
\* although the control plane checks for busy jobs on incomplete listings: the
\* lock of the resource key and the link decide.
THEOREM CallsKeepVersions == Spec => []CallsKeepTheirVersion
<1>1. IInv => CallsKeepTheirVersion
  <2>1. SUFFICES ASSUME IInv, NEW c \in Ops, op[c].work = "calling"
                 PROVE  op[c].ver \in node[op[c].node].dirs \/ Uninstalled(op[c].node)
    BY DEF CallsKeepTheirVersion, Uninstalled
  <2>2. Pending(c)
    BY <2>1 DEF IInv, Located, OpOK, Pending
  <2> QED
    BY <2>1, <2>2 DEF IInv, CallInv, Prepared
<1> QED
  BY <1>1, Invariance, PTL

-----------------------------------------------------------------------------
(* The inductive invariant of the lifecycle scripts.                       *)

\* What an operation does at its node begins when its checks are over.
Orderly(m) ==
    /\ op[m].pc \in {"queue", "place", "apply", "inspect", "look", "wipe"} => op[m].work = None
    /\ op[m].pc = "clean" => op[m].work = "succeeded"

Installing(m, n) == op[m].node = n /\ op[m].work \in Scripts
Removing(m, n) == op[m].node = n /\ op[m].work \in Removals

\* An installation at the node that runs or is still to run.
Begun(m, n) ==
    op[m].node = n /\ op[m].kind # "call" /\ op[m].work \in Scripts \cup {"queued"}

\* An operation that may yet clean up after its update.
Updated(m, n) ==
    op[m].node = n /\ op[m].work = "succeeded" /\ op[m].pc \in {"running", "job", "clean"}

\* The directory of the catalog's version is away while install.sh replaces it.
Swapping(n) == \E p \in Ops : op[p].node = n /\ op[p].work = "swap"

\* The directory of version v is there, or about to be.
Stays(n, v) == v \in node[n].dirs \/ (v = Current /\ Swapping(n))

Agrees(n) ==
    /\ node[n].link = node[n].receipt
    /\ node[n].receipt # 0 => Stays(n, node[n].receipt) /\ node[n].data

\* At each step of install.sh the link is where the script has put it, and what it
\* would restore is what was there.
ScriptOK(o, n) ==
    /\ node[n].data
    /\ o.prior = o.backup
    /\ o.prior # 0 => Stays(n, o.prior)
    /\ o.work \in {"copy", "swap"} => node[n].link = o.prior /\ node[n].receipt = o.prior
    /\ o.work \in {"describe", "activate"} => node[n].link = Current /\ Stays(n, Current)
    /\ o.work = "describe" => node[n].receipt = o.prior
    /\ o.work = "activate" => node[n].receipt = Current

\* A removal has the gate, and takes away what the link named.
RemovalOK(o, x) ==
    /\ o.pc = "running"
    /\ o.work = "unlink" => x.link = o.ver
    /\ o.work # "unlink" => x.link = 0

\* Nothing a script could restore or leave is another version than the catalog's.
AllCurrent(n) ==
    /\ node[n].link = Current /\ node[n].receipt = Current
    /\ Stays(n, Current) /\ node[n].data
    /\ \A m \in Ops : Installing(m, n) => op[m].prior = Current /\ op[m].backup = Current

\* A script that was given up may still start or be at work without the gate: only where
\* a completed installation has repaired the node since.
StraysHarmless(n) ==
    ~manifest.durable =>
        \A m \in Ops : Begun(m, n) /\ ~Inside(m) => AllCurrent(n)

\* Cleaning up cannot take what is in use.
OldUnused(n) ==
    \A m \in Ops : Updated(m, n) =>
        /\ node[n].link # Old
        /\ \A p \in Ops : Installing(p, n) => op[p].prior # Old

ReceiptFits(n) == ~AtWork(n) => Agrees(n)

ScriptsFine(n) == \A m \in Ops : Installing(m, n) => ScriptOK(op[m], n)

RemovalsFine(n) ==
    \A m \in Ops : Removing(m, n) =>
        RemovalOK(op[m], node[n]) /\ \A p \in Ops : ~Begun(p, n)

Sane(n) ==
    /\ ReceiptFits(n) /\ ScriptsFine(n) /\ RemovalsFine(n)
    /\ StraysHarmless(n) /\ OldUnused(n)

NodesSane == \A n \in Nodes : ~node[n].amiss => Sane(n)

ReceiptInv == NodesSane /\ \A m \in Ops : Orderly(m)

-----------------------------------------------------------------------------
(* Who can be at a node together.                                          *)

\* Who swaps is installing, so that all operations that install leave it as it was.
LEMMA SwapsStay ==
    ASSUME NEW n, \A p \in Ops : /\ Installing(p, n)' <=> Installing(p, n)
                                 /\ Installing(p, n) => op'[p].work = op[p].work
    PROVE  Swapping(n)' <=> Swapping(n)
BY DEF Installing, Swapping, Scripts

LEMMA OneInside ==
    ASSUME IInv, NEW m \in Ops, NEW p \in Ops, Inside(m), Inside(p)
    PROVE  m = p
BY DEF IInv, GateInv, OneReady, Ready

LEMMA InstallationsBegin ==
    ASSUME IInv, NEW n, NEW m \in Ops, Installing(m, n)
    PROVE  Begun(m, n)
BY DEF IInv, Located, OpOK, Installing, Begun

\* A mutation inside the gate that has started nothing meets no removal.
LEMMA NoRemoval ==
    ASSUME IInv, NEW n, Sane(n), NEW m \in Ops, Inside(m), op[m].work = None,
           NEW p \in Ops
    PROVE  ~Removing(p, n)
<1>1. Removing(p, n) => Inside(p)
  BY DEF Sane, RemovalsFine, RemovalOK, Inside
<1> QED
  BY <1>1, OneInside DEF Removing, Removals, None

\* Two installations that are not lined up by the gate or by a lock find the catalog's
\* version and nothing else.
LEMMA Together ==
    ASSUME IInv, NEW n, Sane(n), NEW m \in Ops, NEW p \in Ops, m # p,
           Begun(m, n), Begun(p, n), ~manifest.durable
    PROVE  AllCurrent(n)
<1>1. ~Inside(m) \/ ~Inside(p)
  BY OneInside
<1> QED
  BY <1>1 DEF Sane, StraysHarmless

LEMMA ScriptsTogether ==
    ASSUME IInv, NEW n, Sane(n), NEW m \in Ops, NEW p \in Ops, m # p,
           Installing(m, n), Installing(p, n)
    PROVE  AllCurrent(n)
<1>1. ~manifest.durable
  BY DEF IInv, OneAtWork, Installing
<1> QED
  BY <1>1, InstallationsBegin, Together

-----------------------------------------------------------------------------
(* Steps that leave a node alone.                                          *)

\* What the node can tell of an operation stays, but for an installation that begins in
\* an orderly way.
Unmoved(p, n) ==
    /\ Installing(p, n)' <=> Installing(p, n)
    /\ Installing(p, n) => /\ op'[p].work = op[p].work
                           /\ op'[p].prior = op[p].prior /\ op'[p].backup = op[p].backup
    /\ Removing(p, n)' <=> Removing(p, n)
    /\ Removing(p, n) => /\ op'[p].work = op[p].work /\ op'[p].ver = op[p].ver
                         /\ op[p].pc = "running" => op'[p].pc = "running"
    /\ Begun(p, n)' =>
          \/ Begun(p, n) /\ (Inside(p) => Inside(p)')
          \/ /\ \A q \in Ops : ~Removing(q, n)
             /\ manifest.durable \/ Inside(p)'
    /\ Updated(p, n)' => Updated(p, n)

LEMMA UnmovedKeeps ==
    ASSUME NEW n \in Nodes, Sane(n), node'[n] = node[n], manifest' = manifest,
           \A p \in Ops : Unmoved(p, n)
    PROVE  Sane(n)'
<1>1. Swapping(n)' <=> Swapping(n)
  BY SwapsStay DEF Unmoved
<1>2. \A v : Stays(n, v)' <=> Stays(n, v)
  BY <1>1 DEF Stays
<1>3. ReceiptFits(n)'
  <2>1. AtWork(n)' <=> AtWork(n)
    BY DEF Unmoved, AtWork, Installing, Removing
  <2> QED
    BY <1>2, <2>1 DEF Sane, ReceiptFits, Agrees
<1>4. ScriptsFine(n)'
  BY <1>2 DEF Unmoved, Sane, ScriptsFine, ScriptOK
<1>5. RemovalsFine(n)'
  <2>1. SUFFICES ASSUME NEW m \in Ops, Removing(m, n)'
                 PROVE  RemovalOK(op[m], node[n])' /\ \A p \in Ops : ~Begun(p, n)'
    BY DEF RemovalsFine
  <2>2. Removing(m, n)
    BY <2>1 DEF Unmoved
  <2>3. RemovalOK(op[m], node[n])'
    BY <2>2 DEF Unmoved, Sane, RemovalsFine, RemovalOK
  <2>4. \A p \in Ops : ~Begun(p, n)'
    BY <2>2 DEF Unmoved, Sane, RemovalsFine
  <2> QED
    BY <2>3, <2>4
<1>6. AllCurrent(n) => AllCurrent(n)'
  BY <1>2 DEF Unmoved, AllCurrent
<1>7. StraysHarmless(n)'
  BY <1>6 DEF Unmoved, Sane, StraysHarmless
<1>8. OldUnused(n)'
  BY DEF Unmoved, Sane, OldUnused
<1> QED
  BY <1>3, <1>4, <1>5, <1>7, <1>8 DEF Sane

LEMMA OtherUnmoved ==
    ASSUME NEW p, NEW n, op'[p] = op[p]
    PROVE  Unmoved(p, n)
BY DEF Unmoved, Installing, Removing, Begun, Updated, Inside

LEMMA ElsewhereUnmoved ==
    ASSUME NEW p, NEW n, op[p].node # n, op'[p].node # n
    PROVE  Unmoved(p, n)
BY DEF Unmoved, Installing, Removing, Begun, Updated

\* A step of operation m that changes no node.
LEMMA CalmKeeps ==
    ASSUME ReceiptInv, NEW m \in Ops, OthersStay(m), node' = node, manifest' = manifest,
           \A n \in Nodes : ~node[n].amiss => Unmoved(m, n)
    PROVE  NodesSane'
<1>1. SUFFICES ASSUME NEW n \in Nodes, ~node[n].amiss
               PROVE  Sane(n)'
  BY DEF NodesSane
<1>2. \A p \in Ops : Unmoved(p, n)
  BY <1>1, OtherUnmoved DEF OthersStay
<1> QED
  BY <1>1, <1>2, UnmovedKeeps DEF ReceiptInv, NodesSane

\* A step that begins, ends or continues nothing at a node.
Idles(m) ==
    /\ op[m].work \notin Scripts \cup Removals
    /\ op'[m].work \notin Scripts \cup Removals
    /\ op'[m].work = "queued" => op'[m].kind = "call"
    /\ op'[m].work = "succeeded" => op'[m].pc = "done"

LEMMA IdlesKeeps ==
    ASSUME ReceiptInv, NEW m \in Ops, OthersStay(m), node' = node, manifest' = manifest, Idles(m)
    PROVE  NodesSane'
<1>1. \A n \in Nodes : Unmoved(m, n)
  BY DEF Idles, Unmoved, Installing, Removing, Begun, Updated
<1> QED
  BY <1>1, CalmKeeps

\* A step of operation m that changes its own node, h.
Local(m, h) ==
    /\ OthersStay(m) /\ manifest' = manifest
    /\ op[m].node = h /\ op'[m].node = h
    /\ \A n \in Nodes \ {h} : node'[n] = node[n]

LEMMA LocalKeeps ==
    ASSUME ReceiptInv, NEW m \in Ops, NEW h \in Nodes, Local(m, h),
           ~node'[h].amiss => Sane(h)'
    PROVE  NodesSane'
<1>1. SUFFICES ASSUME NEW n \in Nodes, ~node'[n].amiss, n # h
               PROVE  Sane(n)'
  BY DEF NodesSane
<1>2. \A p \in Ops : Unmoved(p, n)
  BY <1>1, OtherUnmoved, ElsewhereUnmoved DEF Local, OthersStay
<1>3. node'[n] = node[n]
  BY <1>1 DEF Local
<1> QED
  BY <1>1, <1>2, <1>3, UnmovedKeeps DEF Local, ReceiptInv, NodesSane

-----------------------------------------------------------------------------
(* Steps of install.sh.                                                    *)

\* An installation that has begun goes on at its node h; the others there, if any, find the
\* catalog's version before and after.
Installs(m, h) ==
    /\ Local(m, h)
    /\ Begun(m, h)
    /\ op'[m].kind = op[m].kind /\ op'[m].pc = op[m].pc
    /\ op'[m].work \in Scripts \cup {"succeeded", "failed"}
    /\ \A p \in Ops \ {m} : Installing(p, h) => AllCurrent(h)

\* Where nothing is amiss, it keeps the node sane if it leaves this behind.
LEMMA InstallsKeeps ==
    ASSUME IInv, NEW m \in Ops, NEW h \in Nodes, Sane(h), Installs(m, h),
           AllCurrent(h) => AllCurrent(h)',
           Installing(m, h)' => ScriptOK(op[m], h)',
           ~Installing(m, h)' => Agrees(h)',
           op'[m].work = "succeeded" => node'[h].link = Current,
           node[h].link # Old /\ (Installing(m, h) => op[m].prior # Old) =>
               node'[h].link # Old /\ (Installing(m, h)' => op'[m].prior # Old)
    PROVE  Sane(h)'
<1>1. \A p \in Ops \ {m} : op'[p] = op[p]
  BY DEF Installs, Local, OthersStay
<1>2. \A p \in Ops \ {m} : /\ Installing(p, h)' <=> Installing(p, h)
                           /\ Removing(p, h)' <=> Removing(p, h)
                           /\ Begun(p, h)' <=> Begun(p, h)
                           /\ Updated(p, h)' <=> Updated(p, h)
                           /\ Inside(p)' <=> Inside(p)
  BY <1>1 DEF Installing, Removing, Begun, Updated, Inside
<1>3. Inside(m)' <=> Inside(m)
  BY DEF Installs, Inside
<1>4. \A p \in Ops : ~Removing(p, h)
  BY DEF Installs, Sane, RemovalsFine
<1>5. \A p \in Ops \ {m} : Installing(p, h) => AllCurrent(h)'
  BY DEF Installs
<1>6. ReceiptFits(h)'
  <2>1. Installing(m, h)' => AtWork(h)'
    BY DEF Installing, AtWork
  <2> QED
    BY <2>1 DEF ReceiptFits
<1>7. ScriptsFine(h)'
  <2>1. ASSUME NEW p \in Ops \ {m}, Installing(p, h)'
        PROVE  ScriptOK(op[p], h)'
    <3>1. AllCurrent(h)' /\ Installing(p, h)'
      BY <1>2, <1>5, <2>1
    <3> QED
      BY <3>1 DEF AllCurrent, ScriptOK
  <2> QED
    BY <2>1 DEF ScriptsFine
<1>8. RemovalsFine(h)'
  <2>1. ~Removing(m, h)'
    BY DEF Installs, Removing, Scripts, Removals
  <2> QED
    BY <1>2, <1>4, <2>1 DEF RemovalsFine
<1>9. StraysHarmless(h)'
  <2>1. SUFFICES ASSUME ~manifest.durable, NEW p \in Ops, Begun(p, h)', ~Inside(p)'
                 PROVE  AllCurrent(h)'
    BY DEF StraysHarmless, Installs, Local
  <2>2. Begun(p, h) /\ ~Inside(p)
    BY <1>2, <1>3, <2>1 DEF Installs
  <2> QED
    BY <2>1, <2>2 DEF Sane, StraysHarmless
<1>10. OldUnused(h)'
  <2>1. SUFFICES ASSUME NEW p \in Ops, Updated(p, h)'
                 PROVE  /\ node'[h].link # Old
                        /\ \A q \in Ops : Installing(q, h)' => op'[q].prior # Old
    BY DEF OldUnused
  <2>2. CASE p = m
    <3>1. op'[m].work = "succeeded"
      BY <2>1, <2>2 DEF Updated
    <3>2. node'[h].link # Old
      BY <3>1 DEF Old, Current
    <3>3. ~Installing(m, h)'
      BY <3>1 DEF Installing, Scripts
    <3>4. \A q \in Ops \ {m} : Installing(q, h)' => op'[q].prior = Current
      BY <1>2, <1>5 DEF AllCurrent
    <3> QED
      BY <3>2, <3>3, <3>4 DEF Old, Current
  <2>3. CASE p # m
    <3>1. Updated(p, h)
      BY <1>2, <2>1, <2>3
    <3>2. node[h].link # Old /\ \A q \in Ops : Installing(q, h) => op[q].prior # Old
      BY <3>1 DEF Sane, OldUnused
    <3>3. node'[h].link # Old /\ (Installing(m, h)' => op'[m].prior # Old)
      BY <3>2
    <3>4. \A q \in Ops \ {m} : Installing(q, h)' => op'[q].prior # Old
      BY <1>1, <1>2, <3>2
    <3> QED
      BY <3>3, <3>4
  <2> QED
    BY <2>2, <2>3
<1> QED
  BY <1>6, <1>7, <1>8, <1>9, <1>10 DEF Sane

LEMMA StartKeeps ==
    ASSUME IInv, ReceiptInv, NEW m \in Ops, Start(m)
    PROVE  NodesSane'
<1>1. /\ op \in [Ops -> OpState] /\ node \in [Nodes -> NodeState] /\ op[m] \in OpState
      /\ op[m].work = "queued"
  BY DEF IInv, TypeOK, Start
<1>2. PICK h \in Nodes : h = op[m].node
  BY <1>1, NodeKnown DEF IInv, None
<1>3. CASE op' = [op EXCEPT ![m].work = "failed"] /\ UNCHANGED node
  <2>1. OthersStay(m) /\ Idles(m) /\ manifest' = manifest
    BY <1>1, <1>3 DEF OthersStay, Idles, OpState, Scripts, Removals, Start
  <2> QED
    BY <1>3, <2>1, IdlesKeeps
<1>4. CASE op[m].kind = "call" /\ op' = [op EXCEPT ![m].work = "calling"] /\ UNCHANGED node
  <2>1. OthersStay(m) /\ Idles(m) /\ manifest' = manifest
    BY <1>1, <1>4 DEF OthersStay, Idles, OpState, Scripts, Removals, Start
  <2> QED
    BY <1>4, <2>1, IdlesKeeps
<1>5. CASE /\ op[m].kind # "call"
           /\ manifest.durable => ~Locked(h)
           /\ op' = [op EXCEPT ![m].work = "copy", ![m].prior = node[h].link,
                               ![m].backup = node[h].receipt]
           /\ node' = [node EXCEPT ![h].data = TRUE]
  <2>1. /\ op'[m] = [op[m] EXCEPT !.work = "copy", !.prior = node[h].link, !.backup = node[h].receipt]
        /\ node'[h] = [node[h] EXCEPT !.data = TRUE]
    BY <1>1, <1>5
  <2>2. /\ op'[m].work = "copy" /\ op'[m].prior = node[h].link /\ op'[m].backup = node[h].receipt
        /\ op'[m].kind = op[m].kind /\ op'[m].pc = op[m].pc /\ op'[m].node = h
    BY <1>1, <1>2, <2>1 DEF OpState
  <2>3. /\ node'[h].link = node[h].link /\ node'[h].receipt = node[h].receipt
        /\ node'[h].dirs = node[h].dirs /\ node'[h].data = TRUE /\ node'[h].amiss = node[h].amiss
    BY <1>1, <2>1 DEF NodeState
  <2>4. Local(m, h)
    BY <1>1, <1>2, <1>5, <2>2 DEF Local, OthersStay, Start
  <2>5. SUFFICES ASSUME Sane(h)
                 PROVE  Sane(h)'
    BY <2>3, <2>4, LocalKeeps DEF ReceiptInv, NodesSane
  <2>6. Begun(m, h) /\ ~Installing(m, h) /\ Installing(m, h)'
    BY <1>1, <1>2, <1>5, <2>2 DEF Begun, Installing, Scripts
  <2>7. ASSUME NEW p \in Ops \ {m}, Installing(p, h)
        PROVE  AllCurrent(h)
    <3>1. ~manifest.durable
      BY <1>2, <1>5, <2>7 DEF Locked, Installing
    <3> QED
      BY <2>5, <2>6, <2>7, <3>1, InstallationsBegin, Together
  <2>8. Installs(m, h)
    BY <2>2, <2>4, <2>6, <2>7 DEF Installs, Scripts
  <2>9. node[h].link = node[h].receipt /\ (node[h].link # 0 => Stays(h, node[h].link))
    <3>1. CASE \E p \in Ops \ {m} : Installing(p, h)
      BY <2>7, <3>1 DEF AllCurrent
    <3>2. CASE \A p \in Ops \ {m} : ~Installing(p, h)
      <4>1. ~AtWork(h)
        BY <2>5, <2>6, <3>2 DEF AtWork, Sane, RemovalsFine, Removing, Installing
      <4> QED
        BY <2>5, <4>1 DEF Sane, ReceiptFits, Agrees
    <3> QED
      BY <3>1, <3>2
  <2>10. Swapping(h) => Swapping(h)'
    BY <1>1, <2>2, <2>4 DEF Swapping, Local, OthersStay
  <2>11. \A v : Stays(h, v) => Stays(h, v)'
    BY <2>3, <2>10 DEF Stays
  <2>12. AllCurrent(h) => AllCurrent(h)'
    BY <2>2, <2>3, <2>4, <2>11 DEF AllCurrent, Local, OthersStay, Installing
  <2>13. ScriptOK(op[m], h)'
    BY <2>2, <2>3, <2>9, <2>11 DEF ScriptOK
  <2> QED
    BY <2>2, <2>3, <2>5, <2>6, <2>8, <2>12, <2>13, InstallsKeeps
<1> QED
  BY <1>2, <1>3, <1>4, <1>5 DEF Start

LEMMA CopyKeeps ==
    ASSUME IInv, ReceiptInv, NEW m \in Ops, Copy(m)
    PROVE  NodesSane'
<1>1. /\ op \in [Ops -> OpState] /\ node \in [Nodes -> NodeState] /\ op[m] \in OpState
      /\ op[m].work \in {"copy", "swap"}
  BY DEF IInv, TypeOK, Copy
<1>2. PICK h \in Nodes : h = op[m].node
  BY <1>1, NodeKnown DEF IInv, None
<1>3. \/ /\ op[m].work = "copy"
         /\ op'[m] = [op[m] EXCEPT !.work = "swap"]
         /\ node'[h] = [node[h] EXCEPT !.dirs = @ \ {Current}]
      \/ /\ op[m].work = "swap"
         /\ op'[m] = [op[m] EXCEPT !.work = "describe"]
         /\ node'[h] = [node[h] EXCEPT !.dirs = @ \cup {Current}, !.link = Current]
  BY <1>1, <1>2 DEF Copy
<1>4. /\ op'[m].work = IF op[m].work = "copy" THEN "swap" ELSE "describe"
      /\ op'[m].prior = op[m].prior /\ op'[m].backup = op[m].backup
      /\ op'[m].kind = op[m].kind /\ op'[m].pc = op[m].pc /\ op'[m].node = h
  BY <1>1, <1>2, <1>3 DEF OpState
<1>5. /\ node'[h].link = IF op[m].work = "copy" THEN node[h].link ELSE Current
      /\ node'[h].receipt = node[h].receipt
      /\ node'[h].dirs = IF op[m].work = "copy" THEN node[h].dirs \ {Current}
                         ELSE node[h].dirs \cup {Current}
      /\ node'[h].data = node[h].data /\ node'[h].amiss = node[h].amiss
  BY <1>1, <1>3 DEF NodeState
<1>6. Local(m, h)
  BY <1>1, <1>2, <1>4 DEF Local, OthersStay, Copy
<1>7. SUFFICES ASSUME Sane(h)
               PROVE  Sane(h)'
  BY <1>5, <1>6, LocalKeeps DEF ReceiptInv, NodesSane
<1>8. Installing(m, h) /\ Installing(m, h)' /\ Begun(m, h)
  BY <1>1, <1>2, <1>4, InstallationsBegin DEF Installing, Scripts
<1>9. Installs(m, h)
  BY <1>4, <1>6, <1>7, <1>8, ScriptsTogether DEF Installs, Scripts
<1>10. ScriptOK(op[m], h)
  BY <1>7, <1>8 DEF Sane, ScriptsFine
<1>11. \A v : Stays(h, v) => Stays(h, v)'
  <2>1. op[m].work = "copy" => Swapping(h)'
    BY <1>4 DEF Swapping
  <2> QED
    BY <1>1, <1>5, <2>1 DEF Stays
<1>12. op[m].work = "swap" => Stays(h, Current)'
  BY <1>5 DEF Stays
<1>13. ScriptOK(op[m], h)'
  BY <1>1, <1>4, <1>5, <1>10, <1>11, <1>12 DEF ScriptOK
<1>14. AllCurrent(h) => AllCurrent(h)'
  BY <1>4, <1>5, <1>6, <1>8, <1>11 DEF AllCurrent, Local, OthersStay, Installing
<1> QED
  BY <1>4, <1>5, <1>7, <1>8, <1>9, <1>13, <1>14, InstallsKeeps DEF Old, Current

\* The receipt is written and the script goes on, or ends.
LEMMA ReceiptKeeps ==
    ASSUME IInv, ReceiptInv, NEW m \in Ops, NEW h \in Nodes, Installing(m, h),
           op[m].work \in {"describe", "activate"},
           NEW work \in {"activate", "succeeded"}, NEW amiss \in BOOLEAN,
           op' = [op EXCEPT ![m].work = work], manifest' = manifest,
           node' = [node EXCEPT ![h].receipt = Current, ![h].amiss = amiss],
           node[h].amiss => amiss
    PROVE  NodesSane'
<1>1. op \in [Ops -> OpState] /\ node \in [Nodes -> NodeState] /\ op[m] \in OpState /\ op[m].node = h
  BY DEF IInv, TypeOK, Installing
<1>2. /\ op'[m] = [op[m] EXCEPT !.work = work]
      /\ node'[h] = [node[h] EXCEPT !.receipt = Current, !.amiss = amiss]
  BY <1>1
<1>3. /\ op'[m].work = work /\ op'[m].prior = op[m].prior /\ op'[m].backup = op[m].backup
      /\ op'[m].kind = op[m].kind /\ op'[m].pc = op[m].pc /\ op'[m].node = h
  BY <1>1, <1>2 DEF OpState
<1>4. /\ node'[h].link = node[h].link /\ node'[h].receipt = Current
      /\ node'[h].dirs = node[h].dirs /\ node'[h].data = node[h].data /\ node'[h].amiss = amiss
  BY <1>1, <1>2 DEF NodeState
<1>5. Local(m, h)
  BY <1>1, <1>3 DEF Local, OthersStay
<1>6. SUFFICES ASSUME Sane(h)
               PROVE  Sane(h)'
  BY <1>4, <1>5, LocalKeeps DEF ReceiptInv, NodesSane
<1>7. Begun(m, h)
  BY InstallationsBegin
<1>8. Installs(m, h)
  BY <1>3, <1>5, <1>6, <1>7, ScriptsTogether DEF Installs, Scripts
<1>9. ScriptOK(op[m], h)
  BY <1>6 DEF Sane, ScriptsFine
<1>10. Swapping(h)' <=> Swapping(h)
  BY <1>1, <1>3, <1>5 DEF Swapping, Local, OthersStay
<1>11. \A v : Stays(h, v)' <=> Stays(h, v)
  BY <1>4, <1>10 DEF Stays
<1>12. node[h].link = Current /\ Stays(h, Current) /\ node[h].data
  BY <1>9 DEF ScriptOK
<1>13. ScriptOK(op[m], h)' \/ work = "succeeded"
  BY <1>3, <1>4, <1>9, <1>12, <1>11 DEF ScriptOK
<1>14. Agrees(h)'
  BY <1>4, <1>12, <1>11 DEF Agrees
<1>15. AllCurrent(h) => AllCurrent(h)'
  <2>1. \A p \in Ops : Installing(p, h)' =>
            Installing(p, h) /\ op'[p].prior = op[p].prior /\ op'[p].backup = op[p].backup
    BY <1>3, <1>5 DEF Local, OthersStay, Installing
  <2> QED
    BY <1>4, <1>11, <2>1 DEF AllCurrent
<1>16. work = "succeeded" => ~Installing(m, h)'
  BY <1>3 DEF Installing, Scripts
<1> QED
  BY <1>3, <1>4, <1>6, <1>8, <1>12, <1>13, <1>14, <1>15, <1>16, InstallsKeeps

\* Complete repairs what an earlier script has left.
LEMMA RepairKeeps ==
    ASSUME IInv, ReceiptInv, NEW m \in Ops, NEW h \in Nodes, Installing(m, h),
           op' = [op EXCEPT ![m].work = "succeeded"], manifest' = manifest,
           node' = [node EXCEPT ![h].receipt = Current, ![h].amiss = FALSE],
           \A p \in Ops \ {m} : op[p].node = h => op[p].work \notin Scripts \cup Removals,
           node[h].link = Current, node[h].data, Current \in node[h].dirs
    PROVE  NodesSane'
<1>1. op \in [Ops -> OpState] /\ node \in [Nodes -> NodeState] /\ op[m] \in OpState /\ op[m].node = h
  BY DEF IInv, TypeOK, Installing
<1>2. /\ op'[m] = [op[m] EXCEPT !.work = "succeeded"]
      /\ node'[h] = [node[h] EXCEPT !.receipt = Current, !.amiss = FALSE]
  BY <1>1
<1>3. op'[m].work = "succeeded" /\ op'[m].node = h
  BY <1>1, <1>2 DEF OpState
<1>4. /\ node'[h].link = Current /\ node'[h].receipt = Current
      /\ Current \in node'[h].dirs /\ node'[h].data
  BY <1>1, <1>2 DEF NodeState
<1>5. Local(m, h)
  BY <1>1, <1>3 DEF Local, OthersStay
<1>6. \A p \in Ops : ~Installing(p, h)' /\ ~Removing(p, h)'
  BY <1>3, <1>5 DEF Local, OthersStay, Installing, Removing, Scripts, Removals
<1>7. ReceiptFits(h)'
  BY <1>4 DEF ReceiptFits, Agrees, Stays
<1>8. AllCurrent(h)'
  BY <1>4, <1>6 DEF AllCurrent, Stays
<1>9. ScriptsFine(h)' /\ RemovalsFine(h)' /\ StraysHarmless(h)'
  BY <1>6, <1>8 DEF ScriptsFine, RemovalsFine, StraysHarmless
<1>10. OldUnused(h)'
  BY <1>4, <1>6 DEF OldUnused, Old, Current
<1> QED
  BY <1>5, <1>7, <1>9, <1>10, LocalKeeps DEF Sane

LEMMA CompleteKeeps ==
    ASSUME IInv, ReceiptInv, NEW m \in Ops, op[m].work \in {"describe", "activate"},
           Complete(m), manifest' = manifest
    PROVE  NodesSane'
<1>1. op \in [Ops -> OpState] /\ node \in [Nodes -> NodeState]
  BY DEF IInv, TypeOK
<1>2. PICK h \in Nodes : h = op[m].node
  BY NodeKnown DEF IInv, None
<1>3. Installing(m, h)
  BY <1>2 DEF Installing, Scripts
<1> DEFINE alone == \A p \in Ops \ {m} : op[p].node = h => op[p].work \notin Scripts \cup Removals
           repaired == alone /\ node[h].link = Current /\ node[h].data /\ Current \in node[h].dirs
           amiss == node[h].amiss /\ ~repaired
<1>4. node[h].amiss \in BOOLEAN
  BY <1>1 DEF NodeState
<1>5. /\ op' = [op EXCEPT ![m].work = "succeeded"]
      /\ node' = [node EXCEPT ![h].receipt = Current, ![h].amiss = amiss]
  BY <1>1, <1>2 DEF Complete
<1>6. CASE node[h].amiss => amiss
  BY <1>3, <1>4, <1>5, <1>6, ReceiptKeeps
<1>7. CASE node[h].amiss /\ ~amiss
  <2>1. repaired /\ amiss = FALSE
    BY <1>7
  <2>2. node' = [node EXCEPT ![h].receipt = Current, ![h].amiss = FALSE]
    BY <1>5, <2>1
  <2> QED
    BY <1>3, <1>5, <2>1, <2>2, RepairKeeps
<1> QED
  BY <1>6, <1>7

LEMMA DescribeKeeps ==
    ASSUME IInv, ReceiptInv, NEW m \in Ops, Describe(m)
    PROVE  NodesSane'
<1>1. op \in [Ops -> OpState] /\ node \in [Nodes -> NodeState] /\ op[m].work = "describe"
  BY DEF IInv, TypeOK, Describe
<1>2. CASE Complete(m)
  BY <1>1, <1>2, CompleteKeeps DEF Describe
<1>3. CASE /\ op' = [op EXCEPT ![m].work = "activate"]
           /\ node' = [node EXCEPT ![op[m].node].receipt = Current]
  <2>1. PICK h \in Nodes : h = op[m].node
    BY <1>1, NodeKnown DEF IInv, None
  <2>2. Installing(m, h) /\ node[h].amiss \in BOOLEAN
    BY <1>1, <2>1 DEF Installing, Scripts, NodeState
  <2>3. node' = [node EXCEPT ![h].receipt = Current, ![h].amiss = node[h].amiss]
    BY <1>1, <1>3, <2>1 DEF NodeState
  <2> QED
    BY <1>1, <1>3, <2>2, <2>3, ReceiptKeeps DEF Describe
<1> QED
  BY <1>2, <1>3 DEF Describe

LEMMA RollBackKeeps ==
    ASSUME IInv, ReceiptInv, NEW m \in Ops, RollBack(m)
    PROVE  NodesSane'
<1>1. /\ op \in [Ops -> OpState] /\ node \in [Nodes -> NodeState] /\ op[m] \in OpState
      /\ op[m].work \in Scripts
  BY DEF IInv, TypeOK, RollBack
<1>2. PICK h \in Nodes : h = op[m].node
  BY <1>1, NodeKnown DEF IInv, Scripts, None
<1> DEFINE receipt == IF op[m].work = "activate" THEN op[m].backup ELSE node[h].receipt
           amiss == node[h].amiss \/ (op[m].work = "swap" /\ op[m].prior = Current)
<1>3. /\ op'[m] = [op[m] EXCEPT !.work = "failed"]
      /\ node'[h] = [node[h] EXCEPT !.link = op[m].prior, !.amiss = amiss, !.receipt = receipt]
  BY <1>1, <1>2 DEF RollBack
<1>4. /\ op'[m].work = "failed" /\ op'[m].kind = op[m].kind /\ op'[m].pc = op[m].pc
      /\ op'[m].node = h
  BY <1>1, <1>2, <1>3 DEF OpState
<1>5. /\ node'[h].link = op[m].prior /\ node'[h].receipt = receipt
      /\ node'[h].dirs = node[h].dirs /\ node'[h].data = node[h].data
      /\ node'[h].amiss = amiss
  BY <1>1, <1>3 DEF NodeState
<1>6. Local(m, h)
  BY <1>1, <1>2, <1>4 DEF Local, OthersStay, RollBack
<1>7. SUFFICES ASSUME Sane(h), op[m].work = "swap" => op[m].prior # Current
               PROVE  Sane(h)'
  BY <1>5, <1>6, LocalKeeps DEF ReceiptInv, NodesSane
<1>8. Installing(m, h) /\ ~Installing(m, h)' /\ Begun(m, h)
  BY <1>1, <1>2, <1>4, InstallationsBegin DEF Installing, Scripts
<1>9. Installs(m, h)
  BY <1>4, <1>6, <1>7, <1>8, ScriptsTogether DEF Installs
<1>10. ScriptOK(op[m], h)
  BY <1>7, <1>8 DEF Sane, ScriptsFine
<1>11. receipt = op[m].prior
  BY <1>1, <1>10 DEF ScriptOK, Scripts
<1>12. \A v : v = op[m].prior /\ Stays(h, v) => Stays(h, v)'
  <2>1. CASE op[m].work = "swap"
    BY <1>5, <1>7, <2>1 DEF Stays
  <2>2. CASE op[m].work # "swap"
    <3>1. Swapping(h) => Swapping(h)'
      BY <1>6, <2>2 DEF Swapping, Local, OthersStay
    <3> QED
      BY <1>5, <3>1 DEF Stays
  <2> QED
    BY <2>1, <2>2
<1>13. Agrees(h)'
  BY <1>5, <1>10, <1>11, <1>12 DEF ScriptOK, Agrees
<1>14. AllCurrent(h) => AllCurrent(h)'
  <2>1. \A p \in Ops : Installing(p, h)' =>
            Installing(p, h) /\ op'[p].prior = op[p].prior /\ op'[p].backup = op[p].backup
    BY <1>6, <1>8 DEF Local, OthersStay, Installing
  <2> QED
    BY <1>5, <1>8, <1>11, <1>12, <2>1 DEF AllCurrent
<1> QED
  BY <1>4, <1>5, <1>7, <1>8, <1>9, <1>13, <1>14, InstallsKeeps

-----------------------------------------------------------------------------
(* Removals and the cleaning up.                                           *)

LEMMA RemovalKeeps ==
    ASSUME IInv, ReceiptInv, NEW m \in Ops, Removal(m)
    PROVE  NodesSane'
<1>1. /\ op \in [Ops -> OpState] /\ node \in [Nodes -> NodeState] /\ op[m] \in OpState
      /\ op[m].work \in Removals
  BY DEF IInv, TypeOK, Removal, Removals
<1>2. PICK h \in Nodes : h = op[m].node
  BY <1>1, NodeKnown DEF IInv, Removals, None
<1>3. /\ node[h] \in NodeState
      /\ \A n \in Nodes \ {h} : node'[n] = node[n]
      /\ node'[h].amiss = node[h].amiss
      /\ op[m].work = "unlink" => /\ node'[h].link = IF node[h].link = op[m].ver THEN 0 ELSE node[h].link
                                  /\ op'[m].work = "remove"
      /\ op[m].work = "remove" => node'[h].link = node[h].link /\ op'[m].work = "forget"
      /\ op[m].work = "forget" => /\ node'[h].link = node[h].link /\ node'[h].receipt = 0
                                  /\ op'[m].work = "succeeded"
  BY <1>1, <1>2 DEF Removal, NodeState, OpState
<1>4. /\ op'[m].work \in Removals \cup {"succeeded"} /\ op'[m].ver = op[m].ver
      /\ op'[m].kind = op[m].kind /\ op'[m].pc = op[m].pc /\ op'[m].node = h
  BY <1>1, <1>2 DEF Removal, Removals, OpState
<1>5. Local(m, h)
  BY <1>1, <1>2, <1>3, <1>4 DEF Local, OthersStay, Removal
<1>6. SUFFICES ASSUME Sane(h)
               PROVE  Sane(h)'
  BY <1>3, <1>5, LocalKeeps DEF ReceiptInv, NodesSane
<1>7. Removing(m, h)
  BY <1>1, <1>2 DEF Removing
<1>8. RemovalOK(op[m], node[h]) /\ \A p \in Ops : ~Begun(p, h) /\ ~Installing(p, h)
  BY <1>6, <1>7, InstallationsBegin DEF Sane, RemovalsFine
<1>9. \A p \in Ops : ~Begun(p, h)' /\ ~Installing(p, h)'
  BY <1>4, <1>5, <1>8 DEF Local, OthersStay, Begun, Installing, Scripts, Removals
<1>10. \A p \in Ops \ {m} : ~Removing(p, h)'
  <2>1. ASSUME NEW p \in Ops \ {m}, Removing(p, h)
        PROVE  FALSE
    <3>1. Inside(p) /\ Inside(m)
      BY <1>6, <1>8, <2>1 DEF Sane, RemovalsFine, RemovalOK, Inside
    <3> QED
      BY <2>1, <3>1, OneInside
  <2> QED
    BY <1>5, <2>1 DEF Local, OthersStay, Removing
<1>11. node'[h].link = 0
  BY <1>1, <1>3, <1>8 DEF RemovalOK, Removals
<1>12. ReceiptFits(h)'
  <2>1. op[m].work # "forget" => AtWork(h)'
    BY <1>1, <1>3, <1>4 DEF AtWork, Removals
  <2>2. op[m].work = "forget" => Agrees(h)'
    BY <1>3, <1>11 DEF Agrees
  <2> QED
    BY <2>1, <2>2 DEF ReceiptFits
<1>13. RemovalOK(op[m], node[h])' \/ ~Removing(m, h)'
  BY <1>1, <1>3, <1>4, <1>8, <1>11 DEF RemovalOK, Removing, Removals
<1>14. RemovalsFine(h)'
  BY <1>9, <1>10, <1>13 DEF RemovalsFine
<1>15. ScriptsFine(h)' /\ StraysHarmless(h)'
  BY <1>9 DEF ScriptsFine, StraysHarmless
<1>16. OldUnused(h)'
  BY <1>9, <1>11 DEF OldUnused, Old
<1> QED
  BY <1>12, <1>14, <1>15, <1>16 DEF Sane

LEMMA InspectKeeps ==
    ASSUME IInv, ReceiptInv, NEW m \in Ops, Inspect(m)
    PROVE  NodesSane'
<1>1. /\ op \in [Ops -> OpState] /\ node \in [Nodes -> NodeState] /\ op[m] \in OpState
      /\ op[m].pc = "inspect" /\ op[m].work = None
  BY DEF IInv, TypeOK, Inspect, ReceiptInv, Orderly
<1>2. PICK h \in Nodes : h = op[m].node
  BY <1>1, NodeKnown DEF IInv, None
<1>3. /\ op'[m] = [op[m] EXCEPT !.pc = "running", !.work = "unlink", !.ver = node[h].receipt]
      /\ node'[h] = [node[h] EXCEPT !.amiss = @ \/ BusyJob(h)]
  BY <1>1, <1>2 DEF Inspect
<1>4. /\ op'[m].work = "unlink" /\ op'[m].pc = "running" /\ op'[m].ver = node[h].receipt
      /\ op'[m].node = h
  BY <1>1, <1>2, <1>3 DEF OpState
<1>5. /\ node'[h].link = node[h].link /\ node'[h].receipt = node[h].receipt
      /\ node'[h].amiss = (node[h].amiss \/ BusyJob(h))
  BY <1>1, <1>3 DEF NodeState
<1>6. Local(m, h)
  BY <1>1, <1>2, <1>4 DEF Local, OthersStay, Inspect
<1>7. SUFFICES ASSUME Sane(h), ~BusyJob(h)
               PROVE  Sane(h)'
  BY <1>5, <1>6, LocalKeeps DEF ReceiptInv, NodesSane
<1>8. \A p \in Ops : ~Begun(p, h) /\ ~Installing(p, h)
  BY <1>7 DEF BusyJob, Begun, Installing
<1>9. \A p \in Ops : ~Removing(p, h)
  BY <1>1, <1>7, NoRemoval DEF Inside
<1>10. node[h].link = node[h].receipt
  BY <1>7, <1>8, <1>9 DEF Sane, ReceiptFits, Agrees, AtWork, Installing, Removing
<1>11. \A p \in Ops : /\ ~Begun(p, h)' /\ ~Installing(p, h)'
                      /\ Removing(p, h)' => p = m
                      /\ Updated(p, h)' => Updated(p, h)
  BY <1>4, <1>6, <1>8, <1>9
     DEF Local, OthersStay, Begun, Installing, Removing, Updated, Scripts, Removals
<1>12. ReceiptFits(h)'
  BY <1>4 DEF ReceiptFits, AtWork, Removals
<1>13. RemovalsFine(h)'
  BY <1>4, <1>5, <1>10, <1>11 DEF RemovalsFine, RemovalOK
<1>14. ScriptsFine(h)' /\ StraysHarmless(h)'
  BY <1>11 DEF ScriptsFine, StraysHarmless
<1>15. OldUnused(h)'
  BY <1>5, <1>7, <1>11 DEF Sane, OldUnused
<1> QED
  BY <1>12, <1>13, <1>14, <1>15 DEF Sane

LEMMA WipeKeeps ==
    ASSUME IInv, ReceiptInv, NEW m \in Ops, Wipe(m)
    PROVE  NodesSane'
<1>1. /\ op \in [Ops -> OpState] /\ node \in [Nodes -> NodeState] /\ op[m] \in OpState
      /\ op[m].pc = "wipe" /\ op[m].work = None
  BY DEF IInv, TypeOK, Wipe, ReceiptInv, Orderly
<1>2. PICK h \in Nodes : h = op[m].node
  BY <1>1, NodeKnown DEF IInv, None
<1>3. /\ op'[m] = [op[m] EXCEPT !.pc = "done"]
      /\ node'[h] = [node[h] EXCEPT !.data = FALSE,
                                    !.amiss = @ \/ BusyJob(h) \/ node[h].receipt # 0]
  BY <1>1, <1>2 DEF Wipe, Leave
<1>4. op'[m].work = None /\ op'[m].node = h
  BY <1>1, <1>2, <1>3 DEF OpState
<1>5. /\ node'[h].link = node[h].link /\ node'[h].receipt = node[h].receipt
      /\ node'[h].amiss = (node[h].amiss \/ BusyJob(h) \/ node[h].receipt # 0)
  BY <1>1, <1>3 DEF NodeState
<1>6. Local(m, h)
  BY <1>1, <1>2, <1>4 DEF Local, OthersStay, Wipe, Leave
<1>7. SUFFICES ASSUME Sane(h), ~BusyJob(h), node[h].receipt = 0
               PROVE  Sane(h)'
  BY <1>5, <1>6, LocalKeeps DEF ReceiptInv, NodesSane
<1>8. \A p \in Ops : ~Begun(p, h) /\ ~Installing(p, h)
  BY <1>7 DEF BusyJob, Begun, Installing
<1>9. \A p \in Ops : ~Removing(p, h)
  BY <1>1, <1>7, NoRemoval DEF Inside
<1>10. node[h].link = 0
  BY <1>7, <1>8, <1>9 DEF Sane, ReceiptFits, Agrees, AtWork, Installing, Removing
<1>11. \A p \in Ops : ~Begun(p, h)' /\ ~Installing(p, h)' /\ ~Removing(p, h)'
  BY <1>4, <1>6, <1>8, <1>9
     DEF Local, OthersStay, Begun, Installing, Removing, Scripts, Removals, None
<1>12. ReceiptFits(h)'
  BY <1>5, <1>7, <1>10 DEF ReceiptFits, Agrees
<1>13. RemovalsFine(h)' /\ ScriptsFine(h)' /\ StraysHarmless(h)'
  BY <1>11 DEF RemovalsFine, ScriptsFine, StraysHarmless
<1>14. OldUnused(h)'
  BY <1>5, <1>10, <1>11 DEF OldUnused, Old
<1> QED
  BY <1>12, <1>13, <1>14 DEF Sane

LEMMA CleanKeeps ==
    ASSUME IInv, ReceiptInv, NEW m \in Ops, Clean(m)
    PROVE  NodesSane'
<1>1. /\ op \in [Ops -> OpState] /\ node \in [Nodes -> NodeState] /\ op[m] \in OpState
      /\ op[m].pc = "clean" /\ op[m].work = "succeeded"
  BY DEF IInv, TypeOK, Clean, ReceiptInv, Orderly
<1>2. PICK h \in Nodes : h = op[m].node
  BY <1>1, NodeKnown DEF IInv
<1>3. op'[m] = [op[m] EXCEPT !.pc = "done"]
  BY <1>1 DEF Clean
<1>4. op'[m].work = "succeeded" /\ op'[m].pc = "done" /\ op'[m].node = h
  BY <1>1, <1>2, <1>3 DEF OpState
<1>5. OthersStay(m) /\ manifest' = manifest
  BY <1>1 DEF Clean, OthersStay
<1>6. CASE UNCHANGED node
  <2>1. Idles(m)
    BY <1>1, <1>4 DEF Idles, Scripts, Removals
  <2> QED
    BY <1>5, <1>6, <2>1, IdlesKeeps
<1>7. CASE node[h].link = Current /\ node' = [node EXCEPT ![h].dirs = @ \ {Old}]
  <2>1. /\ node'[h].link = node[h].link /\ node'[h].receipt = node[h].receipt
        /\ node'[h].dirs = node[h].dirs \ {Old} /\ node'[h].data = node[h].data
        /\ node'[h].amiss = node[h].amiss
    BY <1>1, <1>7 DEF NodeState
  <2>2. Local(m, h)
    BY <1>1, <1>2, <1>4, <1>5, <1>7 DEF Local
  <2>3. SUFFICES ASSUME Sane(h)
                 PROVE  Sane(h)'
    BY <2>1, <2>2, LocalKeeps DEF ReceiptInv, NodesSane
  <2>4. Updated(m, h) /\ ~Updated(m, h)'
    BY <1>1, <1>2, <1>4 DEF Updated
  <2>5. \A p \in Ops : Installing(p, h) => op[p].prior # Old
    BY <2>3, <2>4 DEF Sane, OldUnused
  <2>6. \A p \in Ops : /\ Installing(p, h)' => Installing(p, h) /\ op'[p] = op[p]
                       /\ Removing(p, h)' => Removing(p, h) /\ op'[p] = op[p]
                       /\ Begun(p, h)' => Begun(p, h) /\ (Inside(p) => Inside(p)')
                       /\ Updated(p, h)' => Updated(p, h)
                       /\ op'[p].node = op[p].node /\ op'[p].work = op[p].work
    BY <1>1, <1>2, <1>4, <1>5, <2>4
       DEF OthersStay, Installing, Removing, Begun, Updated, Inside, Scripts, Removals
  <2>7. Swapping(h)' <=> Swapping(h)
    BY <2>6 DEF Swapping
  <2>8. \A v : v # Old /\ Stays(h, v) => Stays(h, v)'
    BY <2>1, <2>7 DEF Stays
  <2>9. ReceiptFits(h)'
    <3>1. AtWork(h) => AtWork(h)'
      BY <2>6 DEF AtWork
    <3>2. Agrees(h) => Agrees(h)'
      BY <1>7, <2>1, <2>8 DEF Agrees, Old, Current
    <3> QED
      BY <2>3, <3>1, <3>2 DEF Sane, ReceiptFits
  <2>10. ScriptsFine(h)'
    <3>1. SUFFICES ASSUME NEW p \in Ops, Installing(p, h)'
                   PROVE  ScriptOK(op[p], h)'
      BY DEF ScriptsFine
    <3>2. ScriptOK(op[p], h) /\ op'[p] = op[p] /\ op[p].prior # Old
      BY <2>3, <2>5, <2>6, <3>1 DEF Sane, ScriptsFine
    <3> QED
      BY <2>1, <2>8, <3>2 DEF ScriptOK, Old, Current
  <2>11. RemovalsFine(h)'
    BY <2>1, <2>3, <2>6 DEF Sane, RemovalsFine, RemovalOK
  <2>12. AllCurrent(h) => AllCurrent(h)'
    BY <2>1, <2>6, <2>8 DEF AllCurrent, Old, Current
  <2>13. StraysHarmless(h)'
    BY <1>5, <2>3, <2>6, <2>12 DEF Sane, StraysHarmless
  <2>14. OldUnused(h)'
    BY <2>1, <2>3, <2>6 DEF Sane, OldUnused
  <2> QED
    BY <2>9, <2>10, <2>11, <2>13, <2>14 DEF Sane
<1> QED
  BY <1>2, <1>6, <1>7 DEF Clean

-----------------------------------------------------------------------------
(* Every step.                                                             *)

\* Where a fault strikes there is nothing to keep.
LEMMA FaultKeeps ==
    ASSUME IInv, ReceiptInv, NEW m \in Ops, GivenUp(m) \/ Cut(m)
    PROVE  NodesSane'
<1>1. op \in [Ops -> OpState] /\ node \in [Nodes -> NodeState] /\ op[m] \in OpState
  BY DEF IInv, TypeOK
<1>2. PICK h \in Nodes : h = op[m].node
  BY <1>1, NodeKnown DEF IInv, GivenUp, Cut, Scripts, Removals, None
<1>3. node'[h].amiss = TRUE /\ \A n \in Nodes \ {h} : node'[n] = node[n]
  BY <1>1, <1>2 DEF GivenUp, Cut, NodeState
<1>4. OthersStay(m) /\ manifest' = manifest /\ op'[m].node = h
  BY <1>1, <1>2 DEF GivenUp, Cut, Leave, OthersStay, OpState
<1>5. Local(m, h)
  BY <1>2, <1>3, <1>4 DEF Local
<1> QED
  BY <1>3, <1>5, LocalKeeps

\* An installation that is submitted, or started under the gate.
LEMMA EnlistKeeps ==
    ASSUME IInv, ReceiptInv, NEW m \in Ops, Submit(m) \/ RunDirect(m)
    PROVE  NodesSane'
<1>1. /\ op \in [Ops -> OpState] /\ op[m] \in OpState /\ Inside(m) /\ op[m].work = None
  BY DEF IInv, TypeOK, ReceiptInv, Orderly, Submit, RunDirect, Inside
<1>2. /\ op'[m].work = "queued" /\ op'[m].node = op[m].node
      /\ manifest.durable \/ Inside(m)'
  BY <1>1 DEF Submit, RunDirect, OpState, Inside
<1>3. OthersStay(m) /\ UNCHANGED <<node, manifest>>
  BY <1>1 DEF Submit, RunDirect, OthersStay
<1>4. ASSUME NEW n \in Nodes, ~node[n].amiss
      PROVE  Unmoved(m, n)
  <2>1. \A q \in Ops : ~Removing(q, n)
    BY <1>1, <1>4, NoRemoval DEF ReceiptInv, NodesSane
  <2> QED
    BY <1>1, <1>2, <2>1
       DEF Unmoved, Installing, Removing, Begun, Updated, Scripts, Removals, None
<1> QED
  BY <1>3, <1>4, CalmKeeps

\* The operation returns from its script, or from waiting for its job.
LEMMA ReturnKeeps ==
    ASSUME IInv, ReceiptInv, NEW m \in Ops, Returned(m) \/ JobWaited(m)
    PROVE  NodesSane'
<1>1. op \in [Ops -> OpState] /\ op[m] \in OpState
  BY DEF IInv, TypeOK
<1>2. /\ op'[m].work = op[m].work /\ op'[m].node = op[m].node /\ op'[m].kind = op[m].kind
      /\ op'[m].prior = op[m].prior /\ op'[m].backup = op[m].backup /\ op'[m].ver = op[m].ver
  BY <1>1 DEF Returned, JobWaited, Leave, OpState
<1>3. \/ op[m].pc = "running" /\ op[m].work \in {"succeeded", "failed"}
      \/ op[m].pc = "job"
  BY DEF Returned, JobWaited
<1>4. OthersStay(m) /\ UNCHANGED <<node, manifest>>
  BY <1>1 DEF Returned, JobWaited, Leave, OthersStay
<1>5. \A n \in Nodes : Unmoved(m, n)
  BY <1>2, <1>3
     DEF Unmoved, Installing, Removing, Begun, Updated, Inside, Scripts, Removals
<1> QED
  BY <1>4, <1>5, CalmKeeps

\* Before and after its work an operation means nothing to a node.
Unhurried(m) ==
    \/ Outdated(m) \/ Enter(m) \/ Refused(m) \/ Place(m) \/ Look(m)
    \/ Select(m) \/ SubmitCall(m) \/ CallEnds(m)

LEMMA Enqueued ==
    ASSUME op \in [Ops -> OpState], NEW m \in Ops, NEW k, NEW n, Enqueue(m, k, n)
    PROVE  OthersStay(m) /\ op'[m].work = None /\ op'[m].pc = "queue"
BY DEF Enqueue, Idle, OthersStay

LEMMA ArriveKeeps ==
    ASSUME IInv, ReceiptInv, NEW m \in Ops, NEW k \in Kinds, NEW n \in Nodes, Arrive(m, k, n)
    PROVE  NodesSane'
<1>1. op \in [Ops -> OpState] /\ op[m] \in OpState /\ op[m].work = None
  BY DEF IInv, TypeOK, Located, OpOK, Arrive
<1>2. UNCHANGED <<node, manifest>>
  BY DEF Arrive
<1>3. CASE k \in {"update", "call"}
  <2>1. OthersStay(m) /\ op'[m].work = None
    BY <1>1, <1>3 DEF Arrive, OthersStay, OpState
  <2> QED
    BY <1>1, <1>2, <2>1, IdlesKeeps DEF Idles, Scripts, Removals, None
<1>4. CASE k \notin {"update", "call"}
  <2>1. OthersStay(m) /\ op'[m].work = None
    BY <1>1, <1>4, Enqueued DEF Arrive
  <2> QED
    BY <1>1, <1>2, <2>1, IdlesKeeps DEF Idles, Scripts, Removals, None
<1> QED
  BY <1>3, <1>4

LEMMA UnhurriedKeeps ==
    ASSUME IInv, ReceiptInv, NEW m \in Ops, Unhurried(m)
    PROVE  NodesSane'
<1>1. /\ op \in [Ops -> OpState] /\ op[m] \in OpState /\ OpOK(m) /\ Orderly(m)
  BY DEF IInv, TypeOK, Located, ReceiptInv
<1>2. UNCHANGED <<node, manifest>>
  BY DEF Unhurried, Outdated, Enter, Refused, Place, Look, Select, SubmitCall, CallEnds
<1>3. CASE Outdated(m)
  <2>1. OthersStay(m) /\ op[m].work = None /\ op'[m].work = None
    BY <1>1, <1>3, Enqueued DEF Outdated, OthersStay, OpState, OpOK
  <2> QED
    BY <1>2, <2>1, IdlesKeeps DEF Idles, Scripts, Removals, None
<1>4. CASE Enter(m) \/ Refused(m) \/ Place(m) \/ Look(m) \/ Select(m)
  <2>1. OthersStay(m) /\ op[m].work = None /\ op'[m].work = None
    BY <1>1, <1>4
       DEF Enter, Refused, Leave, Place, Look, Select, OthersStay, OpState, OpOK, Orderly
  <2> QED
    BY <1>2, <2>1, IdlesKeeps DEF Idles, Scripts, Removals, None
<1>5. CASE SubmitCall(m)
  <2>1. OthersStay(m) /\ op[m].work = None /\ op'[m].work \in {"queued", None} /\ op'[m].kind = "call"
    BY <1>1, <1>5 DEF SubmitCall, OthersStay, OpState, OpOK
  <2> QED
    BY <1>2, <2>1, IdlesKeeps DEF Idles, Scripts, Removals, None
<1>6. CASE CallEnds(m)
  <2>1. OthersStay(m) /\ op[m].work = "calling" /\ op'[m].work = "succeeded" /\ op'[m].pc = "done"
    BY <1>1, <1>6 DEF CallEnds, OthersStay, OpState, OpOK, None
  <2> QED
    BY <1>2, <2>1, IdlesKeeps DEF Idles, Scripts, Removals
<1> QED
  BY <1>3, <1>4, <1>5, <1>6 DEF Unhurried

LEMMA SaneKept ==
    ASSUME IInv, ReceiptInv, Next
    PROVE  NodesSane'
<1>1. PICK m \in Ops : (\E k \in Kinds, n \in Nodes : Arrive(m, k, n)) \/ Proceed(m) \/ Work(m)
  BY DEF Next
<1>2. CASE \E k \in Kinds, n \in Nodes : Arrive(m, k, n)
  BY <1>2, ArriveKeeps
<1>3. CASE Proceed(m)
  BY <1>3, UnhurriedKeeps, EnlistKeeps, ReturnKeeps, FaultKeeps, CleanKeeps, InspectKeeps, WipeKeeps
     DEF Proceed, Unhurried
<1>4. CASE Work(m)
  <2>1. CASE Activate(m)
    BY <2>1, CompleteKeeps DEF Activate
  <2> QED
    BY <1>4, <2>1, StartKeeps, UnhurriedKeeps, CopyKeeps, DescribeKeeps, RollBackKeeps,
       RemovalKeeps, FaultKeeps DEF Work, Unhurried
<1> QED
  BY <1>1, <1>2, <1>3, <1>4

LEMMA OrderlyKept ==
    ASSUME IInv, ReceiptInv, Next
    PROVE  \A m \in Ops : Orderly(m)'
<1>1. PICK m \in Ops : (\E k \in Kinds, n \in Nodes : Arrive(m, k, n)) \/ Proceed(m) \/ Work(m)
  BY DEF Next
<1>2. op \in [Ops -> OpState] /\ op[m] \in OpState /\ Orderly(m) /\ OpOK(m)
  BY DEF IInv, TypeOK, Located, ReceiptInv
<1>3. SUFFICES OthersStay(m) /\ Orderly(m)'
  BY DEF ReceiptInv, Orderly, OthersStay
<1>4. CASE \E k \in Kinds, n \in Nodes : Arrive(m, k, n)
  <2>1. PICK k \in Kinds, n \in Nodes : Arrive(m, k, n)
    BY <1>4
  <2>2. CASE k \in {"update", "call"}
    <3>1. OthersStay(m) /\ op'[m].pc \in {"outdated", "select"}
      BY <1>2, <2>1, <2>2 DEF Arrive, OthersStay, OpState
    <3> QED
      BY <3>1 DEF Orderly
  <2>3. CASE k \notin {"update", "call"}
    BY <1>2, <2>1, <2>3, Enqueued DEF Arrive, Orderly
  <2> QED
    BY <2>2, <2>3
<1>5. CASE Proceed(m)
  <2>1. CASE Outdated(m)
    <3>1. CASE Enqueue(m, "update", op[m].node)
      BY <1>2, <3>1, Enqueued DEF Orderly
    <3>2. CASE op' = [op EXCEPT ![m].pc = "done"]
      BY <1>2, <3>2 DEF OthersStay, Orderly, OpState
    <3> QED
      BY <2>1, <3>1, <3>2 DEF Outdated
  <2>2. CASE Enter(m) \/ Refused(m) \/ Place(m) \/ Look(m)
    BY <1>2, <2>2 DEF Enter, Refused, Leave, Place, Look, OthersStay, Orderly, OpState
  <2>3. CASE Submit(m) \/ RunDirect(m) \/ Returned(m) \/ GivenUp(m) \/ JobWaited(m)
    BY <1>2, <2>3 DEF Submit, RunDirect, Returned, GivenUp, JobWaited, Leave,
                      OthersStay, Orderly, OpState
  <2>4. CASE Clean(m) \/ Inspect(m) \/ Wipe(m) \/ Select(m) \/ SubmitCall(m)
    BY <1>2, <2>4 DEF Clean, Inspect, Wipe, Leave, Select, SubmitCall, OthersStay, Orderly, OpState
  <2> QED
    BY <1>5, <2>1, <2>2, <2>3, <2>4 DEF Proceed
<1>6. CASE Work(m)
  <2>1. OthersStay(m) /\ op'[m].pc = op[m].pc /\ op[m].work \notin {None, "succeeded"}
    BY <1>2, <1>6 DEF Work, Start, CallEnds, Copy, Describe, Activate, Complete, RollBack, Removal,
                      Cut, OthersStay, OpState, Scripts, Removals, None
  <2> QED
    BY <1>2, <2>1 DEF Orderly
<1> QED
  BY <1>1, <1>4, <1>5, <1>6

LEMMA ReceiptInit ==
    ASSUME Init
    PROVE  ReceiptInv
<1>1. PICK v \in [Nodes -> Initial] :
          /\ node = [n \in Nodes |-> Installed(v[n])]
          /\ op \in [Ops -> {Idle}] \cup
                 {[m \in Ops |-> IF m = c THEN LeftRunning(n, v[n]) ELSE Idle] :
                     c \in {c \in Ops : "call" \in Kinds /\ manifest.durable},
                     n \in {n \in Nodes : v[n] # 0}}
  BY DEF Init
<1>2. \A m \in Ops : /\ op[m].work \in {None, "calling"} /\ op[m].pc \in {"idle", "done"}
  <2>1. CASE op \in [Ops -> {Idle}]
    BY <2>1 DEF Idle
  <2>2. CASE \E c \in Ops, n \in Nodes :
               op = [m \in Ops |-> IF m = c THEN LeftRunning(n, v[n]) ELSE Idle]
    BY <2>2 DEF Idle, LeftRunning
  <2> QED
    BY <1>1, <2>1, <2>2
<1>3. \A m \in Ops : Orderly(m)
  BY <1>2 DEF Orderly
<1>4. ASSUME NEW n \in Nodes
      PROVE  Sane(n)
  <2>1. \A m \in Ops : ~Installing(m, n) /\ ~Removing(m, n) /\ ~Begun(m, n) /\ ~Updated(m, n)
    BY <1>2 DEF Installing, Removing, Begun, Updated, Scripts, Removals, None
  <2>2. Agrees(n)
    BY <1>1 DEF Agrees, Installed, Stays
  <2> QED
    BY <2>1, <2>2 DEF Sane, ReceiptFits, ScriptsFine, RemovalsFine, StraysHarmless, OldUnused
<1> QED
  BY <1>3, <1>4 DEF ReceiptInv, NodesSane

LEMMA ReceiptStep ==
    ASSUME IInv, ReceiptInv, [Next]_vars
    PROVE  ReceiptInv'
<1>1. CASE Next
  BY <1>1, SaneKept, OrderlyKept DEF ReceiptInv
<1>2. CASE UNCHANGED vars
  <2>1. \A n \in Nodes, p \in Ops : Unmoved(p, n)
    BY <1>2, OtherUnmoved DEF vars
  <2>2. NodesSane'
    BY <1>2, <2>1, UnmovedKeeps DEF vars, ReceiptInv, NodesSane
  <2> QED
    BY <1>2, <2>2 DEF vars, ReceiptInv, Orderly
<1> QED
  BY <1>1, <1>2

\* What the scripts and the checks before them keep of a node on which no script was cut
\* off or begun blindly.
THEOREM ReceiptInvariance == Spec => [](IInv /\ ReceiptInv)
<1>1. Init => IInv /\ ReceiptInv
  BY InitInv, ReceiptInit
<1>2. IInv /\ ReceiptInv /\ [Next]_vars => (IInv /\ ReceiptInv)'
  BY InvKept, ReceiptStep
<1> QED
  BY <1>1, <1>2, PTL DEF Spec

\* Between the lifecycle scripts of install.sh and uninstall.sh the receipt, the link and
\* the directories agree, whichever step an installation fails at, for any number of nodes
\* and operations, but at a node that is `amiss`: where a script was cut off or begun blindly,
\* or failed between the removal and the move of its own version's directory.
THEOREM ReceiptsAreTrue == Spec => []ReceiptIsTrue
<1>1. IInv /\ ReceiptInv => ReceiptIsTrue
  <2>1. \A n \in Nodes : Swapping(n) => AtWork(n)
    BY DEF Swapping, AtWork, Scripts
  <2> QED
    BY <2>1 DEF ReceiptInv, NodesSane, Sane, ReceiptFits, Agrees, Stays, ReceiptIsTrue
<1> QED
  BY <1>1, ReceiptInvariance, PTL

-----------------------------------------------------------------------------
(* The lifecycle of modules beside the jobs of one module and the          *)
(* provisioning of a corpus: what MCModules checks on one instance holds   *)
(* for any nodes, operations, jobs and calls.                              *)

\* What CorpusProofs proves, of the corpus of MCModules.
Provisioned == INSTANCE CorpusProofs WITH
    Sources <- {"arxiv", "wikipedia"}, Batches <- 1, Topics <- 1, MaxRelease <- 2, MaxDay <- 1,
    MaxKills <- 1

\* Corpora and Provisioned are the same module under the same substitution.
LEMMA SameInit == Corpora!Init => Provisioned!Init
  BY DEF Corpora!NoDb, Corpora!NoCheckpoint, Corpora!NoRun, Corpora!Init, Provisioned!NoDb,
         Provisioned!NoCheckpoint, Provisioned!NoRun, Provisioned!Init

LEMMA SameNext == Corpora!Next => Provisioned!Next
  BY DEF Corpora!Feed, Corpora!Nothing, Corpora!NoDb, Corpora!Empty, Corpora!NoCheckpoint,
         Corpora!NoRun, Corpora!Fails, Corpora!Upserted, Corpora!Harvested, Corpora!Dropped,
         Corpora!Indexed, Corpora!Recorded, Corpora!Has, Corpora!Due, Corpora!Working,
         Corpora!ProvisionStart, Corpora!Legible, Corpora!Current, Corpora!Matches, Corpora!NewCheckpoint,
         Corpora!Resume, Corpora!Discard, Corpora!SaveCheckpoint, Corpora!Prune, Corpora!Save,
         Corpora!SavePruned, Corpora!Retained, Corpora!NextSource, Corpora!Ingest, Corpora!SaveOffset,
         Corpora!Ingested, Corpora!Harvest, Corpora!SavePage, Corpora!HarvestDone, Corpora!SaveCaught,
         Corpora!Reingested, Corpora!Finish, Corpora!Verify, Corpora!Retire, Corpora!Activate,
         Corpora!Done, Corpora!RefreshStart, Corpora!RefreshPage, Corpora!RefreshDone, Corpora!Killed,
         Corpora!Raises, Corpora!NextDay, Corpora!Publish, Corpora!Republish, Corpora!Provision,
         Corpora!Refresh, Corpora!World, Corpora!Next, Provisioned!Feed, Provisioned!Nothing,
         Provisioned!NoDb, Provisioned!Empty, Provisioned!NoCheckpoint, Provisioned!NoRun,
         Provisioned!Fails, Provisioned!Upserted, Provisioned!Harvested, Provisioned!Dropped,
         Provisioned!Indexed, Provisioned!Recorded, Provisioned!Has, Provisioned!Due,
         Provisioned!Working, Provisioned!ProvisionStart, Provisioned!Legible, Provisioned!Current, Provisioned!Matches,
         Provisioned!NewCheckpoint, Provisioned!Resume, Provisioned!Discard,
         Provisioned!SaveCheckpoint, Provisioned!Prune, Provisioned!Save, Provisioned!SavePruned,
         Provisioned!Retained, Provisioned!NextSource, Provisioned!Ingest, Provisioned!SaveOffset,
         Provisioned!Ingested, Provisioned!Harvest, Provisioned!SavePage, Provisioned!HarvestDone,
         Provisioned!SaveCaught, Provisioned!Reingested, Provisioned!Finish, Provisioned!Verify,
         Provisioned!Retire, Provisioned!Activate, Provisioned!Done, Provisioned!RefreshStart,
         Provisioned!RefreshPage, Provisioned!RefreshDone, Provisioned!Killed, Provisioned!Raises,
         Provisioned!NextDay, Provisioned!Publish, Provisioned!Republish, Provisioned!Provision,
         Provisioned!Refresh, Provisioned!World, Provisioned!Next

LEMMA SameTypes == Corpora!TypeOK <=> Provisioned!TypeOK
  BY DEF Corpora!Days, Corpora!Records, Corpora!Releases, Corpora!Held, Corpora!Flaws, Corpora!Db,
         Corpora!NoDb, Corpora!NoCheckpoint, Corpora!TypeOK, Provisioned!Days, Provisioned!Records,
         Provisioned!Releases, Provisioned!Held, Provisioned!Flaws, Provisioned!Db, Provisioned!NoDb,
         Provisioned!NoCheckpoint, Provisioned!TypeOK

LEMMA SameWhole == Corpora!ActivatedIsWhole <=> Provisioned!ActivatedIsWhole
  BY DEF Corpora!Feed, Corpora!Nothing, Corpora!NoDb, Corpora!Has, Corpora!Working, Corpora!Whole,
         Corpora!ActivatedIsWhole, Provisioned!Feed, Provisioned!Nothing, Provisioned!NoDb,
         Provisioned!Has, Provisioned!Working, Provisioned!Whole, Provisioned!ActivatedIsWhole

LEMMA SameGap == Corpora!NoGap <=> Provisioned!NoGap
  BY DEF Corpora!Feed, Corpora!NoDb, Corpora!Has, Corpora!NoGap, Provisioned!Feed, Provisioned!NoDb,
         Provisioned!Has, Provisioned!NoGap

\* What JobManagerProofs proves, of the jobs of MCModules.
KeyedJobs == INSTANCE JobManagerProofs WITH
    keysOf <- [j \in Jobs |-> {1}], Limit <- 2, MaxRestarts <- 0

\* Keyed and KeyedJobs are the same module under the same substitution.
LEMMA SameJobsInit == Keyed!Init => KeyedJobs!Init
  BY DEF Keyed!Nothing, Keyed!Idle, Keyed!Init, KeyedJobs!Nothing, KeyedJobs!Idle, KeyedJobs!Init

LEMMA SameMoves == Keyed!Node!Moves = KeyedJobs!Node!Moves
  BY DEF Keyed!Node!Moves, Keyed!Node!Unsettled, Keyed!Node!Terminal, KeyedJobs!Node!Moves,
         KeyedJobs!Node!Unsettled, KeyedJobs!Node!Terminal

LEMMA SameStatus == Keyed!Status = KeyedJobs!Status
  BY DEF Keyed!Terminal, Keyed!Unsettled, Keyed!Listing, Keyed!Over, Keyed!Status,
         KeyedJobs!Terminal, KeyedJobs!Unsettled, KeyedJobs!Listing, KeyedJobs!Over, KeyedJobs!Status

LEMMA SameWritten ==
    ASSUME NEW j, Keyed!StateWritten(j)
    PROVE  KeyedJobs!StateWritten(j)
  BY SameMoves, SameStatus, Zenon DEF Keyed!StateWritten, KeyedJobs!StateWritten

LEMMA SameNodeStep ==
    ASSUME NEW j, Keyed!NodeStep(j)
    PROVE  KeyedJobs!NodeStep(j)
  BY SameWritten DEF Keyed!historyVars, Keyed!LateSubmission, Keyed!NodeStep,
         KeyedJobs!historyVars, KeyedJobs!LateSubmission, KeyedJobs!NodeStep

LEMMA SameCallStep ==
    ASSUME NEW c, Keyed!Arrive(c) \/ Keyed!ListServe(c) \/ Keyed!ListFails(c) \/ Keyed!Proceed(c)
    PROVE  KeyedJobs!Arrive(c) \/ KeyedJobs!ListServe(c) \/ KeyedJobs!ListFails(c) \/ KeyedJobs!Proceed(c)
  BY Zenon DEF Keyed!historyVars, Keyed!Terminal, Keyed!Unsettled, Keyed!Over, Keyed!Nothing,
         Keyed!Idle, Keyed!At, Keyed!Stage, Keyed!Return, Keyed!Begin, Keyed!Script,
         Keyed!CallSubmit, Keyed!CallList, Keyed!CallCancel, Keyed!Tick, Keyed!SubmitNext,
         Keyed!Listed, Keyed!ListServe, Keyed!ListFails, Keyed!SettledBy, Keyed!Announce,
         Keyed!Active, Keyed!Admitted, Keyed!NextJob, Keyed!Reconcile, Keyed!Continue,
         Keyed!ListReply, Keyed!ListUnreachable, Keyed!SubmitServe, Keyed!SubmitReply,
         Keyed!SubmitRefused, Keyed!SubmitTimesOut, Keyed!CancelServe, Keyed!CancelReply,
         Keyed!CancelFails, Keyed!Handled, Keyed!RecoverServe, Keyed!ExpireServe,
         Keyed!ReconcileReply, Keyed!ReconcileNoChange, Keyed!Arrive, Keyed!Proceed,
         Keyed!Cardinality, KeyedJobs!historyVars, KeyedJobs!Terminal, KeyedJobs!Unsettled,
         KeyedJobs!Over, KeyedJobs!Nothing, KeyedJobs!Idle, KeyedJobs!At, KeyedJobs!Stage,
         KeyedJobs!Return, KeyedJobs!Begin, KeyedJobs!Script, KeyedJobs!CallSubmit,
         KeyedJobs!CallList, KeyedJobs!CallCancel, KeyedJobs!Tick, KeyedJobs!SubmitNext,
         KeyedJobs!Listed, KeyedJobs!ListServe, KeyedJobs!ListFails, KeyedJobs!SettledBy,
         KeyedJobs!Announce, KeyedJobs!Active, KeyedJobs!Admitted, KeyedJobs!NextJob,
         KeyedJobs!Reconcile, KeyedJobs!Continue, KeyedJobs!ListReply, KeyedJobs!ListUnreachable,
         KeyedJobs!SubmitServe, KeyedJobs!SubmitReply, KeyedJobs!SubmitRefused,
         KeyedJobs!SubmitTimesOut, KeyedJobs!CancelServe, KeyedJobs!CancelReply,
         KeyedJobs!CancelFails, KeyedJobs!Handled, KeyedJobs!RecoverServe, KeyedJobs!ExpireServe,
         KeyedJobs!ReconcileReply, KeyedJobs!ReconcileNoChange, KeyedJobs!Arrive,
         KeyedJobs!Proceed, KeyedJobs!Cardinality

LEMMA SameRestart == Keyed!Restart => KeyedJobs!Restart
  BY DEF Keyed!Nothing, Keyed!Idle, Keyed!At, Keyed!Restart, KeyedJobs!Nothing, KeyedJobs!Idle,
         KeyedJobs!At, KeyedJobs!Restart

LEMMA SameJobsNext == Keyed!Next => KeyedJobs!Next
  BY SameNodeStep, SameCallStep, SameRestart DEF Keyed!Next, KeyedJobs!Next

LEMMA SameJobsTypes == Keyed!TypeOK <=> KeyedJobs!TypeOK
  BY DEF Keyed!Terminal, Keyed!Unsettled, Keyed!Listing, Keyed!Over, Keyed!Status, Keyed!Call,
         Keyed!TypeOK, KeyedJobs!Terminal, KeyedJobs!Unsettled, KeyedJobs!Listing, KeyedJobs!Over,
         KeyedJobs!Status, KeyedJobs!Call, KeyedJobs!TypeOK

LEMMA SameHeld == Keyed!ResourcesHeld <=> KeyedJobs!ResourcesHeld
  BY DEF Keyed!Unsettled, Keyed!Unfinished, Keyed!ResourcesHeld, KeyedJobs!Unsettled,
         KeyedJobs!Unfinished, KeyedJobs!ResourcesHeld

\* The composition leaves each part its own behaviours.
LEMMA LifecycleOfModules == MCSpec => Spec
<1>1. MCInit => Init
  BY DEF MCInit
<1>2. [MCNext]_<<part, vars, jobVars, corpusVars>> => [Next]_vars
  BY DEF MCNext
<1> QED
  BY <1>1, <1>2, PTL DEF MCSpec, Spec

LEMMA CorpusOfModules == MCSpec => Provisioned!Spec
<1>1. MCInit => Provisioned!Init
  BY SameInit DEF MCInit
<1>2. [MCNext]_<<part, vars, jobVars, corpusVars>> => [Provisioned!Next]_(Provisioned!vars)
  BY SameNext DEF MCNext, corpusVars, Provisioned!vars
<1> QED
  BY <1>1, <1>2, PTL DEF MCSpec, Provisioned!Spec

LEMMA JobsOfModules == MCSpec => KeyedJobs!Spec
<1>1. MCInit => KeyedJobs!Init
  BY SameJobsInit DEF MCInit
<1>2. [MCNext]_<<part, vars, jobVars, corpusVars>> => [KeyedJobs!Next]_(KeyedJobs!vars)
  BY SameJobsNext DEF MCNext, jobVars, KeyedJobs!vars
<1> QED
  BY <1>1, <1>2, PTL DEF MCSpec, KeyedJobs!Spec

LEMMA CorpusSizes == Provisioned!Sizes
BY DEF Provisioned!Sizes, Provisioned!Feed

\* Whichever part runs, its variables keep to their types.
THEOREM TypesAreRight == MCSpec => []TypesOK
<1>1. TypeOK /\ KeyedJobs!TypeOK /\ Provisioned!TypeOK => TypesOK
  BY SameTypes, SameJobsTypes DEF TypesOK
<1>2. Provisioned!Spec => []Provisioned!TypeOK
  BY CorpusSizes, Provisioned!TypeCorrect
<1>3. KeyedJobs!Spec => []KeyedJobs!TypeOK
  BY KeyedJobs!TypeCorrect
<1> QED
  BY <1>1, <1>2, <1>3, TypeCorrect, LifecycleOfModules, JobsOfModules, CorpusOfModules, PTL

\* The admission of submitNow, in the composition: of the jobs that share a module's resource
\* key one at most is active, whatever the calls in progress have seen.
THEOREM KeysAreAlwaysHeld == MCSpec => []KeysAreHeld
<1>1. KeyedJobs!ResourcesHeld => KeysAreHeld
  BY SameHeld DEF KeysAreHeld
<1>2. KeyedJobs!Spec => []KeyedJobs!ResourcesHeld
  BY KeyedJobs!ResourcesAreHeld
<1> QED
  BY <1>1, <1>2, JobsOfModules, PTL

\* What readers of a corpus are served is whole, beside any lifecycle of the modules (and
\* unless a foreign log, checkpoint or journal got into the file).
THEOREM ActivatedIsAlwaysWhole == MCSpec => []ActivatedIsWhole
<1>1. Provisioned!ActivatedIsWhole => ActivatedIsWhole
  BY SameWhole DEF ActivatedIsWhole
<1>2. Provisioned!Spec => []Provisioned!ActivatedIsWhole
  BY CorpusSizes, Provisioned!ServesTheWhole
<1> QED
  BY <1>1, <1>2, CorpusOfModules, PTL

\* Nothing falls between two catch-ups of a corpus, beside any lifecycle of the modules.
THEOREM NeverAGap == MCSpec => []NoGap
<1>1. Provisioned!NoGap => NoGap
  BY SameGap DEF NoGap
<1>2. Provisioned!Spec => []Provisioned!NoGap
  BY CorpusSizes, Provisioned!NothingFallsBetween
<1> QED
  BY <1>1, <1>2, CorpusOfModules, PTL
=============================================================================

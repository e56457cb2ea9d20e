------------------------- MODULE OperationLogProofs -------------------------
(***************************************************************************)
(* Theorems about OperationLog for every set of operations and every count *)
(* limit.                                                                  *)
(***************************************************************************)
EXTENDS OperationLog, Sequences, FiniteSetTheorems, TLAPS

(* The number of stored operations is the revision; append's count check   *)
(* therefore bounds the revision.                                          *)
Counted ==
    /\ IsFiniteSet(DOMAIN operations)
    /\ Cardinality(DOMAIN operations) = revision

(* The inductive invariant: the chain shape needs the types, the clock     *)
(* needs the chain, and the bound on the revision needs the count.         *)
IInv == TypeOK /\ Counted /\ SingleChain /\ ClockFollowsChain

(* The target of a toggle is its only reference.                           *)
LEMMA TargetIdProperties ==
    ASSUME NEW op \in Operations, op.target # {}
    PROVE  \E t \in op.target : TargetId(op) = t.id /\ op.target = {t}
BY OperationsWellFormed DEF WellFormed, TargetId

LEMMA InitIInv == Init => IInv
<1> SUFFICES ASSUME Init PROVE IInv
  OBVIOUS
<1> USE DEF Init
<1>1. DOMAIN operations = {} /\ DOMAIN active = {}
  OBVIOUS
<1>2. TypeOK
  BY <1>1, CountLimit DEF TypeOK
<1>3. Counted
  BY <1>1, FS_EmptySet DEF Counted
<1>4. SingleChain
  BY <1>1 DEF SingleChain
<1>5. ClockFollowsChain
  BY <1>1 DEF ClockFollowsChain
<1> QED BY <1>2, <1>3, <1>4, <1>5 DEF IInv

(* Admitting an operation keeps the invariant.                             *)
LEMMA AppendNewIInv ==
    ASSUME IInv, NEW op \in Operations, AppendNew(op)
    PROVE  IInv'
<1> USE DEF IInv
<1>w. WellFormed(op) BY OperationsWellFormed
<1>a. Admissible(op) BY DEF AppendNew
<1>p. /\ op.id \notin DOMAIN operations
      /\ op.parents = tip
      /\ op.time > logicalTime
  BY <1>a DEF Admissible, Present
<1>o. /\ DOMAIN operations' = DOMAIN operations \cup {op.id}
      /\ operations'[op.id] = op
      /\ \A x \in DOMAIN operations : operations'[x] = operations[x]
  BY <1>p DEF AppendNew, Put
<1>r. revision' = revision + 1 /\ tip' = {op.id} /\ logicalTime' = op.time
  BY DEF AppendNew
<1>n. revision \in Nat
  BY CountLimit DEF TypeOK
<1>d. op.depth = revision
  <2>1. CASE tip = {}
    <3>1. revision = 0
      <4>1. SUFFICES ASSUME revision # 0 PROVE FALSE
        OBVIOUS
      <4>2. revision - 1 \in 0 .. revision - 1
        BY <4>1, <1>n
      <4>3. PICK id \in DOMAIN operations : operations[id].depth = revision - 1
        BY <4>2 DEF SingleChain
      <4> QED BY <4>3, <2>1 DEF SingleChain
    <3> QED BY <3>1, <2>1, <1>a DEF Admissible
  <2>2. CASE tip # {}
    <3>1. PICK t \in tip : TRUE
      BY <2>2
    <3>2. operations[t].depth = revision - 1
      BY <3>1 DEF SingleChain
    <3> QED BY <3>1, <3>2, <1>a, <1>n DEF Admissible, ExpectedDepth
  <2> QED BY <2>1, <2>2
<1>1. Counted'
  <2>1. IsFiniteSet(DOMAIN operations \cup {op.id})
        /\ Cardinality(DOMAIN operations \cup {op.id}) = Cardinality(DOMAIN operations) + 1
    BY <1>p, FS_AddElement DEF Counted
  <2> QED BY <2>1, <1>o, <1>r DEF Counted
<1>2. TypeOK'
  <2>1. revision' \in 0 .. MaxOperationCount
    BY <1>a, <1>r, <1>n, CountLimit DEF Admissible, Counted
  <2>2. logicalTime' \in Nat
    BY <1>r, <1>w DEF WellFormed
  <2>3. tip' \subseteq DOMAIN operations' /\ DOMAIN operations' \subseteq Ids
    BY <1>r, <1>o DEF TypeOK, Ids
  <2>4. \A id \in DOMAIN operations' :
          operations'[id] \in Operations /\ operations'[id].id = id
    BY <1>o DEF TypeOK
  <2>5. /\ DOMAIN active' = {id \in DOMAIN operations' : operations'[id].kind = "Apply"}
        /\ \A id \in DOMAIN active' : active'[id] \in BOOLEAN
    <3>1. CASE op.kind = "Apply"
      <4>1. active' = Put(active, op.id, TRUE)
        BY <3>1 DEF AppendNew, ActiveAfter
      <4>2. DOMAIN active' = DOMAIN active \cup {op.id}
        BY <4>1 DEF Put
      <4>3. \A id \in DOMAIN active' : active'[id] \in BOOLEAN
        BY <4>1, <4>2, Zenon DEF TypeOK, Put
      <4> QED BY <4>2, <4>3, <3>1, <1>o DEF TypeOK
    <3>2. CASE op.kind # "Apply"
      <4>1. op.kind \in {"Undo", "Redo"}
        BY <3>2, <1>w, <1>a DEF WellFormed, Kinds, Admissible, ValidTarget
      <4>2. PICK t \in op.target : TargetId(op) = t.id
        BY <4>1, <1>w, TargetIdProperties DEF WellFormed
      <4>3. t.id \in DOMAIN active
        BY <1>a DEF Admissible, ValidTarget
      <4>4. active' = Put(active, t.id, op.kind = "Redo")
        BY <3>2, <4>2 DEF AppendNew, ActiveAfter
      <4>5. DOMAIN active' = DOMAIN active
        BY <4>3, <4>4 DEF Put
      <4>6. \A id \in DOMAIN active' : active'[id] \in BOOLEAN
        BY <4>3, <4>4, <4>5, Zenon DEF TypeOK, Put
      <4> QED BY <4>5, <4>6, <3>2, <1>o, <1>p DEF TypeOK
    <3> QED BY <3>1, <3>2
  <2>6. outcome' \in [kind : {"None", "Appended", "Duplicate", "Rejected"}, revision : Nat]
    BY <1>n DEF AppendNew
  <2> QED BY <2>1, <2>2, <2>3, <2>4, <2>5, <2>6 DEF TypeOK
<1>e. \A id \in DOMAIN operations :
        operations[id].depth \in 0 .. revision - 1
  BY DEF SingleChain
<1>3. SingleChain'
  <2>1. {operations'[id].depth : id \in DOMAIN operations'} = 0 .. revision' - 1
    <3>1. {operations'[id].depth : id \in DOMAIN operations'} =
            {operations[id].depth : id \in DOMAIN operations} \cup {op.depth}
      BY <1>o
    <3>2. (0 .. revision - 1) \cup {revision} = 0 .. (revision + 1) - 1
      BY <1>n
    <3> QED BY <3>1, <3>2, <1>d, <1>r, Zenon DEF SingleChain
  <2>2. \A a, b \in DOMAIN operations' :
          operations'[a].depth = operations'[b].depth => a = b
    BY <1>o, <1>d, <1>e, <1>n DEF SingleChain
  <2>3. tip' = {id \in DOMAIN operations' : operations'[id].depth = revision' - 1}
    BY <1>o, <1>d, <1>e, <1>n, <1>r
  <2>4. \A id \in DOMAIN operations' :
          operations'[id].parents =
            {p \in DOMAIN operations' : operations'[p].depth = operations'[id].depth - 1}
    <3>1. ASSUME NEW id \in DOMAIN operations
          PROVE  operations'[id].parents =
            {p \in DOMAIN operations' : operations'[p].depth = operations'[id].depth - 1}
      <4>1. operations[id].parents =
              {p \in DOMAIN operations : operations[p].depth = operations[id].depth - 1}
        BY DEF SingleChain
      <4>2. op.depth # operations[id].depth - 1
        BY <1>d, <1>e, <1>n
      <4> QED BY <4>1, <4>2, <1>o
    <3>2. op.parents =
            {p \in DOMAIN operations' : operations'[p].depth = op.depth - 1}
      BY <1>o, <1>d, <1>e, <1>n, <1>p DEF SingleChain
    <3> QED BY <3>1, <3>2, <1>o
  <2> QED BY <2>1, <2>2, <2>3, <2>4 DEF SingleChain
<1>t. \A id \in DOMAIN operations : operations[id].time <= logicalTime
  <2> SUFFICES ASSUME NEW id \in DOMAIN operations
               PROVE  operations[id].time <= logicalTime
    OBVIOUS
  <2>1. \A x \in DOMAIN operations : operations[x].time \in Nat
    BY OperationsWellFormed DEF TypeOK, WellFormed
  <2>2. revision - 1 \in 0 .. revision - 1
    BY <1>e, <1>n
  <2>3. PICK t \in DOMAIN operations : operations[t].depth = revision - 1
    BY <2>2 DEF SingleChain
  <2>4. logicalTime = operations[t].time
    BY <2>3 DEF SingleChain, ClockFollowsChain
  <2>5. operations[id].depth < operations[t].depth \/ id = t
    BY <2>3, <1>e, <1>n DEF SingleChain
  <2> QED BY <2>1, <2>4, <2>5 DEF ClockFollowsChain
<1>4. ClockFollowsChain'
  <2>1. \A x \in DOMAIN operations : operations[x].time \in Nat
    BY OperationsWellFormed DEF TypeOK, WellFormed
  <2>2. op.time \in Nat /\ logicalTime \in Nat
    BY <1>w DEF WellFormed, TypeOK
  <2>3. \A a, b \in DOMAIN operations' :
          operations'[a].depth < operations'[b].depth =>
            operations'[a].time < operations'[b].time
    BY <2>1, <2>2, <1>o, <1>p, <1>t, <1>d, <1>e, <1>n DEF ClockFollowsChain
  <2> QED BY <2>3, <1>o, <1>r DEF ClockFollowsChain
<1> QED BY <1>1, <1>2, <1>3, <1>4

(* A retry or a rejection leaves the log unchanged.                        *)
LEMMA UnchangedIInv ==
    ASSUME IInv, UNCHANGED <<revision, logicalTime, tip, operations, active>>,
           outcome' \in [kind : {"None", "Appended", "Duplicate", "Rejected"}, revision : Nat]
    PROVE  IInv'
BY DEF IInv, TypeOK, Counted, SingleChain, ClockFollowsChain

LEMMA NextIInv == IInv /\ [Next]_vars => IInv'
<1> SUFFICES ASSUME IInv, [Next]_vars PROVE IInv'
  OBVIOUS
<1>n. revision \in Nat
  BY CountLimit DEF IInv, TypeOK
<1>1. ASSUME NEW op \in Operations, AppendNew(op) PROVE IInv'
  BY <1>1, AppendNewIInv
<1>2. ASSUME NEW op \in Operations, AppendDuplicate(op) PROVE IInv'
  BY <1>2, <1>n, UnchangedIInv DEF AppendDuplicate
<1>3. ASSUME NEW op \in Operations, AppendRejected(op) PROVE IInv'
  BY <1>3, <1>n, UnchangedIInv DEF AppendRejected
<1>4. CASE UNCHANGED vars
  BY <1>4, UnchangedIInv DEF vars, IInv, TypeOK
<1> QED BY <1>1, <1>2, <1>3, <1>4 DEF Next, Submit

LEMMA SpecIInv == Spec => []IInv
BY InitIInv, NextIInv, PTL DEF Spec


-----------------------------------------------------------------------------
(* The undo/redo bookkeeping.  Admission looks only at the boolean kept in *)
(* active.  That the boolean stands for the last toggle of the chain, and  *)
(* that toggles alternate, support each other: neither is inductive alone. *)
TargetsStored ==
    \A t \in DOMAIN operations : \A r \in operations[t].target : r.id \in DOMAIN active

ToggleInv == TargetsStored /\ ActiveIsLastToggle /\ TogglesAlternate

(* Appending an Apply adds an untouched operation.                         *)
LEMMA ApplyToggleInv ==
    ASSUME IInv, ToggleInv, NEW op \in Operations, AppendNew(op), op.kind = "Apply"
    PROVE  ToggleInv'
<1> USE DEF IInv, ToggleInv
<1>w. op.target = {}
  BY OperationsWellFormed DEF WellFormed
<1>o. /\ op.id \notin DOMAIN operations
      /\ DOMAIN operations' = DOMAIN operations \cup {op.id}
      /\ operations'[op.id] = op
      /\ \A x \in DOMAIN operations : operations'[x] = operations[x]
  BY DEF AppendNew, Put, Admissible, Present
<1>c. /\ DOMAIN active' = DOMAIN active \cup {op.id}
      /\ active'[op.id] = TRUE
      /\ \A x \in DOMAIN active : x # op.id => active'[x] = active[x]
  BY DEF AppendNew, ActiveAfter, Put
<1>s. op.id \notin DOMAIN active
  BY <1>o DEF TypeOK
<1>t. \A id : Toggles(id)' = Toggles(id)
  BY <1>w, <1>o DEF Toggles
<1>e. Toggles(op.id) = {}
  BY <1>s DEF Toggles, TargetsStored
<1>k. \A id : \A t \in Toggles(id) : t \in DOMAIN operations /\ operations'[t] = operations[t]
  BY <1>o DEF Toggles
<1>1. TargetsStored'
  BY <1>w, <1>o, <1>c DEF TargetsStored
<1>2. ActiveIsLastToggle'
  <2> SUFFICES ASSUME NEW id \in DOMAIN active'
               PROVE  active'[id] <=>
                        \A t \in Toggles(id) :
                          \/ operations'[t].kind = "Redo"
                          \/ \E u \in Toggles(id) : operations'[u].depth > operations'[t].depth
    BY <1>t DEF ActiveIsLastToggle
  <2>1. CASE id = op.id
    BY <2>1, <1>e, <1>c
  <2>2. CASE id # op.id
    BY <2>2, <1>c, <1>k DEF ActiveIsLastToggle
  <2> QED BY <2>1, <2>2
<1>3. TogglesAlternate'
  BY <1>t, <1>e, <1>c, <1>k DEF TogglesAlternate
<1> QED BY <1>1, <1>2, <1>3

(* Appending an undo or a redo flips exactly the entry of its target.      *)
LEMMA FlipToggleInv ==
    ASSUME IInv, ToggleInv, NEW op \in Operations, AppendNew(op), op.kind # "Apply"
    PROVE  ToggleInv'
<1> USE DEF IInv, ToggleInv
<1>w. op.kind \in {"Undo", "Redo"}
  BY OperationsWellFormed DEF WellFormed, Kinds, AppendNew, Admissible, ValidTarget
<1>g. op.target # {}
  BY <1>w, OperationsWellFormed DEF WellFormed
<1>r. PICK r \in op.target : TargetId(op) = r.id /\ op.target = {r}
  BY <1>g, TargetIdProperties
<1>b. r.id \in DOMAIN active /\ active[r.id] = (op.kind = "Undo")
  BY <1>r DEF AppendNew, Admissible, ValidTarget
<1>o. /\ op.id \notin DOMAIN operations
      /\ DOMAIN operations' = DOMAIN operations \cup {op.id}
      /\ operations'[op.id] = op
      /\ \A x \in DOMAIN operations : operations'[x] = operations[x]
  BY DEF AppendNew, Put, Admissible, Present
<1>c. /\ DOMAIN active' = DOMAIN active
      /\ active'[r.id] = (op.kind = "Redo")
      /\ \A x \in DOMAIN active : x # r.id => active'[x] = active[x]
  BY <1>r, <1>b DEF AppendNew, ActiveAfter, Put
<1>t. /\ Toggles(r.id)' = Toggles(r.id) \cup {op.id}
      /\ \A id : id # r.id => Toggles(id)' = Toggles(id)
  BY <1>r, <1>o DEF Toggles
<1>k. \A id : \A t \in Toggles(id) :
        t \in DOMAIN operations /\ operations'[t] = operations[t]
  BY <1>o DEF Toggles
<1>n. revision \in Nat /\ revision' = revision + 1
  BY CountLimit DEF TypeOK, AppendNew
<1>d. /\ \A x \in DOMAIN operations :
           operations[x].depth \in Int /\ operations[x].depth < op.depth
      /\ op.depth \in Int
  <2>1. \A x \in DOMAIN operations : operations[x].depth \in 0 .. revision - 1
    BY DEF SingleChain
  <2>2. tip' = {op.id} /\ tip' = {id \in DOMAIN operations' :
                                    operations'[id].depth = revision' - 1}
    BY AppendNewIInv DEF SingleChain, AppendNew
  <2> QED BY <2>1, <2>2, <1>o, <1>n
<1>q. \A id : \A t \in Toggles(id) : operations[t].kind \in {"Undo", "Redo"}
  BY OperationsWellFormed DEF Toggles, TypeOK, WellFormed
<1>1. TargetsStored'
  BY <1>r, <1>b, <1>o, <1>c DEF TargetsStored
<1>2. ActiveIsLastToggle'
  <2> SUFFICES ASSUME NEW id \in DOMAIN active
               PROVE  active'[id] <=>
                        \A t \in Toggles(id)' :
                          \/ operations'[t].kind = "Redo"
                          \/ \E u \in Toggles(id)' : operations'[u].depth > operations'[t].depth
    BY <1>c DEF ActiveIsLastToggle
  <2>1. CASE id # r.id
    BY <2>1, <1>c, <1>t, <1>k DEF ActiveIsLastToggle
  <2>2. CASE id = r.id
    <3>1. \A t \in Toggles(id) : operations'[op.id].depth > operations'[t].depth
      BY <1>k, <1>o, <1>d
    <3>2. \A u \in Toggles(id)' : ~ (operations'[u].depth > operations'[op.id].depth)
      BY <2>2, <1>t, <1>k, <1>o, <1>d
    <3>3. op.id \in Toggles(id)'
      BY <2>2, <1>t
    <3>4. (\A t \in Toggles(id)' :
             \/ operations'[t].kind = "Redo"
             \/ \E u \in Toggles(id)' : operations'[u].depth > operations'[t].depth)
          <=> op.kind = "Redo"
      BY <2>2, <3>1, <3>2, <3>3, <1>t, <1>o
    <3> QED BY <3>4, <2>2, <1>c, Zenon
  <2> QED BY <2>1, <2>2
<1>3. TogglesAlternate'
  <2> SUFFICES ASSUME NEW id \in DOMAIN active, NEW t \in Toggles(id)'
               PROVE  /\ operations'[t].kind = "Redo" =>
                           \E u \in Toggles(id)' : operations'[u].depth < operations'[t].depth
                      /\ \A u \in Toggles(id)' :
                           (/\ operations'[u].depth < operations'[t].depth
                            /\ operations'[u].kind = operations'[t].kind) =>
                               \E v \in Toggles(id)' :
                                 /\ operations'[u].depth < operations'[v].depth
                                 /\ operations'[v].depth < operations'[t].depth
                                 /\ operations'[v].kind # operations'[t].kind
    BY <1>c DEF TogglesAlternate
  <2>1. CASE t \in Toggles(id)
    <3>1. \A u \in Toggles(id)' : operations'[u].depth < operations'[t].depth => u \in Toggles(id)
      BY <2>1, <1>t, <1>k, <1>o, <1>d
    <3>2. Toggles(id) \subseteq Toggles(id)'
      BY <1>t
    <3> QED BY <2>1, <3>1, <3>2, <1>k DEF TogglesAlternate
  <2>2. CASE t \notin Toggles(id)
    <3>1. id = r.id /\ t = op.id
      BY <2>2, <1>t
    <3>2. CASE op.kind = "Undo"
      <4>1. active[id] = TRUE
        BY <3>1, <3>2, <1>b, Zenon
      <4> SUFFICES ASSUME NEW u \in Toggles(id), operations[u].kind = "Undo"
                   PROVE  \E v \in Toggles(id) :
                            /\ operations[u].depth < operations[v].depth
                            /\ operations[v].kind = "Redo"
        BY <3>1, <3>2, <1>t, <1>k, <1>o, <1>d
      <4>2. PICK x \in Toggles(id) : operations[x].depth > operations[u].depth
        BY <4>1 DEF ActiveIsLastToggle
      <4>3. CASE operations[x].kind = "Redo"
        BY <4>2, <4>3, <1>d, <1>k
      <4>4. CASE operations[x].kind = "Undo"
        BY <4>2, <4>4, <1>d, <1>k, <1>q DEF TogglesAlternate
      <4> QED BY <4>3, <4>4, <1>q
    <3>3. CASE op.kind = "Redo"
      <4>1. ~ active[id]
        BY <3>1, <3>3, <1>b, Zenon
      <4>2. PICK x \in Toggles(id) :
              /\ operations[x].kind # "Redo"
              /\ \A u \in Toggles(id) : ~ (operations[u].depth > operations[x].depth)
        BY <4>1 DEF ActiveIsLastToggle
      <4>3. \A u \in Toggles(id) :
              operations[u].kind = "Redo" => operations[u].depth < operations[x].depth
        BY <4>2, <1>d, <1>k DEF SingleChain
      <4> QED BY <3>1, <3>3, <4>2, <4>3, <1>t, <1>k, <1>o, <1>d
    <3> QED BY <3>2, <3>3, <1>w
  <2> QED BY <2>1, <2>2
<1> QED BY <1>1, <1>2, <1>3

LEMMA UnchangedToggleInv ==
    ASSUME ToggleInv, UNCHANGED <<revision, logicalTime, tip, operations, active>>
    PROVE  ToggleInv'
BY DEF ToggleInv, TargetsStored, ActiveIsLastToggle, TogglesAlternate, Toggles

LEMMA NextToggleInv == IInv /\ ToggleInv /\ [Next]_vars => ToggleInv'
<1> SUFFICES ASSUME IInv, ToggleInv, [Next]_vars PROVE ToggleInv'
  OBVIOUS
<1>1. ASSUME NEW op \in Operations, AppendNew(op) PROVE ToggleInv'
  BY <1>1, ApplyToggleInv, FlipToggleInv
<1>2. ASSUME NEW op \in Operations, AppendDuplicate(op) \/ AppendRejected(op)
      PROVE  ToggleInv'
  BY <1>2, UnchangedToggleInv DEF AppendDuplicate, AppendRejected
<1>3. CASE UNCHANGED vars
  BY <1>3, UnchangedToggleInv DEF vars
<1> QED BY <1>1, <1>2, <1>3 DEF Next, Submit

LEMMA InitToggleInv == Init => ToggleInv
BY DEF Init, ToggleInv, TargetsStored, ActiveIsLastToggle, TogglesAlternate, Toggles

LEMMA SpecToggleInv == Spec => []ToggleInv
BY InitToggleInv, NextToggleInv, SpecIInv, PTL DEF Spec

(* The incremental active map is the replay of the toggles of the chain.   *)
THEOREM LogActiveIsLastToggle == Spec => []ActiveIsLastToggle
BY SpecToggleInv, PTL DEF ToggleInv

(* An operation is never undone twice or redone twice in a row.            *)
THEOREM LogTogglesAlternate == Spec => []TogglesAlternate
BY SpecToggleInv, PTL DEF ToggleInv

(* The log keeps its type, the bound on the revision included.             *)
THEOREM TypeCorrect == Spec => []TypeOK
BY SpecIInv, PTL DEF IInv

(* Whatever is submitted in whatever order, the log is one causal chain.   *)
THEOREM LogIsSingleChain == Spec => []SingleChain
BY SpecIInv, PTL DEF IInv

(* Logical time is strictly increasing along that chain.                   *)
THEOREM LogClockFollowsChain == Spec => []ClockFollowsChain
BY SpecIInv, PTL DEF IInv
-----------------------------------------------------------------------------
(* Refinement.  In a single chain each depth below the revision is held by *)
(* one operation, so Chain lists the operations by depth.                  *)
ChainByDepth ==
    /\ revision \in Nat
    /\ Chain \in Seq(Operations)
    /\ Len(Chain) = revision
    /\ DOMAIN Chain = 1 .. revision
    /\ \A id \in DOMAIN operations :
          /\ operations[id].depth + 1 \in 1 .. revision
          /\ Chain[operations[id].depth + 1] = operations[id]
    /\ \A i \in 1 .. revision :
          \E id \in DOMAIN operations :
              operations[id].depth = i - 1 /\ Chain[i] = operations[id]

LEMMA ChainLists == IInv => ChainByDepth
<1> SUFFICES ASSUME IInv PROVE ChainByDepth
  OBVIOUS
<1> USE DEF IInv
<1>1. revision \in Nat
  BY CountLimit DEF TypeOK
<1>2. \A i \in 1 .. revision :
        \E id \in DOMAIN operations : operations[id].depth = i - 1 /\ Chain[i] = operations[id]
  <2> SUFFICES ASSUME NEW i \in 1 .. revision
               PROVE  \E id \in DOMAIN operations :
                        operations[id].depth = i - 1 /\ Chain[i] = operations[id]
    OBVIOUS
  <2>1. i - 1 \in 0 .. revision - 1
    BY <1>1
  <2>2. \E id \in DOMAIN operations : operations[id].depth = i - 1
    BY <2>1 DEF SingleChain
  <2> QED BY <2>2, Zenon DEF Chain
<1>3. \A i \in 1 .. revision : Chain[i] \in Operations
  BY <1>2 DEF TypeOK
<1>4. Chain = [i \in 1 .. revision |-> Chain[i]]
  BY DEF Chain
<1>5. Chain \in [1 .. revision -> Operations]
  BY <1>3, <1>4
<1>6. Chain \in Seq(Operations) /\ Len(Chain) = revision
  BY <1>1, <1>5
<1>7. \A id \in DOMAIN operations :
        operations[id].depth + 1 \in 1 .. revision
        /\ Chain[operations[id].depth + 1] = operations[id]
  <2> SUFFICES ASSUME NEW id \in DOMAIN operations
               PROVE  operations[id].depth + 1 \in 1 .. revision
                      /\ Chain[operations[id].depth + 1] = operations[id]
    OBVIOUS
  <2>1. operations[id].depth \in 0 .. revision - 1
    BY DEF SingleChain
  <2>2. operations[id].depth + 1 \in 1 .. revision
    BY <2>1, <1>1
  <2>3. PICK x \in DOMAIN operations :
          /\ operations[x].depth = (operations[id].depth + 1) - 1
          /\ Chain[operations[id].depth + 1] = operations[x]
    BY <2>2, <1>2
  <2>4. x = id
    BY <2>1, <2>3 DEF SingleChain
  <2> QED BY <2>2, <2>3, <2>4
<1> QED BY <1>1, <1>2, <1>5, <1>6, <1>7 DEF ChainByDepth

LEMMA ChainInit == Init => J!Init
<1> SUFFICES ASSUME Init PROVE Chain = <<>>
  BY DEF J!Init
<1>1. Chain \in Seq(Operations) /\ Len(Chain) = 0
  BY InitIInv, ChainLists DEF Init, ChainByDepth
<1> QED BY <1>1

(* An admitted operation is the new last element of the chain.             *)
LEMMA ChainGrows ==
    ASSUME IInv, NEW op \in Operations, AppendNew(op)
    PROVE  J!Extend(op)
<1>i. IInv'
  BY AppendNewIInv
<1>l. ChainByDepth
  BY ChainLists
<1>m. ChainByDepth'
  BY <1>i, ChainLists, PTL
<1>n. revision \in Nat /\ revision' = revision + 1
  BY <1>l DEF AppendNew, ChainByDepth
<1>o. /\ op.id \notin DOMAIN operations
      /\ DOMAIN operations' = DOMAIN operations \cup {op.id}
      /\ operations'[op.id] = op
      /\ \A x \in DOMAIN operations : operations'[x] = operations[x]
  BY DEF AppendNew, Put, Admissible, Present
<1>c. /\ Chain' \in Seq(Operations)
      /\ Len(Chain') = revision + 1
      /\ \A id \in DOMAIN operations' :
            Chain'[operations'[id].depth + 1] = operations'[id]
  BY <1>m, <1>n DEF ChainByDepth
<1>d. op.depth = revision
  <2>1. tip' = {op.id} /\ tip' = {id \in DOMAIN operations' :
                                    operations'[id].depth = revision' - 1}
    BY <1>i DEF IInv, SingleChain, AppendNew
  <2> QED BY <2>1, <1>o, <1>n
<1>1. \A i \in DOMAIN Chain : Chain[i].id # op.id
  <2> SUFFICES ASSUME NEW i \in 1 .. revision PROVE Chain[i].id # op.id
    BY <1>l DEF ChainByDepth
  <2>1. PICK id \in DOMAIN operations : Chain[i] = operations[id]
    BY <1>l DEF ChainByDepth
  <2> QED BY <2>1, <1>o DEF IInv, TypeOK
<1>2. \A i \in 1 .. revision : Chain'[i] = Chain[i]
  <2> SUFFICES ASSUME NEW i \in 1 .. revision PROVE Chain'[i] = Chain[i]
    OBVIOUS
  <2>1. PICK id \in DOMAIN operations : operations[id].depth = i - 1 /\ Chain[i] = operations[id]
    BY <1>l DEF ChainByDepth
  <2>2. Chain'[operations'[id].depth + 1] = operations'[id]
    BY <1>c, <1>o
  <2>3. operations'[id].depth + 1 = i
    BY <2>1, <1>o
  <2> QED BY <2>1, <2>2, <2>3, <1>o
<1>3. Chain'[revision + 1] = op
  BY <1>c, <1>o, <1>d
<1>4. Chain' = Append(Chain, op)
  BY <1>2, <1>3, <1>c, <1>n, <1>l DEF ChainByDepth
<1> QED BY <1>1, <1>4 DEF J!Extend

(* The linear log implements the append-only journal.                      *)
THEOREM LogImplementsJournal == Spec => ImplementsJournal
<1>1. IInv /\ [Next]_vars => [J!Next]_Chain
  <2> SUFFICES ASSUME IInv, [Next]_vars PROVE [J!Next]_Chain
    OBVIOUS
  <2>1. ASSUME NEW op \in Operations, AppendNew(op) PROVE J!Next
    BY <2>1, ChainGrows DEF J!Next
  <2>2. ASSUME NEW op \in Operations, AppendDuplicate(op) \/ AppendRejected(op)
        PROVE  UNCHANGED Chain
    <3>1. operations' = operations /\ revision' = revision
      BY <2>2 DEF AppendDuplicate, AppendRejected
    <3> QED BY <3>1 DEF Chain
  <2>3. CASE UNCHANGED vars
    BY <2>3 DEF vars, Chain
  <2> QED BY <2>1, <2>2, <2>3 DEF Next, Submit
<1> QED BY <1>1, ChainInit, SpecIInv, PTL DEF Spec, ImplementsJournal, J!Spec
=============================================================================

--------------------------- MODULE SessionProofs ---------------------------
(***************************************************************************)
(* Theorems about ProjectSession, for any sessions and any map mutations:  *)
(* a receipt is the truth, the publication history always verifies, and    *)
(* the persisted history of a project whose mutations are all intents can  *)
(* always be materialized.                                                 *)
(*                                                                         *)
(* The last does not hold of requests.  commit_operation_with_outcome      *)
(* materializes a candidate on what is persisted then, and leaves the      *)
(* expected revision to the append.  A request that expects one operation  *)
(* more than there are is validated without that operation; when another   *)
(* session appends it, the revisions agree, and append admission does not  *)
(* look for conflicts.  An intent takes its revision from the log it was   *)
(* derived from, so it is never ahead.                                     *)
(***************************************************************************)
EXTENDS ProjectSession, SequenceTheorems, FiniteSetTheorems, TLAPS

-----------------------------------------------------------------------------
(* The inductive invariant                                                 *)

Stages ==
    {"Idle", "Baseline", "Read", "Derive", "Put", "Validate", "Append", "Retry", "Reread",
     "Publish", "Readback"}
Durable == {"Reread", "Publish", "Readback"}
HasOperation == {"Put", "Validate", "Append", "Retry"} \cup Durable
Registered == baseline \in {"Empty", "Floor"}

SessionTypeOK ==
    /\ baseline \in {"Missing", "None", "Empty", "Floor"}
    /\ log \in Seq(Persisted)
    /\ local = [s \in Sessions |-> local[s]]

\* The fields of a session's record.
Fields == {"mode", "at", "call", "ops", "op", "expected", "receipt", "fresh", "reply"}
HasShape(k) == k = [f \in Fields |-> k[f]]

LocalTypeOK(k) ==
    /\ HasShape(k)
    /\ k.at \in Stages /\ k.expected \in Nat
    /\ k.at \notin Durable => k.receipt = {} /\ k.fresh = FALSE

\* A session that has the project open found its bundle, and one that is past
\* its first read found the baseline registered.
BaselineKnown(k) ==
    /\ k.mode # "Closed" => baseline # "Missing"
    /\ k.at = "Baseline" => baseline = "None"
    /\ k.at \in {"Derive", "Append", "Retry"} \cup Durable => Registered

\* The operation a call carries is the one its caller asked for.
Asked(k) ==
    k.at \in HasOperation => k.op.id = k.call.op /\ SameIntentAs(k.call, k.op)

\* What a call has read or written is in the log d, which only grows.
Known(d, k) ==
    LET found == {d[i] : i \in DOMAIN d}
    IN  /\ k.at = "Derive" => k.ops \subseteq found
        /\ k.at = "Retry" => k.op \in found
        /\ k.at \in Durable =>
            \E v \in 1 .. Len(d) : k.receipt = {v} /\ \E i \in 1 .. v : d[i] = k.op

\* The set a fresh receipt is shown in has the operation.
Shows(k) ==
    /\ k.at = "Publish" => k.op \in k.ops
    /\ k.at = "Readback" /\ k.fresh => k.op \in k.ops

\* ReceiptsAreTrue, of one reply and a log.
TrueReply(d, r) ==
    r.tag = "Receipt" =>
        /\ r.revision \in 1 .. Len(d)
        /\ \E i \in 1 .. r.revision : d[i].id = r.call.op /\ SameIntentAs(r.call, d[i])
        /\ r.fresh => \A view \in r.view : r.op \in view

SessionInv(s) ==
    /\ LocalTypeOK(local[s]) /\ BaselineKnown(local[s]) /\ Asked(local[s])
    /\ Known(log, local[s]) /\ Shows(local[s])
    /\ TrueReply(log, local[s].reply)

BaselineInv ==
    /\ ~ Registered => log = <<>> /\ publications = {}
    /\ \A s, t \in Sessions : local[s].at = "Baseline" /\ local[t].at = "Baseline" => s = t

IInv == SessionTypeOK /\ BaselineInv /\ \A s \in Sessions : SessionInv(s)

\* Every persisted operation has a place in the log.
LEMMA PersistedHasPlace ==
    ASSUME SessionTypeOK, NEW op \in Persisted
    PROVE  \E i \in 1 .. Len(log) : log[i] = op
<1>1. DOMAIN log = 1 .. Len(log)
  BY DEF SessionTypeOK
<1> QED BY <1>1, Zenon DEF Persisted

\* No call that was validated names a revision ahead of the log.
NoneAhead == \A s \in Sessions : local[s].at = "Append" => local[s].expected <= Len(log)

\* A candidate that may still be appended materializes with what is persisted.
CandidatesGood ==
    \A s \in Sessions :
        local[s].at = "Append" /\ local[s].expected = Len(log)
            => Materializes(baseline, Persisted \cup {local[s].op})

HistoryInv == HistoryMaterializes /\ CandidatesGood

\* A set on its way to its publication was materialized.
RereadsGood ==
    \A s \in Sessions : local[s].at = "Publish" => Materializes(baseline, local[s].ops)

PublicationInv ==
    /\ PublicationsVerify /\ RereadsGood
    /\ \A row \in publications : row.revision \in Nat

-----------------------------------------------------------------------------
(* The empty history                                                       *)

\* The empty set has the empty order.
LEMMA EmptyOrder == Ordered({}) = <<>>
<1>1. Cardinality({}) = 0
  BY FS_EmptySet
<1> DEFINE rhs(f) == [n \in 0 .. 0 |->
            IF n = 0 THEN <<>>
            ELSE LET p == f[n - 1]
                     R == {op \in {} : op.id \notin {p[i].id : i \in DOMAIN p}
                                       /\ op.parents \subseteq {p[i].id : i \in DOMAIN p}}
                 IN  IF R = {} THEN p
                     ELSE Append(p, CHOOSE a \in R : \A b \in R \ {a} : Before(a, b))]
<1>2. \A f : rhs(f) = [n \in 0 .. 0 |-> <<>>]
  OBVIOUS
<1>3. (CHOOSE f : f = rhs(f)) = [n \in 0 .. 0 |-> <<>>]
  BY <1>2
<1> QED BY <1>1, <1>3 DEF Ordered

\* The empty set replays.
LEMMA EmptyReplay == Replays({})
<1> DEFINE init == [active |-> {}, history |-> {}, effects |-> <<>>, error |-> FALSE]
<1>1. Len(Ordered({})) = 0
  BY EmptyOrder
<1>2. \A f :
        [n \in 0 .. Len(Ordered({})) |->
                IF n = 0 THEN init
                ELSE ReplayStep({}, AncestorMap({}), f[n - 1], Ordered({})[n])]
            = [n \in 0 .. 0 |-> init]
  BY <1>1
<1>3. (CHOOSE f : f =
        [n \in 0 .. Len(Ordered({})) |->
                IF n = 0 THEN init
                ELSE ReplayStep({}, AncestorMap({}), f[n - 1], Ordered({})[n])])
            = [n \in 0 .. 0 |-> init]
  BY <1>2
<1>4. Replay({}) =
        (CHOOSE f : f =
            [n \in 0 .. Len(Ordered({})) |->
                IF n = 0 THEN init
                ELSE ReplayStep({}, AncestorMap({}), f[n - 1], Ordered({})[n])])[Len(Ordered({}))]
  BY DEF Replay, FoldOrdered
<1>5. Replay({}) = [n \in 0 .. 0 |-> init][Len(Ordered({}))]
  BY <1>3, <1>4, Zenon
<1>6. Replay({}) = init
  BY <1>1, <1>5
<1> QED BY <1>6 DEF Replays

\* The empty set has no conflicts and does not overflow the scan.
LEMMA EmptyConflicts == ~ ConflictScan({}).overflow /\ Conflicts({}) = {}
<1> DEFINE init == [frontier |-> {}, conflicts |-> {}, overflow |-> FALSE]
<1>1. Len(Ordered({})) = 0
  BY EmptyOrder
<1>2. \A f :
        [n \in 0 .. Len(Ordered({})) |->
                IF n = 0 THEN init
                ELSE ConflictStep({}, AncestorMap({}), f[n - 1], Ordered({})[n])]
            = [n \in 0 .. 0 |-> init]
  BY <1>1
<1>3. (CHOOSE f : f =
        [n \in 0 .. Len(Ordered({})) |->
                IF n = 0 THEN init
                ELSE ConflictStep({}, AncestorMap({}), f[n - 1], Ordered({})[n])])
            = [n \in 0 .. 0 |-> init]
  BY <1>2
<1>4. ConflictScan({}) =
        (CHOOSE f : f =
            [n \in 0 .. Len(Ordered({})) |->
                IF n = 0 THEN init
                ELSE ConflictStep({}, AncestorMap({}), f[n - 1], Ordered({})[n])])[Len(Ordered({}))]
  BY DEF ConflictScan, FoldOrdered
<1>5. ConflictScan({}) = [n \in 0 .. 0 |-> init][Len(Ordered({}))]
  BY <1>3, <1>4, Zenon
<1>6. ConflictScan({}) = init
  BY <1>1, <1>5
<1> QED BY <1>6 DEF Conflicts

\* A project without operations is its baseline, whatever that is.
LEMMA EmptyMaterializes == \A base : Materializes(base, {})
<1>1. ValidGraph({})
  BY DEF ValidGraph
<1> QED BY <1>1, EmptyReplay, EmptyConflicts DEF Materializes, Applyable

-----------------------------------------------------------------------------
(* The log only grows                                                      *)

LogGrows(d, e) ==
    /\ Len(d) \in Nat /\ DOMAIN d = 1 .. Len(d)
    /\ Len(e) \in Nat /\ DOMAIN e = 1 .. Len(e)
    /\ Len(d) <= Len(e)
    /\ \A i \in 1 .. Len(d) : e[i] = d[i]

\* A step that leaves the log alone lets it grow by nothing.
LEMMA LogStays ==
    ASSUME SessionTypeOK, log' = log
    PROVE  LogGrows(log, log') /\ log' \in Seq(Persisted') /\ Persisted' = Persisted
<1>1. Persisted' = Persisted
  BY DEF Persisted
<1> QED BY <1>1 DEF SessionTypeOK, LogGrows

\* An append extends the log by one operation.
LEMMA LogAppended ==
    ASSUME SessionTypeOK, NEW op, log' = Append(log, op)
    PROVE  /\ LogGrows(log, log') /\ log' \in Seq(Persisted')
           /\ Persisted' = Persisted \cup {op}
           /\ Len(log') = Len(log) + 1 /\ log'[Len(log) + 1] = op
<1> DEFINE T == Persisted \cup {op}
<1>1. log \in Seq(T) /\ op \in T
  BY DEF SessionTypeOK
<1> HIDE DEF T
<1>2. /\ log' \in Seq(T) /\ Len(log') = Len(log) + 1
      /\ \A i \in 1 .. Len(log) : log'[i] = log[i]
      /\ log'[Len(log) + 1] = op
  BY <1>1, AppendProperties
<1>3. /\ Len(log) \in Nat /\ DOMAIN log = 1 .. Len(log)
      /\ Len(log') \in Nat /\ DOMAIN log' = 1 .. Len(log')
  BY <1>1, <1>2
<1>4. LogGrows(log, log')
  BY <1>2, <1>3 DEF LogGrows
<1>5. Persisted' = T
  <2>1. \A x \in Persisted : x \in Persisted'
    BY <1>2, <1>3 DEF Persisted
  <2>2. op \in Persisted'
    BY <1>2, <1>3 DEF Persisted
  <2>3. ASSUME NEW x \in Persisted' PROVE x \in T
    <3>1. PICK i \in 1 .. Len(log) + 1 : x = log'[i]
      BY <1>2, <1>3 DEF Persisted
    <3>2. CASE i = Len(log) + 1
      BY <3>1, <3>2, <1>1, <1>2
    <3>3. CASE i \in 1 .. Len(log)
      BY <3>1, <3>3, <1>2, <1>3 DEF Persisted, T
    <3> QED BY <3>2, <3>3, <1>3
  <2> QED BY <2>1, <2>2, <2>3 DEF T
<1> QED BY <1>2, <1>4, <1>5 DEF T

\* What a call has read or written, and what a receipt says, stays true.
LEMMA KnownKept ==
    ASSUME NEW d, NEW e, LogGrows(d, e), NEW k, Known(d, k)
    PROVE  Known(e, k)
<1>1. ASSUME NEW x \in {d[i] : i \in DOMAIN d} PROVE x \in {e[i] : i \in DOMAIN e}
  BY <1>1 DEF LogGrows
<1>2. ASSUME k.at \in Durable
      PROVE  \E v \in 1 .. Len(e) : k.receipt = {v} /\ \E i \in 1 .. v : e[i] = k.op
  <2>1. PICK v \in 1 .. Len(d) : k.receipt = {v} /\ \E i \in 1 .. v : d[i] = k.op
    BY <1>2 DEF Known
  <2> QED BY <2>1 DEF LogGrows
<1> QED BY <1>1, <1>2, Zenon DEF Known

\* A true reply stays true when the log grows.
LEMMA ReplyKept ==
    ASSUME NEW d, NEW e, LogGrows(d, e), NEW r, TrueReply(d, r)
    PROVE  TrueReply(e, r)
<1> SUFFICES ASSUME r.tag = "Receipt" PROVE TrueReply(e, r)
  BY DEF TrueReply
<1>1. PICK i \in 1 .. r.revision : d[i].id = r.call.op /\ SameIntentAs(r.call, d[i])
  BY DEF TrueReply
<1>2. r.revision \in 1 .. Len(e) /\ e[i] = d[i]
  BY <1>1 DEF TrueReply, LogGrows
<1>3. e[i].id = r.call.op /\ SameIntentAs(r.call, e[i])
  BY <1>1, <1>2
<1> QED BY <1>2, <1>3, Zenon DEF TrueReply

-----------------------------------------------------------------------------
(* Steps of one session                                                    *)

\* A session that holds nothing.
LEMMA ClosedFields ==
    /\ HasShape(Closed)
    /\ Closed.mode = "Closed" /\ Closed.at = "Idle" /\ Closed.receipt = {}
    /\ Closed.fresh = FALSE /\ Closed.expected = 0 /\ Closed.reply.tag = "None"
BY Zenon DEF Closed, Silent, HasShape, Fields

\* What is asked of the new record of a session.
Fits(k) ==
    /\ LocalTypeOK(k) /\ BaselineKnown(k) /\ Asked(k)
    /\ Known(log, k) /\ Shows(k) /\ TrueReply(log, k.reply)

\* A session without a call in flight relies on nothing but its bundle.
LEMMA RestFits ==
    ASSUME NEW k, LocalTypeOK(k), k.at = "Idle", k.mode # "Closed" => baseline # "Missing",
           TrueReply(log, k.reply)
    PROVE  Fits(k)
BY DEF Fits, BaselineKnown, Asked, Known, Shows, HasOperation, Durable

\* The record a reply leaves behind satisfies the invariant.
LEMMA IdleFits ==
    ASSUME NEW m, NEW answer, m # "Closed" => baseline # "Missing", TrueReply(log, answer),
           NEW k, k = [Closed EXCEPT !.mode = m, !.reply = answer]
    PROVE  Fits(k) /\ k.at = "Idle"
<1>1. /\ k.mode = m /\ k.at = "Idle" /\ k.expected = 0 /\ k.receipt = {} /\ k.fresh = FALSE
      /\ k.reply = answer
  BY ClosedFields DEF HasShape, Fields
<1>s. HasShape(k)
  BY ClosedFields, Zenon DEF HasShape, Fields
<1>2. LocalTypeOK(k)
  BY <1>1, <1>s DEF LocalTypeOK, Stages, Durable
<1> QED BY <1>1, <1>2, RestFits, Zenon

\* A step of one session leaves the records of the others alone.
LEMMA Frame ==
    ASSUME SessionTypeOK, NEW s \in Sessions, NEW k, local' = [local EXCEPT ![s] = k]
    PROVE  /\ local' = [t \in Sessions |-> local'[t]] /\ local'[s] = k
           /\ \A t \in Sessions : t # s => local'[t] = local[t]
BY Zenon DEF SessionTypeOK

\* A session that does not step keeps its invariant when the log grows.
LEMMA OtherSession ==
    ASSUME NEW t \in Sessions, SessionInv(t), local'[t] = local[t], LogGrows(log, log'),
           BaselineKnown(local[t])'
    PROVE  SessionInv(t)'
<1>1. LocalTypeOK(local[t])' /\ Asked(local[t])' /\ Shows(local[t])'
  BY Zenon DEF SessionInv, LocalTypeOK, Asked, Shows, SameIntentAs, Operation, MapField,
         CalibrationField
<1>2. Known(log', local'[t]) /\ TrueReply(log', local'[t].reply)
  BY KnownKept, ReplyKept DEF SessionInv
<1> QED BY <1>1, <1>2, Zenon DEF SessionInv

\* A step that only gives one session a new record.
LEMMA LocalStep ==
    ASSUME IInv, NEW s \in Sessions, NEW k, local' = [local EXCEPT ![s] = k],
           baseline' = baseline, log' = log, publications' = publications \/ Registered,
           Fits(k), k.at # "Baseline"
    PROVE  IInv'
<1>1. /\ local' = [t \in Sessions |-> local'[t]] /\ local'[s] = k
      /\ \A t \in Sessions : t # s => local'[t] = local[t]
  BY Frame, Zenon DEF IInv
<1>2. LogGrows(log, log') /\ log' \in Seq(Persisted')
  BY LogStays DEF IInv
<1>3. SessionTypeOK'
  BY <1>1, <1>2 DEF IInv, SessionTypeOK
<1>4. BaselineInv'
  BY <1>1, SMTT(30) DEF IInv, BaselineInv, Registered
<1>5. SessionInv(s)'
  <2>1. LocalTypeOK(k) /\ BaselineKnown(k) /\ Asked(k)
    BY Zenon DEF Fits
  <2>2. Known(log, k) /\ Shows(k) /\ TrueReply(log, k.reply)
    BY Zenon DEF Fits
  <2>3. BaselineKnown(local[s])'
    BY <1>1, <2>1, Zenon DEF BaselineKnown, Registered
  <2>4. LocalTypeOK(local[s])' /\ Asked(local[s])'
    BY <1>1, <2>1, Zenon DEF LocalTypeOK, Asked
  <2>5. Known(log', local'[s]) /\ Shows(local[s])' /\ TrueReply(log', local'[s].reply)
    BY <1>1, <2>2, Zenon DEF Shows
  <2> QED BY <2>3, <2>4, <2>5, Zenon DEF SessionInv, Known, TrueReply
<1>6. ASSUME NEW t \in Sessions, t # s PROVE SessionInv(t)'
  <2>1. SessionInv(t) /\ local'[t] = local[t]
    BY <1>1, <1>6 DEF IInv
  <2>2. BaselineKnown(local[t])'
    BY <2>1, Zenon DEF SessionInv, BaselineKnown, Registered
  <2> QED BY <2>1, <2>2, <1>2, OtherSession
<1> QED BY <1>3, <1>4, <1>5, <1>6 DEF IInv

\* A call ends with an answer that is true.
LEMMA ReplyStep ==
    ASSUME IInv, NEW s \in Sessions, NEW answer, TrueReply(log, answer),
           CallReplies(s, answer),
           baseline' = baseline, log' = log, publications' = publications
    PROVE  IInv'
<1> DEFINE k == [Closed EXCEPT !.mode = local[s].mode, !.reply = answer]
<1>1. local' = [local EXCEPT ![s] = k]
  BY DEF CallReplies
<1>2. local[s].mode # "Closed" => baseline # "Missing"
  BY Zenon DEF IInv, SessionInv, BaselineKnown
<1>3. Fits(k) /\ k.at = "Idle"
  BY <1>2, IdleFits, Zenon
<1> HIDE DEF k
<1> QED BY <1>1, <1>3, LocalStep, Zenon

LEMMA FailsStep ==
    ASSUME IInv, NEW s \in Sessions, Fails(s)
    PROVE  IInv'
<1> DEFINE answer == [tag |-> "Failed"]
<1>1. TrueReply(log, answer)
  BY Zenon DEF TrueReply
<1>2. CallReplies(s, answer) /\ UNCHANGED <<baseline, log, publications>>
  BY DEF Fails, store
<1> HIDE DEF answer
<1> QED BY <1>1, <1>2, ReplyStep

LEMMA InitIInv == SessionInit => IInv
<1> SUFFICES ASSUME SessionInit PROVE IInv
  OBVIOUS
<1>1. SessionTypeOK
  <2>1. log \in Seq(Persisted)
    BY DEF SessionInit
  <2> QED BY <2>1 DEF SessionInit, SessionTypeOK
<1>2. ASSUME NEW s \in Sessions PROVE SessionInv(s) /\ local[s].at = "Idle"
  <2>1. local[s] = Closed
    BY DEF SessionInit
  <2>2. LocalTypeOK(Closed)
    BY ClosedFields DEF LocalTypeOK, Stages, Durable
  <2>3. TrueReply(log, Closed.reply) /\ Closed.mode = "Closed" /\ Closed.at = "Idle"
    BY ClosedFields DEF TrueReply
  <2>4. Fits(Closed)
    BY <2>2, <2>3, RestFits
  <2> QED BY <2>1, <2>3, <2>4, Zenon DEF Fits, SessionInv
<1>3. BaselineInv
  BY <1>2 DEF SessionInit, BaselineInv, Registered
<1> QED BY <1>1, <1>2, <1>3, Zenon DEF IInv

-----------------------------------------------------------------------------
(* The steps, one by one                                                   *)

\* A call that goes to its next stage keeps what it has in hand.
LEMMA Goes ==
    ASSUME IInv, NEW s \in Sessions, NEW x, CallGoes(s, x)
    PROVE  \E k :
            /\ local' = [local EXCEPT ![s] = k] /\ HasShape(k) /\ k.at = x
            /\ k.mode = local[s].mode /\ k.call = local[s].call /\ k.ops = local[s].ops
            /\ k.op = local[s].op /\ k.expected = local[s].expected
            /\ k.receipt = local[s].receipt /\ k.fresh = local[s].fresh
            /\ k.reply = local[s].reply
<1> DEFINE k == [local[s] EXCEPT !.at = x]
<1>1. HasShape(local[s])
  BY Zenon DEF IInv, SessionInv, LocalTypeOK
<1>2. local' = [local EXCEPT ![s] = k]
  BY DEF CallGoes
<1>3. HasShape(k) /\ k.at = x
  BY <1>1, Zenon DEF HasShape, Fields
<1>4. /\ k.mode = local[s].mode /\ k.call = local[s].call /\ k.ops = local[s].ops
      /\ k.op = local[s].op /\ k.expected = local[s].expected
      /\ k.receipt = local[s].receipt /\ k.fresh = local[s].fresh
      /\ k.reply = local[s].reply
  BY <1>1 DEF HasShape, Fields
<1> HIDE DEF k
<1> QED BY <1>2, <1>3, <1>4, Zenon

LEMMA CreateStep ==
    ASSUME IInv, NEW s \in Sessions, Create(s)
    PROVE  IInv'
<1> DEFINE k == [Closed EXCEPT !.mode = "ReadWrite", !.at = "Baseline"]
<1>f. /\ k.at = "Baseline" /\ k.expected = 0 /\ k.receipt = {} /\ k.fresh = FALSE
      /\ k.reply.tag = "None"
  BY ClosedFields DEF HasShape, Fields
<1>k. HasShape(k)
  BY ClosedFields, Zenon DEF HasShape, Fields
<1>1. local' = [local EXCEPT ![s] = k] /\ baseline = "Missing" /\ baseline' = "None"
      /\ log' = log /\ publications' = publications
  BY DEF Create
<1> HIDE DEF k
<1>2. /\ local' = [t \in Sessions |-> local'[t]] /\ local'[s] = k
      /\ \A t \in Sessions : t # s => local'[t] = local[t]
  BY <1>1, Frame, Zenon DEF IInv
<1>3. LogGrows(log, log') /\ log' \in Seq(Persisted')
  BY <1>1, LogStays DEF IInv
<1>4. SessionTypeOK'
  BY <1>1, <1>2, <1>3 DEF IInv, SessionTypeOK
<1>5. \A t \in Sessions : local[t].at # "Baseline"
  BY <1>1 DEF IInv, SessionInv, BaselineKnown
<1>6. BaselineInv'
  BY <1>1, <1>2, <1>5 DEF IInv, BaselineInv, Registered
<1>7. SessionInv(s)'
  <2>1. LocalTypeOK(k)
    BY <1>k, <1>f DEF LocalTypeOK, Stages, Durable
  <2>2. BaselineKnown(local[s])' /\ TrueReply(log', k.reply)
    BY <1>f, <1>1, <1>2, Zenon DEF BaselineKnown, Durable, TrueReply
  <2>3. Asked(k) /\ Known(log', k) /\ Shows(k)
    BY <1>f DEF Asked, Known, Shows, HasOperation, Durable
  <2> QED BY <1>2, <2>1, <2>2, <2>3, Zenon DEF SessionInv, LocalTypeOK, Asked, Known, Shows
<1>8. ASSUME NEW t \in Sessions, t # s PROVE SessionInv(t)'
  <2>1. SessionInv(t) /\ local'[t] = local[t]
    BY <1>2, <1>8 DEF IInv
  <2>2. BaselineKnown(local[t])'
    BY <2>1, <1>1, Zenon DEF SessionInv, BaselineKnown, Registered
  <2> QED BY <2>1, <2>2, <1>3, OtherSession
<1> QED BY <1>4, <1>6, <1>7, <1>8 DEF IInv

LEMMA BaselineStep ==
    ASSUME IInv, NEW s \in Sessions, RegisterBaseline(s)
    PROVE  IInv'
<1>1. PICK k :
        /\ local' = [local EXCEPT ![s] = k] /\ HasShape(k) /\ k.at = "Idle"
        /\ k.expected = local[s].expected /\ k.receipt = local[s].receipt
        /\ k.fresh = local[s].fresh /\ k.reply = local[s].reply
  BY Goes DEF RegisterBaseline
<1>2. local[s].at = "Baseline" /\ baseline' \in {"Empty", "Floor"}
      /\ log' = log /\ publications' = publications
  BY DEF RegisterBaseline, CallAt
<1>3. /\ local' = [t \in Sessions |-> local'[t]] /\ local'[s] = k
      /\ \A t \in Sessions : t # s => local'[t] = local[t]
  BY <1>1, Frame, Zenon DEF IInv
<1>4. LogGrows(log, log') /\ log' \in Seq(Persisted')
  BY <1>2, LogStays DEF IInv
<1>5. SessionTypeOK'
  BY <1>2, <1>3, <1>4 DEF IInv, SessionTypeOK
<1>6. \A t \in Sessions : t # s => local[t].at # "Baseline"
  BY <1>2 DEF IInv, BaselineInv
<1>7. BaselineInv'
  BY <1>1, <1>2, <1>3, <1>6 DEF BaselineInv, Registered
<1>8. SessionInv(s)'
  <2>1. LocalTypeOK(k)
    BY <1>1, <1>2, Zenon DEF IInv, SessionInv, LocalTypeOK, Stages, Durable
  <2>2. BaselineKnown(local[s])' /\ TrueReply(log', k.reply)
    BY <1>1, <1>2, <1>3, Zenon DEF IInv, SessionInv, BaselineKnown, Durable
  <2>3. Asked(k) /\ Known(log', k) /\ Shows(k)
    BY <1>1, Zenon DEF Asked, Known, Shows, HasOperation, Durable
  <2> QED BY <1>3, <2>1, <2>2, <2>3, Zenon DEF SessionInv, LocalTypeOK, Asked, Known, Shows
<1>9. ASSUME NEW t \in Sessions, t # s PROVE SessionInv(t)'
  <2>1. SessionInv(t) /\ local'[t] = local[t]
    BY <1>3, <1>9 DEF IInv
  <2>2. BaselineKnown(local[t])'
    BY <2>1, <1>2, <1>6, <1>9 DEF BaselineKnown, Registered
  <2> QED BY <2>1, <2>2, <1>4, OtherSession
<1> QED BY <1>5, <1>7, <1>8, <1>9 DEF IInv

LEMMA OpenStep ==
    ASSUME IInv, NEW s \in Sessions, Open(s)
    PROVE  IInv'
<1>1. PICK m \in {"ReadOnly", "ReadWrite"} :
        local' = [local EXCEPT ![s] = [Closed EXCEPT !.mode = m]]
  BY Zenon DEF Open
<1> DEFINE k == [Closed EXCEPT !.mode = m]
<1>2. k.at = "Idle" /\ k.expected = 0 /\ k.receipt = {} /\ k.fresh = FALSE /\ k.reply.tag = "None"
  BY ClosedFields DEF HasShape, Fields
<1>3. HasShape(k)
  BY ClosedFields DEF HasShape, Fields
<1>4. local' = [local EXCEPT ![s] = k]
  BY <1>1
<1> HIDE DEF k
<1>5. LocalTypeOK(k) /\ TrueReply(log, k.reply)
  BY <1>2, <1>3 DEF LocalTypeOK, Stages, Durable, TrueReply
<1>6. baseline # "Missing" /\ UNCHANGED <<baseline, log, publications>>
  BY DEF Open, store
<1>7. Fits(k)
  BY <1>2, <1>5, <1>6, RestFits, Zenon
<1> QED BY <1>2, <1>4, <1>6, <1>7, LocalStep, Zenon

LEMMA CloseStep ==
    ASSUME IInv, NEW s \in Sessions, Close(s)
    PROVE  IInv'
<1>1. local' = [local EXCEPT ![s] = Closed] /\ UNCHANGED <<baseline, log, publications>>
  BY DEF Close, store
<1>2. LocalTypeOK(Closed) /\ TrueReply(log, Closed.reply)
  BY ClosedFields DEF LocalTypeOK, Stages, Durable, TrueReply
<1>3. Fits(Closed) /\ Closed.at = "Idle"
  BY <1>2, ClosedFields, RestFits
<1> QED BY <1>1, <1>3, LocalStep, Zenon

\* The operation that is built is the one its call asks for.
LEMMA OperationAsked ==
    ASSUME NEW c, NEW time, NEW depth, NEW parents, NEW prior
    PROVE  LET op == Operation(c, time, depth, parents, prior)
           IN  op.id = c.op /\ SameIntentAs(c, op)
BY DEF Operation, SameIntentAs

LEMMA BeginStep ==
    ASSUME IInv, NEW s \in Sessions, NEW c \in Calls, Begin(s, c)
    PROVE  IInv'
<1>u. UNCHANGED <<baseline, log, publications>>
  BY DEF Begin, store
<1>1. CASE local[s].mode # "ReadWrite"
  <2> DEFINE answer == [tag |-> "Failed"]
  <2>1. TrueReply(log, answer) /\ CallReplies(s, answer)
    BY <1>1 DEF Begin, TrueReply
  <2> HIDE DEF answer
  <2> QED BY <2>1, <1>u, ReplyStep
<1>2. CASE local[s].mode = "ReadWrite"
  <2> DEFINE first == IF c.via = "Request"
                      THEN Operation(c, c.time, c.depth, c.parents, c.prior) ELSE NoOp
             expects == IF c.via = "Request" THEN c.expected ELSE 0
             k == [local[s] EXCEPT !.at = FirstStage(c), !.call = c, !.reply = Silent,
                                   !.expected = expects, !.op = first]
  <2>1. HasShape(local[s]) /\ local[s].at = "Idle"
    BY DEF IInv, SessionInv, LocalTypeOK, Begin, CallAt
  <2>2. local' = [local EXCEPT ![s] = k]
    BY <1>2 DEF Begin
  <2>e. expects \in Nat
    BY CallsAreMutations
  <2>o. c.via = "Request" => first.id = c.op /\ SameIntentAs(c, first)
    BY OperationAsked
  <2> HIDE DEF first, expects
  <2>3. /\ k.at = FirstStage(c) /\ k.call = c /\ k.reply = Silent /\ k.expected = expects
        /\ k.op = first
    BY <2>1 DEF HasShape, Fields
  <2>4. k.mode = local[s].mode /\ k.receipt = local[s].receipt /\ k.fresh = local[s].fresh
    BY <2>1 DEF HasShape, Fields
  <2>5. HasShape(k)
    BY <2>1, Zenon DEF HasShape, Fields
  <2> HIDE DEF k
  <2>6. k.at \in {"Read", "Put", "Validate"} /\ (k.at # "Read" => c.via = "Request")
    BY <2>3, CallsAreMutations DEF FirstStage
  <2>7. LocalTypeOK(k)
    BY <2>1, <2>3, <2>4, <2>5, <2>6, <2>e, Zenon
       DEF IInv, SessionInv, LocalTypeOK, Stages, Durable
  <2>8. BaselineKnown(k) /\ TrueReply(log, k.reply)
    BY <2>3, <2>4, <2>6 DEF IInv, SessionInv, BaselineKnown, TrueReply, Silent, Durable
  <2>9. Asked(k)
    BY <2>3, <2>6, <2>o, Zenon DEF Asked, HasOperation, Durable
  <2>10. Known(log, k) /\ Shows(k)
    BY <2>6, Zenon DEF Known, Shows, Durable
  <2>11. Fits(k) /\ k.at # "Baseline"
    BY <2>6, <2>7, <2>8, <2>9, <2>10 DEF Fits
  <2> QED BY <2>2, <2>11, <1>u, LocalStep, Zenon
<1> QED BY <1>1, <1>2

LEMMA ReadStep ==
    ASSUME IInv, NEW s \in Sessions, ReadOperations(s)
    PROVE  IInv'
<1>1. CASE baseline = "None"
  BY <1>1, FailsStep DEF ReadOperations
<1>2. CASE baseline # "None"
  <2> DEFINE k == [local[s] EXCEPT !.ops = Persisted, !.at = "Derive"]
  <2>1. HasShape(local[s]) /\ local[s].at = "Read" /\ local[s].mode # "Closed"
    BY DEF IInv, SessionInv, LocalTypeOK, ReadOperations, CallAt
  <2>2. local' = [local EXCEPT ![s] = k] /\ UNCHANGED <<baseline, log, publications>>
    BY <1>2, Zenon DEF ReadOperations, store
  <2>3. /\ k.at = "Derive" /\ k.ops = Persisted /\ k.mode = local[s].mode
        /\ k.expected = local[s].expected /\ k.receipt = local[s].receipt
        /\ k.fresh = local[s].fresh /\ k.reply = local[s].reply
    BY <2>1 DEF HasShape, Fields
  <2>4. HasShape(k)
    BY <2>1, Zenon DEF HasShape, Fields
  <2> HIDE DEF k
  <2>5. LocalTypeOK(k) /\ TrueReply(log, k.reply)
    BY <2>1, <2>3, <2>4, Zenon DEF IInv, SessionInv, LocalTypeOK, Stages, Durable
  <2>6. BaselineKnown(k)
    BY <1>2, <2>1, <2>3, Zenon
       DEF IInv, SessionTypeOK, SessionInv, BaselineKnown, Registered, Durable
  <2>7. Asked(k) /\ Known(log, k) /\ Shows(k)
    BY <2>3, Zenon DEF Asked, Known, Shows, HasOperation, Durable, Persisted
  <2>8. Fits(k) /\ k.at # "Baseline"
    BY <2>3, <2>5, <2>6, <2>7, Zenon DEF Fits
  <2> QED BY <2>2, <2>8, LocalStep, Zenon
<1> QED BY <1>1, <1>2

LEMMA DeriveStep ==
    ASSUME IInv, NEW s \in Sessions, Derive(s)
    PROVE  IInv'
<1> DEFINE c == local[s].call
           S == local[s].ops
           existing == {op \in S : op.id = c.op}
<1>1. /\ HasShape(local[s]) /\ local[s].at = "Derive" /\ Registered
      /\ local[s].ops \subseteq Persisted /\ TrueReply(log, local[s].reply)
      /\ local[s].expected \in Nat /\ local[s].receipt = {} /\ local[s].fresh = FALSE
  BY Zenon
     DEF IInv, SessionInv, LocalTypeOK, BaselineKnown, Known, Persisted, Derive, CallAt, Durable
<1>2. CASE Fails(s)
  BY <1>2, FailsStep
<1>3. ASSUME NEW op \in existing, RetryMatches(c, op),
             local' = [local EXCEPT ![s].op = op, ![s].at = "Retry"], UNCHANGED store
      PROVE  IInv'
  <2> DEFINE k == [local[s] EXCEPT !.op = op, !.at = "Retry"]
  <2>1. local' = [local EXCEPT ![s] = k] /\ UNCHANGED <<baseline, log, publications>>
    BY <1>3, Zenon DEF store
  <2>2. /\ k.at = "Retry" /\ k.op = op /\ k.mode = local[s].mode /\ k.call = c
        /\ k.expected = local[s].expected /\ k.receipt = {} /\ k.fresh = FALSE
        /\ k.reply = local[s].reply
    BY <1>1, Zenon DEF HasShape, Fields
  <2>3. HasShape(k)
    BY <1>1, Zenon DEF HasShape, Fields
  <2> HIDE DEF k
  <2>4. LocalTypeOK(k) /\ TrueReply(log, k.reply) /\ BaselineKnown(k)
    BY <1>1, <2>2, <2>3, Zenon DEF LocalTypeOK, Stages, Durable, BaselineKnown, Registered
  <2>5. Asked(k)
    BY <1>3, <2>2 DEF Asked, RetryMatches
  <2>6. Known(log, k) /\ Shows(k)
    BY <1>1, <2>2, Zenon DEF Known, Shows, Persisted, Durable
  <2>7. Fits(k) /\ k.at # "Baseline"
    BY <2>2, <2>4, <2>5, <2>6, Zenon DEF Fits
  <2> QED BY <2>1, <2>7, LocalStep, Zenon
<1>4. ASSUME NEW x \in {"Put", "Validate"}, UNCHANGED store,
             local' = [local EXCEPT ![s].op = Derived(c, S), ![s].expected = Len(log), ![s].at = x]
      PROVE  IInv'
  <2> DEFINE op == Derived(c, S)
             k == [local[s] EXCEPT !.op = op, !.expected = Len(log), !.at = x]
  <2>1. local' = [local EXCEPT ![s] = k] /\ UNCHANGED <<baseline, log, publications>>
    BY <1>4, Zenon DEF store
  <2>o. op.id = c.op /\ SameIntentAs(c, op)
    BY OperationAsked DEF Derived
  <2> HIDE DEF op
  <2>2. /\ k.at = x /\ k.op = op /\ k.mode = local[s].mode /\ k.call = c
        /\ k.expected = Len(log) /\ k.receipt = {} /\ k.fresh = FALSE
        /\ k.reply = local[s].reply
    BY <1>1 DEF HasShape, Fields
  <2>3. HasShape(k)
    BY <1>1, Zenon DEF HasShape, Fields
  <2> HIDE DEF k
  <2>n. Len(log) \in Nat
    BY DEF IInv, SessionTypeOK
  <2>4. LocalTypeOK(k) /\ TrueReply(log, k.reply) /\ BaselineKnown(k)
    BY <1>1, <2>2, <2>3, <2>n, Zenon DEF LocalTypeOK, Stages, Durable, BaselineKnown, Registered
  <2>5. Asked(k)
    BY <2>o, <2>2, Zenon DEF Asked
  <2>6. Known(log, k) /\ Shows(k)
    BY <2>2, Zenon DEF Known, Shows, Durable
  <2>7. Fits(k) /\ k.at # "Baseline"
    BY <2>2, <2>4, <2>5, <2>6, Zenon DEF Fits
  <2> QED BY <2>1, <2>7, LocalStep, Zenon
<1> QED BY <1>2, <1>3, <1>4, Zenon DEF Derive

\* A call that stays in the first half goes to its next stage.
LEMMA ForwardStep ==
    ASSUME IInv, NEW s \in Sessions, NEW x \in {"Validate", "Append"}, CallGoes(s, x),
           local[s].at \in {"Put", "Validate"}, x = "Append" => Registered,
           UNCHANGED <<baseline, log, publications>>
    PROVE  IInv'
<1>1. PICK k :
        /\ local' = [local EXCEPT ![s] = k] /\ HasShape(k) /\ k.at = x
        /\ k.mode = local[s].mode /\ k.call = local[s].call /\ k.op = local[s].op
        /\ k.expected = local[s].expected /\ k.receipt = local[s].receipt
        /\ k.fresh = local[s].fresh /\ k.reply = local[s].reply
  BY Goes
<1>2. LocalTypeOK(k) /\ TrueReply(log, k.reply)
  BY <1>1, Zenon DEF IInv, SessionInv, LocalTypeOK, Stages, Durable
<1>3. BaselineKnown(k)
  BY <1>1, Zenon DEF IInv, SessionInv, BaselineKnown, Durable
<1>4. Asked(k)
  BY <1>1, Zenon DEF IInv, SessionInv, Asked, HasOperation
<1>5. Known(log, k) /\ Shows(k)
  BY <1>1, Zenon DEF Known, Shows, Durable
<1>6. Fits(k) /\ k.at # "Baseline"
  BY <1>1, <1>2, <1>3, <1>4, <1>5, Zenon DEF Fits
<1> QED BY <1>1, <1>6, LocalStep, Zenon

LEMMA PutStep ==
    ASSUME IInv, NEW s \in Sessions, Put(s)
    PROVE  IInv'
<1>1. local[s].at = "Put"
  BY Zenon DEF Put, CallAt
<1>2. \/ Fails(s)
      \/ CallGoes(s, "Validate") /\ UNCHANGED <<baseline, log, publications>>
  BY Zenon DEF Put
<1> QED BY <1>1, <1>2, FailsStep, ForwardStep, Zenon

LEMMA ValidateStep ==
    ASSUME IInv, NEW s \in Sessions, Validate(s)
    PROVE  IInv'
<1>1. local[s].at = "Validate" /\ local[s].mode # "Closed"
  BY Zenon DEF Validate, CallAt
<1>2. \/ Fails(s)
      \/ CallGoes(s, "Append") /\ baseline # "None" /\ UNCHANGED <<baseline, log, publications>>
  BY DEF Validate, store
<1>3. baseline # "None" => Registered
  BY <1>1, Zenon DEF IInv, SessionTypeOK, SessionInv, BaselineKnown, Registered
<1> QED BY <1>1, <1>2, <1>3, FailsStep, ForwardStep, Zenon

\* The one step that makes the log longer.
LEMMA AppendedStep ==
    ASSUME IInv, NEW s \in Sessions, local[s].at = "Append",
           NEW k, local' = [local EXCEPT ![s] = k], HasShape(k), k.at = "Reread",
           k.mode = local[s].mode, k.call = local[s].call, k.op = local[s].op,
           k.expected = local[s].expected, k.reply = local[s].reply,
           k.receipt = {Len(log) + 1},
           log' = Append(log, local[s].op), baseline' = baseline, publications' = publications
    PROVE  IInv'
<1>1. /\ local' = [t \in Sessions |-> local'[t]] /\ local'[s] = k
      /\ \A t \in Sessions : t # s => local'[t] = local[t]
  BY Frame, Zenon DEF IInv
<1>2. /\ LogGrows(log, log') /\ log' \in Seq(Persisted')
      /\ Len(log') = Len(log) + 1 /\ log'[Len(log) + 1] = local[s].op
  BY LogAppended, Zenon DEF IInv
<1>3. Registered
  BY Zenon DEF IInv, SessionInv, BaselineKnown
<1>4. SessionTypeOK'
  BY <1>1, <1>2, Zenon DEF IInv, SessionTypeOK
<1>5. BaselineInv'
  BY <1>1, <1>3, ZenonT(30) DEF IInv, BaselineInv, Registered
<1>6. SessionInv(s)'
  <2>1. LocalTypeOK(k)
    BY Zenon DEF IInv, SessionInv, LocalTypeOK, Stages, Durable
  <2>2. BaselineKnown(local[s])'
    BY <1>1, <1>3, Zenon DEF IInv, SessionInv, BaselineKnown, Registered
  <2>3. Asked(k) /\ Shows(k)
    BY Zenon DEF IInv, SessionInv, Asked, Shows, HasOperation
  <2>4. Known(log', k)
    <3>1. Len(log) + 1 \in 1 .. Len(log') /\ Len(log) + 1 \in 1 .. Len(log) + 1
      BY <1>2 DEF LogGrows
    <3> QED BY <1>2, <3>1, Zenon DEF Known
  <2>5. TrueReply(log', k.reply)
    BY <1>2, ReplyKept, Zenon DEF IInv, SessionInv
  <2> QED BY <1>1, <2>1, <2>2, <2>3, <2>4, <2>5, Zenon DEF SessionInv, LocalTypeOK, Asked, Shows
<1>7. ASSUME NEW t \in Sessions, t # s PROVE SessionInv(t)'
  <2>1. SessionInv(t) /\ local'[t] = local[t]
    BY <1>1, <1>7, Zenon DEF IInv
  <2>2. BaselineKnown(local[t])'
    BY <2>1, Zenon DEF SessionInv, BaselineKnown, Registered
  <2> QED BY <2>1, <2>2, <1>2, OtherSession, Zenon
<1> QED BY <1>4, <1>5, <1>6, <1>7, Zenon DEF IInv

LEMMA AppendStep ==
    ASSUME IInv, NEW s \in Sessions, AppendOperation(s)
    PROVE  IInv'
<1> DEFINE op == local[s].op
           outcome == AppendOutcome(op, {local[s].expected})
           revision == IF outcome = "Appended" THEN Len(log) + 1 ELSE Len(log)
           k == [local[s] EXCEPT !.receipt = {revision}, !.fresh = TRUE, !.at = "Reread"]
<1>1. /\ HasShape(local[s]) /\ local[s].at = "Append" /\ Registered /\ log \in Seq(Persisted)
      /\ local[s].expected \in Nat
  BY Zenon DEF IInv, SessionTypeOK, SessionInv, LocalTypeOK, BaselineKnown, AppendOperation, CallAt
<1>2. CASE outcome = "Refused"
  BY <1>2, FailsStep DEF AppendOperation
<1>3. CASE outcome # "Refused"
  <2>1. /\ local' = [local EXCEPT ![s] = k]
        /\ log' = IF outcome = "Appended" THEN Append(log, op) ELSE log
        /\ UNCHANGED <<baseline, publications>>
    BY <1>3, Zenon DEF AppendOperation
  <2>2. outcome # "Appended" => op \in Persisted
    BY <1>3, Zenon DEF AppendOutcome
  <2> HIDE DEF outcome
  <2>3. /\ k.at = "Reread" /\ k.receipt = {revision} /\ k.mode = local[s].mode
        /\ k.call = local[s].call /\ k.op = op /\ k.expected = local[s].expected
        /\ k.reply = local[s].reply
    BY <1>1 DEF HasShape, Fields
  <2>4. HasShape(k)
    BY <1>1, Zenon DEF HasShape, Fields
  <2> HIDE DEF k
  <2>5. CASE outcome = "Appended"
    BY <1>1, <2>1, <2>3, <2>4, <2>5, AppendedStep, Zenon
  <2>6. CASE outcome # "Appended"
    <3>1. PICK i \in 1 .. Len(log) : log[i] = op
      BY <2>2, <2>6, PersistedHasPlace, Zenon DEF IInv
    <3>2. Known(log, k) /\ Shows(k)
      <4>1. Len(log) \in 1 .. Len(log)
        BY <1>1, <3>1, SMTT(30)
      <4> QED BY <2>3, <2>6, <3>1, <4>1, Zenon DEF Known, Shows
    <3>3. LocalTypeOK(k) /\ TrueReply(log, k.reply) /\ BaselineKnown(k) /\ Asked(k)
      BY <1>1, <2>3, <2>4, Zenon
         DEF IInv, SessionInv, LocalTypeOK, BaselineKnown, Asked, Stages, Durable, HasOperation,
             Registered
    <3>4. Fits(k) /\ k.at # "Baseline"
      BY <2>3, <3>2, <3>3, Zenon DEF Fits
    <3> QED BY <2>1, <2>6, <3>4, LocalStep, Zenon
  <2> QED BY <2>5, <2>6
<1> QED BY <1>2, <1>3, Zenon

LEMMA RetryStep ==
    ASSUME IInv, NEW s \in Sessions, RetryOperation(s)
    PROVE  IInv' /\ UNCHANGED store
<1> DEFINE op == local[s].op
           k == [local[s] EXCEPT !.receipt = {Len(log)}, !.at = "Readback"]
<1>1. /\ HasShape(local[s]) /\ local[s].at = "Retry" /\ Registered /\ log \in Seq(Persisted)
      /\ local[s].fresh = FALSE /\ op \in Persisted
  BY Zenon DEF IInv, SessionTypeOK, SessionInv, LocalTypeOK, BaselineKnown, Known, Persisted,
               Durable, RetryOperation, CallAt
<1>2. AppendOutcome(op, {}) = "Duplicate"
  BY <1>1 DEF AppendOutcome
<1>3. local' = [local EXCEPT ![s] = k] /\ UNCHANGED store
  BY <1>2, Zenon DEF RetryOperation
<1>4. /\ k.at = "Readback" /\ k.receipt = {Len(log)} /\ k.fresh = FALSE /\ k.mode = local[s].mode
      /\ k.call = local[s].call /\ k.op = op /\ k.expected = local[s].expected
      /\ k.reply = local[s].reply
  BY <1>1, Zenon DEF HasShape, Fields
<1>5. HasShape(k)
  BY <1>1, Zenon DEF HasShape, Fields
<1> HIDE DEF k
<1>6. PICK i \in 1 .. Len(log) : log[i] = op
  BY <1>1, PersistedHasPlace, Zenon DEF IInv
<1>7. Known(log, k) /\ Shows(k)
  <2>1. Len(log) \in 1 .. Len(log)
    BY <1>1, <1>6, SMTT(30)
  <2> QED BY <1>4, <1>6, <2>1, Zenon DEF Known, Shows
<1>8. LocalTypeOK(k) /\ TrueReply(log, k.reply) /\ BaselineKnown(k) /\ Asked(k)
  BY <1>1, <1>4, <1>5, Zenon
     DEF IInv, SessionInv, LocalTypeOK, BaselineKnown, Asked, Stages, Durable, HasOperation,
         Registered
<1>9. Fits(k) /\ k.at # "Baseline"
  BY <1>4, <1>7, <1>8, Zenon DEF Fits
<1> QED BY <1>3, <1>9, LocalStep, Zenon DEF store

\* A call that reached its append tells the truth, with or without a view.
LEMMA ReportsStep ==
    ASSUME IInv, NEW s \in Sessions, local[s].at \in Durable, NEW view,
           local[s].fresh => \A v \in view : local[s].op \in v,
           Reports(s, view), UNCHANGED <<baseline, log, publications>>
    PROVE  IInv'
<1>1. CASE local[s].call.via = "Request" /\ view = {}
  <2> DEFINE answer == [tag |-> "Failed"]
  <2>1. TrueReply(log, answer) /\ CallReplies(s, answer)
    BY <1>1, Zenon DEF Reports, TrueReply
  <2> HIDE DEF answer
  <2> QED BY <2>1, ReplyStep, Zenon
<1>2. CASE ~ (local[s].call.via = "Request" /\ view = {})
  <2> DEFINE rev == CHOOSE r \in local[s].receipt : TRUE
             answer == [tag |-> "Receipt", op |-> local[s].op, call |-> local[s].call,
                        revision |-> rev, fresh |-> local[s].fresh, view |-> view]
  <2>1. CallReplies(s, answer)
    BY <1>2, Zenon DEF Reports
  <2>2. PICK v \in 1 .. Len(log) :
            local[s].receipt = {v} /\ \E i \in 1 .. v : log[i] = local[s].op
    BY Zenon DEF IInv, SessionInv, Known
  <2>3. rev = v
    BY <2>2, Zenon
  <2> HIDE DEF rev
  <2>4. /\ answer.op = local[s].op /\ answer.call = local[s].call /\ answer.revision = v
        /\ answer.fresh = local[s].fresh /\ answer.view = view
    BY <2>3, Zenon
  <2> HIDE DEF answer
  <2>5. local[s].op.id = local[s].call.op /\ SameIntentAs(local[s].call, local[s].op)
    BY Zenon DEF IInv, SessionInv, Asked, HasOperation
  <2>6. PICK i \in 1 .. v : log[i] = local[s].op
    BY <2>2, Zenon
  <2>7. log[i].id = answer.call.op /\ SameIntentAs(answer.call, log[i])
    BY <2>4, <2>5, <2>6, Zenon
  <2>8. TrueReply(log, answer)
    BY <2>2, <2>4, <2>7, Zenon DEF TrueReply
  <2> QED BY <2>1, <2>8, ReplyStep, Zenon
<1> QED BY <1>1, <1>2, Zenon

LEMMA RereadStep ==
    ASSUME IInv, NEW s \in Sessions, Reread(s)
    PROVE  IInv'
<1>1. /\ HasShape(local[s]) /\ local[s].at = "Reread" /\ log \in Seq(Persisted)
      /\ UNCHANGED <<baseline, log, publications>>
  BY Zenon DEF IInv, SessionTypeOK, SessionInv, LocalTypeOK, Reread, CallAt, store
<1>2. CASE ~ Materializes(baseline, Persisted)
  <2>1. Reports(s, {})
    BY <1>2 DEF Reread
  <2> QED BY <1>1, <2>1, ReportsStep, Zenon DEF Durable
<1>3. CASE Materializes(baseline, Persisted)
  <2> DEFINE k == [local[s] EXCEPT !.ops = Persisted, !.at = "Publish"]
  <2>1. local' = [local EXCEPT ![s] = k]
    BY <1>3, Zenon DEF Reread
  <2>2. /\ k.at = "Publish" /\ k.ops = Persisted /\ k.receipt = local[s].receipt
        /\ k.fresh = local[s].fresh /\ k.mode = local[s].mode /\ k.call = local[s].call
        /\ k.op = local[s].op /\ k.expected = local[s].expected /\ k.reply = local[s].reply
    BY <1>1 DEF HasShape, Fields
  <2>3. HasShape(k)
    BY <1>1, Zenon DEF HasShape, Fields
  <2> HIDE DEF k
  <2>4. LocalTypeOK(k) /\ TrueReply(log, k.reply) /\ BaselineKnown(k) /\ Asked(k)
    BY <1>1, <2>2, <2>3, Zenon
       DEF IInv, SessionInv, LocalTypeOK, BaselineKnown, Asked, Stages, Durable, HasOperation
  <2>5. Known(log, k)
    BY <1>1, <2>2, ZenonT(30) DEF IInv, SessionInv, Known, Durable
  <2>6. Shows(k)
    <3>1. PICK v \in 1 .. Len(log) : \E i \in 1 .. v : log[i] = local[s].op
      BY <1>1, Zenon DEF IInv, SessionInv, Known, Durable
    <3>2. local[s].op \in Persisted
      BY <1>1, <3>1 DEF Persisted
    <3> QED BY <2>2, <3>2, Zenon DEF Shows
  <2>7. Fits(k) /\ k.at # "Baseline"
    BY <2>2, <2>4, <2>5, <2>6, Zenon DEF Fits
  <2> QED BY <1>1, <2>1, <2>7, LocalStep, Zenon
<1> QED BY <1>2, <1>3

LEMMA PublishStep ==
    ASSUME IInv, NEW s \in Sessions, Publish(s)
    PROVE  IInv'
<1>1. local[s].at = "Publish" /\ Registered /\ baseline' = baseline /\ log' = log
  BY Zenon DEF IInv, SessionInv, BaselineKnown, Durable, Publish, CallAt, store
<1>2. CASE CallGoes(s, "Readback")
  <2>1. PICK k :
          /\ local' = [local EXCEPT ![s] = k] /\ HasShape(k) /\ k.at = "Readback"
          /\ k.mode = local[s].mode /\ k.call = local[s].call /\ k.ops = local[s].ops
          /\ k.op = local[s].op /\ k.expected = local[s].expected
          /\ k.receipt = local[s].receipt /\ k.fresh = local[s].fresh
          /\ k.reply = local[s].reply
    BY <1>2, Goes
  <2>2. LocalTypeOK(k) /\ TrueReply(log, k.reply) /\ BaselineKnown(k) /\ Asked(k)
    BY <1>1, <2>1, Zenon
       DEF IInv, SessionInv, LocalTypeOK, BaselineKnown, Asked, Stages, Durable, HasOperation
  <2>3. Known(log, k) /\ Shows(k)
    BY <1>1, <2>1, ZenonT(30) DEF IInv, SessionInv, Known, Shows, Durable
  <2>4. Fits(k) /\ k.at # "Baseline"
    BY <2>1, <2>2, <2>3, Zenon DEF Fits
  <2> QED BY <1>1, <2>1, <2>4, LocalStep, Zenon
<1>3. CASE Reports(s, {}) /\ UNCHANGED store
  BY <1>1, <1>3, ReportsStep, Zenon DEF Durable, store
<1> QED BY <1>2, <1>3, Zenon DEF Publish

LEMMA ReadbackStep ==
    ASSUME IInv, NEW s \in Sessions, Readback(s)
    PROVE  IInv'
<1> DEFINE same == local[s].fresh => Shown = local[s].ops
           view == IF Verifies /\ same THEN {Shown} ELSE {}
<1>1. local[s].at = "Readback" /\ Reports(s, view) /\ UNCHANGED <<baseline, log, publications>>
  BY Zenon DEF Readback, CallAt, store
<1>2. local[s].fresh => \A v \in view : local[s].op \in v
  BY <1>1, Zenon DEF IInv, SessionInv, Shows
<1> HIDE DEF view
<1> QED BY <1>1, <1>2, ReportsStep, Zenon DEF Durable

LEMMA QueryStep ==
    ASSUME IInv, NEW s \in Sessions, Query(s)
    PROVE  IInv'
<1> DEFINE answer == [tag |-> IF Verifies THEN "View" ELSE "Failed"]
<1>1. TrueReply(log, answer)
  BY Zenon DEF TrueReply
<1>2. CallReplies(s, answer) /\ UNCHANGED <<baseline, log, publications>>
  BY Zenon DEF Query, store
<1> HIDE DEF answer
<1> QED BY <1>1, <1>2, ReplyStep

LEMMA CancelStep ==
    ASSUME IInv, NEW s \in Sessions, CancelCall(s)
    PROVE  IInv'
<1>1. UNCHANGED <<baseline, log, publications>>
  BY Zenon DEF CancelCall, store
<1>2. CASE local[s].receipt = {}
  <2> DEFINE answer == [tag |-> "Failed"]
  <2>1. TrueReply(log, answer) /\ CallReplies(s, answer)
    BY <1>2, Zenon DEF CancelCall, TrueReply
  <2> HIDE DEF answer
  <2> QED BY <1>1, <2>1, ReplyStep
<1>3. CASE local[s].receipt # {}
  <2>1. local[s].at \in Durable /\ Reports(s, {})
    BY <1>3, Zenon DEF IInv, SessionInv, LocalTypeOK, CancelCall
  <2> QED BY <1>1, <2>1, ReportsStep, Zenon
<1> QED BY <1>2, <1>3, Zenon

\* Every step of every session keeps the invariant.
LEMMA NextIInv == IInv /\ [SessionsNext]_sessionVars => IInv'
<1> SUFFICES ASSUME IInv, [SessionsNext]_sessionVars PROVE IInv'
  OBVIOUS
<1>1. CASE UNCHANGED sessionVars
  <2>1. UNCHANGED <<baseline, log, publications, local>>
    BY <1>1 DEF sessionVars, store
  <2>2. LogGrows(log, log') /\ log' \in Seq(Persisted')
    BY <2>1, LogStays DEF IInv
  <2>3. SessionTypeOK' /\ BaselineInv'
    BY <2>1, <2>2, Zenon DEF IInv, SessionTypeOK, BaselineInv, Registered
  <2>4. ASSUME NEW t \in Sessions PROVE SessionInv(t)'
    <3>1. SessionInv(t) /\ local'[t] = local[t]
      BY <2>1 DEF IInv
    <3>2. BaselineKnown(local[t])'
      BY <2>1, <3>1, Zenon DEF SessionInv, BaselineKnown, Registered
    <3> QED BY <2>2, <3>1, <3>2, OtherSession, Zenon
  <2> QED BY <2>3, <2>4, Zenon DEF IInv
<1>2. ASSUME NEW s \in Sessions, SessionNext(s) PROVE IInv'
  BY <1>2, CreateStep, BaselineStep, OpenStep, CloseStep, BeginStep, ReadStep, DeriveStep, PutStep,
     ValidateStep, AppendStep, RetryStep, RereadStep, PublishStep, ReadbackStep, QueryStep,
     CancelStep, Zenon DEF SessionNext
<1> QED BY <1>1, <1>2 DEF SessionsNext

LEMMA SpecIInv == SessionSpec => []IInv
BY InitIInv, NextIInv, PTL DEF SessionSpec

\* A receipt is the truth, whoever else appends, publishes, cancels or dies:
\* the operation its caller asked for is in the log at or before the revision
\* it names, and a view that comes with a fresh receipt shows the operation.
THEOREM ReceiptsTellTheTruth == SessionSpec => []ReceiptsAreTrue
<1>1. IInv => ReceiptsAreTrue
  <2> SUFFICES ASSUME IInv, NEW s \in Sessions, local[s].reply.tag = "Receipt"
      PROVE  LET r == local[s].reply
             IN  /\ r.revision <= Len(log)
                 /\ \E i \in 1 .. r.revision :
                        log[i].id = r.call.op /\ SameIntentAs(r.call, log[i])
                 /\ r.fresh => \A view \in r.view : r.op \in view
    BY Zenon DEF ReceiptsAreTrue, CallReplied
  <2>1. TrueReply(log, local[s].reply) /\ Len(log) \in Nat
    BY DEF IInv, SessionTypeOK, SessionInv
  <2> QED BY <2>1 DEF TrueReply
<1> QED BY <1>1, SpecIInv, PTL

-----------------------------------------------------------------------------
(* Where a step takes a call, and with which expected revision             *)

Waiting == {"Put", "Validate", "Append"}

OthersStay(s) == \A t \in Sessions : t # s => local'[t] = local[t]

Moved(s) ==
    /\ OthersStay(s)
    /\ local'[s].at = "Append" => Validate(s) /\ CallGoes(s, "Append")
    /\ local'[s].at = "Publish" => Materializes(baseline, local'[s].ops)
    /\ local'[s].at \in Waiting =>
        \/ local'[s].expected = Len(log)
        \/ local[s].at \in Waiting /\ local'[s].expected = local[s].expected
        \/ \E c \in Calls : c.via = "Request" /\ local'[s].expected = c.expected

\* A session that answers is idle.
LEMMA ReplyIsIdle ==
    ASSUME SessionTypeOK, NEW s \in Sessions, NEW answer, CallReplies(s, answer)
    PROVE  /\ local'[s].at = "Idle"
           /\ OthersStay(s)
<1> DEFINE k == [Closed EXCEPT !.mode = local[s].mode, !.reply = answer]
<1>1. local' = [local EXCEPT ![s] = k]
  BY DEF CallReplies
<1>2. k.at = "Idle"
  BY ClosedFields DEF HasShape, Fields
<1> HIDE DEF k
<1> QED BY <1>1, <1>2, Frame, Zenon DEF OthersStay

LEMMA ReportIsIdle ==
    ASSUME SessionTypeOK, NEW s \in Sessions, NEW view, Reports(s, view)
    PROVE  /\ local'[s].at = "Idle"
           /\ OthersStay(s)
<1> QED BY ReplyIsIdle, Zenon DEF Reports

\* A session that goes on keeps its operation and expected revision.
LEMMA GoesThere ==
    ASSUME IInv, NEW s \in Sessions, NEW x, CallGoes(s, x)
    PROVE  /\ local'[s].at = x /\ local'[s].op = local[s].op
           /\ local'[s].expected = local[s].expected
           /\ OthersStay(s)
<1>1. PICK k :
        /\ local' = [local EXCEPT ![s] = k] /\ k.at = x
        /\ k.op = local[s].op /\ k.expected = local[s].expected
  BY Goes
<1> QED BY <1>1, Frame, Zenon DEF IInv, OthersStay

\* A new record at a stage that waits for nothing.
LEMMA PutAt ==
    ASSUME SessionTypeOK, NEW s \in Sessions, NEW k, local' = [local EXCEPT ![s] = k],
           k.at \notin Waiting, k.at # "Publish"
    PROVE  Moved(s)
BY Frame, Zenon DEF Moved, OthersStay, Waiting

LEMMA FailsMoves ==
    ASSUME IInv, NEW s \in Sessions, Fails(s)
    PROVE  Moved(s)
BY ReplyIsIdle, Zenon DEF Fails, IInv, Moved, Waiting

LEMMA EarlyMoves ==
    ASSUME IInv, NEW s \in Sessions,
           Create(s) \/ RegisterBaseline(s) \/ Open(s) \/ Close(s) \/ ReadOperations(s)
    PROVE  Moved(s)
<1>t. SessionTypeOK /\ HasShape(local[s])
  BY Zenon DEF IInv, SessionInv, LocalTypeOK
<1> USE DEF Waiting
<1>1. CASE Create(s)
  <2> DEFINE k == [Closed EXCEPT !.mode = "ReadWrite", !.at = "Baseline"]
  <2>1. k.at = "Baseline"
    BY ClosedFields DEF HasShape, Fields
  <2>2. local' = [local EXCEPT ![s] = k]
    BY <1>1 DEF Create
  <2> HIDE DEF k
  <2> QED BY <1>t, <2>1, <2>2, PutAt, Zenon
<1>2. CASE RegisterBaseline(s)
  <2>1. local'[s].at = "Idle" /\ OthersStay(s)
    BY <1>2, GoesThere, Zenon DEF RegisterBaseline
  <2> QED BY <2>1 DEF Moved
<1>3. CASE Open(s)
  <2>1. PICK m : local' = [local EXCEPT ![s] = [Closed EXCEPT !.mode = m]]
    BY <1>3, Zenon DEF Open
  <2>2. [Closed EXCEPT !.mode = m].at = "Idle"
    BY ClosedFields DEF HasShape, Fields
  <2> QED BY <1>t, <2>1, <2>2, PutAt, Zenon
<1>4. CASE Close(s)
  BY <1>t, <1>4, ClosedFields, PutAt, Zenon DEF Close
<1>5. CASE ReadOperations(s)
  <2>1. CASE baseline # "None"
    <3> DEFINE k == [local[s] EXCEPT !.ops = Persisted, !.at = "Derive"]
    <3>1. local' = [local EXCEPT ![s] = k]
      BY <1>5, <2>1, Zenon DEF ReadOperations
    <3>2. k.at = "Derive"
      BY <1>t DEF HasShape, Fields
    <3> HIDE DEF k
    <3> QED BY <1>t, <3>1, <3>2, PutAt, Zenon
  <2> QED BY <1>5, <2>1, FailsMoves DEF ReadOperations
<1> QED BY <1>1, <1>2, <1>3, <1>4, <1>5, SMTT(30)

LEMMA BeginMoves ==
    ASSUME IInv, NEW s \in Sessions, NEW c \in Calls, Begin(s, c)
    PROVE  Moved(s)
<1>t. SessionTypeOK /\ HasShape(local[s])
  BY Zenon DEF IInv, SessionInv, LocalTypeOK
<1>1. CASE local[s].mode = "ReadWrite"
  <2> DEFINE op == IF c.via = "Request"
                   THEN Operation(c, c.time, c.depth, c.parents, c.prior) ELSE NoOp
             expects == IF c.via = "Request" THEN c.expected ELSE 0
             k == [local[s] EXCEPT !.at = FirstStage(c), !.call = c, !.reply = Silent,
                                   !.expected = expects, !.op = op]
  <2>1. local' = [local EXCEPT ![s] = k]
    BY <1>1 DEF Begin
  <2>e. c.via = "Request" => expects = c.expected
    OBVIOUS
  <2> HIDE DEF op, expects
  <2>2. k.at = FirstStage(c) /\ k.expected = expects
    BY <1>t DEF HasShape, Fields
  <2>3. FirstStage(c) \in {"Read", "Put", "Validate"}
        /\ (FirstStage(c) # "Read" => c.via = "Request")
    BY CallsAreMutations DEF FirstStage
  <2> HIDE DEF k
  <2>4. local'[s] = k /\ OthersStay(s)
    BY <1>t, <2>1, Frame, Zenon DEF OthersStay
  <2> QED BY <2>e, <2>2, <2>3, <2>4, Zenon DEF Moved, Waiting
<1>2. CASE local[s].mode # "ReadWrite"
  BY <1>t, <1>2, ReplyIsIdle DEF Begin, Moved, Waiting
<1> QED BY <1>1, <1>2, Zenon

LEMMA DeriveMoves ==
    ASSUME IInv, NEW s \in Sessions, Derive(s)
    PROVE  Moved(s)
<1>t. SessionTypeOK /\ HasShape(local[s])
  BY Zenon DEF IInv, SessionInv, LocalTypeOK
<1>1. ASSUME NEW op, local' = [local EXCEPT ![s].op = op, ![s].at = "Retry"]
      PROVE  Moved(s)
  <2> DEFINE k == [local[s] EXCEPT !.op = op, !.at = "Retry"]
  <2>1. local' = [local EXCEPT ![s] = k]
    BY <1>1, Zenon
  <2>2. k.at = "Retry"
    BY <1>t DEF HasShape, Fields
  <2> HIDE DEF k
  <2> QED BY <1>t, <2>1, <2>2, PutAt, Zenon DEF Waiting
<1>2. ASSUME NEW op, NEW x \in {"Put", "Validate"},
             local' = [local EXCEPT ![s].op = op, ![s].expected = Len(log), ![s].at = x]
      PROVE  Moved(s)
  <2> DEFINE k == [local[s] EXCEPT !.op = op, !.expected = Len(log), !.at = x]
  <2>1. local' = [local EXCEPT ![s] = k]
    BY <1>2, Zenon
  <2>2. k.at = x /\ k.expected = Len(log)
    BY <1>t DEF HasShape, Fields
  <2> HIDE DEF k
  <2>3. local'[s] = k /\ OthersStay(s)
    BY <1>t, <2>1, Frame, Zenon DEF OthersStay
  <2> QED BY <2>2, <2>3, Zenon DEF Moved
<1> QED BY <1>1, <1>2, FailsMoves, Zenon DEF Derive

LEMMA PutMoves ==
    ASSUME IInv, NEW s \in Sessions, Put(s) \/ Validate(s)
    PROVE  Moved(s)
<1>1. CASE Put(s) /\ CallGoes(s, "Validate")
  <2>1. /\ local'[s].at = "Validate" /\ local'[s].expected = local[s].expected
        /\ OthersStay(s) /\ local[s].at = "Put"
    BY <1>1, GoesThere, Zenon DEF Put, CallAt
  <2> QED BY <2>1 DEF Moved, Waiting
<1>2. CASE Validate(s) /\ CallGoes(s, "Append")
  <2>1. /\ local'[s].at = "Append" /\ local'[s].expected = local[s].expected
        /\ OthersStay(s) /\ local[s].at = "Validate"
    BY <1>2, GoesThere, Zenon DEF Validate, CallAt
  <2> QED BY <1>2, <2>1 DEF Moved, Waiting
<1> QED BY <1>1, <1>2, FailsMoves, Zenon DEF Put, Validate

LEMMA LateMoves ==
    ASSUME IInv, NEW s \in Sessions,
           \/ AppendOperation(s) \/ RetryOperation(s) \/ Reread(s) \/ Publish(s)
           \/ Readback(s) \/ Query(s) \/ CancelCall(s)
    PROVE  Moved(s)
<1>t. SessionTypeOK /\ HasShape(local[s])
  BY Zenon DEF IInv, SessionInv, LocalTypeOK
<1> USE DEF Waiting
<1>i. (\E answer : CallReplies(s, answer)) \/ (\E view : Reports(s, view)) => Moved(s)
  <2>1. local'[s].at = "Idle" /\ OthersStay(s) => Moved(s)
    BY Zenon DEF Moved
  <2> QED BY <1>t, <2>1, ReplyIsIdle, ReportIsIdle, Zenon
<1>1. CASE AppendOperation(s)
  <2>1. ASSUME NEW v,
               local' = [local EXCEPT ![s].receipt = v, ![s].fresh = TRUE, ![s].at = "Reread"]
        PROVE  Moved(s)
    <3> DEFINE k == [local[s] EXCEPT !.receipt = v, !.fresh = TRUE, !.at = "Reread"]
    <3>1. local' = [local EXCEPT ![s] = k]
      BY <2>1, Zenon
    <3>2. k.at = "Reread"
      BY <1>t DEF HasShape, Fields
    <3> HIDE DEF k
    <3> QED BY <1>t, <3>1, <3>2, PutAt, Zenon
  <2> QED BY <1>1, <2>1, FailsMoves, Zenon DEF AppendOperation
<1>2. CASE RetryOperation(s)
  <2>1. CASE local' = [local EXCEPT ![s].receipt = {Len(log)}, ![s].at = "Readback"]
    <3> DEFINE k == [local[s] EXCEPT !.receipt = {Len(log)}, !.at = "Readback"]
    <3>1. local' = [local EXCEPT ![s] = k]
      BY <2>1, Zenon
    <3>2. k.at = "Readback"
      BY <1>t DEF HasShape, Fields
    <3> HIDE DEF k
    <3> QED BY <1>t, <3>1, <3>2, PutAt, Zenon
  <2> QED BY <1>2, <1>i, <2>1, Zenon DEF RetryOperation
<1>3. CASE Reread(s)
  <2>1. CASE /\ local' = [local EXCEPT ![s].ops = Persisted, ![s].at = "Publish"]
             /\ Materializes(baseline, Persisted)
    <3> DEFINE k == [local[s] EXCEPT !.ops = Persisted, !.at = "Publish"]
    <3>1. local' = [local EXCEPT ![s] = k]
      BY <2>1, Zenon
    <3>2. k.at = "Publish" /\ k.ops = Persisted
      BY <1>t DEF HasShape, Fields
    <3> HIDE DEF k
    <3>3. local'[s] = k /\ OthersStay(s)
      BY <1>t, <3>1, Frame, Zenon DEF OthersStay
    <3> QED BY <2>1, <3>2, <3>3, Zenon DEF Moved
  <2> QED BY <1>3, <1>i, <2>1, Zenon DEF Reread
<1>4. CASE Publish(s)
  <2>1. CASE CallGoes(s, "Readback")
    <3>1. local'[s].at = "Readback" /\ OthersStay(s)
      BY <2>1, GoesThere, Zenon
    <3> QED BY <3>1 DEF Moved, Waiting
  <2> QED BY <1>4, <1>i, <2>1, Zenon DEF Publish
<1>5. CASE Readback(s)
  BY <1>5, <1>i, Zenon DEF Readback
<1>6. CASE Query(s)
  BY <1>6, <1>i, Zenon DEF Query
<1>7. CASE CancelCall(s)
  BY <1>7, <1>i, Zenon DEF CancelCall
<1> QED BY <1>1, <1>2, <1>3, <1>4, <1>5, <1>6, <1>7, Zenon

\* Every step of a session moves it in one of the ways of Moved.
LEMMA Moves ==
    ASSUME IInv, NEW s \in Sessions, SessionNext(s)
    PROVE  Moved(s)
BY EarlyMoves, BeginMoves, DeriveMoves, PutMoves, LateMoves, Zenon DEF SessionNext

\* No step of a session takes anything out of the log.
LEMMA NextGrows ==
    ASSUME IInv, NEW s \in Sessions, SessionNext(s)
    PROVE  LogGrows(log, log')
<1>1. CASE log' = log
  BY <1>1, LogStays DEF IInv
<1>2. CASE log' = Append(log, local[s].op)
  BY <1>2, LogAppended, Zenon DEF IInv
<1>3. log' = log \/ log' = Append(log, local[s].op)
  BY RetryStep, Zenon
     DEF SessionNext, Create, RegisterBaseline, Open, Close, Begin, ReadOperations, Derive,
         Put, Validate, AppendOperation, Reread, Publish, Readback, Query, CancelCall,
         Fails, store
<1> QED BY <1>1, <1>2, <1>3

-----------------------------------------------------------------------------
(* Publications verify                                                     *)

publishedVars == <<baseline, publications, current>>

\* The rows of an unchanged publication history stand as the log grows.
LEMMA RowsStand ==
    ASSUME PublicationInv, LogGrows(log, log'), UNCHANGED publishedVars
    PROVE  PublicationsVerify'
<1>1. UNCHANGED <<baseline, publications, current>>
  BY Zenon DEF publishedVars
<1>2. ASSUME NEW row \in publications PROVE RowVerifies(row)'
  <2>1. RowVerifies(row) /\ row.revision \in Nat
    BY Zenon DEF PublicationInv, PublicationsVerify, Verifies
  <2>2. {log'[i] : i \in 1 .. row.revision} = {log[i] : i \in 1 .. row.revision}
    <3>1. \A i \in 1 .. row.revision : log'[i] = log[i]
      BY <2>1 DEF RowVerifies, LogGrows
    <3> QED BY <3>1, Zenon
  <2>3. row.revision <= Len(log')
    BY <2>1 DEF RowVerifies, LogGrows
  <2> QED BY <1>1, <2>1, <2>2, <2>3, Zenon DEF RowVerifies
<1> QED BY <1>1, <1>2, Zenon DEF PublicationInv, PublicationsVerify, Verifies

\* A set that is still to be published stays as good as it was.
LEMMA RereadsStand ==
    ASSUME RereadsGood, NEW s \in Sessions, Moved(s), baseline' = baseline
    PROVE  RereadsGood'
BY Zenon DEF RereadsGood, Moved, OthersStay

\* A baseline is registered before there is anything to publish.
LEMMA BaselinePublication ==
    ASSUME IInv, PublicationInv, NEW s \in Sessions, Create(s) \/ RegisterBaseline(s)
    PROVE  PublicationInv'
<1>1. ~ Registered
  BY Zenon DEF IInv, SessionInv, BaselineKnown, Create, RegisterBaseline, CallAt, Registered
<1>2. publications = {} /\ current = {}
  BY <1>1, Zenon DEF IInv, BaselineInv, PublicationInv, PublicationsVerify, Verifies
<1>3. publications' = {} /\ current' = {}
  BY <1>2 DEF Create, RegisterBaseline
<1>4. PublicationsVerify'
  BY <1>3, Zenon DEF PublicationsVerify, Verifies
<1>5. \A t \in Sessions : local[t].at # "Publish"
  BY <1>1, Zenon DEF IInv, SessionInv, BaselineKnown, Durable
<1>6. local'[s].at # "Publish" /\ OthersStay(s)
  <2>1. CASE Create(s)
    <3> DEFINE k == [Closed EXCEPT !.mode = "ReadWrite", !.at = "Baseline"]
    <3>1. k.at = "Baseline"
      BY ClosedFields DEF HasShape, Fields
    <3>2. local' = [local EXCEPT ![s] = k]
      BY <2>1 DEF Create
    <3> HIDE DEF k
    <3> QED BY <3>1, <3>2, Frame, Zenon DEF IInv, OthersStay
  <2>2. CASE RegisterBaseline(s)
    <3>1. local'[s].at = "Idle" /\ OthersStay(s)
      BY <2>2, GoesThere, Zenon DEF RegisterBaseline
    <3> QED BY <3>1
  <2> QED BY <2>1, <2>2
<1>7. RereadsGood'
  BY <1>5, <1>6, Zenon DEF RereadsGood, OthersStay
<1> QED BY <1>3, <1>4, <1>7, Zenon DEF PublicationInv

\* A new publication repeats the whole log, and so is the latest; it was
\* materialized before, though in another transaction.
LEMMA PublishPublication ==
    ASSUME IInv, PublicationInv, NEW s \in Sessions, Publish(s), Moved(s)
    PROVE  PublicationInv'
<1>r. PICK row : row = [ops |-> local[s].ops, revision |-> Len(log)]
  BY Zenon
<1>b. UNCHANGED <<baseline, log>>
  BY Zenon DEF Publish, store
<1>1. RereadsGood'
  BY <1>b, RereadsStand, Zenon DEF PublicationInv
<1>2. CASE UNCHANGED publishedVars
  <2>1. LogGrows(log, log')
    BY <1>b, LogStays, Zenon DEF IInv
  <2>2. publications' = publications
    BY <1>2, Zenon DEF publishedVars
  <2> QED BY <1>1, <1>2, <2>1, <2>2, RowsStand, Zenon DEF PublicationInv
<1>3. CASE /\ local[s].ops = Persisted /\ publications' = publications \cup {row}
           /\ current' = {row}
  <2>1. row.ops = Persisted /\ row.revision = Len(log)
    BY <1>r, <1>3, Zenon
  <2>2. Len(log) \in Nat /\ Persisted = {log[i] : i \in 1 .. Len(log)} /\ Persisted' = Persisted
    BY <1>b DEF IInv, SessionTypeOK, Persisted
  <2>3. Materializes(baseline, Persisted)
    BY <1>3, Zenon DEF PublicationInv, RereadsGood, Publish, CallAt
  <2>4. RowVerifies(row)'
    BY <1>b, <2>1, <2>2, <2>3, SMTT(30) DEF RowVerifies
  <2>5. ASSUME NEW other \in publications
        PROVE  RowVerifies(other)' /\ other.revision <= Len(log) /\ other.revision \in Nat
    BY <1>b, Zenon DEF PublicationInv, PublicationsVerify, Verifies, RowVerifies
  <2>6. PublicationsVerify'
    BY <1>3, <2>1, <2>2, <2>4, <2>5, SMTT(30) DEF PublicationsVerify, Verifies
  <2> QED BY <1>1, <1>3, <2>1, <2>2, <2>5, <2>6, Zenon DEF PublicationInv
<1> QED BY <1>r, <1>2, <1>3, Zenon DEF Publish, Publishable, publishedVars, store

\* Every step keeps the publications verified.
LEMMA NextPublication == IInv /\ PublicationInv /\ [SessionsNext]_sessionVars => PublicationInv'
<1> SUFFICES ASSUME IInv, PublicationInv, [SessionsNext]_sessionVars PROVE PublicationInv'
  OBVIOUS
<1>1. CASE UNCHANGED sessionVars
  <2>1. UNCHANGED <<baseline, log, publications, current, local>>
    BY <1>1, Zenon DEF sessionVars, store
  <2> QED BY <2>1, Zenon DEF PublicationInv, PublicationsVerify, Verifies, RowVerifies, RereadsGood
<1>2. ASSUME NEW s \in Sessions, SessionNext(s) PROVE PublicationInv'
  <2>1. Moved(s)
    BY <1>2, Moves, Zenon
  <2>2. \/ Create(s) \/ RegisterBaseline(s) \/ Publish(s)
        \/ UNCHANGED publishedVars
    BY <1>2, RetryStep, Zenon
       DEF SessionNext, Open, Close, Begin, ReadOperations, Derive, Put, Validate,
           AppendOperation, Reread, Readback, Query, CancelCall, Fails, store, publishedVars
  <2>3. CASE UNCHANGED publishedVars
    <3>1. LogGrows(log, log')
      BY <1>2, NextGrows, Zenon
    <3>2. UNCHANGED <<baseline, publications>>
      BY <2>3, Zenon DEF publishedVars
    <3>3. PublicationsVerify'
      BY <2>3, <3>1, RowsStand, Zenon
    <3>4. RereadsGood'
      BY <2>1, <3>2, RereadsStand, Zenon DEF PublicationInv
    <3> QED BY <3>2, <3>3, <3>4, Zenon DEF PublicationInv
  <2> QED BY <1>2, <2>1, <2>2, <2>3, BaselinePublication, PublishPublication, Zenon
<1> QED BY <1>1, <1>2 DEF SessionsNext

\* The publication history of a project always verifies, whatever sessions
\* import, calibrate, publish, retry, cancel and die, and whatever revisions
\* their requests name: a row is the replay of the log prefix it names, and
\* the current row is the latest.
THEOREM PublicationsAlwaysVerify == SessionSpec => []PublicationsVerify
<1>1. SessionInit => PublicationInv
  <2> SUFFICES ASSUME SessionInit PROVE PublicationInv
    OBVIOUS
  <2>1. publications = {} /\ current = {}
    BY DEF SessionInit
  <2>2. PublicationsVerify
    BY <2>1, Zenon DEF PublicationsVerify, Verifies
  <2>3. RereadsGood
    BY ClosedFields, Zenon DEF SessionInit, RereadsGood
  <2> QED BY <2>1, <2>2, <2>3 DEF PublicationInv
<1>2. PublicationInv => PublicationsVerify
  BY DEF PublicationInv
<1> QED BY <1>1, <1>2, NextPublication, SpecIInv, PTL DEF SessionSpec

-----------------------------------------------------------------------------
(* The history materializes while no call is ahead                         *)

history == <<baseline, log>>

\* Who does not touch the history, and does not come to its append, leaves it
\* as good as it was.
LEMMA QuietStep ==
    ASSUME HistoryInv, NEW s \in Sessions, UNCHANGED history, OthersStay(s),
           local'[s].at = "Append" => Materializes(baseline, Persisted \cup {local'[s].op})
    PROVE  HistoryInv'
<1>1. UNCHANGED <<baseline, log>> /\ Persisted' = Persisted
  BY Zenon DEF history, Persisted
<1>2. HistoryMaterializes'
  BY <1>1, Zenon DEF HistoryInv, HistoryMaterializes
<1>3. CandidatesGood'
  BY <1>1, Zenon DEF HistoryInv, CandidatesGood, OthersStay
<1> QED BY <1>2, <1>3, Zenon DEF HistoryInv

\* What was validated materializes with what is persisted.
LEMMA StillHistory ==
    ASSUME IInv, HistoryInv, NEW s \in Sessions, SessionNext(s), UNCHANGED history
    PROVE  HistoryInv'
<1>1. Moved(s)
  BY Moves, Zenon
<1>2. ASSUME local'[s].at = "Append"
      PROVE  Materializes(baseline, Persisted \cup {local'[s].op})
  <2>1. Validate(s) /\ CallGoes(s, "Append")
    BY <1>1, <1>2, Zenon DEF Moved
  <2>2. local'[s].op = local[s].op
    BY <2>1, GoesThere, Zenon
  <2>3. ~ Fails(s)
    BY <1>2, ReplyIsIdle, Zenon DEF Fails, IInv
  <2> QED BY <2>1, <2>2, <2>3, Zenon DEF Validate
<1> QED BY <1>1, <1>2, QuietStep, Zenon DEF Moved

\* A baseline is registered before there is anything to replay onto it.
LEMMA BaselineHistory ==
    ASSUME IInv, HistoryInv, NEW s \in Sessions, Create(s) \/ RegisterBaseline(s)
    PROVE  HistoryInv'
<1>1. ~ Registered
  BY Zenon DEF IInv, SessionInv, BaselineKnown, Create, RegisterBaseline, CallAt, Registered
<1>2. log = <<>>
  BY <1>1, Zenon DEF IInv, BaselineInv
<1>3. log' = <<>>
  BY <1>2 DEF Create, RegisterBaseline
<1>4. Persisted' = {}
  BY <1>3 DEF Persisted
<1>5. HistoryMaterializes'
  BY <1>4, EmptyMaterializes, Zenon DEF HistoryMaterializes
<1>6. \A t \in Sessions : local[t].at # "Append"
  BY <1>1, Zenon DEF IInv, SessionInv, BaselineKnown
<1>7. local'[s].at # "Append" /\ OthersStay(s)
  <2>1. ~ Validate(s)
    BY Zenon DEF IInv, SessionInv, BaselineKnown, Validate, CallAt, Create, RegisterBaseline
  <2> QED BY <2>1, EarlyMoves, Zenon DEF Moved
<1>8. CandidatesGood'
  BY <1>6, <1>7, Zenon DEF CandidatesGood, OthersStay
<1> QED BY <1>5, <1>8, Zenon DEF HistoryInv

\* The appended operation was validated against the log it is appended to,
\* because the expected revision was not ahead then and the log only grows;
\* every other candidate has become stale.
LEMMA AppendHistory ==
    ASSUME IInv, HistoryInv, NoneAhead, NEW s \in Sessions, AppendOperation(s)
    PROVE  HistoryInv'
<1> DEFINE op == local[s].op
<1>1. /\ SessionTypeOK /\ local[s].at = "Append"
      /\ \A t \in Sessions : local[t].expected \in Nat
  BY Zenon DEF IInv, SessionInv, LocalTypeOK, AppendOperation, CallAt
<1>2. local'[s].at # "Append" /\ OthersStay(s)
  BY <1>1, LateMoves, Zenon DEF Moved, Validate, CallAt
<1>3. baseline' = baseline
  BY Zenon DEF AppendOperation, Fails, store
<1>4. CASE log' = log
  BY <1>2, <1>3, <1>4, QuietStep, Zenon DEF history
<1>5. CASE log' # log
  <2>1. log' = Append(log, op) /\ local[s].expected = Len(log)
    BY <1>5, Zenon DEF AppendOperation, AppendOutcome, Fails, store
  <2>2. LogGrows(log, log') /\ Persisted' = Persisted \cup {op} /\ Len(log') = Len(log) + 1
    BY <1>1, <2>1, LogAppended, Zenon
  <2>3. HistoryMaterializes'
    BY <1>1, <1>3, <2>1, <2>2, Zenon DEF HistoryInv, CandidatesGood, HistoryMaterializes
  <2>4. CandidatesGood'
    <3> SUFFICES ASSUME NEW t \in Sessions, local'[t].at = "Append",
                        local'[t].expected = Len(log')
        PROVE  FALSE
      BY Zenon DEF CandidatesGood
    <3>1. local'[t] = local[t]
      BY <1>2, Zenon DEF OthersStay
    <3>2. local[t].expected <= Len(log)
      BY <3>1, Zenon DEF NoneAhead
    <3> QED BY <1>1, <2>2, <3>1, <3>2 DEF LogGrows
  <2> QED BY <2>3, <2>4, Zenon DEF HistoryInv
<1> QED BY <1>4, <1>5

\* An empty project's history materializes.
LEMMA InitHistory == SessionInit => HistoryInv
<1> SUFFICES ASSUME SessionInit PROVE HistoryInv
  OBVIOUS
<1>1. Persisted = {}
  BY DEF SessionInit, Persisted
<1>2. HistoryMaterializes
  BY <1>1, EmptyMaterializes DEF HistoryMaterializes
<1>3. CandidatesGood
  BY ClosedFields, Zenon DEF SessionInit, CandidatesGood
<1> QED BY <1>2, <1>3 DEF HistoryInv

\* Every step keeps the history materializable, as long as no validated
\* request is ahead of the log.
LEMMA NextHistory ==
    IInv /\ NoneAhead /\ HistoryInv /\ [SessionsNext]_sessionVars => HistoryInv'
<1> SUFFICES ASSUME IInv, NoneAhead, HistoryInv, [SessionsNext]_sessionVars PROVE HistoryInv'
  OBVIOUS
<1>1. CASE UNCHANGED sessionVars
  <2>1. UNCHANGED <<baseline, log, local>> /\ Persisted' = Persisted
    BY <1>1, Zenon DEF sessionVars, store, Persisted
  <2> QED BY <2>1, Zenon DEF HistoryInv, HistoryMaterializes, CandidatesGood
<1>2. ASSUME NEW s \in Sessions, SessionNext(s) PROVE HistoryInv'
  <2>1. \/ Create(s) \/ RegisterBaseline(s) \/ AppendOperation(s)
        \/ UNCHANGED history
    BY <1>2, RetryStep, Zenon
       DEF SessionNext, Open, Close, Begin, ReadOperations, Derive, Put, Validate, Reread,
           Publish, Readback, Query, CancelCall, Fails, store, history
  <2> QED BY <1>2, <2>1, BaselineHistory, AppendHistory, StillHistory, Zenon
<1> QED BY <1>1, <1>2 DEF SessionsNext

-----------------------------------------------------------------------------
(* Intents are never ahead                                                 *)

IntentsOnly == \A c \in Calls : c.via = "Intent"

Timely == \A s \in Sessions : local[s].at \in Waiting => local[s].expected <= Len(log)

LEMMA InitTimely == SessionInit => Timely
BY ClosedFields, Zenon DEF SessionInit, Timely, Waiting

\* With intents only, no call gets ahead of the log.
LEMMA NextTimely ==
    ASSUME IntentsOnly, IInv, Timely, [SessionsNext]_sessionVars
    PROVE  Timely'
<1>n. Len(log) \in Nat /\ \A t \in Sessions : local[t].expected \in Nat
  BY DEF IInv, SessionTypeOK, SessionInv, LocalTypeOK
<1>1. CASE UNCHANGED sessionVars
  BY <1>1, Zenon DEF sessionVars, store, Timely
<1>2. ASSUME NEW s \in Sessions, SessionNext(s) PROVE Timely'
  <2>1. LogGrows(log, log')
    BY <1>2, NextGrows, Zenon
  <2>2. Moved(s)
    BY <1>2, Moves
  <2>3. local'[s].at \in Waiting => local'[s].expected <= Len(log)
    BY <1>n, <2>2 DEF Moved, Timely, IntentsOnly
  <2>4. \A t \in Sessions : local'[t].at \in Waiting => local'[t].expected <= Len(log)
    BY <2>2, <2>3, Zenon DEF Moved, OthersStay, Timely
  <2>5. \A t \in Sessions : local'[t].expected \in Nat
    BY <1>2, NextIInv, Zenon DEF SessionsNext, IInv, SessionInv, LocalTypeOK
  <2> QED BY <2>1, <2>4, <2>5 DEF Timely, LogGrows
<1> QED BY <1>1, <1>2 DEF SessionsNext

\* Imports and calibrations that leave their causal context to the session
\* (import_map_intent, calibrate_map_intent) never poison the history,
\* whoever else appends, retries, cancels or dies: what is persisted can
\* always be materialized.
THEOREM IntentHistoriesMaterialize ==
    ASSUME IntentsOnly
    PROVE  SessionSpec => []HistoryMaterializes
<1>1. Timely => NoneAhead
  BY Zenon DEF Timely, NoneAhead, Waiting
<1>2. SessionSpec => []Timely
  <2>1. IInv /\ Timely /\ [SessionsNext]_sessionVars => Timely'
    BY NextTimely
  <2> QED BY InitTimely, <2>1, SpecIInv, PTL DEF SessionSpec
<1>3. HistoryInv => HistoryMaterializes
  BY DEF HistoryInv
<1> QED BY <1>1, <1>2, <1>3, InitHistory, NextHistory, SpecIInv, PTL DEF SessionSpec
=============================================================================

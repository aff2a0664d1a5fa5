------------------------- MODULE GraphOutboxProofs -------------------------
(***************************************************************************)
(* The graph outbox, for any records, payloads, callers, projectors and    *)
(* bounds.  The proofs about an undisturbed pass over the outbox are by    *)
(* induction over the stamps; UpTo states that induction with a set.       *)
(***************************************************************************)
EXTENDS GraphOutbox, Integers, FiniteSetTheorems, FunctionTheorems,
        WellFoundedInduction, TLAPS

-----------------------------------------------------------------------------
(* What the proofs assume of an interleaving.                              *)

Rebuilding(p) == proc[p].cmd = "rebuild_clear" /\ proc[p].pc # "idle"

\* No other projector works while the graph is rebuilt from nothing.
RebuildAlone ==
  \A p, q \in Projectors : Rebuilding(p) /\ q # p => proc[q].pc = "idle"

\* An event is inserted before a later one is: no request is overtaken
\* between the stamp of its event and the insert.
AppendsInOrder ==
  \A c \in Callers :
    todo[c] # <<>> /\ Head(todo[c]).do = "append"
      => \A t \in DOMAIN outbox : t < stamp[c]

-----------------------------------------------------------------------------
(* Invariants.                                                             *)

Statuses == {"pending", "projected", "failed"}
Stages == {"idle", "clear", "choose", "reset", "list", "apply", "mark", "fail"}
AtEvent == {"apply", "mark", "fail"}
ProcType == [cmd : Commands \cup {"loop", None}, pc : Stages,
             batch : Seq(1..MaxEvents), failed : BOOLEAN]

\* An outbox row has its three columns.
EntryType(r) == [event : {r.event}, key : {r.key}, status : Statuses]

Stamped ==
  /\ stamps \in 0..MaxEvents /\ stamp \in [Callers -> 0..stamps]
  /\ DOMAIN todo = Callers
  /\ \A c \in Callers :
       todo[c] # <<>> /\ Head(todo[c]).do = "append" => stamp[c] \in 1..stamps

Tables ==
  /\ DOMAIN outbox \subseteq 1..stamps
  /\ \A t \in DOMAIN outbox : outbox[t] \in EntryType(outbox[t])

\* A batch holds rows of the outbox, and at an event there is one.
Batches ==
  /\ proc \in [Projectors -> ProcType]
  /\ \A p \in Projectors :
       /\ Range(proc[p].batch) \subseteq DOMAIN outbox
       /\ proc[p].pc \in AtEvent => proc[p].batch # <<>>

OutboxInv == Stamped /\ Tables /\ Batches

\* The events before h are projected and no other one is decided.
DoneBefore(box, h) ==
  \A t \in DOMAIN box :
    box[t].status = IF t < h THEN "projected" ELSE "pending"

\* No event behind a pending one is decided; the pending ones begin at h.
Ordered(box) ==
  \A s, t \in DOMAIN box :
    s < t /\ box[s].status = "pending" => box[t].status = "pending"
PendingFrom(box, h) == \A t \in DOMAIN box : box[t].status = "pending" <=> h <= t

\* The batch is in order and leaves out no event between two of its own.
InLine(box, b) ==
  /\ \A i, j \in DOMAIN b : i < j => b[i] < b[j]
  /\ \A t \in DOMAIN box : b[1] <= t /\ t <= b[Len(b)] => t \in Range(b)

\* Where a rebuild of the graph from nothing stands.
Rebuilt(q) ==
  /\ q.pc # "choose"
  /\ q.pc \in {"clear", "reset"} => q.batch = <<>> /\ ~q.failed
  /\ q.pc = "reset" => graph = EmptyGraph
  /\ q.pc = "list" =>
       /\ ~q.failed
       /\ \E k \in {0} \cup DOMAIN outbox :
            DoneBefore(outbox, k + 1) /\ graph = Replays(outbox)[k]
  /\ q.pc \in {"apply", "mark"} /\ ~q.failed =>
       /\ InLine(outbox, q.batch) /\ DoneBefore(outbox, Head(q.batch))
       /\ graph = Replays(outbox)[IF q.pc = "mark" THEN Head(q.batch)
                                  ELSE Head(q.batch) - 1]

RebuildInv == \A p \in Projectors : Rebuilding(p) => Rebuilt(proc[p])

-----------------------------------------------------------------------------
(* Operators.                                                              *)

\* Induction up to N, over the elements of a set.
LEMMA UpTo ==
  ASSUME NEW N \in Nat, NEW T, 0 \in T,
         \A k \in 1..N : k - 1 \in T => k \in T
  PROVE  \A k \in 0..N : k \in T
<1> DEFINE U == (0..N) \ T
           below == {0..n : n \in U}
<1> SUFFICES ASSUME U # {} PROVE FALSE
  OBVIOUS
<1>1. below \subseteq FiniteSubsetsOf(Nat) /\ below # {}
  <2>1. ASSUME NEW n \in U PROVE 0..n \in FiniteSubsetsOf(Nat)
    BY FS_Interval DEF FiniteSubsetsOf
  <2> QED BY <2>1
<1>2. PICK x \in below : \A y \in below : <<y, x>> \notin StrictSubsetOrdering(Nat)
  BY <1>1, WFMin, FS_StrictSubsetOrderingWellFounded
<1>3. PICK m \in U : x = 0..m
  OBVIOUS
<1>4. m \in 1..N /\ m - 1 \in U
  BY <1>3
<1>5. 0..(m - 1) \subseteq 0..m /\ m \in 0..m /\ m \notin 0..(m - 1)
  BY <1>4
<1>6. <<0..(m - 1), 0..m>> \in StrictSubsetOrdering(Nat)
  BY <1>4, <1>5 DEF StrictSubsetOrdering
<1> QED BY <1>2, <1>3, <1>4, <1>6

\* The recursion of Replays is well defined.
LEMMA ReplaysDef ==
  ASSUME NEW box
  PROVE  /\ Replays(box)[0] = EmptyGraph
         /\ \A n \in 1..MaxEvents :
              Replays(box)[n] = IF n \in DOMAIN box
                                THEN Project(Replays(box)[n - 1], box[n].event)
                                ELSE Replays(box)[n - 1]
<1> MaxEvents \in Nat
  BY OutboxAssumption
<1> DEFINE Value(g, n) == IF n = 0 THEN EmptyGraph
                          ELSE IF n \in DOMAIN box THEN Project(g[n - 1], box[n].event)
                          ELSE g[n - 1]
           T == {k \in 0..MaxEvents : \E g : g = [n \in 0..k |-> Value(g, n)]}
<1>1. 0 \in T
  <2> DEFINE g == [n \in 0..0 |-> EmptyGraph]
  <2>1. \A n \in 0..0 : EmptyGraph = Value(g, n)
    OBVIOUS
  <2>2. g = [n \in 0..0 |-> Value(g, n)]
    BY <2>1
  <2> HIDE DEF g, Value
  <2> QED BY <2>2
<1>2. ASSUME NEW k \in 1..MaxEvents, k - 1 \in T PROVE k \in T
  <2>1. PICK f : f = [n \in 0..(k - 1) |-> Value(f, n)]
    BY <1>2
  <2> DEFINE g == [n \in 0..k |-> IF n = k THEN Value(f, k) ELSE f[n]]
  <2>2. \A n \in 0..(k - 1) : g[n] = f[n]
    OBVIOUS
  <2>3. ASSUME NEW n \in 0..k PROVE g[n] = Value(g, n)
    <3>1. n = 0 \/ n - 1 \in 0..(k - 1)
      OBVIOUS
    <3>2. Value(g, n) = Value(f, n)
      BY <2>2, <3>1
    <3>3. CASE n = k
      BY <3>2, <3>3
    <3>4. CASE n # k
      <4>1. n \in 0..(k - 1)
        BY <3>4
      <4>2. f[n] = Value(f, n)
        BY <2>1, <4>1
      <4> QED BY <2>2, <3>2, <4>1, <4>2
    <3> QED BY <3>3, <3>4
  <2> HIDE DEF g
  <2>4. g = [n \in 0..k |-> g[n]]
    BY DEF g
  <2>5. g = [n \in 0..k |-> Value(g, n)]
    BY <2>3, <2>4
  <2> QED BY <2>5
<1> HIDE DEF T
<1>3. MaxEvents \in T
  BY <1>1, <1>2, UpTo
<1>4. \E g : g = [n \in 0..MaxEvents |-> Value(g, n)]
  BY <1>3 DEF T
<1>5. Replays(box) = [n \in 0..MaxEvents |-> Value(Replays(box), n)]
  BY <1>4 DEF Replays
<1> HIDE DEF Value
<1>6. \A n \in 0..MaxEvents : Replays(box)[n] = Value(Replays(box), n)
  BY <1>5
<1> QED BY <1>6 DEF Value

\* Two outboxes with the same events up to k are replayed alike up to k.
LEMMA SameEvents ==
  ASSUME NEW box, NEW new, NEW k \in 0..MaxEvents,
         \A i \in 1..k : /\ i \in DOMAIN box <=> i \in DOMAIN new
                         /\ i \in DOMAIN box => box[i].event = new[i].event
  PROVE  Replays(box)[k] = Replays(new)[k]
<1> DEFINE T == {n \in 0..k : Replays(box)[n] = Replays(new)[n]}
<1> k \in Nat /\ MaxEvents \in Nat
  BY OutboxAssumption
<1>1. 0 \in T
  BY ReplaysDef
<1>2. ASSUME NEW n \in 1..k, n - 1 \in T PROVE n \in T
  BY <1>2, ReplaysDef
<1> HIDE DEF T
<1>3. \A n \in 0..k : n \in T
  BY <1>1, <1>2, UpTo
<1> QED BY <1>3 DEF T

\* Where there are no events, replaying goes nowhere.
LEMMA NoEvents ==
  ASSUME NEW box, NEW i \in 0..MaxEvents, NEW j \in i..MaxEvents,
         \A t \in DOMAIN box : t \in Nat => ~(i < t /\ t <= j)
  PROVE  Replays(box)[j] = Replays(box)[i]
<1> DEFINE T == {n \in 0..(j - i) : Replays(box)[i + n] = Replays(box)[i]}
<1> i \in Nat /\ j \in Nat /\ j - i \in Nat /\ MaxEvents \in Nat
  BY OutboxAssumption
<1>1. 0 \in T
  OBVIOUS
<1>2. ASSUME NEW n \in 1..(j - i), n - 1 \in T PROVE n \in T
  <2>1. i + n \in 1..MaxEvents /\ i + n \notin DOMAIN box /\ i + n - 1 = i + (n - 1)
    OBVIOUS
  <2> QED BY <1>2, <2>1, ReplaysDef
<1> HIDE DEF T
<1>3. \A n \in 0..(j - i) : n \in T
  BY <1>1, <1>2, UpTo
<1> QED BY <1>3 DEF T

-----------------------------------------------------------------------------
(* The batch of the first events.                                          *)

LEMMA MinOfTwo ==
  ASSUME NEW a \in Nat, NEW b \in Nat
  PROVE  /\ Min({a, b}) \in {a, b} /\ Min({a, b}) <= a /\ Min({a, b}) <= b
<1>1. CASE a <= b
  BY <1>1 DEF Min
<1>2. CASE b < a
  BY <1>2 DEF Min
<1> QED BY <1>1, <1>2

\* A set of stamps is finite, and its members are numbers.
LEMMA StampSets ==
  ASSUME NEW S \in SUBSET (1..MaxEvents)
  PROVE  /\ IsFiniteSet(S) /\ Cardinality(S) \in Nat
         /\ \A t \in S : t \in Nat /\ t >= 1 /\ t <= t
         /\ \A t, v \in S : (t <= v \/ v < t) /\ (t < v => t <= v /\ ~(v <= t))
                             /\ (t < v \/ v < t \/ t = v)
         /\ \A t, v, u \in S : t <= v /\ v <= u => t <= u
<1>1. MaxEvents \in Nat
  BY OutboxAssumption
<1>2. IsFiniteSet(1..MaxEvents)
  BY <1>1, FS_Interval
<1>3. IsFiniteSet(S)
  BY <1>2, FS_Subset
<1>4. \A t \in S : t \in Nat /\ t >= 1
  BY <1>1
<1>5. IsFiniteSet(S) /\ Cardinality(S) \in Nat
  BY <1>3, FS_CardinalityType
<1>6. \A t, v \in Nat : (t <= v \/ v < t) /\ (t < v => t <= v /\ ~(v <= t))
                        /\ (t < v \/ v < t \/ t = v) /\ t <= t
  OBVIOUS
<1>7. \A t, v, u \in Nat : t <= v /\ v <= u => t <= u
  OBVIOUS
<1> QED BY <1>4, <1>5, <1>6, <1>7

\* Number i of a set of stamps is the one with i members up to it.
LEMMA RankedMember ==
  ASSUME NEW S \in SUBSET (1..MaxEvents), NEW i \in 1..Cardinality(S)
  PROVE  \E t \in S : Cardinality({u \in S : u <= t}) = i
<1> DEFINE upto(t) == {u \in S : u <= t}
           rank == [t \in S |-> Cardinality(upto(t))]
           N == Cardinality(S)
<1>1. IsFiniteSet(S) /\ N \in Nat /\ \A t \in S : t \in Nat
  BY StampSets
<1>2. ASSUME NEW t \in S PROVE IsFiniteSet(upto(t)) /\ rank[t] \in 1..N
  <2>1. upto(t) \in SUBSET S /\ upto(t) # {}
    OBVIOUS
  <2>2. IsFiniteSet(upto(t)) /\ Cardinality(upto(t)) <= N
    BY <1>1, <2>1, FS_Subset
  <2>3. Cardinality(upto(t)) \in Nat /\ Cardinality(upto(t)) # 0
    BY <2>1, <2>2, FS_CardinalityType, FS_EmptySet
  <2> HIDE DEF upto, N
  <2> QED BY <1>1, <2>2, <2>3
<1>3. ASSUME NEW t \in S, NEW v \in S, t < v PROVE rank[t] # rank[v]
  <2>1. upto(t) \in SUBSET upto(v) /\ v \in upto(v) /\ v \notin upto(t)
    BY <1>3, StampSets
  <2>2. IsFiniteSet(upto(v))
    BY <1>2
  <2> HIDE DEF upto
  <2> QED BY <2>1, <2>2, FS_Subset
<1>4. \A t, v \in S : t < v \/ v < t \/ t = v
  BY StampSets
<1> HIDE DEF N
<1>5. rank \in [S -> 1..N]
  BY <1>2
<1> HIDE DEF rank
<1>6. rank \in Injection(S, 1..N)
  BY <1>3, <1>4, <1>5 DEF Injection, IsInjective
<1>7. IsFiniteSet(1..N) /\ Cardinality(1..N) = N
  BY <1>1, FS_Interval
<1>8. rank \in Surjection(S, 1..N)
  BY <1>6, <1>7, FS_Injection DEF N
<1>9. PICK t \in S : rank[t] = i
  BY <1>8 DEF Surjection, N
<1> QED BY <1>9 DEF rank

\* A batch is in order, and holds every event of S up to its last one.
LEMMA FirstOfFacts ==
  ASSUME NEW S \in SUBSET (1..MaxEvents)
  PROVE  LET b == FirstOf(S)
         IN  /\ b \in Seq(S) /\ (b = <<>> <=> S = {})
             /\ \A i, j \in DOMAIN b : i < j => b[i] < b[j]
             /\ \A t \in S : \/ t \in Range(b)
                             \/ b # <<>> /\ b[Len(b)] < t
             /\ b # <<>> => \A t \in S : b[1] <= t
<1> DEFINE b == FirstOf(S)
           N == Cardinality(S)
           n == Min({BatchSize, N})
           upto(t) == {u \in S : u <= t}
<1>1. IsFiniteSet(S) /\ N \in Nat /\ \A t \in S : t \in Nat
  BY StampSets
<1>2. n \in Nat /\ n <= N /\ (n = N \/ n >= 1) /\ (n = 0 <=> N = 0)
  <2> HIDE DEF N
  <2> QED BY <1>1, OutboxAssumption, MinOfTwo
<1>3. N = 0 <=> S = {}
  BY <1>1, FS_EmptySet
<1>4. DOMAIN b = 1..n /\ \A i \in 1..n : b[i] \in S /\ Cardinality(upto(b[i])) = i
  <2>1. b = [i \in 1..n |-> CHOOSE t \in S : Cardinality(upto(t)) = i]
    BY DEF FirstOf
  <2>2. ASSUME NEW i \in 1..n
        PROVE  b[i] \in S /\ Cardinality(upto(b[i])) = i
    <3>1. i \in 1..N
      <4> HIDE DEF n, N
      <4> QED BY <1>1, <1>2
    <3>2. \E t \in S : Cardinality(upto(t)) = i
      BY <3>1, RankedMember
    <3>3. b[i] = CHOOSE t \in S : Cardinality(upto(t)) = i
      BY <2>1
    <3> HIDE DEF b, upto, n, N
    <3> QED BY <3>2, <3>3
  <2> HIDE DEF n
  <2> QED BY <2>1, <2>2
<1>5. b \in [1..n -> S]
  <2> DEFINE ranked(i) == CHOOSE t \in S : Cardinality(upto(t)) = i
  <2>1. b = [i \in 1..n |-> ranked(i)]
    BY DEF FirstOf
  <2> HIDE DEF b, n, ranked
  <2>2. b = [i \in 1..n |-> b[i]]
    BY <2>1
  <2> QED BY <1>4, <2>2
<1>6. ASSUME NEW t \in S PROVE IsFiniteSet(upto(t)) /\ upto(t) \in SUBSET S
  BY <1>1, FS_Subset
<1>7. ASSUME NEW t \in S, NEW v \in S, t <= v
      PROVE  Cardinality(upto(t)) <= Cardinality(upto(v))
  <2>1. upto(t) \in SUBSET upto(v)
    BY <1>7, StampSets
  <2> HIDE DEF upto
  <2> QED BY <1>6, <2>1, FS_Subset
<1>8. \A t \in S : Cardinality(upto(t)) \in Nat
  BY <1>6, FS_CardinalityType
<1>9. ASSUME NEW t \in S, NEW v \in S, Cardinality(upto(t)) = Cardinality(upto(v))
      PROVE  t = v
  <2>1. ASSUME NEW x \in S, NEW y \in S, x < y,
               Cardinality(upto(x)) = Cardinality(upto(y))
        PROVE  FALSE
    <3>1. upto(x) \in SUBSET upto(y) /\ y \in upto(y) /\ y \notin upto(x)
      BY <2>1, StampSets
    <3> HIDE DEF upto
    <3> QED BY <1>6, <2>1, <3>1, FS_Subset
  <2> HIDE DEF upto
  <2> QED BY <1>9, <2>1, StampSets
<1> HIDE DEF b, n, upto
<1>10. ASSUME NEW i \in DOMAIN b, NEW j \in DOMAIN b, i < j PROVE b[i] < b[j]
  <2>1. b[i] \in S /\ b[j] \in S /\ i \in 1..n /\ j \in 1..n
    BY <1>4
  <2>2. CASE b[j] <= b[i]
    <3>1. Cardinality(upto(b[j])) <= Cardinality(upto(b[i]))
      BY <1>7, <2>1, <2>2
    <3>2. j <= i
      BY <1>4, <2>1, <3>1
    <3> QED BY <1>2, <1>10, <2>1, <3>2
  <2> QED BY <2>1, <2>2, StampSets
<1>11. Len(b) = n /\ b \in Seq(S)
  BY <1>2, <1>5
<1>12. ASSUME NEW t \in S, t \notin Range(b) PROVE b # <<>> /\ b[Len(b)] < t
  <2> DEFINE r == Cardinality(upto(t))
  <2>1. S # {} /\ n >= 1
    BY <1>1, <1>2, <1>3
  <2>2. r \in Nat
    BY <1>8
  <2>3. \A i \in 1..n : r # i
    BY <1>4, <1>9, <1>12 DEF Range
  <2>4. r # 0
    <3>1. t \in upto(t)
      BY <1>1 DEF upto
    <3> QED BY <1>6, <3>1, FS_EmptySet
  <2>5. r > n /\ n \in 1..n
    <3> HIDE DEF r
    <3> QED BY <1>2, <2>1, <2>2, <2>3, <2>4
  <2>6. b[n] \in S /\ Cardinality(upto(b[n])) = n
    BY <1>4, <2>5
  <2>7. ASSUME t <= b[n] PROVE FALSE
    <3>1. r <= n
      BY <1>7, <2>6, <2>7
    <3> HIDE DEF r
    <3> QED BY <1>2, <2>2, <2>5, <3>1
  <2>8. b # <<>>
    BY <1>11, <2>1
  <2> QED BY <1>11, <2>6, <2>7, <2>8, StampSets
<1>13. ASSUME b # <<>>, NEW t \in S PROVE b[1] <= t
  <2>1. 1 \in 1..n
    BY <1>2, <1>11, <1>13
  <2>2. b[1] \in S /\ Cardinality(upto(b[1])) = 1
    BY <1>4, <2>1
  <2>3. CASE t < b[1]
    <3>1. Cardinality(upto(t)) <= 1 /\ t \in upto(t)
      <4>1. t <= b[1] /\ t <= t
        BY <2>2, <2>3, StampSets
      <4>2. Cardinality(upto(t)) <= Cardinality(upto(b[1]))
        BY <1>7, <2>2, <4>1
      <4> QED BY <2>2, <4>1, <4>2 DEF upto
    <3>2. Cardinality(upto(t)) # 0
      BY <1>6, <3>1, FS_EmptySet
    <3>3. Cardinality(upto(t)) = 1
      BY <1>8, <3>1, <3>2
    <3>4. t = b[1]
      BY <1>9, <2>2, <3>3
    <3> QED BY <2>2, <2>3, <3>4, StampSets
  <2> QED BY <2>2, <2>3, StampSets
<1>14. b = <<>> <=> S = {}
  BY <1>2, <1>3, <1>11
<1> QED BY <1>10, <1>11, <1>12, <1>13, <1>14 DEF b

LEMMA WiderSeq ==
  ASSUME NEW S, NEW T, S \subseteq T, NEW b \in Seq(S)
  PROVE  b \in Seq(T) /\ Range(b) \subseteq S
<1>1. b \in [1..Len(b) -> S] /\ Len(b) \in Nat /\ b = [i \in 1..Len(b) |-> b[i]]
  OBVIOUS
<1>2. b \in [1..Len(b) -> T]
  BY <1>1
<1>3. b \in Seq(T)
  BY <1>1, <1>2
<1>4. Range(b) \subseteq S
  BY <1>1 DEF Range
<1> QED BY <1>3, <1>4

-----------------------------------------------------------------------------
(* What each step does to the outbox and to a projector.                   *)

\* Callers leave the projectors and the graph alone.
CallerStep(c) ==
  Request(c) \/ WriteRow(c) \/ AppendEvent(c) \/ LoseAppend(c) \/ CrashCaller(c)
ProjectorStep(p) ==
  \/ ClearProjection(p) \/ ChooseFailed(p) \/ ResetForReplay(p) \/ Advance(p)
  \/ FailEvent(p) \/ CrashProjector(p)
  \/ p \in Shells /\ \E cmd \in Commands : StartCommand(p, cmd)
  \/ p \in Loops /\ StartIteration(p)

LEMMA Steps ==
  ASSUME Next
  PROVE  (\E c \in Callers : CallerStep(c)) \/ (\E p \in Projectors : ProjectorStep(p))
BY DEF Next, CallerStep, ProjectorStep, Projectors

\* Every request begins with Begin.
LEMMA RequestBegins ==
  ASSUME NEW c, Request(c)
  PROVE  \E steps : Continue(c, steps) /\ UNCHANGED <<rows, outbox, graph, proc, blank>>
<1>1. ASSUME NEW op, NEW steps, Begin(c, op, steps)
      PROVE  \E s : Continue(c, s) /\ UNCHANGED <<rows, outbox, graph, proc, blank>>
  BY <1>1 DEF Begin
<1>2. CASE \E w \in Workflows : (\E refs \in WorkflowRefs : SaveWorkflow(c, w, refs))
                                \/ DeleteWorkflow(c, w)
  BY <1>1, <1>2 DEF SaveWorkflow, DeleteWorkflow
<1>3. CASE \E m \in Memories :
             \/ \E refs \in MemoryRefs : CreateMemory(c, m, refs) \/ UpdateMemory(c, m, refs)
             \/ DeleteMemory(c, m)
             \/ \E refs \in HintRefs : ApproveHints(c, m, refs)
                                      \/ ApprovePersonaItem(c, m, refs)
  BY <1>1, <1>3 DEF CreateMemory, UpdateMemory, DeleteMemory, ApproveHints,
                    ApprovePersonaItem
<1>4. CASE \E u \in Uploads : UploadDocument(c, u[1], u[2]) \/ DeleteDocument(c, u[1])
  BY <1>1, <1>4 DEF UploadDocument, DeleteDocument
<1>5. CASE \E p \in Personas, e \in PersonaEvents : EmitPersona(c, p, e[1], e[2])
  BY <1>1, <1>5 DEF EmitPersona
<1>6. CASE \E l \in Links, w \in Workflows :
             (\E refs \in LinkRefs : SaveLink(c, l, w, refs)) \/ DeleteLink(c, l, w)
  BY <1>1, <1>6 DEF SaveLink, DeleteLink
<1>7. CASE \E x \in Executions : (\E e \in RunEvents : EmitEvent(c, x, e[1], e[2]))
                                 \/ DeleteExecution(c, x)
  BY <1>1, <1>7 DEF EmitEvent, DeleteExecution
<1>8. CASE Backfill(c)
  BY <1>1, <1>8 DEF Backfill
<1> QED BY <1>2, <1>3, <1>4, <1>5, <1>6, <1>7, <1>8 DEF Request

\* A handler goes on: an event about to be inserted has a stamp of its own.
LEMMA ContinueStamps ==
  ASSUME Stamped, NEW c \in Callers, NEW steps, Continue(c, steps)
  PROVE  Stamped' /\ stamps <= stamps' /\ stamps' <= stamps + 1
<1>1. /\ MaxEvents \in Nat /\ stamps \in 0..MaxEvents
      /\ stamp \in [Callers -> 0..stamps] /\ DOMAIN todo = Callers
      /\ \A d \in Callers :
           todo[d] # <<>> /\ Head(todo[d]).do = "append" => stamp[d] \in 1..stamps
  BY OutboxAssumption DEF Stamped
<1>2. DOMAIN todo' = Callers /\ todo'[c] = steps /\ \A d \in Callers \ {c} : todo'[d] = todo[d]
  BY <1>1 DEF Continue
<1>3. CASE steps # <<>> /\ Head(steps).do = "append"
  <2>1. stamps < MaxEvents /\ stamps' = stamps + 1 /\ stamp' = [stamp EXCEPT ![c] = stamps + 1]
    BY <1>3 DEF Continue
  <2>2. \A d \in Callers \ {c} : stamp'[d] = stamp[d] /\ stamp[d] \in 0..stamps
    BY <1>1, <2>1
  <2>3. stamp'[c] = stamps + 1
    BY <1>1, <2>1
  <2>4. stamp' \in [Callers -> 0..stamps']
    BY <1>1, <2>1
  <2>5. stamps' \in 0..MaxEvents /\ \A n \in 1..stamps : n \in 1..stamps'
    BY <1>1, <2>1
  <2>6. ASSUME NEW d \in Callers, todo'[d] # <<>> /\ Head(todo'[d]).do = "append"
        PROVE  stamp'[d] \in 1..stamps'
    <3>1. CASE d = c
      BY <1>1, <2>1, <2>3, <3>1
    <3>2. CASE d # c
      BY <1>1, <1>2, <2>2, <2>5, <2>6, <3>2
    <3> QED BY <3>1, <3>2
  <2> QED BY <1>1, <1>2, <2>1, <2>4, <2>5, <2>6 DEF Stamped
<1>4. CASE ~(steps # <<>> /\ Head(steps).do = "append")
  <2>1. stamps' = stamps /\ stamp' = stamp
    BY <1>4 DEF Continue
  <2>2. ASSUME NEW d \in Callers, todo'[d] # <<>> /\ Head(todo'[d]).do = "append"
        PROVE  d # c /\ todo'[d] = todo[d]
    BY <1>2, <1>4, <2>2
  <2> QED BY <1>1, <1>2, <2>1, <2>2 DEF Stamped
<1> QED BY <1>3, <1>4

\* What a caller does to the outbox: nothing, or one more pending row.
Inserted(at, e, k) ==
  outbox' = [t \in DOMAIN outbox \cup {at} |->
               IF t = at THEN [event |-> e, key |-> k, status |-> "pending"]
               ELSE outbox[t]]

LEMMA CallerSteps ==
  ASSUME OutboxInv, NEW c \in Callers, CallerStep(c)
  PROVE  /\ Stamped' /\ stamps <= stamps' /\ stamps' \in 0..MaxEvents
         /\ UNCHANGED <<graph, proc, blank>>
         /\ \/ UNCHANGED outbox
            \/ /\ todo[c] # <<>> /\ Head(todo[c]).do = "append" /\ stamp[c] \in 1..stamps
               /\ \E e, k : Inserted(stamp[c], e, k)
<1>1. CASE Request(c)
  BY <1>1, RequestBegins, ContinueStamps DEF OutboxInv, Stamped
<1>2. CASE WriteRow(c)
  <2>1. \E steps : Continue(c, steps)
    BY <1>2 DEF WriteRow
  <2> QED BY <1>2, <2>1, ContinueStamps DEF OutboxInv, WriteRow, Stamped
<1>3. CASE AppendEvent(c)
  <2>1. Continue(c, Tail(todo[c]))
    BY <1>3 DEF AppendEvent
  <2>2. todo[c] # <<>> /\ Head(todo[c]).do = "append" /\ UNCHANGED <<graph, proc, blank>>
    BY <1>3 DEF AppendEvent
  <2>3. UNCHANGED outbox \/ \E e, k : Inserted(stamp[c], e, k)
    BY <1>3 DEF AppendEvent, Inserted
  <2> QED BY <2>1, <2>2, <2>3, ContinueStamps DEF OutboxInv, Stamped
<1>4. CASE LoseAppend(c)
  <2>1. \E steps : Continue(c, steps)
    BY <1>4 DEF LoseAppend
  <2> QED BY <1>4, <2>1, ContinueStamps DEF OutboxInv, LoseAppend, Stamped
<1>5. CASE CrashCaller(c)
  <2>1. todo' = [todo EXCEPT ![c] = <<>>]
        /\ UNCHANGED <<rows, stamp, outbox, graph, proc, stamps, blank>>
    BY <1>5 DEF CrashCaller
  <2>2. Stamped'
    BY <2>1 DEF OutboxInv, Stamped
  <2> QED BY <2>1, <2>2, OutboxAssumption DEF OutboxInv, Stamped
<1> QED BY <1>1, <1>2, <1>3, <1>4, <1>5 DEF CallerStep

LEMMA InsertedRow ==
  ASSUME Tables, NEW at \in 1..stamps, NEW e, NEW k, Inserted(at, e, k)
  PROVE  /\ DOMAIN outbox' = DOMAIN outbox \cup {at}
         /\ \A t \in DOMAIN outbox : t # at => outbox'[t] = outbox[t]
         /\ outbox'[at].status = "pending"
         /\ \A t \in DOMAIN outbox' : outbox'[t] \in EntryType(outbox'[t])
<1> DEFINE row == [event |-> e, key |-> k, status |-> "pending"]
<1>1. /\ DOMAIN outbox' = DOMAIN outbox \cup {at}
      /\ \A t \in DOMAIN outbox : t # at => outbox'[t] = outbox[t]
      /\ outbox'[at] = row
  BY DEF Inserted
<1>2. row \in EntryType(row) /\ row.status = "pending"
  BY DEF EntryType, Statuses
<1> HIDE DEF row
<1> QED BY <1>1, <1>2 DEF Tables

LEMMA MarkedRows ==
  ASSUME Tables, NEW T, NEW s \in Statuses, outbox' = Marked(T, s)
  PROVE  /\ DOMAIN outbox' = DOMAIN outbox
         /\ \A t \in DOMAIN outbox :
              /\ outbox'[t].event = outbox[t].event
              /\ outbox'[t].status = IF t \in T THEN s ELSE outbox[t].status
              /\ outbox'[t] \in EntryType(outbox'[t])
<1>1. /\ DOMAIN outbox' = DOMAIN outbox
      /\ \A t \in DOMAIN outbox : outbox'[t] = IF t \in T
                                               THEN [outbox[t] EXCEPT !.status = s]
                                               ELSE outbox[t]
  BY DEF Marked
<1>2. ASSUME NEW t \in DOMAIN outbox
      PROVE  LET r == [outbox[t] EXCEPT !.status = s]
             IN  r.event = outbox[t].event /\ r.status = s /\ r \in EntryType(r)
  BY DEF Tables, EntryType
<1> QED BY <1>1, <1>2 DEF Tables

\* A row of the table of projectors that is replaced by a well-formed one.
LEMMA ProcReplaced ==
  ASSUME Batches, NEW p \in Projectors, NEW q \in ProcType,
         proc' = [proc EXCEPT ![p] = q], DOMAIN outbox \subseteq DOMAIN outbox',
         Range(q.batch) \subseteq DOMAIN outbox, q.pc \in AtEvent => q.batch # <<>>
  PROVE  Batches' /\ proc'[p] = q /\ \A r \in Projectors \ {p} : proc'[r] = proc[r]
<1>1. proc'[p] = q /\ \A r \in Projectors \ {p} : proc'[r] = proc[r]
  BY DEF Batches
<1>2. proc' \in [Projectors -> ProcType]
  BY DEF Batches
<1>3. ASSUME NEW r \in Projectors
      PROVE  /\ Range(proc'[r].batch) \subseteq DOMAIN outbox'
             /\ proc'[r].pc \in AtEvent => proc'[r].batch # <<>>
  <2>1. CASE r = p
    BY <1>1, <2>1
  <2>2. CASE r # p
    BY <1>1, <2>2 DEF Batches
  <2> QED BY <2>1, <2>2
<1> QED BY <1>1, <1>2, <1>3 DEF Batches

\* Well-formed rows of that table.
LEMMA IdleRow ==
  /\ Idle \in ProcType /\ Idle.pc = "idle" /\ Idle.batch = <<>> /\ Idle.failed = FALSE
  /\ Range(Idle.batch) = {}
<1>1. <<>> \in Seq(1..MaxEvents) /\ "idle" \in Stages /\ Range(<<>>) = {}
  BY DEF Stages, Range
<1> QED BY <1>1 DEF Idle, ProcType

LEMMA CommandRow ==
  ASSUME NEW pc \in Stages, NEW cmd \in Commands \cup {"loop"}
  PROVE  LET r == [Idle EXCEPT !.cmd = cmd, !.pc = pc]
         IN  /\ r \in ProcType /\ r.pc = pc /\ r.batch = <<>> /\ r.failed = FALSE
             /\ r.cmd = cmd /\ Range(r.batch) = {}
<1>1. <<>> \in Seq(1..MaxEvents) /\ Range(<<>>) = {}
  BY DEF Range
<1> QED BY <1>1 DEF Idle, ProcType

LEMMA StageRow ==
  ASSUME NEW q \in ProcType, NEW pc \in Stages
  PROVE  LET r == [q EXCEPT !.pc = pc]
         IN  r \in ProcType /\ r.pc = pc /\ r.batch = q.batch /\ r.failed = q.failed
             /\ r.cmd = q.cmd
BY DEF ProcType

LEMMA BatchRow ==
  ASSUME NEW q \in ProcType, NEW pc \in Stages, NEW b \in Seq(1..MaxEvents)
  PROVE  LET r == [q EXCEPT !.pc = pc, !.batch = b]
         IN  r \in ProcType /\ r.pc = pc /\ r.batch = b /\ r.failed = q.failed
             /\ r.cmd = q.cmd
BY DEF ProcType

LEMMA TailOf ==
  ASSUME NEW S, NEW b \in Seq(S), b # <<>>
  PROVE  /\ Head(b) = b[1] /\ Head(b) \in Range(b) /\ Tail(b) \in Seq(S)
         /\ Range(Tail(b)) \subseteq Range(b) /\ Len(b) \in Nat /\ Len(b) >= 1
         /\ DOMAIN b = 1..Len(b) /\ DOMAIN Tail(b) = 1..(Len(b) - 1)
         /\ Len(Tail(b)) = Len(b) - 1 /\ (Tail(b) = <<>> <=> Len(b) = 1)
         /\ \A i \in 1..(Len(b) - 1) : Tail(b)[i] = b[i + 1]
<1>1. /\ Head(b) = b[1] /\ Tail(b) \in Seq(S) /\ Len(b) \in Nat /\ Len(b) >= 1
      /\ DOMAIN b = 1..Len(b) /\ DOMAIN Tail(b) = 1..(Len(b) - 1)
      /\ Len(Tail(b)) = Len(b) - 1
      /\ \A i \in 1..(Len(b) - 1) : Tail(b)[i] = b[i + 1]
  OBVIOUS
<1>2. 1 \in DOMAIN b /\ \A i \in 1..(Len(b) - 1) : i + 1 \in DOMAIN b
  BY <1>1
<1>3. Head(b) \in Range(b) /\ Range(Tail(b)) \subseteq Range(b)
  BY <1>1, <1>2 DEF Range
<1>4. Tail(b) = <<>> <=> Len(b) = 1
  BY <1>1
<1> QED BY <1>1, <1>3, <1>4

\* The row a projector has after an event is well formed.
LEMMA AdvancedRows ==
  ASSUME NEW q \in ProcType, q.batch # <<>>, NEW f \in BOOLEAN
  PROVE  LET r == Advanced(q, f)
         IN  /\ r \in ProcType /\ Range(r.batch) \subseteq Range(q.batch)
             /\ r.pc \in AtEvent => r.batch # <<>>
<1>1. q.batch \in Seq(1..MaxEvents) /\ Tail(q.batch) \in Seq(1..MaxEvents)
      /\ Range(Tail(q.batch)) \subseteq Range(q.batch) /\ <<>> \in Seq(1..MaxEvents)
  BY TailOf DEF ProcType
<1>2. Range(<<>>) = {}
  BY DEF Range
<1>3. CASE Tail(q.batch) # <<>>
  <2> DEFINE r == [q EXCEPT !.pc = "apply", !.batch = Tail(q.batch), !.failed = f]
  <2>1. "apply" \in Stages /\ Tail(q.batch) \in Seq(1..MaxEvents)
    BY <1>1 DEF Stages
  <2>3. r \in ProcType /\ r.batch = Tail(q.batch)
    BY <2>1 DEF ProcType
  <2>2. Advanced(q, f) = r
    BY <1>3 DEF Advanced
  <2> HIDE DEF r
  <2> QED BY <1>1, <1>3, <2>2, <2>3
<1>4. CASE Tail(q.batch) = <<>> /\ q.cmd \in {"rebuild", "rebuild_clear"} /\ ~f
  <2> DEFINE r == [q EXCEPT !.pc = "list", !.batch = <<>>]
  <2>1. "list" \in Stages
    BY DEF Stages
  <2>3. r \in ProcType /\ r.batch = <<>> /\ r.pc = "list"
    BY <1>1, <2>1 DEF ProcType
  <2>2. Advanced(q, f) = r
    BY <1>4 DEF Advanced
  <2> HIDE DEF r
  <2> QED BY <1>2, <2>2, <2>3 DEF AtEvent
<1>5. CASE Tail(q.batch) = <<>> /\ ~(q.cmd \in {"rebuild", "rebuild_clear"} /\ ~f)
  <2>1. Advanced(q, f) = Idle
    BY <1>5 DEF Advanced
  <2> QED BY <2>1, IdleRow DEF AtEvent
<1> QED BY <1>3, <1>4, <1>5

LEMMA ProjectorKeeps ==
  ASSUME OutboxInv, NEW p \in Projectors, ProjectorStep(p)
  PROVE  /\ OutboxInv' /\ DOMAIN outbox' = DOMAIN outbox
         /\ \A q \in Projectors \ {p} : proc'[q] = proc[q]
<1>1. /\ Stamped /\ Tables /\ Batches /\ proc[p] \in ProcType /\ Loops \cup Shells = Projectors
      /\ proc[p].batch \in Seq(1..MaxEvents) /\ Range(proc[p].batch) \subseteq DOMAIN outbox
      /\ proc[p].pc \in AtEvent => proc[p].batch # <<>>
  BY DEF OutboxInv, Batches, ProcType, Projectors
<1>2. UnchangedCallers => Stamped'
  BY <1>1 DEF UnchangedCallers, Stamped
\* The outbox is untouched or marked.
<1>3. ASSUME UnchangedCallers,
             UNCHANGED outbox \/ \E T : \E s \in Statuses : outbox' = Marked(T, s)
      PROVE  Stamped' /\ Tables' /\ DOMAIN outbox' = DOMAIN outbox
  <2>1. CASE UNCHANGED outbox
    BY <1>1, <1>2, <1>3, <2>1 DEF UnchangedCallers, Tables
  <2>2. CASE \E T : \E s \in Statuses : outbox' = Marked(T, s)
    BY <1>1, <1>2, <1>3, <2>2, MarkedRows DEF UnchangedCallers, Tables
  <2> QED BY <1>3, <2>1, <2>2
<1>4. ASSUME NEW q \in ProcType, proc' = [proc EXCEPT ![p] = q], UnchangedCallers,
             UNCHANGED outbox \/ \E T : \E s \in Statuses : outbox' = Marked(T, s),
             Range(q.batch) \subseteq DOMAIN outbox, q.pc \in AtEvent => q.batch # <<>>
      PROVE  /\ OutboxInv' /\ DOMAIN outbox' = DOMAIN outbox
             /\ \A r \in Projectors \ {p} : proc'[r] = proc[r]
  BY <1>1, <1>3, <1>4, ProcReplaced DEF OutboxInv
<1>5. "reset" \in Stages \ AtEvent /\ "list" \in Stages \ AtEvent /\ "idle" \in Stages \ AtEvent
      /\ "clear" \in Stages \ AtEvent /\ "choose" \in Stages \ AtEvent
      /\ "apply" \in Stages /\ "mark" \in Stages /\ "fail" \in Stages
      /\ "pending" \in Statuses /\ "projected" \in Statuses /\ "failed" \in Statuses
  BY DEF Stages, AtEvent, Statuses
<1>6. <<>> \in Seq(1..MaxEvents) /\ Range(<<>>) = {}
  BY DEF Range
\* The next stage, with the same batch.
<1>7. ASSUME NEW pc \in Stages, proc' = [proc EXCEPT ![p].pc = pc], UnchangedCallers,
             UNCHANGED outbox, pc \in AtEvent => proc[p].pc \in AtEvent
      PROVE  /\ OutboxInv' /\ DOMAIN outbox' = DOMAIN outbox
             /\ \A r \in Projectors \ {p} : proc'[r] = proc[r]
  <2> DEFINE q == [proc[p] EXCEPT !.pc = pc]
  <2>1. q \in ProcType /\ q.batch = proc[p].batch /\ q.pc = pc
    BY <1>1, StageRow
  <2>2. proc' = [proc EXCEPT ![p] = q]
    BY <1>7
  <2> HIDE DEF q
  <2> QED BY <1>1, <1>4, <1>7, <2>1, <2>2
\* The next stage, with another batch.
<1>8. ASSUME NEW pc \in Stages, NEW b \in Seq(1..MaxEvents), UnchangedCallers,
             proc' = [proc EXCEPT ![p] = [@ EXCEPT !.pc = pc, !.batch = b]],
             UNCHANGED outbox \/ \E T : \E s \in Statuses : outbox' = Marked(T, s),
             Range(b) \subseteq DOMAIN outbox, pc \in AtEvent => b # <<>>
      PROVE  /\ OutboxInv' /\ DOMAIN outbox' = DOMAIN outbox
             /\ \A r \in Projectors \ {p} : proc'[r] = proc[r]
  <2> DEFINE q == [proc[p] EXCEPT !.pc = pc, !.batch = b]
  <2>1. q \in ProcType /\ q.batch = b /\ q.pc = pc
    <3>1. proc[p] \in ProcType /\ pc \in Stages /\ b \in Seq(1..MaxEvents)
      BY <1>1, <1>8
    <3> QED BY <3>1 DEF ProcType
  <2>2. proc' = [proc EXCEPT ![p] = q]
    BY <1>8
  <2> HIDE DEF q
  <2> QED BY <1>4, <1>8, <2>1, <2>2
\* Idle, or the beginning of a command.
<1>9. ASSUME NEW q, UnchangedCallers, proc' = [proc EXCEPT ![p] = q],
             UNCHANGED outbox \/ \E T : \E s \in Statuses : outbox' = Marked(T, s),
             \/ q = Idle
             \/ \E cmd \in Commands \cup {"loop"}, pc \in Stages \ AtEvent :
                  q = [Idle EXCEPT !.cmd = cmd, !.pc = pc]
      PROVE  /\ OutboxInv' /\ DOMAIN outbox' = DOMAIN outbox
             /\ \A r \in Projectors \ {p} : proc'[r] = proc[r]
  <2>1. q \in ProcType /\ Range(q.batch) = {} /\ q.pc \notin AtEvent
    <3>1. CASE q = Idle
      BY <1>5, <3>1, IdleRow
    <3>2. CASE \E cmd \in Commands \cup {"loop"}, pc \in Stages \ AtEvent :
                 q = [Idle EXCEPT !.cmd = cmd, !.pc = pc]
      <4>1. PICK cmd \in Commands \cup {"loop"}, pc \in Stages \ AtEvent :
                 q = [Idle EXCEPT !.cmd = cmd, !.pc = pc]
        BY <3>2
      <4>2. [Idle EXCEPT !.cmd = cmd, !.pc = pc] \in ProcType
            /\ Range([Idle EXCEPT !.cmd = cmd, !.pc = pc].batch) = {}
            /\ [Idle EXCEPT !.cmd = cmd, !.pc = pc].pc = pc
        BY CommandRow
      <4> QED BY <4>1, <4>2
    <3> QED BY <1>9, <3>1, <3>2
  <2> QED BY <1>4, <1>9, <2>1
<1>10. ASSUME NEW status
       PROVE  /\ FirstOf(Having(status)) \in Seq(1..MaxEvents)
              /\ Range(FirstOf(Having(status))) \subseteq DOMAIN outbox
  <2>1. Having(status) \in SUBSET (1..MaxEvents) /\ Having(status) \subseteq DOMAIN outbox
    BY <1>1, OutboxAssumption DEF Having, Tables, Stamped
  <2>2. FirstOf(Having(status)) \in Seq(Having(status))
    BY <2>1, FirstOfFacts
  <2> QED BY <2>1, <2>2, WiderSeq
<1>11. CASE ClearProjection(p)
  BY <1>5, <1>7, <1>11 DEF ClearProjection
<1>12. CASE ChooseFailed(p)
  <2>1. proc' = [proc EXCEPT ![p] = [@ EXCEPT !.pc = "reset", !.batch = FirstOf(Having("failed"))]]
    BY <1>1, <1>12 DEF ChooseFailed, Batches
  <2> QED BY <1>5, <1>8, <1>10, <1>12, <2>1 DEF ChooseFailed
<1>13. CASE ResetForReplay(p)
  <2>1. UnchangedCallers /\ \E T : outbox' = Marked(T, "pending")
    BY <1>13 DEF ResetForReplay
  <2>2. \/ proc' = [proc EXCEPT ![p] = Idle]
        \/ proc' = [proc EXCEPT ![p] = [@ EXCEPT !.pc = "list", !.batch = <<>>]]
    BY <1>13 DEF ResetForReplay
  <2>3. CASE proc' = [proc EXCEPT ![p] = Idle]
    BY <1>5, <1>9, <2>1, <2>3
  <2>4. CASE proc' = [proc EXCEPT ![p] = [@ EXCEPT !.pc = "list", !.batch = <<>>]]
    BY <1>5, <1>6, <1>8, <2>1, <2>4
  <2> QED BY <2>2, <2>3, <2>4
<1>14. CASE ListPending(p)
  <2> DEFINE b == FirstOf(Having("pending"))
  <2>1. UnchangedCallers /\ UNCHANGED outbox
    BY <1>14 DEF ListPending
  <2>2. CASE b = <<>>
    <3>1. proc' = [proc EXCEPT ![p] = Idle]
      BY <1>14, <2>2 DEF ListPending
    <3> QED BY <1>9, <2>1, <3>1
  <2>3. CASE b # <<>>
    <3>1. proc' = [proc EXCEPT ![p] = [@ EXCEPT !.pc = "apply", !.batch = b]]
      BY <1>14, <2>3 DEF ListPending
    <3> QED BY <1>5, <1>8, <1>10, <2>1, <2>3, <3>1
  <2> QED BY <2>2, <2>3
<1>15. CASE ApplyEvent(p)
  BY <1>5, <1>7, <1>15 DEF ApplyEvent, AtEvent
<1>16. CASE MarkProjected(p) \/ MarkFailed(p)
  <2>1. PICK f \in BOOLEAN : proc' = [proc EXCEPT ![p] = Advanced(@, f)]
    <3>1. proc[p].failed \in BOOLEAN
      BY <1>1 DEF ProcType
    <3> QED BY <1>16, <3>1 DEF MarkProjected, MarkFailed
  <2>2. UnchangedCallers /\ \E T : \E s \in Statuses : outbox' = Marked(T, s)
    <3>1. CASE MarkProjected(p)
      BY <1>5, <3>1 DEF MarkProjected
    <3>2. CASE MarkFailed(p)
      BY <1>5, <3>2 DEF MarkFailed
    <3> QED BY <1>16, <3>1, <3>2
  <2>3. proc[p].batch # <<>>
    BY <1>1, <1>16 DEF MarkProjected, MarkFailed, AtEvent
  <2> DEFINE q == Advanced(proc[p], f)
  <2>4. q \in ProcType /\ Range(q.batch) \subseteq Range(proc[p].batch)
        /\ (q.pc \in AtEvent => q.batch # <<>>)
    BY <1>1, <2>3, AdvancedRows
  <2>5. proc' = [proc EXCEPT ![p] = q]
    BY <2>1
  <2> HIDE DEF q
  <2> QED BY <1>1, <1>4, <2>2, <2>4, <2>5
<1>17. CASE FailEvent(p)
  BY <1>5, <1>7, <1>17 DEF FailEvent, AtEvent
<1>18. CASE CrashProjector(p)
  BY <1>9, <1>18 DEF CrashProjector
<1>19. CASE p \in Shells /\ \E cmd \in Commands : StartCommand(p, cmd)
  <2>1. \A cmd : FirstStep(cmd) \in Stages \ AtEvent
    BY <1>5 DEF FirstStep
  <2> QED BY <1>9, <1>19, <2>1 DEF StartCommand
<1>20. CASE p \in Loops /\ StartIteration(p)
  BY <1>5, <1>9, <1>20 DEF StartIteration
<1> QED BY <1>11, <1>12, <1>13, <1>14, <1>15, <1>16, <1>17, <1>18, <1>19, <1>20
        DEF ProjectorStep, Advance

LEMMA CallerKeeps ==
  ASSUME OutboxInv, NEW c \in Callers, CallerStep(c)
  PROVE  OutboxInv' /\ DOMAIN outbox \subseteq DOMAIN outbox'
<1>1. /\ Stamped' /\ stamps <= stamps' /\ stamps' \in 0..MaxEvents /\ stamps \in 0..MaxEvents
      /\ UNCHANGED proc /\ DOMAIN outbox \subseteq 1..stamps
  BY CallerSteps DEF OutboxInv, Stamped, Tables
<1>2. \A n \in 1..stamps : n \in 1..stamps'
  BY <1>1, OutboxAssumption
<1>3. CASE UNCHANGED outbox
  BY <1>1, <1>2, <1>3 DEF OutboxInv, Tables, Batches
<1>4. CASE \E e, k : stamp[c] \in 1..stamps /\ Inserted(stamp[c], e, k)
  <2>1. /\ DOMAIN outbox' = DOMAIN outbox \cup {stamp[c]} /\ stamp[c] \in 1..stamps
        /\ \A t \in DOMAIN outbox' : outbox'[t] \in EntryType(outbox'[t])
    BY <1>4, InsertedRow DEF OutboxInv
  <2> QED BY <1>1, <1>2, <2>1 DEF OutboxInv, Tables, Batches
<1> QED BY <1>3, <1>4, CallerSteps

LEMMA OutboxInvStays ==
  ASSUME OutboxInv, [Next]_vars
  PROVE  OutboxInv'
<1>1. CASE Next
  BY <1>1, Steps, CallerKeeps, ProjectorKeeps
<1>2. CASE UNCHANGED vars
  BY <1>2 DEF vars, OutboxInv, Stamped, Tables, Batches
<1> QED BY <1>1, <1>2

LEMMA InitOutbox == ASSUME Init PROVE OutboxInv
<1>1. DOMAIN outbox = {} /\ MaxEvents \in Nat
  BY OutboxAssumption DEF Init
<1>2. Stamped
  BY <1>1 DEF Init, Stamped
<1>3. proc \in [Projectors -> ProcType] /\ \A p \in Projectors : proc[p] = Idle
  BY IdleRow DEF Init
<1>4. Batches
  BY <1>3, IdleRow DEF Batches, AtEvent
<1> QED BY <1>1, <1>2, <1>4 DEF OutboxInv, Tables

LEMMA OutboxInvHolds == Spec => []OutboxInv
<1>1. Init => OutboxInv
  BY InitOutbox
<1>2. OutboxInv /\ [Next]_vars => OutboxInv'
  BY OutboxInvStays
<1> QED BY <1>1, <1>2, PTL DEF Spec

-----------------------------------------------------------------------------
(* A rebuild from nothing.                                                 *)

LEMMA RowNumbers ==
  ASSUME OutboxInv
  PROVE  /\ stamps \in 0..MaxEvents /\ MaxEvents \in Nat
         /\ \A t \in DOMAIN outbox : t \in Nat /\ t \in 1..stamps /\ t \in 1..MaxEvents
BY OutboxAssumption DEF OutboxInv, Stamped, Tables

\* What the row of a projector looks like at an event.
LEMMA AtHead ==
  ASSUME OutboxInv, NEW p \in Projectors, proc[p].pc \in AtEvent
  PROVE  LET b == proc[p].batch
         IN  /\ b \in Seq(1..MaxEvents) /\ b # <<>> /\ Head(b) = b[1]
             /\ Head(b) \in DOMAIN outbox /\ Head(b) \in 1..MaxEvents
             /\ \A i \in DOMAIN b : b[i] \in DOMAIN outbox
             /\ DOMAIN b = 1..Len(b) /\ Len(b) \in Nat /\ Len(b) >= 1
             /\ 1 \in DOMAIN b /\ Len(b) \in DOMAIN b
<1> DEFINE b == proc[p].batch
<1>1. b \in Seq(1..MaxEvents) /\ b # <<>> /\ Range(b) \subseteq DOMAIN outbox
  BY DEF OutboxInv, Batches, ProcType
<1> HIDE DEF b
<1>2. /\ Head(b) = b[1] /\ DOMAIN b = 1..Len(b) /\ Len(b) \in Nat /\ Len(b) >= 1
      /\ Head(b) \in Range(b)
  BY <1>1, TailOf
<1>3. 1 \in DOMAIN b /\ Len(b) \in DOMAIN b
  BY <1>2
<1>4. \A i \in DOMAIN b : b[i] \in DOMAIN outbox
  BY <1>1 DEF Range
<1> QED BY <1>1, <1>2, <1>3, <1>4, RowNumbers DEF b

LEMMA CallersKeepRebuilt ==
  ASSUME OutboxInv, AppendsInOrder, NEW c \in Callers, CallerStep(c),
         NEW p \in Projectors, Rebuilt(proc[p])
  PROVE  Rebuilt(proc[p])'
<1>1. UNCHANGED <<graph, proc>>
  BY CallerSteps
<1>2. CASE UNCHANGED outbox
  BY <1>1, <1>2 DEF Rebuilt, DoneBefore, InLine
<1>3. ASSUME NEW e, NEW k, stamp[c] \in 1..stamps, Inserted(stamp[c], e, k),
             todo[c] # <<>>, Head(todo[c]).do = "append"
      PROVE  Rebuilt(proc[p])'
  <2> DEFINE at == stamp[c]
  <2>1. at \in Nat /\ at >= 1 /\ \A t \in DOMAIN outbox : t \in Nat /\ t < at
    BY <1>3, RowNumbers DEF AppendsInOrder
  <2>2. /\ DOMAIN outbox' = DOMAIN outbox \cup {at}
        /\ \A t \in DOMAIN outbox : t # at => outbox'[t] = outbox[t]
        /\ outbox'[at].status = "pending"
    BY <1>3, InsertedRow DEF OutboxInv
  <2> HIDE DEF at
  <2>3. ASSUME NEW h \in Nat, h <= at, DoneBefore(outbox, h) PROVE DoneBefore(outbox', h)
    <3>1. ~(at < h)
      BY <2>1, <2>3
    <3>2. ASSUME NEW t \in DOMAIN outbox
          PROVE  outbox'[t].status = IF t < h THEN "projected" ELSE "pending"
      <4>1. t # at
        BY <2>1
      <4> QED BY <2>2, <2>3, <4>1 DEF DoneBefore
    <3> QED BY <2>2, <3>1, <3>2 DEF DoneBefore
  <2>4. ASSUME NEW k_1 \in 0..MaxEvents, k_1 < at
        PROVE  Replays(outbox')[k_1] = Replays(outbox)[k_1]
    <3>1. \A i \in 1..k_1 : i # at
      BY <2>1, <2>4
    <3> QED BY <2>2, <3>1, SameEvents
  <2>5. CASE proc[p].pc = "list"
    <3>1. PICK n \in {0} \cup DOMAIN outbox :
             DoneBefore(outbox, n + 1) /\ graph = Replays(outbox)[n]
      BY <2>5 DEF Rebuilt
    <3>2. n \in 0..MaxEvents /\ n < at /\ n + 1 \in Nat /\ n + 1 <= at
      BY <2>1, RowNumbers
    <3>3. DoneBefore(outbox', n + 1) /\ graph' = Replays(outbox')[n]
      BY <1>1, <2>3, <2>4, <3>1, <3>2
    <3>4. n \in {0} \cup DOMAIN outbox'
      BY <2>2
    <3> QED BY <1>1, <2>5, <3>3, <3>4 DEF Rebuilt
  <2>6. CASE proc[p].pc \in {"apply", "mark"} /\ ~proc[p].failed
    <3> DEFINE b == proc[p].batch
               n == IF proc[p].pc = "mark" THEN Head(b) ELSE Head(b) - 1
    <3>1. InLine(outbox, b) /\ DoneBefore(outbox, Head(b)) /\ graph = Replays(outbox)[n]
      BY <2>6 DEF Rebuilt
    <3>2. /\ Head(b) \in DOMAIN outbox /\ Head(b) \in 1..MaxEvents /\ Head(b) = b[1]
          /\ b[Len(b)] \in DOMAIN outbox
      BY <2>6, AtHead DEF AtEvent
    <3>3. Head(b) \in Nat /\ Head(b) < at /\ Head(b) <= at /\ n \in 0..MaxEvents /\ n < at
      BY <2>1, <3>2, RowNumbers
    <3> HIDE DEF n
    <3>4. graph' = Replays(outbox')[n]
      BY <1>1, <2>4, <3>1, <3>3
    <3>5. DoneBefore(outbox', Head(b))
      BY <1>1, <2>3, <3>1, <3>3
    <3>6. ASSUME NEW t \in DOMAIN outbox', b[1] <= t, t <= b[Len(b)] PROVE t \in Range(b)
      <4>1. b[Len(b)] \in Nat /\ b[Len(b)] < at
        BY <2>1, <3>2
      <4>2. t # at
        BY <2>1, <3>6, <4>1
      <4> QED BY <2>2, <3>1, <3>6, <4>2 DEF InLine
    <3>7. InLine(outbox', b)
      BY <1>1, <3>1, <3>6 DEF InLine
    <3> QED BY <1>1, <2>6, <3>4, <3>5, <3>7 DEF Rebuilt, n
  <2> QED BY <1>1, <2>5, <2>6 DEF Rebuilt
<1> QED BY <1>2, <1>3, CallerSteps

\* A batch is the first of the pending events, and leaves none of them out.
LEMMA ListedInLine ==
  ASSUME OutboxInv, Ordered(outbox), Having("pending") # {}
  PROVE  LET b == FirstOf(Having("pending"))
         IN  /\ b # <<>> /\ b \in Seq(1..MaxEvents) /\ Range(b) \subseteq DOMAIN outbox
             /\ InLine(outbox, b) /\ Head(b) \in DOMAIN outbox
             /\ PendingFrom(outbox, Head(b))
<1> DEFINE S == Having("pending")
           b == FirstOf(S)
<1>1. S \in SUBSET (1..MaxEvents) /\ S \subseteq DOMAIN outbox
  BY RowNumbers DEF Having
<1>2. \A t \in DOMAIN outbox : t \in Nat /\ (t \in S <=> outbox[t].status = "pending")
  BY RowNumbers DEF Having
<1> HIDE DEF S
<1>3. /\ b \in Seq(S) /\ b # <<>>
      /\ \A i, j \in DOMAIN b : i < j => b[i] < b[j]
      /\ \A t \in S : t \in Range(b) \/ b[Len(b)] < t
      /\ \A t \in S : b[1] <= t
  BY <1>1, FirstOfFacts DEF S
<1> HIDE DEF b
<1>4. /\ Len(b) \in Nat /\ Len(b) >= 1 /\ DOMAIN b = 1..Len(b) /\ b \in [1..Len(b) -> S]
      /\ Head(b) = b[1]
  BY <1>3, TailOf
<1>5. b[1] \in S /\ b[Len(b)] \in S
  BY <1>4
<1>6. Range(b) \subseteq DOMAIN outbox /\ b \in Seq(1..MaxEvents)
  BY <1>1, <1>3, WiderSeq
<1>7. b[1] \in DOMAIN outbox /\ b[1] \in Nat /\ b[Len(b)] \in Nat
  BY <1>1, <1>2, <1>5
<1>8. PendingFrom(outbox, b[1])
  <2>1. ASSUME NEW t \in DOMAIN outbox, b[1] <= t PROVE outbox[t].status = "pending"
    <3>1. t = b[1] \/ b[1] < t
      BY <1>2, <1>7, <2>1
    <3> QED BY <1>2, <1>5, <1>7, <3>1 DEF Ordered
  <2> QED BY <1>2, <1>3, <2>1 DEF PendingFrom
<1>9. InLine(outbox, b)
  <2>1. ASSUME NEW t \in DOMAIN outbox, b[1] <= t, t <= b[Len(b)] PROVE t \in Range(b)
    <3>1. t \in S
      BY <1>2, <1>8, <2>1 DEF PendingFrom
    <3>2. ~(b[Len(b)] < t)
      BY <1>2, <1>7, <2>1
    <3> QED BY <1>3, <3>1, <3>2
  <2> QED BY <1>3, <2>1 DEF InLine
<1> QED BY <1>3, <1>4, <1>6, <1>7, <1>8, <1>9 DEF b, S

\* The rest of a batch is a batch, and the next event comes after its head.
LEMMA NextInLine ==
  ASSUME NEW box, DOMAIN box \subseteq 1..MaxEvents, NEW b \in Seq(1..MaxEvents),
         Range(b) \subseteq DOMAIN box, InLine(box, b), b # <<>>, Tail(b) # <<>>
  PROVE  LET rest == Tail(b)
         IN  /\ InLine(box, rest) /\ Head(rest) \in DOMAIN box /\ Head(b) \in DOMAIN box
             /\ Head(b) < Head(rest)
             /\ \A t \in DOMAIN box : Head(b) < t <=> Head(rest) <= t
<1> DEFINE rest == Tail(b)
           h == Head(b)
<1>1. \A t \in DOMAIN box : t \in Nat
  BY OutboxAssumption
<1>2. /\ rest \in Seq(1..MaxEvents) /\ Len(b) \in Nat /\ Len(b) >= 1 /\ Len(b) # 1
      /\ Len(rest) = Len(b) - 1 /\ DOMAIN b = 1..Len(b) /\ h = b[1]
      /\ DOMAIN rest = 1..(Len(b) - 1) /\ \A i \in 1..(Len(b) - 1) : rest[i] = b[i + 1]
      /\ Head(rest) = rest[1]
  BY TailOf
<1>3. \A i \in DOMAIN b : b[i] \in DOMAIN box
  BY DEF Range
<1> HIDE DEF rest, h
<1>4. /\ 1 \in 1..(Len(b) - 1) /\ 1 \in DOMAIN b /\ 2 \in DOMAIN b /\ Len(b) \in DOMAIN b
      /\ Len(b) - 1 \in 1..(Len(b) - 1) /\ (Len(b) - 1) + 1 = Len(b) /\ 1 + 1 = 2
      /\ (Len(b) = 2 \/ 2 < Len(b))
  BY <1>2
<1>5. rest[1] = b[2] /\ rest[Len(rest)] = b[Len(b)] /\ Head(rest) = b[2]
  BY <1>2, <1>4
<1>6. /\ b[2] \in DOMAIN box /\ b[Len(b)] \in DOMAIN box /\ h \in DOMAIN box /\ h < b[2]
  BY <1>2, <1>3, <1>4 DEF InLine
<1>7. h \in Nat /\ b[2] \in Nat /\ b[Len(b)] \in Nat /\ b[2] <= b[Len(b)]
  <2>1. h \in Nat /\ b[2] \in Nat /\ b[Len(b)] \in Nat
    BY <1>1, <1>6
  <2>2. b[2] = b[Len(b)] \/ b[2] < b[Len(b)]
    BY <1>4 DEF InLine
  <2> QED BY <2>1, <2>2
<1>8. ASSUME NEW t \in DOMAIN box, h < t, t <= b[Len(b)]
      PROVE  \E i \in 1..(Len(b) - 1) : t = rest[i]
  <2>1. b[1] <= t /\ t <= b[Len(b)]
    BY <1>1, <1>2, <1>7, <1>8
  <2>2. t \in Range(b)
    BY <2>1 DEF InLine
  <2>3. PICK j \in DOMAIN b : t = b[j]
    BY <2>2 DEF Range
  <2>4. j # 1
    BY <1>2, <1>7, <1>8, <2>3
  <2>5. j - 1 \in 1..(Len(b) - 1) /\ (j - 1) + 1 = j
    BY <1>2, <2>4
  <2> QED BY <1>2, <2>3, <2>5
<1>9. ASSUME NEW i \in DOMAIN rest, NEW j \in DOMAIN rest, i < j
      PROVE  rest[i] < rest[j]
  <2>1. i + 1 \in DOMAIN b /\ j + 1 \in DOMAIN b /\ i + 1 < j + 1
    BY <1>2, <1>9
  <2>2. rest[i] = b[i + 1] /\ rest[j] = b[j + 1]
    BY <1>2, <1>9
  <2> QED BY <2>1, <2>2 DEF InLine
<1>10. ASSUME NEW t \in DOMAIN box, rest[1] <= t, t <= rest[Len(rest)]
       PROVE  t \in Range(rest)
  <2>1. h < t /\ t <= b[Len(b)]
    BY <1>1, <1>5, <1>6, <1>7, <1>10
  <2> QED BY <1>2, <1>8, <2>1 DEF Range
<1>11. InLine(box, rest)
  BY <1>9, <1>10 DEF InLine
<1>12. ASSUME NEW t \in DOMAIN box, h < t PROVE b[2] <= t
  <2>1. SUFFICES ASSUME t < b[2] PROVE FALSE
    BY <1>1, <1>7
  <2>2. t <= b[Len(b)]
    BY <1>1, <1>7, <2>1
  <2>3. PICK i \in 1..(Len(b) - 1) : t = rest[i]
    BY <1>8, <1>12, <2>2
  <2>4. i = 1 \/ 1 < i
    BY <1>2
  <2>5. i = 1 \/ rest[1] < rest[i]
    BY <1>2, <1>4, <1>9, <2>4
  <2> QED BY <1>1, <1>5, <1>7, <2>1, <2>3, <2>5
<1>13. \A t \in DOMAIN box : h < t <=> b[2] <= t
  BY <1>1, <1>6, <1>7, <1>12
<1> QED BY <1>5, <1>6, <1>11, <1>13 DEF rest, h

\* A batch is listed when everything before it has been projected.
LEMMA ListedBatch ==
  ASSUME OutboxInv, NEW n \in {0} \cup DOMAIN outbox, DoneBefore(outbox, n + 1),
         graph = Replays(outbox)[n], Having("pending") # {}
  PROVE  LET b == FirstOf(Having("pending"))
         IN  b # <<>> /\ InLine(outbox, b) /\ DoneBefore(outbox, Head(b))
             /\ graph = Replays(outbox)[Head(b) - 1]
<1> DEFINE b == FirstOf(Having("pending"))
<1>1. MaxEvents \in Nat /\ n \in 0..MaxEvents /\ \A t \in DOMAIN outbox : t \in 1..MaxEvents
  BY RowNumbers
<1>2. \A t \in DOMAIN outbox : outbox[t].status = IF t <= n THEN "projected" ELSE "pending"
  BY <1>1 DEF DoneBefore
<1>3. Ordered(outbox)
  BY <1>1, <1>2 DEF Ordered
<1>4. b # <<>> /\ InLine(outbox, b) /\ Head(b) \in DOMAIN outbox /\ PendingFrom(outbox, Head(b))
  BY <1>3, ListedInLine
<1> HIDE DEF b
<1>5. \A t \in DOMAIN outbox : Head(b) <= t <=> n < t
  BY <1>1, <1>2, <1>4 DEF PendingFrom
<1>6. Head(b) \in 1..MaxEvents /\ n < Head(b) /\ \A t \in DOMAIN outbox : t <= n <=> t < Head(b)
  BY <1>1, <1>4, <1>5
<1>7. DoneBefore(outbox, Head(b))
  BY <1>2, <1>6 DEF DoneBefore
<1>8. Replays(outbox)[Head(b) - 1] = Replays(outbox)[n]
  <2>1. n \in 0..MaxEvents /\ Head(b) - 1 \in n..MaxEvents
    BY <1>1, <1>6
  <2>2. \A t \in DOMAIN outbox : t \in Nat => ~(n < t /\ t <= Head(b) - 1)
    BY <1>1, <1>6
  <2> QED BY <2>1, <2>2, NoEvents
<1> QED BY <1>4, <1>7, <1>8 DEF b

\* An event is marked: either the next one of the batch is in line, or the
\* batch has ended.
LEMMA MarkedNext ==
  ASSUME OutboxInv, NEW p \in Projectors, proc[p].pc = "mark",
         InLine(outbox, proc[p].batch), DoneBefore(outbox, Head(proc[p].batch)),
         graph = Replays(outbox)[Head(proc[p].batch)], UNCHANGED graph,
         outbox' = Marked({Head(proc[p].batch)}, "projected")
  PROVE  LET b == proc[p].batch
             rest == Tail(b)
         IN  /\ DoneBefore(outbox', Head(b) + 1) /\ Head(b) \in DOMAIN outbox'
             /\ graph' = Replays(outbox')[Head(b)]
             /\ rest # <<>> =>
                  /\ InLine(outbox', rest) /\ DoneBefore(outbox', Head(rest))
                  /\ graph' = Replays(outbox')[Head(rest) - 1]
<1> DEFINE b == proc[p].batch
           h == Head(b)
           rest == Tail(b)
<1>1. /\ b \in Seq(1..MaxEvents) /\ b # <<>> /\ h = b[1] /\ h \in DOMAIN outbox
      /\ h \in 1..MaxEvents /\ \A i \in DOMAIN b : b[i] \in DOMAIN outbox
      /\ DOMAIN b = 1..Len(b) /\ Len(b) \in Nat /\ Len(b) >= 1
  BY AtHead DEF AtEvent
<1>2. InLine(outbox, b) /\ DoneBefore(outbox, h) /\ graph = Replays(outbox)[h]
  OBVIOUS
<1>3. "projected" \in Statuses
  BY DEF Statuses
<1>4. /\ DOMAIN outbox' = DOMAIN outbox
      /\ \A t \in DOMAIN outbox :
           /\ outbox'[t].event = outbox[t].event
           /\ outbox'[t].status = IF t = h THEN "projected" ELSE outbox[t].status
  <2>1. outbox' = Marked({h}, "projected") /\ Tables
    BY DEF OutboxInv
  <2>2. /\ DOMAIN outbox' = DOMAIN outbox
        /\ \A t \in DOMAIN outbox :
             /\ outbox'[t].event = outbox[t].event
             /\ outbox'[t].status = IF t \in {h} THEN "projected" ELSE outbox[t].status
    BY <1>3, <2>1, MarkedRows
  <2> QED BY <2>2
<1> HIDE DEF b, h
<1>5. \A t \in DOMAIN outbox : t \in Nat /\ t \in 1..MaxEvents
  BY RowNumbers
<1>6. h \in Nat /\ h + 1 \in Nat
  BY <1>1
<1>7. \A t \in DOMAIN outbox' :
        outbox'[t].status = IF t < h + 1 THEN "projected" ELSE "pending"
  <2>1. ASSUME NEW t \in DOMAIN outbox
        PROVE  outbox'[t].status = IF t < h + 1 THEN "projected" ELSE "pending"
    <3>1. CASE t = h
      <4>1. t < h + 1
        BY <1>6, <3>1
      <4> QED BY <1>4, <3>1, <4>1
    <3>2. CASE t # h
      <4>1. t < h + 1 <=> t < h
        BY <1>5, <1>6, <3>2
      <4> QED BY <1>2, <1>4, <3>2, <4>1 DEF DoneBefore
    <3> QED BY <3>1, <3>2
  <2> QED BY <1>4, <2>1
<1>8. \A n \in 0..MaxEvents : Replays(outbox')[n] = Replays(outbox)[n]
  <2>1. ASSUME NEW n \in 0..MaxEvents, NEW i \in 1..n
        PROVE  /\ i \in DOMAIN outbox <=> i \in DOMAIN outbox'
               /\ i \in DOMAIN outbox => outbox[i].event = outbox'[i].event
    BY <1>4
  <2> QED BY <2>1, SameEvents
<1>9. graph' = Replays(outbox')[h]
  <2>1. h \in 0..MaxEvents
    BY <1>1
  <2>2. Replays(outbox')[h] = Replays(outbox)[h]
    BY <1>8, <2>1, Zenon
  <2>3. graph' = graph
    OBVIOUS
  <2> QED BY <1>2, <2>2, <2>3, Zenon
<1>10. ASSUME rest # <<>>
       PROVE  /\ InLine(outbox', rest) /\ DoneBefore(outbox', Head(rest))
              /\ graph' = Replays(outbox')[Head(rest) - 1]
  <2>1. DOMAIN outbox \subseteq 1..MaxEvents /\ Range(b) \subseteq DOMAIN outbox
    BY <1>1, <1>5 DEF Range
  <2>2. /\ InLine(outbox, rest) /\ Head(rest) \in DOMAIN outbox /\ h < Head(rest)
        /\ \A t \in DOMAIN outbox : h < t <=> Head(rest) <= t
    BY <1>1, <1>2, <1>10, <2>1, NextInLine DEF h
  <2> HIDE DEF rest
  <2>3. InLine(outbox', rest)
    BY <1>4, <2>2 DEF InLine
  <2>4. \A t \in DOMAIN outbox : t < h + 1 <=> t < Head(rest)
    BY <1>5, <1>6, <2>2
  <2>5. DoneBefore(outbox', Head(rest))
    BY <1>4, <1>7, <2>4 DEF DoneBefore
  <2>6. Replays(outbox')[Head(rest) - 1] = Replays(outbox')[h]
    <3>1. h \in 0..MaxEvents /\ Head(rest) - 1 \in h..MaxEvents
      <4>1. Head(rest) \in 1..MaxEvents /\ MaxEvents \in Nat
        BY <1>5, <2>2, RowNumbers
      <4> QED BY <1>1, <1>6, <2>2, <4>1
    <3>2. \A t \in DOMAIN outbox' : t \in Nat => ~(h < t /\ t <= Head(rest) - 1)
      BY <1>4, <1>5, <1>6, <2>2
    <3> QED BY <3>1, <3>2, NoEvents
  <2> QED BY <1>9, <2>3, <2>5, <2>6
<1> QED BY <1>1, <1>4, <1>7, <1>9, <1>10 DEF b, h, DoneBefore

\* The steps of the shell that rebuilds.
LEMMA RebuildGoesOn ==
  ASSUME OutboxInv, NEW p \in Projectors, ProjectorStep(p),
         Rebuilding(p) => Rebuilt(proc[p]), Rebuilding(p)'
  PROVE  Rebuilt(proc[p])'
<1>1. /\ proc[p] \in ProcType /\ proc' \in [Projectors -> ProcType]
      /\ DOMAIN proc = Projectors /\ OutboxInv'
      /\ proc'[p].cmd = "rebuild_clear" /\ proc'[p].pc # "idle"
  BY ProjectorKeeps DEF OutboxInv, Batches, Rebuilding
<1>2. CASE ClearProjection(p)
  <2>1. /\ proc[p].pc = "clear" /\ proc'[p] = [proc[p] EXCEPT !.pc = "reset"]
        /\ graph' = EmptyGraph
    BY <1>1, <1>2 DEF ClearProjection
  <2>2. /\ proc'[p].pc = "reset" /\ proc'[p].batch = proc[p].batch
        /\ proc'[p].failed = proc[p].failed /\ proc'[p].cmd = proc[p].cmd
    BY <1>1, <2>1 DEF ProcType
  <2>3. Rebuilt(proc[p])
    BY <1>1, <2>1, <2>2 DEF Rebuilding
  <2> QED BY <2>1, <2>2, <2>3 DEF Rebuilt
<1>3. CASE ChooseFailed(p)
  <2>1. proc[p].pc = "choose" /\ proc'[p].cmd = proc[p].cmd
    BY <1>1, <1>3 DEF ChooseFailed, ProcType
  <2> QED BY <1>1, <2>1 DEF Rebuilding, Rebuilt
<1>4. CASE ResetForReplay(p)
  <2>1. proc[p].pc = "reset"
    BY <1>4 DEF ResetForReplay
  <2>2. /\ proc[p].cmd = "rebuild_clear" /\ proc[p].batch = <<>>
        /\ ~proc[p].failed /\ graph = EmptyGraph
    <3>1. proc[p].cmd = proc'[p].cmd
      BY <1>1, <1>4 DEF ResetForReplay, ProcType, Idle
    <3> QED BY <1>1, <2>1, <3>1 DEF Rebuilding, Rebuilt
  <2>3. /\ outbox' = Marked(DOMAIN outbox, "pending") /\ UNCHANGED graph
        /\ proc'[p] = [proc[p] EXCEPT !.pc = "list", !.batch = <<>>]
    <3>1. Range(<<>>) = {}
      BY DEF Range
    <3> QED BY <1>1, <1>4, <2>2, <3>1 DEF ResetForReplay
  <2>4. proc'[p].pc = "list" /\ proc'[p].failed = proc[p].failed
    BY <1>1, <2>3 DEF ProcType
  <2>5. "pending" \in Statuses /\ Tables
    BY DEF Statuses, OutboxInv
  <2>6. /\ DOMAIN outbox' = DOMAIN outbox
        /\ \A t \in DOMAIN outbox : outbox'[t].status = "pending"
    BY <2>3, <2>5, MarkedRows
  <2>7. DoneBefore(outbox', 0 + 1)
    BY <2>6, RowNumbers DEF DoneBefore
  <2>8. graph' = Replays(outbox')[0]
    BY <2>2, <2>3, ReplaysDef
  <2> QED BY <2>2, <2>4, <2>7, <2>8 DEF Rebuilt
<1>5. CASE ListPending(p)
  <2> DEFINE b == FirstOf(Having("pending"))
  <2>1. proc[p].pc = "list" /\ UNCHANGED <<outbox, graph>>
    BY <1>5 DEF ListPending
  <2>2. b # <<>> /\ proc'[p] = [proc[p] EXCEPT !.pc = "apply", !.batch = b]
    BY <1>1, <1>5 DEF ListPending, Idle
  <2> HIDE DEF b
  <2>3. /\ proc'[p].pc = "apply" /\ proc'[p].batch = b
        /\ proc'[p].failed = proc[p].failed /\ proc'[p].cmd = proc[p].cmd
    BY <1>1, <2>2 DEF ProcType
  <2>4. Rebuilt(proc[p])
    BY <1>1, <2>1, <2>3 DEF Rebuilding
  <2>5. PICK n \in {0} \cup DOMAIN outbox :
          DoneBefore(outbox, n + 1) /\ graph = Replays(outbox)[n]
    BY <2>1, <2>4 DEF Rebuilt
  <2>6. Having("pending") # {}
    <3>1. Having("pending") \in SUBSET (1..MaxEvents)
      BY RowNumbers DEF Having
    <3> QED BY <2>2, <3>1, FirstOfFacts DEF b
  <2>7. InLine(outbox, b) /\ DoneBefore(outbox, Head(b)) /\ graph = Replays(outbox)[Head(b) - 1]
    BY <2>5, <2>6, ListedBatch DEF b
  <2> QED BY <2>1, <2>3, <2>7 DEF Rebuilt
<1>6. CASE ApplyEvent(p)
  <2>1. /\ proc[p].pc = "apply" /\ proc'[p] = [proc[p] EXCEPT !.pc = "mark"]
        /\ UNCHANGED outbox
    BY <1>1, <1>6 DEF ApplyEvent
  <2>2. /\ proc'[p].pc = "mark" /\ proc'[p].batch = proc[p].batch
        /\ proc'[p].failed = proc[p].failed /\ proc'[p].cmd = proc[p].cmd
    BY <1>1, <2>1 DEF ProcType
  <2>3. Rebuilt(proc[p])
    BY <1>1, <2>1, <2>2 DEF Rebuilding
  <2> DEFINE h == Head(proc[p].batch)
  <2>4. graph' = Project(graph, outbox[h].event)
    BY <1>1, <1>6, <2>2 DEF ApplyEvent
  <2>5. h \in DOMAIN outbox /\ h \in 1..MaxEvents
    BY <2>1, AtHead DEF AtEvent
  <2>6. ASSUME ~proc[p].failed PROVE graph' = Replays(outbox)[h]
    <3>1. graph = Replays(outbox)[h - 1]
      BY <2>1, <2>3, <2>6 DEF Rebuilt
    <3> QED BY <2>4, <2>5, <3>1, ReplaysDef
  <2>7. ~proc[p].failed => InLine(outbox, proc[p].batch) /\ DoneBefore(outbox, h)
    BY <2>1, <2>3 DEF Rebuilt
  <2> QED BY <2>1, <2>2, <2>6, <2>7 DEF Rebuilt
<1>7. CASE FailEvent(p)
  <2>1. proc'[p].pc = "fail"
    BY <1>1, <1>7 DEF FailEvent, ProcType
  <2> QED BY <2>1 DEF Rebuilt
<1>8. ASSUME NEW f \in BOOLEAN, proc'[p] = Advanced(proc[p], f), proc[p].pc \in AtEvent,
             f \/ /\ ~proc[p].failed /\ Rebuilt(proc[p]) /\ proc[p].pc = "mark"
                  /\ outbox' = Marked({Head(proc[p].batch)}, "projected") /\ UNCHANGED graph
      PROVE  Rebuilt(proc[p])'
  <2> DEFINE b == proc[p].batch
  <2>1. b \in Seq(1..MaxEvents) /\ b # <<>> /\ Head(b) \in DOMAIN outbox
    BY <1>8, AtHead
  <2>3. CASE Tail(b) # <<>>
    <3>1. proc'[p] = [proc[p] EXCEPT !.pc = "apply", !.batch = Tail(b), !.failed = f]
      BY <1>8, <2>3 DEF Advanced
    <3>2. proc'[p].pc = "apply" /\ proc'[p].batch = Tail(b) /\ (proc'[p].failed <=> f)
      BY <1>1, <3>1 DEF ProcType
    <3>3. CASE f
      BY <3>2, <3>3 DEF Rebuilt
    <3>4. CASE ~f
      <4>1. InLine(outbox, b) /\ DoneBefore(outbox, Head(b)) /\ graph = Replays(outbox)[Head(b)]
        BY <1>8, <3>4 DEF Rebuilt
      <4>2. InLine(outbox', Tail(b)) /\ DoneBefore(outbox', Head(Tail(b)))
            /\ graph' = Replays(outbox')[Head(Tail(b)) - 1]
        BY <1>8, <2>3, <3>4, <4>1, MarkedNext
      <4> HIDE DEF b
      <4> QED BY <3>2, <4>2 DEF Rebuilt
    <3> QED BY <3>3, <3>4
  <2>4. CASE Tail(b) = <<>>
    <3>1. ~f /\ proc'[p] = [proc[p] EXCEPT !.pc = "list", !.batch = <<>>]
      BY <1>1, <1>8, <2>4, IdleRow DEF Advanced
    <3>2. proc'[p].pc = "list" /\ proc'[p].failed = proc[p].failed
      BY <1>1, <3>1 DEF ProcType
    <3>3. InLine(outbox, b) /\ DoneBefore(outbox, Head(b)) /\ graph = Replays(outbox)[Head(b)]
      BY <1>8, <3>1 DEF Rebuilt
    <3>4. DoneBefore(outbox', Head(b) + 1) /\ Head(b) \in DOMAIN outbox'
          /\ graph' = Replays(outbox')[Head(b)]
      BY <1>8, <3>1, <3>3, MarkedNext
    <3> HIDE DEF b
    <3> QED BY <1>8, <3>1, <3>2, <3>4 DEF Rebuilt
  <2> QED BY <2>3, <2>4
<1>9. CASE MarkProjected(p)
  <2>1. /\ proc[p].pc = "mark" /\ proc'[p] = Advanced(proc[p], proc[p].failed)
        /\ outbox' = Marked({Head(proc[p].batch)}, "projected") /\ UNCHANGED graph
        /\ proc[p].failed \in BOOLEAN
    BY <1>1, <1>9 DEF MarkProjected, ProcType
  <2>2. proc'[p].cmd = proc[p].cmd
    <3>1. proc'[p] # Idle
      BY <1>1, IdleRow
    <3> QED BY <1>1, <2>1, <3>1 DEF Advanced, ProcType
  <2>3. Rebuilt(proc[p])
    BY <1>1, <2>1, <2>2 DEF Rebuilding
  <2> QED BY <1>8, <2>1, <2>3 DEF AtEvent
<1>10. CASE MarkFailed(p)
  <2>1. proc[p].pc = "fail" /\ proc'[p] = Advanced(proc[p], TRUE)
    BY <1>1, <1>10 DEF MarkFailed
  <2> QED BY <1>8, <2>1 DEF AtEvent
<1>11. CASE CrashProjector(p)
  <2>1. proc'[p] = Idle
    BY <1>1, <1>11 DEF CrashProjector
  <2> QED BY <1>1, <2>1, IdleRow
<1>12. CASE p \in Shells /\ \E cmd \in Commands : StartCommand(p, cmd)
  <2>1. PICK cmd \in Commands : proc'[p] = [Idle EXCEPT !.cmd = cmd, !.pc = FirstStep(cmd)]
    BY <1>1, <1>12 DEF StartCommand
  <2>2. proc'[p].cmd = cmd /\ proc'[p].pc = FirstStep(cmd) /\ proc'[p].batch = <<>>
        /\ proc'[p].failed = FALSE
    BY <2>1 DEF Idle
  <2>3. proc'[p].pc = "clear"
    BY <1>1, <2>2 DEF FirstStep
  <2> QED BY <2>2, <2>3 DEF Rebuilt
<1>13. CASE p \in Loops /\ StartIteration(p)
  <2>1. proc'[p].cmd = "loop"
    BY <1>1, <1>13 DEF StartIteration, Idle
  <2> QED BY <1>1, <2>1
<1> QED BY <1>2, <1>3, <1>4, <1>5, <1>6, <1>7, <1>9, <1>10, <1>11, <1>12, <1>13
        DEF ProjectorStep, Advance

LEMMA RebuildInvStays ==
  ASSUME OutboxInv, RebuildInv, RebuildAlone, AppendsInOrder, [Next]_vars
  PROVE  RebuildInv'
<1> SUFFICES ASSUME NEW p \in Projectors, Rebuilding(p)' PROVE Rebuilt(proc[p])'
  BY DEF RebuildInv
<1>1. Rebuilding(p) => Rebuilt(proc[p])
  BY DEF RebuildInv
<1>2. ASSUME NEW c \in Callers, CallerStep(c) PROVE Rebuilt(proc[p])'
  <2>1. Rebuilding(p)
    BY <1>2, CallerSteps DEF Rebuilding
  <2> QED BY <1>1, <1>2, <2>1, CallersKeepRebuilt
<1>3. ASSUME NEW q \in Projectors, ProjectorStep(q) PROVE Rebuilt(proc[p])'
  <2>1. CASE q = p
    BY <1>1, <1>3, <2>1, RebuildGoesOn
  <2>2. CASE q # p
    <3>1. proc'[p] = proc[p]
      BY <1>3, <2>2, ProjectorKeeps
    <3>2. Rebuilding(p) /\ proc[q].pc = "idle"
      BY <2>2, <3>1 DEF Rebuilding, RebuildAlone
    <3>3. UNCHANGED <<outbox, graph>>
      BY <1>3, <3>2 DEF ProjectorStep, Advance, ClearProjection, ChooseFailed,
           ResetForReplay, ListPending, ApplyEvent, MarkProjected, MarkFailed,
           FailEvent, CrashProjector, StartCommand, StartIteration
    <3> QED BY <1>1, <3>1, <3>2, <3>3 DEF Rebuilt
  <2> QED BY <2>1, <2>2
<1>4. CASE UNCHANGED vars
  <2>1. UNCHANGED <<proc, outbox, graph>>
    BY <1>4 DEF vars
  <2>2. Rebuilding(p)
    BY <2>1 DEF Rebuilding
  <2> QED BY <1>1, <2>1, <2>2 DEF Rebuilt
<1> QED BY <1>2, <1>3, <1>4, Steps

\* A command that lists no more events has the graph of one whole pass.
LEMMA LastListing ==
  ASSUME OutboxInv, RebuildInv, NEW p \in Projectors, proc[p].cmd = "rebuild_clear",
         ListPending(p), Having("pending") = {}
  PROVE  graph = Replayed
<1>1. proc[p].pc = "list" /\ Rebuilt(proc[p])
  BY DEF ListPending, RebuildInv, Rebuilding
<1>2. PICK n \in {0} \cup DOMAIN outbox :
        DoneBefore(outbox, n + 1) /\ graph = Replays(outbox)[n]
  BY <1>1 DEF Rebuilt
<1>3. n \in 0..MaxEvents /\ stamps \in n..MaxEvents
  BY RowNumbers
<1>4. \A t \in DOMAIN outbox : t \in Nat => ~(n < t /\ t <= stamps)
  <2>1. ASSUME NEW t \in DOMAIN outbox, t \in Nat, n < t PROVE FALSE
    <3>1. outbox[t].status = "pending"
      BY <1>2, <1>3, <2>1 DEF DoneBefore
    <3> QED BY <3>1 DEF Having
  <2> QED BY <2>1
<1> QED BY <1>2, <1>3, <1>4, NoEvents DEF Replayed

\* A rebuild with --clear that lists no more events and had no failure has
\* built exactly the graph of one pass over the outbox, for any batch size,
\* whatever the graph held, whatever crashed and whatever was appended while
\* it ran, as long as no other projector works meanwhile and no insert is
\* overtaken by a later one (rebuild.py:68, projection_loop.py).
THEOREM RebuildsAreExact ==
  Spec /\ []RebuildAlone /\ []AppendsInOrder => RebuildIsExact
<1>1. Init => RebuildInv
  <2> SUFFICES ASSUME Init PROVE RebuildInv
    OBVIOUS
  <2>1. \A p \in Projectors : proc[p] = Idle
    BY DEF Init
  <2> QED BY <2>1, IdleRow DEF RebuildInv, Rebuilding
<1>2. OutboxInv /\ RebuildInv /\ RebuildAlone /\ AppendsInOrder /\ [Next]_vars => RebuildInv'
  BY RebuildInvStays
<1>3. OutboxInv /\ RebuildInv
        => [\A p \in Shells :
              proc[p].cmd = "rebuild_clear" /\ ListPending(p) /\ Having("pending") = {}
                => graph = Replayed]_vars
  BY LastListing DEF Projectors
<1> QED BY <1>1, <1>2, <1>3, OutboxInvHolds, PTL DEF Spec, RebuildIsExact

\* A request that goes on leaves no insert of an earlier stamp behind it.
LEMMA OneRequestInOrder ==
  ASSUME \A c, d \in Callers : c = d, OutboxInv, AppendsInOrder, [Next]_vars
  PROVE  AppendsInOrder'
<1> SUFFICES ASSUME NEW c \in Callers, todo'[c] # <<>>, Head(todo'[c]).do = "append"
             PROVE  \A t \in DOMAIN outbox' : t < stamp'[c]
  BY DEF AppendsInOrder
<1>1. /\ stamp \in [Callers -> 0..stamps] /\ DOMAIN todo = Callers
      /\ stamps \in Nat /\ MaxEvents \in Nat /\ DOMAIN outbox \subseteq 1..stamps
  BY RowNumbers DEF OutboxInv, Stamped, Tables
<1>2. CASE CallerStep(c)
  <2>1. DOMAIN outbox' \subseteq 1..stamps
    <3>1. \/ UNCHANGED outbox
          \/ stamp[c] \in 1..stamps /\ \E e, k : Inserted(stamp[c], e, k)
      BY <1>2, CallerSteps
    <3>2. CASE UNCHANGED outbox
      BY <1>1, <3>2
    <3>3. ASSUME NEW e, NEW k, stamp[c] \in 1..stamps, Inserted(stamp[c], e, k)
          PROVE  DOMAIN outbox' = DOMAIN outbox \cup {stamp[c]}
      BY <3>3 DEF Inserted
    <3> QED BY <1>1, <3>1, <3>2, <3>3
  <2>2. PICK steps : Continue(c, steps)
    <3>1. ~CrashCaller(c)
      BY <1>1 DEF CrashCaller
    <3> QED BY <1>2, <3>1, RequestBegins DEF CallerStep, WriteRow, AppendEvent, LoseAppend
  <2>3. todo'[c] = steps
    BY <1>1, <2>2 DEF Continue
  <2>4. stamp'[c] = stamps + 1
    BY <1>1, <2>2, <2>3 DEF Continue
  <2> QED BY <1>1, <2>1, <2>4
<1>3. ASSUME NEW p \in Projectors, ProjectorStep(p)
      PROVE  UNCHANGED <<todo, stamp>> /\ DOMAIN outbox' = DOMAIN outbox
  BY <1>3, ProjectorKeeps DEF ProjectorStep, Advance, ClearProjection, ChooseFailed,
     ResetForReplay, ListPending, ApplyEvent, MarkProjected, MarkFailed,
     FailEvent, CrashProjector, StartCommand, StartIteration, UnchangedCallers
<1>4. CASE UNCHANGED vars
  BY <1>4 DEF vars, AppendsInOrder
<1>5. (\E p \in Projectors : ProjectorStep(p)) => \A t \in DOMAIN outbox' : t < stamp'[c]
  BY <1>3 DEF AppendsInOrder
<1> QED BY <1>2, <1>4, <1>5, Steps

\* Where one request is served at a time and one process applies the events
\* (no loop beside the command), both hypotheses hold: every rebuild with
\* --clear that ends without a failure is exact (rebuild.py:68).
THEOREM LoneRebuildIsExact ==
  ASSUME \A c, d \in Callers : c = d, \A p, q \in Projectors : p = q
  PROVE  Spec => RebuildIsExact
<1>1. RebuildAlone
  BY DEF RebuildAlone
<1>2. Init => AppendsInOrder
  BY DEF Init, AppendsInOrder
<1>3. OutboxInv /\ AppendsInOrder /\ [Next]_vars => AppendsInOrder'
  BY OneRequestInOrder
<1>4. Spec => []AppendsInOrder
  BY <1>2, <1>3, OutboxInvHolds, PTL DEF Spec
<1> QED BY <1>1, <1>4, RebuildsAreExact, PTL

-----------------------------------------------------------------------------
(* What one event says of a node, whatever else the graph holds.           *)

EventLabels == {"ExecutionEvent", "ContainerEvent"}

\* The nodes no handler finds by following a relationship.
Anchored(x) == IsNode(x) /\ x.label \notin EventLabels \cup {"StepRun", "DocumentChunk"}

\* The relationships a deletion follows lead to the nodes it means to delete.
LeadsTo(x, labels) == IsNode(x.dst) /\ x.dst.label \in labels
WellTyped(x) ==
  /\ x.type = "HAS_STEP_RUN" /\ x.src.label = "WorkflowRun" => LeadsTo(x, {"StepRun"})
  /\ x.type = "EMITTED_EVENT" /\ x.src.label = "WorkflowRun" => LeadsTo(x, EventLabels)
  /\ x.type = "HAS_CHUNK" /\ x.src.label = "Document" => LeadsTo(x, {"DocumentChunk"})
TypedSet(S) == \A x \in S : IsNode(x) \/ WellTyped(x)

LEMMA ShapeOfNode ==
  ASSUME NEW l, NEW i
  PROVE  IsNode(Node(l, i)) /\ Node(l, i).label = l
BY DEF IsNode, Node

LEMMA KeyedAreRels ==
  ASSUME NEW type, NEW from, NEW to, NEW scope, NEW key
  PROVE  \A x \in Keyed(type, from, to, scope, key) :
           ~IsNode(x) /\ x.type = type /\ x.src \in from /\ x.dst \in to
BY DEF Keyed, KeyedRel, IsNode

LEMMA RelsAreRels ==
  ASSUME NEW type, NEW from, NEW to
  PROVE  \A x \in Rels(type, from, to) :
           ~IsNode(x) /\ x.type = type /\ x.src \in from /\ x.dst \in to
BY DEF Rels, Keyed, KeyedRel, IsNode

LEMMA NodesAreNodes ==
  ASSUME NEW l, NEW ids
  PROVE  \A x \in NodesOf(l, ids) : IsNode(x) /\ x.label = l
BY ShapeOfNode DEF NodesOf

LEMMA FoundAreRels ==
  ASSUME NEW g, NEW n, NEW types, NEW w
  PROVE  /\ OutOf(g, n, types) \subseteq RelsIn(g)
         /\ Into(g, n, types) \subseteq RelsIn(g)
         /\ Scoped(g, w, types) \subseteq RelsIn(g)
         /\ Incident(g, n) \subseteq RelsIn(g)
         /\ RelsIn(g) \subseteq DOMAIN g /\ \A x \in RelsIn(g) : ~IsNode(x)
BY DEF OutOf, Into, Scoped, Incident, RelsIn, NodesIn

LEMMA ScopedAreRels ==
  ASSUME NEW w, NEW refs
  PROVE  \A x \in ScopedRels(w, refs) :
           /\ ~IsNode(x) /\ x.type \in ScopedTypes /\ IsNode(x.src) /\ IsNode(x.dst)
BY DEF ScopedRels, KeyedRel, IsNode, Node, ScopedTypes

\* The handlers that read nothing in the graph.
LEMMA BlindHandlers ==
  ASSUME NEW g, NEW h, NEW e
  PROVE  /\ WorkflowRun(g, e) = WorkflowRun(h, e) /\ WorkflowRun(g, e).drop = {}
         /\ StepRun(g, e) = StepRun(h, e) /\ StepRun(g, e).drop = {}
         /\ Memory(g, e) = Memory(h, e) /\ Memory(g, e).drop = {}
         /\ MemoryEntities(g, e) = MemoryEntities(h, e) /\ MemoryEntities(g, e).drop = {}
         /\ MemoryGraphHints(g, e) = MemoryGraphHints(h, e)
         /\ MemoryGraphHints(g, e).drop = {}
         /\ Document(g, e) = Document(h, e) /\ Document(g, e).drop = {}
         /\ WorkflowMemoryLink(g, e) = WorkflowMemoryLink(h, e)
         /\ WorkflowMemoryLink(g, e).drop = {}
         /\ Persona(g, e) = Persona(h, e) /\ Persona(g, e).drop = {}
<1>1. WorkflowRun(g, e) = WorkflowRun(h, e) /\ WorkflowRun(g, e).drop = {}
  BY DEF WorkflowRun, NoEffect
<1>2. StepRun(g, e) = StepRun(h, e) /\ StepRun(g, e).drop = {}
  BY DEF StepRun, NoEffect
<1>3. Memory(g, e) = Memory(h, e) /\ Memory(g, e).drop = {}
  BY DEF Memory, NoEffect
<1>4. MemoryEntities(g, e) = MemoryEntities(h, e) /\ MemoryEntities(g, e).drop = {}
  BY DEF MemoryEntities, NoEffect
<1>5. MemoryGraphHints(g, e) = MemoryGraphHints(h, e) /\ MemoryGraphHints(g, e).drop = {}
  BY DEF MemoryGraphHints, NoEffect
<1>6. Document(g, e) = Document(h, e) /\ Document(g, e).drop = {}
  BY DEF Document, NoEffect
<1>7. WorkflowMemoryLink(g, e) = WorkflowMemoryLink(h, e)
      /\ WorkflowMemoryLink(g, e).drop = {}
  BY DEF WorkflowMemoryLink, NoEffect
<1>8. Persona(g, e) = Persona(h, e) /\ Persona(g, e).drop = {}
  BY DEF Persona, NoEffect
<1> QED BY <1>1, <1>2, <1>3, <1>4, <1>5, <1>6, <1>7, <1>8

\* Deletions that follow relationships bury the anchored nodes they name.
LEMMA WorkflowSays ==
  ASSUME NEW g, NEW e, NEW x, IsNode(x)
  PROVE  LET f == Workflow(g, e)
             w == Node("Workflow", e.id)
         IN  /\ x \notin f.drop /\ x \notin f.bury /\ x \notin f.touch
             /\ x \in f.raise <=>
                  x \in {w} \cup NodesOf("Tool", e.refs.tool)
                        \cup NodesOf("Agent", e.refs.agent)
                        \cup NodesOf("Task", e.refs.task)
                        \cup NodesOf("WorkflowVersion", e.refs.version)
                        \cup Ends(ScopedRels(e.id, e.refs))
<1>1. \A s \in ScopedRels(e.id, e.refs) : ~IsNode(s)
  BY ScopedAreRels
<1>2. /\ \A n, types : x \notin OutOf(g, n, types)
      /\ \A n, types : x \notin Scoped(g, n, types)
  BY FoundAreRels
<1>3. \A type, from, to : x \notin Rels(type, from, to)
  BY RelsAreRels
<1> QED BY <1>1, <1>2, <1>3 DEF Workflow

LEMMA WorkflowDeletedSays ==
  ASSUME NEW g, NEW e, NEW x, IsNode(x)
  PROVE  LET f == WorkflowDeleted(g, e)
         IN  /\ x \in f.bury <=> x = Node("Workflow", e.id)
             /\ f.drop = {} /\ f.raise = {} /\ f.touch = {}
<1>1. /\ \A n, types : x \notin OutOf(g, n, types)
      /\ \A n, types : x \notin Scoped(g, n, types)
  BY FoundAreRels
<1> QED BY <1>1 DEF WorkflowDeleted, NoEffect

LEMMA WorkflowRunDeletedSays ==
  ASSUME NEW g, TypedSet(DOMAIN g), NEW e, NEW x, Anchored(x)
  PROVE  LET f == WorkflowRunDeleted(g, e)
         IN  /\ x \in f.bury <=> x = Node("WorkflowRun", e.id)
             /\ f.drop = {} /\ f.raise = {} /\ f.touch = {}
<1> DEFINE r == Node("WorkflowRun", e.id)
<1>1. /\ \A n, types : x \notin OutOf(g, n, types)
      /\ \A n, types : x \notin Into(g, n, types)
  BY FoundAreRels DEF Anchored
<1>2. r.label = "WorkflowRun"
  BY ShapeOfNode
<1>3. ASSUME NEW y \in OutOf(g, r, {"HAS_STEP_RUN"}) PROVE x # y.dst
  <2>1. y \in DOMAIN g /\ ~IsNode(y) /\ y.src = r /\ y.type = "HAS_STEP_RUN"
    BY <1>3, FoundAreRels DEF OutOf
  <2> QED BY <1>2, <2>1 DEF TypedSet, WellTyped, LeadsTo, Anchored
<1>4. ASSUME NEW y \in OutOf(g, r, {"EMITTED_EVENT"}) PROVE x # y.dst
  <2>1. y \in DOMAIN g /\ ~IsNode(y) /\ y.src = r /\ y.type = "EMITTED_EVENT"
    BY <1>4, FoundAreRels DEF OutOf
  <2> QED BY <1>2, <2>1 DEF TypedSet, WellTyped, LeadsTo, Anchored
<1>5. x \in WorkflowRunDeleted(g, e).bury
        <=> \/ x = r
            \/ \E y \in OutOf(g, r, {"HAS_STEP_RUN"}) : x = y.dst
            \/ \E y \in OutOf(g, r, {"EMITTED_EVENT"}) : x = y.dst
  BY <1>1 DEF WorkflowRunDeleted, NoEffect
<1> QED BY <1>3, <1>4, <1>5 DEF WorkflowRunDeleted, NoEffect

LEMMA MemoryDeletedSays ==
  ASSUME NEW g, NEW e, NEW x, IsNode(x)
  PROVE  LET f == MemoryDeleted(g, e)
         IN  /\ x \in f.bury <=> x = Node("Memory", e.id)
             /\ f.drop = {} /\ f.raise = {} /\ f.touch = {}
<1>1. \A S : x \notin Incident(g, S)
  BY FoundAreRels
<1> QED BY <1>1 DEF MemoryDeleted, NoEffect

LEMMA DocumentDeletedSays ==
  ASSUME NEW g, TypedSet(DOMAIN g), NEW e, NEW x, Anchored(x)
  PROVE  LET f == DocumentDeleted(g, e)
         IN  /\ x \in f.bury <=> x \in {Node("Document", e.id)}
                                       \cup NodesOf("Memory", e.refs.memory)
             /\ f.drop = {} /\ f.raise = {} /\ f.touch = {}
<1> DEFINE d == Node("Document", e.id)
<1>1. \A S : x \notin Incident(g, S)
  BY FoundAreRels DEF Anchored
<1>2. d.label = "Document"
  BY ShapeOfNode
<1>3. ASSUME NEW y \in OutOf(g, d, {"HAS_CHUNK"}) PROVE x # y.dst
  <2>1. y \in DOMAIN g /\ ~IsNode(y) /\ y.src = d /\ y.type = "HAS_CHUNK"
    BY <1>3, FoundAreRels DEF OutOf
  <2> QED BY <1>2, <2>1 DEF TypedSet, WellTyped, LeadsTo, Anchored
<1> QED BY <1>1, <1>3 DEF DocumentDeleted, NoEffect

LEMMA LinkDeletedSays ==
  ASSUME NEW g, NEW e, NEW x, IsNode(x)
  PROVE  LET f == WorkflowMemoryLinkDeleted(g, e)
         IN  x \notin f.bury /\ f.drop = {} /\ f.raise = {} /\ f.touch = {}
BY FoundAreRels DEF WorkflowMemoryLinkDeleted, NoEffect

\* The neighbours an event finds only give it relationships.
LEMMA EventDetailSays ==
  ASSUME NEW e, NEW l, NEW x, IsNode(x)
  PROVE  \A g, h :
           /\ EventDetail(g, e, l).drop = {} /\ EventDetail(g, e, l).bury = {}
           /\ EventDetail(g, e, l).touch = EventDetail(h, e, l).touch
           /\ x \in EventDetail(g, e, l).raise <=> x \in EventDetail(h, e, l).raise
<1>1. \A type, from, to : x \notin Rels(type, from, to)
  BY RelsAreRels
<1>2. ASSUME NEW g, NEW h
      PROVE  x \in EventDetail(g, e, l).raise <=> x \in EventDetail(h, e, l).raise
  BY <1>1 DEF EventDetail, NoEffect, Own
<1>3. ASSUME NEW g, NEW h PROVE EventDetail(g, e, l).touch = EventDetail(h, e, l).touch
  BY DEF EventDetail, NoEffect
<1>4. ASSUME NEW g PROVE EventDetail(g, e, l).drop = {} /\ EventDetail(g, e, l).bury = {}
  BY DEF EventDetail, NoEffect
<1> QED BY <1>2, <1>3, <1>4

\* Two effects treat a node alike.
Alike(f, i, x) ==
  /\ x \notin f.drop /\ x \notin i.drop
  /\ (x \in f.bury <=> x \in i.bury)
  /\ (x \in f.raise <=> x \in i.raise)
  /\ (x \in f.touch <=> x \in i.touch)

\* What an event does to an anchored node does not depend on the graph.
LEMMA SaysAnywhere ==
  ASSUME NEW g, TypedSet(DOMAIN g), NEW h, TypedSet(DOMAIN h), NEW e, NEW x, Anchored(x)
  PROVE  Alike(Projection(g, e), Projection(h, e), x)
<1>1. IsNode(x)
  BY DEF Anchored
<1>2. Alike(Workflow(g, e), Workflow(h, e), x)
  BY <1>1, WorkflowSays DEF Alike
<1>3. Alike(WorkflowDeleted(g, e), WorkflowDeleted(h, e), x)
  BY <1>1, WorkflowDeletedSays DEF Alike
<1>4. Alike(WorkflowRunDeleted(g, e), WorkflowRunDeleted(h, e), x)
  BY WorkflowRunDeletedSays DEF Alike
<1>5. Alike(MemoryDeleted(g, e), MemoryDeleted(h, e), x)
  BY <1>1, MemoryDeletedSays DEF Alike
<1>6. Alike(DocumentDeleted(g, e), DocumentDeleted(h, e), x)
  BY DocumentDeletedSays DEF Alike
<1>7. Alike(WorkflowMemoryLinkDeleted(g, e), WorkflowMemoryLinkDeleted(h, e), x)
  BY <1>1, LinkDeletedSays DEF Alike
<1>8. ASSUME NEW l PROVE Alike(EventDetail(g, e, l), EventDetail(h, e, l), x)
  BY <1>1, EventDetailSays DEF Alike
<1>9. /\ Alike(WorkflowRun(g, e), WorkflowRun(h, e), x)
      /\ Alike(StepRun(g, e), StepRun(h, e), x)
      /\ Alike(Memory(g, e), Memory(h, e), x)
      /\ Alike(MemoryEntities(g, e), MemoryEntities(h, e), x)
      /\ Alike(MemoryGraphHints(g, e), MemoryGraphHints(h, e), x)
      /\ Alike(Document(g, e), Document(h, e), x)
      /\ Alike(WorkflowMemoryLink(g, e), WorkflowMemoryLink(h, e), x)
      /\ Alike(Persona(g, e), Persona(h, e), x)
  BY BlindHandlers DEF Alike
<1>10. Alike(NoEffect, NoEffect, x)
  BY DEF Alike, NoEffect
<1> QED BY <1>2, <1>3, <1>4, <1>5, <1>6, <1>7, <1>8, <1>9, <1>10 DEF Projection

Followed == {"HAS_STEP_RUN", "EMITTED_EVENT", "HAS_CHUNK"}

\* Where a relationship of an effect can come from.
LEMMA RelationshipParts ==
  ASSUME NEW x, ~IsNode(x)
  PROVE  /\ \A l, ids : x \notin NodesOf(l, ids)
         /\ \A l, i : x # Node(l, i)
         /\ \A type, from, to : x \in Rels(type, from, to) => x.type = type
         /\ \A type, from, to, scope, key :
              x \in Keyed(type, from, to, scope, key) => x.type = type
         /\ x.type \notin Followed => WellTyped(x)
<1>1. x.type \notin Followed => WellTyped(x)
  BY DEF WellTyped, Followed
<1>2. ASSUME NEW type, NEW from, NEW to, NEW scope, NEW key
      PROVE  x \in Keyed(type, from, to, scope, key) => x.type = type
  BY KeyedAreRels
<1>3. ASSUME NEW type, NEW from, NEW to
      PROVE  x \in Rels(type, from, to) => x.type = type
  BY RelsAreRels
<1>4. \A l, ids : x \notin NodesOf(l, ids)
  BY NodesAreNodes
<1>5. \A l, i : x # Node(l, i)
  BY ShapeOfNode
<1> QED BY <1>1, <1>2, <1>3, <1>4, <1>5

\* An effect adds only well-typed relationships.
Adds(f) == f.bury \cup f.raise \cup f.touch

LEMMA BlindTyped ==
  ASSUME NEW g, NEW e
  PROVE  /\ TypedSet(Adds(WorkflowRun(g, e))) /\ TypedSet(Adds(Memory(g, e)))
         /\ TypedSet(Adds(MemoryEntities(g, e))) /\ TypedSet(Adds(WorkflowMemoryLink(g, e)))
         /\ TypedSet(Adds(Persona(g, e)))
<1>1. ASSUME NEW x \in Adds(WorkflowRun(g, e)), ~IsNode(x) PROVE x.type \notin Followed
  BY <1>1, RelationshipParts DEF WorkflowRun, NoEffect, Own, Adds, Followed
<1>2. ASSUME NEW x \in Adds(Memory(g, e)), ~IsNode(x) PROVE x.type \notin Followed
  <2>1. \A S : x \notin {Node(p[1], p[2]) : p \in S}
    BY <1>2, RelationshipParts
  <2>2. \A l, ids : x \notin NodesOf(l, ids)
    BY <1>2, RelationshipParts
  <2>3. x # Node("Memory", e.id)
    BY <1>2, RelationshipParts
  <2>4. \A type, from, to : x \in Rels(type, from, to) => x.type = type
    BY <1>2, RelationshipParts
  <2> QED BY <1>2, <2>1, <2>2, <2>3, <2>4 DEF Memory, Audience, NoEffect, Adds, Followed
<1>3. ASSUME NEW x \in Adds(MemoryEntities(g, e)), ~IsNode(x) PROVE x.type \notin Followed
  BY <1>3, RelationshipParts DEF MemoryEntities, NoEffect, Adds, Followed
<1>4. ASSUME NEW x \in Adds(WorkflowMemoryLink(g, e)), ~IsNode(x)
      PROVE  x.type \notin Followed
  BY <1>4, RelationshipParts DEF WorkflowMemoryLink, NoEffect, Adds, Followed
<1>5. ASSUME NEW x \in Adds(Persona(g, e)), ~IsNode(x) PROVE x.type \notin Followed
  BY <1>5, RelationshipParts DEF Persona, NoEffect, Adds, Followed
<1> QED BY <1>1, <1>2, <1>3, <1>4, <1>5, RelationshipParts DEF TypedSet

LEMMA StepRunTyped ==
  ASSUME NEW g, NEW e
  PROVE  TypedSet(Adds(StepRun(g, e)))
<1> SUFFICES ASSUME NEW x \in Adds(StepRun(g, e)), ~IsNode(x) PROVE WellTyped(x)
  BY DEF TypedSet
<1> DEFINE s == {Node("StepRun", e.id)}
           r == NodesOf("WorkflowRun", e.refs.run)
<1>1. x.type \notin Followed \/ x \in Rels("HAS_STEP_RUN", r, s)
  BY RelationshipParts DEF StepRun, NoEffect, Own, Adds, Followed
<1>2. CASE x \in Rels("HAS_STEP_RUN", r, s)
  <2>1. x.type = "HAS_STEP_RUN" /\ x.dst = Node("StepRun", e.id)
    BY <1>2, RelsAreRels
  <2> QED BY <2>1, ShapeOfNode DEF WellTyped, LeadsTo
<1> QED BY <1>1, <1>2, RelationshipParts

LEMMA DocumentTyped ==
  ASSUME NEW g, NEW e
  PROVE  TypedSet(Adds(Document(g, e)))
<1> SUFFICES ASSUME NEW x \in Adds(Document(g, e)), ~IsNode(x) PROVE WellTyped(x)
  BY DEF TypedSet
<1> DEFINE d == {Node("Document", e.id)}
           chunks == NodesOf("DocumentChunk", {<<e.id, m>> : m \in e.refs.memory})
<1>1. x.type \notin Followed \/ x \in Rels("HAS_CHUNK", d, chunks)
  BY RelationshipParts DEF Document, Audience, NoEffect, Adds, Followed
<1>2. CASE x \in Rels("HAS_CHUNK", d, chunks)
  <2>1. x.type = "HAS_CHUNK" /\ x.dst \in chunks
    BY <1>2, RelsAreRels
  <2> QED BY <2>1, NodesAreNodes DEF WellTyped, LeadsTo
<1> QED BY <1>1, <1>2, RelationshipParts

LEMMA EventDetailTyped ==
  ASSUME NEW g, NEW e, NEW l \in EventLabels
  PROVE  TypedSet(Adds(EventDetail(g, e, l)))
<1> SUFFICES ASSUME NEW x \in Adds(EventDetail(g, e, l)), ~IsNode(x) PROVE WellTyped(x)
  BY DEF TypedSet
<1> DEFINE event == {Node(l, EventId(e))}
<1>1. \/ x.type \notin Followed
      \/ \E from : x \in Rels("EMITTED_EVENT", from, event)
  BY RelationshipParts DEF EventDetail, NoEffect, Own, Adds, Followed
<1>2. ASSUME NEW from, x \in Rels("EMITTED_EVENT", from, event) PROVE WellTyped(x)
  <2>1. x.type = "EMITTED_EVENT" /\ x.dst = Node(l, EventId(e))
    BY <1>2, RelsAreRels
  <2> QED BY <2>1, ShapeOfNode DEF WellTyped, LeadsTo
<1> QED BY <1>1, <1>2, RelationshipParts

LEMMA HintsTyped ==
  ASSUME NEW g, NEW e
  PROVE  TypedSet(Adds(MemoryGraphHints(g, e)))
<1> SUFFICES ASSUME NEW x \in Adds(MemoryGraphHints(g, e)), ~IsNode(x) PROVE WellTyped(x)
  BY DEF TypedSet
<1> DEFINE related == {KeyedRel(t[1], Node("Entity", t[2]), Node("Entity", t[3]),
                                None, e.id) : t \in e.refs.related}
<1>1. x.type \notin Followed \/ x \in related
  BY RelationshipParts DEF MemoryGraphHints, NoEffect, Adds, Followed
<1>2. CASE x \in related
  <2>1. PICK t \in e.refs.related :
          x = KeyedRel(t[1], Node("Entity", t[2]), Node("Entity", t[3]), None, e.id)
    BY <1>2
  <2>2. x.src = Node("Entity", t[2])
    BY <2>1 DEF KeyedRel
  <2> QED BY <2>2, ShapeOfNode DEF WellTyped, LeadsTo
<1> QED BY <1>1, <1>2, RelationshipParts

LEMMA WorkflowTyped ==
  ASSUME NEW g, NEW e
  PROVE  TypedSet(Adds(Workflow(g, e)))
<1> SUFFICES ASSUME NEW x \in Adds(Workflow(g, e)), ~IsNode(x) PROVE x.type \notin Followed
  BY RelationshipParts DEF TypedSet
<1> DEFINE scoped == ScopedRels(e.id, e.refs)
<1>1. x \notin Ends(scoped)
  BY ScopedAreRels DEF Ends
<1>2. x \in scoped => x.type \notin Followed
  BY ScopedAreRels DEF ScopedTypes, Followed
<1> QED BY <1>1, <1>2, RelationshipParts DEF Workflow, Adds, Followed

\* A deletion marks nodes and what is in the graph already.
LEMMA DeletionsTyped ==
  ASSUME NEW g, TypedSet(DOMAIN g), NEW e
  PROVE  /\ TypedSet(Adds(WorkflowDeleted(g, e)))
         /\ TypedSet(Adds(WorkflowRunDeleted(g, e)))
         /\ TypedSet(Adds(MemoryDeleted(g, e)))
         /\ TypedSet(Adds(DocumentDeleted(g, e)))
         /\ TypedSet(Adds(WorkflowMemoryLinkDeleted(g, e)))
<1>1. ASSUME NEW x \in RelsIn(g) PROVE WellTyped(x)
  BY <1>1, FoundAreRels DEF TypedSet
<1>2. ASSUME NEW n, NEW types
      PROVE  /\ \A x \in OutOf(g, n, types) : WellTyped(x) /\ x \in DOMAIN g /\ ~IsNode(x)
             /\ \A x \in Into(g, n, types) : WellTyped(x)
             /\ \A x \in Scoped(g, n, types) : WellTyped(x)
             /\ \A x \in Incident(g, n) : WellTyped(x)
  BY <1>1, FoundAreRels
<1>3. TypedSet(Adds(WorkflowDeleted(g, e)))
  BY <1>2, ShapeOfNode DEF TypedSet, WorkflowDeleted, NoEffect, Adds
<1>4. TypedSet(Adds(MemoryDeleted(g, e)))
  BY <1>2, ShapeOfNode DEF TypedSet, MemoryDeleted, NoEffect, Adds
<1>5. TypedSet(Adds(WorkflowMemoryLinkDeleted(g, e)))
  BY <1>1 DEF TypedSet, WorkflowMemoryLinkDeleted, NoEffect, Adds
<1>6. TypedSet(Adds(WorkflowRunDeleted(g, e)))
  <2> DEFINE r == Node("WorkflowRun", e.id)
  <2>1. IsNode(r) /\ r.label = "WorkflowRun"
    BY ShapeOfNode
  <2>2. ASSUME NEW y \in OutOf(g, r, {"HAS_STEP_RUN"}) PROVE IsNode(y.dst)
    <3>1. y.src = r /\ y.type = "HAS_STEP_RUN"
      BY <2>2 DEF OutOf
    <3> QED BY <1>2, <2>1, <2>2, <3>1 DEF WellTyped, LeadsTo
  <2>3. ASSUME NEW y \in OutOf(g, r, {"EMITTED_EVENT"}) PROVE IsNode(y.dst)
    <3>1. y.src = r /\ y.type = "EMITTED_EVENT"
      BY <2>3 DEF OutOf
    <3> QED BY <1>2, <2>1, <2>3, <3>1 DEF WellTyped, LeadsTo
  <2> QED BY <1>2, <2>1, <2>2, <2>3 DEF TypedSet, WorkflowRunDeleted, NoEffect, Adds
<1>7. TypedSet(Adds(DocumentDeleted(g, e)))
  <2> DEFINE d == Node("Document", e.id)
  <2>1. IsNode(d) /\ d.label = "Document"
    BY ShapeOfNode
  <2>2. ASSUME NEW y \in OutOf(g, d, {"HAS_CHUNK"}) PROVE IsNode(y.dst)
    <3>1. y.src = d /\ y.type = "HAS_CHUNK"
      BY <2>2 DEF OutOf
    <3> QED BY <1>2, <2>1, <2>2, <3>1 DEF WellTyped, LeadsTo
  <2>3. \A x \in NodesOf("Memory", e.refs.memory) : IsNode(x)
    BY NodesAreNodes
  <2> QED BY <1>2, <2>1, <2>2, <2>3 DEF TypedSet, DocumentDeleted, NoEffect, Adds
<1> QED BY <1>3, <1>4, <1>5, <1>6, <1>7

\* Whatever is applied to a well-typed graph leaves it well typed.
LEMMA ProjectTyped ==
  ASSUME NEW g, TypedSet(DOMAIN g), NEW e
  PROVE  TypedSet(DOMAIN Project(g, e))
<1>1. DOMAIN Project(g, e) \subseteq DOMAIN g \cup Adds(Projection(g, e))
  BY DEF Project, Effected, Adds
<1>2. TypedSet(Adds(NoEffect))
  BY DEF NoEffect, Adds, TypedSet
<1>3. /\ TypedSet(Adds(EventDetail(g, e, "ExecutionEvent")))
      /\ TypedSet(Adds(EventDetail(g, e, "ContainerEvent")))
  BY EventDetailTyped DEF EventLabels
<1>4. TypedSet(Adds(Projection(g, e)))
  BY <1>2, <1>3, BlindTyped, StepRunTyped, DocumentTyped, HintsTyped, WorkflowTyped,
     DeletionsTyped DEF Projection
<1> QED BY <1>1, <1>4 DEF TypedSet

-----------------------------------------------------------------------------
(* What the graph shows of a node after some of the events of an outbox.   *)

Buries(e, x) == x \in Projection(EmptyGraph, e).bury
Raises(e, x) == x \in Projection(EmptyGraph, e).raise
Touches(e, x) == x \in Projection(EmptyGraph, e).touch
Decides(e, x) == Buries(e, x) \/ Raises(e, x)

\* g shows of x what the events A of box say: the last event that deletes or
\* revives x has its mark, and without one x is there once it was merged.
Shows(box, A, g, x) ==
  /\ \A t \in A :
       /\ Decides(box[t].event, x)
       /\ \A u \in DOMAIN box : t < u => ~Decides(box[u].event, x)
       => x \in DOMAIN g /\ (x \in Live(g) <=> ~Buries(box[t].event, x))
  /\ (\A t \in DOMAIN box : ~Decides(box[t].event, x))
       => /\ x \in DOMAIN g => /\ x \in Live(g)
                               /\ \E t \in DOMAIN box : Touches(box[t].event, x)
          /\ (\E t \in A : Touches(box[t].event, x)) => x \in DOMAIN g

LEMMA EmptyIsTyped == TypedSet(DOMAIN EmptyGraph) /\ DOMAIN EmptyGraph = {}
BY DEF EmptyGraph, TypedSet

\* One event changes a node as it says.
LEMMA MarkAfter ==
  ASSUME NEW g, TypedSet(DOMAIN g), NEW e, NEW x, Anchored(x)
  PROVE  /\ x \in DOMAIN Project(g, e)
              <=> x \in DOMAIN g \/ Decides(e, x) \/ Touches(e, x)
         /\ x \in Live(Project(g, e))
              <=> /\ ~Buries(e, x)
                  /\ \/ Raises(e, x) \/ x \in Live(g)
                     \/ Touches(e, x) /\ x \notin DOMAIN g
<1> DEFINE f == Projection(g, e)
<1>1. /\ x \notin f.drop /\ (x \in f.bury <=> Buries(e, x))
      /\ (x \in f.raise <=> Raises(e, x)) /\ (x \in f.touch <=> Touches(e, x))
  BY SaysAnywhere, EmptyIsTyped DEF Alike, Buries, Raises, Touches
<1> HIDE DEF f
<1>2. Project(g, e) = Effected(g, f)
  BY DEF Project, f
<1>3. x \in DOMAIN Effected(g, f) <=> x \in DOMAIN g \/ Decides(e, x) \/ Touches(e, x)
  BY <1>1 DEF Effected, Decides
<1>4. ASSUME x \in DOMAIN Effected(g, f)
      PROVE  Effected(g, f)[x] <=> Buries(e, x) \/ (~Raises(e, x) /\ x \in DOMAIN g /\ g[x])
  BY <1>1, <1>4 DEF Effected
<1> QED BY <1>1, <1>2, <1>3, <1>4 DEF Live, Decides

LEMMA ShowsNext ==
  ASSUME NEW box, NEW A \in SUBSET DOMAIN box, NEW g, TypedSet(DOMAIN g),
         NEW x, Anchored(x), NEW n \in DOMAIN box, \A t \in A : t = n \/ t < n,
         Shows(box, A, g, x)
  PROVE  Shows(box, A \cup {n}, Project(g, box[n].event), x)
<1> DEFINE e == box[n].event
           h == Project(g, e)
           says(t) == box[t].event
<1>1. /\ x \in DOMAIN h <=> x \in DOMAIN g \/ Decides(e, x) \/ Touches(e, x)
      /\ x \in Live(h) <=> /\ ~Buries(e, x)
                           /\ \/ Raises(e, x) \/ x \in Live(g)
                              \/ Touches(e, x) /\ x \notin DOMAIN g
  BY MarkAfter
<1> HIDE DEF h
<1>2. ASSUME NEW t \in A \cup {n}, Decides(box[t].event, x),
             \A u \in DOMAIN box : t < u => ~Decides(box[u].event, x)
      PROVE  x \in DOMAIN h /\ (x \in Live(h) <=> ~Buries(box[t].event, x))
  <2>1. CASE t = n
    BY <1>1, <1>2, <2>1 DEF Decides
  <2>2. CASE t # n
    <3>1. t \in A /\ t < n /\ ~Decides(e, x)
      BY <1>2, <2>2
    <3>2. x \in DOMAIN g /\ (x \in Live(g) <=> ~Buries(box[t].event, x))
      BY <1>2, <3>1 DEF Shows
    <3> QED BY <1>1, <3>1, <3>2 DEF Decides
  <2> QED BY <2>1, <2>2
<1>3. ASSUME \A t \in DOMAIN box : ~Decides(box[t].event, x)
      PROVE  /\ x \in DOMAIN h => /\ x \in Live(h)
                                  /\ \E t \in DOMAIN box : Touches(box[t].event, x)
             /\ (\E t \in A \cup {n} : Touches(box[t].event, x)) => x \in DOMAIN h
  <2>1. /\ x \in DOMAIN g => /\ x \in Live(g)
                             /\ \E t \in DOMAIN box : Touches(box[t].event, x)
        /\ (\E t \in A : Touches(box[t].event, x)) => x \in DOMAIN g
    BY <1>3 DEF Shows
  <2>2. ~Decides(e, x) /\ ~Buries(e, x)
    BY <1>3 DEF Decides
  <2> QED BY <1>1, <2>1, <2>2
<1> QED BY <1>2, <1>3 DEF Shows, h

\* Fewer applied events and more events in the outbox ask for less.
LEMMA ShowsLess ==
  ASSUME NEW box, NEW A, NEW g, NEW x, Shows(box, A, g, x),
         NEW new, NEW B \in SUBSET A, A \subseteq DOMAIN box, DOMAIN box \subseteq DOMAIN new,
         \A t \in DOMAIN box : new[t].event = box[t].event
  PROVE  Shows(new, B, g, x)
<1>1. \A t \in B : t \in A /\ t \in DOMAIN box /\ new[t].event = box[t].event
  OBVIOUS
<1>2. ASSUME NEW t \in B, Decides(new[t].event, x),
             \A u \in DOMAIN new : t < u => ~Decides(new[u].event, x)
      PROVE  x \in DOMAIN g /\ (x \in Live(g) <=> ~Buries(new[t].event, x))
  BY <1>1, <1>2 DEF Shows
<1>3. ASSUME \A t \in DOMAIN new : ~Decides(new[t].event, x)
      PROVE  /\ x \in DOMAIN g => /\ x \in Live(g)
                                  /\ \E t \in DOMAIN new : Touches(new[t].event, x)
             /\ (\E t \in B : Touches(new[t].event, x)) => x \in DOMAIN g
  <2>1. \A t \in DOMAIN box : ~Decides(box[t].event, x)
    BY <1>3
  <2> QED BY <1>1, <2>1 DEF Shows
<1> QED BY <1>2, <1>3 DEF Shows

LEMMA NothingShows ==
  ASSUME NEW box, NEW x
  PROVE  Shows(box, {}, EmptyGraph, x)
BY EmptyIsTyped DEF Shows

LEMMA Latest ==
  ASSUME NEW S \in SUBSET (1..MaxEvents), S # {}
  PROVE  \E m \in S : \A t \in S : t = m \/ t < m
<1> DEFINE last(k) == \E m \in S : m <= k /\ \A t \in S : t <= k => t = m \/ t < m
           T == {k \in 0..MaxEvents : (\E t \in S : t <= k) => last(k)}
<1>1. MaxEvents \in Nat /\ \A t \in S : t \in Nat /\ 1 <= t /\ t <= MaxEvents
  BY OutboxAssumption
<1>2. 0 \in T
  BY <1>1
<1>3. ASSUME NEW k \in 1..MaxEvents, k - 1 \in T PROVE k \in T
  <2>1. CASE k \in S
    <3>1. \A t \in S : t <= k => t = k \/ t < k
      BY <1>1, <2>1
    <3>2. k <= k
      BY <1>1
    <3> QED BY <1>1, <2>1, <3>1, <3>2
  <2>2. CASE k \notin S
    <3>1. \A t \in S : t <= k <=> t <= k - 1
      BY <1>1, <2>2
    <3>2. last(k - 1) => last(k)
      BY <3>1
    <3> QED BY <1>1, <1>3, <3>1, <3>2
  <2> QED BY <2>1, <2>2
<1> HIDE DEF T
<1>4. MaxEvents \in T
  BY <1>1, <1>2, <1>3, UpTo
<1> QED BY <1>1, <1>4 DEF T

\* Two graphs that show what all the events say show the same.
LEMMA ShowSame ==
  ASSUME NEW box, DOMAIN box \subseteq 1..MaxEvents, NEW g, NEW h, NEW x,
         Shows(box, DOMAIN box, g, x), Shows(box, DOMAIN box, h, x)
  PROVE  x \in Live(g) <=> x \in Live(h)
<1> DEFINE D == {t \in DOMAIN box : Decides(box[t].event, x)}
<1>1. CASE D = {}
  <2>1. \A t \in DOMAIN box : ~Decides(box[t].event, x)
    BY <1>1
  <2> QED BY <2>1 DEF Shows, Live
<1>2. CASE D # {}
  <2>1. PICK m \in D : \A t \in D : t = m \/ t < m
    BY <1>2, Latest
  <2>2. m \in DOMAIN box /\ Decides(box[m].event, x)
    BY <2>1
  <2>3. ASSUME NEW u \in DOMAIN box, m < u PROVE ~Decides(box[u].event, x)
    <3>1. m \in 1..MaxEvents /\ u \in 1..MaxEvents /\ MaxEvents \in Nat
      BY <2>2, OutboxAssumption
    <3>2. u # m /\ ~(u < m)
      BY <2>3, <3>1
    <3> QED BY <2>1, <3>2
  <2> QED BY <2>2, <2>3 DEF Shows
<1> QED BY <1>1, <1>2

\* One undisturbed pass shows what the events it has applied say.
LEMMA ReplayShows ==
  ASSUME NEW box, DOMAIN box \subseteq 1..MaxEvents, NEW x, Anchored(x),
         NEW k \in 0..MaxEvents
  PROVE  /\ TypedSet(DOMAIN Replays(box)[k])
         /\ Shows(box, {t \in DOMAIN box : t <= k}, Replays(box)[k], x)
<1> DEFINE R == Replays(box)
           upto(n) == {t \in DOMAIN box : t <= n}
           T == {n \in 0..MaxEvents : TypedSet(DOMAIN R[n]) /\ Shows(box, upto(n), R[n], x)}
<1>1. MaxEvents \in Nat /\ \A t \in DOMAIN box : t \in Nat /\ t >= 1
  BY OutboxAssumption
<1>2. R[0] = EmptyGraph
  BY ReplaysDef
<1>3. \A n \in 1..MaxEvents : R[n] = IF n \in DOMAIN box
                                       THEN Project(R[n - 1], box[n].event) ELSE R[n - 1]
  BY ReplaysDef
<1>4. upto(0) = {}
  BY <1>1
<1>5. \A n \in 1..MaxEvents :
        /\ upto(n - 1) \in SUBSET DOMAIN box /\ \A t \in upto(n - 1) : t = n \/ t < n
        /\ upto(n) = IF n \in DOMAIN box THEN upto(n - 1) \cup {n} ELSE upto(n - 1)
  BY <1>1
<1> HIDE DEF R, upto
<1>6. 0 \in T
  <2>1. Shows(box, upto(0), R[0], x)
    BY <1>2, <1>4, NothingShows
  <2>2. TypedSet(DOMAIN R[0])
    BY <1>2, EmptyIsTyped
  <2> QED BY <1>1, <2>1, <2>2
<1>7. ASSUME NEW n \in 1..MaxEvents, n - 1 \in T PROVE n \in T
  <2>1. TypedSet(DOMAIN R[n - 1]) /\ Shows(box, upto(n - 1), R[n - 1], x)
    BY <1>7
  <2>2. CASE n \in DOMAIN box
    <3>1. Shows(box, upto(n - 1) \cup {n}, Project(R[n - 1], box[n].event), x)
      <4> DEFINE A == upto(n - 1)
                 g == R[n - 1]
      <4>1. /\ A \in SUBSET DOMAIN box /\ \A t \in A : t = n \/ t < n
            /\ TypedSet(DOMAIN g) /\ Shows(box, A, g, x)
        BY <1>5, <2>1
      <4> HIDE DEF A, g
      <4>2. Shows(box, A \cup {n}, Project(g, box[n].event), x)
        BY <2>2, <4>1, ShowsNext
      <4> QED BY <4>2 DEF A, g
    <3>2. TypedSet(DOMAIN Project(R[n - 1], box[n].event))
      BY <2>1, ProjectTyped
    <3>3. R[n] = Project(R[n - 1], box[n].event) /\ upto(n) = upto(n - 1) \cup {n}
      BY <1>3, <1>5, <2>2
    <3>4. TypedSet(DOMAIN R[n]) /\ Shows(box, upto(n), R[n], x)
      BY <3>1, <3>2, <3>3
    <3> QED BY <1>1, <3>4
  <2>3. CASE n \notin DOMAIN box
    <3>1. R[n] = R[n - 1] /\ upto(n) = upto(n - 1)
      BY <1>3, <1>5, <2>3
    <3>2. TypedSet(DOMAIN R[n]) /\ Shows(box, upto(n), R[n], x)
      BY <2>1, <3>1
    <3> QED BY <1>1, <3>2
  <2> QED BY <2>2, <2>3
<1> HIDE DEF T
<1>8. k \in T
  BY <1>1, <1>6, <1>7, UpTo
<1> QED BY <1>8 DEF T, R, upto

-----------------------------------------------------------------------------
(* The graph of a healthy outbox.                                          *)

\* One process at a time applies events.
OneAtATime ==
  \A p, q \in Projectors : proc[p].pc # "idle" /\ proc[q].pc # "idle" => p = q

\* No command hands out failed events alone or marks events without applying.
WholeReplays == Commands \cap {"replay_failed", "replay_run"} = {}

\* A process applies the pending events from the first of them on.
Orderly(q) ==
  /\ q.pc # "choose" /\ (q.pc # "idle" => q.cmd # "replay_run")
  /\ q.pc \in {"clear", "reset", "list"} => q.batch = <<>>
  /\ q.pc \in AtEvent => InLine(outbox, q.batch) /\ PendingFrom(outbox, Head(q.batch))

OrderInv == Ordered(outbox) /\ \A p \in Projectors : Orderly(proc[p])

\* The events whose effect the graph has: the projected ones and the one
\* about to be marked, and none while the graph is cleared and not reset.
Applied ==
  {t \in DOMAIN outbox :
     ~blank /\ \/ outbox[t].status = "projected"
               \/ \E p \in Projectors : proc[p].pc = "mark" /\ t = Head(proc[p].batch)}

ShowInv ==
  /\ TypedSet(DOMAIN graph)
  /\ \A x : Anchored(x) => Shows(outbox, Applied, graph, x)

LEMMA ShownStays ==
  ASSUME ShowInv, UNCHANGED graph, Applied' \subseteq Applied,
         DOMAIN outbox \subseteq DOMAIN outbox',
         \A t \in DOMAIN outbox : outbox'[t].event = outbox[t].event
  PROVE  ShowInv'
<1>1. Applied \subseteq DOMAIN outbox
  BY DEF Applied
<1>2. ASSUME NEW x, Anchored(x) PROVE Shows(outbox', Applied', graph, x)
  BY <1>1, <1>2, ShowsLess DEF ShowInv
<1>3. (\A x : Anchored(x) => Shows(outbox, Applied, graph, x))'
  BY <1>2
<1> QED BY <1>3 DEF ShowInv

LEMMA CallersKeepShown ==
  ASSUME OutboxInv, AppendsInOrder, OrderInv, ShowInv, NEW c \in Callers, CallerStep(c)
  PROVE  OrderInv' /\ ShowInv'
<1>1. UNCHANGED <<graph, proc, blank>>
  BY CallerSteps
<1>2. CASE UNCHANGED outbox
  <2>1. OrderInv'
    BY <1>1, <1>2 DEF OrderInv, Ordered, Orderly, InLine, PendingFrom
  <2>2. Applied' = Applied
    BY <1>1, <1>2 DEF Applied
  <2> QED BY <1>1, <1>2, <2>1, <2>2, ShownStays
<1>3. ASSUME NEW e, NEW k, stamp[c] \in 1..stamps, Inserted(stamp[c], e, k),
             todo[c] # <<>>, Head(todo[c]).do = "append"
      PROVE  OrderInv' /\ ShowInv'
  <2> DEFINE at == stamp[c]
  <2>1. at \in Nat /\ at >= 1 /\ \A t \in DOMAIN outbox : t \in Nat /\ t < at
    BY <1>3, RowNumbers DEF AppendsInOrder
  <2>2. /\ DOMAIN outbox' = DOMAIN outbox \cup {at}
        /\ \A t \in DOMAIN outbox : t # at => outbox'[t] = outbox[t]
        /\ outbox'[at].status = "pending"
    BY <1>3, InsertedRow DEF OutboxInv
  <2> HIDE DEF at
  <2>3. \A t \in DOMAIN outbox : t # at /\ outbox'[t] = outbox[t] /\ ~(at < t) /\ t <= at
    BY <2>1, <2>2
  <2>4. Ordered(outbox')
    BY <2>1, <2>2, <2>3 DEF OrderInv, Ordered
  <2>5. ASSUME NEW p \in Projectors, proc[p].pc \in AtEvent
        PROVE  InLine(outbox', proc[p].batch) /\ PendingFrom(outbox', Head(proc[p].batch))
    <3> DEFINE b == proc[p].batch
    <3>1. InLine(outbox, b) /\ PendingFrom(outbox, Head(b))
      BY <2>5 DEF OrderInv, Orderly
    <3>2. /\ Head(b) \in DOMAIN outbox /\ b[Len(b)] \in DOMAIN outbox
      BY <2>5, AtHead
    <3>3. ~(at <= b[Len(b)]) /\ Head(b) <= at
      BY <2>1, <3>2
    <3> HIDE DEF b
    <3>4. PendingFrom(outbox', Head(b))
      BY <2>2, <2>3, <3>1, <3>3 DEF PendingFrom
    <3>5. InLine(outbox', b)
      BY <2>2, <3>1, <3>3 DEF InLine
    <3> QED BY <3>4, <3>5 DEF b
  <2>6. ASSUME NEW p \in Projectors PROVE Orderly(proc[p])'
    BY <1>1, <2>5 DEF OrderInv, Orderly
  <2>7. Applied' \subseteq Applied
    <3>1. ASSUME NEW t \in Applied' PROVE t \in Applied
      <4>1. t \in DOMAIN outbox' /\ ~blank
            /\ \/ outbox'[t].status = "projected"
               \/ \E p \in Projectors : proc[p].pc = "mark" /\ t = Head(proc[p].batch)
        BY <1>1, <3>1 DEF Applied
      <4>2. t \in DOMAIN outbox
        <5>1. ASSUME NEW p \in Projectors, proc[p].pc = "mark" PROVE Head(proc[p].batch) \in DOMAIN outbox
          BY <5>1, AtHead DEF AtEvent
        <5> QED BY <2>2, <4>1, <5>1
      <4> QED BY <2>3, <4>1, <4>2 DEF Applied
    <3> QED BY <3>1
  <2>8. ShowInv'
    BY <1>1, <2>2, <2>3, <2>7, ShownStays
  <2>9. OrderInv'
    BY <2>4, <2>6 DEF OrderInv
  <2> QED BY <2>8, <2>9
<1> QED BY <1>2, <1>3, CallerSteps

\* Marking its head leaves the rest of a batch in line.
LEMMA MarkedInLine ==
  ASSUME OutboxInv, NEW p \in Projectors, proc[p].pc \in AtEvent, Orderly(proc[p]),
         NEW s \in {"projected", "failed"}, outbox' = Marked({Head(proc[p].batch)}, s)
  PROVE  LET b == proc[p].batch
         IN  /\ Ordered(outbox')
             /\ Tail(b) # <<>> => /\ InLine(outbox', Tail(b))
                                  /\ PendingFrom(outbox', Head(Tail(b)))
<1> DEFINE b == proc[p].batch
           h == Head(b)
<1>1. /\ b \in Seq(1..MaxEvents) /\ b # <<>> /\ h \in DOMAIN outbox
      /\ \A i \in DOMAIN b : b[i] \in DOMAIN outbox
      /\ InLine(outbox, b) /\ PendingFrom(outbox, h)
  BY AtHead DEF Orderly
<1>2. /\ DOMAIN outbox' = DOMAIN outbox
      /\ \A t \in DOMAIN outbox : outbox'[t].status = IF t = h THEN s ELSE outbox[t].status
  <2> DEFINE T == {h}
  <2>1. outbox' = Marked(T, s) /\ Tables /\ s \in Statuses
    BY DEF OutboxInv, Statuses
  <2>2. \A t : t \in T <=> t = h
    OBVIOUS
  <2> HIDE DEF T
  <2>3. /\ DOMAIN outbox' = DOMAIN outbox
        /\ \A t \in DOMAIN outbox : outbox'[t].status = IF t \in T THEN s ELSE outbox[t].status
    BY <2>1, MarkedRows
  <2> QED BY <2>2, <2>3
<1>3. Range(b) \subseteq DOMAIN outbox /\ DOMAIN outbox \subseteq 1..MaxEvents
  BY <1>1, RowNumbers DEF Range
<1> HIDE DEF b, h
<1>4. \A t, v \in DOMAIN outbox : (t < v \/ v < t \/ t = v) /\ (t <= v <=> t < v \/ t = v)
  BY RowNumbers
<1>5. ASSUME NEW t \in DOMAIN outbox PROVE outbox'[t].status = "pending" <=> h < t
  <2>1. CASE t = h
    BY <1>2, <2>1, RowNumbers
  <2>2. CASE t # h
    <3>1. outbox[t].status = "pending" <=> h <= t
      BY <1>1 DEF PendingFrom
    <3>2. h <= t <=> h < t
      BY <1>1, <1>4, <2>2
    <3> QED BY <1>2, <2>2, <3>1, <3>2
  <2> QED BY <2>1, <2>2
<1>6. Ordered(outbox')
  <2>1. ASSUME NEW t \in DOMAIN outbox, NEW v \in DOMAIN outbox, t < v, h < t PROVE h < v
    BY <1>1, <2>1, RowNumbers
  <2> QED BY <1>2, <1>5, <2>1 DEF Ordered
<1>7. ASSUME Tail(b) # <<>>
      PROVE  InLine(outbox', Tail(b)) /\ PendingFrom(outbox', Head(Tail(b)))
  <2>1. InLine(outbox, Tail(b)) /\ \A t \in DOMAIN outbox : h < t <=> Head(Tail(b)) <= t
    BY <1>1, <1>3, <1>7, NextInLine DEF h
  <2>2. PendingFrom(outbox', Head(Tail(b)))
    BY <1>2, <1>5, <2>1 DEF PendingFrom
  <2>3. InLine(outbox', Tail(b))
    BY <1>2, <2>1 DEF InLine
  <2> QED BY <2>2, <2>3
<1> QED BY <1>6, <1>7 DEF b, h

LEMMA IdleIsOrderly ==
  ASSUME NEW p, proc'[p] = Idle
  PROVE  Orderly(proc[p])'
<1>1. proc'[p].pc = "idle"
  BY IdleRow
<1> QED BY <1>1 DEF Orderly, AtEvent

LEMMA OrderGoesOn ==
  ASSUME OutboxInv, OrderInv, WholeReplays, NEW p \in Projectors, ProjectorStep(p)
  PROVE  Ordered(outbox') /\ Orderly(proc[p])'
<1>1. /\ proc[p] \in ProcType /\ proc' \in [Projectors -> ProcType] /\ DOMAIN proc = Projectors
      /\ OutboxInv' /\ DOMAIN outbox' = DOMAIN outbox
      /\ Ordered(outbox) /\ Orderly(proc[p])
  BY ProjectorKeeps DEF OutboxInv, Batches, OrderInv
<1>2. CASE ClearProjection(p)
  <2>1. proc[p].pc = "clear" /\ proc'[p] = [proc[p] EXCEPT !.pc = "reset"] /\ UNCHANGED outbox
    BY <1>1, <1>2 DEF ClearProjection
  <2>2. proc'[p].pc = "reset" /\ proc'[p].batch = proc[p].batch /\ proc'[p].cmd = proc[p].cmd
    BY <1>1, <2>1 DEF ProcType
  <2> QED BY <1>1, <2>1, <2>2 DEF Orderly, AtEvent
<1>3. CASE ChooseFailed(p)
  BY <1>1, <1>3 DEF ChooseFailed, Orderly
<1>4. CASE ResetForReplay(p)
  <2>1. proc[p].pc = "reset" /\ proc[p].batch = <<>>
    BY <1>1, <1>4 DEF ResetForReplay, Orderly
  <2>2. Range(<<>>) = {}
    BY DEF Range
  <2>3. outbox' = Marked(DOMAIN outbox, "pending")
    BY <1>4, <2>1, <2>2 DEF ResetForReplay
  <2>4. \A t \in DOMAIN outbox : outbox'[t].status = "pending"
    BY <2>3, MarkedRows DEF OutboxInv, Statuses
  <2>5. Ordered(outbox')
    BY <1>1, <2>4 DEF Ordered
  <2>6. \/ proc'[p] = Idle
        \/ proc'[p] = [proc[p] EXCEPT !.pc = "list", !.batch = <<>>]
    BY <1>1, <1>4 DEF ResetForReplay
  <2>7. CASE proc'[p] = Idle
    BY <2>5, <2>7, IdleIsOrderly
  <2>8. CASE proc'[p] = [proc[p] EXCEPT !.pc = "list", !.batch = <<>>]
    <3>1. proc'[p].pc = "list" /\ proc'[p].batch = <<>> /\ proc'[p].cmd = proc[p].cmd
      BY <1>1, <2>8 DEF ProcType
    <3> QED BY <1>1, <2>1, <2>5, <3>1 DEF Orderly, AtEvent
  <2> QED BY <2>6, <2>7, <2>8
<1>5. CASE ListPending(p)
  <2> DEFINE b == FirstOf(Having("pending"))
  <2>1. UNCHANGED outbox /\ proc[p].pc = "list"
    BY <1>5 DEF ListPending
  <2>2. CASE b = <<>>
    <3>1. proc'[p] = Idle
      BY <1>1, <1>5, <2>2 DEF ListPending
    <3> QED BY <1>1, <2>1, <3>1, IdleIsOrderly
  <2>3. CASE b # <<>>
    <3>1. proc'[p] = [proc[p] EXCEPT !.pc = "apply", !.batch = b]
      BY <1>1, <1>5, <2>3 DEF ListPending
    <3> HIDE DEF b
    <3>2. proc'[p].pc = "apply" /\ proc'[p].batch = b /\ proc'[p].cmd = proc[p].cmd
      BY <1>1, <3>1 DEF ProcType
    <3>3. Having("pending") # {}
      <4>1. Having("pending") \in SUBSET (1..MaxEvents)
        BY RowNumbers DEF Having
      <4> QED BY <2>3, <4>1, FirstOfFacts DEF b
    <3>4. InLine(outbox, b) /\ PendingFrom(outbox, Head(b))
      BY <1>1, <3>3, ListedInLine DEF b
    <3> QED BY <1>1, <2>1, <3>2, <3>4 DEF Orderly, AtEvent
  <2> QED BY <2>2, <2>3
<1>6. CASE ApplyEvent(p) \/ FailEvent(p)
  <2>1. /\ proc[p].pc \in AtEvent /\ UNCHANGED outbox
        /\ \/ proc'[p] = [proc[p] EXCEPT !.pc = "mark"]
           \/ proc'[p] = [proc[p] EXCEPT !.pc = "fail"]
    BY <1>1, <1>6 DEF ApplyEvent, FailEvent, AtEvent
  <2>2. proc'[p].pc \in {"mark", "fail"} /\ proc'[p].batch = proc[p].batch
        /\ proc'[p].cmd = proc[p].cmd
    BY <1>1, <2>1 DEF ProcType
  <2> QED BY <1>1, <2>1, <2>2 DEF Orderly, AtEvent, Ordered, InLine, PendingFrom
<1>7. CASE MarkProjected(p) \/ MarkFailed(p)
  <2> DEFINE b == proc[p].batch
  <2>1. PICK f \in BOOLEAN :
          /\ proc'[p] = Advanced(proc[p], f) /\ proc[p].pc \in AtEvent
          /\ \E s \in {"projected", "failed"} : outbox' = Marked({Head(b)}, s)
    <3>1. proc[p].failed \in BOOLEAN
      BY <1>1 DEF ProcType
    <3>2. CASE MarkProjected(p)
      <4>1. /\ proc'[p] = Advanced(proc[p], proc[p].failed) /\ proc[p].pc \in AtEvent
            /\ outbox' = Marked({Head(b)}, "projected")
        BY <1>1, <3>2 DEF MarkProjected, AtEvent
      <4> QED BY <3>1, <4>1
    <3>3. CASE MarkFailed(p)
      <4>1. /\ proc'[p] = Advanced(proc[p], TRUE) /\ proc[p].pc \in AtEvent
            /\ outbox' = Marked({Head(b)}, "failed")
        BY <1>1, <3>3 DEF MarkFailed, AtEvent
      <4> QED BY <4>1
    <3> QED BY <1>7, <3>2, <3>3
  <2>2. Ordered(outbox')
    BY <1>1, <2>1, MarkedInLine
  <2>3. Tail(b) # <<>> => InLine(outbox', Tail(b)) /\ PendingFrom(outbox', Head(Tail(b)))
    BY <1>1, <2>1, MarkedInLine
  <2>4. CASE Tail(b) # <<>>
    <3>1. proc'[p] = [proc[p] EXCEPT !.pc = "apply", !.batch = Tail(b), !.failed = f]
      BY <2>1, <2>4 DEF Advanced
    <3>2. proc'[p].pc = "apply" /\ proc'[p].batch = Tail(b) /\ proc'[p].cmd = proc[p].cmd
      BY <1>1, <3>1 DEF ProcType
    <3> HIDE DEF b
    <3> QED BY <1>1, <2>1, <2>2, <2>3, <2>4, <3>2 DEF Orderly, AtEvent
  <2>5. CASE Tail(b) = <<>>
    <3>1. \/ proc'[p] = [proc[p] EXCEPT !.pc = "list", !.batch = <<>>]
          \/ proc'[p] = Idle
      BY <2>1, <2>5 DEF Advanced
    <3>2. CASE proc'[p] = Idle
      BY <2>2, <3>2, IdleIsOrderly
    <3>3. CASE proc'[p] = [proc[p] EXCEPT !.pc = "list", !.batch = <<>>]
      <4>1. proc'[p].pc = "list" /\ proc'[p].batch = <<>> /\ proc'[p].cmd = proc[p].cmd
        BY <1>1, <3>3 DEF ProcType
      <4> QED BY <1>1, <2>1, <2>2, <4>1 DEF Orderly, AtEvent
    <3> QED BY <3>1, <3>2, <3>3
  <2> QED BY <2>4, <2>5
<1>8. CASE CrashProjector(p)
  <2>1. proc'[p] = Idle /\ UNCHANGED outbox
    BY <1>1, <1>8 DEF CrashProjector
  <2> QED BY <1>1, <2>1, IdleIsOrderly
<1>9. CASE StartIteration(p) \/ \E cmd \in Commands : StartCommand(p, cmd)
  <2>1. UNCHANGED outbox
    BY <1>9 DEF StartIteration, StartCommand
  <2>2. PICK cmd \in Commands \cup {"loop"}, pc \in Stages :
          /\ proc'[p] = [Idle EXCEPT !.cmd = cmd, !.pc = pc]
          /\ pc \in {"list", "clear", "reset"} /\ cmd # "replay_run"
    <3>1. CASE StartIteration(p)
      BY <1>1, <3>1 DEF StartIteration, Stages
    <3>2. ASSUME NEW cmd \in Commands, StartCommand(p, cmd)
          PROVE  /\ proc'[p] = [Idle EXCEPT !.cmd = cmd, !.pc = FirstStep(cmd)]
                 /\ FirstStep(cmd) \in {"list", "clear", "reset"} /\ cmd # "replay_run"
      <4>1. cmd \notin {"replay_failed", "replay_run"}
        BY <3>2 DEF WholeReplays
      <4>2. FirstStep(cmd) \in {"list", "clear", "reset"}
        BY <4>1 DEF FirstStep
      <4> QED BY <1>1, <3>2, <4>1, <4>2 DEF StartCommand
    <3>3. {"list", "clear", "reset"} \subseteq Stages
      BY DEF Stages
    <3> QED BY <1>9, <3>1, <3>2, <3>3
  <2>3. proc'[p].pc = pc /\ proc'[p].cmd = cmd /\ proc'[p].batch = <<>>
    BY <2>2 DEF Idle
  <2> QED BY <1>1, <2>1, <2>2, <2>3 DEF Orderly, AtEvent
<1> QED BY <1>2, <1>3, <1>4, <1>5, <1>6, <1>7, <1>8, <1>9 DEF ProjectorStep, Advance

LEMMA ShownGoesOn ==
  ASSUME OutboxInv, OrderInv, ShowInv, OneAtATime, NEW p \in Projectors, ProjectorStep(p)
  PROVE  ShowInv'
<1>1. /\ proc[p] \in ProcType /\ proc' \in [Projectors -> ProcType] /\ DOMAIN proc = Projectors
      /\ DOMAIN outbox' = DOMAIN outbox /\ Tables /\ Orderly(proc[p])
      /\ \A q \in Projectors \ {p} : proc'[q] = proc[q]
  BY ProjectorKeeps DEF OutboxInv, Batches, OrderInv
<1>2. ASSUME UNCHANGED <<graph, blank>>, proc'[p].pc # "mark",
             \A t \in DOMAIN outbox :
               /\ outbox'[t].event = outbox[t].event
               /\ outbox'[t].status = "projected" /\ ~blank => t \in Applied
      PROVE  ShowInv'
  <2>1. ASSUME NEW t \in Applied' PROVE t \in Applied
    <3>1. /\ t \in DOMAIN outbox /\ ~blank
          /\ \/ outbox'[t].status = "projected"
             \/ \E q \in Projectors : proc'[q].pc = "mark" /\ t = Head(proc'[q].batch)
      BY <1>1, <1>2, <2>1 DEF Applied
    <3>2. ASSUME NEW q \in Projectors, proc'[q].pc = "mark", t = Head(proc'[q].batch)
          PROVE  t \in Applied
      BY <1>1, <1>2, <3>1, <3>2 DEF Applied
    <3> QED BY <1>2, <3>1, <3>2
  <2> QED BY <1>1, <1>2, <2>1, ShownStays
<1>3. ASSUME UNCHANGED <<graph, blank, outbox>>, proc'[p].pc # "mark" PROVE ShowInv'
  <2>1. \A t \in DOMAIN outbox : outbox[t].status = "projected" /\ ~blank => t \in Applied
    BY DEF Applied
  <2> QED BY <1>2, <1>3, <2>1
<1>4. CASE ClearProjection(p)
  <2>1. graph' = EmptyGraph /\ blank'
    BY <1>4 DEF ClearProjection
  <2>2. Applied' = {}
    BY <2>1 DEF Applied
  <2>3. ASSUME NEW x PROVE Shows(outbox', Applied', graph', x)
    BY <2>1, <2>2, NothingShows
  <2>4. TypedSet(DOMAIN graph')
    BY <2>1, EmptyIsTyped
  <2> QED BY <2>3, <2>4 DEF ShowInv
<1>5. CASE ResetForReplay(p)
  <2>1. /\ proc[p].pc = "reset" /\ UNCHANGED graph /\ \E T : outbox' = Marked(T, "pending")
        /\ proc[p].batch = <<>>
    BY <1>1, <1>5 DEF ResetForReplay, Orderly
  <2>2. outbox' = Marked(DOMAIN outbox, "pending")
    <3>1. Range(<<>>) = {}
      BY DEF Range
    <3> QED BY <1>5, <2>1, <3>1 DEF ResetForReplay
  <2>3. \A t \in DOMAIN outbox : /\ outbox'[t].event = outbox[t].event
                                 /\ outbox'[t].status = "pending"
    BY <1>1, <2>2, MarkedRows DEF Statuses
  <2>4. proc'[p].pc # "mark"
    <3>1. \/ proc'[p] = Idle
          \/ proc'[p] = [proc[p] EXCEPT !.pc = "list", !.batch = <<>>]
      BY <1>1, <1>5 DEF ResetForReplay
    <3>2. CASE proc'[p] = Idle
      BY <3>2, IdleRow
    <3>3. CASE proc'[p] = [proc[p] EXCEPT !.pc = "list", !.batch = <<>>]
      BY <1>1, <3>3 DEF ProcType
    <3> QED BY <3>1, <3>2, <3>3
  <2>5. \A q \in Projectors : proc'[q].pc # "mark"
    BY <1>1, <2>1, <2>4 DEF OneAtATime
  <2>6. Applied' = {}
    BY <1>1, <2>3, <2>5 DEF Applied
  <2> QED BY <1>1, <2>1, <2>3, <2>6, ShownStays
<1>6. CASE ApplyEvent(p)
  <2> DEFINE h == Head(proc[p].batch)
             e == outbox[h].event
  <2>1. /\ proc[p].pc = "apply" /\ proc'[p] = [proc[p] EXCEPT !.pc = "mark"]
        /\ UNCHANGED <<outbox, blank>>
    BY <1>1, <1>6 DEF ApplyEvent
  <2>2. proc'[p].pc = "mark" /\ proc'[p].batch = proc[p].batch
    BY <1>1, <2>1 DEF ProcType
  <2>3. h \in DOMAIN outbox /\ PendingFrom(outbox, h)
    BY <1>1, <2>1, AtHead DEF AtEvent, Orderly
  <2>4. graph' = Project(graph, e)
    BY <1>1, <1>6, <2>1 DEF ApplyEvent, Orderly
  <2>5. \A q \in Projectors : proc[q].pc # "mark"
    BY <2>1 DEF OneAtATime
  <2> HIDE DEF h
  <2>6. \A t \in Applied : t = h \/ t < h
    <3>1. ASSUME NEW t \in Applied PROVE t < h
      <4>1. t \in DOMAIN outbox /\ outbox[t].status = "projected"
        BY <2>5, <3>1 DEF Applied
      <4>2. ~(h <= t)
        BY <2>3, <4>1 DEF PendingFrom
      <4> QED BY <2>3, <4>1, <4>2, RowNumbers
    <3> QED BY <3>1
  <2>7. Applied' \subseteq Applied \cup {h}
    <3>1. ASSUME NEW t \in Applied', t # h PROVE t \in Applied
      <4>1. /\ t \in DOMAIN outbox /\ ~blank
            /\ \/ outbox[t].status = "projected"
               \/ \E q \in Projectors : proc'[q].pc = "mark" /\ t = Head(proc'[q].batch)
        BY <2>1, <3>1 DEF Applied
      <4>2. ASSUME NEW q \in Projectors, proc'[q].pc = "mark" PROVE Head(proc'[q].batch) = h
        BY <1>1, <2>2, <2>5, <4>2 DEF h
      <4> QED BY <3>1, <4>1, <4>2 DEF Applied
    <3> QED BY <3>1
  <2>8. TypedSet(DOMAIN graph) /\ Applied \in SUBSET DOMAIN outbox
    BY DEF ShowInv, Applied
  <2>9. TypedSet(DOMAIN graph')
    BY <2>4, <2>8, ProjectTyped
  <2>10. ASSUME NEW x, Anchored(x) PROVE Shows(outbox', Applied', graph', x)
    <3>1. Shows(outbox, Applied, graph, x)
      BY <2>10 DEF ShowInv
    <3>2. Shows(outbox, Applied \cup {h}, graph', x)
      BY <2>3, <2>4, <2>6, <2>8, <2>10, <3>1, ShowsNext
    <3>3. Applied \cup {h} \subseteq DOMAIN outbox
      BY <2>3, <2>8
    <3>4. Shows(outbox, Applied', graph', x)
      BY <2>7, <3>2, <3>3, ShowsLess
    <3> QED BY <2>1, <3>4
  <2> QED BY <2>9, <2>10 DEF ShowInv
<1>7. ASSUME NEW s \in {"projected", "failed"}, NEW f,
             UNCHANGED <<graph, blank>>, proc'[p] = Advanced(proc[p], f),
             outbox' = Marked({Head(proc[p].batch)}, s), proc[p].pc \in AtEvent,
             s = "projected" => proc[p].pc = "mark"
      PROVE  ShowInv'
  <2> DEFINE h == Head(proc[p].batch)
             T == {h}
  <2>1. proc'[p].pc # "mark"
    <3>1. proc'[p].pc \in {"apply", "list", "idle"}
      BY <1>1, <1>7, IdleRow DEF Advanced, ProcType
    <3> QED BY <3>1
  <2>2. h \in DOMAIN outbox /\ s \in Statuses /\ outbox' = Marked(T, s)
    BY <1>7, AtHead DEF Statuses
  <2>3. \A t : t \in T <=> t = h
    OBVIOUS
  <2> HIDE DEF T
  <2>4. \A t \in DOMAIN outbox :
          /\ outbox'[t].event = outbox[t].event
          /\ outbox'[t].status = IF t \in T THEN s ELSE outbox[t].status
    BY <1>1, <2>2, MarkedRows
  <2>5. ASSUME NEW t \in DOMAIN outbox, outbox'[t].status = "projected", ~blank
        PROVE  t \in Applied
    <3>1. CASE t = h
      <4>1. s = "projected"
        BY <2>3, <2>4, <2>5, <3>1
      <4> QED BY <1>7, <2>5, <3>1, <4>1 DEF Applied
    <3>2. CASE t # h
      BY <2>3, <2>4, <2>5, <3>2 DEF Applied
    <3> QED BY <3>1, <3>2
  <2> QED BY <1>2, <1>7, <2>1, <2>4, <2>5
<1>8. CASE MarkProjected(p)
  BY <1>1, <1>7, <1>8 DEF MarkProjected, AtEvent
<1>9. CASE MarkFailed(p)
  BY <1>1, <1>7, <1>9 DEF MarkFailed, AtEvent
<1>10. CASE ChooseFailed(p) \/ ListPending(p) \/ FailEvent(p) \/ CrashProjector(p)
  <2>1. UNCHANGED <<graph, blank, outbox>>
    BY <1>10 DEF ChooseFailed, ListPending, FailEvent, CrashProjector
  <2>2. proc'[p].pc # "mark"
    <3>1. CASE ChooseFailed(p)
      BY <1>1, <3>1 DEF ChooseFailed, Orderly
    <3>2. CASE ListPending(p)
      BY <1>1, <3>2, IdleRow DEF ListPending, ProcType
    <3>3. CASE FailEvent(p)
      BY <1>1, <3>3 DEF FailEvent, ProcType
    <3>4. CASE CrashProjector(p)
      BY <1>1, <3>4, IdleRow DEF CrashProjector
    <3> QED BY <1>10, <3>1, <3>2, <3>3, <3>4
  <2> QED BY <1>3, <2>1, <2>2
<1>11. CASE StartIteration(p) \/ \E cmd \in Commands : StartCommand(p, cmd)
  <2>1. UNCHANGED <<graph, blank, outbox>>
    BY <1>11 DEF StartIteration, StartCommand
  <2>2. proc'[p].pc # "mark"
    <3>1. CASE StartIteration(p)
      BY <1>1, <3>1 DEF StartIteration, Idle
    <3>2. ASSUME NEW cmd \in Commands, StartCommand(p, cmd) PROVE proc'[p].pc # "mark"
      <4>1. proc'[p] = [Idle EXCEPT !.cmd = cmd, !.pc = FirstStep(cmd)]
        BY <1>1, <3>2 DEF StartCommand
      <4>2. proc'[p].pc = FirstStep(cmd)
        BY <4>1 DEF Idle
      <4> QED BY <4>2 DEF FirstStep
    <3> QED BY <1>11, <3>1, <3>2
  <2> QED BY <1>3, <2>1, <2>2
<1> QED BY <1>4, <1>5, <1>6, <1>8, <1>9, <1>10, <1>11 DEF ProjectorStep, Advance

\* A step of a projector leaves the others where they are.
LEMMA ShownInvStays ==
  ASSUME OutboxInv, OrderInv, ShowInv, OneAtATime, AppendsInOrder, WholeReplays, [Next]_vars
  PROVE  OrderInv' /\ ShowInv'
<1>1. ASSUME NEW p \in Projectors, ProjectorStep(p) PROVE OrderInv' /\ ShowInv'
  <2>1. Ordered(outbox') /\ Orderly(proc[p])'
    BY <1>1, OrderGoesOn
  <2>2. ASSUME NEW q \in Projectors, q # p PROVE Orderly(proc[q])'
    <3>1. proc'[q] = proc[q] /\ Orderly(proc[q])
      BY <1>1, <2>2, ProjectorKeeps DEF OrderInv
    <3>2. CASE proc[q].pc = "idle"
      BY <3>1, <3>2 DEF Orderly, AtEvent
    <3>3. CASE proc[q].pc # "idle"
      <4>1. proc[p].pc = "idle"
        BY <2>2, <3>3 DEF OneAtATime
      <4>2. UNCHANGED outbox
        BY <1>1, <4>1 DEF ProjectorStep, Advance, ClearProjection, ChooseFailed,
           ResetForReplay, ListPending, ApplyEvent, MarkProjected, MarkFailed,
           FailEvent, CrashProjector, StartCommand, StartIteration
      <4> QED BY <3>1, <4>2 DEF Orderly, InLine, PendingFrom
    <3> QED BY <3>2, <3>3
  <2>3. OrderInv'
    BY <2>1, <2>2 DEF OrderInv
  <2> QED BY <1>1, <2>3, ShownGoesOn
<1>2. CASE UNCHANGED vars
  <2>1. UNCHANGED <<outbox, graph, proc, blank>>
    BY <1>2 DEF vars
  <2>2. Applied' = Applied
    BY <2>1 DEF Applied
  <2>3. OrderInv'
    BY <2>1 DEF OrderInv, Ordered, Orderly, InLine, PendingFrom
  <2> QED BY <2>1, <2>2, <2>3, ShownStays
<1> QED BY <1>1, <1>2, CallersKeepShown, Steps

LEMMA InitShown ==
  ASSUME Init
  PROVE  OrderInv /\ ShowInv
<1>1. DOMAIN outbox = {} /\ graph = EmptyGraph /\ \A p \in Projectors : proc[p] = Idle
  BY DEF Init
<1>2. OrderInv
  BY <1>1, IdleRow DEF OrderInv, Ordered, Orderly, AtEvent
<1>3. Applied = {}
  BY <1>1 DEF Applied
<1> QED BY <1>1, <1>2, <1>3, EmptyIsTyped, NothingShows DEF ShowInv

LEMMA RecordsAreAnchored == \A x \in RecordNodes : Anchored(x)
<1>1. ASSUME NEW x PROVE Anchored(RecordNode(x))
  <2>1. PICK l \in {"Workflow", "Memory", "WorkflowRun"} : RecordNode(x) = Node(l, x)
    BY DEF RecordNode
  <2> QED BY <2>1, ShapeOfNode DEF Anchored, EventLabels
<1>2. ASSUME NEW x PROVE Anchored(Node("Document", x))
  BY ShapeOfNode DEF Anchored, EventLabels
<1> QED BY <1>1, <1>2 DEF RecordNodes

LEMMA SettledIsReplayed ==
  ASSUME OutboxInv, ShowInv
  PROVE  RecordsAreReplayed
<1> SUFFICES ASSUME Settled, ~blank, NEW x \in RecordNodes
             PROVE  x \in Live(graph) <=> x \in Live(Replayed)
  BY DEF RecordsAreReplayed
<1>1. Anchored(x)
  BY RecordsAreAnchored
<1>2. /\ DOMAIN outbox \subseteq 1..MaxEvents /\ stamps \in 0..MaxEvents
      /\ {t \in DOMAIN outbox : t <= stamps} = DOMAIN outbox
  BY RowNumbers
<1>3. Applied = DOMAIN outbox
  BY DEF Settled, Having, Applied
<1>4. Shows(outbox, DOMAIN outbox, graph, x)
  BY <1>1, <1>3 DEF ShowInv
<1>5. Shows(outbox, DOMAIN outbox, Replayed, x)
  <2> DEFINE upto == {t \in DOMAIN outbox : t <= stamps}
  <2>1. Shows(outbox, upto, Replays(outbox)[stamps], x)
    BY <1>1, <1>2, ReplayShows
  <2>2. upto = DOMAIN outbox
    BY <1>2
  <2> HIDE DEF upto
  <2> QED BY <2>1, <2>2 DEF Replayed
<1> QED BY <1>2, <1>4, <1>5, ShowSame

\* Delivering an event more than once is harmless: whenever nothing is in
\* flight and every event is projected, the graph shows the records that one
\* undisturbed pass over the outbox would show, whatever batches were cut
\* short, failed after their commit, were applied twice or were replayed over
\* the old graph.  One process at a time applies events, none of them is
\* handed out again without the others, and no insert is overtaken
\* (projection_loop.py, rebuild.py:68).
THEOREM DeliveryIsHarmless ==
  ASSUME WholeReplays
  PROVE  Spec /\ []OneAtATime /\ []AppendsInOrder => []RecordsAreReplayed
<1>1. Init => OrderInv /\ ShowInv
  BY InitShown
<1>2. OutboxInv /\ OrderInv /\ ShowInv /\ OneAtATime /\ AppendsInOrder /\ [Next]_vars
        => OrderInv' /\ ShowInv'
  BY ShownInvStays
<1>3. OutboxInv /\ ShowInv => RecordsAreReplayed
  BY SettledIsReplayed
<1> QED BY <1>1, <1>2, <1>3, OutboxInvHolds, PTL DEF Spec

\* Where one request is served at a time and one process applies the events,
\* a healthy outbox means that the graph shows the records of one undisturbed
\* pass, whatever the process and its commands went through.
THEOREM LoneDeliveryIsHarmless ==
  ASSUME WholeReplays, \A c, d \in Callers : c = d, \A p, q \in Projectors : p = q
  PROVE  Spec => []RecordsAreReplayed
<1>1. OneAtATime
  BY DEF OneAtATime
<1>2. Init => AppendsInOrder
  BY DEF Init, AppendsInOrder
<1>3. OutboxInv /\ AppendsInOrder /\ [Next]_vars => AppendsInOrder'
  BY OneRequestInOrder
<1>4. Spec => []AppendsInOrder
  BY <1>2, <1>3, OutboxInvHolds, PTL DEF Spec
<1> QED BY <1>1, <1>4, DeliveryIsHarmless, PTL

-----------------------------------------------------------------------------
(* Sequences of steps.                                                     *)

IsSeq(s) == s \in Seq(Range(s))

\* SetToSeq lists every element of a finite set once.
LEMMA ListsOnce ==
  ASSUME NEW S, IsFiniteSet(S)
  PROVE  LET o == SetToSeq(S)
         IN  /\ o \in Seq(S) /\ Len(o) \in Nat
             /\ \A i \in 1..Len(o) : o[i] \in S
             /\ \A i, j \in 1..Len(o) : o[i] = o[j] => i = j
             /\ \A x \in S : \E i \in 1..Len(o) : o[i] = x
<1> DEFINE n == Cardinality(S)
           o == SetToSeq(S)
<1>1. n \in Nat /\ ExistsBijection(1..n, S)
  BY FS_CardinalityType
<1>2. PICK f : f \in [1..n -> S] /\ IsInjective(f)
  BY <1>1 DEF ExistsBijection, Bijection, Injection
<1>3. o \in [1..n -> S] /\ IsInjective(o)
  BY <1>2 DEF SetToSeq
<1> HIDE DEF o
<1>4. o \in Injection(1..n, S)
  BY <1>3 DEF Injection
<1>5. Cardinality(1..n) = n /\ IsFiniteSet(1..n)
  BY <1>1, FS_Interval
<1>6. o \in Surjection(1..n, S)
  BY <1>4, <1>5, FS_Injection
<1>7. o \in Seq(S) /\ Len(o) = n
  BY <1>1, <1>3
<1>8. \A x \in S : \E i \in 1..n : o[i] = x
  BY <1>6 DEF Surjection
<1>9. \A i, j \in 1..n : o[i] = o[j] => i = j
  BY <1>3 DEF IsInjective
<1> QED BY <1>1, <1>3, <1>7, <1>8, <1>9 DEF o

\* Where the elements of a sequence are in a longer one.
LEMMA JoinedSeqs ==
  ASSUME NEW a, NEW b, IsSeq(a), IsSeq(b)
  PROVE  LET s == a \o b
         IN  /\ IsSeq(s) /\ Len(a) \in Nat /\ Len(b) \in Nat /\ Len(s) = Len(a) + Len(b)
             /\ DOMAIN a = 1..Len(a) /\ DOMAIN b = 1..Len(b)
             /\ DOMAIN s = 1..(Len(a) + Len(b))
             /\ \A i \in 1..Len(a) : s[i] = a[i]
             /\ \A i \in 1..Len(b) : s[Len(a) + i] = b[i]
<1> DEFINE s == a \o b
           T == Range(a) \cup Range(b)
<1>1. a \in Seq(T) /\ b \in Seq(T)
  BY WiderSeq DEF IsSeq
<1>2. /\ s \in Seq(T) /\ Len(a) \in Nat /\ Len(b) \in Nat /\ Len(s) = Len(a) + Len(b)
      /\ DOMAIN a = 1..Len(a) /\ DOMAIN b = 1..Len(b) /\ DOMAIN s = 1..(Len(a) + Len(b))
      /\ \A i \in 1..(Len(a) + Len(b)) :
           s[i] = IF i <= Len(a) THEN a[i] ELSE b[i - Len(a)]
  BY <1>1
<1> HIDE DEF s, T
<1>3. \A i \in 1..Len(a) : s[i] = a[i]
  BY <1>2
<1>4. \A i \in 1..Len(b) : s[Len(a) + i] = b[i]
  BY <1>2
<1>5. IsSeq(s)
  BY <1>2 DEF IsSeq, Range
<1> QED BY <1>2, <1>3, <1>4, <1>5 DEF s

LEMMA OneStep ==
  ASSUME NEW a
  PROVE  IsSeq(<<a>>) /\ Len(<<a>>) = 1 /\ DOMAIN <<a>> = 1..1 /\ <<a>>[1] = a
BY DEF IsSeq, Range

LEMMA NoSteps == IsSeq(<<>>) /\ Len(<<>>) = 0 /\ DOMAIN <<>> = 1..0
BY DEF IsSeq, Range

LEMMA SeqIsSeq ==
  ASSUME NEW S, NEW s \in Seq(S)
  PROVE  IsSeq(s)
<1>1. Len(s) \in Nat /\ s = [i \in 1..Len(s) |-> s[i]] /\ DOMAIN s = 1..Len(s)
  OBVIOUS
<1>2. \A i \in 1..Len(s) : s[i] \in Range(s)
  BY <1>1 DEF Range
<1> QED BY <1>1, <1>2 DEF IsSeq

\* What the first step leaves.
LEMMA RestOf ==
  ASSUME NEW s, IsSeq(s), s # <<>>
  PROVE  /\ IsSeq(Tail(s)) /\ Len(s) \in Nat /\ Len(s) >= 1 /\ Head(s) = s[1]
         /\ DOMAIN s = 1..Len(s) /\ DOMAIN Tail(s) = 1..(Len(s) - 1)
         /\ \A i \in 1..(Len(s) - 1) : Tail(s)[i] = s[i + 1]
         /\ 1 \in DOMAIN s /\ (Tail(s) = <<>> <=> Len(s) = 1)
<1>1. Tail(s) \in Seq(Range(s))
  BY DEF IsSeq
<1>2. IsSeq(Tail(s))
  BY <1>1, SeqIsSeq
<1> QED BY <1>1, <1>2, TailOf DEF IsSeq

\* The recursion of Each is well defined.
LEMMA EachDef ==
  ASSUME NEW steps, IsFiniteSet(DOMAIN steps)
  PROVE  LET order == SetToSeq(DOMAIN steps)
         IN  \E f : /\ f[0] = <<>> /\ Each(steps) = f[Len(order)]
                    /\ \A n \in 1..Len(order) : f[n] = f[n - 1] \o steps[order[n]]
<1> DEFINE order == SetToSeq(DOMAIN steps)
           N == Len(order)
           Value(g, n) == IF n = 0 THEN <<>> ELSE g[n - 1] \o steps[order[n]]
           T == {k \in 0..N : \E g : g = [n \in 0..k |-> Value(g, n)]}
           F == CHOOSE g : g = [n \in 0..N |-> Value(g, n)]
<1>0. N \in Nat
  BY ListsOnce
<1>d. Each(steps) = F[N]
  BY DEF Each
<1> HIDE DEF order, N
<1>1. 0 \in T
  <2> DEFINE g == [n \in 0..0 |-> <<>>]
  <2>1. \A n \in 0..0 : <<>> = Value(g, n)
    OBVIOUS
  <2>2. g = [n \in 0..0 |-> Value(g, n)]
    BY <2>1
  <2> HIDE DEF g, Value
  <2> QED BY <1>0, <2>2
<1>2. ASSUME NEW k \in 1..N, k - 1 \in T PROVE k \in T
  <2>1. PICK f : f = [n \in 0..(k - 1) |-> Value(f, n)]
    BY <1>2
  <2> DEFINE g == [n \in 0..k |-> IF n = k THEN Value(f, k) ELSE f[n]]
  <2>2. \A n \in 0..(k - 1) : g[n] = f[n]
    BY <1>0
  <2>3. ASSUME NEW n \in 0..k PROVE g[n] = Value(g, n)
    <3>1. n = 0 \/ n - 1 \in 0..(k - 1)
      BY <1>0
    <3>2. Value(g, n) = Value(f, n)
      BY <2>2, <3>1
    <3>3. CASE n = k
      BY <3>2, <3>3
    <3>4. CASE n # k
      <4>1. n \in 0..(k - 1)
        BY <1>0, <3>4
      <4>2. f[n] = Value(f, n)
        BY <2>1, <4>1
      <4> QED BY <2>2, <3>2, <4>1, <4>2
    <3> QED BY <3>3, <3>4
  <2> HIDE DEF g
  <2>4. g = [n \in 0..k |-> g[n]]
    BY DEF g
  <2>5. g = [n \in 0..k |-> Value(g, n)]
    BY <2>3, <2>4
  <2> QED BY <1>0, <2>5
<1> HIDE DEF T
<1>3. N \in T
  BY <1>0, <1>1, <1>2, UpTo
<1>4. \E g : g = [n \in 0..N |-> Value(g, n)]
  BY <1>3 DEF T
<1>5. F = [n \in 0..N |-> Value(F, n)]
  BY <1>4
<1> HIDE DEF Value, F
<1>6. \A n \in 0..N : F[n] = Value(F, n)
  BY <1>5
<1>7. F[0] = <<>>
  BY <1>0, <1>6 DEF Value
<1>8. ASSUME NEW n \in 1..N PROVE F[n] = F[n - 1] \o steps[order[n]]
  <2>1. n \in 0..N /\ n # 0
    BY <1>0
  <2> QED BY <1>6, <2>1 DEF Value
<1> QED BY <1>d, <1>7, <1>8 DEF N, order

\* Each(steps) is the blocks steps[x], block x behind the first off[x] steps.
LEMMA EachParts ==
  ASSUME NEW steps, IsFiniteSet(DOMAIN steps), \A x \in DOMAIN steps : IsSeq(steps[x])
  PROVE  LET s == Each(steps)
         IN  /\ IsSeq(s)
             /\ \E off \in [DOMAIN steps -> Nat] :
                  /\ \A x \in DOMAIN steps : \A k \in DOMAIN steps[x] :
                       off[x] + k \in DOMAIN s /\ s[off[x] + k] = steps[x][k]
                  /\ \A i \in DOMAIN s : \E x \in DOMAIN steps : \E k \in DOMAIN steps[x] :
                       i = off[x] + k
<1> DEFINE D == DOMAIN steps
           order == SetToSeq(D)
           N == Len(order)
<1>1. /\ N \in Nat /\ \A i \in 1..N : order[i] \in D
      /\ \A i, j \in 1..N : order[i] = order[j] => i = j
      /\ \A x \in D : \E i \in 1..N : order[i] = x
  BY ListsOnce
<1>2. PICK f : /\ f[0] = <<>> /\ Each(steps) = f[N]
               /\ \A n \in 1..N : f[n] = f[n - 1] \o steps[order[n]]
  BY EachDef
<1> HIDE DEF order, N
<1> DEFINE Block(j) == steps[order[j]]
           Parts(n) ==
             /\ IsSeq(f[n]) /\ Len(f[n]) \in Nat /\ DOMAIN f[n] = 1..Len(f[n])
             /\ \A j \in 1..n : /\ Len(f[j - 1]) \in Nat
                                /\ \A k \in DOMAIN Block(j) :
                                     /\ Len(f[j - 1]) + k \in DOMAIN f[n]
                                     /\ f[n][Len(f[j - 1]) + k] = Block(j)[k]
             /\ \A i \in DOMAIN f[n] : \E j \in 1..n : \E k \in DOMAIN Block(j) :
                  i = Len(f[j - 1]) + k
           T == {n \in 0..N : Parts(n)}
<1>3. 0 \in T
  BY <1>1, <1>2, NoSteps
<1>4. ASSUME NEW n \in 1..N, n - 1 \in T PROVE n \in T
  <2> DEFINE a == f[n - 1]
             b == Block(n)
  <2>1. Parts(n - 1) /\ n \in Nat /\ n - 1 \in Nat
    BY <1>1, <1>4
  <2>2. IsSeq(b) /\ order[n] \in D
    BY <1>1, <1>4
  <2>3. f[n] = a \o b
    BY <1>2
  <2>4. /\ IsSeq(f[n]) /\ Len(a) \in Nat /\ Len(b) \in Nat /\ Len(f[n]) = Len(a) + Len(b)
        /\ DOMAIN a = 1..Len(a) /\ DOMAIN b = 1..Len(b)
        /\ DOMAIN f[n] = 1..(Len(a) + Len(b))
        /\ \A i \in 1..Len(a) : f[n][i] = a[i]
        /\ \A i \in 1..Len(b) : f[n][Len(a) + i] = b[i]
    <3> HIDE DEF a, b
    <3> QED BY <2>1, <2>2, <2>3, JoinedSeqs DEF a
  <2>5. ASSUME NEW j \in 1..n
        PROVE  /\ Len(f[j - 1]) \in Nat
               /\ \A k \in DOMAIN Block(j) : /\ Len(f[j - 1]) + k \in DOMAIN f[n]
                                             /\ f[n][Len(f[j - 1]) + k] = Block(j)[k]
    <3>1. CASE j = n
      <4>1. a = f[j - 1] /\ b = Block(j)
        BY <3>1
      <4> HIDE DEF Block, a, b
      <4>2. Len(a) \in Nat /\ \A k \in DOMAIN b : Len(a) + k \in DOMAIN f[n]
        BY <2>4
      <4>3. \A k \in DOMAIN b : f[n][Len(a) + k] = b[k]
        BY <2>4
      <4> QED BY <4>1, <4>2, <4>3
    <3>2. CASE j # n
      <4>1. j \in 1..(n - 1)
        BY <2>1, <3>2
      <4>2. /\ Len(f[j - 1]) \in Nat
            /\ \A k \in DOMAIN Block(j) : Len(f[j - 1]) + k \in 1..Len(a)
                                          /\ a[Len(f[j - 1]) + k] = Block(j)[k]
        BY <2>1, <2>4, <4>1
      <4> HIDE DEF Block, a
      <4> QED BY <2>4, <4>2
    <3> QED BY <3>1, <3>2
  <2>6. ASSUME NEW i \in DOMAIN f[n]
        PROVE  \E j \in 1..n : \E k \in DOMAIN Block(j) : i = Len(f[j - 1]) + k
    <3>1. CASE i \in 1..Len(a)
      <4>1. PICK j \in 1..(n - 1) : \E k \in DOMAIN Block(j) : i = Len(f[j - 1]) + k
        BY <2>1, <2>4, <3>1
      <4>2. j \in 1..n
        BY <2>1
      <4> HIDE DEF Block
      <4> QED BY <4>1, <4>2
    <3>2. CASE i \notin 1..Len(a)
      <4>1. i - Len(a) \in DOMAIN b /\ i = Len(a) + (i - Len(a))
        <5> HIDE DEF a, b
        <5> QED BY <2>4, <3>2
      <4>2. n \in 1..n
        BY <2>1
      <4> HIDE DEF Block
      <4> QED BY <4>1, <4>2
    <3> QED BY <3>1, <3>2
  <2>7. Parts(n)
    <3> HIDE DEF Block
    <3> QED BY <2>4, <2>5, <2>6
  <2> HIDE DEF Parts
  <2> QED BY <2>7
<1> HIDE DEF T
<1>5. N \in T
  BY <1>1, <1>3, <1>4, UpTo
<1>6. Parts(N)
  BY <1>5 DEF T
<1> DEFINE place(x) == CHOOSE i \in 1..N : order[i] = x
           off == [x \in D |-> Len(f[place(x) - 1])]
<1>7. ASSUME NEW x \in D
      PROVE  place(x) \in 1..N /\ Block(place(x)) = steps[x]
  BY <1>1
<1>8. ASSUME NEW j \in 1..N PROVE order[j] \in D /\ place(order[j]) = j
  <2>1. order[j] \in D
    BY <1>1
  <2>2. place(order[j]) \in 1..N /\ order[place(order[j])] = order[j]
    BY <2>1
  <2> QED BY <1>1, <2>1, <2>2
<1> HIDE DEF place, D
<1>9. off \in [D -> Nat]
  BY <1>6, <1>7
<1>10. ASSUME NEW x \in D, NEW k \in DOMAIN steps[x]
       PROVE  off[x] + k \in DOMAIN f[N] /\ f[N][off[x] + k] = steps[x][k]
  <2>1. place(x) \in 1..N /\ Block(place(x)) = steps[x]
    BY <1>7
  <2>2. /\ Len(f[place(x) - 1]) + k \in DOMAIN f[N]
        /\ f[N][Len(f[place(x) - 1]) + k] = Block(place(x))[k]
    BY <1>6, <2>1
  <2> QED BY <2>1, <2>2
<1>11. ASSUME NEW i \in DOMAIN f[N]
       PROVE  \E x \in D : \E k \in DOMAIN steps[x] : i = off[x] + k
  <2>1. PICK j \in 1..N : \E k \in DOMAIN Block(j) : i = Len(f[j - 1]) + k
    BY <1>6
  <2>2. order[j] \in D /\ off[order[j]] = Len(f[j - 1])
    BY <1>8
  <2> QED BY <2>1, <2>2
<1> HIDE DEF off
<1>12. IsSeq(f[N])
  BY <1>6
<1> QED BY <1>2, <1>9, <1>10, <1>11, <1>12 DEF D

-----------------------------------------------------------------------------
(* The types of the tables and of the steps still to do.                   *)

\* A row of record x, with a number of events up to n, one more while it lives.
RowOK(x, r, n) ==
  /\ r \in [live : BOOLEAN, known : BOOLEAN, refs : {r.refs}, seq : Nat]
  /\ r.live => r.known
  /\ r.seq <= IF r.live THEN n + 1 ELSE n
  /\ x \in Memories => IsFiniteSet(r.refs.document)

\* A write is followed by the append that tells of it.
StepOK(steps, i, n) ==
  /\ steps[i].do \in {"write", "append"}
  /\ steps[i].do = "write" =>
       /\ i + 1 \in DOMAIN steps /\ steps[i + 1].do = "append"
       /\ DOMAIN steps[i].new \subseteq Records
       /\ \A x \in DOMAIN steps[i].new : RowOK(x, steps[i].new[x], n)
StepsOK(steps, n) == IsSeq(steps) /\ \A i \in DOMAIN steps : StepOK(steps, i, n)

TypeInv ==
  /\ DOMAIN rows = Records
  /\ \A x \in Records : RowOK(x, rows[x], stamps) /\ rows[x].seq <= stamps
  /\ \A c \in Callers : StepsOK(todo[c], stamps)
  /\ \A x \in DOMAIN graph : graph[x] \in BOOLEAN
  /\ commands \in 0..MaxCommands /\ faults \in 0..MaxFaults /\ blank \in BOOLEAN

LEMMA StepsLater ==
  ASSUME NEW n \in Nat, NEW m \in Nat, n <= m
  PROVE  /\ \A x, r : RowOK(x, r, n) => RowOK(x, r, m)
         /\ \A s : StepsOK(s, n) => StepsOK(s, m)
<1>1. ASSUME NEW x, NEW r, RowOK(x, r, n) PROVE RowOK(x, r, m)
  <2>1. r.seq \in Nat
    BY <1>1 DEF RowOK
  <2>2. r.seq <= IF r.live THEN m + 1 ELSE m
    BY <1>1, <2>1 DEF RowOK
  <2> QED BY <1>1, <2>2 DEF RowOK
<1>2. ASSUME NEW s, StepsOK(s, n) PROVE StepsOK(s, m)
  BY <1>1, <1>2 DEF StepsOK, StepOK
<1> QED BY <1>1, <1>2

LEMMA StepsJoined ==
  ASSUME NEW a, NEW b, NEW n, StepsOK(a, n), StepsOK(b, n)
  PROVE  StepsOK(a \o b, n)
<1> DEFINE s == a \o b
<1>1. /\ IsSeq(s) /\ Len(a) \in Nat /\ Len(b) \in Nat /\ Len(s) = Len(a) + Len(b)
      /\ DOMAIN a = 1..Len(a) /\ DOMAIN b = 1..Len(b)
      /\ DOMAIN s = 1..(Len(a) + Len(b))
      /\ \A i \in 1..Len(a) : s[i] = a[i]
      /\ \A i \in 1..Len(b) : s[Len(a) + i] = b[i]
  BY JoinedSeqs DEF StepsOK
<1> HIDE DEF s
<1>2. ASSUME NEW i \in DOMAIN s PROVE StepOK(s, i, n)
  <2>1. CASE i \in 1..Len(a)
    <3>1. s[i] = a[i] /\ StepOK(a, i, n)
      BY <1>1, <2>1 DEF StepsOK
    <3>2. i + 1 \in DOMAIN a => i + 1 \in DOMAIN s /\ s[i + 1] = a[i + 1]
      BY <1>1, <2>1
    <3> QED BY <3>1, <3>2 DEF StepOK
  <2>2. CASE i \notin 1..Len(a)
    <3> DEFINE j == i - Len(a)
    <3>1. j \in 1..Len(b) /\ i = Len(a) + j
      BY <1>1, <2>2
    <3>2. s[i] = b[j] /\ StepOK(b, j, n)
      BY <1>1, <3>1 DEF StepsOK
    <3>3. j + 1 \in DOMAIN b => i + 1 \in DOMAIN s /\ s[i + 1] = b[j + 1]
      <4>1. ASSUME j + 1 \in DOMAIN b PROVE i + 1 \in DOMAIN s /\ s[i + 1] = b[j + 1]
        <5>1. j + 1 \in 1..Len(b) /\ i + 1 = Len(a) + (j + 1)
          BY <1>1, <3>1, <4>1
        <5> QED BY <1>1, <5>1
      <4> QED BY <4>1
    <3> QED BY <3>2, <3>3 DEF StepOK
  <2> QED BY <2>1, <2>2
<1> QED BY <1>1, <1>2 DEF StepsOK, s

LEMMA EnqueueOK ==
  ASSUME NEW e, NEW k, NEW n
  PROVE  StepsOK(Enqueue(e, k), n) /\ Enqueue(e, k) # <<>> /\ Enqueue(e, k)[1].do = "append"
<1> DEFINE a == [do |-> "append", event |-> e, key |-> k]
<1>1. IsSeq(<<a>>) /\ Len(<<a>>) = 1 /\ DOMAIN <<a>> = 1..1 /\ <<a>>[1] = a
  BY OneStep
<1> QED BY <1>1 DEF Enqueue, StepsOK, StepOK

\* A write and what follows it.
LEMMA WriteOK ==
  ASSUME NEW new, NEW n, NEW b, StepsOK(b, n), b # <<>>, b[1].do = "append",
         DOMAIN new \subseteq Records, \A x \in DOMAIN new : RowOK(x, new[x], n)
  PROVE  StepsOK(Write(new) \o b, n)
<1> DEFINE w == [do |-> "write", new |-> new]
           s == <<w>> \o b
<1>1. IsSeq(<<w>>) /\ Len(<<w>>) = 1 /\ DOMAIN <<w>> = 1..1 /\ <<w>>[1] = w
  BY OneStep
<1>2. /\ IsSeq(s) /\ Len(b) \in Nat /\ Len(s) = 1 + Len(b)
      /\ DOMAIN b = 1..Len(b) /\ DOMAIN s = 1..(1 + Len(b))
      /\ \A i \in 1..1 : s[i] = <<w>>[i]
      /\ \A i \in 1..Len(b) : s[1 + i] = b[i]
  <2> HIDE DEF w
  <2> QED BY <1>1, JoinedSeqs DEF StepsOK
<1>3. Len(b) >= 1
  BY RestOf DEF StepsOK
<1> HIDE DEF s
<1>4. s[1] = w /\ s[2] = b[1] /\ 2 \in DOMAIN s
  BY <1>1, <1>2, <1>3
<1>5. StepOK(s, 1, n)
  BY <1>4 DEF StepOK
<1>6. ASSUME NEW i \in DOMAIN s, i # 1 PROVE StepOK(s, i, n)
  <2> DEFINE j == i - 1
  <2>1. j \in 1..Len(b) /\ i = 1 + j
    BY <1>2, <1>6
  <2>2. s[i] = b[j] /\ StepOK(b, j, n)
    BY <1>2, <2>1 DEF StepsOK
  <2>3. ASSUME j + 1 \in DOMAIN b PROVE i + 1 \in DOMAIN s /\ s[i + 1] = b[j + 1]
    <3>1. j + 1 \in 1..Len(b) /\ i + 1 = 1 + (j + 1)
      BY <1>2, <2>1, <2>3
    <3> QED BY <1>2, <3>1
  <2> QED BY <2>2, <2>3 DEF StepOK
<1> QED BY <1>2, <1>5, <1>6 DEF StepsOK, Write, s

LEMMA EachOK ==
  ASSUME NEW steps, NEW n, IsFiniteSet(DOMAIN steps),
         \A x \in DOMAIN steps : StepsOK(steps[x], n)
  PROVE  StepsOK(Each(steps), n)
<1> DEFINE s == Each(steps)
<1>1. \A x \in DOMAIN steps : IsSeq(steps[x])
  BY DEF StepsOK
<1>2. IsSeq(s)
  BY <1>1, EachParts
<1>3. PICK off \in [DOMAIN steps -> Nat] :
         /\ \A x \in DOMAIN steps : \A k \in DOMAIN steps[x] :
              off[x] + k \in DOMAIN s /\ s[off[x] + k] = steps[x][k]
         /\ \A i \in DOMAIN s : \E x \in DOMAIN steps : \E k \in DOMAIN steps[x] :
              i = off[x] + k
  BY <1>1, EachParts
<1> HIDE DEF s
<1>4. ASSUME NEW i \in DOMAIN s PROVE StepOK(s, i, n)
  <2>0. PICK x \in DOMAIN steps : \E k \in DOMAIN steps[x] : i = off[x] + k
    BY <1>3
  <2>1. PICK k \in DOMAIN steps[x] : i = off[x] + k
    BY <2>0
  <2>2. DOMAIN steps[x] = 1..Len(steps[x]) /\ k \in Int /\ off[x] \in Int
    BY <1>1 DEF IsSeq
  <2>3. s[i] = steps[x][k] /\ StepOK(steps[x], k, n)
    BY <1>3, <2>1 DEF StepsOK
  <2>4. ASSUME k + 1 \in DOMAIN steps[x]
        PROVE  i + 1 \in DOMAIN s /\ s[i + 1] = steps[x][k + 1]
    <3>1. i + 1 = off[x] + (k + 1)
      BY <2>1, <2>2
    <3> QED BY <1>3, <2>4, <3>1
  <2> QED BY <2>3, <2>4 DEF StepOK
<1> QED BY <1>2, <1>4 DEF StepsOK, s

\* The events of a memory.
LEMMA MemoryEventsOK ==
  ASSUME NEW type, NEW m, NEW refs, NEW n
  PROVE  /\ StepsOK(MemoryEvents(type, m, refs), n) /\ MemoryEvents(type, m, refs) # <<>>
         /\ MemoryEvents(type, m, refs)[1].do = "append"
         /\ \A i \in DOMAIN MemoryEvents(type, m, refs) :
              /\ MemoryEvents(type, m, refs)[i].do = "append"
              /\ "do" \in DOMAIN MemoryEvents(type, m, refs)[i]
<1> DEFINE a == [do |-> "append", event |-> Event(type, "memory", m, 0, refs), key |-> None]
           f == Event("memory.entities.extracted", "memory", m, 0,
                      [NoRefs EXCEPT !.entity = Extracted, !.document = refs.document])
           b == [do |-> "append", event |-> f, key |-> None]
           s == MemoryEvents(type, m, refs)
<1> HIDE DEF f
<1>1. s = <<a>> \o (IF Extracted = {} THEN <<>> ELSE <<b>>)
  BY DEF MemoryEvents, Enqueue, f
<1>2. s = IF Extracted = {} THEN <<a>> ELSE <<a, b>>
  BY <1>1
<1>3. a.do = "append" /\ b.do = "append" /\ "do" \in DOMAIN a /\ "do" \in DOMAIN b
  OBVIOUS
<1> HIDE DEF a, b, s
<1>4. s \in Seq({a, b}) /\ s # <<>> /\ 1 \in DOMAIN s /\ \A i \in DOMAIN s : s[i] \in {a, b}
  <2>1. CASE s = <<a>>
    BY <2>1
  <2>2. CASE s = <<a, b>>
    <3>1. s \in Seq({a, b}) /\ s # <<>> /\ DOMAIN s = {1, 2} /\ s[1] = a /\ s[2] = b
      BY <2>2
    <3> QED BY <3>1
  <2> QED BY <1>2, <2>1, <2>2
<1>5. IsSeq(s)
  BY <1>4, SeqIsSeq
<1> QED BY <1>3, <1>4, <1>5 DEF StepsOK, StepOK, s

\* The rows the handlers write.
LEMMA WrittenRows ==
  ASSUME TypeInv, stamps \in Nat, NEW x
  PROVE  /\ \A refs : (x \in Memories => IsFiniteSet(refs.document))
                        => RowOK(x, Stored(refs), stamps)
         /\ x \in Records => RowOK(x, Removed(x), stamps)
         /\ x \in Records => \A refs : (x \in Memories => IsFiniteSet(refs.document))
              => RowOK(x, [Stored(refs) EXCEPT !.seq = rows[x].seq + 1], stamps)
         /\ x \in Memories => IsFiniteSet(rows[x].refs.document)
<1>1. ASSUME NEW refs, x \in Memories => IsFiniteSet(refs.document)
      PROVE  RowOK(x, Stored(refs), stamps)
  BY <1>1 DEF RowOK, Stored
<1>2. x \in Records => RowOK(x, rows[x], stamps) /\ rows[x].seq \in Nat /\ rows[x].seq <= stamps
  BY DEF TypeInv, RowOK
<1>3. ASSUME x \in Records PROVE RowOK(x, Removed(x), stamps)
  <2>1. /\ rows[x] \in [live : BOOLEAN, known : BOOLEAN, refs : {rows[x].refs}, seq : Nat]
        /\ rows[x].seq <= stamps /\ (x \in Memories => IsFiniteSet(rows[x].refs.document))
    BY <1>2, <1>3 DEF RowOK
  <2>2. /\ Removed(x) \in [live : BOOLEAN, known : BOOLEAN, refs : {Removed(x).refs}, seq : Nat]
        /\ Removed(x).live = FALSE /\ Removed(x).seq = rows[x].seq
        /\ Removed(x).refs = rows[x].refs
    BY <2>1 DEF Removed
  <2> QED BY <2>1, <2>2 DEF RowOK
<1>4. ASSUME x \in Records, NEW refs, x \in Memories => IsFiniteSet(refs.document)
      PROVE  RowOK(x, [Stored(refs) EXCEPT !.seq = rows[x].seq + 1], stamps)
  <2> DEFINE next == rows[x].seq + 1
             r == [Stored(refs) EXCEPT !.seq = next]
  <2>1. next \in Nat /\ next <= stamps + 1
    BY <1>2, <1>4
  <2> HIDE DEF next
  <2>2. Stored(refs) \in [live : {TRUE}, known : {TRUE}, refs : {refs}, seq : {0}]
    BY DEF Stored
  <2>3. r \in [live : {TRUE}, known : {TRUE}, refs : {refs}, seq : {next}]
    BY <2>2
  <2> HIDE DEF r
  <2>4. r.live = TRUE /\ r.known = TRUE /\ r.refs = refs /\ r.seq = next
    BY <2>3
  <2>5. r \in [live : BOOLEAN, known : BOOLEAN, refs : {r.refs}, seq : Nat]
    BY <2>1, <2>3, <2>4
  <2>6. RowOK(x, r, stamps)
    BY <1>4, <2>1, <2>4, <2>5 DEF RowOK
  <2> QED BY <2>6 DEF r, next
<1>5. x \in Memories => IsFiniteSet(rows[x].refs.document)
  BY <1>2 DEF RowOK, Records
<1> QED BY <1>1, <1>3, <1>4, <1>5

LEMMA OneRow ==
  ASSUME NEW x, NEW r
  PROVE  DOMAIN One(x, r) = {x} /\ One(x, r)[x] = r
BY DEF One

\* A handler that writes one row and appends.
LEMMA OneWriteOK ==
  ASSUME NEW x \in Records, NEW r, NEW b, RowOK(x, r, stamps),
         StepsOK(b, stamps), b # <<>>, b[1].do = "append"
  PROVE  StepsOK(Write(One(x, r)) \o b, stamps)
<1> DEFINE new == One(x, r)
<1>1. DOMAIN new = {x} /\ new[x] = r
  BY OneRow
<1> HIDE DEF new
<1>2. DOMAIN new \subseteq Records /\ \A y \in DOMAIN new : RowOK(y, new[y], stamps)
  BY <1>1
<1>3. StepsOK(Write(new) \o b, stamps)
  BY <1>2, WriteOK
<1> QED BY <1>3 DEF new

LEMMA WorkflowSavedOK ==
  ASSUME NEW w, NEW refs
  PROVE  /\ StepsOK(WorkflowSaved(w, refs), stamps) /\ WorkflowSaved(w, refs) # <<>>
         /\ WorkflowSaved(w, refs)[1].do = "append"
BY EnqueueOK DEF WorkflowSaved

LEMMA RecordKinds ==
  /\ Workflows \subseteq Records /\ Memories \subseteq Records /\ Executions \subseteq Records
  /\ Links \subseteq Records /\ Personas \subseteq Records
  /\ \A x \in Records : x \notin Memories
       <=> x \in Workflows \cup Executions \cup Links \cup Personas
BY RecordsAssumption DEF Records

\* A request of c begins with steps of the right type.
Opens(c) == \E steps : StepsOK(steps, stamps) /\ Continue(c, steps)
                       /\ UNCHANGED <<rows, graph, commands, faults, blank>>

LEMMA OpensWith ==
  ASSUME NEW c, NEW op, NEW steps, Begin(c, op, steps), StepsOK(steps, stamps)
  PROVE  Opens(c)
BY DEF Opens, Begin

LEMMA WorkflowRequestsOK ==
  ASSUME TypeInv, stamps \in Nat, NEW c, NEW w \in Workflows
  PROVE  /\ \A refs : SaveWorkflow(c, w, refs) => Opens(c)
         /\ DeleteWorkflow(c, w) => Opens(c)
<1>1. w \in Records /\ w \notin Memories
  BY RecordKinds
<1>2. ASSUME NEW refs, SaveWorkflow(c, w, refs) PROVE Opens(c)
  <2>1. StepsOK(Write(One(w, Stored(refs))) \o WorkflowSaved(w, refs), stamps)
    BY <1>1, WrittenRows, WorkflowSavedOK, OneWriteOK
  <2> QED BY <1>2, <2>1, OpensWith DEF SaveWorkflow
<1>3. ASSUME DeleteWorkflow(c, w) PROVE Opens(c)
  <2> DEFINE b == Enqueue(Event("workflow.deleted", "workflow", w, 0, rows[w].refs), None)
  <2>1. StepsOK(b, stamps) /\ b # <<>> /\ b[1].do = "append"
    BY EnqueueOK
  <2>2. RowOK(w, Removed(w), stamps)
    BY <1>1, WrittenRows
  <2>3. Begin(c, "workflow", Write(One(w, Removed(w))) \o b)
    BY <1>3 DEF DeleteWorkflow
  <2> HIDE DEF b
  <2> QED BY <1>1, <2>1, <2>2, <2>3, OneWriteOK, OpensWith
<1> QED BY <1>2, <1>3

LEMMA MemoryRemovalOK ==
  ASSUME TypeInv, stamps \in Nat, NEW m \in Memories
  PROVE  StepsOK(MemoryRemoval(m), stamps)
<1>1. m \in Records /\ RowOK(m, Removed(m), stamps)
  BY RecordKinds, WrittenRows
<1> QED BY <1>1, MemoryEventsOK, OneWriteOK DEF MemoryRemoval

LEMMA MemoryRequestsOK ==
  ASSUME TypeInv, stamps \in Nat, NEW c, NEW m \in Memories
  PROVE  /\ \A refs \in MemoryRefs : CreateMemory(c, m, refs) \/ UpdateMemory(c, m, refs)
                                       => Opens(c)
         /\ DeleteMemory(c, m) => Opens(c)
         /\ \A refs : ApproveHints(c, m, refs) \/ ApprovePersonaItem(c, m, refs) => Opens(c)
<1>1. m \in Records
  BY RecordKinds
<1>2. ASSUME NEW refs \in MemoryRefs, NEW type
      PROVE  StepsOK(Write(One(m, Stored(refs))) \o MemoryEvents(type, m, refs), stamps)
  <2>1. RowOK(m, Stored(refs), stamps)
    BY RecordsAssumption, WrittenRows
  <2> QED BY <1>1, <2>1, MemoryEventsOK, OneWriteOK
<1>3. ASSUME NEW refs \in MemoryRefs, CreateMemory(c, m, refs) \/ UpdateMemory(c, m, refs)
      PROVE  Opens(c)
  BY <1>2, <1>3, OpensWith DEF CreateMemory, UpdateMemory
<1>4. DeleteMemory(c, m) => Opens(c)
  BY MemoryRemovalOK, OpensWith DEF DeleteMemory
<1>5. ASSUME NEW refs, ApproveHints(c, m, refs) \/ ApprovePersonaItem(c, m, refs)
      PROVE  Opens(c)
  BY <1>5, EnqueueOK, OpensWith DEF ApproveHints, ApprovePersonaItem
<1> QED BY <1>3, <1>4, <1>5

LEMMA DocumentRequestsOK ==
  ASSUME TypeInv, stamps \in Nat, NEW c, NEW u \in Uploads
  PROVE  UploadDocument(c, u[1], u[2]) \/ DeleteDocument(c, u[1]) => Opens(c)
<1>1. ASSUME UploadDocument(c, u[1], u[2]) PROVE Opens(c)
  <2> DEFINE refs == [NoRefs EXCEPT !.document = {u[1]}]
             blocks == [m \in u[2] |-> Write(One(m, Stored(refs)))
                                       \o MemoryEvents("memory.created", m, refs)]
             last == Enqueue(Event("document_memory_collection.created",
                                   "document_memory_collection", u[1], 0,
                                   [NoRefs EXCEPT !.memory = u[2]]), None)
  <2>1. u[2] \subseteq Memories /\ IsFiniteSet(u[2])
    BY RecordsAssumption, FS_Subset
  <2>2. IsFiniteSet(refs.document)
    BY FS_Singleton DEF NoRefs
  <2>3. Begin(c, "document", Each(blocks) \o last)
    BY <1>1 DEF UploadDocument
  <2> HIDE DEF refs
  <2>4. ASSUME NEW m \in u[2] PROVE StepsOK(blocks[m], stamps)
    <3>1. m \in Records /\ RowOK(m, Stored(refs), stamps)
      BY <2>1, <2>2, RecordKinds, WrittenRows
    <3>2. StepsOK(Write(One(m, Stored(refs))) \o MemoryEvents("memory.created", m, refs),
                  stamps)
      BY <3>1, MemoryEventsOK, OneWriteOK
    <3> QED BY <3>2
  <2>5. DOMAIN blocks = u[2] /\ StepsOK(last, stamps)
    BY EnqueueOK
  <2> HIDE DEF blocks, last
  <2> QED BY <2>1, <2>3, <2>4, <2>5, EachOK, StepsJoined, OpensWith
<1>2. ASSUME DeleteDocument(c, u[1]) PROVE Opens(c)
  <2> DEFINE ms == {m \in Memories : rows[m].live /\ u[1] \in rows[m].refs.document}
             blocks == [m \in ms |-> MemoryRemoval(m)]
             last == Enqueue(Event("document_memory_collection.deleted",
                                   "document_memory_collection", u[1], 0,
                                   [NoRefs EXCEPT !.memory = ms]), None)
  <2>1. ms \subseteq Memories /\ IsFiniteSet(ms)
    BY RecordsAssumption, FS_Subset
  <2>3. Begin(c, "document", Each(blocks) \o last)
    BY <1>2 DEF DeleteDocument
  <2>4. ASSUME NEW m \in ms PROVE StepsOK(blocks[m], stamps)
    BY <2>1, MemoryRemovalOK
  <2>5. DOMAIN blocks = ms /\ StepsOK(last, stamps)
    BY EnqueueOK
  <2> HIDE DEF blocks, last, ms
  <2> QED BY <2>1, <2>3, <2>4, <2>5, EachOK, StepsJoined, OpensWith
<1> QED BY <1>1, <1>2

LEMMA LinkRequestsOK ==
  ASSUME TypeInv, stamps \in Nat, NEW c, NEW l \in Links, NEW w \in Workflows
  PROVE  /\ \A refs : SaveLink(c, l, w, refs) => Opens(c)
         /\ DeleteLink(c, l, w) => Opens(c)
<1>1. {w, l} \subseteq Records /\ w \notin Memories /\ l \notin Memories
  BY RecordKinds, RecordsAssumption
<1>2. ASSUME NEW refs, SaveLink(c, l, w, refs) PROVE Opens(c)
  <2> DEFINE new == [x \in {w, l} |-> Stored(IF x = w THEN rows[w].refs ELSE refs)]
             saved == WorkflowSaved(w, rows[w].refs)
             told == Enqueue(LinkEvent(IF rows[l].live THEN "workflow_memory_link.updated"
                                       ELSE "workflow_memory_link.created", l, refs), None)
  <2>1. \A x \in {w, l} : RowOK(x, new[x], stamps)
    BY <1>1, WrittenRows
  <2>2. StepsOK(Write(new) \o saved, stamps)
    <3>1. DOMAIN new = {w, l}
      OBVIOUS
    <3> HIDE DEF new, saved
    <3> QED BY <1>1, <2>1, <3>1, WorkflowSavedOK, WriteOK DEF saved
  <2>3. Begin(c, "link", Write(new) \o saved \o told)
    BY <1>2 DEF SaveLink
  <2>4. StepsOK(told, stamps)
    BY EnqueueOK
  <2> HIDE DEF new, saved, told
  <2> QED BY <2>2, <2>3, <2>4, StepsJoined, OpensWith
<1>3. ASSUME DeleteLink(c, l, w) PROVE Opens(c)
  <2> DEFINE new == [x \in {w, l} |-> IF x = w THEN Stored(rows[w].refs) ELSE Removed(l)]
             saved == WorkflowSaved(w, rows[w].refs)
             told == Enqueue(LinkEvent("workflow_memory_link.deleted", l, rows[l].refs), None)
  <2>1. \A x \in {w, l} : RowOK(x, new[x], stamps)
    BY <1>1, WrittenRows
  <2>2. StepsOK(Write(new) \o saved, stamps)
    <3>1. DOMAIN new = {w, l}
      OBVIOUS
    <3> HIDE DEF new, saved
    <3> QED BY <1>1, <2>1, <3>1, WorkflowSavedOK, WriteOK DEF saved
  <2>3. Begin(c, "link", Write(new) \o saved \o told)
    BY <1>3 DEF DeleteLink
  <2>4. StepsOK(told, stamps)
    BY EnqueueOK
  <2> HIDE DEF new, saved, told
  <2> QED BY <2>2, <2>3, <2>4, StepsJoined, OpensWith
<1> QED BY <1>2, <1>3

LEMMA RunRequestsOK ==
  ASSUME TypeInv, stamps \in Nat, NEW c
  PROVE  /\ \A x \in Executions : \A type, refs : EmitEvent(c, x, type, refs) => Opens(c)
         /\ \A x \in Executions : DeleteExecution(c, x) => Opens(c)
         /\ \A p \in Personas : \A type, refs : EmitPersona(c, p, type, refs) => Opens(c)
<1>1. \A x \in Executions \cup Personas : x \in Records /\ x \notin Memories
  BY RecordKinds, RecordsAssumption
<1>2. ASSUME NEW x \in Executions, NEW type, NEW refs, EmitEvent(c, x, type, refs)
      PROVE  Opens(c)
  <2> DEFINE r == [Stored(refs) EXCEPT !.seq = rows[x].seq + 1]
             told == Enqueue(RunEvent(x, type, refs, rows[x].seq + 1),
                             <<"execution", x, rows[x].seq + 1>>)
  <2>1. Begin(c, "execution", Write(One(x, r)) \o told)
    BY <1>2 DEF EmitEvent
  <2>2. RowOK(x, r, stamps)
    BY <1>1, WrittenRows
  <2>3. StepsOK(told, stamps) /\ told # <<>> /\ told[1].do = "append"
    BY EnqueueOK
  <2> HIDE DEF r, told
  <2> QED BY <1>1, <2>1, <2>2, <2>3, OneWriteOK, OpensWith
<1>3. ASSUME NEW x \in Executions, DeleteExecution(c, x) PROVE Opens(c)
  <2> DEFINE told == Enqueue(Event("execution.deleted", "workflow_run", x, 0, NoRefs),
                             <<"deleted", x, 0>>)
  <2>1. Begin(c, "execution", Write(One(x, Removed(x))) \o told)
    BY <1>3 DEF DeleteExecution
  <2>2. RowOK(x, Removed(x), stamps)
    BY <1>1, WrittenRows
  <2>3. StepsOK(told, stamps) /\ told # <<>> /\ told[1].do = "append"
    BY EnqueueOK
  <2> HIDE DEF told
  <2> QED BY <1>1, <2>1, <2>2, <2>3, OneWriteOK, OpensWith
<1>4. ASSUME NEW p \in Personas, NEW type, NEW refs, EmitPersona(c, p, type, refs)
      PROVE  Opens(c)
  <2> DEFINE told == Enqueue(Event(type, "persona", p, 0, refs), None)
  <2>1. Begin(c, "persona", Write(One(p, Stored(refs))) \o told)
    BY <1>4 DEF EmitPersona
  <2>2. RowOK(p, Stored(refs), stamps)
    BY <1>1, WrittenRows
  <2>3. StepsOK(told, stamps) /\ told # <<>> /\ told[1].do = "append"
    BY EnqueueOK
  <2> HIDE DEF told
  <2> QED BY <1>1, <2>1, <2>2, <2>3, OneWriteOK, OpensWith
<1> QED BY <1>2, <1>3, <1>4

LEMMA DocumentsAreFinite ==
  ASSUME TypeInv, NEW L \in SUBSET Memories
  PROVE  IsFiniteSet(UNION {rows[m].refs.document : m \in L})
<1> DEFINE f == [m \in L |-> rows[m].refs.document]
           S == {rows[m].refs.document : m \in L}
<1>1. IsFiniteSet(L)
  BY RecordsAssumption, FS_Subset
<1>2. f \in Surjection(L, S)
  BY DEF Surjection
<1>3. IsFiniteSet(S)
  BY <1>1, <1>2, FS_Surjection
<1>4. \A m \in L : IsFiniteSet(rows[m].refs.document)
  BY RecordKinds DEF TypeInv, RowOK
<1>5. \A T \in S : IsFiniteSet(T)
  BY <1>4
<1> QED BY <1>3, <1>5, FS_UNION

\* A sequence of appends as long as another.
LEMMA AppendsOK ==
  ASSUME NEW b, IsSeq(b), NEW s, s = [i \in DOMAIN b |-> s[i]],
         \A i \in DOMAIN b : s[i].do = "append", NEW n
  PROVE  StepsOK(s, n)
<1>1. DOMAIN b = 1..Len(b) /\ Len(b) \in Nat
  BY DEF IsSeq
<1>2. DOMAIN s = DOMAIN b
  OBVIOUS
<1>3. \A i \in DOMAIN b : s[i] \in Range(s)
  BY <1>2 DEF Range
<1>4. s \in Seq(Range(s))
  BY <1>1, <1>3
<1> QED BY <1>2, <1>4 DEF StepsOK, StepOK, IsSeq

LEMMA BackfillOK ==
  ASSUME TypeInv, NEW c, Backfill(c)
  PROVE  Opens(c)
<1> DEFINE live(S) == {x \in S : rows[x].live}
           docs == UNION {rows[m].refs.document : m \in live(Memories)}
           chunks(d) == {m \in live(Memories) : d \in rows[m].refs.document}
           keyed(x) == <<"backfill", x, rows[x].refs>>
           linked == {l \in live(Links) : \E w \in live(Workflows) :
                                            w \in rows[l].refs.workflow}
           shown(m) == IF rows[m].refs \in Inactive THEN "memory.deleted"
                                                    ELSE "memory.updated"
           ofWorkflows == [w \in live(Workflows) |->
             Enqueue(Event("workflow.updated", "workflow", w, 0, rows[w].refs), keyed(w))]
           ofLinks == [l \in linked |->
             Enqueue(LinkEvent("workflow_memory_link.updated", l, rows[l].refs),
                     <<"backfill", l, NoRefs>>)]
           both(m) == MemoryEvents(shown(m), m, rows[m].refs)
           ofMemories == [m \in live(Memories) |->
             [n \in DOMAIN both(m) |->
                [both(m)[n] EXCEPT !.key = <<"backfill", <<m, n>>, rows[m].refs>>]]]
           ofDocuments == [d \in docs |->
             Enqueue(Event("document_memory_collection.created",
                           "document_memory_collection", d, 0,
                           [NoRefs EXCEPT !.memory = chunks(d)]),
                     <<"backfill", d, Cardinality(chunks(d))>>)]
<1>1. /\ IsFiniteSet(live(Workflows)) /\ IsFiniteSet(linked) /\ IsFiniteSet(live(Memories))
      /\ live(Memories) \in SUBSET Memories
  <2>1. /\ live(Workflows) \in SUBSET Workflows /\ linked \in SUBSET Links
        /\ live(Memories) \in SUBSET Memories
    OBVIOUS
  <2> HIDE DEF live, linked
  <2> QED BY <2>1, RecordsAssumption, FS_Subset
<1>2. IsFiniteSet(docs)
  BY <1>1, DocumentsAreFinite
<1>3. Begin(c, "backfill", Each(ofWorkflows) \o Each(ofLinks) \o Each(ofMemories)
                           \o Each(ofDocuments))
  BY DEF Backfill
<1>4. StepsOK(Each(ofWorkflows), stamps)
  <2>1. DOMAIN ofWorkflows = live(Workflows)
    OBVIOUS
  <2>2. \A w \in live(Workflows) : StepsOK(ofWorkflows[w], stamps)
    BY EnqueueOK
  <2> HIDE DEF ofWorkflows, live
  <2> QED BY <1>1, <2>1, <2>2, EachOK
<1>5. StepsOK(Each(ofLinks), stamps)
  <2>1. DOMAIN ofLinks = linked
    OBVIOUS
  <2>2. \A l \in linked : StepsOK(ofLinks[l], stamps)
    BY EnqueueOK
  <2> HIDE DEF ofLinks, linked
  <2> QED BY <1>1, <2>1, <2>2, EachOK
<1>6. StepsOK(Each(ofMemories), stamps)
  <2>1. DOMAIN ofMemories = live(Memories)
    OBVIOUS
  <2>2. ASSUME NEW m \in live(Memories) PROVE StepsOK(ofMemories[m], stamps)
    <3>1. ofMemories[m] = [n \in DOMAIN both(m) |->
            [both(m)[n] EXCEPT !.key = <<"backfill", <<m, n>>, rows[m].refs>>]]
      <4> HIDE DEF both, live
      <4> QED OBVIOUS
    <3>2. /\ IsSeq(both(m))
          /\ \A n \in DOMAIN both(m) : both(m)[n].do = "append" /\ "do" \in DOMAIN both(m)[n]
      BY MemoryEventsOK DEF StepsOK
    <3> HIDE DEF both, ofMemories
    <3>3. ofMemories[m] = [n \in DOMAIN both(m) |-> ofMemories[m][n]]
      BY <3>1
    <3>4. \A n \in DOMAIN both(m) : ofMemories[m][n].do = "append"
      BY <3>1, <3>2
    <3> QED BY <3>2, <3>3, <3>4, AppendsOK
  <2> HIDE DEF ofMemories, live
  <2> QED BY <1>1, <2>1, <2>2, EachOK
<1>7. StepsOK(Each(ofDocuments), stamps)
  <2>1. DOMAIN ofDocuments = docs
    OBVIOUS
  <2>2. \A d \in docs : StepsOK(ofDocuments[d], stamps)
    <3> HIDE DEF docs, chunks
    <3> QED BY EnqueueOK
  <2> HIDE DEF ofDocuments, docs
  <2> QED BY <1>2, <2>1, <2>2, EachOK
<1> HIDE DEF ofWorkflows, ofLinks, ofMemories, ofDocuments
<1>8. StepsOK(Each(ofWorkflows) \o Each(ofLinks), stamps)
  BY <1>4, <1>5, StepsJoined
<1>9. StepsOK(Each(ofWorkflows) \o Each(ofLinks) \o Each(ofMemories), stamps)
  BY <1>6, <1>8, StepsJoined
<1>10. StepsOK(Each(ofWorkflows) \o Each(ofLinks) \o Each(ofMemories)
               \o Each(ofDocuments), stamps)
  BY <1>7, <1>9, StepsJoined
<1> QED BY <1>3, <1>10, OpensWith

LEMMA RequestOpens ==
  ASSUME TypeInv, stamps \in Nat, NEW c, Request(c)
  PROVE  Opens(c)
<1>1. CASE \E w \in Workflows : (\E refs \in WorkflowRefs : SaveWorkflow(c, w, refs))
                                \/ DeleteWorkflow(c, w)
  BY <1>1, WorkflowRequestsOK
<1>2. CASE \E m \in Memories :
             \/ \E refs \in MemoryRefs : CreateMemory(c, m, refs) \/ UpdateMemory(c, m, refs)
             \/ DeleteMemory(c, m)
             \/ \E refs \in HintRefs : ApproveHints(c, m, refs)
                                      \/ ApprovePersonaItem(c, m, refs)
  BY <1>2, MemoryRequestsOK
<1>3. CASE \E u \in Uploads : UploadDocument(c, u[1], u[2]) \/ DeleteDocument(c, u[1])
  BY <1>3, DocumentRequestsOK
<1>4. CASE \E p \in Personas, e \in PersonaEvents : EmitPersona(c, p, e[1], e[2])
  BY <1>4, RunRequestsOK
<1>5. CASE \E l \in Links, w \in Workflows :
             (\E refs \in LinkRefs : SaveLink(c, l, w, refs)) \/ DeleteLink(c, l, w)
  BY <1>5, LinkRequestsOK
<1>6. CASE \E x \in Executions : (\E e \in RunEvents : EmitEvent(c, x, e[1], e[2]))
                                 \/ DeleteExecution(c, x)
  BY <1>6, RunRequestsOK
<1>7. CASE Backfill(c)
  BY <1>7, BackfillOK
<1> QED BY <1>1, <1>2, <1>3, <1>4, <1>5, <1>6, <1>7 DEF Request

\* What a handler has left after a step.
LEMMA TailOK ==
  ASSUME NEW s, NEW n, StepsOK(s, n), s # <<>>
  PROVE  StepsOK(Tail(s), n)
<1> DEFINE r == Tail(s)
<1>1. /\ IsSeq(r) /\ Len(s) \in Nat /\ DOMAIN s = 1..Len(s) /\ DOMAIN r = 1..(Len(s) - 1)
      /\ \A i \in 1..(Len(s) - 1) : r[i] = s[i + 1]
  BY RestOf DEF StepsOK
<1> HIDE DEF r
<1>2. ASSUME NEW i \in DOMAIN r PROVE StepOK(r, i, n)
  <2>1. i + 1 \in DOMAIN s /\ r[i] = s[i + 1] /\ i \in Nat
    BY <1>1
  <2>2. StepOK(s, i + 1, n)
    BY <2>1 DEF StepsOK
  <2>3. ASSUME (i + 1) + 1 \in DOMAIN s PROVE i + 1 \in DOMAIN r /\ r[i + 1] = s[(i + 1) + 1]
    BY <1>1, <2>1, <2>3
  <2> QED BY <2>1, <2>2, <2>3 DEF StepOK
<1> QED BY <1>1, <1>2 DEF StepsOK, r

LEMMA LeastIn ==
  ASSUME NEW S \in SUBSET Nat, S # {}
  PROVE  Min(S) \in S
<1>1. \E x \in S : \A y \in S : x <= y
  <2> SUFFICES ASSUME \A x \in S : \E y \in S : ~(x <= y) PROVE FALSE
    OBVIOUS
  <2>1. PICK N \in S : TRUE
    OBVIOUS
  <2> DEFINE T == {k \in 0..N : \A j \in 0..k : j \notin S}
  <2>2. 0 \in T
    OBVIOUS
  <2>3. ASSUME NEW k \in 1..N, k - 1 \in T PROVE k \in T
    <3>1. \A j \in 0..(k - 1) : j \notin S
      BY <2>3
    <3>2. \A y \in S : k <= y
      BY <3>1
    <3>3. k \notin S
      BY <3>2
    <3>4. \A j \in 0..k : j \in 0..(k - 1) \/ j = k
      OBVIOUS
    <3> QED BY <3>1, <3>3, <3>4
  <2>4. N \in Nat /\ N \in 0..N
    OBVIOUS
  <2> HIDE DEF T
  <2>5. N \in T
    BY <2>2, <2>3, <2>4, UpTo
  <2> QED BY <2>1, <2>4, <2>5 DEF T
<1> QED BY <1>1 DEF Min

LEMMA AfterAppendsOK ==
  ASSUME NEW s, NEW n, StepsOK(s, n)
  PROVE  StepsOK(AfterAppends(s), n)
<1> DEFINE writes == {i \in DOMAIN s : s[i].do = "write"}
           m == Min(writes)
           r == SubSeq(s, m, Len(s))
<1>1. AfterAppends(s) = IF writes = {} THEN <<>> ELSE r
  BY DEF AfterAppends
<1>2. s \in Seq(Range(s)) /\ DOMAIN s = 1..Len(s) /\ Len(s) \in Nat
  BY DEF StepsOK, IsSeq
<1>3. CASE writes = {}
  BY <1>1, <1>3, NoSteps DEF StepsOK
<1>4. CASE writes # {}
  <2>1. m \in 1..Len(s)
    <3>1. writes \in SUBSET Nat /\ writes \subseteq 1..Len(s)
      BY <1>2
    <3> HIDE DEF writes
    <3> QED BY <1>4, <3>1, LeastIn
  <2> HIDE DEF m
  <2>2. /\ r \in Seq(Range(s)) /\ DOMAIN r = 1..(Len(s) - m + 1)
        /\ \A i \in 1..(Len(s) - m + 1) : r[i] = s[m + i - 1]
    BY <1>2, <2>1
  <2>3. IsSeq(r)
    BY <2>2, SeqIsSeq
  <2> HIDE DEF r
  <2>4. ASSUME NEW i \in DOMAIN r PROVE StepOK(r, i, n)
    <3> DEFINE j == m + i - 1
    <3>1. j \in DOMAIN s /\ r[i] = s[j] /\ j \in Nat
      BY <1>2, <2>1, <2>2
    <3>2. StepOK(s, j, n)
      BY <3>1 DEF StepsOK
    <3>3. ASSUME j + 1 \in DOMAIN s PROVE i + 1 \in DOMAIN r /\ r[i + 1] = s[j + 1]
      <4>1. i + 1 \in 1..(Len(s) - m + 1) /\ j + 1 = m + (i + 1) - 1
        BY <1>2, <2>1, <2>2, <3>3
      <4> QED BY <2>2, <4>1
    <3> HIDE DEF j
    <3> QED BY <3>1, <3>2, <3>3 DEF StepOK
  <2> QED BY <1>1, <1>4, <2>3, <2>4 DEF StepsOK
<1> QED BY <1>3, <1>4

\* c goes on with steps; the rows may have changed.
LEMMA TypedContinue ==
  ASSUME OutboxInv, TypeInv, NEW c \in Callers, NEW steps, Continue(c, steps),
         StepsOK(steps, stamps), DOMAIN rows' = Records,
         \A x \in Records : RowOK(x, rows'[x], stamps') /\ rows'[x].seq <= stamps',
         UNCHANGED <<graph, commands, blank>>, faults' \in 0..MaxFaults
  PROVE  TypeInv'
<1>1. Stamped /\ stamps \in Nat /\ stamps' \in Nat /\ stamps <= stamps'
  BY OutboxAssumption, ContinueStamps DEF OutboxInv, Stamped
<1>2. todo' = [todo EXCEPT ![c] = steps] /\ DOMAIN todo = Callers
  BY <1>1 DEF Continue, Stamped
<1>3. \A d \in Callers : StepsOK(todo'[d], stamps)
  BY <1>2 DEF TypeInv
<1>4. \A d \in Callers : StepsOK(todo'[d], stamps')
  BY <1>1, <1>3, StepsLater
<1> QED BY <1>4 DEF TypeInv

LEMMA RowsLater ==
  ASSUME OutboxInv, TypeInv, NEW n \in Nat, stamps <= n
  PROVE  \A x \in Records : RowOK(x, rows[x], n) /\ rows[x].seq <= n
<1>1. stamps \in Nat
  BY OutboxAssumption DEF OutboxInv, Stamped
<1>2. ASSUME NEW x \in Records PROVE RowOK(x, rows[x], n) /\ rows[x].seq <= n
  <2>1. RowOK(x, rows[x], stamps) /\ rows[x].seq <= stamps /\ rows[x].seq \in Nat
    BY DEF TypeInv, RowOK
  <2> QED BY <1>1, <2>1, StepsLater
<1> QED BY <1>2

LEMMA WriteRowTyped ==
  ASSUME OutboxInv, TypeInv, NEW c \in Callers, WriteRow(c)
  PROVE  TypeInv'
<1> DEFINE s == todo[c]
           new == Head(s).new
           rest == IF NothingToDelete(new) THEN AfterAppends(Tail(s)) ELSE Tail(s)
<1>1. /\ s # <<>> /\ Head(s).do = "write" /\ Continue(c, rest)
      /\ rows' = [x \in Records |-> IF x \in DOMAIN new THEN new[x] ELSE rows[x]]
      /\ UNCHANGED <<graph, commands, faults, blank>>
  BY DEF WriteRow
<1>2. StepsOK(s, stamps) /\ IsSeq(s) /\ stamps \in Nat
  BY OutboxAssumption DEF TypeInv, StepsOK, OutboxInv, Stamped
<1>3. /\ 1 \in DOMAIN s /\ Head(s) = s[1] /\ DOMAIN s = 1..Len(s) /\ Len(s) \in Nat
      /\ DOMAIN Tail(s) = 1..(Len(s) - 1) /\ IsSeq(Tail(s))
      /\ \A i \in 1..(Len(s) - 1) : Tail(s)[i] = s[i + 1]
  BY <1>1, <1>2, RestOf
<1>4. /\ 1 + 1 \in DOMAIN s /\ s[1 + 1].do = "append" /\ DOMAIN new \subseteq Records
      /\ \A x \in DOMAIN new : RowOK(x, new[x], stamps)
  BY <1>1, <1>2, <1>3 DEF StepsOK, StepOK
<1>5. StepsOK(Tail(s), stamps)
  BY <1>1, <1>2, TailOK
<1>6. StepsOK(rest, stamps)
  BY <1>5, AfterAppendsOK
<1>7. Stamped' /\ stamps' \in Nat /\ stamps <= stamps'
  BY <1>1, OutboxAssumption, ContinueStamps DEF OutboxInv, Stamped
<1>8. ~NothingToDelete(new) => stamps' = stamps + 1
  <2>1. ASSUME ~NothingToDelete(new) PROVE stamps' = stamps + 1
    <3>1. rest = Tail(s)
      BY <2>1
    <3>2. 1 \in DOMAIN Tail(s) /\ Tail(s)[1] = s[1 + 1]
      BY <1>3, <1>4
    <3>3. Tail(s) # <<>>
      BY <1>1, <1>2, <1>3, <3>2, RestOf
    <3>4. Head(Tail(s)) = Tail(s)[1]
      BY <1>3, <3>3, RestOf
    <3> HIDE DEF rest, new, s
    <3> QED BY <1>1, <1>4, <3>1, <3>2, <3>3, <3>4 DEF Continue
  <2> QED BY <2>1
<1>9. ASSUME NEW x \in Records
      PROVE  RowOK(x, rows'[x], stamps') /\ rows'[x].seq <= stamps'
  <2>1. CASE x \in DOMAIN new
    <3>1. rows'[x] = new[x] /\ RowOK(x, new[x], stamps)
      BY <1>1, <1>4, <2>1
    <3>2. RowOK(x, new[x], stamps')
      BY <1>2, <1>7, <3>1, StepsLater
    <3>3. new[x].seq \in Nat /\ new[x].seq <= IF new[x].live THEN stamps + 1 ELSE stamps
      BY <3>1 DEF RowOK
    <3>4. new[x].seq <= stamps'
      <4>1. CASE NothingToDelete(new)
        <5>1. ~new[x].live
          BY <2>1, <4>1 DEF NothingToDelete
        <5> QED BY <1>2, <1>7, <3>3, <5>1
      <4>2. CASE ~NothingToDelete(new)
        BY <1>2, <1>7, <1>8, <3>3, <4>2
      <4> QED BY <4>1, <4>2
    <3> QED BY <3>1, <3>2, <3>4
  <2>2. CASE x \notin DOMAIN new
    <3>1. rows'[x] = rows[x]
      BY <1>1, <2>2
    <3> QED BY <1>7, <3>1, RowsLater
  <2> QED BY <2>1, <2>2
<1>10. DOMAIN rows' = Records /\ faults' \in 0..MaxFaults
  BY <1>1 DEF TypeInv
<1> HIDE DEF rest, new, s
<1> QED BY <1>1, <1>6, <1>9, <1>10, TypedContinue

LEMMA CallersTyped ==
  ASSUME OutboxInv, TypeInv, NEW c \in Callers, CallerStep(c)
  PROVE  TypeInv'
<1>1. /\ stamps \in Nat /\ DOMAIN todo = Callers /\ MaxFaults \in Nat /\ faults \in 0..MaxFaults
      /\ StepsOK(todo[c], stamps) /\ DOMAIN rows = Records
  BY OutboxAssumption DEF OutboxInv, Stamped, TypeInv
<1>2. ASSUME NEW steps, Continue(c, steps), StepsOK(steps, stamps),
             UNCHANGED <<rows, graph, commands, blank>>, faults' \in 0..MaxFaults
      PROVE  TypeInv'
  <2>1. stamps' \in Nat /\ stamps <= stamps'
    BY <1>1, <1>2, OutboxAssumption, ContinueStamps DEF OutboxInv, Stamped
  <2>2. \A x \in Records : RowOK(x, rows'[x], stamps') /\ rows'[x].seq <= stamps'
    BY <1>2, <2>1, RowsLater
  <2> QED BY <1>1, <1>2, <2>2, TypedContinue
<1>3. CASE Request(c)
  <2>1. PICK steps : /\ StepsOK(steps, stamps) /\ Continue(c, steps)
                     /\ UNCHANGED <<rows, graph, commands, faults, blank>>
    BY <1>1, <1>3, RequestOpens DEF Opens
  <2> QED BY <1>1, <1>2, <2>1
<1>4. CASE WriteRow(c)
  BY <1>4, WriteRowTyped
<1>5. CASE AppendEvent(c)
  BY <1>1, <1>2, <1>5, TailOK DEF AppendEvent
<1>6. CASE LoseAppend(c)
  <2> DEFINE rest == Tail(todo[c])
  <2>1. todo[c] # <<>> /\ StepsOK(rest, stamps)
    BY <1>1, <1>6, TailOK DEF LoseAppend
  <2>2. /\ \E steps \in {rest, Tail(rest)} : Continue(c, steps) /\ (steps # rest => rest # <<>>)
        /\ faults' = faults + 1 /\ faults < MaxFaults
        /\ UNCHANGED <<rows, graph, commands, blank>>
    BY <1>6 DEF LoseAppend
  <2>3. PICK steps \in {rest, Tail(rest)} : Continue(c, steps) /\ (steps # rest => rest # <<>>)
    BY <2>2
  <2> HIDE DEF rest
  <2>4. StepsOK(steps, stamps)
    BY <2>1, <2>3, TailOK
  <2>5. faults' \in 0..MaxFaults
    BY <1>1, <2>2
  <2> QED BY <1>2, <2>2, <2>3, <2>4, <2>5
<1>7. CASE CrashCaller(c)
  <2>1. /\ todo' = [todo EXCEPT ![c] = <<>>] /\ faults' = faults + 1 /\ faults < MaxFaults
        /\ UNCHANGED <<rows, stamps, graph, commands, blank>>
    BY <1>7 DEF CrashCaller
  <2>2. StepsOK(<<>>, stamps)
    BY NoSteps DEF StepsOK
  <2>3. \A d \in Callers : StepsOK(todo'[d], stamps)
    BY <1>1, <2>1, <2>2 DEF TypeInv
  <2>4. faults' \in 0..MaxFaults
    BY <1>1, <2>1
  <2> QED BY <2>1, <2>3, <2>4 DEF TypeInv
<1> QED BY <1>3, <1>4, <1>5, <1>6, <1>7 DEF CallerStep

LEMMA ProjectorsTyped ==
  ASSUME TypeInv, NEW p \in Projectors, ProjectorStep(p)
  PROVE  TypeInv'
<1>1. UNCHANGED <<rows, todo, stamps>>
  BY DEF ProjectorStep, StartCommand, StartIteration, ClearProjection, ChooseFailed,
         ResetForReplay, Advance, ListPending, ApplyEvent, MarkProjected, MarkFailed,
         FailEvent, CrashProjector, UnchangedCallers
<1>2. commands' \in 0..MaxCommands /\ faults' \in 0..MaxFaults
  <2>1. /\ commands \in 0..MaxCommands /\ faults \in 0..MaxFaults
        /\ MaxCommands \in Nat /\ MaxFaults \in Nat
    BY OutboxAssumption DEF TypeInv
  <2>2. CASE \E cmd \in Commands : StartCommand(p, cmd)
    BY <2>1, <2>2 DEF StartCommand
  <2>3. CASE FailEvent(p) \/ CrashProjector(p)
    BY <2>1, <2>3 DEF FailEvent, CrashProjector
  <2>4. CASE ClearProjection(p) \/ ChooseFailed(p) \/ ResetForReplay(p) \/ Advance(p)
             \/ StartIteration(p)
    BY <2>1, <2>4 DEF ClearProjection, ChooseFailed, ResetForReplay, Advance, StartIteration,
                      ListPending, ApplyEvent, MarkProjected, MarkFailed
  <2> QED BY <2>2, <2>3, <2>4 DEF ProjectorStep
<1>3. blank' \in BOOLEAN
  <2>1. blank' = blank \/ blank' = TRUE \/ \E q : blank' = (blank /\ q)
    BY DEF ProjectorStep, StartCommand, StartIteration, ClearProjection, ChooseFailed,
           ResetForReplay, Advance, ListPending, ApplyEvent, MarkProjected, MarkFailed,
           FailEvent, CrashProjector
  <2> QED BY <2>1 DEF TypeInv
<1>4. \A x \in DOMAIN graph' : graph'[x] \in BOOLEAN
  <2>1. \/ graph' = graph \/ graph' = EmptyGraph
        \/ \E f : graph' = Effected(graph, f)
    BY DEF ProjectorStep, StartCommand, StartIteration, ClearProjection, ChooseFailed,
           ResetForReplay, Advance, ListPending, ApplyEvent, MarkProjected, MarkFailed,
           FailEvent, CrashProjector, Project
  <2> QED BY <2>1 DEF TypeInv, EmptyGraph, Effected
<1> QED BY <1>1, <1>2, <1>3, <1>4 DEF TypeInv

LEMMA TypeInvStays ==
  ASSUME OutboxInv, TypeInv, [Next]_vars
  PROVE  TypeInv'
<1>1. CASE Next
  BY <1>1, Steps, CallersTyped, ProjectorsTyped
<1>2. CASE UNCHANGED vars
  BY <1>2 DEF vars, TypeInv
<1> QED BY <1>1, <1>2

LEMMA InitTyped ==
  ASSUME Init
  PROVE  TypeInv
<1>1. ASSUME NEW x \in Records PROVE RowOK(x, rows[x], stamps) /\ rows[x].seq <= stamps
  <2>1. stamps = 0 /\ rows[x] \in {NoRow} \cup {Stored(Before[y]) : y \in {x} \cap DOMAIN Before}
    BY DEF Init
  <2>2. CASE rows[x] = NoRow
    <3>1. IsFiniteSet(NoRefs.document)
      BY FS_EmptySet DEF NoRefs
    <3> QED BY <2>1, <2>2, <3>1 DEF RowOK, NoRow
  <2>3. CASE x \in DOMAIN Before /\ rows[x] = Stored(Before[x])
    BY <2>1, <2>3, RecordsAssumption DEF RowOK, Stored
  <2> QED BY <2>1, <2>2, <2>3
<1>2. \A c \in Callers : StepsOK(todo[c], stamps)
  BY NoSteps DEF Init, StepsOK
<1>3. DOMAIN rows = Records /\ \A x \in DOMAIN graph : graph[x] \in BOOLEAN
  BY DEF Init, EmptyGraph
<1>4. commands \in 0..MaxCommands /\ faults \in 0..MaxFaults /\ blank \in BOOLEAN
  <2>1. commands = 0 /\ faults = 0 /\ MaxCommands \in Nat /\ MaxFaults \in Nat
    BY OutboxAssumption DEF Init
  <2>2. blank \in BOOLEAN
    BY DEF Init
  <2> QED BY <2>1, <2>2
<1> QED BY <1>1, <1>2, <1>3, <1>4 DEF TypeInv

LEMMA TypeInvHolds == Spec => []TypeInv
<1>1. Init => TypeInv
  BY InitTyped
<1>2. OutboxInv /\ TypeInv /\ [Next]_vars => TypeInv'
  BY TypeInvStays
<1> QED BY <1>1, <1>2, OutboxInvHolds, PTL DEF Spec

\* The tables, the steps a handler still has to do and the processes keep
\* their types: a stored record has an id that is known, no write is left
\* without the append about it, an execution never numbers more events than
\* were stamped, and a batch holds rows of the outbox, whatever is lost, stops
\* or fails in between.
THEOREM TablesAreTyped == Spec => []TypeOK
<1>1. OutboxInv /\ TypeInv => TypeOK
  <2> SUFFICES ASSUME OutboxInv, TypeInv PROVE TypeOK
    OBVIOUS
  <2>1. stamps \in 0..MaxEvents /\ MaxEvents \in Nat
    BY OutboxAssumption DEF OutboxInv, Stamped
  <2>2. ASSUME NEW x \in Records
        PROVE  /\ rows[x].live \in BOOLEAN /\ rows[x].known \in BOOLEAN
               /\ rows[x].live => rows[x].known
               /\ rows[x].seq \in 0..MaxEvents
    BY <2>1 DEF TypeInv, RowOK
  <2>3. \A c \in Callers : stamp[c] \in 0..MaxEvents
    BY <2>1 DEF OutboxInv, Stamped
  <2>4. /\ DOMAIN outbox \subseteq 1..stamps
        /\ \A t \in DOMAIN outbox : outbox[t].status \in {"pending", "projected", "failed"}
    BY DEF OutboxInv, Tables, EntryType, Statuses
  <2>5. \A p \in Projectors : proc[p].pc \in Stages /\ Range(proc[p].batch) \subseteq DOMAIN outbox
    BY DEF OutboxInv, Batches, ProcType
  <2> QED BY <2>1, <2>2, <2>3, <2>4, <2>5 DEF TypeOK, TypeInv, Stages
<1> QED BY <1>1, TypeInvHolds, OutboxInvHolds, PTL

-----------------------------------------------------------------------------
(* What an event says of a workflow, a memory or an execution.             *)

Tracked == Workflows \cup Memories \cup Executions
RecordLabels == {"Workflow", "Memory", "WorkflowRun"}
RunLike == StepTypes \cup RunTypes \cup DetailTypes \cup ContainerTypes

LEMMA NodeOfRecord ==
  ASSUME NEW x \in Tracked
  PROVE  LET n == RecordNode(x)
         IN  /\ IsNode(n) /\ Anchored(n) /\ n.label \in RecordLabels
             /\ n.label = "Workflow" <=> x \in Workflows
             /\ n.label = "Memory" <=> x \in Memories
             /\ n.label = "WorkflowRun" <=> x \in Executions
             /\ \A l, i : n = Node(l, i) <=> n.label = l /\ x = i
             /\ \A l, ids : n \in NodesOf(l, ids) <=> n.label = l /\ x \in ids
<1> DEFINE l == CASE x \in Workflows -> "Workflow"
                  [] x \in Memories -> "Memory"
                  [] OTHER -> "WorkflowRun"
           n == Node(l, x)
<1>1. /\ l \in RecordLabels /\ (l = "Workflow" <=> x \in Workflows)
      /\ (l = "Memory" <=> x \in Memories) /\ (l = "WorkflowRun" <=> x \in Executions)
  BY RecordsAssumption DEF Tracked, RecordLabels
<1>2. RecordNode(x) = n
  BY DEF RecordNode
<1> HIDE DEF l
<1>3. IsNode(n) /\ n.label = l /\ n.id = x
  BY DEF IsNode, Node
<1>4. Anchored(n)
  BY <1>1, <1>3 DEF Anchored, EventLabels, RecordLabels
<1>5. \A k, i : n = Node(k, i) <=> l = k /\ x = i
  BY DEF Node
<1>6. \A k, ids : n \in NodesOf(k, ids) <=> l = k /\ x \in ids
  BY <1>5 DEF NodesOf
<1> QED BY <1>1, <1>2, <1>3, <1>4, <1>5, <1>6

\* The handler of an event, by its type.
LEMMA Handlers ==
  ASSUME NEW g, NEW e
  PROVE  /\ e.type \in {"workflow.created", "workflow.updated"} =>
              Projection(g, e) = Workflow(g, e)
         /\ e.type = "workflow.deleted" => Projection(g, e) = WorkflowDeleted(g, e)
         /\ e.type = "execution.deleted" => Projection(g, e) = WorkflowRunDeleted(g, e)
         /\ e.type \in {"memory.created", "memory.updated"} => Projection(g, e) = Memory(g, e)
         /\ e.type = "memory.deleted" => Projection(g, e) = MemoryDeleted(g, e)
         /\ e.type = "memory.entities.extracted" => Projection(g, e) = MemoryEntities(g, e)
         /\ e.type = "memory.source_intelligence.graph_hints.approved" =>
              Projection(g, e) = MemoryGraphHints(g, e)
         /\ e.type = "document_memory_collection.created" =>
              Projection(g, e) = Document(g, e)
         /\ e.type = "document_memory_collection.deleted" =>
              Projection(g, e) = DocumentDeleted(g, e)
         /\ e.type \in {"workflow_memory_link.created", "workflow_memory_link.updated"} =>
              Projection(g, e) = WorkflowMemoryLink(g, e)
         /\ e.type = "workflow_memory_link.deleted" =>
              Projection(g, e) = WorkflowMemoryLinkDeleted(g, e)
         /\ e.type \in PersonaTypes => Projection(g, e) = Persona(g, e)
         /\ e.type \in RunLike =>
              \/ Projection(g, e) = StepRun(g, e)
              \/ Projection(g, e) = WorkflowRun(g, e)
              \/ \E l \in EventLabels : Projection(g, e) = EventDetail(g, e, l)
BY DEF Projection, IsStep, RunLike, StepTypes, RunTypes, DetailTypes, ContainerTypes,
       PersonaTypes, EventLabels

\* What the events of workflows, memories, documents, links and executions say
\* of a record's node.
LEMMA WorkflowEvents ==
  ASSUME NEW e, NEW x \in Tracked
  PROVE  LET n == RecordNode(x)
         IN  /\ e.type \in {"workflow.created", "workflow.updated"} =>
                  ~Buries(e, n) /\ ~Touches(e, n) /\ (Raises(e, n) <=> x \in Workflows /\ x = e.id)
             /\ e.type = "workflow.deleted" =>
                  ~Raises(e, n) /\ ~Touches(e, n) /\ (Buries(e, n) <=> x \in Workflows /\ x = e.id)
<1> DEFINE n == RecordNode(x)
           w == Node("Workflow", e.id)
<1>1. /\ IsNode(n) /\ n.label \in RecordLabels /\ (n = w <=> x \in Workflows /\ x = e.id)
      /\ \A l, ids : n \in NodesOf(l, ids) <=> n.label = l /\ x \in ids
      /\ \A l, i : n = Node(l, i) <=> n.label = l /\ x = i
  BY NodeOfRecord
<1> HIDE DEF n
<1>2. \A p \in {"Tool", "Agent", "Task", "WorkflowVersion", "Model"} : n.label # p
  BY <1>1 DEF RecordLabels
<1>3. n \notin Ends(ScopedRels(e.id, e.refs))
  BY <1>1, <1>2 DEF Ends, ScopedRels, KeyedRel
<1>4. LET f == Workflow(EmptyGraph, e)
      IN  n \notin f.bury /\ n \notin f.touch /\ (n \in f.raise <=> n = w)
  BY <1>1, <1>2, <1>3, WorkflowSays
<1>5. LET f == WorkflowDeleted(EmptyGraph, e)
      IN  n \notin f.raise /\ n \notin f.touch /\ (n \in f.bury <=> n = w)
  BY <1>1, WorkflowDeletedSays
<1> QED BY <1>1, <1>4, <1>5, Handlers DEF Buries, Raises, Touches, n

LEMMA DeletionEvents ==
  ASSUME NEW e, NEW x \in Tracked
  PROVE  LET n == RecordNode(x)
         IN  /\ e.type = "execution.deleted" =>
                  ~Raises(e, n) /\ ~Touches(e, n)
                  /\ (Buries(e, n) <=> x \in Executions /\ x = e.id)
             /\ e.type = "memory.deleted" =>
                  ~Raises(e, n) /\ ~Touches(e, n) /\ (Buries(e, n) <=> x \in Memories /\ x = e.id)
             /\ e.type = "document_memory_collection.deleted" =>
                  ~Raises(e, n) /\ ~Touches(e, n)
                  /\ (Buries(e, n) <=> x \in Memories /\ x \in e.refs.memory)
             /\ e.type = "workflow_memory_link.deleted" =>
                  ~Raises(e, n) /\ ~Touches(e, n) /\ ~Buries(e, n)
<1> DEFINE n == RecordNode(x)
<1>1. /\ IsNode(n) /\ Anchored(n) /\ n.label \in RecordLabels
      /\ n.label = "Memory" <=> x \in Memories
      /\ n.label = "WorkflowRun" <=> x \in Executions
      /\ \A l, ids : n \in NodesOf(l, ids) <=> n.label = l /\ x \in ids
      /\ \A l, i : n = Node(l, i) <=> n.label = l /\ x = i
  BY NodeOfRecord
<1> HIDE DEF n
<1>2. TypedSet(DOMAIN EmptyGraph)
  BY EmptyIsTyped
<1>3. LET f == WorkflowRunDeleted(EmptyGraph, e)
      IN  f.raise = {} /\ f.touch = {} /\ (n \in f.bury <=> x \in Executions /\ x = e.id)
  BY <1>1, <1>2, WorkflowRunDeletedSays
<1>4. LET f == MemoryDeleted(EmptyGraph, e)
      IN  f.raise = {} /\ f.touch = {} /\ (n \in f.bury <=> x \in Memories /\ x = e.id)
  <2>1. n = Node("Memory", e.id) <=> x \in Memories /\ x = e.id
    BY <1>1
  <2> QED BY <1>1, <2>1, MemoryDeletedSays
<1>5. LET f == DocumentDeleted(EmptyGraph, e)
      IN  f.raise = {} /\ f.touch = {} /\ (n \in f.bury <=> x \in Memories /\ x \in e.refs.memory)
  <2>1. n # Node("Document", e.id)
    BY <1>1 DEF RecordLabels
  <2> QED BY <1>1, <1>2, <2>1, DocumentDeletedSays
<1>6. LET f == WorkflowMemoryLinkDeleted(EmptyGraph, e)
      IN  f.raise = {} /\ f.touch = {} /\ n \notin f.bury
  BY <1>1, LinkDeletedSays
<1> QED BY <1>3, <1>4, <1>5, <1>6, Handlers DEF Buries, Raises, Touches, n

LEMMA MemoryEventsSay ==
  ASSUME NEW e, NEW x \in Tracked
  PROVE  LET n == RecordNode(x)
         IN  /\ /\ e.type \in {"memory.created", "memory.updated"}
                /\ \A p \in e.refs.packItems : p[1] \notin RecordLabels
                => ~Buries(e, n) /\ (Raises(e, n) <=> x \in Memories /\ x = e.id)
             /\ e.type = "memory.entities.extracted" => ~Buries(e, n) /\ ~Raises(e, n)
             /\ e.type = "memory.source_intelligence.graph_hints.approved" =>
                  ~Buries(e, n) /\ (Raises(e, n) <=> x \in Memories /\ x = e.id)
             /\ e.type = "document_memory_collection.created" => ~Buries(e, n) /\ ~Raises(e, n)
             /\ e.type \in {"workflow_memory_link.created", "workflow_memory_link.updated"} =>
                  ~Buries(e, n) /\ ~Raises(e, n)
             /\ e.type \in PersonaTypes =>
                  ~Buries(e, n) /\ (Raises(e, n) <=> x \in Workflows /\ x \in e.refs.workflow)
<1> DEFINE n == RecordNode(x)
<1>1. /\ IsNode(n) /\ n.label \in RecordLabels
      /\ n.label = "Workflow" <=> x \in Workflows
      /\ n.label = "Memory" <=> x \in Memories
      /\ \A l, ids : n \in NodesOf(l, ids) <=> n.label = l /\ x \in ids
      /\ \A l, i : n = Node(l, i) <=> n.label = l /\ x = i
  BY NodeOfRecord
<1> HIDE DEF n
<1>2. /\ \A type, from, to : n \notin Rels(type, from, to)
      /\ \A type, from, to, scope, key : n \notin Keyed(type, from, to, scope, key)
  BY <1>1, RelsAreRels, KeyedAreRels
<1>3. ASSUME \A p \in e.refs.packItems : p[1] \notin RecordLabels
      PROVE  LET f == Memory(EmptyGraph, e)
             IN  n \notin f.bury /\ (n \in f.raise <=> x \in Memories /\ x = e.id)
  <2>1. \A p \in e.refs.packItems : n # Node(p[1], p[2])
    BY <1>1, <1>3
  <2> QED BY <1>1, <1>2, <2>1 DEF Memory, NoEffect, RecordLabels
<1>4. LET f == MemoryEntities(EmptyGraph, e) IN n \notin f.bury /\ n \notin f.raise
  BY <1>1, <1>2 DEF MemoryEntities, NoEffect, RecordLabels
<1>5. LET f == MemoryGraphHints(EmptyGraph, e)
      IN  n \notin f.bury /\ (n \in f.raise <=> x \in Memories /\ x = e.id)
  <2>1. \A t : n # KeyedRel(t[1], Node("Entity", t[2]), Node("Entity", t[3]), None, e.id)
    BY <1>1 DEF KeyedRel, IsNode
  <2> QED BY <1>1, <1>2, <2>1 DEF MemoryGraphHints, NoEffect, RecordLabels
<1>6. LET f == Document(EmptyGraph, e) IN n \notin f.bury /\ n \notin f.raise
  BY <1>1, <1>2 DEF Document, NoEffect, RecordLabels
<1>7. LET f == WorkflowMemoryLink(EmptyGraph, e) IN n \notin f.bury /\ n \notin f.raise
  BY <1>1, <1>2 DEF WorkflowMemoryLink, NoEffect
<1>8. LET f == Persona(EmptyGraph, e)
      IN  n \notin f.bury /\ (n \in f.raise <=> x \in Workflows /\ x \in e.refs.workflow)
  BY <1>1, <1>2 DEF Persona, NoEffect, RecordLabels
<1> QED BY <1>3, <1>4, <1>5, <1>6, <1>7, <1>8, Handlers DEF Buries, Raises, n

\* An execution's own events never decide about a record and merge its run.
LEMMA RunEventsSay ==
  ASSUME NEW e, e.type \in RunLike, NEW x \in Tracked
  PROVE  LET n == RecordNode(x)
         IN  /\ ~Buries(e, n) /\ ~Raises(e, n)
             /\ x \in Executions /\ e.refs.run = {x} => Touches(e, n)
<1> DEFINE n == RecordNode(x)
<1>1. /\ IsNode(n) /\ n.label \in RecordLabels
      /\ n.label = "WorkflowRun" <=> x \in Executions
      /\ \A l, ids : n \in NodesOf(l, ids) <=> n.label = l /\ x \in ids
      /\ \A l, i : n = Node(l, i) <=> n.label = l /\ x = i
  BY NodeOfRecord
<1> HIDE DEF n
<1>2. /\ \A type, from, to : n \notin Rels(type, from, to)
      /\ \A type, from, to, scope, key : n \notin Keyed(type, from, to, scope, key)
  BY <1>1, RelsAreRels, KeyedAreRels
<1>r. x \in Executions /\ e.refs.run = {x} => n \in NodesOf("WorkflowRun", e.refs.run)
  BY <1>1
<1>l. \A l, ids : l \notin RecordLabels => n \notin NodesOf(l, ids)
  BY <1>1
<1>s. ASSUME NEW own
      PROVE  /\ n \notin NodesOf("Task", own) /\ n \notin NodesOf("Agent", own)
             /\ n \notin NodesOf("Error", own) /\ n \notin NodesOf("WorkflowVersion", own)
             /\ n \notin NodesOf("Schedule", own) /\ n \notin NodesOf("RuntimeRevision", own)
             /\ n \notin NodesOf("RuntimeContainer", own) /\ n \notin NodesOf("ToolCall", own)
             /\ n \notin NodesOf("ModelRequest", own) /\ n \notin NodesOf("Model", own)
             /\ n \notin NodesOf("ModelProvider", own) /\ n \notin NodesOf("Artifact", own)
             /\ n \notin NodesOf("ContextHealth", own) /\ n \notin NodesOf("TokenUsage", own)
             /\ n \notin NodesOf("TokenBudget", own)
             /\ n \notin NodesOf("ContextCompaction", own)
             /\ n \notin NodesOf("MonitorFinding", own)
  BY <1>l DEF RecordLabels
<1>3. LET f == StepRun(EmptyGraph, e)
      IN  /\ n \notin f.bury /\ n \notin f.raise
          /\ n \in NodesOf("WorkflowRun", e.refs.run) => n \in f.touch
  BY <1>2, <1>s, Zenon DEF StepRun, NoEffect
<1>4. LET f == WorkflowRun(EmptyGraph, e)
      IN  /\ n \notin f.bury /\ n \notin f.raise
          /\ n \in NodesOf("WorkflowRun", e.refs.run) => n \in f.touch
  BY <1>2, <1>s DEF WorkflowRun, NoEffect
<1>5. ASSUME NEW l \in EventLabels
      PROVE  LET f == EventDetail(EmptyGraph, e, l)
             IN  n \notin f.bury /\ n \notin f.raise
  <2>1. n # Node(l, EventId(e))
    BY <1>1 DEF EventLabels, RecordLabels
  <2>2. EventDetail(EmptyGraph, e, l).bury = {}
    BY <1>1, EventDetailSays
  <2>3. n \notin EventDetail(EmptyGraph, e, l).raise
    <3> DEFINE run == CHOOSE y \in e.refs.run : TRUE
               event == {Node(l, EventId(e))}
               previous == IF e.seq > 1 THEN EventsAt(EmptyGraph, run, e.seq - 1) ELSE {}
    <3>1. \A A, B : [NoEffect EXCEPT !.raise = A, !.touch = B].raise = A
      BY DEF NoEffect
    <3> DEFINE own(label, holds) == NodesOf(label, Own(e, holds))
           named == NodesOf("Agent", e.refs.agent) \cup NodesOf("Task", e.refs.task)
              \cup NodesOf("ToolCall", e.refs.toolCall)
              \cup NodesOf("ModelRequest", e.refs.modelRequest)
              \cup NodesOf("Model", e.refs.model) \cup NodesOf("ModelProvider", e.refs.provider)
              \cup NodesOf("Artifact", e.refs.artifact)
              \cup NodesOf("RuntimeRevision", e.refs.revision)
              \cup NodesOf("RuntimeContainer", e.refs.container)
           owned == own("Error", \/ e.type \in {"container.failed", "tool.call.failed",
                                                "context.compaction.failed"}
                                 \/ e.refs.error # {})
              \cup own("ContextHealth",
                       e.type = "context.health.recorded" \/ e.refs.health # {})
              \cup own("TokenUsage", e.type = "token.usage.recorded")
              \cup own("TokenBudget",
                       e.type \in {"token.budget.exceeded", "token.budget.warning"})
              \cup own("ContextCompaction", e.type \in {"context.compaction.completed",
                                                       "context.compaction.failed",
                                                       "context.compaction.started"})
              \cup own("MonitorFinding", e.type = "monitor.finding.created")
           chain == Rels("FOLLOWED_BY", previous, event)
                    \cup Rels("FOLLOWED_BY", event, EventsAt(EmptyGraph, run, e.seq + 1))
    <3>2. EventDetail(EmptyGraph, e, l).raise = event \cup named \cup owned \cup chain
      BY <3>1 DEF EventDetail
    <3>3. n \notin event
      BY <2>1
    <3>4. n \notin chain
      BY <1>2
    <3>5. n \notin named
      BY <1>s
    <3>6. n \notin owned
      <4>1. \A holds :
              /\ n \notin own("Error", holds) /\ n \notin own("ContextHealth", holds)
              /\ n \notin own("TokenUsage", holds) /\ n \notin own("TokenBudget", holds)
              /\ n \notin own("ContextCompaction", holds)
              /\ n \notin own("MonitorFinding", holds)
        BY <1>s
      <4> HIDE DEF own
      <4> QED BY <4>1, Zenon
    <3> HIDE DEF event, named, owned, chain
    <3> QED BY <3>2, <3>3, <3>4, <3>5, <3>6
  <2> QED BY <2>2, <2>3
<1>6. ASSUME NEW l \in EventLabels, x \in Executions, e.refs.run = {x}
      PROVE  n \in EventDetail(EmptyGraph, e, l).touch
  <2>1. (CHOOSE y \in e.refs.run : TRUE) = x
    BY <1>6
  <2>2. n \in {Node("WorkflowRun", CHOOSE y \in e.refs.run : TRUE)}
    BY <1>1, <1>6, <2>1
  <2> HIDE DEF n
  <2> QED BY <2>2 DEF EventDetail, NoEffect
<1> QED BY <1>r, <1>3, <1>4, <1>5, <1>6, Handlers DEF Buries, Raises, Touches, n, EventLabels

-----------------------------------------------------------------------------
(* What the outbox and the steps still to do say of the rows.              *)

\* A step writes x, decides whether its node is there, merges its node.
Writes(s, x) == s.do = "write" /\ x \in DOMAIN s.new
Rules(s, x) == s.do = "append" /\ Decides(s.event, RecordNode(x))
Mentions(s, x) == s.do = "append" /\ Touches(s.event, RecordNode(x))

\* The append a handler makes after every write of x.
Settles(s, x) ==
  /\ s.do = "append"
  /\ IF x \in Executions
       THEN \/ s.event.type = "execution.deleted" /\ s.event.id = x
            \/ s.event.type \in RunLike /\ x \in s.event.refs.run
       ELSE s.key = None /\ x \in About(s.event) /\ Decides(s.event, RecordNode(x))
Speaks(s, x) == Rules(s, x) \/ Settles(s, x)
Concerns(s, x) == Writes(s, x) \/ Speaks(s, x)

\* No record is handled by two requests at a time.
Apart ==
  \A c, d \in Callers : \A i \in DOMAIN todo[c], j \in DOMAIN todo[d] : \A x \in Tracked :
    Concerns(todo[c][i], x) /\ Concerns(todo[d][j], x) => c = d

\* What an event names has a row, or gets one before the event is inserted.
NamesExist ==
  \A c \in Callers : \A i \in DOMAIN todo[c] : \A x \in Tracked :
    Mentions(todo[c][i], x)
      => rows[x].known \/ \E j \in DOMAIN todo[c] : j < i /\ Writes(todo[c][j], x)

\* An event that speaks of x says what a row of x holds.
AsIn(s, x, r) == Buries(s.event, RecordNode(x)) <=> ~r.live

\* A row of x a handler may write over old: an id stays known, a deleted
\* execution is not written again, and what is deleted lives (of a
\* workflow this is not asked).
Fits(r, x, old) ==
  /\ r.known
  /\ x \in Executions /\ r.live => old.live \/ ~old.known
  /\ x \notin Workflows /\ ~r.live => old.live

\* The steps write x once, an append about x follows, and all that is said of
\* x is said afterwards and as written; without a write, as its row has it.
Told(steps, x, row) ==
  /\ \A i \in DOMAIN steps : Writes(steps[i], x) =>
       /\ Fits(steps[i].new[x], x, row)
       /\ \E j \in DOMAIN steps : i < j /\ Settles(steps[j], x)
       /\ \A j \in DOMAIN steps : Writes(steps[j], x) => j = i
       /\ \A j \in DOMAIN steps :
            Speaks(steps[j], x) => i < j /\ AsIn(steps[j], x, steps[i].new[x])
  /\ \A i \in DOMAIN steps : Speaks(steps[i], x) =>
       \/ \E j \in DOMAIN steps : Writes(steps[j], x)
       \/ row.known /\ AsIn(steps[i], x, row)

\* What the source keys of an execution's events stand for.
KeyTells(key, e, x) ==
  key # None /\ key[2] = x =>
    /\ key[1] = "execution" => Touches(e, RecordNode(x))
    /\ key[1] = "deleted" => Buries(e, RecordNode(x))

\* A write writes something, personas are only written live, no event revives
\* an execution, and its events have their keys.
Proper(s) ==
  /\ s.do = "write" => \A x \in DOMAIN s.new : x \in Personas => s.new[x].live
  /\ s.do = "write" => DOMAIN s.new # {}
  /\ s.do = "append" => \A x \in Executions :
       /\ ~Raises(s.event, RecordNode(x)) /\ KeyTells(s.key, s.event, x)
       /\ Settles(s, x) =>
            /\ s.key[2] = x
            /\ \/ Buries(s.event, RecordNode(x)) /\ s.key[1] = "deleted"
               \/ /\ Touches(s.event, RecordNode(x)) /\ ~Buries(s.event, RecordNode(x))
                  /\ s.key[1] = "execution"

\* What the outbox says of a node: what its last deciding event says, and
\* without one whether an event merged the node.
LastOf(box, n, t) ==
  /\ t \in DOMAIN box /\ Decides(box[t].event, n)
  /\ \A u \in DOMAIN box : t < u => ~Decides(box[u].event, n)
Undecided(box, n) == \A t \in DOMAIN box : ~Decides(box[t].event, n)
LiveIn(box, n) ==
  \/ \E t \in DOMAIN box : LastOf(box, n, t) /\ ~Buries(box[t].event, n)
  \/ Undecided(box, n) /\ \E t \in DOMAIN box : Touches(box[t].event, n)

\* The outbox says of x what its row holds.
Agrees(x) ==
  /\ rows[x].live <=> LiveIn(outbox, RecordNode(x))
  /\ rows[x].known /\ ~rows[x].live => ~Undecided(outbox, RecordNode(x))

\* An append about x is still to come.
Due(x) == \E c \in Callers : \E i \in DOMAIN todo[c] : Settles(todo[c][i], x)

StepsTold ==
  /\ \A c \in Callers : \A x \in Tracked : Told(todo[c], x, rows[x])
  /\ \A c \in Callers : \A i \in DOMAIN todo[c] : Proper(todo[c][i])

Recorded(x) ==
  /\ x \notin lost /\ ~Due(x) => Agrees(x)
  /\ ~rows[x].known => /\ Undecided(outbox, RecordNode(x))
                       /\ \A t \in DOMAIN outbox : ~Touches(outbox[t].event, RecordNode(x))
  /\ x \in Executions =>
       /\ rows[x].live \/ ~rows[x].known => Undecided(outbox, RecordNode(x))
       /\ \A t \in DOMAIN outbox : /\ ~Raises(outbox[t].event, RecordNode(x))
                                   /\ KeyTells(outbox[t].key, outbox[t].event, x)

SourceInv == StepsTold /\ \A x \in Tracked : Recorded(x)

\* Of the records the outbox tells of, the graph of a healthy outbox shows those
\* that live.
LEMMA LastDecides ==
  ASSUME NEW box, DOMAIN box \subseteq 1..MaxEvents, NEW n, ~Undecided(box, n)
  PROVE  \E t \in DOMAIN box : LastOf(box, n, t)
<1> DEFINE S == {t \in DOMAIN box : Decides(box[t].event, n)}
<1>1. S \in SUBSET (1..MaxEvents) /\ S # {}
  BY DEF Undecided
<1>2. PICK m \in S : \A t \in S : t = m \/ t < m
  <2> HIDE DEF S
  <2> QED BY <1>1, Latest
<1>3. ASSUME NEW u \in DOMAIN box, m < u PROVE ~Decides(box[u].event, n)
  <2>1. m \in Nat /\ u \in Nat
    BY <1>1, OutboxAssumption
  <2>2. u # m /\ ~(u < m)
    BY <1>3, <2>1
  <2> QED BY <1>2, <2>2
<1> QED BY <1>2, <1>3 DEF LastOf

LEMMA LastIsOne ==
  ASSUME NEW box, DOMAIN box \subseteq 1..MaxEvents, NEW n,
         NEW t, NEW u, LastOf(box, n, t), LastOf(box, n, u)
  PROVE  t = u
<1>1. t \in Nat /\ u \in Nat
  BY OutboxAssumption DEF LastOf
<1>2. ~(t < u) /\ ~(u < t)
  BY DEF LastOf
<1> QED BY <1>1, <1>2

LEMMA ShownIsLive ==
  ASSUME NEW box, DOMAIN box \subseteq 1..MaxEvents, NEW g, NEW n,
         Shows(box, DOMAIN box, g, n)
  PROVE  n \in Live(g) <=> LiveIn(box, n)
<1>1. CASE Undecided(box, n)
  <2>1. n \in Live(g) => n \in DOMAIN g
    BY DEF Live
  <2>2. \A t \in DOMAIN box : ~LastOf(box, n, t)
    BY <1>1 DEF Undecided, LastOf
  <2> QED BY <1>1, <2>1, <2>2 DEF Shows, Undecided, LiveIn
<1>2. CASE ~Undecided(box, n)
  <2>1. PICK t \in DOMAIN box : LastOf(box, n, t)
    BY <1>2, LastDecides
  <2>2. n \in Live(g) <=> ~Buries(box[t].event, n)
    BY <2>1 DEF Shows, LastOf
  <2>3. LiveIn(box, n) <=> ~Buries(box[t].event, n)
    BY <1>2, <2>1, LastIsOne DEF LiveIn
  <2> QED BY <2>2, <2>3
<1> QED BY <1>1, <1>2

LEMMA RecordedIsFollowed ==
  ASSUME OutboxInv, TypeInv, ShowInv, SourceInv
  PROVE  GraphFollowsSource
<1> SUFFICES ASSUME Settled, ~blank,
                    NEW x \in (Workflows \cup Memories \cup Executions) \ lost
             PROVE  (RecordNode(x) \in Live(graph)) = rows[x].live
  BY DEF GraphFollowsSource
<1>1. DOMAIN outbox \subseteq 1..MaxEvents /\ x \in Tracked
  BY RowNumbers DEF Tracked
<1>2. Applied = DOMAIN outbox
  BY DEF Settled, Having, Applied
<1>3. Shows(outbox, DOMAIN outbox, graph, RecordNode(x))
  BY <1>1, <1>2, NodeOfRecord DEF ShowInv
<1>4. RecordNode(x) \in Live(graph) <=> LiveIn(outbox, RecordNode(x))
  BY <1>1, <1>3, ShownIsLive
<1>5. ~Due(x)
  BY DEF Settled, Due
<1>6. rows[x].live <=> LiveIn(outbox, RecordNode(x))
  BY <1>1, <1>5 DEF SourceInv, Recorded, Agrees
<1>7. rows[x].live \in BOOLEAN
  BY DEF TypeInv, RowOK, Records
<1> QED BY <1>4, <1>6, <1>7

-----------------------------------------------------------------------------
(* The requests that tell the outbox what they write.                      *)

\* Nothing was written before the outbox was added, no request repeats events
\* without writing, and the payloads of memories, executions and personas decide
\* about no other record.
PlainRequests ==
  /\ DOMAIN Before \cap Tracked = {}
  /\ Operations \cap {"backfill", "item"} = {}
  /\ \A refs \in MemoryRefs : \A p \in refs.packItems : p[1] \notin RecordLabels
  /\ \A e \in RunEvents : e[1] \in RunLike /\ "run" \in DOMAIN e[2]
  /\ \A e \in PersonaEvents : e[1] \in PersonaTypes /\ e[2].workflow = {}

\* An append that speaks of the records Y alone, as deleted or as stored.
Tells(s, Y, gone) ==
  /\ s.do = "append" /\ Proper(s)
  /\ \A x \in Tracked : Speaks(s, x) => x \in Y /\ (Buries(s.event, RecordNode(x)) <=> gone)

LEMMA Disjoint ==
  /\ Workflows \cap Memories = {} /\ Workflows \cap Executions = {}
  /\ Memories \cap Executions = {} /\ Tracked \cap (Links \cup Personas) = {}
  /\ \A x \in Tracked : x \in Records
BY RecordsAssumption DEF Tracked, Records

\* An event that is not of an execution and has no key of one.
LEMMA OtherEvent ==
  ASSUME NEW e, NEW k, e.type # "execution.deleted", e.type \notin RunLike,
         k = None \/ k[2] \notin Executions,
         NEW Y, NEW gone \in BOOLEAN,
         \A x \in Tracked : Decides(e, RecordNode(x)) =>
           x \in Y /\ x \notin Executions /\ (Buries(e, RecordNode(x)) <=> gone)
  PROVE  /\ DOMAIN Enqueue(e, k) = {1} /\ IsSeq(Enqueue(e, k))
         /\ Tells(Enqueue(e, k)[1], Y, gone)
         /\ \A x \in Tracked \ Executions :
              k = None /\ x \in About(e) /\ Decides(e, RecordNode(x)) => Settles(Enqueue(e, k)[1], x)
<1> DEFINE s == [do |-> "append", event |-> e, key |-> k]
<1>1. Enqueue(e, k) = <<s>> /\ s.do = "append" /\ s.event = e /\ s.key = k
  BY DEF Enqueue
<1>2. DOMAIN Enqueue(e, k) = {1} /\ IsSeq(Enqueue(e, k)) /\ Enqueue(e, k)[1] = s
  BY <1>1, OneStep
<1> HIDE DEF s
<1>3. ASSUME NEW x \in Tracked, Speaks(s, x)
      PROVE  Decides(e, RecordNode(x))
  BY <1>1, <1>3 DEF Speaks, Rules, Settles
<1>4. ASSUME NEW x \in Executions
      PROVE  /\ ~Raises(s.event, RecordNode(x)) /\ KeyTells(s.key, s.event, x)
             /\ ~Settles(s, x)
  <2>1. x \in Tracked
    BY DEF Tracked
  <2>2. ~Decides(e, RecordNode(x))
    BY <2>1
  <2> QED BY <1>1, <2>2 DEF Decides, KeyTells, Settles
<1>5. Proper(s)
  BY <1>1, <1>4 DEF Proper
<1>6. Tells(s, Y, gone)
  BY <1>1, <1>3, <1>5 DEF Tells
<1>7. ASSUME NEW x \in Tracked \ Executions, k = None, x \in About(e), Decides(e, RecordNode(x))
      PROVE  Settles(s, x)
  BY <1>1, <1>7 DEF Settles
<1> QED BY <1>2, <1>6, <1>7

LEMMA WorkflowTells ==
  ASSUME NEW w \in Workflows, NEW refs, NEW type
  PROVE  LET b == Enqueue(Event(type, "workflow", w, 0, refs), None)
         IN  /\ DOMAIN b = {1} /\ IsSeq(b)
             /\ type \in {"workflow.created", "workflow.updated", "workflow.deleted"} =>
                  Tells(b[1], {w}, type = "workflow.deleted") /\ Settles(b[1], w)
<1> DEFINE e == Event(type, "workflow", w, 0, refs)
<1>1. e.type = type /\ e.id = w /\ w \in About(e)
  BY DEF Event, About
<1>2. w \in Tracked \ Executions
  BY Disjoint DEF Tracked
<1> HIDE DEF e
<1>3. DOMAIN Enqueue(e, None) = {1} /\ IsSeq(Enqueue(e, None))
  BY OneStep DEF Enqueue
<1>4. ASSUME type \in {"workflow.created", "workflow.updated", "workflow.deleted"}
      PROVE  Tells(Enqueue(e, None)[1], {w}, type = "workflow.deleted")
             /\ Settles(Enqueue(e, None)[1], w)
  <2>1. e.type # "execution.deleted" /\ e.type \notin RunLike
    BY <1>1, <1>4 DEF RunLike, StepTypes, RunTypes, DetailTypes, ContainerTypes
  <2>2. ASSUME NEW x \in Tracked, Decides(e, RecordNode(x))
        PROVE  /\ x \in {w} /\ x \notin Executions
               /\ (Buries(e, RecordNode(x)) <=> type = "workflow.deleted")
    <3>1. x = w /\ (Buries(e, RecordNode(x)) <=> type = "workflow.deleted")
      BY <1>1, <1>4, <2>2, WorkflowEvents DEF Decides
    <3> QED BY <1>2, <3>1
  <2>3. Decides(e, RecordNode(w))
    BY <1>1, <1>2, <1>4, WorkflowEvents DEF Decides
  <2> QED BY <1>1, <1>2, <2>1, <2>2, <2>3, OtherEvent
<1> QED BY <1>3, <1>4 DEF e

\* Events that decide about no record: entities, collections, memory
\* links, personas.
LEMMA SilentTells ==
  ASSUME NEW e,
         \/ e.type \in {"memory.entities.extracted", "document_memory_collection.created",
                        "workflow_memory_link.created", "workflow_memory_link.updated",
                        "workflow_memory_link.deleted"}
         \/ e.type \in PersonaTypes /\ e.refs.workflow = {}
  PROVE  LET b == Enqueue(e, None)
         IN  DOMAIN b = {1} /\ IsSeq(b) /\ Tells(b[1], {}, FALSE)
<1>1. e.type # "execution.deleted" /\ e.type \notin RunLike
  BY DEF RunLike, StepTypes, RunTypes, DetailTypes, ContainerTypes, PersonaTypes
<1>2. \A y \in Tracked : ~Decides(e, RecordNode(y))
  BY MemoryEventsSay, DeletionEvents DEF Decides
<1> QED BY <1>1, <1>2, OtherEvent

\* The memory's own event, and the entities extracted after it.
LEMMA MemoryTells ==
  ASSUME NEW m \in Memories, NEW refs, NEW type,
         \/ type = "memory.deleted"
         \/ type \in {"memory.created", "memory.updated"}
            /\ \A p \in refs.packItems : p[1] \notin RecordLabels
  PROVE  LET b == MemoryEvents(type, m, refs)
         IN  /\ IsSeq(b) /\ 1 \in DOMAIN b /\ Settles(b[1], m)
             /\ \A i \in DOMAIN b : Tells(b[i], {m}, type = "memory.deleted")
<1> DEFINE e == Event(type, "memory", m, 0, refs)
           none == [NoRefs EXCEPT !.entity = Extracted, !.document = refs.document]
           f == Event("memory.entities.extracted", "memory", m, 0, none)
           first == Enqueue(e, None)
           second == Enqueue(f, None)
           gone == type = "memory.deleted"
<1>1. e.type = type /\ e.id = m /\ e.refs = refs /\ m \in About(e)
      /\ f.type = "memory.entities.extracted"
  BY DEF Event, About
<1>2. m \in Tracked \ Executions /\ gone \in BOOLEAN
  BY Disjoint DEF Tracked
<1>3. MemoryEvents(type, m, refs) = first \o (IF Extracted = {} THEN <<>> ELSE second)
  BY DEF MemoryEvents
<1> HIDE DEF e, f, gone
<1>4. /\ DOMAIN first = {1} /\ IsSeq(first)
      /\ Tells(first[1], {m}, gone) /\ Settles(first[1], m)
  <2>1. e.type # "execution.deleted" /\ e.type \notin RunLike
    BY <1>1 DEF RunLike, StepTypes, RunTypes, DetailTypes, ContainerTypes
  <2>2. ASSUME NEW x \in Tracked
        PROVE  /\ Decides(e, RecordNode(x)) <=> x = m
               /\ x = m => (Buries(e, RecordNode(x)) <=> gone)
    <3>1. CASE type = "memory.deleted"
      <4>1. ~Raises(e, RecordNode(x)) /\ (Buries(e, RecordNode(x)) <=> x \in Memories /\ x = m)
        BY <1>1, <3>1, DeletionEvents
      <4> QED BY <3>1, <4>1 DEF Decides, gone
    <3>2. CASE type \in {"memory.created", "memory.updated"}
               /\ \A p \in refs.packItems : p[1] \notin RecordLabels
      <4>1. ~Buries(e, RecordNode(x)) /\ (Raises(e, RecordNode(x)) <=> x \in Memories /\ x = m)
        BY <1>1, <3>2, MemoryEventsSay
      <4> QED BY <3>2, <4>1 DEF Decides, gone
    <3> QED BY <3>1, <3>2
  <2>3. \A x \in Tracked : Decides(e, RecordNode(x)) =>
          x \in {m} /\ x \notin Executions /\ (Buries(e, RecordNode(x)) <=> gone)
    BY <1>2, <2>2
  <2>4. Decides(e, RecordNode(m))
    BY <1>2, <2>2
  <2> QED BY <1>1, <1>2, <2>1, <2>3, <2>4, OtherEvent
<1>5. DOMAIN second = {1} /\ IsSeq(second) /\ Tells(second[1], {m}, gone)
  <2>1. DOMAIN second = {1} /\ IsSeq(second) /\ Tells(second[1], {}, FALSE)
    BY <1>1, SilentTells
  <2> QED BY <2>1 DEF Tells
<1> HIDE DEF first, second
<1>6. CASE Extracted = {}
  <2>1. MemoryEvents(type, m, refs) = first
    <3>1. first \in Seq(Range(first))
      BY <1>4 DEF IsSeq
    <3>2. first \o <<>> = first
      BY <3>1
    <3> QED BY <1>3, <1>6, <3>2
  <2> QED BY <1>4, <2>1 DEF gone
<1>7. CASE Extracted # {}
  <2> DEFINE b == first \o second
  <2>1. MemoryEvents(type, m, refs) = b
    BY <1>3, <1>7
  <2>2. Len(first) = 1 /\ Len(second) = 1
    <3>1. /\ Len(first) \in Nat /\ DOMAIN first = 1..Len(first)
          /\ Len(second) \in Nat /\ DOMAIN second = 1..Len(second)
      BY <1>4, <1>5, JoinedSeqs
    <3> QED BY <1>4, <1>5, <3>1
  <2>3. /\ IsSeq(b) /\ DOMAIN b = 1..2 /\ b[1] = first[1] /\ b[2] = second[1]
    <3>1. /\ IsSeq(b) /\ DOMAIN b = 1..(Len(first) + Len(second))
          /\ \A i \in 1..Len(first) : b[i] = first[i]
          /\ \A i \in 1..Len(second) : b[Len(first) + i] = second[i]
      BY <1>4, <1>5, JoinedSeqs
    <3>2. b[1 + 1] = second[1] /\ b[1] = first[1]
      BY <2>2, <3>1
    <3> QED BY <2>2, <3>1, <3>2
  <2> HIDE DEF b
  <2>4. 1 \in DOMAIN b /\ Settles(b[1], m)
    BY <1>4, <2>3
  <2>5. \A i \in DOMAIN b : i = 1 \/ i = 2
    BY <2>3
  <2>6. \A i \in DOMAIN b : Tells(b[i], {m}, gone)
    BY <1>4, <1>5, <2>3, <2>5
  <2> QED BY <2>1, <2>3, <2>4, <2>6 DEF gone
<1> QED BY <1>6, <1>7

LEMMA CollectionDeletedTells ==
  ASSUME NEW d, NEW ms \in SUBSET Memories
  PROVE  LET e == Event("document_memory_collection.deleted", "document_memory_collection",
                        d, 0, [NoRefs EXCEPT !.memory = ms])
             b == Enqueue(e, None)
         IN  DOMAIN b = {1} /\ IsSeq(b) /\ Tells(b[1], ms, TRUE)
<1> DEFINE e == Event("document_memory_collection.deleted", "document_memory_collection",
                      d, 0, [NoRefs EXCEPT !.memory = ms])
<1>1. e.type = "document_memory_collection.deleted" /\ e.refs.memory = ms
  BY DEF Event, NoRefs
<1> HIDE DEF e
<1>2. e.type # "execution.deleted" /\ e.type \notin RunLike
  BY <1>1 DEF RunLike, StepTypes, RunTypes, DetailTypes, ContainerTypes
<1>3. ASSUME NEW x \in Tracked, Decides(e, RecordNode(x))
      PROVE  x \in ms /\ x \notin Executions /\ (Buries(e, RecordNode(x)) <=> TRUE)
  <2>1. Buries(e, RecordNode(x)) /\ x \in Memories /\ x \in ms
    BY <1>1, <1>3, DeletionEvents DEF Decides
  <2> QED BY <2>1, Disjoint
<1> QED BY <1>2, <1>3, OtherEvent DEF e

\* Hints have a key that names their memory.
LEMMA HintsTell ==
  ASSUME NEW m \in Memories, NEW refs
  PROVE  LET b == Enqueue(Hints(m, refs), <<"hints", m, refs.entity>>)
         IN  DOMAIN b = {1} /\ IsSeq(b) /\ Tells(b[1], {m}, FALSE)
<1> DEFINE e == Hints(m, refs)
           k == <<"hints", m, refs.entity>>
<1>1. e.type = "memory.source_intelligence.graph_hints.approved" /\ e.id = m /\ k[2] = m
  BY DEF Hints, Event
<1> HIDE DEF e, k
<1>2. e.type # "execution.deleted" /\ e.type \notin RunLike
  BY <1>1 DEF RunLike, StepTypes, RunTypes, DetailTypes, ContainerTypes
<1>3. k[2] \notin Executions
  BY <1>1, Disjoint
<1>4. ASSUME NEW x \in Tracked, Decides(e, RecordNode(x))
      PROVE  x \in {m} /\ x \notin Executions /\ (Buries(e, RecordNode(x)) <=> FALSE)
  <2>1. ~Buries(e, RecordNode(x)) /\ x \in Memories /\ x = m
    BY <1>1, <1>4, MemoryEventsSay DEF Decides
  <2> QED BY <2>1, Disjoint
<1> QED BY <1>2, <1>3, <1>4, OtherEvent DEF e, k

\* The events of an execution have its number in their key.
LEMMA RunTells ==
  ASSUME NEW x \in Executions, NEW type \in RunLike, NEW refs, "run" \in DOMAIN refs, NEW seq
  PROVE  LET b == Enqueue(RunEvent(x, type, refs, seq), <<"execution", x, seq>>)
         IN  DOMAIN b = {1} /\ IsSeq(b) /\ Tells(b[1], {x}, FALSE) /\ Settles(b[1], x)
<1> DEFINE e == RunEvent(x, type, refs, seq)
           k == <<"execution", x, seq>>
           s == [do |-> "append", event |-> e, key |-> k]
<1>1. Enqueue(e, k) = <<s>> /\ s.do = "append" /\ s.event = e /\ s.key = k
      /\ k[1] = "execution" /\ k[2] = x
  BY DEF Enqueue
<1>2. e.type = type /\ e.refs.run = {x}
  BY DEF RunEvent, Event
<1>3. DOMAIN Enqueue(e, k) = {1} /\ IsSeq(Enqueue(e, k)) /\ Enqueue(e, k)[1] = s
  BY <1>1, OneStep
<1> HIDE DEF e, k, s
<1>4. ASSUME NEW y \in Tracked
      PROVE  /\ ~Decides(e, RecordNode(y)) /\ ~Buries(e, RecordNode(y)) /\ ~Raises(e, RecordNode(y))
             /\ y = x => Touches(e, RecordNode(y))
             /\ Settles(s, y) <=> y = x
  <2>1. /\ ~Buries(e, RecordNode(y)) /\ ~Raises(e, RecordNode(y))
        /\ y \in Executions /\ e.refs.run = {y} => Touches(e, RecordNode(y))
    BY <1>2, RunEventsSay
  <2>2. e.type # "execution.deleted"
    BY <1>2 DEF RunLike, StepTypes, RunTypes, DetailTypes, ContainerTypes
  <2> QED BY <1>1, <1>2, <2>1, <2>2 DEF Decides, Settles
<1>5. x \in Tracked /\ Executions \subseteq Tracked
  BY DEF Tracked
<1>6. Proper(s)
  <2>1. ASSUME NEW y \in Executions
        PROVE  ~Raises(e, RecordNode(y)) /\ KeyTells(k, e, y)
               /\ (Settles(s, y) => /\ k[2] = y /\ k[1] = "execution"
                                    /\ Touches(e, RecordNode(y)) /\ ~Buries(e, RecordNode(y)))
    BY <1>1, <1>4, <1>5 DEF KeyTells
  <2> QED BY <1>1, <2>1 DEF Proper
<1>7. Tells(s, {x}, FALSE)
  <2>1. \A y \in Tracked : Speaks(s, y) => y \in {x} /\ (Buries(e, RecordNode(y)) <=> FALSE)
    BY <1>1, <1>4 DEF Speaks, Rules
  <2> QED BY <1>1, <1>6, <2>1 DEF Tells
<1> QED BY <1>3, <1>4, <1>5, <1>7 DEF e, k

LEMMA RunDeletedTells ==
  ASSUME NEW x \in Executions
  PROVE  LET b == Enqueue(Event("execution.deleted", "workflow_run", x, 0, NoRefs),
                          <<"deleted", x, 0>>)
         IN  DOMAIN b = {1} /\ IsSeq(b) /\ Tells(b[1], {x}, TRUE) /\ Settles(b[1], x)
<1> DEFINE e == Event("execution.deleted", "workflow_run", x, 0, NoRefs)
           k == <<"deleted", x, 0>>
           s == [do |-> "append", event |-> e, key |-> k]
<1>1. Enqueue(e, k) = <<s>> /\ s.do = "append" /\ s.event = e /\ s.key = k
      /\ k[1] = "deleted" /\ k[2] = x
  BY DEF Enqueue
<1>2. e.type = "execution.deleted" /\ e.id = x
  BY DEF Event
<1>3. DOMAIN Enqueue(e, k) = {1} /\ IsSeq(Enqueue(e, k)) /\ Enqueue(e, k)[1] = s
  BY <1>1, OneStep
<1> HIDE DEF e, k, s
<1>4. ASSUME NEW y \in Tracked
      PROVE  /\ ~Raises(e, RecordNode(y))
             /\ Buries(e, RecordNode(y)) <=> y \in Executions /\ y = x
             /\ y \in Executions => (Settles(s, y) <=> y = x)
             /\ y \notin Executions => ~Settles(s, y)
  <2>1. /\ ~Raises(e, RecordNode(y))
        /\ Buries(e, RecordNode(y)) <=> y \in Executions /\ y = x
    BY <1>2, DeletionEvents
  <2>2. e.type \notin RunLike
    BY <1>2 DEF RunLike, StepTypes, RunTypes, DetailTypes, ContainerTypes
  <2> QED BY <1>1, <1>2, <2>1, <2>2 DEF Decides, Settles
<1>5. x \in Tracked /\ Executions \subseteq Tracked
  BY DEF Tracked
<1>6. Proper(s)
  <2>1. ASSUME NEW y \in Executions
        PROVE  ~Raises(e, RecordNode(y)) /\ KeyTells(k, e, y)
               /\ (Settles(s, y) => /\ k[2] = y /\ k[1] = "deleted"
                                    /\ Buries(e, RecordNode(y)))
    BY <1>1, <1>4, <1>5 DEF KeyTells
  <2> QED BY <1>1, <2>1 DEF Proper
<1>7. Tells(s, {x}, TRUE)
  <2>1. \A y \in Tracked : Speaks(s, y) => y \in {x} /\ (Buries(e, RecordNode(y)) <=> TRUE)
    BY <1>1, <1>4 DEF Speaks, Rules, Decides
  <2> QED BY <1>1, <1>6, <2>1 DEF Tells
<1> QED BY <1>3, <1>4, <1>5, <1>7 DEF e, k

\* The steps of a request tell the outbox of every record.
Telling(steps) ==
  /\ \A x \in Tracked : Told(steps, x, rows[x])
  /\ \A i \in DOMAIN steps : Proper(steps[i])

\* A request without a write, of appends about rows as they are.
LEMMA AppendsTold ==
  ASSUME NEW b, NEW Y, NEW gone \in BOOLEAN, \A i \in DOMAIN b : Tells(b[i], Y, gone),
         \A x \in Y \cap Tracked : rows[x].known /\ (gone <=> ~rows[x].live)
  PROVE  Telling(b)
<1>1. \A i \in DOMAIN b : \A x \in Tracked : ~Writes(b[i], x)
  BY DEF Tells, Writes
<1>2. \A i \in DOMAIN b : \A x \in Tracked : Speaks(b[i], x) =>
        rows[x].known /\ AsIn(b[i], x, rows[x])
  BY DEF Tells, AsIn
<1>3. \A i \in DOMAIN b : Proper(b[i])
  BY DEF Tells
<1> QED BY <1>1, <1>2, <1>3 DEF Telling, Told

\* A request that writes and then appends about what it wrote.
LEMMA WriteTold ==
  ASSUME NEW new, DOMAIN new # {}, \A x \in DOMAIN new : x \in Personas => new[x].live,
         NEW b, IsSeq(b), \A i \in DOMAIN b : b[i].do = "append" /\ Proper(b[i]),
         \A i \in DOMAIN b : \A x \in Tracked : Speaks(b[i], x) =>
           x \in DOMAIN new /\ AsIn(b[i], x, new[x]),
         \A x \in DOMAIN new \cap Tracked :
           Fits(new[x], x, rows[x]) /\ \E i \in DOMAIN b : Settles(b[i], x)
  PROVE  Telling(Write(new) \o b)
<1> DEFINE w == [do |-> "write", new |-> new]
           s == Write(new) \o b
<1>1. /\ DOMAIN s = 1..(1 + Len(b)) /\ Len(b) \in Nat /\ s[1] = w
      /\ DOMAIN b = 1..Len(b) /\ \A i \in 1..Len(b) : s[1 + i] = b[i]
  <2>1. IsSeq(<<w>>) /\ Len(<<w>>) = 1 /\ <<w>>[1] = w
    BY OneStep
  <2>2. s = <<w>> \o b
    BY DEF Write
  <2> HIDE DEF s, w
  <2> QED BY <2>1, <2>2, JoinedSeqs
<1>2. w.do = "write" /\ w.new = new
  OBVIOUS
<1> HIDE DEF s, w
<1>3. ASSUME NEW i \in DOMAIN s
      PROVE  i = 1 \/ \E k \in DOMAIN b : s[i] = b[k] /\ i = 1 + k
  <2>1. i = 1 \/ (i - 1 \in 1..Len(b) /\ i = 1 + (i - 1))
    BY <1>1
  <2> QED BY <1>1, <2>1
<1>4. \A x : Writes(s[1], x) <=> x \in DOMAIN new
  BY <1>1, <1>2 DEF Writes
<1>5. \A x : ~Speaks(s[1], x)
  BY <1>1, <1>2 DEF Speaks, Rules, Settles
<1>6. \A k \in DOMAIN b : 1 + k \in DOMAIN s /\ 1 < 1 + k /\ s[1 + k] = b[k]
  BY <1>1
<1>7. \A k \in DOMAIN b : \A x : ~Writes(b[k], x)
  BY DEF Writes
<1>8. Proper(s[1])
  BY <1>1, <1>2 DEF Proper
<1>9. \A i \in DOMAIN s : Proper(s[i])
  BY <1>3, <1>8
<1>10. 1 \in DOMAIN s
  BY <1>1
<1>11. ASSUME NEW x \in Tracked
       PROVE  Told(s, x, rows[x])
  <2>1. \A i \in DOMAIN s : Writes(s[i], x) => i = 1 /\ x \in DOMAIN new
    BY <1>3, <1>4, <1>7
  <2>2. \A i \in DOMAIN s : Speaks(s[i], x) =>
          1 < i /\ x \in DOMAIN new /\ AsIn(s[i], x, new[x])
    BY <1>3, <1>5, <1>6
  <2>3. x \in DOMAIN new =>
          Fits(new[x], x, rows[x]) /\ \E j \in DOMAIN s : 1 < j /\ Settles(s[j], x)
    BY <1>6
  <2>4. s[1].new = new
    BY <1>1, <1>2
  <2>5. \A i \in DOMAIN s : Speaks(s[i], x) => \E j \in DOMAIN s : Writes(s[j], x)
    BY <1>4, <1>10, <2>2
  <2>6. ASSUME NEW i \in DOMAIN s, Writes(s[i], x)
        PROVE  /\ Fits(s[i].new[x], x, rows[x])
               /\ \E j \in DOMAIN s : i < j /\ Settles(s[j], x)
               /\ \A j \in DOMAIN s : Writes(s[j], x) => j = i
               /\ \A j \in DOMAIN s :
                    Speaks(s[j], x) => i < j /\ AsIn(s[j], x, s[i].new[x])
    BY <2>1, <2>2, <2>3, <2>4, <2>6
  <2> QED BY <2>5, <2>6 DEF Told
<1> QED BY <1>9, <1>11 DEF Telling, s

\* A request that writes one record.
LEMMA OneTold ==
  ASSUME NEW x \in Tracked, NEW r, Fits(r, x, rows[x]),
         NEW b, IsSeq(b), \A i \in DOMAIN b : Tells(b[i], {x}, ~r.live),
         1 \in DOMAIN b, Settles(b[1], x)
  PROVE  Telling(Write(One(x, r)) \o b)
<1> DEFINE new == One(x, r)
<1>1. DOMAIN new = {x} /\ new[x] = r
  BY OneRow
<1>2. x \notin Personas
  BY Disjoint
<1> HIDE DEF new
<1>3. \A i \in DOMAIN b : \A y \in Tracked : Speaks(b[i], y) => y \in DOMAIN new /\ AsIn(b[i], y, new[y])
  BY <1>1 DEF Tells, AsIn
<1>4. \A i \in DOMAIN b : b[i].do = "append" /\ Proper(b[i])
  BY DEF Tells
<1>5. DOMAIN new # {} /\ \A y \in DOMAIN new : y \in Personas => new[y].live
  BY <1>1, <1>2
<1>6. \A y \in DOMAIN new \cap Tracked :
        Fits(new[y], y, rows[y]) /\ \E i \in DOMAIN b : Settles(b[i], y)
  BY <1>1
<1> QED BY <1>3, <1>4, <1>5, <1>6, WriteTold DEF new

\* A request that begins with such steps.
Speaking(c) ==
  \E steps : /\ IsSeq(steps) /\ Telling(steps) /\ todo[c] = <<>>
             /\ todo' = [todo EXCEPT ![c] = steps] /\ UNCHANGED <<rows, outbox, lost>>

LEMMA BeginsTelling ==
  ASSUME NEW c, NEW op, NEW steps, Begin(c, op, steps), IsSeq(steps), Telling(steps)
  PROVE  Speaking(c)
BY DEF Begin, Continue, Speaking

\* A record before and after a handler's write.
LEMMA StoredFits ==
  ASSUME NEW x \in Tracked
  PROVE  /\ \A refs : Stored(refs).live /\ Stored(refs).known
         /\ \A refs, n : LET r == [Stored(refs) EXCEPT !.seq = n]
                         IN  r.live /\ r.known
         /\ \A refs : (x \in Executions => rows[x].live \/ ~rows[x].known)
                        => Fits(Stored(refs), x, rows[x])
         /\ \A refs, n : (x \in Executions => rows[x].live \/ ~rows[x].known)
                        => Fits([Stored(refs) EXCEPT !.seq = n], x, rows[x])
BY DEF Stored, Fits

LEMMA RemovedFits ==
  ASSUME TypeInv, NEW x \in Tracked, rows[x].known, x \in Workflows \/ rows[x].live
  PROVE  ~Removed(x).live /\ Fits(Removed(x), x, rows[x])
<1>1. rows[x] \in [live : BOOLEAN, known : BOOLEAN, refs : {rows[x].refs}, seq : Nat]
  BY Disjoint DEF TypeInv, RowOK
<1>2. ~Removed(x).live /\ Removed(x).known = rows[x].known
  BY <1>1 DEF Removed
<1> QED BY <1>2 DEF Fits

LEMMA WorkflowRequestsTell ==
  ASSUME TypeInv, NEW c, NEW w \in Workflows
  PROVE  /\ \A refs : SaveWorkflow(c, w, refs) => Speaking(c)
         /\ DeleteWorkflow(c, w) => Speaking(c)
<1>1. w \in Tracked /\ w \notin Executions
  BY Disjoint DEF Tracked
<1>2. ASSUME NEW refs, SaveWorkflow(c, w, refs)
      PROVE  Speaking(c)
  <2> DEFINE b == WorkflowSaved(w, refs)
  <2>1. PICK type \in {"workflow.created", "workflow.updated"} :
          b = Enqueue(Event(type, "workflow", w, 0, refs), None)
    BY DEF WorkflowSaved
  <2> HIDE DEF b
  <2>2. DOMAIN b = {1} /\ IsSeq(b) /\ Tells(b[1], {w}, FALSE) /\ Settles(b[1], w)
    <3>1. DOMAIN b = {1} /\ IsSeq(b) /\ Tells(b[1], {w}, type = "workflow.deleted")
          /\ Settles(b[1], w)
      BY <2>1, WorkflowTells
    <3>2. (type = "workflow.deleted") = FALSE
      BY <2>1
    <3> QED BY <3>1, <3>2
  <2>3. Stored(refs).live /\ Fits(Stored(refs), w, rows[w])
    BY <1>1, StoredFits
  <2>4. Telling(Write(One(w, Stored(refs))) \o b)
    <3>1. \A i \in DOMAIN b : Tells(b[i], {w}, ~Stored(refs).live)
      BY <2>2, <2>3 DEF Tells
    <3> QED BY <1>1, <2>2, <2>3, <3>1, OneTold
  <2>5. IsSeq(Write(One(w, Stored(refs))) \o b)
    BY <2>2, OneStep, JoinedSeqs DEF Write
  <2>6. Begin(c, "workflow", Write(One(w, Stored(refs))) \o b)
    BY <1>2 DEF SaveWorkflow, b
  <2> QED BY <2>4, <2>5, <2>6, BeginsTelling
<1>3. ASSUME DeleteWorkflow(c, w)
      PROVE  Speaking(c)
  <2> DEFINE b == Enqueue(Event("workflow.deleted", "workflow", w, 0, rows[w].refs), None)
             r == Removed(w)
  <2>1. DOMAIN b = {1} /\ IsSeq(b) /\ Tells(b[1], {w}, TRUE) /\ Settles(b[1], w)
    BY WorkflowTells
  <2>2. rows[w].live /\ Begin(c, "workflow", Write(One(w, r)) \o b)
    BY <1>3 DEF DeleteWorkflow
  <2>3. ~r.live /\ Fits(r, w, rows[w])
    <3>1. rows[w].known
      BY <1>1, <2>2, Disjoint DEF TypeInv, RowOK
    <3> HIDE DEF r
    <3> QED BY <1>1, <2>2, <3>1, RemovedFits DEF r
  <2> HIDE DEF b, r
  <2>4. Telling(Write(One(w, r)) \o b)
    <3>1. \A i \in DOMAIN b : Tells(b[i], {w}, ~r.live)
      BY <2>1, <2>3 DEF Tells
    <3> QED BY <1>1, <2>1, <2>3, <3>1, OneTold
  <2>5. IsSeq(Write(One(w, r)) \o b)
    BY <2>1, OneStep, JoinedSeqs DEF Write
  <2> QED BY <2>2, <2>4, <2>5, BeginsTelling
<1> QED BY <1>2, <1>3

\* Storing a memory, and removing it.
LEMMA MemoryStepsTell ==
  ASSUME TypeInv, NEW m \in Memories, NEW refs, NEW type
  PROVE  LET b == MemoryEvents(type, m, refs)
         IN  /\ type \in {"memory.created", "memory.updated"}
                /\ (\A p \in refs.packItems : p[1] \notin RecordLabels)
                => LET s == Write(One(m, Stored(refs))) \o b
                   IN  /\ IsSeq(s) /\ Telling(s) /\ IsSeq(b) /\ 1 \in DOMAIN b
                       /\ Settles(b[1], m) /\ \A i \in DOMAIN b : Tells(b[i], {m}, FALSE)
             /\ type = "memory.deleted" /\ rows[m].live
                => LET s == Write(One(m, Removed(m))) \o b
                   IN  /\ IsSeq(s) /\ Telling(s) /\ IsSeq(b) /\ 1 \in DOMAIN b
                       /\ Settles(b[1], m) /\ \A i \in DOMAIN b : Tells(b[i], {m}, TRUE)
<1> DEFINE b == MemoryEvents(type, m, refs)
<1>1. m \in Tracked /\ m \notin Executions
  BY Disjoint DEF Tracked
<1>2. ASSUME type \in {"memory.created", "memory.updated"},
             \A p \in refs.packItems : p[1] \notin RecordLabels
      PROVE  LET s == Write(One(m, Stored(refs))) \o b
             IN  /\ IsSeq(s) /\ Telling(s) /\ IsSeq(b) /\ 1 \in DOMAIN b
                 /\ Settles(b[1], m) /\ \A i \in DOMAIN b : Tells(b[i], {m}, FALSE)
  <2> DEFINE r == Stored(refs)
  <2>1. /\ IsSeq(b) /\ 1 \in DOMAIN b /\ Settles(b[1], m)
        /\ \A i \in DOMAIN b : Tells(b[i], {m}, type = "memory.deleted")
    BY <1>2, MemoryTells
  <2>2. (type = "memory.deleted") = FALSE
    BY <1>2
  <2>3. r.live /\ Fits(r, m, rows[m])
    BY <1>1, StoredFits
  <2> HIDE DEF b, r
  <2>4. \A i \in DOMAIN b : Tells(b[i], {m}, FALSE)
    BY <2>1, <2>2
  <2>5. \A i \in DOMAIN b : Tells(b[i], {m}, ~r.live)
    BY <2>3, <2>4 DEF Tells
  <2>6. Telling(Write(One(m, r)) \o b)
    BY <1>1, <2>1, <2>3, <2>5, OneTold
  <2>7. IsSeq(Write(One(m, r)) \o b)
    BY <2>1, OneStep, JoinedSeqs DEF Write
  <2> QED BY <2>1, <2>4, <2>6, <2>7 DEF r
<1>3. ASSUME type = "memory.deleted", rows[m].live
      PROVE  LET s == Write(One(m, Removed(m))) \o b
             IN  /\ IsSeq(s) /\ Telling(s) /\ IsSeq(b) /\ 1 \in DOMAIN b
                 /\ Settles(b[1], m) /\ \A i \in DOMAIN b : Tells(b[i], {m}, TRUE)
  <2> DEFINE r == Removed(m)
  <2>1. /\ IsSeq(b) /\ 1 \in DOMAIN b /\ Settles(b[1], m)
        /\ \A i \in DOMAIN b : Tells(b[i], {m}, type = "memory.deleted")
    BY <1>3, MemoryTells
  <2>2. (type = "memory.deleted") = TRUE
    BY <1>3
  <2>3. ~r.live /\ Fits(r, m, rows[m])
    <3>1. rows[m].known
      BY <1>1, <1>3, Disjoint DEF TypeInv, RowOK
    <3> QED BY <1>1, <1>3, <3>1, RemovedFits
  <2> HIDE DEF b, r
  <2>4. \A i \in DOMAIN b : Tells(b[i], {m}, TRUE)
    BY <2>1, <2>2
  <2>5. \A i \in DOMAIN b : Tells(b[i], {m}, ~r.live)
    BY <2>3, <2>4 DEF Tells
  <2>6. Telling(Write(One(m, r)) \o b)
    BY <1>1, <2>1, <2>3, <2>5, OneTold
  <2>7. IsSeq(Write(One(m, r)) \o b)
    BY <2>1, OneStep, JoinedSeqs DEF Write
  <2> QED BY <2>1, <2>4, <2>6, <2>7 DEF r
<1> QED BY <1>2, <1>3

LEMMA MemoryRequestsTell ==
  ASSUME TypeInv, PlainRequests, NEW c, NEW m \in Memories
  PROVE  /\ \A refs \in MemoryRefs : CreateMemory(c, m, refs) \/ UpdateMemory(c, m, refs)
                                       => Speaking(c)
         /\ DeleteMemory(c, m) => Speaking(c)
         /\ \A refs : ApproveHints(c, m, refs) => Speaking(c)
         /\ \A refs : ~ApprovePersonaItem(c, m, refs)
<1>1. ASSUME NEW refs \in MemoryRefs, CreateMemory(c, m, refs) \/ UpdateMemory(c, m, refs)
      PROVE  Speaking(c)
  <2>1. PICK type \in {"memory.created", "memory.updated"} :
          Begin(c, "memory", Write(One(m, Stored(refs))) \o MemoryEvents(type, m, refs))
    BY <1>1 DEF CreateMemory, UpdateMemory
  <2>2. \A p \in refs.packItems : p[1] \notin RecordLabels
    BY DEF PlainRequests
  <2> DEFINE s == Write(One(m, Stored(refs))) \o MemoryEvents(type, m, refs)
  <2>3. IsSeq(s) /\ Telling(s)
    BY <2>1, <2>2, MemoryStepsTell
  <2> HIDE DEF s
  <2>4. Begin(c, "memory", s)
    BY <2>1 DEF s
  <2> QED BY <2>3, <2>4, BeginsTelling
<1>2. ASSUME DeleteMemory(c, m)
      PROVE  Speaking(c)
  <2> DEFINE s == MemoryRemoval(m)
  <2>1. rows[m].live /\ Begin(c, "memory", s)
    BY <1>2 DEF DeleteMemory
  <2>2. IsSeq(s) /\ Telling(s)
    BY <2>1, MemoryStepsTell DEF MemoryRemoval
  <2> HIDE DEF s
  <2> QED BY <2>1, <2>2, BeginsTelling
<1>3. ASSUME NEW refs, ApproveHints(c, m, refs)
      PROVE  Speaking(c)
  <2> DEFINE b == Enqueue(Hints(m, refs), <<"hints", m, refs.entity>>)
  <2>1. rows[m].live /\ Begin(c, "hints", b)
    BY <1>3 DEF ApproveHints
  <2>2. DOMAIN b = {1} /\ IsSeq(b) /\ Tells(b[1], {m}, FALSE)
    BY HintsTell
  <2>3. rows[m].known
    BY <2>1, RecordKinds DEF TypeInv, RowOK
  <2> HIDE DEF b
  <2>4. \A x \in {m} \cap Tracked : rows[x].known /\ (FALSE <=> ~rows[x].live)
    BY <2>1, <2>3
  <2>5. \A i \in DOMAIN b : Tells(b[i], {m}, FALSE)
    BY <2>2
  <2>6. Telling(b)
    BY <2>4, <2>5, AppendsTold
  <2> QED BY <2>1, <2>2, <2>6, BeginsTelling
<1>4. ASSUME NEW refs
      PROVE  ~ApprovePersonaItem(c, m, refs)
  BY DEF PlainRequests, ApprovePersonaItem, Begin
<1> QED BY <1>1, <1>2, <1>3, <1>4

LEMMA RunRequestsTell ==
  ASSUME TypeInv, PlainRequests, NEW c, NEW x \in Executions
  PROVE  /\ \A e \in RunEvents : EmitEvent(c, x, e[1], e[2]) => Speaking(c)
         /\ DeleteExecution(c, x) => Speaking(c)
<1>1. x \in Tracked
  BY DEF Tracked
<1>2. ASSUME NEW e \in RunEvents, EmitEvent(c, x, e[1], e[2])
      PROVE  Speaking(c)
  <2> DEFINE n == rows[x].seq + 1
             b == Enqueue(RunEvent(x, e[1], e[2], n), <<"execution", x, n>>)
             r == [Stored(e[2]) EXCEPT !.seq = n]
  <2>1. (rows[x].live \/ ~rows[x].known) /\ Begin(c, "execution", Write(One(x, r)) \o b)
    BY <1>2 DEF EmitEvent
  <2>2. DOMAIN b = {1} /\ IsSeq(b) /\ Tells(b[1], {x}, FALSE) /\ Settles(b[1], x)
    BY RunTells DEF PlainRequests
  <2>3. r.live /\ Fits(r, x, rows[x])
    BY <1>1, <2>1, StoredFits
  <2> HIDE DEF b, r
  <2>4. \A i \in DOMAIN b : Tells(b[i], {x}, ~r.live)
    BY <2>2, <2>3 DEF Tells
  <2>5. Telling(Write(One(x, r)) \o b)
    BY <1>1, <2>2, <2>3, <2>4, OneTold
  <2>6. IsSeq(Write(One(x, r)) \o b)
    BY <2>2, OneStep, JoinedSeqs DEF Write
  <2> QED BY <2>1, <2>5, <2>6, BeginsTelling
<1>3. ASSUME DeleteExecution(c, x)
      PROVE  Speaking(c)
  <2> DEFINE b == Enqueue(Event("execution.deleted", "workflow_run", x, 0, NoRefs),
                          <<"deleted", x, 0>>)
             r == Removed(x)
  <2>1. rows[x].live /\ Begin(c, "execution", Write(One(x, r)) \o b)
    BY <1>3 DEF DeleteExecution
  <2>2. DOMAIN b = {1} /\ IsSeq(b) /\ Tells(b[1], {x}, TRUE) /\ Settles(b[1], x)
    BY RunDeletedTells
  <2>3. ~r.live /\ Fits(r, x, rows[x])
    <3>1. rows[x].known
      BY <2>1, RecordKinds DEF TypeInv, RowOK
    <3> QED BY <1>1, <2>1, <3>1, RemovedFits
  <2> HIDE DEF b, r
  <2>4. \A i \in DOMAIN b : Tells(b[i], {x}, ~r.live)
    BY <2>2, <2>3 DEF Tells
  <2>5. Telling(Write(One(x, r)) \o b)
    BY <1>1, <2>2, <2>3, <2>4, OneTold
  <2>6. IsSeq(Write(One(x, r)) \o b)
    BY <2>2, OneStep, JoinedSeqs DEF Write
  <2> QED BY <2>1, <2>5, <2>6, BeginsTelling
<1> QED BY <1>2, <1>3

LEMMA PersonaRequestsTell ==
  ASSUME PlainRequests, NEW c, NEW p \in Personas, NEW e \in PersonaEvents,
         EmitPersona(c, p, e[1], e[2])
  PROVE  Speaking(c)
<1> DEFINE new == One(p, Stored(e[2]))
           b == Enqueue(Event(e[1], "persona", p, 0, e[2]), None)
<1>1. Begin(c, "persona", Write(new) \o b)
  BY DEF EmitPersona
<1>2. DOMAIN b = {1} /\ IsSeq(b) /\ Tells(b[1], {}, FALSE)
  <2> DEFINE f == Event(e[1], "persona", p, 0, e[2])
  <2>1. f.type \in PersonaTypes /\ f.refs.workflow = {}
    BY DEF Event, PlainRequests
  <2> HIDE DEF f
  <2>2. DOMAIN Enqueue(f, None) = {1} /\ IsSeq(Enqueue(f, None))
        /\ Tells(Enqueue(f, None)[1], {}, FALSE)
    BY <2>1, SilentTells
  <2> QED BY <2>2 DEF f
<1>3. DOMAIN new = {p} /\ new[p].live
  BY OneRow DEF Stored
<1>4. p \notin Tracked
  BY Disjoint
<1> HIDE DEF new, b
<1>5. Telling(Write(new) \o b)
  <2>1. \A i \in DOMAIN b : b[i].do = "append" /\ Proper(b[i])
    BY <1>2 DEF Tells
  <2>2. \A i \in DOMAIN b : \A x \in Tracked : ~Speaks(b[i], x)
    BY <1>2 DEF Tells
  <2>3. DOMAIN new # {} /\ \A x \in DOMAIN new : x \in Personas => new[x].live
    BY <1>3
  <2>4. DOMAIN new \cap Tracked = {}
    BY <1>3, <1>4
  <2> QED BY <1>2, <2>1, <2>2, <2>3, <2>4, WriteTold
<1>6. IsSeq(Write(new) \o b)
  BY <1>2, OneStep, JoinedSeqs DEF Write
<1> QED BY <1>1, <1>5, <1>6, BeginsTelling

\* Saving a link of w writes both rows and appends both events.
LEMMA LinkStepsTell ==
  ASSUME NEW w \in Workflows, NEW l \in Links, NEW new, DOMAIN new = {w, l},
         new[w].live, Fits(new[w], w, rows[w]), NEW refs, NEW e,
         e.type \in {"workflow_memory_link.created", "workflow_memory_link.updated",
                     "workflow_memory_link.deleted"}
  PROVE  LET b == WorkflowSaved(w, refs) \o Enqueue(e, None)
         IN  IsSeq(Write(new) \o b) /\ Telling(Write(new) \o b)
<1> DEFINE one == WorkflowSaved(w, refs)
           two == Enqueue(e, None)
           b == one \o two
<1>1. PICK type \in {"workflow.created", "workflow.updated"} :
        one = Enqueue(Event(type, "workflow", w, 0, refs), None)
  BY DEF WorkflowSaved
<1>2. DOMAIN two = {1} /\ IsSeq(two) /\ Tells(two[1], {}, FALSE)
  BY SilentTells
<1> HIDE DEF one, two
<1>3. DOMAIN one = {1} /\ IsSeq(one) /\ Tells(one[1], {w}, FALSE) /\ Settles(one[1], w)
  <2>1. DOMAIN one = {1} /\ IsSeq(one) /\ Tells(one[1], {w}, type = "workflow.deleted")
        /\ Settles(one[1], w)
    <3> DEFINE t == Enqueue(Event(type, "workflow", w, 0, refs), None)
    <3>1. type \in {"workflow.created", "workflow.updated", "workflow.deleted"}
      BY <1>1
    <3>2. DOMAIN t = {1} /\ IsSeq(t) /\ Tells(t[1], {w}, type = "workflow.deleted")
          /\ Settles(t[1], w)
      BY <3>1, WorkflowTells
    <3>3. one = t
      BY <1>1
    <3> HIDE DEF t
    <3> QED BY <3>2, <3>3
  <2>2. (type = "workflow.deleted") = FALSE
    BY <1>1
  <2> QED BY <2>1, <2>2
<1>4. Len(one) = 1 /\ Len(two) = 1
  <2>1. /\ Len(one) \in Nat /\ DOMAIN one = 1..Len(one)
        /\ Len(two) \in Nat /\ DOMAIN two = 1..Len(two)
    BY <1>2, <1>3, JoinedSeqs
  <2> QED BY <1>2, <1>3, <2>1
<1>5. IsSeq(b) /\ DOMAIN b = 1..2 /\ b[1] = one[1] /\ b[2] = two[1]
  <2>1. /\ IsSeq(b) /\ DOMAIN b = 1..(Len(one) + Len(two))
        /\ \A i \in 1..Len(one) : b[i] = one[i]
        /\ \A i \in 1..Len(two) : b[Len(one) + i] = two[i]
    BY <1>2, <1>3, JoinedSeqs
  <2>2. b[1 + 1] = two[1] /\ b[1] = one[1]
    BY <1>4, <2>1
  <2> QED BY <1>4, <2>1, <2>2
<1>6. w \in Tracked /\ l \notin Tracked /\ w \notin Personas /\ l \notin Personas
  BY Disjoint, RecordsAssumption DEF Tracked
<1> HIDE DEF b
<1>7. \A i \in DOMAIN b : b[i] = one[1] \/ b[i] = two[1]
  <2>1. \A i \in DOMAIN b : i = 1 \/ i = 2
    BY <1>5
  <2> QED BY <1>5, <2>1
<1>8. \A i \in DOMAIN b : b[i].do = "append" /\ Proper(b[i])
  BY <1>2, <1>3, <1>7 DEF Tells
<1>9. \A i \in DOMAIN b : \A x \in Tracked : Speaks(b[i], x) =>
        x \in DOMAIN new /\ AsIn(b[i], x, new[x])
  <2>1. \A x \in Tracked : ~Speaks(two[1], x)
    BY <1>2 DEF Tells
  <2>2. \A x \in Tracked : Speaks(one[1], x) => x = w /\ ~Buries(one[1].event, RecordNode(x))
    BY <1>3 DEF Tells
  <2> QED BY <1>7, <2>1, <2>2 DEF AsIn
<1>10. \A x \in DOMAIN new \cap Tracked :
         Fits(new[x], x, rows[x]) /\ \E i \in DOMAIN b : Settles(b[i], x)
  <2>1. 1 \in DOMAIN b /\ Settles(b[1], w)
    BY <1>3, <1>5
  <2>2. \A x \in DOMAIN new \cap Tracked : x = w
    BY <1>6
  <2> QED BY <2>1, <2>2
<1>11. DOMAIN new # {} /\ \A x \in DOMAIN new : x \in Personas => new[x].live
  BY <1>6
<1>12. Telling(Write(new) \o b)
  BY <1>5, <1>8, <1>9, <1>10, <1>11, WriteTold
<1>13. IsSeq(Write(new) \o b)
  BY <1>5, OneStep, JoinedSeqs DEF Write
<1> QED BY <1>12, <1>13 DEF b, one, two

LEMMA JoinAgain ==
  ASSUME NEW a, NEW b, NEW d, IsSeq(a), IsSeq(b), IsSeq(d)
  PROVE  (a \o b) \o d = a \o (b \o d)
<1>1. /\ a \in Seq(Range(a) \cup Range(b) \cup Range(d))
      /\ b \in Seq(Range(a) \cup Range(b) \cup Range(d))
      /\ d \in Seq(Range(a) \cup Range(b) \cup Range(d))
  BY WiderSeq DEF IsSeq
<1> QED BY <1>1

LEMMA LinkRequestsTell ==
  ASSUME NEW c, NEW l \in Links, NEW w \in Workflows
  PROVE  /\ \A refs : SaveLink(c, l, w, refs) => Speaking(c)
         /\ DeleteLink(c, l, w) => Speaking(c)
<1> DEFINE one == WorkflowSaved(w, rows[w].refs)
<1>1. w # l /\ w \in Tracked /\ w \notin Executions
  BY Disjoint DEF Tracked
<1>2. \A refs : Stored(refs).live /\ Fits(Stored(refs), w, rows[w])
  BY <1>1, StoredFits
<1>3. ASSUME NEW new, NEW e, DOMAIN new = {w, l}, new[w] = Stored(rows[w].refs),
             e.type \in {"workflow_memory_link.created", "workflow_memory_link.updated",
                         "workflow_memory_link.deleted"},
             Begin(c, "link", Write(new) \o one \o Enqueue(e, None))
      PROVE  Speaking(c)
  <2>1. IsSeq(Write(new)) /\ IsSeq(one) /\ IsSeq(Enqueue(e, None))
    BY OneStep DEF Write, WorkflowSaved, Enqueue
  <2> DEFINE s == Write(new) \o (one \o Enqueue(e, None))
  <2>2. (Write(new) \o one) \o Enqueue(e, None) = s
    <3> HIDE DEF one
    <3> QED BY <2>1, JoinAgain
  <2>3. IsSeq(s) /\ Telling(s)
    BY <1>2, <1>3, LinkStepsTell
  <2>4. Begin(c, "link", s)
    <3> HIDE DEF s, one
    <3> QED BY <1>3, <2>2
  <2> HIDE DEF s
  <2> QED BY <2>3, <2>4, BeginsTelling
<1>4. ASSUME NEW refs, SaveLink(c, l, w, refs)
      PROVE  Speaking(c)
  <2> DEFINE new == [x \in {w, l} |-> Stored(IF x = w THEN rows[w].refs ELSE refs)]
             e == LinkEvent(IF rows[l].live THEN "workflow_memory_link.updated"
                                            ELSE "workflow_memory_link.created", l, refs)
  <2>1. DOMAIN new = {w, l} /\ new[w] = Stored(rows[w].refs)
    OBVIOUS
  <2>2. e.type \in {"workflow_memory_link.created", "workflow_memory_link.updated",
                    "workflow_memory_link.deleted"}
    BY DEF LinkEvent, Event
  <2>3. Begin(c, "link", Write(new) \o one \o Enqueue(e, None))
    BY <1>4 DEF SaveLink
  <2> HIDE DEF new, e, one
  <2> QED BY <1>3, <2>1, <2>2, <2>3 DEF one
<1>5. ASSUME DeleteLink(c, l, w)
      PROVE  Speaking(c)
  <2> DEFINE new == [x \in {w, l} |-> IF x = w THEN Stored(rows[w].refs) ELSE Removed(l)]
             e == LinkEvent("workflow_memory_link.deleted", l, rows[l].refs)
  <2>1. DOMAIN new = {w, l} /\ new[w] = Stored(rows[w].refs)
    OBVIOUS
  <2>2. e.type \in {"workflow_memory_link.created", "workflow_memory_link.updated",
                    "workflow_memory_link.deleted"}
    BY DEF LinkEvent, Event
  <2>3. Begin(c, "link", Write(new) \o one \o Enqueue(e, None))
    BY <1>5 DEF DeleteLink
  <2> HIDE DEF new, e, one
  <2> QED BY <1>3, <2>1, <2>2, <2>3 DEF one
<1> QED BY <1>4, <1>5

\* Blocks of steps, each of one record, one after the other.
LEMMA EachTold ==
  ASSUME NEW B, IsFiniteSet(DOMAIN B),
         \A m \in DOMAIN B : IsSeq(B[m]) /\ Telling(B[m]),
         \A m \in DOMAIN B : \A k \in DOMAIN B[m] : \A x \in Tracked :
           Concerns(B[m][k], x) => x = m
  PROVE  /\ IsSeq(Each(B)) /\ Telling(Each(B))
         /\ \A m \in DOMAIN B : \A k \in DOMAIN B[m] : \E i \in DOMAIN Each(B) :
              Each(B)[i] = B[m][k]
<1> DEFINE s == Each(B)
<1>1. IsSeq(s)
  BY EachParts
<1>2. PICK off \in [DOMAIN B -> Nat] :
        /\ \A x \in DOMAIN B : \A k \in DOMAIN B[x] :
             off[x] + k \in DOMAIN s /\ s[off[x] + k] = B[x][k]
        /\ \A i \in DOMAIN s : \E x \in DOMAIN B : \E k \in DOMAIN B[x] : i = off[x] + k
  BY EachParts
<1> HIDE DEF s
<1>3. \A i \in DOMAIN s : \E m \in DOMAIN B : \E k \in DOMAIN B[m] :
        i = off[m] + k /\ s[i] = B[m][k]
  BY <1>2
<1>4. \A i \in DOMAIN s : Proper(s[i])
  BY <1>3 DEF Telling
<1>5. ASSUME NEW x \in Tracked
      PROVE  Told(s, x, rows[x])
  <2>1. \A i \in DOMAIN s : Concerns(s[i], x) =>
          x \in DOMAIN B /\ \E k \in DOMAIN B[x] : i = off[x] + k /\ s[i] = B[x][k]
    BY <1>3
  <2>2. CASE x \notin DOMAIN B
    BY <2>1, <2>2 DEF Told, Concerns
  <2>3. CASE x \in DOMAIN B
    <3> DEFINE b == B[x]
    <3>1. Told(b, x, rows[x])
      BY <2>3 DEF Telling
    <3>2. off[x] \in Nat /\ \A k \in DOMAIN b : k \in Nat
      <4>1. DOMAIN b = 1..Len(b) /\ Len(b) \in Nat
        BY <2>3 DEF IsSeq
      <4> QED BY <1>2, <2>3, <4>1
    <3>3. \A k \in DOMAIN b : off[x] + k \in DOMAIN s /\ s[off[x] + k] = b[k]
      BY <1>2, <2>3
    <3>4. \A i \in DOMAIN s : Concerns(s[i], x) =>
            \E k \in DOMAIN b : i = off[x] + k /\ s[i] = b[k]
      BY <2>1
    <3> HIDE DEF b
    <3>5. \A k, j \in DOMAIN b : k < j => off[x] + k < off[x] + j
      BY <3>2
    <3>6. ASSUME NEW i \in DOMAIN s, Writes(s[i], x)
          PROVE  /\ Fits(s[i].new[x], x, rows[x])
                 /\ \E j \in DOMAIN s : i < j /\ Settles(s[j], x)
                 /\ \A j \in DOMAIN s : Writes(s[j], x) => j = i
                 /\ \A j \in DOMAIN s :
                      Speaks(s[j], x) => i < j /\ AsIn(s[j], x, s[i].new[x])
      <4>1. PICK k \in DOMAIN b : i = off[x] + k /\ s[i] = b[k]
        BY <3>4, <3>6 DEF Concerns
      <4>2. /\ Fits(b[k].new[x], x, rows[x])
            /\ \E j \in DOMAIN b : k < j /\ Settles(b[j], x)
            /\ \A j \in DOMAIN b : Writes(b[j], x) => j = k
            /\ \A j \in DOMAIN b : Speaks(b[j], x) => k < j /\ AsIn(b[j], x, b[k].new[x])
        BY <3>1, <3>6, <4>1 DEF Told
      <4>3. \E j \in DOMAIN s : i < j /\ Settles(s[j], x)
        BY <3>3, <3>5, <4>1, <4>2
      <4>4. \A j \in DOMAIN s : Writes(s[j], x) => j = i
        BY <3>4, <4>1, <4>2 DEF Concerns
      <4>5. \A j \in DOMAIN s : Speaks(s[j], x) => i < j /\ AsIn(s[j], x, s[i].new[x])
        BY <3>4, <3>5, <4>1, <4>2 DEF Concerns
      <4> QED BY <4>1, <4>2, <4>3, <4>4, <4>5
    <3>7. ASSUME NEW i \in DOMAIN s, Speaks(s[i], x)
          PROVE  \/ \E j \in DOMAIN s : Writes(s[j], x)
                 \/ rows[x].known /\ AsIn(s[i], x, rows[x])
      <4>1. PICK k \in DOMAIN b : i = off[x] + k /\ s[i] = b[k]
        BY <3>4, <3>7 DEF Concerns
      <4>2. \/ \E j \in DOMAIN b : Writes(b[j], x)
            \/ rows[x].known /\ AsIn(b[k], x, rows[x])
        BY <3>1, <3>7, <4>1 DEF Told
      <4> QED BY <3>3, <4>1, <4>2
    <3> QED BY <3>6, <3>7 DEF Told
  <2> QED BY <2>2, <2>3
<1>6. \A m \in DOMAIN B : \A k \in DOMAIN B[m] : \E i \in DOMAIN s : s[i] = B[m][k]
  BY <1>2
<1> QED BY <1>1, <1>4, <1>5, <1>6 DEF Telling, s

\* One more append, that speaks of what was written as it was written.
LEMMA LastTold ==
  ASSUME NEW a, IsSeq(a), Telling(a), NEW b, IsSeq(b), DOMAIN b = {1}, NEW Y,
         NEW gone \in BOOLEAN, Tells(b[1], Y, gone),
         \A x \in Y \cap Tracked : \E i \in DOMAIN a :
           Writes(a[i], x) /\ (gone <=> ~a[i].new[x].live)
  PROVE  IsSeq(a \o b) /\ Telling(a \o b)
<1> DEFINE s == a \o b
           n == Len(a)
<1>1. /\ IsSeq(s) /\ n \in Nat /\ DOMAIN a = 1..n /\ DOMAIN s = 1..(n + 1)
      /\ \A i \in 1..n : s[i] = a[i]
      /\ s[n + 1] = b[1]
  <2>1. /\ IsSeq(s) /\ n \in Nat /\ Len(b) \in Nat /\ DOMAIN s = 1..(n + Len(b))
        /\ DOMAIN a = 1..n /\ DOMAIN b = 1..Len(b)
    BY JoinedSeqs
  <2>2. \A i \in 1..n : s[i] = a[i]
    BY JoinedSeqs
  <2>3. \A i \in 1..Len(b) : s[n + i] = b[i]
    BY JoinedSeqs
  <2>4. Len(b) = 1
    BY <2>1
  <2> HIDE DEF s, n
  <2> QED BY <2>1, <2>2, <2>3, <2>4
<1> HIDE DEF s, n
<1>2. /\ \A i \in DOMAIN s : i \in DOMAIN a \/ i = n + 1
      /\ \A i \in DOMAIN a : i \in DOMAIN s /\ i < n + 1 /\ s[i] = a[i]
      /\ n + 1 \in DOMAIN s
  BY <1>1
<1>3. \A x : ~Writes(s[n + 1], x)
  BY <1>1 DEF Tells, Writes
<1>4. \A i \in DOMAIN s : Proper(s[i])
  BY <1>1, <1>2 DEF Telling, Tells
<1>5. ASSUME NEW x \in Tracked
      PROVE  Told(s, x, rows[x])
  <2>1. Told(a, x, rows[x])
    BY DEF Telling
  <2>2. Speaks(s[n + 1], x) =>
          \E i \in DOMAIN a : Writes(a[i], x) /\ AsIn(s[n + 1], x, a[i].new[x])
    BY <1>1 DEF Tells, AsIn
  <2>3. ASSUME NEW i \in DOMAIN s, Writes(s[i], x)
        PROVE  /\ Fits(s[i].new[x], x, rows[x])
               /\ \E j \in DOMAIN s : i < j /\ Settles(s[j], x)
               /\ \A j \in DOMAIN s : Writes(s[j], x) => j = i
               /\ \A j \in DOMAIN s :
                    Speaks(s[j], x) => i < j /\ AsIn(s[j], x, s[i].new[x])
    <3>1. i \in DOMAIN a /\ s[i] = a[i]
      BY <1>2, <1>3, <2>3
    <3>2. /\ Fits(a[i].new[x], x, rows[x])
          /\ \E j \in DOMAIN a : i < j /\ Settles(a[j], x)
          /\ \A j \in DOMAIN a : Writes(a[j], x) => j = i
          /\ \A j \in DOMAIN a : Speaks(a[j], x) => i < j /\ AsIn(a[j], x, a[i].new[x])
      BY <2>1, <2>3, <3>1 DEF Told
    <3>3. Speaks(s[n + 1], x) => i < n + 1 /\ AsIn(s[n + 1], x, a[i].new[x])
      BY <1>2, <2>2, <3>1, <3>2
    <3> QED BY <1>2, <1>3, <3>1, <3>2, <3>3
  <2>4. ASSUME NEW i \in DOMAIN s, Speaks(s[i], x)
        PROVE  \/ \E j \in DOMAIN s : Writes(s[j], x)
               \/ rows[x].known /\ AsIn(s[i], x, rows[x])
    <3>1. CASE i \in DOMAIN a
      <4>1. \/ \E j \in DOMAIN a : Writes(a[j], x)
            \/ rows[x].known /\ AsIn(a[i], x, rows[x])
        BY <1>2, <2>1, <2>4, <3>1 DEF Told
      <4> QED BY <1>2, <3>1, <4>1
    <3>2. CASE i = n + 1
      BY <1>2, <2>2, <2>4, <3>2
    <3> QED BY <1>2, <3>1, <3>2
  <2> QED BY <2>3, <2>4 DEF Told
<1> QED BY <1>1, <1>4, <1>5 DEF Telling, s

\* A block that writes one memory and appends about it concerns no other record.
LEMMA BlockConcerns ==
  ASSUME NEW m, NEW r, NEW b, IsSeq(b), NEW gone, \A i \in DOMAIN b : Tells(b[i], {m}, gone)
  PROVE  LET s == Write(One(m, r)) \o b
         IN  /\ \A k \in DOMAIN s : \A x \in Tracked : Concerns(s[k], x) => x = m
             /\ 1 \in DOMAIN s /\ Writes(s[1], m) /\ s[1].new[m] = r
<1> DEFINE w == [do |-> "write", new |-> One(m, r)]
           s == Write(One(m, r)) \o b
<1>1. /\ DOMAIN s = 1..(1 + Len(b)) /\ Len(b) \in Nat /\ s[1] = w
      /\ DOMAIN b = 1..Len(b) /\ \A i \in 1..Len(b) : s[1 + i] = b[i]
  <2>1. IsSeq(<<w>>) /\ Len(<<w>>) = 1 /\ <<w>>[1] = w
    BY OneStep
  <2>2. s = <<w>> \o b
    BY DEF Write
  <2> HIDE DEF s, w
  <2> QED BY <2>1, <2>2, JoinedSeqs
<1>2. w.do = "write" /\ DOMAIN w.new = {m} /\ w.new[m] = r
  BY OneRow
<1> HIDE DEF s, w
<1>3. ASSUME NEW i \in DOMAIN s
      PROVE  i = 1 \/ \E k \in DOMAIN b : s[i] = b[k]
  <2>1. i = 1 \/ (i - 1 \in 1..Len(b) /\ i = 1 + (i - 1))
    BY <1>1
  <2> QED BY <1>1, <2>1
<1>4. \A x : Concerns(s[1], x) => x = m
  BY <1>1, <1>2 DEF Concerns, Writes, Speaks, Rules, Settles
<1>5. \A k \in DOMAIN b : \A x \in Tracked : Concerns(b[k], x) => x = m
  BY DEF Concerns, Writes, Tells
<1>6. \A k \in DOMAIN s : \A x \in Tracked : Concerns(s[k], x) => x = m
  BY <1>3, <1>4, <1>5
<1>7. 1 \in DOMAIN s /\ Writes(s[1], m) /\ s[1].new[m] = r
  BY <1>1, <1>2 DEF Writes
<1> QED BY <1>6, <1>7 DEF s

LEMMA DocumentRequestsTell ==
  ASSUME TypeInv, NEW c, NEW u \in Uploads
  PROVE  UploadDocument(c, u[1], u[2]) \/ DeleteDocument(c, u[1]) => Speaking(c)
<1> DEFINE d == u[1]
<1>1. ASSUME UploadDocument(c, d, u[2])
      PROVE  Speaking(c)
  <2> DEFINE ms == u[2]
             refs == [NoRefs EXCEPT !.document = {d}]
             B == [m \in ms |-> Write(One(m, Stored(refs)))
                                \o MemoryEvents("memory.created", m, refs)]
             e == Event("document_memory_collection.created", "document_memory_collection",
                        d, 0, [NoRefs EXCEPT !.memory = ms])
  <2>1. Begin(c, "document", Each(B) \o Enqueue(e, None))
    BY <1>1 DEF UploadDocument
  <2>2. ms \subseteq Memories /\ IsFiniteSet(ms) /\ DOMAIN B = ms
    BY RecordsAssumption, FS_Subset
  <2>3. \A p \in refs.packItems : p[1] \notin RecordLabels
    BY DEF NoRefs
  <2>4. e.type = "document_memory_collection.created"
    BY DEF Event
  <2>5. DOMAIN Enqueue(e, None) = {1} /\ IsSeq(Enqueue(e, None))
        /\ Tells(Enqueue(e, None)[1], {}, FALSE)
    <3> HIDE DEF e
    <3> QED BY <2>4, SilentTells
  <2> HIDE DEF e, refs
  <2>6. ASSUME NEW m \in ms
        PROVE  /\ IsSeq(B[m]) /\ Telling(B[m])
               /\ \A k \in DOMAIN B[m] : \A x \in Tracked : Concerns(B[m][k], x) => x = m
    <3> DEFINE b == MemoryEvents("memory.created", m, refs)
    <3>1. IsSeq(Write(One(m, Stored(refs))) \o b) /\ Telling(Write(One(m, Stored(refs))) \o b)
          /\ IsSeq(b) /\ \A i \in DOMAIN b : Tells(b[i], {m}, FALSE)
      BY <2>2, <2>3, MemoryStepsTell
    <3>2. B[m] = Write(One(m, Stored(refs))) \o b
      OBVIOUS
    <3> DEFINE r == Stored(refs)
               s == Write(One(m, r)) \o b
    <3> HIDE DEF b, B, r
    <3>3. \A k \in DOMAIN s : \A x \in Tracked : Concerns(s[k], x) => x = m
      BY <3>1, BlockConcerns
    <3>4. B[m] = s
      BY <3>2 DEF r
    <3> HIDE DEF s
    <3> QED BY <3>1, <3>2, <3>3, <3>4
  <2> HIDE DEF B
  <2>7. IsSeq(Each(B)) /\ Telling(Each(B))
    BY <2>2, <2>6, EachTold
  <2>8. IsSeq(Each(B) \o Enqueue(e, None)) /\ Telling(Each(B) \o Enqueue(e, None))
    <3> DEFINE a == Each(B)
               b == Enqueue(e, None)
               Y == {}
    <3> HIDE DEF a, b, Y
    <3>1. IsSeq(a) /\ Telling(a) /\ DOMAIN b = {1} /\ IsSeq(b) /\ Tells(b[1], Y, FALSE)
      BY <2>5, <2>7 DEF a, b, Y
    <3>2. \A x \in Y \cap Tracked : \E i \in DOMAIN a :
            Writes(a[i], x) /\ (FALSE <=> ~a[i].new[x].live)
      BY DEF Y
    <3>3. IsSeq(a \o b) /\ Telling(a \o b)
      BY <3>1, <3>2, LastTold
    <3> QED BY <3>3 DEF a, b
  <2> QED BY <2>1, <2>8, BeginsTelling
<1>2. ASSUME DeleteDocument(c, d)
      PROVE  Speaking(c)
  <2> DEFINE ms == {m \in Memories : rows[m].live /\ d \in rows[m].refs.document}
             B == [m \in ms |-> MemoryRemoval(m)]
             e == Event("document_memory_collection.deleted", "document_memory_collection",
                        d, 0, [NoRefs EXCEPT !.memory = ms])
             last == Enqueue(e, None)
  <2>1. Begin(c, "document", Each(B) \o last)
    BY <1>2 DEF DeleteDocument
  <2>2. ms \subseteq Memories /\ IsFiniteSet(ms) /\ DOMAIN B = ms
        /\ \A m \in ms : rows[m].live
    BY RecordsAssumption, FS_Subset
  <2> HIDE DEF ms
  <2>3. DOMAIN last = {1} /\ IsSeq(last) /\ Tells(last[1], ms, TRUE)
    BY <2>2, CollectionDeletedTells
  <2> HIDE DEF last, e
  <2>4. ASSUME NEW m \in ms
        PROVE  /\ IsSeq(B[m]) /\ Telling(B[m])
               /\ \A k \in DOMAIN B[m] : \A x \in Tracked : Concerns(B[m][k], x) => x = m
               /\ 1 \in DOMAIN B[m] /\ Writes(B[m][1], m) /\ ~B[m][1].new[m].live
    <3> DEFINE b == MemoryEvents("memory.deleted", m, rows[m].refs)
               r == Removed(m)
    <3>1. m \in Memories /\ rows[m].live /\ rows[m].known /\ m \in Tracked
      BY <2>2, RecordKinds DEF TypeInv, RowOK, Tracked
    <3>2. IsSeq(Write(One(m, r)) \o b) /\ Telling(Write(One(m, r)) \o b)
          /\ IsSeq(b) /\ \A i \in DOMAIN b : Tells(b[i], {m}, TRUE)
      BY <3>1, MemoryStepsTell
    <3>3. B[m] = Write(One(m, r)) \o b
      BY DEF MemoryRemoval
    <3>4. ~r.live
      BY <3>1, RemovedFits
    <3> DEFINE s == Write(One(m, r)) \o b
    <3> HIDE DEF b, B, r
    <3>5. /\ \A k \in DOMAIN s : \A x \in Tracked : Concerns(s[k], x) => x = m
          /\ 1 \in DOMAIN s /\ Writes(s[1], m) /\ s[1].new[m] = r
      BY <3>2, BlockConcerns
    <3> HIDE DEF s
    <3> QED BY <3>2, <3>3, <3>4, <3>5 DEF s
  <2> HIDE DEF B
  <2>5. /\ IsSeq(Each(B)) /\ Telling(Each(B))
        /\ \A m \in DOMAIN B : \A k \in DOMAIN B[m] : \E i \in DOMAIN Each(B) :
             Each(B)[i] = B[m][k]
    BY <2>2, <2>4, EachTold
  <2>6. \A x \in ms \cap Tracked : \E i \in DOMAIN Each(B) :
          Writes(Each(B)[i], x) /\ (TRUE <=> ~Each(B)[i].new[x].live)
    BY <2>2, <2>4, <2>5
  <2>7. IsSeq(Each(B) \o last) /\ Telling(Each(B) \o last)
    BY <2>3, <2>5, <2>6, LastTold
  <2> QED BY <2>1, <2>7, BeginsTelling
<1> QED BY <1>1, <1>2

\* Every request tells the outbox what it writes.
LEMMA RequestsTell ==
  ASSUME TypeInv, PlainRequests, NEW c, Request(c)
  PROVE  Speaking(c)
<1>1. ~Backfill(c)
  BY DEF PlainRequests, Backfill, Begin
<1>2. CASE \E w \in Workflows : (\E refs \in WorkflowRefs : SaveWorkflow(c, w, refs))
                                \/ DeleteWorkflow(c, w)
  BY <1>2, WorkflowRequestsTell
<1>3. CASE \E m \in Memories :
             \/ \E refs \in MemoryRefs : CreateMemory(c, m, refs) \/ UpdateMemory(c, m, refs)
             \/ DeleteMemory(c, m)
             \/ \E refs \in HintRefs : ApproveHints(c, m, refs)
                                      \/ ApprovePersonaItem(c, m, refs)
  BY <1>3, MemoryRequestsTell
<1>4. CASE \E u \in Uploads : UploadDocument(c, u[1], u[2]) \/ DeleteDocument(c, u[1])
  BY <1>4, DocumentRequestsTell
<1>5. CASE \E p \in Personas, e \in PersonaEvents : EmitPersona(c, p, e[1], e[2])
  BY <1>5, PersonaRequestsTell
<1>6. CASE \E l \in Links, w \in Workflows :
             (\E refs \in LinkRefs : SaveLink(c, l, w, refs)) \/ DeleteLink(c, l, w)
  BY <1>6, LinkRequestsTell
<1>7. CASE \E x \in Executions : (\E e \in RunEvents : EmitEvent(c, x, e[1], e[2]))
                                 \/ DeleteExecution(c, x)
  BY <1>7, RunRequestsTell
<1> QED BY <1>1, <1>2, <1>3, <1>4, <1>5, <1>6, <1>7 DEF Request

-----------------------------------------------------------------------------
(* What is told stays told, and what is recorded stays recorded.           *)

LEMMA ToldRest ==
  ASSUME NEW s, IsSeq(s), s # <<>>, NEW x, NEW row, Told(s, x, row)
  PROVE  Told(Tail(s), x, IF Writes(s[1], x) THEN s[1].new[x] ELSE row)
<1> DEFINE r == Tail(s)
           new == IF Writes(s[1], x) THEN s[1].new[x] ELSE row
<1>1. /\ DOMAIN s = 1..Len(s) /\ Len(s) \in Nat /\ DOMAIN r = 1..(Len(s) - 1) /\ 1 \in DOMAIN s
      /\ \A i \in 1..(Len(s) - 1) : r[i] = s[i + 1]
  BY RestOf
<1> HIDE DEF r
<1>2. \A i \in DOMAIN r : i + 1 \in DOMAIN s /\ r[i] = s[i + 1] /\ i + 1 # 1
  BY <1>1
<1>3. \A j \in DOMAIN s : j # 1 => j - 1 \in DOMAIN r /\ r[j - 1] = s[j]
  BY <1>1
<1>4. \A i, j \in DOMAIN r : (i + 1 < j + 1 => i < j) /\ (i + 1 = j + 1 => i = j)
  BY <1>1
<1>5. \A i \in DOMAIN r : \A j \in DOMAIN s : i + 1 < j => j # 1 /\ i < j - 1
  BY <1>1
<1>6. \A i \in DOMAIN s : ~(i < 1)
  BY <1>1
<1>7. ASSUME NEW i \in DOMAIN r, Writes(r[i], x)
      PROVE  /\ Fits(r[i].new[x], x, new)
             /\ \E j \in DOMAIN r : i < j /\ Settles(r[j], x)
             /\ \A j \in DOMAIN r : Writes(r[j], x) => j = i
             /\ \A j \in DOMAIN r :
                  Speaks(r[j], x) => i < j /\ AsIn(r[j], x, r[i].new[x])
  <2>1. /\ Fits(s[i + 1].new[x], x, row)
        /\ \E j \in DOMAIN s : i + 1 < j /\ Settles(s[j], x)
        /\ \A j \in DOMAIN s : Writes(s[j], x) => j = i + 1
        /\ \A j \in DOMAIN s : Speaks(s[j], x) => i + 1 < j /\ AsIn(s[j], x, s[i + 1].new[x])
    BY <1>2, <1>7 DEF Told
  <2>2. ~Writes(s[1], x)
    BY <1>1, <1>2, <2>1
  <2>3. Fits(r[i].new[x], x, new)
    BY <1>2, <2>1, <2>2
  <2>4. \E j \in DOMAIN r : i < j /\ Settles(r[j], x)
    <3>1. PICK j \in DOMAIN s : i + 1 < j /\ Settles(s[j], x)
      BY <2>1
    <3>2. j # 1 /\ i < j - 1
      BY <1>5, <3>1
    <3> QED BY <1>3, <3>1, <3>2
  <2>5. \A j \in DOMAIN r : Writes(r[j], x) => j = i
    BY <1>2, <1>4, <2>1
  <2>6. \A j \in DOMAIN r : Speaks(r[j], x) => i < j /\ AsIn(r[j], x, r[i].new[x])
    BY <1>2, <1>4, <2>1
  <2> QED BY <2>3, <2>4, <2>5, <2>6
<1>8. ASSUME NEW i \in DOMAIN r, Speaks(r[i], x)
      PROVE  \/ \E j \in DOMAIN r : Writes(r[j], x)
             \/ new.known /\ AsIn(r[i], x, new)
  <2>1. CASE Writes(s[1], x)
    <3>1. Fits(s[1].new[x], x, row) /\ AsIn(s[i + 1], x, s[1].new[x])
      BY <1>1, <1>2, <1>8, <2>1 DEF Told
    <3> QED BY <1>2, <2>1, <3>1 DEF Fits
  <2>2. CASE ~Writes(s[1], x)
    <3>1. \/ \E j \in DOMAIN s : Writes(s[j], x)
          \/ row.known /\ AsIn(s[i + 1], x, row)
      BY <1>2, <1>8 DEF Told
    <3> QED BY <1>2, <1>3, <2>2, <3>1
  <2> QED BY <2>1, <2>2
<1> QED BY <1>7, <1>8 DEF Told, r

\* The rest of steps that are told.
LEMMA ProperRest ==
  ASSUME NEW s, IsSeq(s), s # <<>>, \A i \in DOMAIN s : Proper(s[i])
  PROVE  \A i \in DOMAIN Tail(s) : Proper(Tail(s)[i])
<1>1. \A i \in DOMAIN Tail(s) : i + 1 \in DOMAIN s /\ Tail(s)[i] = s[i + 1]
  <2>1. /\ DOMAIN s = 1..Len(s) /\ Len(s) \in Nat /\ DOMAIN Tail(s) = 1..(Len(s) - 1)
        /\ \A i \in 1..(Len(s) - 1) : Tail(s)[i] = s[i + 1]
    BY RestOf
  <2> QED BY <2>1
<1> QED BY <1>1

LEMMA NothingTold ==
  /\ IsSeq(<<>>) /\ DOMAIN <<>> = {} /\ \A x, row : Told(<<>>, x, row)
BY NoSteps DEF Told

\* A caller goes on with rest; whatever changes concerns no other caller.
LEMMA OthersTold ==
  ASSUME OutboxInv, StepsTold, NEW c \in Callers, NEW rest,
         todo' = [todo EXCEPT ![c] = rest],
         \A x \in Tracked : Told(rest, x, rows'[x]), \A i \in DOMAIN rest : Proper(rest[i]),
         \A x \in Tracked : \/ rows'[x] = rows[x]
                            \/ \A d \in Callers \ {c} : \A i \in DOMAIN todo[d] :
                                 ~Concerns(todo[d][i], x)
  PROVE  StepsTold'
<1>1. todo'[c] = rest /\ \A d \in Callers \ {c} : todo'[d] = todo[d]
  BY DEF OutboxInv, Stamped
<1>2. ASSUME NEW d \in Callers, NEW x \in Tracked
      PROVE  Told(todo'[d], x, rows'[x])
  <2>1. CASE d = c
    BY <1>1, <2>1
  <2>2. CASE d # c /\ rows'[x] = rows[x]
    BY <1>1, <2>2 DEF StepsTold
  <2>3. CASE d # c /\ \A i \in DOMAIN todo[d] : ~Concerns(todo[d][i], x)
    BY <1>1, <2>3 DEF Told, Concerns
  <2> QED BY <2>1, <2>2, <2>3
<1>3. \A d \in Callers : \A i \in DOMAIN todo'[d] : Proper(todo'[d][i])
  BY <1>1 DEF StepsTold
<1> QED BY <1>2, <1>3 DEF StepsTold

\* No deletion finds its row gone.
LEMMA SomethingToDelete ==
  ASSUME TypeInv, StepsTold, NEW c \in Callers, todo[c] # <<>>, Head(todo[c]).do = "write"
  PROVE  /\ IsSeq(todo[c]) /\ Head(todo[c]) = todo[c][1] /\ 1 \in DOMAIN todo[c]
         /\ ~NothingToDelete(Head(todo[c]).new)
<1> DEFINE s == todo[c]
           new == s[1].new
<1>1. IsSeq(s) /\ Head(s) = s[1] /\ 1 \in DOMAIN s
  BY RestOf DEF TypeInv, StepsOK
<1>2. DOMAIN new \subseteq Records
  BY <1>1 DEF TypeInv, StepsOK, StepOK
<1>3. DOMAIN new # {} /\ \A x \in DOMAIN new : x \in Personas => new[x].live
  BY <1>1 DEF StepsTold, Proper
<1>4. PICK x \in DOMAIN new : TRUE
  BY <1>3
<1>5. ASSUME x \notin Workflows, x \notin Links, ~new[x].live, ~rows[x].live
      PROVE  FALSE
  <2>1. x \in Tracked
    BY <1>2, <1>3, <1>4, <1>5 DEF Records, Tracked
  <2>2. Writes(s[1], x)
    BY <1>1, <1>4 DEF Writes
  <2>3. Fits(new[x], x, rows[x])
    BY <1>1, <2>1, <2>2 DEF StepsTold, Told
  <2> QED BY <1>5, <2>3 DEF Fits
<1>6. ~NothingToDelete(new)
  BY <1>4, <1>5 DEF NothingToDelete
<1> QED BY <1>1, <1>6

\* The write of a row, and the steps after it.
LEMMA WriteMoves ==
  ASSUME TypeInv, StepsTold, NEW c \in Callers, WriteRow(c)
  PROVE  LET s == todo[c]
         IN  /\ IsSeq(s) /\ s # <<>> /\ 1 \in DOMAIN s /\ s[1].do = "write"
             /\ \A x \in Tracked : rows'[x] = IF Writes(s[1], x) THEN s[1].new[x] ELSE rows[x]
             /\ todo' = [todo EXCEPT ![c] = Tail(s)] /\ UNCHANGED <<outbox, lost>>
<1>1. todo[c] # <<>> /\ Head(todo[c]).do = "write" /\ UNCHANGED <<outbox, lost>>
  BY DEF WriteRow
<1>2. /\ IsSeq(todo[c]) /\ Head(todo[c]) = todo[c][1] /\ 1 \in DOMAIN todo[c]
      /\ ~NothingToDelete(Head(todo[c]).new)
  BY <1>1, SomethingToDelete
<1>3. todo' = [todo EXCEPT ![c] = Tail(todo[c])]
  BY <1>2 DEF WriteRow, Continue
<1>4. \A x \in Records : rows'[x] = IF x \in DOMAIN Head(todo[c]).new
                                     THEN Head(todo[c]).new[x] ELSE rows[x]
  BY DEF WriteRow
<1>5. \A x \in Tracked : rows'[x] = IF Writes(todo[c][1], x) THEN todo[c][1].new[x] ELSE rows[x]
  BY <1>1, <1>2, <1>4, Disjoint DEF Writes
<1> QED BY <1>1, <1>2, <1>3, <1>5

\* An append that reaches the outbox, is not inserted, or is lost.
LEMMA AppendMoves ==
  ASSUME TypeInv, NEW c \in Callers, AppendEvent(c) \/ LoseAppend(c)
  PROVE  LET s == todo[c]
         IN  /\ IsSeq(s) /\ s # <<>> /\ 1 \in DOMAIN s /\ s[1].do = "append" /\ Head(s) = s[1]
             /\ UNCHANGED rows /\ \A x : ~Writes(s[1], x)
             /\ AppendEvent(c) => todo' = [todo EXCEPT ![c] = Tail(s)] /\ UNCHANGED lost
             /\ LoseAppend(c) =>
                  /\ UNCHANGED outbox /\ lost' = lost \cup About(s[1].event)
                  /\ \/ todo' = [todo EXCEPT ![c] = Tail(s)]
                     \/ /\ Tail(s) # <<>> /\ Tail(s)[1].do = "append"
                        /\ Tail(s)[1].event.type = "memory.entities.extracted"
                        /\ todo' = [todo EXCEPT ![c] = Tail(Tail(s))]
<1>1. todo[c] # <<>> /\ Head(todo[c]).do = "append" /\ UNCHANGED rows
  BY DEF AppendEvent, LoseAppend
<1>2. IsSeq(todo[c]) /\ Head(todo[c]) = todo[c][1] /\ 1 \in DOMAIN todo[c]
  BY <1>1, RestOf DEF TypeInv, StepsOK
<1>3. \A x : ~Writes(todo[c][1], x)
  BY <1>1, <1>2 DEF Writes
<1>4. AppendEvent(c) => todo' = [todo EXCEPT ![c] = Tail(todo[c])] /\ UNCHANGED lost
  BY DEF AppendEvent, Continue
<1>5. ASSUME LoseAppend(c)
      PROVE  /\ UNCHANGED outbox /\ lost' = lost \cup About(todo[c][1].event)
             /\ \/ todo' = [todo EXCEPT ![c] = Tail(todo[c])]
                \/ /\ Tail(todo[c]) # <<>> /\ Tail(todo[c])[1].do = "append"
                   /\ Tail(todo[c])[1].event.type = "memory.entities.extracted"
                   /\ todo' = [todo EXCEPT ![c] = Tail(Tail(todo[c]))]
  BY <1>2, <1>5 DEF LoseAppend, Continue
<1> QED BY <1>1, <1>2, <1>3, <1>4, <1>5

LEMMA CrashMoves ==
  ASSUME NEW c \in Callers, CrashCaller(c)
  PROVE  /\ UNCHANGED <<rows, outbox>> /\ todo' = [todo EXCEPT ![c] = <<>>]
         /\ lost' = lost \cup UNION {About(s.event) : s \in Appends(todo[c])}
BY DEF CrashCaller

LEMMA CallersTold ==
  ASSUME OutboxInv, TypeInv, StepsTold, Apart, PlainRequests, NEW c \in Callers, CallerStep(c)
  PROVE  StepsTold'
<1>1. CASE Request(c)
  <2>1. PICK steps : /\ IsSeq(steps) /\ Telling(steps) /\ todo[c] = <<>>
                     /\ todo' = [todo EXCEPT ![c] = steps] /\ UNCHANGED <<rows, outbox, lost>>
    BY <1>1, RequestsTell DEF Speaking
  <2> QED BY <2>1, OthersTold DEF Telling
<1>2. CASE WriteRow(c)
  <2> DEFINE s == todo[c]
  <2>1. /\ IsSeq(s) /\ s # <<>> /\ 1 \in DOMAIN s
        /\ \A x \in Tracked : rows'[x] = IF Writes(s[1], x) THEN s[1].new[x] ELSE rows[x]
        /\ todo' = [todo EXCEPT ![c] = Tail(s)]
    BY <1>2, WriteMoves
  <2>2. \A x \in Tracked : Told(s, x, rows[x])
    BY DEF StepsTold
  <2>3. \A x \in Tracked : Told(Tail(s), x, rows'[x])
    BY <2>1, <2>2, ToldRest
  <2>4. \A i \in DOMAIN Tail(s) : Proper(Tail(s)[i])
    BY <2>1, ProperRest DEF StepsTold
  <2>5. ASSUME NEW x \in Tracked, NEW d \in Callers \ {c}, NEW i \in DOMAIN todo[d],
               Writes(s[1], x), Concerns(todo[d][i], x)
        PROVE  FALSE
    BY <2>1, <2>5 DEF Apart, Concerns
  <2>6. \A x \in Tracked : \/ rows'[x] = rows[x]
                           \/ \A d \in Callers \ {c} : \A i \in DOMAIN todo[d] :
                                ~Concerns(todo[d][i], x)
    BY <2>1, <2>5
  <2> HIDE DEF s
  <2> QED BY <2>1, <2>3, <2>4, <2>6, OthersTold
<1>3. CASE AppendEvent(c) \/ LoseAppend(c)
  <2> DEFINE s == todo[c]
             r == Tail(s)
  <2>1. /\ IsSeq(s) /\ s # <<>> /\ UNCHANGED rows /\ \A x : ~Writes(s[1], x)
        /\ \/ todo' = [todo EXCEPT ![c] = r]
           \/ /\ r # <<>> /\ r[1].do = "append" /\ todo' = [todo EXCEPT ![c] = Tail(r)]
    BY <1>3, AppendMoves
  <2>2. \A x \in Tracked : Told(s, x, rows[x])
    BY DEF StepsTold
  <2>3. /\ \A x \in Tracked : Told(r, x, rows[x])
        /\ \A i \in DOMAIN r : Proper(r[i])
        /\ IsSeq(r)
    BY <2>1, <2>2, ToldRest, ProperRest, RestOf DEF StepsTold
  <2> HIDE DEF s, r
  <2>4. CASE todo' = [todo EXCEPT ![c] = r]
    BY <2>1, <2>3, <2>4, OthersTold
  <2>5. CASE r # <<>> /\ r[1].do = "append" /\ todo' = [todo EXCEPT ![c] = Tail(r)]
    <3>1. \A x : ~Writes(r[1], x)
      BY <2>5 DEF Writes
    <3>2. \A x \in Tracked : Told(Tail(r), x, rows[x])
      BY <2>3, <2>5, <3>1, ToldRest
    <3>3. \A i \in DOMAIN Tail(r) : Proper(Tail(r)[i])
      BY <2>3, <2>5, ProperRest
    <3> QED BY <2>1, <2>5, <3>2, <3>3, OthersTold
  <2> QED BY <2>1, <2>4, <2>5
<1>4. CASE CrashCaller(c)
  <2>1. UNCHANGED rows /\ todo' = [todo EXCEPT ![c] = <<>>]
    BY <1>4, CrashMoves
  <2> QED BY <2>1, NothingTold, OthersTold
<1> QED BY <1>1, <1>2, <1>3, <1>4 DEF CallerStep

-----------------------------------------------------------------------------
(* What is recorded. *)

LEMMA RecordedKept ==
  ASSUME NEW x \in Tracked, Recorded(x), UNCHANGED outbox, rows'[x] = rows[x],
         lost \subseteq lost', x \notin lost' /\ ~Due(x)' => ~Due(x)
  PROVE  Recorded(x)'
BY DEF Recorded, Agrees

\* An append that settles x is about x; extracted entities settle nothing.
LEMMA SettlesAbout ==
  ASSUME NEW x \in Tracked, NEW s, Settles(s, x)
  PROVE  /\ s.do = "append" /\ x \in About(s.event)
         /\ s.event.type # "memory.entities.extracted" /\ Speaks(s, x)
<1>1. CASE x \in Executions
  <2>1. x \in About(s.event)
    BY <1>1 DEF Settles, About
  <2>2. "memory.entities.extracted" \notin RunLike
    BY DEF RunLike, StepTypes, RunTypes, DetailTypes, ContainerTypes
  <2> QED BY <1>1, <2>1, <2>2 DEF Settles, Speaks
<1>2. CASE x \notin Executions
  <2>1. x \in About(s.event) /\ Decides(s.event, RecordNode(x))
    BY <1>2 DEF Settles
  <2>2. s.event.type # "memory.entities.extracted"
    BY <2>1, MemoryEventsSay DEF Decides
  <2> QED BY <2>1, <2>2 DEF Settles, Speaks
<1> QED BY <1>1, <1>2

\* What is due stays due with the other callers, and in the rest of the steps.
LEMMA DueRest ==
  ASSUME OutboxInv, NEW x \in Tracked, NEW c \in Callers, IsSeq(todo[c]), todo[c] # <<>>,
         NEW rest, todo' = [todo EXCEPT ![c] = rest], Due(x), ~Due(x)',
         rest = Tail(todo[c]) \/ (Tail(todo[c]) # <<>> /\ rest = Tail(Tail(todo[c])))
  PROVE  \/ Settles(todo[c][1], x)
         \/ rest # Tail(todo[c]) /\ Settles(Tail(todo[c])[1], x)
<1>1. todo'[c] = rest /\ \A d \in Callers \ {c} : todo'[d] = todo[d]
  BY DEF OutboxInv, Stamped
<1>2. PICK d \in Callers : \E i \in DOMAIN todo[d] : Settles(todo[d][i], x)
  BY DEF Due
<1>3. d = c
  BY <1>1, <1>2 DEF Due
<1>4. PICK i \in DOMAIN todo[c] : Settles(todo[c][i], x)
  BY <1>2, <1>3
<1>5. \A s : IsSeq(s) /\ s # <<>> =>
        IsSeq(Tail(s)) /\ \A j \in DOMAIN s : j = 1 \/ \E k \in DOMAIN Tail(s) : Tail(s)[k] = s[j]
  <2> SUFFICES ASSUME NEW s, IsSeq(s), s # <<>>
               PROVE  /\ IsSeq(Tail(s))
                      /\ \A j \in DOMAIN s : j = 1 \/ \E k \in DOMAIN Tail(s) : Tail(s)[k] = s[j]
    OBVIOUS
  <2>1. /\ IsSeq(Tail(s)) /\ Len(s) \in Nat /\ DOMAIN s = 1..Len(s)
        /\ DOMAIN Tail(s) = 1..(Len(s) - 1)
        /\ \A k \in 1..(Len(s) - 1) : Tail(s)[k] = s[k + 1]
    BY RestOf
  <2>2. ASSUME NEW j \in DOMAIN s, j # 1
        PROVE  \E k \in DOMAIN Tail(s) : Tail(s)[k] = s[j]
    <3>1. j - 1 \in DOMAIN Tail(s) /\ Tail(s)[j - 1] = s[(j - 1) + 1]
      BY <2>1, <2>2
    <3>2. (j - 1) + 1 = j
      BY <2>1, <2>2
    <3> QED BY <3>1, <3>2
  <2> QED BY <2>1, <2>2
<1>6. \A k \in DOMAIN rest : ~Settles(rest[k], x)
  BY <1>1 DEF Due
<1>7. CASE rest = Tail(todo[c])
  BY <1>4, <1>5, <1>6, <1>7
<1>8. CASE Tail(todo[c]) # <<>> /\ rest = Tail(Tail(todo[c])) /\ rest # Tail(todo[c])
  <2>1. \A k \in DOMAIN Tail(todo[c]) : k = 1 \/ ~Settles(Tail(todo[c])[k], x)
    BY <1>5, <1>6, <1>8
  <2> QED BY <1>4, <1>5, <1>8, <2>1
<1> QED BY <1>7, <1>8

\* A last event that decides, or one that only merges the node.
LEMMA AppendedSays ==
  ASSUME NEW box, NEW new, NEW at, at \in Nat, NEW e, new[at].event = e,
         \A t \in DOMAIN box : t \in Nat /\ t < at /\ new[t].event = box[t].event,
         DOMAIN new = DOMAIN box \cup {at}, NEW n
  PROVE  /\ Decides(e, n) =>
              /\ ~Undecided(new, n)
              /\ Buries(e, n) => ~LiveIn(new, n)
              /\ ~Buries(e, n) => LiveIn(new, n)
         /\ ~Decides(e, n) =>
              /\ Undecided(new, n) => Undecided(box, n)
              /\ Undecided(box, n) => Undecided(new, n)
              /\ LiveIn(box, n) => LiveIn(new, n)
              /\ LiveIn(new, n) /\ ~LiveIn(box, n) => Undecided(box, n) /\ Touches(e, n)
              /\ Undecided(box, n) /\ Touches(e, n) => LiveIn(new, n)
<1>1. \A t \in DOMAIN box : t # at /\ ~(at < t)
  OBVIOUS
<1>2. ASSUME Decides(e, n)
      PROVE  /\ ~Undecided(new, n) /\ (Buries(e, n) => ~LiveIn(new, n))
             /\ ~Buries(e, n) => LiveIn(new, n)
  <2>1. ~Undecided(new, n)
    BY <1>2 DEF Undecided
  <2>2. ~(at < at)
    OBVIOUS
  <2>3. LastOf(new, n, at)
    BY <1>1, <1>2, <2>2 DEF LastOf
  <2>4. \A t \in DOMAIN new : LastOf(new, n, t) => t = at
    BY <1>2 DEF LastOf
  <2> QED BY <2>1, <2>3, <2>4 DEF LiveIn
<1>3. ASSUME ~Decides(e, n)
      PROVE  /\ Undecided(new, n) => Undecided(box, n)
             /\ Undecided(box, n) => Undecided(new, n)
             /\ LiveIn(box, n) => LiveIn(new, n)
             /\ LiveIn(new, n) /\ ~LiveIn(box, n) => Undecided(box, n) /\ Touches(e, n)
             /\ Undecided(box, n) /\ Touches(e, n) => LiveIn(new, n)
  <2>1. (Undecided(new, n) => Undecided(box, n)) /\ (Undecided(box, n) => Undecided(new, n))
    BY <1>3 DEF Undecided
  <2>2. \A t : (LastOf(new, n, t) => LastOf(box, n, t)) /\ (LastOf(box, n, t) => LastOf(new, n, t))
    BY <1>3 DEF LastOf
  <2>3. \A t : LastOf(box, n, t) => t \in DOMAIN box
    BY DEF LastOf
  <2> QED BY <2>1, <2>2, <2>3 DEF LiveIn
<1> QED BY <1>2, <1>3

\* What the next step of a caller says of a row.
LEMMA HeadSays ==
  ASSUME StepsTold, NEW c \in Callers, 1 \in DOMAIN todo[c], IsSeq(todo[c]), NEW x \in Tracked
  PROVE  /\ Proper(todo[c][1])
         /\ Speaks(todo[c][1], x) => rows[x].known /\ AsIn(todo[c][1], x, rows[x])
<1> DEFINE s == todo[c]
<1>1. Told(s, x, rows[x]) /\ Proper(s[1]) /\ 1 \in DOMAIN s
  BY DEF StepsTold
<1>2. \A i \in DOMAIN s : ~(i < 1)
  BY DEF IsSeq
<1>3. Speaks(s[1], x) => \A i \in DOMAIN s : ~Writes(s[i], x)
  <2> HIDE DEF s
  <2> QED BY <1>1, <1>2 DEF Told
<1>4. Speaks(s[1], x) => rows[x].known /\ AsIn(s[1], x, rows[x])
  <2> HIDE DEF s
  <2> QED BY <1>1, <1>3 DEF Told
<1> QED BY <1>1, <1>4

\* An event that was not inserted because its key was there already.
LEMMA RepeatRecorded ==
  ASSUME OutboxInv, TypeInv, StepsTold, NEW c \in Callers, AppendEvent(c), UNCHANGED outbox,
         NEW x \in Tracked, Recorded(x), todo[c][1].key # None,
         NEW t \in DOMAIN outbox, outbox[t].key = todo[c][1].key
  PROVE  Recorded(x)'
<1> DEFINE s == todo[c][1]
           n == RecordNode(x)
<1>1. /\ IsSeq(todo[c]) /\ todo[c] # <<>> /\ 1 \in DOMAIN todo[c] /\ s.do = "append"
      /\ UNCHANGED <<rows, lost>> /\ todo' = [todo EXCEPT ![c] = Tail(todo[c])]
  BY AppendMoves
<1>2. CASE x \notin lost' /\ ~Due(x)' => ~Due(x)
  BY <1>1, <1>2, RecordedKept
<1>3. CASE x \notin lost /\ ~Due(x)' /\ Due(x)
  <2>1. Settles(s, x)
    BY <1>1, <1>3, DueRest
  <2>2. x \in Executions
    BY <2>1 DEF Settles
  <2>3. Proper(s) /\ rows[x].known /\ AsIn(s, x, rows[x])
    BY <1>1, <2>1, SettlesAbout, HeadSays
  <2>4. /\ s.key[2] = x
        /\ \/ Buries(s.event, n) /\ s.key[1] = "deleted"
           \/ Touches(s.event, n) /\ ~Buries(s.event, n) /\ s.key[1] = "execution"
    BY <1>1, <2>1, <2>2, <2>3 DEF Proper
  <2>5. /\ KeyTells(outbox[t].key, outbox[t].event, x)
        /\ \A u \in DOMAIN outbox : ~Raises(outbox[u].event, n)
        /\ rows[x].live => Undecided(outbox, n)
    BY <2>2 DEF Recorded
  <2> HIDE DEF s, n
  <2>6. CASE Buries(s.event, n) /\ s.key[1] = "deleted"
    <3>1. Buries(outbox[t].event, n)
      BY <2>4, <2>5, <2>6 DEF KeyTells, s, n
    <3>2. ~Undecided(outbox, n)
      BY <3>1 DEF Undecided, Decides
    <3>3. ~LiveIn(outbox, n)
      BY <2>5, <3>2 DEF LiveIn, LastOf, Decides
    <3>4. ~rows[x].live
      BY <2>3, <2>6 DEF AsIn, n
    <3> QED BY <1>1, <2>3, <3>2, <3>3, <3>4 DEF Recorded, Agrees, n
  <2>7. CASE Touches(s.event, n) /\ ~Buries(s.event, n) /\ s.key[1] = "execution"
    <3>1. Touches(outbox[t].event, n)
      BY <2>4, <2>5, <2>7 DEF KeyTells, s, n
    <3>2. rows[x].live
      BY <2>3, <2>7 DEF AsIn, n
    <3>3. Undecided(outbox, n) /\ LiveIn(outbox, n)
      BY <2>5, <3>1, <3>2 DEF LiveIn
    <3> QED BY <1>1, <2>3, <3>2, <3>3 DEF Recorded, Agrees, n
  <2> QED BY <2>4, <2>6, <2>7
<1> QED BY <1>1, <1>2, <1>3

\* An event that is inserted behind all others.
LEMMA InsertRecorded ==
  ASSUME OutboxInv, TypeInv, StepsTold, AppendsInOrder, NamesExist,
         NEW c \in Callers, AppendEvent(c), NEW at, at = stamp[c],
         DOMAIN outbox' = DOMAIN outbox \cup {at},
         \A t \in DOMAIN outbox : t # at => outbox'[t] = outbox[t],
         outbox'[at].event = todo[c][1].event, outbox'[at].key = todo[c][1].key,
         NEW x \in Tracked, Recorded(x)
  PROVE  Recorded(x)'
<1> DEFINE s == todo[c][1]
           n == RecordNode(x)
<1>1. /\ IsSeq(todo[c]) /\ todo[c] # <<>> /\ 1 \in DOMAIN todo[c] /\ s.do = "append"
      /\ Head(todo[c]) = s
      /\ UNCHANGED <<rows, lost>> /\ todo' = [todo EXCEPT ![c] = Tail(todo[c])]
  BY AppendMoves
<1>2. at \in Nat /\ \A t \in DOMAIN outbox : t \in Nat /\ t < at
  <2>1. \A t \in DOMAIN outbox : t < at
    BY <1>1 DEF AppendsInOrder
  <2>2. at \in 1..stamps
    BY <1>1 DEF OutboxInv, Stamped
  <2> QED BY <2>1, <2>2, RowNumbers
<1>3. \A t \in DOMAIN outbox : outbox'[t] = outbox[t]
  BY <1>2
<1>4. /\ Proper(s) /\ (Speaks(s, x) => rows[x].known /\ AsIn(s, x, rows[x]))
  BY <1>1, HeadSays
<1>5. Mentions(s, x) => rows[x].known
  <2>1. \A j \in DOMAIN todo[c] : ~(j < 1)
    BY <1>1 DEF IsSeq
  <2> QED BY <1>1, <2>1 DEF NamesExist
<1>6. /\ Decides(s.event, n) => Speaks(s, x)
      /\ Touches(s.event, n) => Mentions(s, x)
  BY <1>1 DEF Speaks, Rules, Mentions
<1>7. /\ Decides(s.event, n) =>
           /\ ~Undecided(outbox', n)
           /\ Buries(s.event, n) => ~LiveIn(outbox', n)
           /\ ~Buries(s.event, n) => LiveIn(outbox', n)
      /\ ~Decides(s.event, n) =>
           /\ Undecided(outbox', n) => Undecided(outbox, n)
           /\ Undecided(outbox, n) => Undecided(outbox', n)
           /\ LiveIn(outbox, n) => LiveIn(outbox', n)
           /\ LiveIn(outbox', n) /\ ~LiveIn(outbox, n)
                => Undecided(outbox, n) /\ Touches(s.event, n)
           /\ Undecided(outbox, n) /\ Touches(s.event, n) => LiveIn(outbox', n)
  <2> DEFINE new == outbox'
             e == s.event
  <2>1. /\ DOMAIN new = DOMAIN outbox \cup {at}
        /\ \A t \in DOMAIN outbox : t \in Nat /\ t < at /\ new[t].event = outbox[t].event
        /\ new[at].event = e
    BY <1>2, <1>3
  <2> HIDE DEF new, n, e
  <2> QED BY <1>2, <2>1, AppendedSays DEF new, e
<1>8. ASSUME x \in Executions
      PROVE  /\ ~Raises(s.event, n) /\ KeyTells(s.key, s.event, x)
             /\ Settles(s, x) => Buries(s.event, n) \/ Touches(s.event, n)
  BY <1>1, <1>4, <1>8 DEF Proper
<1> HIDE DEF s, n
<1>9. rows[x].live => rows[x].known
  BY Disjoint DEF TypeInv, RowOK
<1>10. ASSUME x \notin lost, ~Due(x)'
       PROVE  /\ rows[x].live <=> LiveIn(outbox', n)
              /\ rows[x].known /\ ~rows[x].live => ~Undecided(outbox', n)
  <2>1. CASE Decides(s.event, n)
    <3>1. (Buries(s.event, n) => ~rows[x].live) /\ (~Buries(s.event, n) => rows[x].live)
      BY <1>4, <1>6, <2>1 DEF AsIn, n
    <3>2. /\ ~Undecided(outbox', n) /\ (Buries(s.event, n) => ~LiveIn(outbox', n))
          /\ ~Buries(s.event, n) => LiveIn(outbox', n)
      BY <1>7, <2>1
    <3> QED BY <3>1, <3>2
  <2>2. CASE ~Decides(s.event, n) /\ Settles(s, x)
    <3>1. x \in Executions
      BY <2>2 DEF Settles, n
    <3>2. Touches(s.event, n) /\ ~Buries(s.event, n)
      BY <1>8, <2>2, <3>1 DEF Decides
    <3>3. rows[x].live
      BY <1>4, <2>2, <3>2 DEF AsIn, Speaks, n
    <3>4. Undecided(outbox, n)
      BY <3>1, <3>3 DEF Recorded, n
    <3> QED BY <1>7, <2>2, <3>2, <3>3, <3>4
  <2>3. CASE ~Decides(s.event, n) /\ ~Settles(s, x)
    <3>1. ~Due(x)
      BY <1>1, <1>10, <2>3, DueRest DEF s
    <3>2. /\ rows[x].live <=> LiveIn(outbox, n)
          /\ rows[x].known /\ ~rows[x].live => ~Undecided(outbox, n)
      BY <1>10, <3>1 DEF Recorded, Agrees, n
    <3>3. Touches(s.event, n) => rows[x].known
      BY <1>5, <1>6
    <3>4. LiveIn(outbox', n) => LiveIn(outbox, n) \/ (Undecided(outbox, n) /\ rows[x].known)
      BY <1>7, <2>3, <3>3
    <3>5. (LiveIn(outbox, n) => LiveIn(outbox', n)) /\ (Undecided(outbox', n) => Undecided(outbox, n))
      BY <1>7, <2>3
    <3> QED BY <3>2, <3>4, <3>5
  <2> QED BY <2>1, <2>2, <2>3
<1>11. ASSUME ~rows[x].known
       PROVE  /\ Undecided(outbox', n)
              /\ \A t \in DOMAIN outbox' : ~Touches(outbox'[t].event, n)
  <2>1. ~Decides(s.event, n) /\ ~Touches(s.event, n)
    BY <1>4, <1>5, <1>6, <1>11
  <2>2. Undecided(outbox, n) /\ \A t \in DOMAIN outbox : ~Touches(outbox[t].event, n)
    BY <1>11 DEF Recorded, n
  <2> QED BY <1>3, <1>7, <2>1, <2>2 DEF s
<1>12. ASSUME x \in Executions
       PROVE  /\ rows[x].live \/ ~rows[x].known => Undecided(outbox', n)
              /\ \A t \in DOMAIN outbox' : /\ ~Raises(outbox'[t].event, n)
                                           /\ KeyTells(outbox'[t].key, outbox'[t].event, x)
  <2>1. /\ rows[x].live \/ ~rows[x].known => Undecided(outbox, n)
        /\ \A t \in DOMAIN outbox : /\ ~Raises(outbox[t].event, n)
                                    /\ KeyTells(outbox[t].key, outbox[t].event, x)
    BY <1>12 DEF Recorded, n
  <2>2. rows[x].live \/ ~rows[x].known => ~Decides(s.event, n)
    BY <1>4, <1>6, <1>8, <1>12 DEF AsIn, Decides, n
  <2>3. /\ ~Raises(outbox'[at].event, n) /\ KeyTells(outbox'[at].key, outbox'[at].event, x)
    BY <1>8, <1>12 DEF s
  <2>4. \A t \in DOMAIN outbox' : t = at \/ (t \in DOMAIN outbox /\ outbox'[t] = outbox[t])
    BY <1>3
  <2> QED BY <1>7, <2>1, <2>2, <2>3, <2>4
<1> QED BY <1>1, <1>10, <1>11, <1>12 DEF Recorded, Agrees, n

\* A row is written: an append about it is due from now on.
LEMMA WriteRecorded ==
  ASSUME OutboxInv, TypeInv, StepsTold, NEW c \in Callers, WriteRow(c),
         NEW x \in Tracked, Recorded(x)
  PROVE  Recorded(x)'
<1> DEFINE s == todo[c]
<1>1. /\ IsSeq(s) /\ s # <<>> /\ 1 \in DOMAIN s /\ s[1].do = "write"
      /\ rows'[x] = IF Writes(s[1], x) THEN s[1].new[x] ELSE rows[x]
      /\ todo' = [todo EXCEPT ![c] = Tail(s)] /\ UNCHANGED <<outbox, lost>>
  BY WriteMoves
<1>2. Told(s, x, rows[x]) /\ todo'[c] = Tail(s)
  BY <1>1 DEF StepsTold, OutboxInv, Stamped
<1>3. CASE Writes(s[1], x)
  <2> HIDE DEF s
  <2>1. PICK j \in DOMAIN s : 1 < j /\ Settles(s[j], x)
    BY <1>1, <1>2, <1>3 DEF Told
  <2>2. Fits(s[1].new[x], x, rows[x])
    BY <1>1, <1>2, <1>3 DEF Told
  <2>3. Due(x)'
    <3>1. /\ Len(s) \in Nat /\ DOMAIN s = 1..Len(s) /\ DOMAIN Tail(s) = 1..(Len(s) - 1)
          /\ \A i \in 1..(Len(s) - 1) : Tail(s)[i] = s[i + 1]
      BY <1>1, RestOf
    <3>2. j - 1 \in DOMAIN Tail(s) /\ Tail(s)[j - 1] = s[(j - 1) + 1] /\ (j - 1) + 1 = j
      BY <2>1, <3>1
    <3>3. \E i \in DOMAIN todo'[c] : Settles(todo'[c][i], x)
      BY <1>2, <2>1, <3>2
    <3> QED BY <3>3 DEF Due
  <2>4. rows'[x].known
    BY <1>1, <1>3, <2>2 DEF Fits
  <2>5. x \in Executions /\ rows'[x].live => rows[x].live \/ ~rows[x].known
    BY <1>1, <1>3, <2>2 DEF Fits
  <2> QED BY <1>1, <2>3, <2>4, <2>5 DEF Recorded
<1>4. CASE ~Writes(s[1], x)
  <2>1. rows'[x] = rows[x]
    BY <1>1, <1>4
  <2>2. ~Settles(s[1], x)
    BY <1>1 DEF Settles
  <2>3. Due(x) => Due(x)'
    <3> HIDE DEF s
    <3> QED BY <1>1, <2>2, DueRest DEF s
  <2> QED BY <1>1, <2>1, <2>3, RecordedKept
<1> QED BY <1>3, <1>4

\* An append is lost, with the entities of the same memory.
LEMMA LossRecorded ==
  ASSUME OutboxInv, TypeInv, NEW c \in Callers, LoseAppend(c), NEW x \in Tracked, Recorded(x)
  PROVE  Recorded(x)'
<1> DEFINE s == todo[c]
<1>1. /\ IsSeq(s) /\ s # <<>> /\ UNCHANGED <<rows, outbox>>
      /\ lost' = lost \cup About(s[1].event)
      /\ \/ todo' = [todo EXCEPT ![c] = Tail(s)]
         \/ /\ Tail(s) # <<>> /\ Tail(s)[1].do = "append"
            /\ Tail(s)[1].event.type = "memory.entities.extracted"
            /\ todo' = [todo EXCEPT ![c] = Tail(Tail(s))]
  BY AppendMoves
<1>2. ASSUME x \notin lost', ~Due(x)', Due(x)
      PROVE  FALSE
  <2>1. ~Settles(s[1], x)
    BY <1>1, <1>2, SettlesAbout
  <2>2. CASE todo' = [todo EXCEPT ![c] = Tail(s)]
    BY <1>1, <1>2, <2>1, <2>2, DueRest
  <2>3. CASE /\ Tail(s) # <<>> /\ Tail(s)[1].event.type = "memory.entities.extracted"
             /\ todo' = [todo EXCEPT ![c] = Tail(Tail(s))]
    <3>1. ~Settles(Tail(s)[1], x)
      BY <2>3, SettlesAbout
    <3> QED BY <1>1, <1>2, <2>1, <2>3, <3>1, DueRest
  <2> QED BY <1>1, <2>2, <2>3
<1> QED BY <1>1, <1>2, RecordedKept

\* A request stops: what was due is lost.
LEMMA CrashRecorded ==
  ASSUME OutboxInv, TypeInv, NEW c \in Callers, CrashCaller(c), NEW x \in Tracked, Recorded(x)
  PROVE  Recorded(x)'
<1>1. /\ UNCHANGED <<rows, outbox>> /\ todo' = [todo EXCEPT ![c] = <<>>]
      /\ lost' = lost \cup UNION {About(s.event) : s \in Appends(todo[c])}
  BY CrashMoves
<1>2. \A d \in Callers \ {c} : todo'[d] = todo[d]
  BY <1>1 DEF OutboxInv, Stamped
<1>3. ASSUME x \notin lost', ~Due(x)', NEW d \in Callers, NEW i \in DOMAIN todo[d],
             Settles(todo[d][i], x)
      PROVE  FALSE
  <2>1. d = c
    BY <1>2, <1>3 DEF Due
  <2>2. todo[c][i].do = "append" /\ x \in About(todo[c][i].event)
    BY <1>3, <2>1, SettlesAbout
  <2>3. todo[c][i] \in Appends(todo[c])
    BY <1>3, <2>1, <2>2 DEF Appends, Range
  <2> QED BY <1>1, <1>3, <2>2, <2>3
<1>4. x \notin lost' /\ ~Due(x)' => ~Due(x)
  BY <1>3 DEF Due
<1> QED BY <1>1, <1>4, RecordedKept

\* A request begins.
LEMMA RequestRecorded ==
  ASSUME OutboxInv, TypeInv, PlainRequests, NEW c \in Callers, Request(c),
         NEW x \in Tracked, Recorded(x)
  PROVE  Recorded(x)'
<1>1. PICK steps : /\ todo[c] = <<>> /\ todo' = [todo EXCEPT ![c] = steps]
                   /\ UNCHANGED <<rows, outbox, lost>>
  BY RequestsTell DEF Speaking
<1>2. \A d \in Callers \ {c} : todo'[d] = todo[d]
  BY <1>1 DEF OutboxInv, Stamped
<1>3. \A d \in Callers : \A i \in DOMAIN todo[d] : d # c
  BY <1>1
<1>4. Due(x) => Due(x)'
  BY <1>2, <1>3 DEF Due
<1> QED BY <1>1, <1>4, RecordedKept

LEMMA AppendRecorded ==
  ASSUME OutboxInv, TypeInv, StepsTold, AppendsInOrder, NamesExist,
         NEW c \in Callers, AppendEvent(c), NEW x \in Tracked, Recorded(x)
  PROVE  Recorded(x)'
<1> DEFINE s == todo[c][1]
           at == stamp[c]
           new == [event |-> s.event, key |-> s.key, status |-> "pending"]
<1>1. Head(todo[c]) = s
  BY AppendMoves
<1>2. outbox' = IF s.key # None /\ \E t \in DOMAIN outbox : outbox[t].key = s.key
                  THEN outbox
                  ELSE [t \in DOMAIN outbox \cup {at} |-> IF t = at THEN new ELSE outbox[t]]
  BY <1>1 DEF AppendEvent
<1>3. CASE s.key # None /\ \E t \in DOMAIN outbox : outbox[t].key = s.key
  BY <1>2, <1>3, RepeatRecorded
<1>4. CASE ~(s.key # None /\ \E t \in DOMAIN outbox : outbox[t].key = s.key)
  <2>1. /\ DOMAIN outbox' = DOMAIN outbox \cup {at} /\ outbox'[at] = new
        /\ \A t \in DOMAIN outbox : t # at => outbox'[t] = outbox[t]
    BY <1>2, <1>4
  <2>2. outbox'[at].event = s.event /\ outbox'[at].key = s.key
    BY <2>1
  <2> QED BY <2>1, <2>2, InsertRecorded
<1> QED BY <1>3, <1>4

\* Projectors change only the status of events.
LEMMA ProjectorMarks ==
  ASSUME Tables, NEW p \in Projectors, ProjectorStep(p)
  PROVE  /\ UNCHANGED <<rows, todo, lost>> /\ DOMAIN outbox' = DOMAIN outbox
         /\ \A t \in DOMAIN outbox : /\ outbox'[t].event = outbox[t].event
                                     /\ outbox'[t].key = outbox[t].key
<1>1. ASSUME NEW T, NEW status, outbox' = Marked(T, status)
      PROVE  /\ DOMAIN outbox' = DOMAIN outbox
             /\ \A t \in DOMAIN outbox : /\ outbox'[t].event = outbox[t].event
                                         /\ outbox'[t].key = outbox[t].key
  <2>1. DOMAIN outbox' = DOMAIN outbox
    BY <1>1 DEF Marked
  <2>2. ASSUME NEW t \in DOMAIN outbox
        PROVE  outbox'[t].event = outbox[t].event /\ outbox'[t].key = outbox[t].key
    <3>1. outbox'[t] = IF t \in T THEN [outbox[t] EXCEPT !.status = status] ELSE outbox[t]
      BY <1>1 DEF Marked
    <3>2. outbox[t] \in EntryType(outbox[t])
      BY DEF Tables
    <3> QED BY <3>1, <3>2 DEF EntryType
  <2> QED BY <2>1, <2>2
<1>2. UnchangedCallers
  BY DEF ProjectorStep, Advance, ClearProjection, ChooseFailed, ResetForReplay, ListPending,
         ApplyEvent, MarkProjected, MarkFailed, FailEvent, CrashProjector, StartCommand,
         StartIteration
<1>3. UNCHANGED outbox \/ \E T, status : outbox' = Marked(T, status)
  BY DEF ProjectorStep, Advance, ClearProjection, ChooseFailed, ResetForReplay, ListPending,
         ApplyEvent, MarkProjected, MarkFailed, FailEvent, CrashProjector, StartCommand,
         StartIteration
<1> QED BY <1>1, <1>2, <1>3 DEF UnchangedCallers

\* The marks of events change nothing that is recorded.
LEMMA MarksRecorded ==
  ASSUME UNCHANGED <<rows, todo, lost>>, DOMAIN outbox' = DOMAIN outbox,
         \A t \in DOMAIN outbox : /\ outbox'[t].event = outbox[t].event
                                  /\ outbox'[t].key = outbox[t].key,
         SourceInv
  PROVE  SourceInv'
<1>1. StepsTold'
  BY DEF SourceInv, StepsTold
<1>2. ASSUME NEW x \in Tracked
      PROVE  Recorded(x)'
  <2> DEFINE n == RecordNode(x)
  <2>1. Recorded(x) /\ (Due(x)' <=> Due(x))
    BY DEF SourceInv, Due
  <2> HIDE DEF n
  <2>2. Undecided(outbox, n) => Undecided(outbox', n)
    BY DEF Undecided
  <2>3. Undecided(outbox', n) => Undecided(outbox, n)
    BY DEF Undecided
  <2>4. \A t : (LastOf(outbox', n, t) => LastOf(outbox, n, t))
               /\ (LastOf(outbox, n, t) => LastOf(outbox', n, t))
    BY DEF LastOf
  <2>5. (LiveIn(outbox, n) => LiveIn(outbox', n)) /\ (LiveIn(outbox', n) => LiveIn(outbox, n))
    BY <2>2, <2>3, <2>4 DEF LiveIn
  <2> QED BY <2>1, <2>2, <2>3, <2>5 DEF Recorded, Agrees, n
<1> QED BY <1>1, <1>2 DEF SourceInv

LEMMA SourceInvStays ==
  ASSUME OutboxInv, TypeInv, SourceInv, Apart, NamesExist, AppendsInOrder, PlainRequests,
         [Next]_vars
  PROVE  SourceInv'
<1>1. StepsTold /\ \A x \in Tracked : Recorded(x)
  BY DEF SourceInv
<1>2. CASE \E c \in Callers : CallerStep(c)
  <2>1. PICK c \in Callers : CallerStep(c)
    BY <1>2
  <2>2. StepsTold'
    BY <1>1, <2>1, CallersTold
  <2>3. \A x \in Tracked : Recorded(x)'
    BY <1>1, <2>1, RequestRecorded, WriteRecorded, AppendRecorded, LossRecorded, CrashRecorded
       DEF CallerStep
  <2> QED BY <2>2, <2>3 DEF SourceInv
<1>3. CASE \E p \in Projectors : ProjectorStep(p)
  BY <1>3, ProjectorMarks, MarksRecorded DEF OutboxInv
<1>4. CASE UNCHANGED vars
  BY <1>4, MarksRecorded DEF vars
<1> QED BY <1>2, <1>3, <1>4, Steps

LEMMA InitSource ==
  ASSUME Init, PlainRequests
  PROVE  SourceInv
<1>1. /\ \A c \in Callers : todo[c] = <<>>
      /\ DOMAIN outbox = {}
  BY DEF Init
<1>2. \A x \in Tracked : rows[x] = NoRow
  BY Disjoint DEF Init, PlainRequests
<1>3. StepsTold
  BY <1>1, NothingTold DEF StepsTold
<1>4. ASSUME NEW x \in Tracked
      PROVE  Recorded(x)
  <2>1. ~rows[x].live /\ ~rows[x].known
    BY <1>2 DEF NoRow
  <2>2. Undecided(outbox, RecordNode(x)) /\ ~LiveIn(outbox, RecordNode(x))
    BY <1>1 DEF Undecided, LiveIn
  <2> QED BY <1>1, <2>1, <2>2 DEF Recorded, Agrees
<1> QED BY <1>3, <1>4 DEF SourceInv

\* A healthy outbox means that the graph shows a workflow, a memory or an
\* execution exactly when Postgres still has it, whatever appends about other
\* records were lost, whichever request or process stopped in between, and
\* whatever was applied twice or rebuilt.  It takes that no two requests handle
\* one record at a time and no insert is overtaken, that one process at a time
\* applies events, that an event names only records that exist, and that no
\* request repeats events beside the writes (domain_sql.py, memory.py,
\* execution_store.py and the handlers of neo4j_projection.py).
THEOREM SourceIsFollowed ==
  ASSUME WholeReplays, PlainRequests
  PROVE  Spec /\ []OneAtATime /\ []AppendsInOrder /\ []Apart /\ []NamesExist
           => []GraphFollowsSource
<1>1. Init => OrderInv /\ ShowInv /\ SourceInv
  BY InitShown, InitSource
<1>2. OutboxInv /\ TypeInv /\ (OrderInv /\ ShowInv /\ SourceInv) /\ OneAtATime
      /\ AppendsInOrder /\ Apart /\ NamesExist /\ [Next]_vars
        => (OrderInv /\ ShowInv /\ SourceInv)'
  BY ShownInvStays, SourceInvStays
<1>3. OutboxInv /\ TypeInv /\ (OrderInv /\ ShowInv /\ SourceInv) => GraphFollowsSource
  BY RecordedIsFollowed
<1> QED BY <1>1, <1>2, <1>3, OutboxInvHolds, TypeInvHolds, PTL DEF Spec

-----------------------------------------------------------------------------
(* Events name records that exist.                                         *)

\* The records whose nodes an event merges without deciding about them.
LEMMA Merges ==
  ASSUME NEW e, NEW x \in Tracked, Touches(e, RecordNode(x))
  PROVE  /\ e.type \in {"memory.created", "memory.updated"} =>
              \/ x \in Workflows /\ x \in e.refs.workflow
              \/ x \in Memories /\ x \in e.refs.supersedes
              \/ x \in Executions /\ x \in e.refs.sourceRun
         /\ e.type = "memory.entities.extracted" => x = e.id
         /\ e.type # "memory.source_intelligence.graph_hints.approved"
         /\ e.type = "document_memory_collection.created" =>
              x \in e.refs.workflow \/ x \in e.refs.memory
         /\ e.type \in PersonaTypes => x \in Memories /\ x \in e.refs.memory
         /\ e.type \in RunLike /\ e.refs.run # {} =>
              \/ x \in e.refs.run
              \/ x \in Workflows /\ x \in e.refs.workflow
              \/ x \in Memories /\ x \in e.refs.compactionMemory
<1> DEFINE n == RecordNode(x)
<1>1. /\ IsNode(n) /\ n.label \in RecordLabels
      /\ n.label = "Workflow" <=> x \in Workflows
      /\ n.label = "Memory" <=> x \in Memories
      /\ n.label = "WorkflowRun" <=> x \in Executions
      /\ \A l, ids : n \in NodesOf(l, ids) <=> n.label = l /\ x \in ids
      /\ \A l, i : n = Node(l, i) <=> n.label = l /\ x = i
  BY NodeOfRecord
<1> HIDE DEF n
<1>2. /\ \A type, from, to : n \notin Rels(type, from, to)
      /\ \A type, from, to, scope, key : n \notin Keyed(type, from, to, scope, key)
  BY <1>1, RelsAreRels, KeyedAreRels
<1>3. /\ \A ids : n \notin NodesOf("User", ids) /\ n \notin NodesOf("Agent", ids)
      /\ \A ids : n \notin NodesOf("Conversation", ids) /\ n \notin NodesOf("Document", ids)
      /\ \A ids : n \notin NodesOf("ExecutionEvent", ids)
      /\ \A i : n # Node("StepRun", i)
      /\ \A ids : n \in NodesOf("Workflow", ids) => x \in Workflows /\ x \in ids
      /\ \A ids : n \in NodesOf("Memory", ids) => x \in Memories /\ x \in ids
      /\ \A ids : n \in NodesOf("WorkflowRun", ids) => x \in Executions /\ x \in ids
  BY <1>1 DEF RecordLabels
<1>4. n \in Audience(e) => x \in Workflows /\ x \in e.refs.workflow
  BY <1>3 DEF Audience
<1>r. \A type, from, to : n \notin Rels(type, from, to)
  BY <1>2
<1>m. \A A, B : [NoEffect EXCEPT !.raise = A, !.touch = B].touch = B
  BY DEF NoEffect
<1>5. n \in Memory(EmptyGraph, e).touch =>
        \/ x \in Workflows /\ x \in e.refs.workflow
        \/ x \in Memories /\ x \in e.refs.supersedes
        \/ x \in Executions /\ x \in e.refs.sourceRun
  BY <1>2, <1>3, <1>4, Zenon DEF Memory, NoEffect
<1>6. n \in MemoryEntities(EmptyGraph, e).touch => x = e.id
  BY <1>1, <1>2, <1>3 DEF MemoryEntities, NoEffect
<1>7. n \notin MemoryGraphHints(EmptyGraph, e).touch
  BY <1>2 DEF MemoryGraphHints, NoEffect
<1>8. n \in Document(EmptyGraph, e).touch => x \in e.refs.workflow \/ x \in e.refs.memory
  BY <1>2, <1>3, <1>4 DEF Document, NoEffect
<1>9. n \in Persona(EmptyGraph, e).touch => x \in Memories /\ x \in e.refs.memory
  BY <1>2, <1>3 DEF Persona, NoEffect
<1>10. n \in StepRun(EmptyGraph, e).touch => x \in e.refs.run
  BY <1>2, <1>3 DEF StepRun, NoEffect
<1>11. n \in WorkflowRun(EmptyGraph, e).touch =>
         x \in e.refs.run \/ (x \in Workflows /\ x \in e.refs.workflow)
  <2> DEFINE r == NodesOf("WorkflowRun", e.refs.run)
             w == NodesOf("Workflow", e.refs.workflow)
             schedule == NodesOf("Schedule", e.refs.schedule)
             revision == NodesOf("RuntimeRevision", e.refs.revision)
             container == NodesOf("RuntimeContainer", e.refs.container)
             error == NodesOf("Error", Own(e, e.type = "execution.failed"
                                              \/ e.refs.error # {}))
  <2>1. WorkflowRun(EmptyGraph, e).touch =
          r \cup w \cup Rels("TRIGGERED", schedule, r) \cup Rels("USED_RUNTIME", r, revision)
            \cup Rels("CREATED_CONTAINER", r, container) \cup Rels("FAILED_WITH", r, error)
    BY <1>m DEF WorkflowRun
  <2>2. n \in r => x \in e.refs.run
    BY <1>3
  <2>3. n \in w => x \in Workflows /\ x \in e.refs.workflow
    BY <1>3
  <2> HIDE DEF r, w, schedule, revision, container, error
  <2>4. n \in WorkflowRun(EmptyGraph, e).touch => n \in r \/ n \in w
    BY <1>r, <2>1
  <2> QED BY <2>2, <2>3, <2>4
<1>12. ASSUME NEW l \in EventLabels, e.refs.run # {}, n \in EventDetail(EmptyGraph, e, l).touch
       PROVE  x \in e.refs.run \/ (x \in Memories /\ x \in e.refs.compactionMemory)
  <2> DEFINE run == CHOOSE y \in e.refs.run : TRUE
             r == {Node("WorkflowRun", run)}
             event == {Node(l, EventId(e))}
             agent == NodesOf("Agent", e.refs.agent)
             task == NodesOf("Task", e.refs.task)
             toolCall == NodesOf("ToolCall", e.refs.toolCall)
             request == NodesOf("ModelRequest", e.refs.modelRequest)
             model == NodesOf("Model", e.refs.model)
             provider == NodesOf("ModelProvider", e.refs.provider)
             artifact == NodesOf("Artifact", e.refs.artifact)
             revision == NodesOf("RuntimeRevision", e.refs.revision)
             container == NodesOf("RuntimeContainer", e.refs.container)
             parent == NodesOf("ExecutionEvent", e.refs.parent)
             error == NodesOf("Error", Own(e,
                        \/ e.type \in {"container.failed", "tool.call.failed",
                                      "context.compaction.failed"}
                        \/ e.refs.error # {}))
             health == NodesOf("ContextHealth", Own(e,
                         e.type = "context.health.recorded" \/ e.refs.health # {}))
             usage == NodesOf("TokenUsage", Own(e, e.type = "token.usage.recorded"))
             budget == NodesOf("TokenBudget", Own(e,
                         e.type \in {"token.budget.exceeded", "token.budget.warning"}))
             compaction == NodesOf("ContextCompaction", Own(e,
                             e.type \in {"context.compaction.completed",
                                         "context.compaction.failed",
                                         "context.compaction.started"}))
             memory == IF compaction = {} THEN {}
                       ELSE NodesOf("Memory", e.refs.compactionMemory)
             finding == NodesOf("MonitorFinding", Own(e, e.type = "monitor.finding.created"))
  <2>1. EventDetail(EmptyGraph, e, l).touch =
          r \cup parent \cup memory
            \cup Rels("EMITTED_EVENT", r \cup agent, event)
            \cup Rels("PARENT_OF", parent, event)
            \cup Rels("PARTICIPATED_IN", agent, r)
            \cup Rels("OCCURRED_IN", task \cup toolCall \cup request, r)
            \cup Rels("CALLED_TOOL", event, toolCall)
            \cup Rels("USED_MODEL", r \cup request, model)
            \cup Rels("USED_PROVIDER", model, provider)
            \cup Rels("PRODUCED_ARTIFACT", r, artifact)
            \cup Rels("USED_RUNTIME", r, revision)
            \cup Rels("CREATED_CONTAINER", r, container)
            \cup Rels("FAILED_WITH", event \cup r, error)
            \cup Rels("HAS_CONTEXT_HEALTH", r, health)
            \cup Rels("RECORDED_CONTEXT_HEALTH", event, health)
            \cup Rels("RECORDED_USAGE", r \cup event \cup request, usage)
            \cup Rels("HAS_BUDGET_SIGNAL", r \cup event, budget)
            \cup Rels("HAS_COMPACTION", r \cup event, compaction)
            \cup Rels("CREATED_MEMORY", compaction, memory)
            \cup Rels("RAISED_FINDING", r \cup event, finding)
    BY <1>m DEF EventDetail
  <2>2. run \in e.refs.run /\ (n \in r => x = run)
    BY <1>1, <1>12
  <2>3. n \notin parent
    BY <1>3
  <2>4. n \in memory => x \in Memories /\ x \in e.refs.compactionMemory
    <3>1. n \in NodesOf("Memory", e.refs.compactionMemory)
            => x \in Memories /\ x \in e.refs.compactionMemory
      BY <1>3
    <3> HIDE DEF compaction
    <3> QED BY <3>1
  <2> HIDE DEF run, r, event, agent, task, toolCall, request, model, provider, artifact,
               revision, container, parent, error, health, usage, budget, compaction,
               memory, finding
  <2>5. n \in r \/ n \in parent \/ n \in memory
    BY <1>r, <1>12, <2>1
  <2> QED BY <2>2, <2>3, <2>4, <2>5
<1>13. n \in Projection(EmptyGraph, e).touch
  BY DEF Touches, n
<1> QED BY <1>5, <1>6, <1>7, <1>8, <1>9, <1>10, <1>11, <1>12, <1>13, Handlers

\* Every record an event of the steps names is in K or written before it.
Named(steps, K) ==
  \A i \in DOMAIN steps : \A x \in Tracked : Mentions(steps[i], x) =>
    x \in K \/ \E j \in DOMAIN steps : j < i /\ Writes(steps[j], x)

\* The handlers look up what else an event names.
NamesChecked ==
  /\ "link" \notin Operations
  /\ \A refs \in MemoryRefs : /\ refs.supersedes \cap Memories = {}
                              /\ refs.sourceRun \cap Executions = {}
  /\ \A e \in RunEvents : e[2].compactionMemory \cap Memories = {}
  /\ \A e \in PersonaEvents : e[2].memory \cap Memories = {}

Known == {x \in Tracked : rows[x].known}

LEMMA NamedWider ==
  ASSUME NEW s, NEW K, NEW L, K \subseteq L, Named(s, K)
  PROVE  Named(s, L)
BY DEF Named

LEMMA NamedJoined ==
  ASSUME NEW a, NEW b, IsSeq(a), IsSeq(b), NEW K, Named(a, K),
         Named(b, K \cup {x \in Tracked : \E i \in DOMAIN a : Writes(a[i], x)})
  PROVE  IsSeq(a \o b) /\ Named(a \o b, K)
<1> DEFINE s == a \o b
           n == Len(a)
<1>1. /\ IsSeq(s) /\ n \in Nat /\ DOMAIN a = 1..n /\ DOMAIN b = 1..Len(b) /\ Len(b) \in Nat
      /\ DOMAIN s = 1..(n + Len(b))
      /\ \A i \in 1..n : s[i] = a[i]
      /\ \A i \in 1..Len(b) : s[n + i] = b[i]
  BY JoinedSeqs
<1> HIDE DEF s, n
<1>2. \A i \in DOMAIN a : i \in DOMAIN s /\ s[i] = a[i]
  BY <1>1
<1>3. \A i \in DOMAIN b : n + i \in DOMAIN s /\ s[n + i] = b[i]
  BY <1>1
<1>4. \A i \in DOMAIN s : i \in DOMAIN a \/ \E k \in DOMAIN b : i = n + k
  <2>1. \A i \in DOMAIN s : i \in 1..n \/ (i - n \in 1..Len(b) /\ i = n + (i - n))
    BY <1>1
  <2> QED BY <1>1, <2>1
<1>5. ASSUME NEW i \in DOMAIN s, NEW x \in Tracked, Mentions(s[i], x)
      PROVE  x \in K \/ \E j \in DOMAIN s : j < i /\ Writes(s[j], x)
  <2>1. CASE i \in DOMAIN a
    <3>1. x \in K \/ \E j \in DOMAIN a : j < i /\ Writes(a[j], x)
      BY <1>2, <1>5, <2>1 DEF Named
    <3> QED BY <1>2, <3>1
  <2>2. ASSUME NEW k \in DOMAIN b, i = n + k
        PROVE  x \in K \/ \E j \in DOMAIN s : j < i /\ Writes(s[j], x)
    <3>1. \/ x \in K
          \/ \E j \in DOMAIN a : Writes(a[j], x)
          \/ \E j \in DOMAIN b : j < k /\ Writes(b[j], x)
      BY <1>3, <1>5, <2>2 DEF Named
    <3>2. \A j \in DOMAIN a : j < i
      BY <1>1, <2>2
    <3>3. \A j \in DOMAIN b : j < k => n + j < i
      BY <1>1, <2>2
    <3> QED BY <1>2, <1>3, <3>1, <3>2, <3>3
  <2> QED BY <1>4, <2>1, <2>2
<1> QED BY <1>1, <1>5 DEF Named, s

\* One append, and a write with the steps after it.
LEMMA OneNamed ==
  ASSUME NEW e, NEW k, NEW K, \A x \in Tracked : Touches(e, RecordNode(x)) => x \in K
  PROVE  IsSeq(Enqueue(e, k)) /\ Named(Enqueue(e, k), K)
<1> DEFINE s == [do |-> "append", event |-> e, key |-> k]
<1>1. Enqueue(e, k) = <<s>> /\ s.event = e
  BY DEF Enqueue
<1> HIDE DEF s
<1>2. IsSeq(<<s>>) /\ \A i \in DOMAIN <<s>> : <<s>>[i] = s
  <2>1. DOMAIN <<s>> = 1..1 /\ <<s>>[1] = s
    BY OneStep
  <2>2. \A i \in 1..1 : i = 1
    OBVIOUS
  <2> QED BY <2>1, <2>2, OneStep
<1>3. \A i \in DOMAIN <<s>> : \A x \in Tracked : Mentions(<<s>>[i], x) => x \in K
  BY <1>1, <1>2 DEF Mentions
<1> QED BY <1>1, <1>2, <1>3 DEF Named

LEMMA WriteNamed ==
  ASSUME NEW new, NEW b, IsSeq(b), NEW K, Named(b, K \cup (DOMAIN new \cap Tracked))
  PROVE  IsSeq(Write(new) \o b) /\ Named(Write(new) \o b, K)
<1> DEFINE w == [do |-> "write", new |-> new]
           a == Write(new)
<1>1. a = <<w>> /\ w.do = "write" /\ w.new = new
  BY DEF Write
<1> HIDE DEF w, a
<1>2. IsSeq(a) /\ 1 \in DOMAIN a /\ \A i \in DOMAIN a : a[i] = w
  <2>1. DOMAIN <<w>> = 1..1 /\ <<w>>[1] = w
    BY OneStep
  <2>2. \A i \in 1..1 : i = 1
    OBVIOUS
  <2> QED BY <1>1, <2>1, <2>2, OneStep
<1>3. Named(a, K)
  BY <1>1, <1>2 DEF Named, Mentions
<1>4. {x \in Tracked : \E i \in DOMAIN a : Writes(a[i], x)} = DOMAIN new \cap Tracked
  BY <1>1, <1>2 DEF Writes
<1> QED BY <1>2, <1>3, <1>4, NamedJoined DEF a

\* A request that begins with steps that name known records.
Naming(c) ==
  \E steps : /\ IsSeq(steps) /\ Named(steps, Known)
             /\ todo' = [todo EXCEPT ![c] = steps] /\ UNCHANGED rows

LEMMA BeginsNaming ==
  ASSUME NEW c, NEW op, NEW steps, Begin(c, op, steps), IsSeq(steps), Named(steps, Known)
  PROVE  Naming(c)
BY DEF Begin, Continue, Naming

LEMMA WorkflowRequestsName ==
  ASSUME NEW c, NEW w \in Workflows
  PROVE  /\ \A refs : SaveWorkflow(c, w, refs) => Naming(c)
         /\ DeleteWorkflow(c, w) => Naming(c)
<1>1. ASSUME NEW new, NEW b, NEW type \in {"workflow.created", "workflow.updated",
                                           "workflow.deleted"}, NEW refs,
             b = Enqueue(Event(type, "workflow", w, 0, refs), None),
             Begin(c, "workflow", Write(new) \o b)
      PROVE  Naming(c)
  <2> DEFINE e == Event(type, "workflow", w, 0, refs)
             K == Known \cup (DOMAIN new \cap Tracked)
  <2>1. e.type = type
    BY DEF Event
  <2> HIDE DEF e, K
  <2>2. \A x \in Tracked : ~Touches(e, RecordNode(x))
    BY <2>1, WorkflowEvents
  <2>3. IsSeq(Enqueue(e, None)) /\ Named(Enqueue(e, None), K)
    BY <2>2, OneNamed
  <2>4. IsSeq(Write(new) \o b) /\ Named(Write(new) \o b, Known)
    BY <1>1, <2>3, WriteNamed DEF e, K
  <2> QED BY <1>1, <2>4, BeginsNaming
<1>2. ASSUME NEW refs, SaveWorkflow(c, w, refs)
      PROVE  Naming(c)
  <2>1. PICK type \in {"workflow.created", "workflow.updated"} :
          WorkflowSaved(w, refs) = Enqueue(Event(type, "workflow", w, 0, refs), None)
    BY DEF WorkflowSaved
  <2> QED BY <1>1, <1>2, <2>1 DEF SaveWorkflow
<1>3. ASSUME DeleteWorkflow(c, w)
      PROVE  Naming(c)
  BY <1>1, <1>3 DEF DeleteWorkflow
<1> QED BY <1>2, <1>3

\* The steps of a memory that is stored or removed: they name the memory itself.
LEMMA MemoryStepsName ==
  ASSUME NEW m \in Memories, NEW new, DOMAIN new = {m}, NEW refs, NEW K, NEW type,
         \/ type = "memory.deleted"
         \/ /\ type \in {"memory.created", "memory.updated"}
            /\ \A w \in refs.workflow : w \in Tracked => w \in K
            /\ refs.supersedes \cap Memories = {} /\ refs.sourceRun \cap Executions = {}
  PROVE  LET s == Write(new) \o MemoryEvents(type, m, refs)
         IN  /\ IsSeq(s) /\ Named(s, K) /\ \E i \in DOMAIN s : Writes(s[i], m)
<1> DEFINE e == Event(type, "memory", m, 0, refs)
           f == Event("memory.entities.extracted", "memory", m, 0,
                      [NoRefs EXCEPT !.entity = Extracted, !.document = refs.document])
           more == IF Extracted = {} THEN <<>> ELSE Enqueue(f, None)
           L == K \cup (DOMAIN new \cap Tracked)
<1>1. m \in L
  BY DEF Tracked
<1>2. e.type = type /\ e.refs = refs /\ f.type = "memory.entities.extracted" /\ f.id = m
  BY DEF Event
<1>3. MemoryEvents(type, m, refs) = Enqueue(e, None) \o more
  BY DEF MemoryEvents
<1> HIDE DEF e, f
<1>4. IsSeq(Enqueue(e, None)) /\ Named(Enqueue(e, None), L)
  <2>1. \A x \in Tracked : Touches(e, RecordNode(x)) => x \in L
    BY <1>2, DeletionEvents, Merges DEF Tracked
  <2> HIDE DEF L
  <2> QED BY <2>1, OneNamed
<1>5. \A M : L \subseteq M => IsSeq(more) /\ Named(more, M)
  <2>1. \A M : L \subseteq M => \A x \in Tracked : Touches(f, RecordNode(x)) => x \in M
    BY <1>1, <1>2, Merges
  <2> HIDE DEF L
  <2>2. \A M : L \subseteq M => IsSeq(Enqueue(f, None)) /\ Named(Enqueue(f, None), M)
    BY <2>1, OneNamed
  <2>3. \A M : IsSeq(<<>>) /\ Named(<<>>, M)
    BY NoSteps DEF Named
  <2> QED BY <2>2, <2>3
<1> HIDE DEF more, L
<1> DEFINE b == Enqueue(e, None) \o more
<1>6. IsSeq(b) /\ Named(b, L)
  BY <1>4, <1>5, NamedJoined
<1> HIDE DEF b
<1>7. IsSeq(Write(new) \o b) /\ Named(Write(new) \o b, K)
  BY <1>6, WriteNamed DEF L
<1>8. LET s == Write(new) \o b IN \E i \in DOMAIN s : Writes(s[i], m)
  <2> DEFINE w == [do |-> "write", new |-> new]
             s == Write(new) \o b
  <2>1. w.do = "write" /\ w.new = new /\ Write(new) = <<w>>
    BY DEF Write
  <2> HIDE DEF w
  <2>2. IsSeq(<<w>>) /\ Len(<<w>>) = 1 /\ <<w>>[1] = w
    BY OneStep
  <2>3. /\ DOMAIN s = 1..(Len(<<w>>) + Len(b)) /\ Len(b) \in Nat
        /\ \A i \in 1..Len(<<w>>) : s[i] = <<w>>[i]
    BY <1>6, <2>1, <2>2, JoinedSeqs
  <2> HIDE DEF s
  <2>4. 1 \in DOMAIN s /\ s[1] = w
    BY <2>2, <2>3
  <2>5. Writes(s[1], m)
    BY <2>1, <2>4 DEF Writes
  <2> QED BY <2>4, <2>5 DEF s
<1> QED BY <1>3, <1>7, <1>8 DEF b

LEMMA MemoryRequestsName ==
  ASSUME NamesChecked, PlainRequests, NEW c, NEW m \in Memories
  PROVE  /\ \A refs \in MemoryRefs : CreateMemory(c, m, refs) \/ UpdateMemory(c, m, refs)
                                       => Naming(c)
         /\ DeleteMemory(c, m) => Naming(c)
         /\ \A refs : ApproveHints(c, m, refs) => Naming(c)
<1>1. ASSUME NEW refs \in MemoryRefs, CreateMemory(c, m, refs) \/ UpdateMemory(c, m, refs)
      PROVE  Naming(c)
  <2> DEFINE new == One(m, Stored(refs))
  <2>1. PICK type \in {"memory.created", "memory.updated"} :
          Begin(c, "memory", Write(new) \o MemoryEvents(type, m, refs))
    BY <1>1 DEF CreateMemory, UpdateMemory
  <2>2. \A w \in refs.workflow : w \in Tracked => w \in Known
    BY <1>1 DEF CreateMemory, UpdateMemory, Exists, Known
  <2>3. refs.supersedes \cap Memories = {} /\ refs.sourceRun \cap Executions = {}
    BY DEF NamesChecked
  <2>4. DOMAIN new = {m}
    BY OneRow
  <2> HIDE DEF new
  <2> DEFINE s == Write(new) \o MemoryEvents(type, m, refs)
  <2>5. IsSeq(s) /\ Named(s, Known)
    BY <2>2, <2>3, <2>4, MemoryStepsName
  <2> HIDE DEF s
  <2>6. Begin(c, "memory", s)
    BY <2>1 DEF s
  <2> QED BY <2>5, <2>6, BeginsNaming
<1>2. ASSUME DeleteMemory(c, m)
      PROVE  Naming(c)
  <2> DEFINE new == One(m, Removed(m))
             s == Write(new) \o MemoryEvents("memory.deleted", m, rows[m].refs)
  <2>1. Begin(c, "memory", s)
    BY <1>2 DEF DeleteMemory, MemoryRemoval
  <2>2. DOMAIN new = {m}
    BY OneRow
  <2> HIDE DEF new
  <2>3. IsSeq(s) /\ Named(s, Known)
    BY <2>2, MemoryStepsName
  <2> HIDE DEF s
  <2> QED BY <2>1, <2>3, BeginsNaming
<1>3. ASSUME NEW refs, ApproveHints(c, m, refs)
      PROVE  Naming(c)
  <2> DEFINE e == Hints(m, refs)
             k == <<"hints", m, refs.entity>>
  <2>1. e.type = "memory.source_intelligence.graph_hints.approved"
    BY DEF Hints, Event
  <2>2. Begin(c, "hints", Enqueue(e, k))
    BY <1>3 DEF ApproveHints
  <2> HIDE DEF e, k
  <2>3. \A x \in Tracked : ~Touches(e, RecordNode(x))
    BY <2>1, Merges
  <2>4. IsSeq(Enqueue(e, k)) /\ Named(Enqueue(e, k), Known)
    BY <2>3, OneNamed
  <2> QED BY <2>2, <2>4, BeginsNaming
<1> QED BY <1>1, <1>2, <1>3

LEMMA RunRequestsName ==
  ASSUME NamesChecked, PlainRequests, NEW c, NEW x \in Executions
  PROVE  /\ \A e \in RunEvents : EmitEvent(c, x, e[1], e[2]) => Naming(c)
         /\ DeleteExecution(c, x) => Naming(c)
<1>1. x \in Tracked
  BY DEF Tracked
<1>2. ASSUME NEW new, DOMAIN new = {x}, NEW e, NEW k,
             \A y \in Tracked : Touches(e, RecordNode(y)) => y = x \/ y \in Known,
             Begin(c, "execution", Write(new) \o Enqueue(e, k))
      PROVE  Naming(c)
  <2> DEFINE K == Known \cup (DOMAIN new \cap Tracked)
  <2>1. \A y \in Tracked : Touches(e, RecordNode(y)) => y \in K
    BY <1>1, <1>2
  <2> HIDE DEF K
  <2>2. IsSeq(Enqueue(e, k)) /\ Named(Enqueue(e, k), K)
    BY <2>1, OneNamed
  <2>3. IsSeq(Write(new) \o Enqueue(e, k)) /\ Named(Write(new) \o Enqueue(e, k), Known)
    BY <2>2, WriteNamed DEF K
  <2> QED BY <1>2, <2>3, BeginsNaming
<1>3. ASSUME NEW r \in RunEvents, EmitEvent(c, x, r[1], r[2])
      PROVE  Naming(c)
  <2> DEFINE n == rows[x].seq + 1
             new == One(x, [Stored(r[2]) EXCEPT !.seq = n])
             e == RunEvent(x, r[1], r[2], n)
             k == <<"execution", x, n>>
  <2>1. Exists(r[2]) /\ Begin(c, "execution", Write(new) \o Enqueue(e, k))
    BY <1>3 DEF EmitEvent
  <2>2. e.type = r[1] /\ e.refs = [r[2] EXCEPT !.run = {x}]
    BY DEF RunEvent, Event
  <2>3. r[1] \in RunLike /\ "run" \in DOMAIN r[2] /\ r[2].compactionMemory \cap Memories = {}
    BY DEF PlainRequests, NamesChecked
  <2>4. DOMAIN new = {x}
    BY OneRow
  <2> HIDE DEF n, new, e, k
  <2>5. /\ e.refs.run = {x} /\ e.refs.workflow = r[2].workflow
        /\ e.refs.compactionMemory = r[2].compactionMemory
    BY <2>2, <2>3
  <2>6. \A w \in r[2].workflow : w \in Tracked => w \in Known
    BY <2>1 DEF Exists, Known
  <2>7. ASSUME NEW y \in Tracked, Touches(e, RecordNode(y))
        PROVE  y = x \/ y \in Known
    <3>1. e.type \in RunLike /\ e.refs.run # {}
      BY <2>2, <2>3, <2>5
    <3>2. \/ y \in e.refs.run
          \/ y \in Workflows /\ y \in e.refs.workflow
          \/ y \in Memories /\ y \in e.refs.compactionMemory
      BY <2>7, <3>1, Merges
    <3> QED BY <2>3, <2>5, <2>6, <3>2
  <2> QED BY <1>2, <2>1, <2>4, <2>7
<1>4. ASSUME DeleteExecution(c, x)
      PROVE  Naming(c)
  <2> DEFINE new == One(x, Removed(x))
             e == Event("execution.deleted", "workflow_run", x, 0, NoRefs)
             k == <<"deleted", x, 0>>
  <2>1. Begin(c, "execution", Write(new) \o Enqueue(e, k))
    BY <1>4 DEF DeleteExecution
  <2>2. e.type = "execution.deleted"
    BY DEF Event
  <2>3. DOMAIN new = {x}
    BY OneRow
  <2> HIDE DEF new, e, k
  <2>4. \A y \in Tracked : ~Touches(e, RecordNode(y))
    BY <2>2, DeletionEvents
  <2> QED BY <1>2, <2>1, <2>3, <2>4
<1> QED BY <1>3, <1>4

LEMMA PersonaRequestsName ==
  ASSUME NamesChecked, PlainRequests, NEW c, NEW p \in Personas, NEW r \in PersonaEvents,
         EmitPersona(c, p, r[1], r[2])
  PROVE  Naming(c)
<1> DEFINE new == One(p, Stored(r[2]))
           e == Event(r[1], "persona", p, 0, r[2])
           K == Known \cup (DOMAIN new \cap Tracked)
<1>1. Begin(c, "persona", Write(new) \o Enqueue(e, None))
  BY DEF EmitPersona
<1>2. e.type \in PersonaTypes /\ e.refs.memory \cap Memories = {}
  BY DEF Event, PlainRequests, NamesChecked
<1> HIDE DEF new, e, K
<1>3. \A x \in Tracked : ~Touches(e, RecordNode(x))
  BY <1>2, Merges
<1>4. IsSeq(Enqueue(e, None)) /\ Named(Enqueue(e, None), K)
  BY <1>3, OneNamed
<1>5. IsSeq(Write(new) \o Enqueue(e, None)) /\ Named(Write(new) \o Enqueue(e, None), Known)
  BY <1>4, WriteNamed DEF K
<1> QED BY <1>1, <1>5, BeginsNaming

\* Blocks of steps, each of which names records of K and writes its own.
LEMMA EachNamed ==
  ASSUME NEW B, IsFiniteSet(DOMAIN B), NEW K,
         \A m \in DOMAIN B : IsSeq(B[m]) /\ Named(B[m], K)
                             /\ \E i \in DOMAIN B[m] : Writes(B[m][i], m)
  PROVE  /\ IsSeq(Each(B)) /\ Named(Each(B), K)
         /\ \A m \in DOMAIN B : \E i \in DOMAIN Each(B) : Writes(Each(B)[i], m)
<1> DEFINE s == Each(B)
<1>1. IsSeq(s)
  BY EachParts
<1>2. PICK off \in [DOMAIN B -> Nat] :
        /\ \A x \in DOMAIN B : \A k \in DOMAIN B[x] :
             off[x] + k \in DOMAIN s /\ s[off[x] + k] = B[x][k]
        /\ \A i \in DOMAIN s : \E x \in DOMAIN B : \E k \in DOMAIN B[x] : i = off[x] + k
  BY EachParts
<1> HIDE DEF s
<1>3. \A m \in DOMAIN B : \A k \in DOMAIN B[m] : k \in Nat
  <2>1. \A m \in DOMAIN B : DOMAIN B[m] = 1..Len(B[m]) /\ Len(B[m]) \in Nat
    BY JoinedSeqs
  <2> QED BY <2>1
<1>4. ASSUME NEW i \in DOMAIN s, NEW x \in Tracked, Mentions(s[i], x), x \notin K
      PROVE  \E j \in DOMAIN s : j < i /\ Writes(s[j], x)
  <2>1. PICK m \in DOMAIN B : \E k \in DOMAIN B[m] : i = off[m] + k
    BY <1>2
  <2>2. PICK k \in DOMAIN B[m] : i = off[m] + k
    BY <2>1
  <2>3. s[i] = B[m][k]
    BY <1>2, <2>2
  <2>4. PICK j \in DOMAIN B[m] : j < k /\ Writes(B[m][j], x)
    BY <1>4, <2>3 DEF Named
  <2>5. off[m] + j < i
    <3>1. off[m] \in Nat /\ j \in Nat /\ k \in Nat
      BY <1>2, <1>3
    <3> QED BY <2>2, <2>4, <3>1
  <2> QED BY <1>2, <2>4, <2>5
<1>5. \A m \in DOMAIN B : \E i \in DOMAIN s : Writes(s[i], m)
  BY <1>2
<1> QED BY <1>1, <1>4, <1>5 DEF Named, s

LEMMA DocumentRequestsName ==
  ASSUME NEW c, NEW u \in Uploads
  PROVE  UploadDocument(c, u[1], u[2]) \/ DeleteDocument(c, u[1]) => Naming(c)
<1> DEFINE d == u[1]
<1>1. ASSUME NEW ms \in SUBSET Memories, NEW B, DOMAIN B = ms,
             \A m \in ms : IsSeq(B[m]) /\ Named(B[m], Known)
                           /\ \E i \in DOMAIN B[m] : Writes(B[m][i], m),
             NEW e, \A x \in Tracked : Touches(e, RecordNode(x)) => x \in ms,
             Begin(c, "document", Each(B) \o Enqueue(e, None))
      PROVE  Naming(c)
  <2> DEFINE a == Each(B)
             L == Known \cup {x \in Tracked : \E i \in DOMAIN a : Writes(a[i], x)}
  <2>1. IsFiniteSet(ms)
    BY RecordsAssumption, FS_Subset
  <2>2. IsSeq(a) /\ Named(a, Known) /\ \A m \in ms : \E i \in DOMAIN a : Writes(a[i], m)
    BY <1>1, <2>1, EachNamed
  <2> HIDE DEF a
  <2>3. \A x \in Tracked : Touches(e, RecordNode(x)) => x \in L
    BY <1>1, <2>2
  <2> HIDE DEF L
  <2>4. IsSeq(Enqueue(e, None)) /\ Named(Enqueue(e, None), L)
    BY <2>3, OneNamed
  <2>5. IsSeq(a \o Enqueue(e, None)) /\ Named(a \o Enqueue(e, None), Known)
    <3> DEFINE b == Enqueue(e, None)
    <3> HIDE DEF b
    <3>1. IsSeq(b) /\ Named(b, L)
      BY <2>4 DEF b
    <3>2. IsSeq(a \o b) /\ Named(a \o b, Known)
      BY <2>2, <3>1, NamedJoined DEF L
    <3> QED BY <3>2 DEF b
  <2> QED BY <1>1, <2>5, BeginsNaming DEF a
<1>2. ASSUME UploadDocument(c, d, u[2])
      PROVE  Naming(c)
  <2> DEFINE ms == u[2]
             refs == [NoRefs EXCEPT !.document = {d}]
             B == [m \in ms |-> Write(One(m, Stored(refs)))
                                \o MemoryEvents("memory.created", m, refs)]
             e == Event("document_memory_collection.created", "document_memory_collection",
                        d, 0, [NoRefs EXCEPT !.memory = ms])
  <2>1. Begin(c, "document", Each(B) \o Enqueue(e, None))
    BY <1>2 DEF UploadDocument
  <2>2. ms \subseteq Memories /\ DOMAIN B = ms
    BY RecordsAssumption
  <2>3. refs.workflow = {} /\ refs.supersedes = {} /\ refs.sourceRun = {}
    BY DEF NoRefs
  <2>4. e.type = "document_memory_collection.created" /\ e.refs.memory = ms /\ e.refs.workflow = {}
    BY DEF Event, NoRefs
  <2> HIDE DEF e, refs
  <2>5. ASSUME NEW m \in ms
        PROVE  IsSeq(B[m]) /\ Named(B[m], Known) /\ \E i \in DOMAIN B[m] : Writes(B[m][i], m)
    <3> DEFINE new == One(m, Stored(refs))
               s == Write(new) \o MemoryEvents("memory.created", m, refs)
    <3>1. B[m] = s /\ DOMAIN new = {m} /\ m \in Memories
      BY <2>2, OneRow
    <3> HIDE DEF B, new
    <3>2. IsSeq(s) /\ Named(s, Known) /\ \E i \in DOMAIN s : Writes(s[i], m)
      BY <2>3, <3>1, MemoryStepsName
    <3> HIDE DEF s
    <3> QED BY <3>1, <3>2
  <2>6. \A x \in Tracked : Touches(e, RecordNode(x)) => x \in ms
    BY <2>4, Merges
  <2> HIDE DEF B
  <2> QED BY <1>1, <2>1, <2>2, <2>5, <2>6
<1>3. ASSUME DeleteDocument(c, d)
      PROVE  Naming(c)
  <2> DEFINE ms == {m \in Memories : rows[m].live /\ d \in rows[m].refs.document}
             B == [m \in ms |-> MemoryRemoval(m)]
             e == Event("document_memory_collection.deleted", "document_memory_collection",
                        d, 0, [NoRefs EXCEPT !.memory = ms])
  <2>1. Begin(c, "document", Each(B) \o Enqueue(e, None))
    BY <1>3 DEF DeleteDocument
  <2>2. ms \subseteq Memories /\ DOMAIN B = ms
    OBVIOUS
  <2>3. e.type = "document_memory_collection.deleted"
    BY DEF Event
  <2> HIDE DEF e, ms
  <2>4. ASSUME NEW m \in ms
        PROVE  IsSeq(B[m]) /\ Named(B[m], Known) /\ \E i \in DOMAIN B[m] : Writes(B[m][i], m)
    <3> DEFINE new == One(m, Removed(m))
               s == Write(new) \o MemoryEvents("memory.deleted", m, rows[m].refs)
    <3>1. B[m] = s /\ DOMAIN new = {m} /\ m \in Memories
      BY <2>2, OneRow DEF MemoryRemoval
    <3> HIDE DEF B, new
    <3>2. IsSeq(s) /\ Named(s, Known) /\ \E i \in DOMAIN s : Writes(s[i], m)
      BY <3>1, MemoryStepsName
    <3> HIDE DEF s
    <3> QED BY <3>1, <3>2
  <2>5. \A x \in Tracked : ~Touches(e, RecordNode(x))
    BY <2>3, DeletionEvents
  <2> HIDE DEF B
  <2> QED BY <1>1, <2>1, <2>2, <2>4, <2>5
<1> QED BY <1>2, <1>3

\* Every request names what is known.
LEMMA RequestsName ==
  ASSUME NamesChecked, PlainRequests, NEW c, Request(c)
  PROVE  Naming(c)
<1>1. ~Backfill(c) /\ \A m, refs : ~ApprovePersonaItem(c, m, refs)
  BY DEF PlainRequests, Backfill, ApprovePersonaItem, Begin
<1>2. CASE \E w \in Workflows : (\E refs \in WorkflowRefs : SaveWorkflow(c, w, refs))
                                \/ DeleteWorkflow(c, w)
  BY <1>2, WorkflowRequestsName
<1>3. CASE \E m \in Memories :
             \/ \E refs \in MemoryRefs : CreateMemory(c, m, refs) \/ UpdateMemory(c, m, refs)
             \/ DeleteMemory(c, m)
             \/ \E refs \in HintRefs : ApproveHints(c, m, refs)
                                      \/ ApprovePersonaItem(c, m, refs)
  BY <1>1, <1>3, MemoryRequestsName
<1>4. CASE \E u \in Uploads : UploadDocument(c, u[1], u[2]) \/ DeleteDocument(c, u[1])
  BY <1>4, DocumentRequestsName
<1>5. CASE \E p \in Personas, e \in PersonaEvents : EmitPersona(c, p, e[1], e[2])
  BY <1>5, PersonaRequestsName
<1>6. \A l, w : /\ \A refs : ~SaveLink(c, l, w, refs)
                /\ ~DeleteLink(c, l, w)
  BY DEF NamesChecked, SaveLink, DeleteLink, Begin
<1>7. CASE \E x \in Executions : (\E e \in RunEvents : EmitEvent(c, x, e[1], e[2]))
                                 \/ DeleteExecution(c, x)
  BY <1>7, RunRequestsName
<1> QED BY <1>1, <1>2, <1>3, <1>4, <1>5, <1>6, <1>7 DEF Request

\* What the first step leaves, and the steps of the others.
LEMMA NamedTail ==
  ASSUME NEW s, IsSeq(s), s # <<>>, NEW K, Named(s, K)
  PROVE  Named(Tail(s), K \cup {x \in Tracked : Writes(s[1], x)})
<1> DEFINE r == Tail(s)
<1>1. /\ DOMAIN s = 1..Len(s) /\ Len(s) \in Nat /\ DOMAIN r = 1..(Len(s) - 1) /\ 1 \in DOMAIN s
      /\ \A i \in 1..(Len(s) - 1) : r[i] = s[i + 1]
  BY RestOf
<1> HIDE DEF r
<1>2. \A i \in DOMAIN r : i + 1 \in DOMAIN s /\ r[i] = s[i + 1]
  BY <1>1
<1>3. \A i \in DOMAIN r : \A j \in DOMAIN s : j < i + 1 =>
        j = 1 \/ (j - 1 \in DOMAIN r /\ j - 1 < i /\ r[j - 1] = s[j])
  <2> SUFFICES ASSUME NEW i \in DOMAIN r, NEW j \in DOMAIN s, j < i + 1, j # 1
               PROVE  j - 1 \in DOMAIN r /\ j - 1 < i /\ r[j - 1] = s[j]
    OBVIOUS
  <2>1. j - 1 \in DOMAIN r /\ j - 1 < i /\ (j - 1) + 1 = j
    BY <1>1
  <2> QED BY <1>2, <2>1
<1>4. ASSUME NEW i \in DOMAIN r, NEW x \in Tracked, Mentions(r[i], x), x \notin K,
             ~Writes(s[1], x)
      PROVE  \E j \in DOMAIN r : j < i /\ Writes(r[j], x)
  <2>1. PICK j \in DOMAIN s : j < i + 1 /\ Writes(s[j], x)
    BY <1>2, <1>4 DEF Named
  <2> QED BY <1>3, <1>4, <2>1
<1> QED BY <1>4 DEF Named, r

\* c goes on with rest; no record is forgotten.
LEMMA OthersNamed ==
  ASSUME OutboxInv, NamesExist, NEW c \in Callers, NEW rest,
         todo' = [todo EXCEPT ![c] = rest], Known \subseteq Known', Named(rest, Known')
  PROVE  NamesExist'
<1>1. todo'[c] = rest /\ \A d \in Callers \ {c} : todo'[d] = todo[d]
  BY DEF OutboxInv, Stamped
<1>2. ASSUME NEW d \in Callers, NEW i \in DOMAIN todo'[d], NEW x \in Tracked,
             Mentions(todo'[d][i], x)
      PROVE  rows'[x].known \/ \E j \in DOMAIN todo'[d] : j < i /\ Writes(todo'[d][j], x)
  <2>1. CASE d = c
    BY <1>1, <1>2, <2>1 DEF Named, Known
  <2>2. CASE d # c
    BY <1>1, <1>2, <2>2 DEF NamesExist, Known
  <2> QED BY <2>1, <2>2
<1> QED BY <1>2 DEF NamesExist

LEMMA NamesStay ==
  ASSUME OutboxInv, TypeInv, StepsTold, NamesExist, NamesChecked, PlainRequests, [Next]_vars
  PROVE  NamesExist'
<1>1. ASSUME NEW c \in Callers, CallerStep(c)
      PROVE  NamesExist'
  <2> DEFINE s == todo[c]
             r == Tail(s)
  <2>1. Named(s, Known)
    BY DEF NamesExist, Named, Known
  <2>2. CASE Request(c)
    <3>1. PICK steps : /\ IsSeq(steps) /\ Named(steps, Known)
                       /\ todo' = [todo EXCEPT ![c] = steps] /\ UNCHANGED rows
      BY <2>2, RequestsName DEF Naming
    <3>2. Known' = Known
      BY <3>1 DEF Known
    <3> QED BY <3>1, <3>2, OthersNamed
  <2>3. CASE WriteRow(c)
    <3>1. /\ IsSeq(s) /\ s # <<>> /\ 1 \in DOMAIN s
          /\ \A x \in Tracked : rows'[x] = IF Writes(s[1], x) THEN s[1].new[x] ELSE rows[x]
          /\ todo' = [todo EXCEPT ![c] = r]
      BY <2>3, WriteMoves
    <3>2. ASSUME NEW x \in Tracked, Writes(s[1], x)
          PROVE  s[1].new[x].known
      BY <3>1, <3>2 DEF StepsTold, Told, Fits
    <3> DEFINE K == Known \cup {x \in Tracked : Writes(s[1], x)}
    <3>3. K \subseteq Known' /\ Known \subseteq Known'
      BY <3>1, <3>2 DEF Known
    <3>4. Named(r, K)
      BY <2>1, <3>1, NamedTail
    <3> HIDE DEF K
    <3>5. Named(r, Known')
      BY <3>3, <3>4, NamedWider
    <3> HIDE DEF s, r
    <3> QED BY <3>1, <3>3, <3>5, OthersNamed
  <2>4. CASE AppendEvent(c) \/ LoseAppend(c)
    <3>1. /\ IsSeq(s) /\ s # <<>> /\ UNCHANGED rows /\ \A x : ~Writes(s[1], x)
          /\ \/ todo' = [todo EXCEPT ![c] = r]
             \/ /\ r # <<>> /\ r[1].do = "append" /\ todo' = [todo EXCEPT ![c] = Tail(r)]
      BY <2>4, AppendMoves
    <3>2. Known' = Known
      BY <3>1 DEF Known
    <3>3. {x \in Tracked : Writes(s[1], x)} = {}
      BY <3>1
    <3>4. IsSeq(r) /\ Named(r, Known)
      <4>1. Named(r, Known \cup {x \in Tracked : Writes(s[1], x)})
        BY <2>1, <3>1, NamedTail
      <4>2. Known \cup {} = Known
        OBVIOUS
      <4> QED BY <3>1, <3>3, <4>1, <4>2, RestOf
    <3> HIDE DEF s, r
    <3>5. ASSUME r # <<>>, r[1].do = "append"
          PROVE  Named(Tail(r), Known)
      <4>1. {x \in Tracked : Writes(r[1], x)} = {}
        BY <3>5 DEF Writes
      <4>2. Named(Tail(r), Known \cup {x \in Tracked : Writes(r[1], x)})
        BY <3>4, <3>5, NamedTail
      <4>3. Known \cup {} = Known
        OBVIOUS
      <4> QED BY <4>1, <4>2, <4>3
    <3> QED BY <3>1, <3>2, <3>4, <3>5, OthersNamed
  <2>5. CASE CrashCaller(c)
    <3>1. UNCHANGED rows /\ todo' = [todo EXCEPT ![c] = <<>>]
      BY <2>5, CrashMoves
    <3>2. Known' = Known /\ Named(<<>>, Known)
      BY <3>1, NoSteps DEF Known, Named
    <3> QED BY <3>1, <3>2, OthersNamed
  <2> QED BY <1>1, <2>2, <2>3, <2>4, <2>5 DEF CallerStep
<1>2. UNCHANGED <<todo, rows>> => NamesExist'
  BY DEF NamesExist
<1>3. CASE \E p \in Projectors : ProjectorStep(p)
  BY <1>2, <1>3, ProjectorMarks DEF OutboxInv
<1>4. CASE UNCHANGED vars
  BY <1>2, <1>4 DEF vars
<1> QED BY <1>1, <1>3, <1>4, Steps

\* Where one request is served at a time and one process applies the events,
\* a healthy outbox means that the graph shows a workflow, a memory or an
\* execution exactly when Postgres still has it, but for the records whose append
\* was lost: any number of records, crashes, failed calls and rebuilds.  The
\* requests save and delete workflows, memories, documents and executions,
\* approve hints and emit personas; what their events name is looked up first
\* (domain_sql.py, memory.py, execution_store.py, persona_factory.py and the
\* handlers of neo4j_projection.py).
THEOREM LoneSourceIsFollowed ==
  ASSUME WholeReplays, PlainRequests, NamesChecked,
         \A c, d \in Callers : c = d, \A p, q \in Projectors : p = q
  PROVE  Spec => []GraphFollowsSource
<1>1. OneAtATime /\ Apart
  BY DEF OneAtATime, Apart
<1>2. Init => AppendsInOrder /\ OrderInv /\ ShowInv /\ SourceInv /\ NamesExist
  <2>1. ASSUME Init PROVE NamesExist
    BY <2>1 DEF Init, NamesExist
  <2>2. Init => AppendsInOrder
    BY DEF Init, AppendsInOrder
  <2> QED BY <2>1, <2>2, InitShown, InitSource
<1>3. OutboxInv /\ TypeInv /\ (AppendsInOrder /\ OrderInv /\ ShowInv /\ SourceInv /\ NamesExist)
      /\ [Next]_vars
        => (AppendsInOrder /\ OrderInv /\ ShowInv /\ SourceInv /\ NamesExist)'
  <2>1. SourceInv => StepsTold
    BY DEF SourceInv
  <2> QED BY <1>1, <2>1, OneRequestInOrder, ShownInvStays, SourceInvStays, NamesStay
<1>4. OutboxInv /\ TypeInv /\ (AppendsInOrder /\ OrderInv /\ ShowInv /\ SourceInv /\ NamesExist)
        => GraphFollowsSource
  BY RecordedIsFollowed
<1> QED BY <1>2, <1>3, <1>4, OutboxInvHolds, TypeInvHolds, PTL DEF Spec
=============================================================================

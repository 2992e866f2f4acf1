----------------------- MODULE CommandPipelineProofs -----------------------
(***************************************************************************)
(* What holds of the pipeline for every queue capacity, pool size, batch   *)
(* limit and number of commands: the bound on the work that lives in the   *)
(* client (ResidentInv), that no command is in two places (LeaseInv), that *)
(* none is lost or overtaken (OrderInv), and the counters (HealthInv).     *)
(* Because the places exclude one another, each step of the client leases  *)
(* commands within the bound, settles one, discards what may be discarded, *)
(* or is invisible: the pipeline implements the safety part of             *)
(* CommandLeases.                                                          *)
(***************************************************************************)
EXTENDS CommandPipeline, FiniteSetTheorems, SequenceTheorems, TLAPS

(* A worker more or a worker less changes the size of the pool by at most one. *)
LEMMA PoolSize ==
    ASSUME NEW S, NEW x, IsFiniteSet(S)
    PROVE  /\ Cardinality(S) \in Nat
           /\ Cardinality(S \cup {x}) \in Nat /\ Cardinality(S \cup {x}) <= Cardinality(S) + 1
           /\ Cardinality(S \ {x}) \in Nat /\ Cardinality(S \ {x}) <= Cardinality(S)
<1>1. Cardinality(S) \in Nat
  BY FS_CardinalityType
<1>2. Cardinality(S \cup {x}) = IF x \in S THEN Cardinality(S) ELSE Cardinality(S) + 1
  BY FS_AddElement
<1>3. Cardinality(S \ {x}) = IF x \in S THEN Cardinality(S) - 1 ELSE Cardinality(S)
  BY FS_RemoveElement
<1>4. IsFiniteSet(S \ {x})
  BY FS_RemoveElement
<1>5. Cardinality(S \ {x}) \in Nat
  BY <1>4, FS_CardinalityType
<1> QED
  BY <1>1, <1>2, <1>3, <1>5

USE PipelineAssumption

(* The client starts without work. *)
LEMMA ResidentInit == Init => ResidentInv
BY FS_EmptySet DEF Init, ResidentInv

(* A poller step keeps the batch within the room of the queue. *)
LEMMA PollerResident == ResidentInv /\ Poller => ResidentInv'
<1> SUFFICES ASSUME ResidentInv, Poller PROVE ResidentInv'
  OBVIOUS
<1> USE DEF ResidentInv, PollerOnly, listenerVars, historyVars
<1>1. CASE PollerStop
  BY <1>1, Zenon DEF PollerStop
<1>2. CASE QueueFull
  BY <1>2, Zenon DEF QueueFull
<1>3. CASE StartPoll
  BY <1>3 DEF StartPoll, availableSlots, pollLimit
<1>4. CASE WaitEnds
  BY <1>4, Zenon DEF WaitEnds
<1>5. CASE PollFails
  BY <1>5, Zenon DEF PollFails
<1>6. ASSUME NEW n \in 0..Len(remote), PollReturns(n)
      PROVE  ResidentInv'
  <2>1. SubSeq(remote, 1, n) \in Seq(Commands) /\ Len(SubSeq(remote, 1, n)) = n
    BY SubSeqProperties
  <2>2. SubSeq(remote, n + 1, Len(remote)) \in Seq(Commands)
    BY SubSeqProperties
  <2>3. n \in Nat /\ Len(remote) \in Nat
    OBVIOUS
  <2>4. batch' \in Seq(Commands) /\ Len(batch') = n /\ remote' \in Seq(Commands)
    BY <1>6, <2>1, <2>2, Zenon DEF PollReturns
  <2>5. n + Len(queue) <= QueueCapacity + Overflow
    BY <1>6, <2>3 DEF PollReturns
  <2> QED
    BY <1>6, <2>3, <2>4, <2>5, Zenon DEF PollReturns
<1>7. CASE SkipUntyped
  BY <1>7 DEF SkipUntyped
<1>8. CASE BeginEnqueue
  BY <1>8, Zenon DEF BeginEnqueue
<1>9. CASE RefuseEnqueue
  BY <1>9 DEF RefuseEnqueue, DropBatch
<1>10. CASE Send
  <2>1. /\ Head(batch) \in Commands /\ Tail(batch) \in Seq(Commands)
        /\ Len(Tail(batch)) = Len(batch) - 1
    BY <1>10 DEF Send
  <2>2. /\ Append(queue, Head(batch)) \in Seq(Commands)
        /\ Len(Append(queue, Head(batch))) = Len(queue) + 1
    BY <2>1
  <2> QED
    BY <1>10, <2>1, <2>2 DEF Send
<1>11. CASE SendCancelled
  BY <1>11 DEF SendCancelled, DropBatch
<1>12. CASE CountEnqueued
  BY <1>12, Zenon DEF CountEnqueued
<1> QED
  BY <1>1, <1>2, <1>3, <1>4, <1>5, <1>6, <1>7, <1>8, <1>9, <1>10, <1>11, <1>12, ZenonT(30) DEF Poller

(* A listener step drains the queue and keeps the pool within its size. *)
LEMMA ListenerResident == ResidentInv /\ Listener => ResidentInv'
<1> SUFFICES ASSUME ResidentInv, Listener PROVE ResidentInv'
  OBVIOUS
<1> USE DEF ResidentInv, ListenerOnly, pollerVars
<1>1. CASE Receive
  <2>1. /\ Head(queue) \in Commands /\ Tail(queue) \in Seq(Commands)
        /\ Len(Tail(queue)) = Len(queue) - 1
    BY <1>1 DEF Receive
  <2> QED
    BY <1>1, <2>1 DEF Receive
<1>2. CASE CountDequeued
  BY <1>2, Zenon DEF CountDequeued
<1>3. CASE Submit
  <2>1. IsFiniteSet(pool)
    BY FS_Subset, Zenon
  <2>2. /\ Cardinality(pool) \in Nat /\ Cardinality(pool \cup {held}) \in Nat
        /\ Cardinality(pool \cup {held}) <= Cardinality(pool) + 1
    BY <2>1, PoolSize, Zenon
  <2>3. pool' = pool \cup {held} /\ held \in Commands /\ listenerPC' = "select"
    BY <1>3, Zenon DEF Submit
  <2>4. Cardinality(pool') <= MaxConcurrent
    BY <1>3, <2>2, <2>3 DEF Submit
  <2>5. UNCHANGED <<remote, pollerPC, limit, batch, queue>>
    BY <1>3, Zenon DEF Submit
  <2> QED
    BY <2>3, <2>4, <2>5, Zenon
<1>4. CASE SubmitFails
  BY <1>4, Zenon DEF SubmitFails
<1>5. CASE ListenerStop
  BY <1>5, Zenon DEF ListenerStop
<1>6. CASE ReleasePool
  BY <1>6, Zenon DEF ReleasePool
<1> QED
  BY <1>1, <1>2, <1>3, <1>4, <1>5, <1>6, Zenon DEF Listener

(* Every step of the client preserves the invariant. *)
LEMMA ResidentStep == ResidentInv /\ [Next]_vars => ResidentInv'
<1> SUFFICES ASSUME ResidentInv, [Next]_vars PROVE ResidentInv'
  OBVIOUS
<1> USE DEF ResidentInv, pollerVars, listenerVars
<1>1. CASE Poller
  BY <1>1, PollerResident, Zenon
<1>2. CASE Listener
  BY <1>2, ListenerResident, Zenon
<1>3. ASSUME NEW c \in Commands, BeginProcess(c)
      PROVE  ResidentInv'
  BY <1>3, Zenon DEF BeginProcess
<1>4. ASSUME NEW c \in Commands, EndProcess(c)
      PROVE  ResidentInv'
  <2>1. IsFiniteSet(pool)
    BY FS_Subset, Zenon
  <2>2. /\ Cardinality(pool) \in Nat /\ Cardinality(pool \ {c}) \in Nat
        /\ Cardinality(pool \ {c}) <= Cardinality(pool)
    BY <2>1, PoolSize, Zenon
  <2>3. (listenerPC' = listenerPC /\ held' = held) \/ listenerPC' = "select"
    BY <1>4, Zenon DEF EndProcess
  <2>4. Cardinality(pool') <= MaxConcurrent /\ pool' \subseteq Commands
    BY <1>4, <2>2 DEF EndProcess
  <2> QED
    BY <1>4, <2>3, <2>4, Zenon DEF EndProcess
<1>5. CASE BeginStop \/ StopHookReturns \/ StopBudgetExpires
  BY <1>5, Zenon DEF BeginStop, StopHookReturns, StopBudgetExpires
<1>6. CASE UNCHANGED vars
  BY <1>6, Zenon DEF vars
<1> QED
  BY <1>1, <1>2, <1>3, <1>4, <1>5, <1>6, Zenon DEF Next, Exited

(* The batch in hand, or the one asked for, always fits. *)
THEOREM ResidentInvariant == Spec => []ResidentInv
BY ResidentInit, ResidentStep, PTL DEF Spec

(* The work in the client is bounded by the workers, the queue and one
   command the dispatcher holds, whatever the sizes are. *)
THEOREM ResidentBoundThm == Spec => []ResidentBound
<1>1. ResidentInv => ResidentBound
  <2> SUFFICES ASSUME ResidentInv PROVE ResidentBound
    OBVIOUS
  <2>1. Cardinality(pool) \in Nat
    BY FS_Subset, FS_CardinalityType, Zenon DEF ResidentInv
  <2>2. Len(batch) \in Nat /\ Len(queue) \in Nat
    BY DEF ResidentInv
  <2> QED
    BY <2>1, <2>2 DEF ResidentInv, ResidentBound, Resident, HeldCount
<1> QED
  BY <1>1, ResidentInvariant, PTL

(* A service that honours the limit never makes the poller wait to enqueue. *)
THEOREM SendNeverBlocksThm == Spec => []SendNeverBlocks
<1>1. ResidentInv => SendNeverBlocks
  BY DEF ResidentInv, SendNeverBlocks
<1> QED
  BY <1>1, ResidentInvariant, PTL

HIDE PipelineAssumption

-----------------------------------------------------------------------------
(* Where a command is.                                                    *)

Remote == Range(remote)
Batch == Range(batch)
Queued == Range(queue)

\* No command is in two places, and none that is in one was processed.
Apart ==
    /\ Remote \cap (Batch \cup Queued \cup {held} \cup pool \cup processed) = {}
    /\ Batch \cap (Queued \cup {held} \cup pool \cup processed) = {}
    /\ Queued \cap ({held} \cup pool \cup processed) = {}
    /\ held \notin pool \cup processed
    /\ pool \cap processed = {}

\* The inductive invariant of the refinement.
LeaseInv ==
    /\ ResidentInv
    /\ IsInjective(remote) /\ IsInjective(batch) /\ IsInjective(queue)
    /\ Apart
    /\ held \in Commands \cup {NoCommand} /\ processed \subseteq Commands
    /\ listenerPC \in {"countDequeued", "submit", "inline"} \/ held = NoCommand
    /\ pollerPC \in {"enqueue", "send", "countEnqueued"} \/ batch = <<>>
    /\ running \subseteq Assigned

-----------------------------------------------------------------------------
(* Sequences without repetition, and the sets of their elements.           *)

(* Taking the first element removes it from the set. *)
LEMMA HeadLeaves ==
    ASSUME NEW S, NEW s \in Seq(S), s # <<>>, IsInjective(s)
    PROVE  /\ Head(s) \in S /\ Tail(s) \in Seq(S) /\ IsInjective(Tail(s))
           /\ Range(s) = {Head(s)} \cup Range(Tail(s))
           /\ Head(s) \notin Range(Tail(s))
<1>1. /\ Len(s) \in Nat \ {0} /\ DOMAIN s = 1..Len(s)
      /\ Head(s) = s[1] /\ Head(s) \in S
      /\ Tail(s) \in Seq(S) /\ DOMAIN Tail(s) = 1..(Len(s) - 1)
  BY EmptySeq, HeadTailProperties
<1>2. \A i \in 1..(Len(s) - 1) : Tail(s)[i] = s[i + 1]
  BY <1>1, HeadTailProperties
<1>3. IsInjective(Tail(s))
  BY <1>1, <1>2 DEF IsInjective
<1>4. Head(s) \notin Range(Tail(s))
  BY <1>1, <1>2 DEF IsInjective, Range
<1>5. ASSUME NEW x PROVE x \in Range(s) <=> x \in {Head(s)} \cup Range(Tail(s))
  <2>1. ASSUME x \in Range(s) PROVE x \in {Head(s)} \cup Range(Tail(s))
    <3>1. PICK i \in 1..Len(s) : x = s[i]
      BY <1>1, <2>1, Zenon DEF Range
    <3>2. CASE i = 1
      BY <1>1, <3>1, <3>2, Zenon
    <3>3. CASE i # 1
      <4>1. i - 1 \in 1..(Len(s) - 1) /\ (i - 1) + 1 = i
        BY <1>1, <3>3
      <4>2. Tail(s)[i - 1] = x
        BY <1>2, <3>1, <4>1, Zenon
      <4> QED
        BY <1>1, <4>1, <4>2, Zenon DEF Range
    <3> QED
      BY <3>2, <3>3, Zenon
  <2>2. ASSUME x \in Range(Tail(s)) PROVE x \in Range(s)
    BY <1>1, <1>2, <2>2 DEF Range
  <2>3. Head(s) \in Range(s)
    BY <1>1 DEF Range
  <2> QED
    BY <2>1, <2>2, <2>3
<1> QED
  BY <1>1, <1>3, <1>4, <1>5

(* Appending a new element adds it to the set. *)
LEMMA AppendJoins ==
    ASSUME NEW S, NEW s \in Seq(S), NEW x \in S, IsInjective(s), x \notin Range(s)
    PROVE  IsInjective(Append(s, x)) /\ Range(Append(s, x)) = Range(s) \cup {x}
<1>1. /\ Len(s) \in Nat /\ DOMAIN s = 1..Len(s) /\ DOMAIN Append(s, x) = 1..(Len(s) + 1)
      /\ \A i \in 1..Len(s) : Append(s, x)[i] = s[i]
      /\ Append(s, x)[Len(s) + 1] = x
  BY AppendProperties
<1>2. 1..(Len(s) + 1) = (1..Len(s)) \cup {Len(s) + 1}
  BY <1>1
<1>3. IsInjective(Append(s, x))
  BY <1>1, <1>2, ZenonT(30) DEF IsInjective, Range
<1>4. Range(Append(s, x)) = Range(s) \cup {x}
  BY <1>1, <1>2, ZenonT(30) DEF Range
<1> QED
  BY <1>3, <1>4, Zenon

(* What is left of a sequence when its first n elements are cut off. *)
LEMMA RestOf ==
    ASSUME NEW S, NEW s \in Seq(S), NEW n \in 0..Len(s)
    PROVE  /\ SubSeq(s, n + 1, Len(s)) \in Seq(S)
           /\ Len(SubSeq(s, n + 1, Len(s))) = Len(s) - n
           /\ \A i \in 1..(Len(s) - n) : SubSeq(s, n + 1, Len(s))[i] = s[n + i]
<1> DEFINE m == n + 1
           l == Len(s)
           b == SubSeq(s, m, l)
<1>1. m \in Int /\ l \in Int /\ n \in Nat /\ n <= l /\ m = n + 1
  OBVIOUS
<1>2. \A i \in m..l : s[i] \in S
  OBVIOUS
<1>3. /\ b \in Seq(S)
      /\ Len(b) = IF m <= l THEN l - m + 1 ELSE 0
      /\ \A i \in 1..(l - m + 1) : b[i] = s[m + i - 1]
  <2> HIDE DEF m, l
  <2> QED
    BY <1>1, <1>2, SubSeqProperties
<1> SUFFICES b \in Seq(S) /\ Len(b) = l - n /\ \A i \in 1..(l - n) : b[i] = s[n + i]
  BY Zenon
<1> HIDE DEF m, l, b
<1>4. l - m + 1 = l - n /\ Len(b) = l - n
  BY <1>1, <1>3
<1>5. ASSUME NEW i \in 1..(l - n) PROVE b[i] = s[n + i]
  <2>1. m + i - 1 = n + i /\ i \in 1..(l - m + 1)
    BY <1>1, <1>4
  <2> QED
    BY <1>3, <2>1, Zenon
<1> QED
  BY <1>3, <1>4, <1>5, Zenon

\* a is the first n elements of s, b the others.
Cut(s, n, a, b) ==
    /\ Len(a) = n /\ \A i \in 1..n : a[i] = s[i]
    /\ Len(b) = Len(s) - n /\ \A i \in 1..(Len(s) - n) : b[i] = s[n + i]

\* Each element of s is in a or in b, and none is there twice.
Parted(s, a, b) ==
    /\ IsInjective(a) /\ IsInjective(b)
    /\ Range(s) = Range(a) \cup Range(b) /\ Range(a) \cap Range(b) = {}

(* Cutting a sequence in two cuts the set of its elements in two. *)
LEMMA SplitParts ==
    ASSUME NEW S, NEW s \in Seq(S), IsInjective(s), NEW n \in 0..Len(s),
           NEW a \in Seq(S), NEW b \in Seq(S), Cut(s, n, a, b)
    PROVE  Parted(s, a, b)
<1>   /\ Len(a) = n /\ \A i \in 1..n : a[i] = s[i]
      /\ Len(b) = Len(s) - n /\ \A i \in 1..(Len(s) - n) : b[i] = s[n + i]
  BY Zenon DEF Cut
<1>1. Len(s) \in Nat /\ n \in Nat /\ n <= Len(s) /\ DOMAIN s = 1..Len(s)
  OBVIOUS
<1>2. DOMAIN a = 1..n
  OBVIOUS
<1>3. DOMAIN b = 1..(Len(s) - n)
  OBVIOUS
<1>4. \A i \in 1..n : i \in 1..Len(s)
  BY <1>1
<1>5. \A i \in 1..(Len(s) - n) : n + i \in 1..Len(s)
  BY <1>1
<1>6. \A i, j \in 1..Len(s) : s[i] = s[j] => i = j
  BY <1>1, Zenon DEF IsInjective
<1>7. IsInjective(a)
  <2> SUFFICES ASSUME NEW i \in 1..n, NEW j \in 1..n, a[i] = a[j] PROVE i = j
    BY <1>2, Zenon DEF IsInjective
  <2> QED
    BY <1>4, <1>6, Zenon
<1>8. IsInjective(b)
  <2> SUFFICES ASSUME NEW i \in 1..(Len(s) - n), NEW j \in 1..(Len(s) - n), b[i] = b[j]
               PROVE  i = j
    BY <1>3, Zenon DEF IsInjective
  <2>1. b[i] = s[n + i] /\ b[j] = s[n + j]
    BY Zenon
  <2>2. n + i \in 1..Len(s) /\ n + j \in 1..Len(s)
    BY <1>5, Zenon
  <2>3. n + i = n + j
    BY <1>6, <2>1, <2>2, Zenon
  <2> QED
    BY <1>1, <2>3
<1>9. ASSUME NEW x \in Range(a), x \in Range(b) PROVE FALSE
  <2>1. PICK i \in 1..n : x = a[i]
    BY <1>2, Zenon DEF Range
  <2>2. PICK j \in 1..(Len(s) - n) : x = b[j]
    BY <1>3, <1>9, Zenon DEF Range
  <2>3. a[i] = s[i] /\ b[j] = s[n + j]
    BY Zenon
  <2>4. i \in 1..Len(s) /\ n + j \in 1..Len(s)
    BY <1>4, <1>5, Zenon
  <2>5. i = n + j
    BY <1>6, <2>1, <2>2, <2>3, <2>4, ZenonT(30)
  <2> QED
    BY <1>1, <2>5
<1>10. Range(a) \subseteq Range(s)
  <2> SUFFICES ASSUME NEW i \in 1..n PROVE a[i] \in Range(s)
    BY <1>2, Zenon DEF Range
  <2>1. a[i] = s[i] /\ i \in 1..Len(s)
    BY <1>4, Zenon
  <2> QED
    BY <1>1, <2>1, Zenon DEF Range
<1>11. Range(b) \subseteq Range(s)
  <2> SUFFICES ASSUME NEW i \in 1..(Len(s) - n) PROVE b[i] \in Range(s)
    BY <1>3, ZenonT(30) DEF Range
  <2>1. b[i] = s[n + i] /\ n + i \in 1..Len(s)
    BY <1>5, Zenon
  <2> QED
    BY <1>1, <2>1, Zenon DEF Range
<1>12. ASSUME NEW x \in Range(s) PROVE x \in Range(a) \cup Range(b)
  <2>1. PICK i \in 1..Len(s) : x = s[i]
    BY <1>1, Zenon DEF Range
  <2>2. CASE i <= n
    <3>1. i \in 1..n
      BY <1>1, <2>2
    <3>2. a[i] = x
      BY <1>2, <2>1, <3>1, Zenon
    <3> QED
      BY <1>2, <3>1, <3>2, Zenon DEF Range
  <2>3. CASE ~(i <= n)
    <3>1. i - n \in 1..(Len(s) - n) /\ n + (i - n) = i
      BY <1>1, <2>3
    <3>2. b[i - n] = x
      BY <1>3, <2>1, <3>1, Zenon
    <3> QED
      BY <1>3, <3>1, <3>2, Zenon DEF Range
  <2> QED
    BY <2>2, <2>3, Zenon
<1> QED
  BY <1>7, <1>8, <1>9, <1>10, <1>11, <1>12, Zenon DEF Parted

(* A sequence has at least as many elements as the set of them. *)
LEMMA SetSize ==
    ASSUME NEW S, NEW s \in Seq(S)
    PROVE  IsFiniteSet(Range(s)) /\ Cardinality(Range(s)) \in Nat /\ Cardinality(Range(s)) <= Len(s)
<1>1. Len(s) \in Nat /\ s \in [1..Len(s) -> Range(s)] /\ DOMAIN s = 1..Len(s)
  BY DEF Range
<1>2. \A t \in Range(s) : \E i \in 1..Len(s) : s[i] = t
  BY <1>1, Zenon DEF Range
<1>3. s \in Surjection(1..Len(s), Range(s))
  BY <1>1, <1>2, Zenon DEF Surjection
<1>4. IsFiniteSet(1..Len(s)) /\ Cardinality(1..Len(s)) = Len(s)
  BY <1>1, FS_Interval
<1>5. IsFiniteSet(Range(s)) /\ Cardinality(Range(s)) <= Len(s)
  BY <1>3, <1>4, FS_Surjection
<1> QED
  BY <1>5, FS_CardinalityType, Zenon

-----------------------------------------------------------------------------
(* LeaseInv is inductive.                                                  *)

(* At the start everything is with the service. *)
LEMMA LeaseInit == Init => LeaseInv
<1> SUFFICES ASSUME Init PROVE LeaseInv
  BY Zenon
<1>1. ResidentInv
  BY ResidentInit, Zenon
<1>2. Batch = {} /\ Queued = {} /\ IsInjective(batch) /\ IsInjective(queue)
  <2>1. batch = <<>> /\ queue = <<>>
    BY Zenon DEF Init
  <2> QED
    BY <2>1 DEF Batch, Queued, Range, IsInjective
<1>3. Remote = Commands /\ IsInjective(remote)
  BY PipelineAssumption, Zenon DEF Init, Remote
<1>4. Apart
  <2>1. held = NoCommand /\ pool = {} /\ processed = {} /\ NoCommand \notin Commands
    BY PipelineAssumption, Zenon DEF Init
  <2> QED
    BY <1>2, <1>3, <2>1, Zenon DEF Apart
<1> QED
  BY <1>1, <1>2, <1>3, <1>4, Zenon DEF Init, LeaseInv

(* The places are sets of commands. *)
LEMMA PlacesAreCommands ==
    ASSUME ResidentInv
    PROVE  /\ Remote \subseteq Commands /\ Batch \subseteq Commands
           /\ Queued \subseteq Commands /\ pool \subseteq Commands
BY DEF ResidentInv, Remote, Batch, Queued, Range

(* Nothing is never in one of the places. *)
LEMMA NothingIsNowhere ==
    ASSUME LeaseInv
    PROVE  /\ NoCommand \notin Remote /\ NoCommand \notin Batch /\ NoCommand \notin Queued
           /\ NoCommand \notin pool /\ NoCommand \notin processed
BY PipelineAssumption, PlacesAreCommands, Zenon DEF LeaseInv

(* A poll moves the first commands of the service to the batch. *)
LEMMA PollMoves ==
    ASSUME LeaseInv, NEW n \in 0..Len(remote), PollReturns(n)
    PROVE  /\ IsInjective(remote') /\ IsInjective(batch') /\ UNCHANGED queue
           /\ batch = <<>> /\ Batch = {}
           /\ Remote = Remote' \cup Batch' /\ Remote' \cap Batch' = {}
           /\ batch' \in Seq(Commands) /\ Len(batch') = n /\ (n = 0 => batch' = <<>>)
<1> DEFINE a == SubSeq(remote, 1, n)
           b == SubSeq(remote, n + 1, Len(remote))
<1>1. remote \in Seq(Commands) /\ IsInjective(remote) /\ n \in Nat /\ Len(remote) \in Nat
  BY DEF LeaseInv, ResidentInv
<1>2. a \in Seq(Commands) /\ Len(a) = n /\ \A i \in 1..n : a[i] = remote[i]
  BY <1>1, SubSeqProperties
<1>3. /\ b \in Seq(Commands) /\ Len(b) = Len(remote) - n
      /\ \A i \in 1..(Len(remote) - n) : b[i] = remote[n + i]
  BY <1>1, RestOf, Zenon
<1>4. batch' = a /\ remote' = b /\ batch = <<>> /\ UNCHANGED queue
  BY Zenon DEF PollReturns, LeaseInv
<1> HIDE DEF a, b
<1>5. /\ IsInjective(a) /\ IsInjective(b)
      /\ Range(remote) = Range(a) \cup Range(b) /\ Range(a) \cap Range(b) = {}
  <2>1. Cut(remote, n, a, b)
    BY <1>2, <1>3, Zenon DEF Cut
  <2>2. Parted(remote, a, b)
    BY <1>1, <1>2, <1>3, <2>1, SplitParts, Zenon
  <2> QED
    BY <2>2, Zenon DEF Parted
<1>6. n = 0 => a = <<>>
  BY <1>2, EmptySeq, Zenon
<1>7. Remote = Range(remote) /\ Remote' = Range(b) /\ Batch' = Range(a)
  BY <1>4, Zenon DEF Remote, Batch
<1>8. Batch = {}
  BY <1>4 DEF Batch, Range
<1> QED
  BY <1>2, <1>4, <1>5, <1>6, <1>7, <1>8, Zenon

(* The first command leaves the batch. *)
LEMMA BatchHead ==
    ASSUME LeaseInv, pollerPC \in {"enqueue", "send"}, batch' = Tail(batch)
    PROVE  /\ Head(batch) \in Commands /\ IsInjective(batch')
           /\ Batch = {Head(batch)} \cup Batch' /\ Head(batch) \notin Batch'
<1>1. batch \in Seq(Commands) /\ batch # <<>> /\ IsInjective(batch)
  BY Zenon DEF LeaseInv, ResidentInv
<1> QED
  BY <1>1, HeadLeaves, Zenon DEF Batch

(* A poller step moves commands from the service to the batch and on to the queue. *)
LEMMA PollerLease == LeaseInv /\ Poller => LeaseInv'
<1> SUFFICES ASSUME LeaseInv, Poller PROVE LeaseInv'
  BY Zenon
<1>0. ResidentInv /\ ResidentInv'
  BY PollerResident, Zenon DEF LeaseInv
<1>q. /\ UNCHANGED <<held, pool, running, listenerPC, processed>>
      /\ Assigned' = Assigned
  BY Zenon DEF Poller, PollerStop, QueueFull, StartPoll, WaitEnds, PollFails, PollReturns, SkipUntyped,
         BeginEnqueue, RefuseEnqueue, Send, SendCancelled, DropBatch, CountEnqueued, PollerOnly,
         listenerVars, activityVars, historyVars, Assigned
<1>s. SUFFICES /\ IsInjective(remote') /\ IsInjective(batch') /\ IsInjective(queue')
               /\ Apart'
               /\ pollerPC' \in {"enqueue", "send", "countEnqueued"} \/ batch' = <<>>
  BY <1>0, <1>q, Zenon DEF LeaseInv
<1> USE DEF LeaseInv
<1>1. ASSUME UNCHANGED <<remote, queue>>, UNCHANGED batch \/ batch' = <<>>,
             pollerPC' \in {"enqueue", "send", "countEnqueued"} \/ batch' = <<>>
      PROVE  LeaseInv'
  <2>1. UNCHANGED <<Remote, Queued>>
    BY <1>1, Zenon DEF Remote, Queued
  <2>2. Batch' \subseteq Batch
    BY <1>1 DEF Batch, Range
  <2>3. Apart'
    BY <1>q, <2>1, <2>2, Zenon DEF Apart
  <2>4. IsInjective(batch')
    BY <1>1 DEF IsInjective
  <2> QED
    BY <1>0, <1>q, <1>1, <2>3, <2>4, Zenon
<1>2. CASE PollerStop \/ QueueFull \/ StartPoll \/ WaitEnds \/ PollFails \/ BeginEnqueue
  BY <1>1, <1>2, Zenon DEF PollerStop, QueueFull, StartPoll, WaitEnds, PollFails, BeginEnqueue
<1>3. CASE RefuseEnqueue \/ SendCancelled
  BY <1>1, <1>3, Zenon DEF RefuseEnqueue, SendCancelled, DropBatch
<1>4. CASE CountEnqueued
  BY <1>1, <1>4, Zenon DEF CountEnqueued
<1>5. ASSUME NEW n \in 0..Len(remote), PollReturns(n)
      PROVE  LeaseInv'
  <2>1. /\ IsInjective(remote') /\ IsInjective(batch') /\ UNCHANGED queue
        /\ Batch = {} /\ (n = 0 => batch' = <<>>)
        /\ Remote = Remote' \cup Batch' /\ Remote' \cap Batch' = {}
    BY <1>5, PollMoves, Zenon
  <2>2. Queued' = Queued
    BY <2>1, Zenon DEF Queued
  <2>3. Apart'
    BY <1>q, <2>1, <2>2, Zenon DEF Apart
  <2>4. n = 0 \/ pollerPC' = "enqueue"
    BY <1>5, Zenon DEF PollReturns
  <2> QED
    BY <1>0, <1>q, <2>1, <2>3, <2>4, Zenon
<1>6. CASE SkipUntyped
  <2>1. /\ pollerPC = "enqueue" /\ batch' = Tail(batch) /\ UNCHANGED <<remote, queue>>
        /\ batch' = <<>> \/ pollerPC' = "enqueue"
    BY <1>6, Zenon DEF SkipUntyped
  <2>2. IsInjective(batch') /\ Batch' \subseteq Batch
    BY <2>1, BatchHead, Zenon
  <2>3. UNCHANGED <<Remote, Queued>>
    BY <2>1, Zenon DEF Remote, Queued
  <2>4. Apart'
    BY <1>q, <2>2, <2>3, Zenon DEF Apart
  <2> QED
    BY <1>s, <2>1, <2>2, <2>4, Zenon
<1>7. CASE Send
  <2>1. /\ pollerPC = "send" /\ batch' = Tail(batch) /\ UNCHANGED remote
        /\ queue' = Append(queue, Head(batch)) /\ pollerPC' = "countEnqueued"
    BY <1>7, Zenon DEF Send
  <2>2. /\ Head(batch) \in Commands /\ IsInjective(batch')
        /\ Batch = {Head(batch)} \cup Batch' /\ Head(batch) \notin Batch'
    BY <2>1, BatchHead, Zenon
  <2>3. queue \in Seq(Commands) /\ Head(batch) \notin Range(queue)
    BY <2>2, Zenon DEF ResidentInv, Apart, Queued
  <2>4. IsInjective(queue') /\ Queued' = Queued \cup {Head(batch)}
    BY <2>1, <2>2, <2>3, AppendJoins DEF Queued
  <2>5. UNCHANGED Remote
    BY <2>1, Zenon DEF Remote
  <2>6. Apart'
    BY <1>q, <2>2, <2>4, <2>5, ZenonT(60) DEF Apart
  <2> QED
    BY <1>s, <2>1, <2>2, <2>4, <2>6, Zenon
<1> QED
  BY <1>2, <1>3, <1>4, <1>5, <1>6, <1>7, Zenon DEF Poller

(* The first command leaves the queue. *)
LEMMA QueueHead ==
    ASSUME LeaseInv, Receive
    PROVE  /\ Head(queue) \in Commands /\ IsInjective(queue')
           /\ Queued = {Head(queue)} \cup Queued' /\ Head(queue) \notin Queued'
<1>1. queue \in Seq(Commands) /\ queue # <<>> /\ IsInjective(queue) /\ queue' = Tail(queue)
  BY Zenon DEF LeaseInv, ResidentInv, Receive
<1> QED
  BY <1>1, HeadLeaves, Zenon DEF Queued

(* A listener step moves a command from the queue to the hand of the listener
   and on to the pool. *)
LEMMA ListenerLease == LeaseInv /\ Listener => LeaseInv'
<1> SUFFICES ASSUME LeaseInv, Listener PROVE LeaseInv'
  BY Zenon
<1>0. ResidentInv /\ ResidentInv'
  BY ListenerResident, Zenon DEF LeaseInv
<1>q. /\ UNCHANGED <<remote, batch, pollerPC, running, processed>>
      /\ UNCHANGED <<Remote, Batch>>
  BY Zenon DEF Listener, Receive, CountDequeued, Submit, SubmitFails, ListenerStop, ReleasePool,
         ListenerOnly, pollerVars, activityVars, historyVars, Remote, Batch
<1> USE DEF LeaseInv
<1>1. CASE Receive
  <2>1. /\ listenerPC = "select" /\ held' = Head(queue) /\ listenerPC' = "countDequeued"
        /\ UNCHANGED pool
    BY <1>1, Zenon DEF Receive
  <2>2. /\ Head(queue) \in Commands /\ IsInjective(queue')
        /\ Queued = {Head(queue)} \cup Queued' /\ Head(queue) \notin Queued'
    BY <1>1, QueueHead, Zenon
  <2>3. Apart'
    BY <1>q, <2>1, <2>2, ZenonT(60) DEF Apart
  <2>4. running' \subseteq Assigned'
    BY <1>q, <2>1, Zenon DEF Assigned
  <2> QED
    BY <1>0, <1>q, <2>1, <2>2, <2>3, <2>4, Zenon
<1>2. CASE Submit
  <2>1. /\ listenerPC = "submit" /\ held' = NoCommand /\ listenerPC' = "select"
        /\ pool' = pool \cup {held} /\ UNCHANGED queue
    BY <1>2, Zenon DEF Submit
  <2>2. UNCHANGED Queued
    BY <2>1, Zenon DEF Queued
  <2>3. held \in Commands
    BY <1>0, <2>1, Zenon DEF ResidentInv
  <2>n. /\ NoCommand \notin Remote /\ NoCommand \notin Batch /\ NoCommand \notin Queued
        /\ NoCommand \notin pool /\ NoCommand \notin processed /\ NoCommand # held
    BY <2>3, NothingIsNowhere, PipelineAssumption, Zenon
  <2>4. Apart'
    BY <1>q, <2>1, <2>2, <2>n, ZenonT(60) DEF Apart
  <2>5. running' \subseteq Assigned'
    BY <1>q, <2>1, Zenon DEF Assigned
  <2> QED
    BY <1>0, <1>q, <2>1, <2>4, <2>5, Zenon
<1>3. CASE CountDequeued \/ SubmitFails \/ ListenerStop \/ ReleasePool
  <2>1. /\ UNCHANGED <<held, pool, queue>>
        /\ listenerPC' \in {"countDequeued", "submit", "inline"} \/ held = NoCommand
        /\ listenerPC # "inline"
    BY <1>3, Zenon DEF CountDequeued, SubmitFails, ListenerStop, ReleasePool
  <2>2. UNCHANGED Queued
    BY <2>1, Zenon DEF Queued
  <2>3. Apart'
    BY <1>q, <2>1, <2>2, Zenon DEF Apart
  <2>4. running' \subseteq Assigned'
    BY <1>q, <2>1, Zenon DEF Assigned
  <2> QED
    BY <1>0, <1>q, <2>1, <2>3, <2>4, Zenon
<1> QED
  BY <1>1, <1>2, <1>3, Zenon DEF Listener

(* A command whose processing ends was with a worker, or in the hand of the
   listener, and leaves that place. *)
LEMMA EndMoves ==
    ASSUME LeaseInv, NEW c \in Commands, EndProcess(c)
    PROVE  /\ UNCHANGED <<remote, batch, queue, pollerPC>> /\ UNCHANGED <<Remote, Batch, Queued>>
           /\ processed' = processed \cup {c} /\ pool' = pool \ {c} /\ running' = running \ {c}
           /\ \/ c \in pool /\ UNCHANGED <<held, listenerPC>>
              \/ /\ c = held /\ listenerPC = "inline" /\ c \notin pool
                 /\ held' = NoCommand /\ listenerPC' = "select"
BY Zenon DEF LeaseInv, EndProcess, finish, Assigned, pollerVars, listenerVars, Remote, Batch, Queued

(* Every step of the client preserves the invariant. *)
LEMMA LeaseStep == LeaseInv /\ [Next]_vars => LeaseInv'
<1> SUFFICES ASSUME LeaseInv, [Next]_vars PROVE LeaseInv'
  BY Zenon
<1>0. ResidentInv /\ ResidentInv'
  BY ResidentStep, Zenon DEF LeaseInv
<1>1. CASE Poller
  BY <1>1, PollerLease, Zenon
<1>2. CASE Listener
  BY <1>2, ListenerLease, Zenon
<1>3. ASSUME NEW c \in Commands, BeginProcess(c)
      PROVE  LeaseInv'
  BY <1>0, <1>3, Zenon DEF LeaseInv, BeginProcess, begin, Apart, Remote, Batch, Queued, Assigned,
                    pollerVars, listenerVars, historyVars
<1>4. ASSUME NEW c \in Commands, EndProcess(c)
      PROVE  LeaseInv'
  <2>1. /\ UNCHANGED <<remote, batch, queue, pollerPC>> /\ UNCHANGED <<Remote, Batch, Queued>>
        /\ processed' = processed \cup {c} /\ pool' = pool \ {c} /\ running' = running \ {c}
        /\ \/ c \in pool /\ UNCHANGED <<held, listenerPC>>
           \/ /\ c = held /\ listenerPC = "inline" /\ c \notin pool
              /\ held' = NoCommand /\ listenerPC' = "select"
    BY <1>4, EndMoves, Zenon
  <2>2. /\ NoCommand \notin Remote /\ NoCommand \notin Batch /\ NoCommand \notin Queued
        /\ NoCommand \notin pool /\ NoCommand \notin processed /\ NoCommand # c
    BY NothingIsNowhere, PipelineAssumption, Zenon
  <2>a. Apart
    BY Zenon DEF LeaseInv
  <2>3. Apart'
    BY <2>1, <2>2, <2>a, ZenonT(60) DEF Apart
  <2>4. running' \subseteq Assigned'
    BY <2>1, Zenon DEF LeaseInv, Assigned
  <2> QED
    BY <1>0, <2>1, <2>3, <2>4, Zenon DEF LeaseInv
<1>5. CASE BeginStop \/ StopHookReturns \/ StopBudgetExpires \/ UNCHANGED vars
  BY <1>0, <1>5, Zenon DEF LeaseInv, BeginStop, StopHookReturns, StopBudgetExpires, vars, Apart, Remote,
                    Batch, Queued, Assigned, pollerVars, listenerVars, activityVars, historyVars
<1> QED
  BY <1>1, <1>2, <1>3, <1>4, <1>5, Zenon DEF Next, Exited

(* The places a command can be in exclude one another, always. *)
THEOREM LeaseInvariant == Spec => []LeaseInv
BY LeaseInit, LeaseStep, PTL DEF Spec

-----------------------------------------------------------------------------
(* The order of the commands, and the counters.                            *)

\* Every command of S was given out before every command of T.
Before(S, T) == \A c \in S, d \in T : Position(c) < Position(d)

Taken == Range(taken)

\* The inductive invariant of the order.
OrderInv ==
    /\ LeaseInv
    /\ taken \in Seq(Commands) /\ dropped \subseteq Commands
    /\ InOrder(taken) /\ InOrder(queue) /\ InOrder(batch) /\ InOrder(remote)
    /\ Before(Taken, Queued \cup Batch \cup Remote)
    /\ Before(Queued, Batch \cup Remote) /\ Before(Batch, Remote)
    /\ \A c \in Taken \cup Queued : Typed(c)
    /\ pollerPC = "send" => Typed(Head(batch))
    /\ \A c \in Commands \ dropped : Typed(c) => c \in Taken \cup Queued \cup Batch \cup Remote
    /\ dropped \cap (Taken \cup Queued \cup Batch \cup Remote) = {}

(* A command has one place in the order of the service. *)
LEMMA PositionOf ==
    /\ \A c \in Commands : Position(c) \in Nat
    /\ \A i \in DOMAIN Backlog : Position(Backlog[i]) = i
<1>1. /\ Backlog \in Seq(Commands) /\ IsInjective(Backlog) /\ Range(Backlog) = Commands
  BY PipelineAssumption, Zenon
<1>2. DOMAIN Backlog = 1..Len(Backlog) /\ Len(Backlog) \in Nat
  BY <1>1
<1>3. ASSUME NEW c \in Commands
      PROVE  Position(c) \in DOMAIN Backlog /\ Backlog[Position(c)] = c
  <2>1. \E i \in DOMAIN Backlog : Backlog[i] = c
    BY <1>1, Zenon DEF Range
  <2> QED
    BY <2>1, Zenon DEF Position
<1>4. \A i \in DOMAIN Backlog : Backlog[i] \in Commands
  BY <1>1
<1>5. \A i \in DOMAIN Backlog : Position(Backlog[i]) = i
  BY <1>1, <1>3, <1>4, Zenon DEF IsInjective
<1> QED
  BY <1>2, <1>3, <1>5

(* Commands that are in order are different commands. *)
LEMMA BeforeIsApart ==
    ASSUME NEW S \in SUBSET Commands, NEW T \in SUBSET Commands, Before(S, T)
    PROVE  S \cap T = {}
BY PositionOf DEF Before

(* The first of an ordered sequence comes before the others. *)
LEMMA OrderedHead ==
    ASSUME NEW s \in Seq(Commands), s # <<>>, InOrder(s)
    PROVE  InOrder(Tail(s)) /\ Before({Head(s)}, Range(Tail(s)))
<1>1. /\ Len(s) \in Nat \ {0} /\ DOMAIN s = 1..Len(s) /\ Head(s) = s[1]
      /\ Tail(s) \in Seq(Commands) /\ DOMAIN Tail(s) = 1..(Len(s) - 1)
  BY EmptySeq, HeadTailProperties
<1>2. \A i \in 1..(Len(s) - 1) : Tail(s)[i] = s[i + 1]
  BY <1>1, HeadTailProperties, Zenon
<1>3. \A i \in 1..(Len(s) - 1) : i + 1 \in 1..Len(s) /\ 1 \in 1..Len(s) /\ 1 < i + 1
  BY <1>1
<1>4. InOrder(Tail(s))
  <2> SUFFICES ASSUME NEW i \in 1..(Len(s) - 1), NEW j \in 1..(Len(s) - 1), i < j
               PROVE  Position(Tail(s)[i]) < Position(Tail(s)[j])
    BY <1>1, Zenon DEF InOrder
  <2>1. i + 1 < j + 1 /\ i + 1 \in DOMAIN s /\ j + 1 \in DOMAIN s
    BY <1>1, <1>3
  <2>2. Position(s[i + 1]) < Position(s[j + 1])
    BY <2>1, Zenon DEF InOrder
  <2> QED
    BY <1>2, <2>2, Zenon
<1>5. ASSUME NEW d \in Range(Tail(s)) PROVE Position(Head(s)) < Position(d)
  <2>1. PICK i \in 1..(Len(s) - 1) : d = Tail(s)[i]
    BY <1>1, Zenon DEF Range
  <2>2. Position(s[1]) < Position(s[i + 1])
    BY <1>1, <1>3, Zenon DEF InOrder
  <2> QED
    BY <1>1, <1>2, <2>1, <2>2, Zenon
<1> QED
  BY <1>4, <1>5, Zenon DEF Before

(* What comes after all others may be appended. *)
LEMMA OrderedAppend ==
    ASSUME NEW s \in Seq(Commands), NEW x \in Commands, InOrder(s), Before(Range(s), {x})
    PROVE  /\ Append(s, x) \in Seq(Commands) /\ InOrder(Append(s, x))
           /\ Range(Append(s, x)) = Range(s) \cup {x}
<1>1. /\ Len(s) \in Nat /\ DOMAIN s = 1..Len(s) /\ DOMAIN Append(s, x) = 1..(Len(s) + 1)
      /\ \A i \in 1..Len(s) : Append(s, x)[i] = s[i]
      /\ Append(s, x)[Len(s) + 1] = x /\ Append(s, x) \in Seq(Commands)
  BY AppendProperties
<1>2. 1..(Len(s) + 1) = (1..Len(s)) \cup {Len(s) + 1}
  BY <1>1
<1>3. Range(Append(s, x)) = Range(s) \cup {x}
  BY <1>1, <1>2, ZenonT(30) DEF Range
<1>4. ASSUME NEW i \in 1..(Len(s) + 1), NEW j \in 1..(Len(s) + 1), i < j
      PROVE  Position(Append(s, x)[i]) < Position(Append(s, x)[j])
  <2>1. i \in 1..Len(s) /\ Append(s, x)[i] = s[i]
    BY <1>1, <1>4
  <2>2. CASE j = Len(s) + 1
    <3>1. s[i] \in Range(s)
      BY <1>1, <2>1, Zenon DEF Range
    <3> QED
      BY <1>1, <2>1, <2>2, <3>1, Zenon DEF Before
  <2>3. CASE j \in 1..Len(s)
    BY <1>1, <1>4, <2>1, <2>3, Zenon DEF InOrder
  <2> QED
    BY <1>2, <2>2, <2>3, Zenon
<1> QED
  BY <1>1, <1>3, <1>4, Zenon DEF InOrder

(* The parts of an ordered sequence are ordered, one before the other. *)
LEMMA OrderedCut ==
    ASSUME NEW s \in Seq(Commands), InOrder(s), NEW n \in 0..Len(s),
           NEW a \in Seq(Commands), NEW b \in Seq(Commands), Cut(s, n, a, b)
    PROVE  InOrder(a) /\ InOrder(b) /\ Before(Range(a), Range(b))
<1>1. /\ Len(s) \in Nat /\ n \in Nat /\ n <= Len(s) /\ DOMAIN s = 1..Len(s)
      /\ DOMAIN a = 1..n /\ DOMAIN b = 1..(Len(s) - n)
  BY DEF Cut
<1>2. \A i \in 1..n : i \in DOMAIN s /\ a[i] = s[i]
  BY <1>1 DEF Cut
<1>3. \A i \in 1..(Len(s) - n) : n + i \in DOMAIN s /\ b[i] = s[n + i]
  BY <1>1 DEF Cut
<1>4. InOrder(a)
  BY <1>1, <1>2 DEF InOrder
<1>5. ASSUME NEW i \in 1..(Len(s) - n), NEW j \in 1..(Len(s) - n), i < j
      PROVE  Position(b[i]) < Position(b[j])
  <2>1. n + i < n + j
    BY <1>1, <1>5
  <2>2. Position(s[n + i]) < Position(s[n + j])
    BY <1>3, <2>1, Zenon DEF InOrder
  <2> QED
    BY <1>3, <2>2, Zenon
<1>6. ASSUME NEW c \in Range(a), NEW d \in Range(b) PROVE Position(c) < Position(d)
  <2>1. PICK i \in 1..n : c = a[i]
    BY <1>1, Zenon DEF Range
  <2>2. PICK j \in 1..(Len(s) - n) : d = b[j]
    BY <1>1, Zenon DEF Range
  <2>3. i < n + j
    BY <1>1
  <2>4. Position(s[i]) < Position(s[n + j])
    BY <1>2, <1>3, <2>3, Zenon DEF InOrder
  <2> QED
    BY <1>2, <1>3, <2>1, <2>2, <2>4, Zenon
<1> QED
  BY <1>1, <1>4, <1>5, <1>6, Zenon DEF InOrder, Before

(* Two ordered sequences, one before the other, are one ordered sequence. *)
LEMMA OrderedConcat ==
    ASSUME NEW s \in Seq(Commands), NEW t \in Seq(Commands),
           InOrder(s), InOrder(t), Before(Range(s), Range(t))
    PROVE  /\ s \o t \in Seq(Commands) /\ InOrder(s \o t)
           /\ Range(s \o t) = Range(s) \cup Range(t)
<1> DEFINE l == Len(s)
           m == Len(t)
           u == s \o t
<1>1. /\ u \in Seq(Commands) /\ Len(u) = l + m
      /\ \A i \in 1..(l + m) : u[i] = IF i <= l THEN s[i] ELSE t[i - l]
  BY ConcatProperties, Zenon
<1>2. l \in Nat /\ m \in Nat /\ DOMAIN s = 1..l /\ DOMAIN t = 1..m /\ DOMAIN u = 1..(l + m)
  BY <1>1
<1> HIDE DEF l, m, u
<1>3. ASSUME NEW i \in 1..l
      PROVE  i \in 1..(l + m) /\ u[i] = s[i] /\ s[i] \in Range(s)
  <2>1. i \in 1..(l + m) /\ i <= l
    BY <1>2
  <2>2. s[i] \in Range(s)
    BY <1>2, Zenon DEF Range
  <2> QED
    BY <1>1, <2>1, <2>2, Zenon
<1>4. ASSUME NEW i \in 1..m
      PROVE  i + l \in 1..(l + m) /\ u[i + l] = t[i] /\ t[i] \in Range(t)
  <2>1. i + l \in 1..(l + m) /\ ~(i + l <= l) /\ (i + l) - l = i
    BY <1>2
  <2>2. t[i] \in Range(t)
    BY <1>2, Zenon DEF Range
  <2> QED
    BY <1>1, <2>1, <2>2, Zenon
<1>5. \A k \in 1..(l + m) : k \in 1..l \/ \E i \in 1..m : k = i + l
  <2> SUFFICES ASSUME NEW k \in 1..(l + m), k \notin 1..l PROVE \E i \in 1..m : k = i + l
    BY Zenon
  <2>1. k - l \in 1..m /\ k = (k - l) + l
    BY <1>2
  <2> QED
    BY <2>1, Zenon
<1>6. Range(u) = Range(s) \cup Range(t)
  <2>1. ASSUME NEW x \in Range(u) PROVE x \in Range(s) \cup Range(t)
    <3>1. PICK k \in 1..(l + m) : x = u[k]
      BY <1>2, Zenon DEF Range
    <3> QED
      BY <1>3, <1>4, <1>5, <3>1, Zenon
  <2>2. ASSUME NEW x \in Range(s) PROVE x \in Range(u)
    BY <1>2, <1>3, Zenon DEF Range
  <2>3. ASSUME NEW x \in Range(t) PROVE x \in Range(u)
    BY <1>2, <1>4, Zenon DEF Range
  <2> QED
    BY <2>1, <2>2, <2>3, Zenon
<1>7. ASSUME NEW i \in 1..(l + m), NEW j \in 1..(l + m), i < j
      PROVE  Position(u[i]) < Position(u[j])
  <2>1. CASE i \in 1..l /\ j \in 1..l
    BY <1>2, <1>3, <1>7, <2>1, Zenon DEF InOrder
  <2>2. ASSUME i \in 1..l, NEW b \in 1..m, j = b + l
        PROVE  Position(u[i]) < Position(u[j])
    BY <1>3, <1>4, <2>2, Zenon DEF Before
  <2>3. ASSUME NEW a \in 1..m, i = a + l, NEW b \in 1..m, j = b + l
        PROVE  Position(u[i]) < Position(u[j])
    <3>1. a < b
      BY <1>2, <1>7, <2>3
    <3>2. Position(t[a]) < Position(t[b])
      BY <1>2, <3>1, Zenon DEF InOrder
    <3> QED
      BY <1>4, <2>3, <3>2, Zenon
  <2>4. ASSUME NEW a \in 1..m, i = a + l, j \in 1..l PROVE FALSE
    BY <1>2, <1>7, <2>4
  <2> QED
    BY <1>5, <2>1, <2>2, <2>3, <2>4, ZenonT(30)
<1>8. InOrder(u)
  BY <1>2, <1>7, Zenon DEF InOrder
<1> QED
  BY <1>1, <1>6, <1>8, Zenon DEF u

(* At the start everything is with the service, in its order. *)
LEMMA OrderInit == Init => OrderInv
<1> SUFFICES ASSUME Init PROVE OrderInv
  OBVIOUS
<1>1. LeaseInv
  BY LeaseInit
<1>2. /\ remote = Backlog /\ taken = <<>> /\ queue = <<>> /\ batch = <<>> /\ dropped = {}
      /\ pollerPC = "top"
  BY Zenon DEF Init
<1>3. Taken = {} /\ Queued = {} /\ Batch = {} /\ Remote = Commands
  BY <1>2, PipelineAssumption DEF Taken, Queued, Batch, Remote, Range
<1>4. InOrder(<<>>)
  BY DEF InOrder
<1>5. InOrder(remote)
  BY <1>2, PositionOf, Zenon DEF InOrder
<1>6. taken \in Seq(Commands)
  BY <1>2
<1> QED
  BY <1>1, <1>2, <1>3, <1>4, <1>5, <1>6, ZenonT(60) DEF OrderInv, Before

(* A step that moves no command and begins no send of an untyped one. *)
LEMMA OrderQuiet ==
    ASSUME OrderInv, LeaseInv', UNCHANGED <<taken, queue, batch, remote, dropped>>,
           pollerPC' # "send" \/ pollerPC = "send" \/ Typed(Head(batch))
    PROVE  OrderInv'
<1>1. UNCHANGED <<Taken, Queued, Batch, Remote>>
  BY Zenon DEF Taken, Queued, Batch, Remote
<1> QED
  BY <1>1, Zenon DEF OrderInv

(* The places are sets of commands, the ones already taken too. *)
LEMMA TakenAreCommands ==
    ASSUME OrderInv
    PROVE  /\ Taken \subseteq Commands /\ Queued \subseteq Commands
           /\ Batch \subseteq Commands /\ Remote \subseteq Commands
<1>1. ResidentInv /\ taken \in Seq(Commands)
  BY Zenon DEF OrderInv, LeaseInv
<1> QED
  BY <1>1, PlacesAreCommands DEF Taken, Range

(* A poll cuts the order of the service in two. *)
LEMMA PollOrder ==
    ASSUME OrderInv, LeaseInv', NEW n \in 0..Len(remote), PollReturns(n)
    PROVE  OrderInv'
<1> DEFINE a == SubSeq(remote, 1, n)
           b == SubSeq(remote, n + 1, Len(remote))
<1>1. LeaseInv /\ remote \in Seq(Commands) /\ n \in Nat /\ Len(remote) \in Nat /\ InOrder(remote)
  BY DEF OrderInv, LeaseInv, ResidentInv
<1>2. a \in Seq(Commands) /\ Len(a) = n /\ \A i \in 1..n : a[i] = remote[i]
  BY <1>1, SubSeqProperties
<1>3. /\ b \in Seq(Commands) /\ Len(b) = Len(remote) - n
      /\ \A i \in 1..(Len(remote) - n) : b[i] = remote[n + i]
  BY <1>1, RestOf, Zenon
<1>4. /\ batch' = a /\ remote' = b /\ UNCHANGED <<queue, taken, dropped>> /\ pollerPC' # "send"
  BY Zenon DEF PollReturns, historyVars
<1> HIDE DEF a, b
<1>5. Cut(remote, n, a, b)
  BY <1>2, <1>3, Zenon DEF Cut
<1>6. InOrder(a) /\ InOrder(b) /\ Before(Range(a), Range(b))
  BY <1>1, <1>2, <1>3, <1>5, OrderedCut, Zenon
<1>7. Batch = {} /\ Remote = Remote' \cup Batch'
  BY <1>1, PollMoves, Zenon
<1>8. UNCHANGED <<Taken, Queued>> /\ Batch' = Range(a) /\ Remote' = Range(b)
  BY <1>4, Zenon DEF Taken, Queued, Batch, Remote
<1>9. /\ InOrder(taken)' /\ InOrder(queue)' /\ InOrder(batch') /\ InOrder(remote')
      /\ Before(Batch', Remote') /\ UNCHANGED <<taken, dropped>>
  BY <1>4, <1>6, <1>8, Zenon DEF OrderInv
<1>10. /\ Before(Taken', Queued' \cup Batch' \cup Remote')
       /\ Before(Queued', Batch' \cup Remote')
  BY <1>7, <1>8, Zenon DEF OrderInv, Before
<1> QED
  BY <1>4, <1>7, <1>8, <1>9, <1>10, ZenonT(60) DEF OrderInv

(* The first command of the batch, and what comes before and after it. *)
LEMMA BatchOrder ==
    ASSUME OrderInv, pollerPC \in {"enqueue", "send"}
    PROVE  /\ Head(batch) \in Commands /\ InOrder(Tail(batch))
           /\ Before({Head(batch)}, Range(Tail(batch)))
           /\ Batch = {Head(batch)} \cup Range(Tail(batch))
           /\ Head(batch) \notin Range(Tail(batch))
<1>1. batch \in Seq(Commands) /\ batch # <<>> /\ IsInjective(batch) /\ InOrder(batch)
  BY Zenon DEF OrderInv, LeaseInv, ResidentInv
<1> QED
  BY <1>1, HeadLeaves, OrderedHead, Zenon DEF Batch

(* A command of an unknown type leaves the order, the others keep theirs. *)
LEMMA SkipOrder ==
    ASSUME OrderInv, LeaseInv', SkipUntyped
    PROVE  OrderInv'
<1>1. /\ pollerPC = "enqueue" /\ ~Typed(Head(batch)) /\ batch' = Tail(batch)
      /\ UNCHANGED <<remote, queue, taken, dropped>> /\ pollerPC' # "send"
  BY Zenon DEF SkipUntyped, historyVars
<1>2. UNCHANGED <<Remote, Queued, Taken>> /\ Batch' = Range(Tail(batch))
  BY <1>1, Zenon DEF Remote, Queued, Taken, Batch
<1>3. InOrder(batch') /\ Batch = {Head(batch)} \cup Batch'
  BY <1>1, <1>2, BatchOrder, Zenon
<1>4. /\ Before(Taken', Queued' \cup Batch' \cup Remote')
      /\ Before(Queued', Batch' \cup Remote') /\ Before(Batch', Remote')
  BY <1>2, <1>3, Zenon DEF OrderInv, Before
<1> QED
  BY <1>1, <1>2, <1>3, <1>4, Zenon DEF OrderInv

(* What the shutdown drops, and nothing else, leaves the order. *)
LEMMA DropOrder ==
    ASSUME OrderInv, LeaseInv', DropBatch
    PROVE  OrderInv'
<1>1. /\ batch' = <<>> /\ dropped' = dropped \cup {c \in Batch : Typed(c)}
      /\ UNCHANGED <<remote, queue, taken>> /\ pollerPC' # "send"
  BY Zenon DEF DropBatch, Batch
<1>2. UNCHANGED <<Remote, Queued, Taken>> /\ Batch' = {} /\ InOrder(batch')
  BY <1>1 DEF Remote, Queued, Taken, Batch, Range, InOrder
<1>3. Batch \cap (Taken \cup Queued \cup Remote) = {}
  <2>1. /\ Taken \subseteq Commands /\ Queued \subseteq Commands
        /\ Batch \subseteq Commands /\ Remote \subseteq Commands
    BY TakenAreCommands, Zenon
  <2>2. Before(Taken, Batch) /\ Before(Queued, Batch) /\ Before(Batch, Remote)
    BY Zenon DEF OrderInv, Before
  <2> QED
    BY <2>1, <2>2, BeforeIsApart, Zenon
<1>4. /\ Before(Taken', Queued' \cup Batch' \cup Remote')
      /\ Before(Queued', Batch' \cup Remote') /\ Before(Batch', Remote')
  BY <1>2, Zenon DEF OrderInv, Before
<1>5. Batch \subseteq Commands
  BY TakenAreCommands, Zenon
<1> QED
  BY <1>1, <1>2, <1>3, <1>4, <1>5, Zenon DEF OrderInv

(* A command goes from the front of the batch to the end of the queue. *)
LEMMA SendOrder ==
    ASSUME OrderInv, LeaseInv', Send
    PROVE  OrderInv'
<1>1. /\ pollerPC = "send" /\ batch' = Tail(batch) /\ queue' = Append(queue, Head(batch))
      /\ UNCHANGED <<remote, taken, dropped>> /\ pollerPC' # "send"
  BY Zenon DEF Send, historyVars
<1>2. UNCHANGED <<Remote, Taken>> /\ Batch' = Range(Tail(batch))
  BY <1>1, Zenon DEF Remote, Taken, Batch
<1>3. /\ Head(batch) \in Commands /\ InOrder(batch') /\ Batch = {Head(batch)} \cup Batch'
      /\ Before({Head(batch)}, Batch')
  BY <1>1, <1>2, BatchOrder, Zenon
<1>4. queue \in Seq(Commands) /\ InOrder(queue) /\ Before(Queued, {Head(batch)})
  BY <1>3, Zenon DEF OrderInv, LeaseInv, ResidentInv, Before
<1>5. InOrder(queue') /\ Queued' = Queued \cup {Head(batch)}
  BY <1>1, <1>3, <1>4, OrderedAppend, Zenon DEF Queued
<1>6. /\ Before(Taken', Queued' \cup Batch' \cup Remote')
      /\ Before(Queued', Batch' \cup Remote') /\ Before(Batch', Remote')
  BY <1>2, <1>3, <1>5, Zenon DEF OrderInv, Before
<1>7. Typed(Head(batch))
  BY <1>1, Zenon DEF OrderInv
<1> QED
  BY <1>1, <1>2, <1>3, <1>5, <1>6, <1>7, ZenonT(30) DEF OrderInv

(* A command goes from the front of the queue into the hand of the listener. *)
LEMMA ReceiveOrder ==
    ASSUME OrderInv, LeaseInv', Receive
    PROVE  OrderInv'
<1>1. /\ queue # <<>> /\ queue' = Tail(queue) /\ taken' = Append(taken, Head(queue))
      /\ UNCHANGED <<remote, batch, dropped, pollerPC>>
  BY Zenon DEF Receive, ListenerOnly, pollerVars
<1>2. UNCHANGED <<Remote, Batch>> /\ Queued' = Range(Tail(queue))
  BY <1>1, Zenon DEF Remote, Batch, Queued
<1>3. queue \in Seq(Commands) /\ IsInjective(queue) /\ InOrder(queue)
  BY Zenon DEF OrderInv, LeaseInv, ResidentInv
<1>4. /\ Head(queue) \in Commands /\ InOrder(queue') /\ Queued = {Head(queue)} \cup Queued'
      /\ Before({Head(queue)}, Queued')
  BY <1>1, <1>2, <1>3, HeadLeaves, OrderedHead, Zenon DEF Queued
<1>5. taken \in Seq(Commands) /\ InOrder(taken) /\ Before(Range(taken), {Head(queue)})
  BY <1>4, Zenon DEF OrderInv, Before, Taken
<1>6. taken' \in Seq(Commands) /\ InOrder(taken') /\ Taken' = Taken \cup {Head(queue)}
  BY <1>1, <1>4, <1>5, OrderedAppend, Zenon DEF Taken
<1>7. /\ Before(Taken', Queued' \cup Batch' \cup Remote')
      /\ Before(Queued', Batch' \cup Remote') /\ Before(Batch', Remote')
  BY <1>2, <1>4, <1>6, Zenon DEF OrderInv, Before
<1> QED
  BY <1>1, <1>2, <1>4, <1>6, <1>7, ZenonT(60) DEF OrderInv

(* Every step of the client keeps the order. *)
LEMMA OrderStep == OrderInv /\ [Next]_vars => OrderInv'
<1> SUFFICES ASSUME OrderInv, [Next]_vars PROVE OrderInv'
  BY Zenon
<1>l. LeaseInv'
  BY LeaseStep, Zenon DEF OrderInv
<1>1. CASE Poller
  <2> USE DEF historyVars
  <2>1. CASE PollerStop \/ QueueFull \/ StartPoll \/ WaitEnds \/ PollFails \/ CountEnqueued
    BY <1>l, <2>1, OrderQuiet, Zenon
       DEF PollerStop, QueueFull, StartPoll, WaitEnds, PollFails, CountEnqueued
  <2>2. CASE BeginEnqueue
    BY <1>l, <2>2, OrderQuiet, Zenon DEF BeginEnqueue
  <2>3. CASE RefuseEnqueue \/ SendCancelled
    BY <1>l, <2>3, DropOrder, Zenon DEF RefuseEnqueue, SendCancelled
  <2> QED
    BY <1>1, <1>l, <2>1, <2>2, <2>3, PollOrder, SkipOrder, SendOrder, ZenonT(30) DEF Poller
<1>2. CASE Listener
  <2>1. CASE CountDequeued \/ Submit \/ SubmitFails \/ ListenerStop \/ ReleasePool
    BY <1>l, <2>1, OrderQuiet, Zenon
       DEF CountDequeued, Submit, SubmitFails, ListenerStop, ReleasePool, ListenerOnly,
           pollerVars, historyVars
  <2> QED
    BY <1>2, <1>l, <2>1, ReceiveOrder, Zenon DEF Listener
<1>3. ASSUME NEW c \in Commands, BeginProcess(c) \/ EndProcess(c) PROVE OrderInv'
  BY <1>l, <1>3, OrderQuiet, Zenon DEF BeginProcess, EndProcess, pollerVars, historyVars
<1>4. CASE BeginStop \/ StopHookReturns \/ StopBudgetExpires
  BY <1>l, <1>4, OrderQuiet, Zenon DEF BeginStop, StopHookReturns, StopBudgetExpires, pollerVars, historyVars
<1>5. CASE UNCHANGED vars
  BY <1>l, <1>5, OrderQuiet, Zenon DEF vars, pollerVars, historyVars
<1> QED
  BY <1>1, <1>2, <1>3, <1>4, <1>5, Zenon DEF Next, Exited

(* What is on the way is one ordered sequence. *)
LEMMA OrderIsConserved == OrderInv => ConservedInOrder
<1> SUFFICES ASSUME OrderInv PROVE ConservedInOrder
  BY Zenon
<1>1. /\ taken \in Seq(Commands) /\ queue \in Seq(Commands)
      /\ batch \in Seq(Commands) /\ remote \in Seq(Commands)
      /\ InOrder(taken) /\ InOrder(queue) /\ InOrder(batch) /\ InOrder(remote)
  BY Zenon DEF OrderInv, LeaseInv, ResidentInv
<1>2. PICK s : s = taken \o queue
  BY Zenon
<1>3. Before(Range(taken), Range(queue))
  BY Zenon DEF OrderInv, Before, Taken, Queued
<1>4. s \in Seq(Commands) /\ InOrder(s) /\ Range(s) = Taken \cup Queued
  BY <1>1, <1>2, <1>3, OrderedConcat, Zenon DEF Taken, Queued
<1>5. PICK t : t = s \o batch
  BY Zenon
<1>6. Before(Range(s), Range(batch))
  BY <1>4, Zenon DEF OrderInv, Before, Batch
<1>7. t \in Seq(Commands) /\ InOrder(t) /\ Range(t) = Taken \cup Queued \cup Batch
  BY <1>1, <1>4, <1>5, <1>6, OrderedConcat, ZenonT(30) DEF Batch
<1>8. Before(Range(t), Range(remote))
  BY <1>7, Zenon DEF OrderInv, Before, Remote
<1>9. Path = t \o remote
  BY <1>2, <1>5, Zenon DEF Path
<1>10. InOrder(Path) /\ Range(Path) = Taken \cup Queued \cup Batch \cup Remote
  BY <1>1, <1>7, <1>8, <1>9, OrderedConcat, Zenon DEF Remote
<1> QED
  BY <1>10, Zenon DEF OrderInv, ConservedInOrder, Taken, Queued

\* The inductive invariant of the counters.
HealthInv ==
    /\ LeaseInv
    /\ enqueued \in Nat /\ dequeued \in Nat
    /\ HealthIsExact

(* A worker or the listener runs only commands, finitely many. *)
LEMMA RunningIsFinite ==
    ASSUME LeaseInv
    PROVE  running \subseteq Commands /\ IsFiniteSet(running) /\ Cardinality(running) \in Nat
<1>1. running \subseteq Commands
  BY Zenon DEF LeaseInv, ResidentInv, Assigned
<1>2. IsFiniteSet(running)
  BY <1>1, PipelineAssumption, FS_Subset, Zenon
<1> QED
  BY <1>1, <1>2, FS_CardinalityType, Zenon

(* A step that observes and runs nothing. *)
LEMMA HealthQuiet ==
    ASSUME HealthInv, LeaseInv', UNCHANGED <<queue, enqueued, dequeued, active, running>>,
           pollerPC' = "countEnqueued" <=> pollerPC = "countEnqueued",
           listenerPC' = "countDequeued" <=> listenerPC = "countDequeued"
    PROVE  HealthInv'
BY Zenon DEF HealthInv, HealthIsExact

(* Every step of the client keeps the counters exact. *)
LEMMA HealthStep == HealthInv /\ [Next]_vars => HealthInv'
<1> SUFFICES ASSUME HealthInv, [Next]_vars PROVE HealthInv'
  BY Zenon
<1>l. LeaseInv /\ LeaseInv'
  BY LeaseStep, Zenon DEF HealthInv
<1>t. /\ enqueued \in Nat /\ dequeued \in Nat /\ queue \in Seq(Commands) /\ batch \in Seq(Commands)
      /\ Len(queue) \in Nat
  BY <1>l DEF HealthInv, LeaseInv, ResidentInv
<1>1. CASE Poller
  <2> USE DEF PollerOnly, listenerVars, activityVars
  <2>1. CASE PollerStop \/ QueueFull \/ StartPoll \/ WaitEnds \/ PollFails
             \/ SkipUntyped \/ BeginEnqueue \/ RefuseEnqueue \/ SendCancelled
    BY <1>l, <2>1, HealthQuiet, ZenonT(60)
       DEF PollerStop, QueueFull, StartPoll, WaitEnds, PollFails, SkipUntyped, BeginEnqueue,
           RefuseEnqueue, SendCancelled, DropBatch
  <2>2. ASSUME NEW n \in 0..Len(remote), PollReturns(n) PROVE HealthInv'
    <3>1. /\ UNCHANGED <<queue, enqueued, dequeued, active, running, listenerPC>>
          /\ pollerPC = "polling" /\ pollerPC' \in {"top", "enqueue"}
      BY <2>2, Zenon DEF PollReturns
    <3> QED
      BY <1>l, <3>1, HealthQuiet, Zenon
  <2>3. CASE Send
    <3>1. Len(queue') = Len(queue) + 1
      <4>1. batch # <<>>
        BY <1>l, <2>3, Zenon DEF LeaseInv, ResidentInv, Send
      <4>2. Head(batch) \in Commands
        BY <1>t, <4>1
      <4> QED
        BY <1>t, <2>3, <4>2 DEF Send
    <3>2. /\ pollerPC = "send" /\ pollerPC' = "countEnqueued"
          /\ UNCHANGED <<enqueued, dequeued, active, running, listenerPC>>
      BY <2>3, Zenon DEF Send
    <3> QED
      BY <1>l, <1>t, <3>1, <3>2 DEF HealthInv, HealthIsExact
  <2>4. CASE CountEnqueued
    <3>1. /\ pollerPC = "countEnqueued" /\ pollerPC' # "countEnqueued" /\ enqueued' = enqueued + 1
          /\ UNCHANGED <<queue, dequeued, active, running, listenerPC>>
      BY <2>4, Zenon DEF CountEnqueued
    <3> QED
      BY <1>l, <1>t, <3>1 DEF HealthInv, HealthIsExact
  <2> QED
    BY <1>1, <2>1, <2>2, <2>3, <2>4, Zenon DEF Poller
<1>2. CASE Listener
  <2> USE DEF ListenerOnly, pollerVars, activityVars
  <2>1. CASE Submit \/ SubmitFails \/ ListenerStop \/ ReleasePool
    BY <1>l, <2>1, HealthQuiet, Zenon DEF Submit, SubmitFails, ListenerStop, ReleasePool
  <2>2. CASE Receive
    <3>1. Len(queue') = Len(queue) - 1
      BY <1>t, <2>2 DEF Receive
    <3>2. /\ listenerPC = "select" /\ listenerPC' = "countDequeued"
          /\ UNCHANGED <<enqueued, dequeued, active, running, pollerPC>>
      BY <2>2, Zenon DEF Receive
    <3> QED
      BY <1>l, <1>t, <3>1, <3>2 DEF HealthInv, HealthIsExact
  <2>3. CASE CountDequeued
    <3>1. /\ listenerPC = "countDequeued" /\ listenerPC' = "submit" /\ dequeued' = dequeued + 1
          /\ UNCHANGED <<queue, enqueued, active, running, pollerPC>>
      BY <2>3, Zenon DEF CountDequeued
    <3> QED
      BY <1>l, <1>t, <3>1 DEF HealthInv, HealthIsExact
  <2> QED
    BY <1>2, <2>1, <2>2, <2>3, Zenon DEF Listener
<1>3. ASSUME NEW c \in Commands, BeginProcess(c) PROVE HealthInv'
  <2>1. /\ c \notin running /\ active' = active + 1 /\ running' = running \cup {c}
        /\ UNCHANGED <<queue, enqueued, dequeued, pollerPC, listenerPC>>
    BY <1>3, Zenon DEF BeginProcess, begin, pollerVars, listenerVars
  <2>2. Cardinality(running \cup {c}) = Cardinality(running) + 1
    BY <1>l, <2>1, RunningIsFinite, FS_AddElement, Zenon
  <2> QED
    BY <1>l, <2>1, <2>2, Zenon DEF HealthInv, HealthIsExact
<1>4. ASSUME NEW c \in Commands, EndProcess(c) PROVE HealthInv'
  <2>1. /\ c \in running /\ running' = running \ {c}
        /\ active' = IF active > 0 THEN active - 1 ELSE active
        /\ UNCHANGED <<queue, enqueued, dequeued, pollerPC>>
    BY <1>4, Zenon DEF EndProcess, finish, pollerVars
  <2>2. listenerPC' = listenerPC \/ (listenerPC = "inline" /\ listenerPC' = "select")
    <3>1. CASE c \in pool
      BY <1>4, <3>1, Zenon DEF EndProcess, listenerVars
    <3>2. CASE c \notin pool
      BY <1>4, <1>l, <2>1, <3>2, Zenon DEF EndProcess, LeaseInv, Assigned
    <3> QED
      BY <3>1, <3>2, Zenon
  <2>3. Cardinality(running \ {c}) = Cardinality(running) - 1
    BY <1>l, <2>1, RunningIsFinite, FS_RemoveElement, Zenon
  <2>4. Cardinality(running) \in Nat /\ Cardinality(running \ {c}) \in Nat
    BY <1>l, RunningIsFinite, FS_RemoveElement, FS_CardinalityType, ZenonT(60)
  <2>5. active' = Cardinality(running')
    BY <2>1, <2>3, <2>4 DEF HealthInv, HealthIsExact
  <2>6. listenerPC' = "countDequeued" <=> listenerPC = "countDequeued"
    BY <2>2, Zenon
  <2> QED
    BY <1>l, <2>1, <2>5, <2>6, ZenonT(30) DEF HealthInv, HealthIsExact
<1>5. CASE BeginStop \/ StopHookReturns \/ StopBudgetExpires
  BY <1>l, <1>5, HealthQuiet, Zenon
     DEF BeginStop, StopHookReturns, StopBudgetExpires, pollerVars, listenerVars, activityVars
<1>6. CASE UNCHANGED vars
  BY <1>l, <1>6, HealthQuiet, Zenon DEF vars, pollerVars, listenerVars, activityVars
<1> QED
  BY <1>1, <1>2, <1>3, <1>4, <1>5, <1>6, Zenon DEF Next, Exited

(* No command that was polled is lost, duplicated or overtaken inside the
   client, and the health counters say what is there, whatever the sizes of
   batch, queue and pool and however many commands there are. *)
THEOREM ConservedAndCountedThm == Spec => []ConservedAndCounted
<1>1. Init => HealthInv
  <2>1. Init => LeaseInv
    BY LeaseInit, Zenon
  <2> QED
    BY <2>1, FS_EmptySet DEF Init, HealthInv, HealthIsExact
<1>2. OrderInv /\ HealthInv => ConservedAndCounted
  BY OrderIsConserved, Zenon DEF HealthInv, ConservedAndCounted
<1> QED
  BY <1>1, <1>2, OrderInit, OrderStep, HealthStep, PTL DEF Spec


-----------------------------------------------------------------------------
(* Every step of the pipeline is a step of CommandLeases.                  *)

(* The phase of a command is its place. *)
LEMMA PhaseIsPlace ==
    ASSUME LeaseInv, NEW c \in Commands
    PROVE  /\ PhaseOf(c) = "remote" <=> c \in Remote
           /\ PhaseOf(c) = "processed" <=> c \in processed
           /\ PhaseOf(c) = "resident" <=> c \in Batch \cup Queued \cup {held} \cup pool
BY Zenon DEF LeaseInv, Apart, PhaseOf, Remote, Batch, Queued

(* What a step does to each command, it does to the phases. *)
LEMMA PhasesBecome ==
    ASSUME NEW S, NEW p,
           \A c \in Commands : PhaseOf(c)' = IF c \in S THEN p ELSE PhaseOf(c)
    PROVE  Leases!Become(S, p)
BY Zenon DEF Leases!Become

(* A step that moves no command from one phase to another is invisible. *)
LEMMA PhasesStay ==
    ASSUME UNCHANGED lifecycle, \A c \in Commands : PhaseOf(c)' = PhaseOf(c)
    PROVE  UNCHANGED Leases!leaseVars
BY Zenon DEF Leases!leaseVars, PollerCancelled

\* The phases, read from the named places.
PlacedBy(c, R, D, I) ==
    IF c \in R THEN "remote"
    ELSE IF c \in D THEN "processed"
    ELSE IF c \in I THEN "resident"
    ELSE "discarded"

InClient == Batch \cup Queued \cup {held} \cup pool

(* PhaseOf reads the places, before a step and after it. *)
LEMMA PhaseReadsPlaces ==
    \A c \in Commands : /\ PhaseOf(c) = PlacedBy(c, Remote, processed, InClient)
                        /\ PhaseOf(c)' = PlacedBy(c, Remote', processed', InClient')
BY Zenon DEF PhaseOf, PlacedBy, InClient, Remote, Batch, Queued

(* A step that takes nothing into the client, settles nothing and lets nothing
   go is invisible; held being NoCommand adds no command to the client. *)
LEMMA QuietStep ==
    ASSUME UNCHANGED lifecycle, UNCHANGED Remote, UNCHANGED processed,
           \A c \in Commands : c \in InClient' <=> c \in InClient
    PROVE  UNCHANGED Leases!leaseVars
<1>1. \A c \in Commands : PhaseOf(c)' = PhaseOf(c)
  BY PhaseReadsPlaces, Zenon DEF PlacedBy
<1> QED
  BY <1>1, PhasesStay, Zenon

(* The commands of the client are at most as many as the queue, the pool and
   the hand of the listener hold, when the batch is empty. *)
LEMMA ClientSize ==
    ASSUME LeaseInv, Batch = {}
    PROVE  /\ IsFiniteSet(Leases!InPhase("resident"))
           /\ Cardinality(Leases!InPhase("resident")) \in Nat
           /\ Cardinality(Leases!InPhase("resident")) <= Len(queue) + 1 + MaxConcurrent
<1> DEFINE R == Leases!InPhase("resident")
<1>1. R \subseteq (Queued \cup pool) \cup {held}
  BY PhaseIsPlace, Zenon DEF Leases!InPhase
<1>2. /\ IsFiniteSet(Queued) /\ Cardinality(Queued) \in Nat
      /\ Cardinality(Queued) <= Len(queue) /\ Len(queue) \in Nat
  BY SetSize DEF LeaseInv, ResidentInv, Queued
<1>3. IsFiniteSet(pool) /\ Cardinality(pool) \in Nat /\ Cardinality(pool) <= MaxConcurrent
  BY PipelineAssumption, FS_Subset, FS_CardinalityType, Zenon DEF LeaseInv, ResidentInv
<1>4. MaxConcurrent \in Nat
  BY PipelineAssumption, Zenon
<1> HIDE DEF R
<1>5. /\ IsFiniteSet(Queued \cup pool) /\ Cardinality(Queued \cup pool) \in Nat
      /\ Cardinality(Queued \cup pool) <= Cardinality(Queued) + Cardinality(pool)
  <2>1. /\ IsFiniteSet(Queued \cup pool) /\ IsFiniteSet(Queued \cap pool)
        /\ Cardinality(Queued \cup pool) =
               Cardinality(Queued) + Cardinality(pool) - Cardinality(Queued \cap pool)
    BY <1>2, <1>3, FS_Union, FS_Intersection, ZenonT(30)
  <2>2. Cardinality(Queued \cap pool) \in Nat /\ Cardinality(Queued \cup pool) \in Nat
    BY <2>1, FS_CardinalityType, Zenon
  <2> QED
    BY <1>2, <1>3, <2>1, <2>2
<1>6. /\ IsFiniteSet((Queued \cup pool) \cup {held})
      /\ Cardinality((Queued \cup pool) \cup {held}) \in Nat
      /\ Cardinality((Queued \cup pool) \cup {held}) <= Cardinality(Queued \cup pool) + 1
  BY <1>5, PoolSize, FS_AddElement, Zenon
<1>7. /\ IsFiniteSet(R) /\ Cardinality(R) \in Nat
      /\ Cardinality(R) <= Cardinality((Queued \cup pool) \cup {held})
  BY <1>1, <1>6, FS_Subset, FS_CardinalityType, ZenonT(30)
<1>8. Cardinality(R) \in Nat /\ Cardinality(R) <= Len(queue) + 1 + MaxConcurrent
  BY <1>2, <1>3, <1>4, <1>5, <1>6, <1>7
<1> QED
  BY <1>7, <1>8, Zenon DEF R

(* CommandLeases counts with the cardinality of this module. *)
LEMMA SameCardinality == \A S : Leases!Cardinality(S) = Cardinality(S)
BY Zenon DEF Leases!Cardinality, Leases!IsFiniteSet, Cardinality, IsFiniteSet

(* A poll leases its batch, within the bound. *)
LEMMA PollLeases ==
    ASSUME LeaseInv, ResidentInv', NEW n \in 0..Len(remote), PollReturns(n)
    PROVE  \E S \in SUBSET Commands : Leases!Lease(S)
<1>1. /\ UNCHANGED queue /\ Batch = {}
      /\ Remote = Remote' \cup Batch' /\ Remote' \cap Batch' = {}
      /\ batch' \in Seq(Commands) /\ Len(batch') = n
  BY PollMoves, Zenon
<1>2. UNCHANGED <<held, pool, processed, lifecycle>>
  BY Zenon DEF PollReturns, PollerOnly, listenerVars, historyVars
<1>3. Queued' = Queued
  BY <1>1, Zenon DEF Queued
<1>4. Remote \subseteq Commands
  BY PlacesAreCommands, Zenon DEF LeaseInv
<1>5. Batch' \subseteq Leases!InPhase("remote")
  BY <1>1, <1>4, PhaseIsPlace, Zenon DEF Leases!InPhase
<1>6. Leases!Become(Batch', "resident")
  <2>1. InClient' = InClient \cup Batch'
    BY <1>1, <1>2, <1>3, Zenon DEF InClient
  <2>2. Remote \cap processed = {}
    BY Zenon DEF LeaseInv, Apart
  <2>3. \A c \in Commands : PhaseOf(c)' = IF c \in Batch' THEN "resident" ELSE PhaseOf(c)
    BY <1>1, <1>2, <2>1, <2>2, PhaseReadsPlaces, ZenonT(30) DEF PlacedBy
  <2> QED
    BY <2>3, PhasesBecome
<1>7. Cardinality(Batch') + Cardinality(Leases!InPhase("resident"))
          <= MaxConcurrent + QueueCapacity + 1 + Overflow
  <2>1. Cardinality(Batch') \in Nat /\ Cardinality(Batch') <= n
    BY <1>1, SetSize, Zenon DEF Batch
  <2>2. /\ Cardinality(Leases!InPhase("resident")) \in Nat
        /\ Cardinality(Leases!InPhase("resident")) <= Len(queue) + 1 + MaxConcurrent
    BY <1>1, ClientSize, Zenon
  <2>3. n \in Nat /\ Len(queue) \in Nat /\ n + Len(queue) <= QueueCapacity + Overflow
    BY <1>1 DEF LeaseInv, ResidentInv
  <2>4. QueueCapacity \in Nat /\ Overflow \in Nat /\ MaxConcurrent \in Nat
    BY PipelineAssumption, Zenon
  <2> QED
    BY <2>1, <2>2, <2>3, <2>4
<1>8. UNCHANGED PollerCancelled
  BY <1>2, Zenon DEF PollerCancelled
<1>9. PICK S : S = Batch'
  BY Zenon
<1>10. Leases!Lease(S)
  BY <1>5, <1>6, <1>7, <1>8, <1>9, SameCardinality, ZenonT(60) DEF Leases!Lease
<1>11. S \in SUBSET Commands
  BY <1>1, <1>4, <1>9, Zenon
<1> QED
  BY <1>10, <1>11, Zenon

(* A step that takes commands out of the batch, and only that, discards them. *)
LEMMA BatchDiscards ==
    ASSUME LeaseInv, NEW S, S \subseteq Batch, Batch' = Batch \ S,
           UNCHANGED <<remote, queue, held, pool, processed, lifecycle>>,
           S \subseteq Untyped \/ PollerCancelled
    PROVE  \E T \in SUBSET Commands : Leases!Discard(T)
<1>1. UNCHANGED Remote /\ UNCHANGED Queued
  BY Zenon DEF Remote, Queued
<1>2. Batch \subseteq Commands
  BY PlacesAreCommands, Zenon DEF LeaseInv
<1>3. S \subseteq Leases!InPhase("resident")
  BY <1>2, PhaseIsPlace, Zenon DEF Leases!InPhase
<1>4. S \cap (Remote \cup processed \cup Queued \cup {held} \cup pool) = {}
  BY Zenon DEF LeaseInv, Apart
<1>5. /\ \A c \in Commands : c \in InClient' <=> c \in InClient /\ c \notin S
      /\ S \cap Remote = {} /\ S \cap processed = {}
  BY <1>1, <1>4, Zenon DEF InClient
<1>6. ASSUME NEW c \in Commands
      PROVE  PhaseOf(c)' = IF c \in S THEN "discarded" ELSE PhaseOf(c)
  <2>1. /\ PhaseOf(c) = PlacedBy(c, Remote, processed, InClient)
        /\ PhaseOf(c)' = PlacedBy(c, Remote, processed, InClient')
    BY <1>1, PhaseReadsPlaces, Zenon
  <2> QED
    BY <1>5, <2>1, Zenon DEF PlacedBy
<1>7. Leases!Become(S, "discarded")
  BY <1>6, PhasesBecome
<1>8. Leases!Discard(S)
  BY <1>3, <1>7, Zenon DEF Leases!Discard, PollerCancelled
<1> QED
  BY <1>2, <1>8, Zenon

(* The end of the processing of a command settles it. *)
LEMMA EndSettles ==
    ASSUME LeaseInv, NEW c \in Commands, EndProcess(c)
    PROVE  Leases!Process(c)
<1>1. /\ UNCHANGED <<Remote, Batch, Queued>>
      /\ processed' = processed \cup {c} /\ pool' = pool \ {c}
      /\ \/ c \in pool /\ UNCHANGED held
         \/ c = held /\ c \notin pool /\ held' = NoCommand
  BY EndMoves, Zenon
<1>2. c \in InClient /\ c \notin Remote
  BY <1>1, Zenon DEF InClient, LeaseInv, Apart
<1>3. \A d \in Commands : d # c => (d \in InClient' <=> d \in InClient)
  BY <1>1, PipelineAssumption, Zenon DEF InClient
<1>4. \A d \in Commands : PhaseOf(d)' = IF d \in {c} THEN "processed" ELSE PhaseOf(d)
  BY <1>1, <1>2, <1>3, PhaseReadsPlaces, ZenonT(30) DEF PlacedBy
<1>5. Leases!Become({c}, "processed")
  BY <1>4, PhasesBecome, Zenon
<1>6. c \in Leases!InPhase("resident")
  BY <1>2, PhaseIsPlace, Zenon DEF Leases!InPhase, InClient
<1>7. UNCHANGED PollerCancelled
  BY Zenon DEF EndProcess, PollerCancelled
<1> QED
  BY <1>5, <1>6, <1>7, Zenon DEF Leases!Process

(* Each step of the poller leases, discards or is invisible. *)
LEMMA PollerSimulates ==
    ASSUME LeaseInv, ResidentInv', Poller
    PROVE  [Leases!Next]_(Leases!leaseVars)
<1>q. UNCHANGED <<held, pool, processed, lifecycle>>
  BY Zenon DEF Poller, PollerStop, QueueFull, StartPoll, WaitEnds, PollFails, PollReturns, SkipUntyped,
         BeginEnqueue, RefuseEnqueue, Send, SendCancelled, DropBatch, CountEnqueued, PollerOnly,
         listenerVars, historyVars
<1>1. CASE PollerStop \/ QueueFull \/ StartPoll \/ WaitEnds \/ PollFails \/ BeginEnqueue
           \/ CountEnqueued
  <2>1. UNCHANGED <<remote, batch, queue>>
    BY <1>1, Zenon DEF PollerStop, QueueFull, StartPoll, WaitEnds, PollFails, BeginEnqueue, CountEnqueued
  <2>2. UNCHANGED Remote /\ UNCHANGED InClient
    BY <1>q, <2>1, Zenon DEF Remote, InClient, Batch, Queued
  <2> QED
    BY <1>q, <2>2, QuietStep, Zenon
<1>2. ASSUME NEW n \in 0..Len(remote), PollReturns(n)
      PROVE  Leases!Next
  BY <1>2, PollLeases, Zenon DEF Leases!Next
<1>3. CASE SkipUntyped
  <2>1. /\ pollerPC = "enqueue" /\ batch' = Tail(batch) /\ UNCHANGED <<remote, queue>>
        /\ Head(batch) \in Untyped
    BY <1>3, Zenon DEF SkipUntyped, Typed
  <2>2. Batch = {Head(batch)} \cup Batch' /\ Head(batch) \notin Batch'
    BY <2>1, BatchHead, Zenon
  <2>3. PICK S : S = {Head(batch)}
    BY ZenonT(30)
  <2>4. S \subseteq Batch /\ Batch' = Batch \ S /\ S \subseteq Untyped
    BY <2>1, <2>2, <2>3, Zenon
  <2>5. UNCHANGED <<remote, queue, held, pool, processed, lifecycle>>
    BY <1>q, <2>1, Zenon
  <2>6. \E T \in SUBSET Commands : Leases!Discard(T)
    BY <2>4, <2>5, BatchDiscards, Zenon
  <2> QED
    BY <2>6, Zenon DEF Leases!Next
<1>4. CASE RefuseEnqueue \/ SendCancelled
  <2>1. batch' = <<>> /\ UNCHANGED <<remote, queue>> /\ PollerCancelled
    BY <1>4, Zenon DEF RefuseEnqueue, SendCancelled, DropBatch
  <2>2. Batch' = Batch \ Batch /\ Batch \subseteq Batch
    BY <2>1 DEF Batch, Range
  <2>3. \E T \in SUBSET Commands : Leases!Discard(T)
    BY <1>q, <2>1, <2>2, BatchDiscards, ZenonT(60)
  <2> QED
    BY <2>3, Zenon DEF Leases!Next
<1>5. CASE Send
  <2>1. /\ pollerPC = "send" /\ batch' = Tail(batch) /\ UNCHANGED remote
        /\ queue' = Append(queue, Head(batch))
    BY <1>5, Zenon DEF Send
  <2>2. /\ Head(batch) \in Commands
        /\ Batch = {Head(batch)} \cup Batch' /\ Head(batch) \notin Batch'
    BY <2>1, BatchHead, Zenon
  <2>3. /\ queue \in Seq(Commands) /\ IsInjective(queue) /\ Head(batch) \notin Range(queue)
    BY <2>2, Zenon DEF LeaseInv, ResidentInv, Apart, Queued
  <2>4. Queued' = Queued \cup {Head(batch)}
    BY <2>1, <2>2, <2>3, AppendJoins, ZenonT(30) DEF Queued
  <2>5. UNCHANGED Remote /\ UNCHANGED InClient
    BY <1>q, <2>1, <2>2, <2>4, Zenon DEF Remote, InClient
  <2> QED
    BY <1>q, <2>5, QuietStep, Zenon
<1> QED
  BY <1>1, <1>2, <1>3, <1>4, <1>5, Zenon DEF Poller

(* The listener only moves commands inside the client. *)
LEMMA ListenerSimulates ==
    ASSUME LeaseInv, Listener
    PROVE  UNCHANGED Leases!leaseVars
<1>q. UNCHANGED <<Remote, Batch>> /\ UNCHANGED <<processed, lifecycle>>
  BY Zenon DEF Listener, Receive, CountDequeued, Submit, SubmitFails, ListenerStop, ReleasePool,
         ListenerOnly, pollerVars, historyVars, Remote, Batch
<1>1. CASE Receive
  <2>1. held = NoCommand /\ held' = Head(queue) /\ UNCHANGED pool
    BY <1>1, Zenon DEF Receive, LeaseInv
  <2>2. Queued = {Head(queue)} \cup Queued'
    BY <1>1, QueueHead, Zenon
  <2>3. \A c \in Commands : c \in InClient' <=> c \in InClient
    BY <1>q, <2>1, <2>2, PipelineAssumption, ZenonT(60) DEF InClient
  <2> QED
    BY <1>q, <2>3, QuietStep, Zenon
<1>2. CASE Submit
  <2>1. held' = NoCommand /\ pool' = pool \cup {held} /\ UNCHANGED queue
    BY <1>2, Zenon DEF Submit
  <2>2. UNCHANGED Queued
    BY <2>1, Zenon DEF Queued
  <2>3. \A c \in Commands : c \in InClient' <=> c \in InClient
    BY <1>q, <2>1, <2>2, PipelineAssumption, ZenonT(30) DEF InClient
  <2> QED
    BY <1>q, <2>3, QuietStep, Zenon
<1>3. CASE CountDequeued \/ SubmitFails \/ ListenerStop \/ ReleasePool
  <2>1. UNCHANGED <<held, pool, queue>>
    BY <1>3, Zenon DEF CountDequeued, SubmitFails, ListenerStop, ReleasePool
  <2>2. UNCHANGED InClient
    BY <1>q, <2>1, Zenon DEF InClient, Queued
  <2> QED
    BY <1>q, <2>2, QuietStep, Zenon
<1> QED
  BY <1>1, <1>2, <1>3, Zenon DEF Listener

(* Every step of the client is a step of CommandLeases, or leaves its state. *)
LEMMA StepSimulates ==
    ASSUME LeaseInv, ResidentInv', [Next]_vars
    PROVE  [Leases!Next]_(Leases!leaseVars)
<1>1. CASE Poller
  BY <1>1, PollerSimulates, Zenon
<1>2. CASE Listener
  BY <1>2, ListenerSimulates, Zenon
<1>3. ASSUME NEW c \in Commands, EndProcess(c)
      PROVE  Leases!Next
  BY <1>3, EndSettles, Zenon DEF Leases!Next
<1>4. ASSUME UNCHANGED <<remote, batch, queue, held, pool, processed>>
      PROVE  /\ \A c \in Commands : PhaseOf(c)' = PhaseOf(c)
             /\ UNCHANGED lifecycle => UNCHANGED Leases!leaseVars
  <2>1. UNCHANGED Remote /\ UNCHANGED InClient
    BY <1>4, Zenon DEF Remote, InClient, Batch, Queued
  <2>2. \A c \in Commands : PhaseOf(c)' = PhaseOf(c)
    BY <1>4, <2>1, PhaseReadsPlaces, Zenon
  <2> QED
    BY <2>2, PhasesStay, Zenon
<1>5. CASE \E c \in Commands : BeginProcess(c)
  <2>1. UNCHANGED <<remote, batch, queue, held, pool, processed, lifecycle>>
    BY <1>5, Zenon DEF BeginProcess, pollerVars, listenerVars, historyVars
  <2> QED
    BY <1>4, <2>1, Zenon
<1>6. CASE BeginStop
  <2>1. UNCHANGED <<remote, batch, queue, held, pool, processed>> /\ PollerCancelled' = TRUE
    BY <1>6, Zenon DEF BeginStop, pollerVars, listenerVars, historyVars, PollerCancelled
  <2>2. Leases!Stop
    BY <1>4, <2>1, Zenon DEF Leases!Stop
  <2> QED
    BY <2>2, Zenon DEF Leases!Next
<1>7. CASE StopHookReturns \/ StopBudgetExpires
  <2>1. /\ UNCHANGED <<remote, batch, queue, held, pool, processed>>
        /\ PollerCancelled = TRUE /\ PollerCancelled' = TRUE
    BY <1>7, Zenon DEF StopHookReturns, StopBudgetExpires, pollerVars, listenerVars, historyVars,
                PollerCancelled
  <2>2. UNCHANGED Leases!leaseVars
    BY <1>4, <2>1, ZenonT(60) DEF Leases!leaseVars
  <2> QED
    BY <2>2, Zenon
<1>8. CASE UNCHANGED vars
  <2>1. UNCHANGED <<remote, batch, queue, held, pool, processed, lifecycle>>
    BY <1>8, Zenon DEF vars, pollerVars, listenerVars, historyVars
  <2> QED
    BY <1>4, <2>1, Zenon
<1> QED
  BY <1>1, <1>2, <1>3, <1>5, <1>6, <1>7, <1>8, ZenonT(30) DEF Next, Exited

(* The safety part of CommandLeases: what the pipeline implements step by step,
   without the promise that a leased command does not linger. *)
LeasesSafety == Leases!Init /\ [][Leases!Next]_(Leases!leaseVars)

(* Whatever the sizes of queue, pool and batch: a command is leased once and
   within the bound, it is settled at most once, only an untyped one is
   discarded before a shutdown, and a command on its way from the poll to a
   worker is never anywhere else. *)
THEOREM LeasesSafetyThm == Spec => LeasesSafety
<1>1. Init => Leases!Init
  <2> SUFFICES ASSUME Init PROVE Leases!Init
    BY Zenon
  <2>1. lifecycle = "running" /\ Remote = Commands
    BY PipelineAssumption, Zenon DEF Init, Remote
  <2>2. \A c \in Commands : PhaseOf(c) = "remote"
    BY <2>1, PhaseReadsPlaces, Zenon DEF PlacedBy
  <2>3. PollerCancelled = FALSE
    BY <2>1, Zenon DEF PollerCancelled
  <2> QED
    BY <2>2, <2>3, Zenon DEF Leases!Init
<1>2. LeaseInv /\ LeaseInv' /\ [Next]_vars => [Leases!Next]_(Leases!leaseVars)
  BY StepSimulates, Zenon DEF LeaseInv
<1> QED
  BY <1>1, <1>2, LeaseInvariant, PTL DEF Spec, LeasesSafety

-----------------------------------------------------------------------------
(* What a shutdown leaves in the queue.                                    *)

\* The order of the OnStop hooks: the listener's context is cancelled only
\* when the poller has returned, and the listener leaves its loop only then,
\* or when the stop budget has ended the process.
StopOrder ==
    /\ lifecycle = "stopListener" => pollerPC = "stopped"
    /\ listenerPC \in {"releasing", "stopped"} => lifecycle \in {"stopListener", "exited"}

(* The hooks keep their order. *)
LEMMA StopOrderStep == StopOrder /\ [Next]_vars => StopOrder'
<1> SUFFICES ASSUME StopOrder, [Next]_vars
             PROVE  StopOrder'
  BY Zenon
<1> USE DEF StopOrder
<1>1. CASE Alive /\ Poller
  <2>1. pollerPC # "stopped" /\ UNCHANGED <<listenerPC, lifecycle>>
    BY <1>1, Zenon DEF Poller, PollerStop, QueueFull, StartPoll, WaitEnds, PollFails, PollReturns,
       SkipUntyped, BeginEnqueue, RefuseEnqueue, Send, SendCancelled, CountEnqueued,
       DropBatch, PollerOnly, listenerVars
  <2> QED
    BY <2>1, Zenon
<1>2. CASE Alive /\ Listener
  BY <1>2, Zenon DEF Listener, Receive, CountDequeued, Submit, SubmitFails, ListenerStop,
     ReleasePool, ListenerOnly, ListenerCancelled, pollerVars
<1>3. CASE \E c \in Commands : Alive /\ (BeginProcess(c) \/ EndProcess(c))
  BY <1>3, Zenon DEF BeginProcess, EndProcess, pollerVars, listenerVars
<1>4. CASE BeginStop \/ StopHookReturns \/ StopBudgetExpires
  BY <1>4, Zenon DEF BeginStop, StopHookReturns, StopBudgetExpires, pollerVars, listenerVars
<1>5. CASE Exited \/ UNCHANGED vars
  BY <1>5, Zenon DEF Exited, vars, pollerVars, listenerVars
<1> QED
  BY <1>1, <1>2, <1>3, <1>4, <1>5, ZenonT(30) DEF Next

(* Whatever the sizes of queue, pool and batch, no command enters the queue
   once the listener has left it (poller.Run, QueueListener.run and the order
   of their OnStop hooks). *)
THEOREM NothingQueuedBehindListenerThm == Spec => NothingQueuedBehindListener
<1>1. Init => StopOrder
  BY Zenon DEF Init, StopOrder
<1>2. ResidentInv /\ StopOrder /\ [Next]_vars => [QuietQueueStep]_vars
  <2> SUFFICES ASSUME ResidentInv, StopOrder, Next, listenerPC \in {"releasing", "stopped"}
               PROVE  Len(queue') <= Len(queue)
    BY Zenon DEF QuietQueueStep
  <2>1. Len(queue) \in Nat
    BY DEF ResidentInv
  <2>2. CASE Alive /\ Poller
    <3>1. pollerPC = "stopped"
      BY <2>2, Zenon DEF Alive, StopOrder
    <3> QED
      BY <2>2, <3>1, Zenon DEF Poller, PollerStop, QueueFull, StartPoll, WaitEnds, PollFails,
         PollReturns, SkipUntyped, BeginEnqueue, RefuseEnqueue, Send, SendCancelled,
         CountEnqueued
  <2>3. CASE Alive /\ Listener
    <3>1. queue' = queue
      BY <2>3, Zenon DEF Listener, Receive, CountDequeued, Submit, SubmitFails, ListenerStop,
         ReleasePool
    <3> QED
      BY <2>1, <3>1
  <2>4. CASE ~(Alive /\ Poller) /\ ~(Alive /\ Listener)
    <3>1. queue' = queue
      BY <2>4, Zenon DEF Next, BeginProcess, EndProcess, BeginStop, StopHookReturns,
         StopBudgetExpires, Exited, vars
    <3> QED
      BY <2>1, <3>1
  <2> QED
    BY <2>2, <2>3, <2>4, Zenon
<1> QED
  BY <1>1, <1>2, StopOrderStep, ResidentInvariant, PTL DEF Spec, NothingQueuedBehindListener

=============================================================================

------------------------ MODULE SharedStdioProofs ------------------------
(***************************************************************************)
(* What the shared stdio binding guarantees for any number of commands,    *)
(* callers' IDs, retired IDs and child generations, as long as the child   *)
(* answers only what it was asked: a command reads its own answer, and no  *)
(* legacy request reaches a child before its handshake is complete.        *)
(***************************************************************************)
EXTENDS SharedStdio, WellFoundedInduction, TLAPS

(* A set of naturals that is not empty has a least element. *)
LEMMA LeastOf ==
    ASSUME NEW S \in SUBSET Nat, S # {}
    PROVE  Min(S) \in S /\ \A y \in S : Min(S) <= y
<1> DEFINE R == OpToRel(<, Nat)
<1>1. \A x, y \in Nat : <<y, x>> \in R <=> y < x
  BY DEF OpToRel
<1>2. IsWellFoundedOn(R, Nat)
  BY NatLessThanWellFounded, Zenon
<1> HIDE DEF R
<1>3. \E x \in S : \A y \in S : ~(<<y, x>> \in R)
  <2>1. S \subseteq Nat
    OBVIOUS
  <2> QED
    BY <1>2, <2>1, WFMin, Zenon
<1>4. \E x \in S : \A y \in S : x <= y
  <2>1. PICK x \in S : \A y \in S : ~(<<y, x>> \in R)
    BY <1>3
  <2>2. ASSUME NEW y \in S PROVE x <= y
    <3>1. x \in Nat /\ y \in Nat
      OBVIOUS
    <3>2. ~(y < x)
      BY <1>1, <2>1, <3>1, Zenon
    <3> QED
      BY <3>1, <3>2
  <2> QED
    BY <2>2
<1> QED
  BY <1>4, Zenon DEF Min

Bounded(S) == \E n \in Nat : \A x \in S : x <= n

(* Adding a number to a bounded set, or taking away, leaves it bounded. *)
LEMMA StaysBounded ==
    /\ Bounded({})
    /\ \A S \in SUBSET Nat, x \in Nat : Bounded(S) => Bounded(S \cup {x})
    /\ \A S, T : Bounded(S) /\ T \subseteq S => Bounded(T)
<1>1. Bounded({})
  BY DEF Bounded
<1>2. ASSUME NEW S \in SUBSET Nat, NEW x \in Nat, Bounded(S) PROVE Bounded(S \cup {x})
  <2>1. PICK n \in Nat : \A y \in S : y <= n
    BY <1>2 DEF Bounded
  <2>2. n + x \in Nat /\ \A y \in S \cup {x} : y <= n + x
    BY <2>1
  <2> QED
    BY <2>2 DEF Bounded
<1>3. ASSUME NEW S, NEW T, Bounded(S), T \subseteq S PROVE Bounded(T)
  BY <1>3 DEF Bounded
<1> QED
  BY <1>1, <1>2, <1>3

(* One with an upper bound has a greatest element: the least upper bound. *)
LEMMA GreatestOf ==
    ASSUME NEW S \in SUBSET Nat, S # {}, Bounded(S)
    PROVE  Max(S) \in S /\ \A y \in S : y <= Max(S)
<1> DEFINE U == {n \in Nat : \A x \in S : x <= n}
           u == Min(U)
<1>1. U \in SUBSET Nat /\ U # {}
  BY DEF Bounded
<1>2. u \in U /\ \A y \in U : u <= y
  BY <1>1, LeastOf
<1>3. u \in Nat /\ \A x \in S : x <= u
  BY <1>2
<1>4. u \in S
  <2> SUFFICES ASSUME u \notin S PROVE FALSE
    OBVIOUS
  <2>1. PICK x \in S : TRUE
    BY Zenon
  <2>2. u - 1 \in Nat /\ \A y \in S : y <= u - 1
    <3> HIDE DEF u, U
    <3> QED
      BY <1>3, <2>1
  <2>3. u - 1 \in U
    BY <2>2
  <2> QED
    BY <1>2, <1>3, <2>3
<1> HIDE DEF u, U
<1>5. \E x \in S : \A y \in S : x >= y
  BY <1>3, <1>4
<1>6. Max(S) \in S /\ \A y \in S : Max(S) >= y
  BY <1>5, Zenon DEF Max
<1> QED
  BY <1>6

(* The ID a request is given on the wire is not retired, also if the
   caller's ID lies among the aliases. *)
LEMMA WireIDIsFree ==
    ASSUME retiredResponseIDs \subseteq Nat, Bounded(retiredResponseIDs),
           nextAliasedID \in Nat, NEW id \in Nat \ {0}
    PROVE  /\ wireResponseID(id).id \in Nat \ {0}
           /\ wireResponseID(id).id \notin retiredResponseIDs
           /\ wireResponseID(id).next \in Nat
<1>1. CASE id \notin retiredResponseIDs
  BY <1>1 DEF wireResponseID
<1>2. CASE id \in retiredResponseIDs
  <2> DEFINE top == Max(retiredResponseIDs)
             beyond == nextAliasedID + top + 1
             free == {n \in (nextAliasedID + 1)..beyond :
                        Alias(n) # id /\ Alias(n) \notin retiredResponseIDs}
  <2>1. top \in Nat /\ \A y \in retiredResponseIDs : y <= top
    BY <1>2, GreatestOf, Zenon
  <2>2. wireResponseID(id) = [id |-> Alias(Min(free)), next |-> Min(free)]
    BY <1>2 DEF wireResponseID
  <2> HIDE DEF top
  <2>3. free \in SUBSET Nat
    BY <2>1
  <2>4. beyond \in free
    BY <1>2, <2>1 DEF Alias, AliasBase
  <2>5. Min(free) \in free
    BY <2>3, <2>4, LeastOf
  <2>6. Alias(Min(free)) \notin retiredResponseIDs /\ Min(free) \in Nat
    BY <2>3, <2>5
  <2> HIDE DEF free
  <2> QED
    BY <2>2, <2>6 DEF Alias, AliasBase
<1> QED
  BY <1>1, <1>2

-----------------------------------------------------------------------------
(* The invariant.                                                          *)

\* The pipes are those of the child the transport has adopted.
Current == generation = gen /\ pipes

\* The responses on their way to the client.
Answers == {m \in Range(incoming) : m.from # NoCommand}

\* c waits for the response id, or has given up and not cleaned up yet.
Waiting(c) ==
    lockHeld[c] /\ writeCompleted[c] /\ pc[c] \in {"reading", "failing", "closing"}
Awaits(c, id) == Waiting(c) /\ expectedID[c] = id

\* No two responses on their way have the same ID.
Distinct(s) ==
    \A i, j \in DOMAIN s :
        s[i].from # NoCommand /\ s[j].from # NoCommand /\ s[i].id = s[j].id => i = j

\* What the child sends is a response, or of its own accord and without an ID.
Sound(s) ==
    \A m \in Range(s) : /\ m.from # NoCommand <=> m.type = "response"
                        /\ m.from = NoCommand => m.id = NoID

Kinds ==
    /\ lifecycleSlot \in BOOLEAN /\ pipes \in BOOLEAN
    /\ generation \in Nat /\ gen \in Nat
    /\ retiredResponseIDs \subseteq Nat /\ Bounded(retiredResponseIDs)
    /\ nextAliasedID \in Nat
    /\ initializeSucceeded \in BOOLEAN /\ initializationReady \in BOOLEAN
    /\ pc \in [Commands -> Places] /\ lockHeld \in [Commands -> BOOLEAN]
    /\ physicalGeneration \in [Commands -> Nat] /\ expectedID \in [Commands -> Nat]
    /\ writeCompleted \in [Commands -> BOOLEAN]
    /\ callerID \in [Commands -> IDs] /\ answer \in [Commands -> Commands \cup {NoCommand}]
    /\ outstanding \subseteq [from : Requests, id : Nat]
    /\ incoming \in Seq(Messages) /\ Sound(incoming)

\* How far c has got, and what its connection holds there.
Stage(c) ==
    /\ lockHeld[c] =>
          /\ physicalGeneration[c] = generation
          /\ pc[c] \in {"connected", "writing", "reading", "ensuring", "failing", "closing"}
    /\ pc[c] \in {"connected", "writing", "reading", "ensuring", "closing"} => lockHeld[c]
    /\ writeCompleted[c] =>
          /\ lockHeld[c] /\ pc[c] \in {"reading", "ensuring", "failing", "closing"}
          /\ expectedID[c] # NoID
    /\ pc[c] \in {"reading", "ensuring", "closing"} => writeCompleted[c]
    /\ pc[c] = "writing" /\ c \in Requests => expectedID[c] # NoID
    /\ physicalGeneration[c] <= gen
    /\ pc[c] = "adopting" => generation <= physicalGeneration[c]
    /\ lockHeld[c] \/ expectedID[c] = NoID

\* One command owns the slot.
Slot ==
    /\ lifecycleSlot <=> \E c \in Commands : Holds(c)
    /\ \A c, d \in Commands : Holds(c) /\ Holds(d) => c = d
    /\ generation <= gen
    /\ \A c \in Commands : Stage(c)

\* What is owed is expected or retired, and what is retired is owed.
Wire ==
    /\ pipes => active
    /\ ~Current => outstanding = {} /\ Answers = {}
    /\ \A r \in outstanding \cup Answers : r.id \in retiredResponseIDs \/ Awaits(r.from, r.id)
    /\ \A q, r \in outstanding : q.id = r.id => q = r
    /\ \A q \in outstanding, m \in Answers : q.id # m.id
    /\ Distinct(incoming)
    /\ Current => \A id \in retiredResponseIDs : \E r \in outstanding \cup Answers : r.id = id
    /\ NoID \notin retiredResponseIDs
    /\ \A c \in Commands : expectedID[c] \notin retiredResponseIDs
    /\ \A c \in Commands : Current /\ writeCompleted[c] /\ pc[c] \in {"reading", "failing"} =>
          \E r \in outstanding \cup Answers : r.from = c /\ r.id = expectedID[c]

\* What the transport believes of the handshake is true of the child, and a
\* request to start a new one is answered or its pipes are closed.
Ready ==
    /\ Current /\ initializeSucceeded => handshake \in {"answered", "ready"}
    /\ Current /\ initializationReady => handshake = "ready"
    /\ \A r \in outstanding \cup Answers : r.from \in Initializes =>
          Awaits(r.from, r.id) /\ ~initializeSucceeded /\ ~initializationReady
    /\ \A m \in Answers : m.from \in Initializes /\ m.ok => handshake \in {"answered", "ready"}
    /\ \A c \in Legacy : pc[c] = "writing" /\ Usable(c) => handshake = "ready"
    /\ early = {}

BindingInv == Kinds /\ Slot /\ Wire /\ Ready /\ OwnResponse

-----------------------------------------------------------------------------
(* Messages in the pipe.                                                   *)

(* Reading takes the first message. *)
LEMMA TakeFirst ==
    ASSUME NEW s \in Seq(Messages), s # <<>>
    PROVE  /\ Head(s) \in Messages /\ Tail(s) \in Seq(Messages)
           /\ Range(s) = {Head(s)} \cup Range(Tail(s))
           /\ Sound(s) => Sound(Tail(s))
           /\ Distinct(s) =>
                 /\ Distinct(Tail(s))
                 /\ Head(s).from # NoCommand =>
                       \A m \in Range(Tail(s)) : m.from # NoCommand => m.id # Head(s).id
<1>1. /\ Len(s) \in Nat \ {0} /\ DOMAIN s = 1..Len(s)
      /\ Head(s) = s[1] /\ Head(s) \in Messages
      /\ Tail(s) \in Seq(Messages) /\ DOMAIN Tail(s) = 1..(Len(s) - 1)
  OBVIOUS
<1>2. \A i \in 1..(Len(s) - 1) : Tail(s)[i] = s[i + 1]
  BY <1>1
<1>3. ASSUME NEW x PROVE x \in Range(s) <=> x \in {Head(s)} \cup Range(Tail(s))
  <2>1. ASSUME x \in Range(s) PROVE x \in {Head(s)} \cup Range(Tail(s))
    <3>1. PICK i \in 1..Len(s) : x = s[i]
      BY <1>1, <2>1 DEF Range
    <3>2. CASE i = 1
      BY <1>1, <3>1, <3>2
    <3>3. CASE i # 1
      <4>1. i - 1 \in 1..(Len(s) - 1) /\ (i - 1) + 1 = i
        BY <1>1, <3>3
      <4>2. Tail(s)[i - 1] = x
        BY <1>2, <3>1, <4>1
      <4> QED
        BY <1>1, <4>1, <4>2, Zenon DEF Range
    <3> QED
      BY <3>2, <3>3
  <2>2. ASSUME x \in Range(Tail(s)) PROVE x \in Range(s)
    BY <1>1, <1>2, <2>2 DEF Range
  <2>3. Head(s) \in Range(s)
    BY <1>1 DEF Range
  <2> QED
    BY <2>1, <2>2, <2>3
<1>4. Range(s) = {Head(s)} \cup Range(Tail(s))
  BY <1>3
<1>5. Sound(s) => Sound(Tail(s))
  BY <1>4 DEF Sound
<1>6. ASSUME Distinct(s) PROVE Distinct(Tail(s))
  <2> SUFFICES ASSUME NEW i \in 1..(Len(s) - 1), NEW j \in 1..(Len(s) - 1),
                      Tail(s)[i].from # NoCommand, Tail(s)[j].from # NoCommand,
                      Tail(s)[i].id = Tail(s)[j].id
               PROVE  i = j
    BY <1>1 DEF Distinct
  <2>1. i + 1 \in DOMAIN s /\ j + 1 \in DOMAIN s
    BY <1>1
  <2>2. i + 1 = j + 1
    BY <1>2, <1>6, <2>1 DEF Distinct
  <2> QED
    BY <2>2
<1>7. ASSUME Distinct(s), Head(s).from # NoCommand,
             NEW m \in Range(Tail(s)), m.from # NoCommand, m.id = Head(s).id
      PROVE  FALSE
  <2>1. PICK i \in 1..(Len(s) - 1) : m = Tail(s)[i]
    BY <1>1 DEF Range
  <2>2. i + 1 \in DOMAIN s /\ 1 \in DOMAIN s /\ m = s[i + 1]
    BY <1>1, <1>2, <2>1
  <2>3. i + 1 = 1
    BY <1>1, <1>7, <2>2 DEF Distinct
  <2> QED
    BY <2>3
<1> QED
  BY <1>1, <1>4, <1>5, <1>6, <1>7

(* Sending appends one. *)
LEMMA PutLast ==
    ASSUME NEW s \in Seq(Messages), NEW x \in Messages
    PROVE  /\ Append(s, x) \in Seq(Messages)
           /\ Range(Append(s, x)) = Range(s) \cup {x}
           /\ Distinct(s) /\ (x.from # NoCommand =>
                                \A m \in Range(s) : m.from # NoCommand => m.id # x.id)
              => Distinct(Append(s, x))
<1>1. /\ Len(s) \in Nat /\ DOMAIN s = 1..Len(s) /\ DOMAIN Append(s, x) = 1..(Len(s) + 1)
      /\ \A i \in 1..Len(s) : Append(s, x)[i] = s[i]
      /\ Append(s, x)[Len(s) + 1] = x /\ Append(s, x) \in Seq(Messages)
  OBVIOUS
<1>2. 1..(Len(s) + 1) = (1..Len(s)) \cup {Len(s) + 1}
  BY <1>1
<1>3. Range(Append(s, x)) = Range(s) \cup {x}
  BY <1>1, <1>2 DEF Range
<1>4. ASSUME Distinct(s),
             x.from # NoCommand => \A m \in Range(s) : m.from # NoCommand => m.id # x.id
      PROVE  Distinct(Append(s, x))
  <2>1. \A i \in 1..Len(s) : s[i] \in Range(s)
    BY <1>1 DEF Range
  <2> QED
    BY <1>1, <1>2, <1>4, <2>1 DEF Distinct
<1> QED
  BY <1>1, <1>3, <1>4

-----------------------------------------------------------------------------
(* Kinds.                                                                  *)

(* A child that keeps to the protocol sends no response of its own accord. *)
LEMMA OwnAccord ==
    ASSUME ~StrayResponses, NEW m \in Unsolicited
    PROVE  m \in Messages /\ m.from = NoCommand /\ m.id = NoID /\ m.type # "response"
<1>1. m \in [type : {"notification", "request"}, id : {NoID}, from : {NoCommand}, ok : {FALSE}]
  BY Zenon DEF Unsolicited
<1>2. PICK t \in {"notification", "request"} :
        m = [type |-> t, id |-> NoID, from |-> NoCommand, ok |-> FALSE]
  BY <1>1, Zenon
<1> QED
  BY <1>2 DEF Messages, NoID

(* What the child does to the kinds of things. *)
LEMMA KindsOfChild ==
    ASSUME ~StrayResponses, Kinds, Child
    PROVE  Kinds'
<1> USE StdioAssumption DEF Kinds
<1>e. <<>> \in Seq(Messages) /\ Sound(<<>>)
  BY DEF Sound, Range
<1>1. CASE ChildLost
  <2>1. incoming' = <<>>
    BY <1>1 DEF ChildLost, LoseChild, DrainPipes
  <2>d. /\ outstanding' = {} /\ gen' = gen + 1 /\ pipes' = FALSE
        /\ UNCHANGED <<connectionVars, answer>>
    BY <1>1 DEF ChildLost, LoseChild, DrainPipes, historyVars
  <2>2. incoming' \in Seq(Messages) /\ Sound(incoming')
    BY <1>e, <2>1, Zenon
  <2>3. outstanding' \subseteq [from : Requests, id : Nat]
    BY <2>d
  <2>4. gen' \in Nat
    BY <2>d
  <2>6. pipes' \in BOOLEAN
    BY <2>d, Zenon
  <2>5. UNCHANGED <<connectionVars, answer>>
    BY <2>d
  <2> QED
    BY <2>2, <2>3, <2>4, <2>5, <2>6 DEF connectionVars, holdVars, tableVars, handshakeVars, inputVars
<1>2. CASE ChildRestarted
  BY <1>2 DEF ChildRestarted, connectionVars, holdVars, tableVars, handshakeVars, inputVars
<1>3. ASSUME NEW r \in outstanding, NEW ok \in BOOLEAN, ChildAnswers(r, ok)
      PROVE  Kinds'
  <2>1. /\ incoming' = Append(incoming, Response(r, ok)) /\ outstanding' = outstanding \ {r}
        /\ UNCHANGED <<connectionVars, gen, pipes, answer>>
    BY <1>3 DEF ChildAnswers, historyVars
  <2>2. /\ Response(r, ok) \in Messages /\ Response(r, ok).from # NoCommand
        /\ Response(r, ok).type = "response"
    BY DEF Response, Messages, Requests
  <2>3. incoming' \in Seq(Messages) /\ Range(incoming') = Range(incoming) \cup {Response(r, ok)}
    BY <2>1, <2>2, PutLast, Zenon
  <2>4. Sound(incoming')
    BY <2>2, <2>3 DEF Sound
  <2> QED
    BY <2>1, <2>3, <2>4, Zenon DEF connectionVars, holdVars, tableVars, handshakeVars, inputVars
<1>4. ASSUME NEW m \in Unsolicited, ChildSpeaks(m)
      PROVE  Kinds'
  <2>1. /\ incoming' = Append(incoming, m)
        /\ UNCHANGED <<connectionVars, gen, pipes, outstanding, answer>>
    BY <1>4 DEF ChildSpeaks, historyVars
  <2>2. m \in Messages /\ m.from = NoCommand /\ m.id = NoID /\ m.type # "response"
    BY OwnAccord, Zenon
  <2>3. incoming' \in Seq(Messages) /\ Range(incoming') = Range(incoming) \cup {m}
    BY <2>1, <2>2, PutLast, Zenon
  <2>4. Sound(incoming')
    BY <2>2, <2>3 DEF Sound
  <2> QED
    BY <2>1, <2>3, <2>4, Zenon DEF connectionVars, holdVars, tableVars, handshakeVars, inputVars
<1> HIDE DEF Kinds
<1> QED
  BY <1>1, <1>2, <1>3, <1>4, Zenon DEF Child

(* What a command does to the kinds of things. *)
LEMMA KindsOfCommand ==
    ASSUME Kinds, NEW c \in Commands, Command(c) \/ ConnectionTTL(c) \/ DeadlinePasses(c)
    PROVE  Kinds'
<1> USE StdioAssumption DEF Kinds, Goto, Places, release
<1> USE DEF holdVars, tableVars, handshakeVars, childVars, inputVars, historyVars
<1>e. <<>> \in Seq(Messages) /\ Sound(<<>>)
  BY DEF Sound, Range
<1>r. resetInitialization => initializeSucceeded' = FALSE /\ initializationReady' = FALSE
  BY DEF resetInitialization
<1>h. \A d \in Commands : ResetHandshake(d) =>
         initializeSucceeded' \in BOOLEAN /\ initializationReady' \in BOOLEAN
  BY <1>r, Zenon DEF ResetHandshake
<1>1. CASE GiveUp(c) \/ AcquireSlot(c) \/ DeadlineEnds(c) \/ Return(c)
           \/ ConnectionTTL(c) \/ DeadlinePasses(c)
  BY <1>1, ZenonT(30) DEF GiveUp, AcquireSlot, DeadlineEnds, Return, ConnectionTTL, DeadlinePasses
<1>b. CASE BaseConnect(c)
  <2>1. lifecycleSlot' \in BOOLEAN
    BY <1>b, Zenon DEF BaseConnect
  <2> QED
    BY <1>b, <2>1, Zenon DEF BaseConnect
<1>2. CASE ConnectFails(c)
  BY <1>2, <1>r, Zenon DEF ConnectFails
<1>3. CASE Adopt(c)
  <2>1. /\ retiredResponseIDs' \subseteq Nat /\ Bounded(retiredResponseIDs')
        /\ nextAliasedID' \in Nat
        /\ initializeSucceeded' \in BOOLEAN /\ initializationReady' \in BOOLEAN
    <3>1. CASE currentGeneration(c)
      BY <1>3, <3>1, Zenon DEF Adopt
    <3>2. CASE ~currentGeneration(c)
      <4>1. retiredResponseIDs' = {} /\ nextAliasedID' = 0 /\ resetInitialization
        BY <1>3, <3>2, Zenon DEF Adopt
      <4>2. Bounded(retiredResponseIDs')
        BY <4>1, StaysBounded
      <4> QED
        BY <1>r, <4>1, <4>2, Zenon
    <3> QED
      BY <3>1, <3>2, Zenon
  <2> QED
    BY <1>3, <2>1, Zenon DEF Adopt
<1>4. CASE WriteLocally(c)
  BY <1>4, Zenon DEF WriteLocally, NoID
<1>5. CASE BeginWrite(c)
  <2>1. callerID[c] \in Nat \ {0}
    BY Zenon DEF NoID
  <2>2. /\ wireResponseID(callerID[c]).id \in Nat /\ wireResponseID(callerID[c]).next \in Nat
    BY <2>1, WireIDIsFree, Zenon
  <2> QED
    BY <1>5, <2>2, Zenon DEF BeginWrite
<1>6. CASE WriteFails(c)
  BY <1>6, <1>h, Zenon DEF WriteFails, NoID
<1>7. CASE WriteRequest(c)
  <2>1. outstanding' \subseteq [from : Requests, id : Nat]
    <3>1. c \in Requests /\ outstanding' = outstanding \cup {[from |-> c, id |-> expectedID[c]]}
      BY <1>7, Zenon DEF WriteRequest
    <3>2. [from |-> c, id |-> expectedID[c]] \in [from : Requests, id : Nat]
      BY <3>1, Zenon
    <3> QED BY <3>1, <3>2, Zenon
  <2>2. initializeSucceeded' \in BOOLEAN /\ initializationReady' \in BOOLEAN
    BY <1>7, <1>h, Zenon DEF WriteRequest
  <2> QED
    BY <1>7, <2>1, <2>2, Zenon DEF WriteRequest
<1>8. CASE WriteNotice(c)
  BY <1>8, Zenon DEF WriteNotice, ChildInitialized, NoID
<1>9. ASSUME incoming # <<>>, incoming' = Tail(incoming)
      PROVE  incoming' \in Seq(Messages) /\ Sound(incoming')
  BY <1>9, TakeFirst, Zenon
<1>10. CASE DropRetired(c)
  <2>1. retiredResponseIDs' \subseteq Nat /\ Bounded(retiredResponseIDs')
    BY <1>10, StaysBounded, ZenonT(30) DEF DropRetired
  <2> QED
    BY <1>9, <1>10, <2>1, Zenon DEF DropRetired
<1>11. CASE ForwardNotification(c)
  BY <1>9, <1>11, ZenonT(30) DEF ForwardNotification, Receives
<1>12. CASE ReadResponse(c)
  <2>1. PICK m \in Range(incoming) :
          /\ Receives(c, m)
          /\ answer' = [answer EXCEPT ![c] = m.from]
          /\ initializeSucceeded' = (initializeSucceeded \/ (c \in Initializes /\ m.ok))
          /\ IF EnsureInitialized /\ c \in Initializes /\ m.ok
             THEN UNCHANGED holdVars /\ Goto(c, "ensuring")
             ELSE release(c) /\ Goto(c, "done")
          /\ UNCHANGED <<initializationReady, initializedNotification>>
    BY <1>12, Zenon DEF ReadResponse
  <2>2. m \in Messages
    <3>1. m = Head(incoming) /\ incoming # <<>>
      BY <2>1, Zenon DEF Receives
    <3> QED
      BY <3>1, TakeFirst, Zenon
  <2>3. m.from \in Commands \cup {NoCommand}
    BY <2>2, Zenon DEF Messages
  <2>4. incoming' \in Seq(Messages) /\ Sound(incoming')
    BY <1>9, <2>1, ZenonT(30) DEF Receives
  <2>5. UNCHANGED <<generation, tableVars, gen, pipes, outstanding, physicalGeneration, inputVars>>
    BY <2>1, Zenon DEF Receives
  <2>6. /\ pc' \in [Commands -> Places] /\ lockHeld' \in [Commands -> BOOLEAN]
        /\ expectedID' \in [Commands -> Nat] /\ writeCompleted' \in [Commands -> BOOLEAN]
        /\ lifecycleSlot' \in BOOLEAN
    <3>1. CASE UNCHANGED holdVars /\ Goto(c, "ensuring")
      BY <3>1, Zenon
    <3>2. CASE release(c) /\ Goto(c, "done")
      BY <3>2, Zenon DEF NoID
    <3> QED
      BY <2>1, <3>1, <3>2, Zenon
  <2> QED
    BY <2>1, <2>3, <2>4, <2>5, <2>6, Zenon
<1>13. CASE ProtocolFailure(c)
  <2>1. PICK m \in Range(incoming) :
          /\ Receives(c, m) /\ Goto(c, "failing") /\ UNCHANGED <<handshakeVars, answer>>
          /\ release(c) \/ UNCHANGED holdVars
    BY <1>13, Zenon DEF ProtocolFailure
  <2>2. incoming' \in Seq(Messages) /\ Sound(incoming')
    BY <1>9, <2>1, Zenon DEF Receives
  <2>3. UNCHANGED <<generation, tableVars, gen, pipes, outstanding, physicalGeneration, inputVars>>
    BY <2>1, Zenon DEF Receives
  <2>4. CASE release(c)
    BY <2>1, <2>2, <2>3, <2>4, Zenon DEF NoID
  <2>5. CASE UNCHANGED holdVars
    BY <2>1, <2>2, <2>3, <2>5, Zenon
  <2> QED
    BY <2>1, <2>4, <2>5, Zenon
<1>14. CASE ReadFails(c)
  BY <1>14, <1>r, Zenon DEF ReadFails, NoID
<1>15. CASE EnsureNotified(c)
  BY <1>15, Zenon DEF EnsureNotified, ChildInitialized, NoID
<1>16. CASE EnsureFails(c)
  BY <1>16, <1>r, Zenon DEF EnsureFails, NoID
<1>17. CASE RetireResponseDeadline(c)
  <2>1. retiredResponseIDs' \subseteq Nat /\ Bounded(retiredResponseIDs')
    <3>1. expectedID[c] \in Nat /\ Bounded(retiredResponseIDs \cup {expectedID[c]})
      BY StaysBounded, Zenon
    <3> QED
      BY <1>17, <3>1, Zenon DEF RetireResponseDeadline
  <2> QED
    BY <1>17, <2>1, Zenon DEF RetireResponseDeadline, NoID
<1>18. CASE Close(c)
  <2>1. /\ incoming' \in Seq(Messages) /\ Sound(incoming') /\ pipes' \in BOOLEAN
        /\ outstanding' \subseteq [from : Requests, id : Nat]
    BY <1>18, <1>e, Zenon DEF Close, ClosePipes, DrainPipes
  <2> QED
    BY <1>18, <1>h, <2>1, Zenon DEF Close, NoID
<1> QED
  BY <1>1, <1>b, <1>2, <1>3, <1>4, <1>5, <1>6, <1>7, <1>8, <1>10, <1>11, <1>12, <1>13, <1>14, <1>15,
     <1>16, <1>17, <1>18, Zenon DEF Command

-----------------------------------------------------------------------------
(* Slot.                                                                   *)

\* A step of c leaves the connections of the others alone.
OthersStay(c) ==
    \A d \in Commands \ {c} :
        /\ lockHeld'[d] = lockHeld[d] /\ writeCompleted'[d] = writeCompleted[d]
        /\ expectedID'[d] = expectedID[d] /\ pc'[d] = pc[d]
        /\ physicalGeneration'[d] = physicalGeneration[d]

\* c's own connection stays as it is.
HoldStays(c) ==
    /\ lockHeld'[c] = lockHeld[c] /\ writeCompleted'[c] = writeCompleted[c]
    /\ expectedID'[c] = expectedID[c] /\ physicalGeneration'[c] = physicalGeneration[c]

(* A step of a command concerns no other connection. *)
LEMMA OthersAreLeftAlone ==
    ASSUME Kinds, NEW c \in Commands, Command(c) \/ ConnectionTTL(c) \/ DeadlinePasses(c)
    PROVE  OthersStay(c)
<1>1. ASSUME NEW p, Goto(c, p), release(c), UNCHANGED physicalGeneration
      PROVE  OthersStay(c)
  BY <1>1, Zenon DEF Kinds, OthersStay, release, Goto
<1>2. ASSUME NEW p, Goto(c, p), UNCHANGED <<lockHeld, expectedID, writeCompleted, physicalGeneration>>
      PROVE  OthersStay(c)
  BY <1>2, Zenon DEF Kinds, OthersStay, Goto
<1>3. CASE GiveUp(c) \/ AcquireSlot(c) \/ ConnectFails(c) \/ DeadlineEnds(c) \/ Return(c)
           \/ ConnectionTTL(c)
  BY <1>2, <1>3, Zenon DEF GiveUp, AcquireSlot, ConnectFails, DeadlineEnds, Return, ConnectionTTL, holdVars
<1>4. CASE WriteLocally(c) \/ WriteFails(c) \/ WriteNotice(c) \/ ReadFails(c) \/ EnsureNotified(c)
           \/ EnsureFails(c) \/ RetireResponseDeadline(c) \/ Close(c)
  BY <1>1, <1>4, Zenon DEF WriteLocally, WriteFails, WriteNotice, ReadFails, EnsureNotified, EnsureFails,
     RetireResponseDeadline, Close
<1>5. CASE ReadResponse(c) \/ ProtocolFailure(c)
  <2>1. /\ UNCHANGED physicalGeneration
        /\ release(c) \/ UNCHANGED holdVars
        /\ Goto(c, "ensuring") \/ Goto(c, "done") \/ Goto(c, "failing")
    BY <1>5, Zenon DEF ReadResponse, ProtocolFailure, Receives
  <2> QED
    BY <1>1, <1>2, <2>1 DEF holdVars
<1>6. CASE BaseConnect(c)
  BY <1>6, Zenon DEF BaseConnect, Kinds, OthersStay, Goto
<1>7. CASE Adopt(c)
  BY <1>7, Zenon DEF Adopt, Kinds, OthersStay, Goto
<1>8. CASE BeginWrite(c)
  BY <1>8, Zenon DEF BeginWrite, Kinds, OthersStay, Goto
<1>9. CASE WriteRequest(c)
  BY <1>9, Zenon DEF WriteRequest, Kinds, OthersStay, Goto
<1>10. CASE DropRetired(c) \/ ForwardNotification(c) \/ DeadlinePasses(c)
  <2>1. UNCHANGED <<holdVars, physicalGeneration, pc>>
    BY <1>10, Zenon DEF DropRetired, ForwardNotification, Receives, DeadlinePasses
  <2> QED
    BY <2>1, Zenon DEF OthersStay, holdVars
<1> QED
  BY <1>3, <1>4, <1>5, <1>6, <1>7, <1>8, <1>9, <1>10, Zenon DEF Command

(* The child does not touch the slot; a new generation only leaves it behind. *)
LEMMA SlotOfChild ==
    ASSUME Kinds, Slot, Child
    PROVE  Slot'
<1>1. /\ UNCHANGED <<lifecycleSlot, pc, lockHeld, writeCompleted, expectedID, physicalGeneration,
                     generation>>
      /\ gen' = gen \/ gen' = gen + 1
  BY Zenon DEF Child, ChildLost, LoseChild, ChildRestarted, ChildAnswers, ChildSpeaks, connectionVars, holdVars
<1>2. ASSUME NEW c \in Commands PROVE Stage(c)'
  <2>1. physicalGeneration[c] \in Nat /\ gen \in Nat /\ physicalGeneration[c] <= gen
    BY Zenon DEF Kinds, Slot, Stage
  <2>2. physicalGeneration[c] <= gen'
    BY <1>1, <2>1
  <2> QED BY <1>1, <2>2, Zenon DEF Slot, Stage
<1>3. \A c \in Commands : Holds(c)' <=> Holds(c)
  BY <1>1, Zenon DEF Holds
<1>4. (generation <= gen)'
  BY <1>1 DEF Kinds, Slot
<1>5. UNCHANGED lifecycleSlot
  BY <1>1
<1> QED
  BY <1>2, <1>3, <1>4, <1>5 DEF Slot

(* It is enough to look at the command that moves. *)
LEMMA SlotMoves ==
    ASSUME Slot, NEW c \in Commands, OthersStay(c), UNCHANGED <<generation, gen>>, Stage(c)',
           Holds(c)' => Holds(c) \/ ~lifecycleSlot,
           lifecycleSlot' <=> Holds(c)' \/ (lifecycleSlot /\ ~Holds(c))
    PROVE  Slot'
<1>1. \A d \in Commands \ {c} : Holds(d)' <=> Holds(d)
  BY Zenon DEF OthersStay, Holds
<1>2. ASSUME NEW d \in Commands PROVE Stage(d)'
  <2>1. CASE d = c
    BY <2>1
  <2>2. CASE d # c
    BY <2>2, ZenonT(30) DEF OthersStay, Slot, Stage
  <2> QED
    BY <2>1, <2>2
<1>3. lifecycleSlot' <=> \E d \in Commands : Holds(d)'
  BY <1>1 DEF Slot
<1>4. \A d, e \in Commands : Holds(d)' /\ Holds(e)' => d = e
  BY <1>1, Zenon DEF Slot
<1>5. (generation <= gen)'
  BY Zenon DEF Slot
<1> QED
  BY <1>2, <1>3, <1>4, <1>5, Zenon DEF Slot

(* A connection that gives the slot back, or had none. *)
LEMMA SlotReleased ==
    ASSUME Kinds, Slot, NEW c \in Commands, release(c), pc[c] \notin {"connecting", "adopting"},
           NEW p \in {"returned", "failing", "done"}, Goto(c, p),
           UNCHANGED <<generation, gen, physicalGeneration>>
    PROVE  Slot'
<1>1. /\ lockHeld'[c] = FALSE /\ writeCompleted'[c] = FALSE /\ expectedID'[c] = NoID /\ pc'[c] = p
      /\ OthersStay(c)
  BY Zenon DEF release, Goto, Kinds, OthersStay
<1>2. Stage(c)'
  BY <1>1, Zenon DEF Slot, Stage
<1>3. ~Holds(c)' /\ (Holds(c) <=> lockHeld[c])
  BY <1>1, ZenonT(30) DEF Holds
<1>4. lifecycleSlot' <=> lifecycleSlot /\ ~lockHeld[c]
  BY ZenonT(30) DEF release
<1> QED
  BY <1>1, <1>2, <1>3, <1>4, SlotMoves, Zenon

(* A connection that moves on as it is. *)
LEMMA SlotHeld ==
    ASSUME Kinds, Slot, NEW c \in Commands, OthersStay(c), HoldStays(c),
           UNCHANGED <<lifecycleSlot, generation, gen>>,
           \/ pc'[c] = pc[c]
           \/ pc[c] \in {"polled", "returned"} /\ pc'[c] = "done"
           \/ pc[c] \in {"connected", "writing", "reading"} /\ pc'[c] = "failing"
           \/ pc[c] = "reading" /\ pc'[c] \in {"closing", "ensuring"}
    PROVE  Slot'
<1>1. Stage(c)
  BY Zenon DEF Slot
<1>2. Stage(c)'
  BY <1>1, Zenon DEF HoldStays, Stage
<1>3. Holds(c)' <=> Holds(c)
  BY <1>1, ZenonT(30) DEF HoldStays, Stage, Holds
<1>4. Holds(c) => lifecycleSlot
  BY Zenon DEF Slot
<1> QED
  BY <1>2, <1>3, <1>4, SlotMoves, Zenon

(* Every command keeps its place in the lifecycle. *)
LEMMA SlotOfCommand ==
    ASSUME Kinds, Slot, NEW c \in Commands, Command(c) \/ ConnectionTTL(c) \/ DeadlinePasses(c)
    PROVE  Slot'
<1>o. OthersStay(c)
  BY OthersAreLeftAlone
<1>s. Stage(c) /\ (Holds(c) => lifecycleSlot)
  BY DEF Slot
<1>h. (UNCHANGED <<holdVars, physicalGeneration>>) => HoldStays(c)
  BY Zenon DEF holdVars, HoldStays
<1>1. CASE GiveUp(c) \/ DeadlineEnds(c) \/ Return(c) \/ ConnectionTTL(c)
  <2>1. /\ UNCHANGED <<holdVars, physicalGeneration, generation, gen>>
        /\ \/ pc[c] \in {"polled", "returned"} /\ Goto(c, "done")
           \/ pc[c] \in {"connected", "writing", "reading"} /\ Goto(c, "failing")
           \/ pc[c] = "reading" /\ Goto(c, "closing")
    BY <1>1, Zenon DEF GiveUp, DeadlineEnds, Return, ConnectionTTL, childVars
  <2>2. \/ pc[c] \in {"polled", "returned"} /\ pc'[c] = "done"
        \/ pc[c] \in {"connected", "writing", "reading"} /\ pc'[c] = "failing"
        \/ pc[c] = "reading" /\ pc'[c] = "closing"
    BY <2>1, Zenon DEF Goto, Kinds
  <2> QED
    BY <1>o, <1>h, <2>1, <2>2, SlotHeld, Zenon DEF holdVars
<1>2. CASE AcquireSlot(c)
  <2>1. /\ pc[c] = "polled" /\ ~lifecycleSlot /\ lifecycleSlot' /\ pc'[c] = "connecting"
        /\ UNCHANGED <<generation, gen>> /\ HoldStays(c)
    BY <1>2, Zenon DEF AcquireSlot, Goto, Kinds, HoldStays, childVars
  <2>2. Stage(c)'
    BY <1>s, <2>1, Zenon DEF Stage, HoldStays
  <2>3. Holds(c)'
    BY <2>1, Zenon DEF Holds
  <2> QED
    BY <1>o, <2>1, <2>2, <2>3, SlotMoves, Zenon
<1>3. CASE ConnectFails(c)
  <2>1. /\ pc[c] = "connecting" /\ lifecycleSlot' = FALSE /\ pc'[c] = "done"
        /\ UNCHANGED <<generation, gen>> /\ HoldStays(c)
    BY <1>3, Zenon DEF ConnectFails, Goto, Kinds, HoldStays, childVars
  <2>2. Stage(c)'
    BY <1>s, <2>1, Zenon DEF Stage, HoldStays
  <2>3. Holds(c) /\ ~Holds(c)'
    BY <1>s, <2>1, ZenonT(30) DEF Holds, Stage, HoldStays
  <2> QED
    BY <1>o, <2>1, <2>2, <2>3, SlotMoves, Zenon
<1>4. CASE BaseConnect(c)
  <2>1. /\ pc[c] = "connecting" /\ UNCHANGED <<generation, gen>> /\ physicalGeneration'[c] = gen
        /\ lockHeld'[c] = lockHeld[c] /\ writeCompleted'[c] = writeCompleted[c]
        /\ expectedID'[c] = expectedID[c]
        /\ \/ lifecycleSlot' /\ pc'[c] = "adopting"
           \/ ~lifecycleSlot' /\ pc'[c] = "done"
    BY <1>4, Zenon DEF BaseConnect, Goto, Kinds, childVars
  <2>k. generation <= gen /\ generation \in Nat /\ gen \in Nat
    BY Zenon DEF Slot, Kinds
  <2>j. ~lockHeld'[c] /\ ~writeCompleted'[c] /\ expectedID'[c] = NoID /\ pc'[c] \in {"adopting", "done"}
    BY <1>s, <2>1, Zenon DEF Stage
  <2>e. generation' = generation /\ gen' = gen /\ physicalGeneration'[c] = gen
    BY <2>1, Zenon
  <2>g. physicalGeneration'[c] <= gen' /\ generation' <= physicalGeneration'[c]
    BY <2>e, <2>k
  <2>2. Stage(c)'
    BY <2>j, <2>g, ZenonT(30) DEF Stage
  <2>3. Holds(c) /\ (Holds(c)' <=> lifecycleSlot')
    BY <1>s, <2>1, Zenon DEF Holds, Stage
  <2> QED
    BY <1>o, <2>1, <2>2, <2>3, SlotMoves, Zenon
<1>5. CASE Adopt(c)
  <2>1. /\ pc[c] = "adopting" /\ pc'[c] = "connected" /\ lockHeld'[c] = TRUE
        /\ generation' = physicalGeneration[c] /\ UNCHANGED <<lifecycleSlot, gen, physicalGeneration>>
        /\ writeCompleted'[c] = writeCompleted[c] /\ expectedID'[c] = expectedID[c]
    BY <1>5, Zenon DEF Adopt, Goto, Kinds, childVars
  <2>2. Holds(c) /\ Holds(c)' /\ \A d \in Commands \ {c} : ~Holds(d) /\ ~Holds(d)'
    <3>1. Holds(c) /\ Holds(c)'
      BY <2>1, Zenon DEF Holds
    <3>2. \A d \in Commands \ {c} : ~Holds(d)
      BY <3>1 DEF Slot
    <3>3. \A d \in Commands \ {c} : Holds(d)' <=> Holds(d)
      BY <1>o, Zenon DEF OthersStay, Holds
    <3> QED
      BY <3>1, <3>2, <3>3
  <2>3. ASSUME NEW d \in Commands PROVE Stage(d)'
    <3>1. CASE d = c
      BY <1>s, <2>1, <3>1, Zenon DEF Stage, Kinds
    <3>2. CASE d # c
      <4>1. ~Holds(d) /\ Stage(d)
        BY <2>2, <3>2 DEF Slot
      <4> QED
        BY <1>o, <2>1, <3>2, <4>1, Zenon DEF OthersStay, Stage, Holds
    <3> QED
      BY <3>1, <3>2
  <2>4. (generation <= gen)'
    BY <1>s, <2>1, Zenon DEF Stage
  <2>5. lifecycleSlot'
    BY <1>s, <2>1, <2>2, Zenon
  <2> QED
    BY <2>2, <2>3, <2>4, <2>5, Zenon DEF Slot
<1>6. CASE WriteLocally(c)
  BY <1>6, SlotReleased, Zenon DEF WriteLocally, childVars
<1>7. CASE BeginWrite(c)
  <2>1. wireResponseID(callerID[c]).id # NoID
    BY WireIDIsFree, StdioAssumption, Zenon DEF Kinds, NoID
  <2>2. /\ pc[c] = "connected" /\ pc'[c] = "writing" /\ UNCHANGED <<lifecycleSlot, generation, gen>>
        /\ lockHeld'[c] = lockHeld[c] /\ writeCompleted'[c] = writeCompleted[c]
        /\ physicalGeneration'[c] = physicalGeneration[c]
        /\ c \in Requests => expectedID'[c] # NoID
    BY <1>7, <2>1, Zenon DEF BeginWrite, Goto, Kinds, childVars
  <2>3. Stage(c)'
    BY <1>s, <2>2, Zenon DEF Stage
  <2>4. Holds(c) /\ Holds(c)'
    BY <1>s, <2>2, Zenon DEF Stage, Holds
  <2> QED
    BY <1>o, <1>s, <2>2, <2>3, <2>4, SlotMoves, Zenon
<1>8. CASE WriteFails(c)
  BY <1>8, SlotReleased, Zenon DEF WriteFails, childVars
<1>9. CASE WriteRequest(c)
  <2>1. /\ pc[c] = "writing" /\ pc'[c] = "reading" /\ UNCHANGED <<lifecycleSlot, generation, gen>>
        /\ lockHeld'[c] = lockHeld[c] /\ writeCompleted'[c] = TRUE /\ expectedID'[c] = expectedID[c]
        /\ physicalGeneration'[c] = physicalGeneration[c] /\ c \in Requests
    BY <1>9, Zenon DEF WriteRequest, Goto, Kinds
  <2>2. Stage(c)'
    BY <1>s, <2>1, Zenon DEF Stage
  <2>3. Holds(c) /\ Holds(c)'
    BY <1>s, <2>1, Zenon DEF Stage, Holds
  <2> QED
    BY <1>o, <1>s, <2>1, <2>2, <2>3, SlotMoves, Zenon
<1>10. CASE WriteNotice(c)
  BY <1>10, SlotReleased, Zenon DEF WriteNotice
<1>11. CASE DropRetired(c) \/ ForwardNotification(c) \/ DeadlinePasses(c)
  <2>1. UNCHANGED <<holdVars, physicalGeneration, generation, gen, pc>>
    BY <1>11, Zenon DEF DropRetired, ForwardNotification, Receives, DeadlinePasses, childVars
  <2> QED
    BY <1>o, <1>h, <2>1, SlotHeld, Zenon DEF holdVars
<1>12. CASE ReadResponse(c) \/ ProtocolFailure(c)
  <2>1. /\ pc[c] = "reading" /\ UNCHANGED <<generation, gen, physicalGeneration>>
        /\ \/ UNCHANGED holdVars /\ (Goto(c, "ensuring") \/ Goto(c, "failing"))
           \/ release(c) /\ (Goto(c, "done") \/ Goto(c, "failing"))
    BY <1>12, Zenon DEF ReadResponse, ProtocolFailure, Receives
  <2>2. CASE UNCHANGED holdVars /\ (Goto(c, "ensuring") \/ Goto(c, "failing"))
    <3>1. pc'[c] \in {"ensuring", "failing"}
      BY <2>2, Zenon DEF Goto, Kinds
    <3> QED
      BY <1>o, <1>h, <2>1, <2>2, <3>1, SlotHeld, ZenonT(30) DEF holdVars
  <2>3. CASE release(c) /\ (Goto(c, "done") \/ Goto(c, "failing"))
    BY <2>1, <2>3, SlotReleased, Zenon
  <2> QED
    BY <2>1, <2>2, <2>3, Zenon
<1>13. CASE ReadFails(c)
  BY <1>13, SlotReleased, Zenon DEF ReadFails, childVars
<1>14. CASE EnsureNotified(c)
  BY <1>14, SlotReleased, Zenon DEF EnsureNotified
<1>15. CASE EnsureFails(c)
  BY <1>15, SlotReleased, Zenon DEF EnsureFails, childVars
<1>16. CASE RetireResponseDeadline(c)
  BY <1>16, SlotReleased, Zenon DEF RetireResponseDeadline, NeedsCleanup, childVars
<1>17. CASE Close(c)
  BY <1>17, SlotReleased, Zenon DEF Close, NeedsCleanup
<1> QED
  BY <1>1, <1>2, <1>3, <1>4, <1>5, <1>6, <1>7, <1>8, <1>9, <1>10, <1>11, <1>12, <1>13, <1>14,
     <1>15, <1>16, <1>17, Zenon DEF Command

-----------------------------------------------------------------------------
(* Wire.                                                                   *)

\* d waits for what it waited for, and begins to wait for nothing.
KeepsWaiting(d) ==
    /\ Waiting(d) => Waiting(d)' /\ expectedID'[d] = expectedID[d]
    /\ writeCompleted'[d] /\ pc'[d] \in {"reading", "failing"} =>
          /\ writeCompleted[d] /\ pc[d] \in {"reading", "failing"}
          /\ expectedID'[d] = expectedID[d]
    /\ expectedID'[d] \notin retiredResponseIDs

\* Nothing is sent, answered, retired or lost.
WireStays ==
    UNCHANGED <<outstanding, Answers, retiredResponseIDs, generation, gen, active, pipes>>

(* Everything owed is owed to a command. *)
LEMMA OwedToCommands ==
    ASSUME Kinds
    PROVE  /\ \A r \in outstanding : r.from \in Commands /\ r.id \in Nat
           /\ \A m \in Answers : m \in Messages /\ m.from \in Commands /\ m.id \in Nat
<1>1. \A m \in Range(incoming) : m \in Messages
  BY DEF Kinds, Range
<1> QED
  BY <1>1, Zenon DEF Kinds, Answers, Requests, Messages

(* While nothing moves on the wire, it is enough that nobody stops waiting. *)
LEMMA WireKept ==
    ASSUME Kinds, Wire, NEW c \in Commands, OthersStay(c), KeepsWaiting(c), WireStays,
           Distinct(incoming')
    PROVE  Wire'
<1>1. ASSUME NEW d \in Commands PROVE KeepsWaiting(d)
  <2>1. CASE d = c
    BY <2>1
  <2>2. CASE d # c
    BY <2>2, Zenon DEF OthersStay, KeepsWaiting, Waiting, Wire
  <2> QED
    BY <2>1, <2>2
<1>2. UNCHANGED Current
  BY DEF WireStays, Current
<1>3. \A r \in outstanding \cup Answers : r.from \in Commands
  BY OwedToCommands
<1>4. \A r \in outstanding \cup Answers : Awaits(r.from, r.id) => Awaits(r.from, r.id)'
  BY <1>1, <1>3, Zenon DEF KeepsWaiting, Awaits
<1>5. /\ (pipes => active)' /\ (~Current => outstanding = {} /\ Answers = {})'
      /\ \A r \in (outstanding \cup Answers)' : r.id \in retiredResponseIDs' \/ Awaits(r.from, r.id)'
      /\ (\A q, r \in outstanding : q.id = r.id => q = r)'
      /\ (\A q \in outstanding, m \in Answers : q.id # m.id)'
  BY <1>2, <1>4, Zenon DEF WireStays, Wire
<1>6. /\ (Current => \A id \in retiredResponseIDs : \E r \in outstanding \cup Answers : r.id = id)'
      /\ (NoID \notin retiredResponseIDs)'
  BY <1>2, ZenonT(30) DEF WireStays, Wire
<1>7. \A d \in Commands : expectedID'[d] \notin retiredResponseIDs'
  BY <1>1, Zenon DEF WireStays, KeepsWaiting
<1>8. ASSUME NEW d \in Commands, Current', writeCompleted'[d], pc'[d] \in {"reading", "failing"}
      PROVE  \E r \in (outstanding \cup Answers)' : r.from = d /\ r.id = expectedID'[d]
  <2>1. Current /\ writeCompleted[d] /\ pc[d] \in {"reading", "failing"} /\ expectedID'[d] = expectedID[d]
    BY <1>1, <1>2, <1>8, Zenon DEF KeepsWaiting
  <2>2. \E r \in outstanding \cup Answers : r.from = d /\ r.id = expectedID[d]
    BY <2>1, Zenon DEF Wire
  <2>3. (outstanding \cup Answers)' = outstanding \cup Answers
    BY DEF WireStays
  <2> QED
    BY <2>1, <2>2, <2>3, Zenon
<1> QED
  BY <1>5, <1>6, <1>7, <1>8, Zenon DEF Wire

(* On pipes that are closed or not adopted nothing is owed. *)
LEMMA WireIdle ==
    ASSUME pipes' => active', ~Current', outstanding' = {}, Answers' = {}, Distinct(incoming'),
           NoID \notin retiredResponseIDs', \A d \in Commands : expectedID'[d] \notin retiredResponseIDs'
    PROVE  Wire'
BY Zenon DEF Wire

(* On pipes a new generation has adopted nothing is owed yet. *)
LEMMA WireFresh ==
    ASSUME pipes' => active', outstanding' = {}, Answers' = {}, Distinct(incoming'),
           retiredResponseIDs' = {},
           \A d \in Commands : ~(writeCompleted'[d] /\ pc'[d] \in {"reading", "failing"})
    PROVE  Wire'
BY Zenon DEF Wire

(* The first message leaves the pipe. *)
LEMMA AnswersTaken ==
    ASSUME Kinds, Distinct(incoming), incoming # <<>>, incoming' = Tail(incoming),
           NEW m, m = Head(incoming)
    PROVE  /\ m \in Messages /\ Distinct(incoming')
           /\ m.type # "response" => m.from = NoCommand /\ m.id = NoID /\ Answers' = Answers
           /\ m.type = "response" =>
                 m \in Answers /\ Answers' = Answers \ {m} /\ \A x \in Answers' : x.id # m.id
<1>1. /\ m \in Messages /\ Distinct(incoming') /\ Range(incoming) = {m} \cup Range(incoming')
      /\ m.from # NoCommand => \A x \in Range(incoming') : x.from # NoCommand => x.id # m.id
  BY TakeFirst, Zenon DEF Kinds
<1>2. (m.from # NoCommand <=> m.type = "response") /\ (m.from = NoCommand => m.id = NoID)
  BY <1>1, Zenon DEF Kinds, Sound
<1>3. CASE m.type # "response"
  BY <1>1, <1>2, <1>3, Zenon DEF Answers
<1>4. CASE m.type = "response"
  BY <1>1, <1>2, <1>4, Zenon DEF Answers
<1> QED
  BY <1>1, <1>2, <1>3, <1>4, Zenon

(* Only the owner of the slot waits for anything. *)
LEMMA OwnerWaits ==
    ASSUME Slot, NEW c \in Commands, Holds(c), NEW d \in Commands, d # c
    PROVE  ~writeCompleted[d] /\ ~Waiting(d) /\ ~lockHeld[d] /\ expectedID[d] = NoID
<1>1. ~Holds(d) /\ Stage(d)
  BY DEF Slot
<1> QED
  BY <1>1, Zenon DEF Holds, Stage, Waiting

(* The child loses, sends or answers. *)
LEMMA WireOfChild ==
    ASSUME ~StrayResponses, Kinds, Slot, Wire, Child
    PROVE  Wire'
<1>e. \A s : s = <<>> => Distinct(s) /\ Range(s) = {}
  BY DEF Distinct, Range
<1>c. UNCHANGED connectionVars
  BY Zenon DEF Child, ChildLost, ChildRestarted, ChildAnswers, ChildSpeaks
<1>u. UNCHANGED <<generation, retiredResponseIDs, pc, lockHeld, writeCompleted, expectedID>>
  BY <1>c DEF connectionVars, holdVars, tableVars
<1>w. \A d \in Commands : Waiting(d)' <=> Waiting(d)
  BY <1>u, Zenon DEF Waiting
<1>1. CASE ChildLost
  <2>1. incoming' = <<>> /\ outstanding' = {} /\ pipes' = FALSE
    BY <1>1 DEF ChildLost, LoseChild, DrainPipes
  <2>2. Answers' = {} /\ Distinct(incoming')
    BY <1>e, <2>1, Zenon DEF Answers
  <2>3. ~Current'
    BY <2>1 DEF Current
  <2> QED
    BY <1>u, <2>1, <2>2, <2>3, WireIdle, Zenon DEF Wire
<1>2. CASE ChildRestarted
  <2>1. ~active /\ active' /\ gen' = gen + 1 /\ UNCHANGED <<incoming, outstanding>>
    BY <1>2 DEF ChildRestarted
  <2>2. ~Current /\ ~Current'
    <3>1. generation \in Nat /\ gen \in Nat /\ generation <= gen
      BY Zenon DEF Slot, Kinds
    <3>2. generation # gen'
      BY <2>1, <3>1
    <3> QED BY <1>u, <2>1, <3>2, Zenon DEF Current, Wire
  <2>3. outstanding' = {} /\ Answers' = {} /\ Distinct(incoming')
    BY <2>1, <2>2, Zenon DEF Wire, Answers
  <2> QED
    BY <1>u, <2>1, <2>2, <2>3, WireIdle, Zenon DEF Wire
<1>3. ASSUME NEW r \in outstanding, NEW ok \in BOOLEAN, ChildAnswers(r, ok)
      PROVE  Wire'
  <2> DEFINE m == Response(r, ok)
  <2>1. /\ incoming' = Append(incoming, m) /\ outstanding' = outstanding \ {r}
        /\ UNCHANGED <<gen, active, pipes>>
    BY <1>3 DEF ChildAnswers
  <2>2. m \in Messages /\ m.from = r.from /\ m.id = r.id /\ m.from # NoCommand
    BY StdioAssumption, Zenon DEF Response, Messages, Requests, Kinds
  <2> HIDE DEF m
  <2>3. Range(incoming') = Range(incoming) \cup {m}
    BY <2>1, <2>2, PutLast, Zenon DEF Kinds
  <2>4. Answers' = Answers \cup {m}
    BY <2>2, <2>3, Zenon DEF Answers
  <2>5. \A x \in Range(incoming) : x.from # NoCommand => x.id # m.id
    <3>1. \A x \in Answers : x.id # r.id
      BY Zenon DEF Wire
    <3> QED BY <2>2, <3>1, Zenon DEF Answers
  <2>6. Distinct(incoming')
    BY <2>1, <2>2, <2>5, PutLast, Zenon DEF Kinds, Wire
  <2>7. Current' = Current
    BY <1>u, <2>1 DEF Current
  <2>8. \A x \in outstanding \cup Answers : \E y \in (outstanding \cup Answers)' : y.from = x.from /\ y.id = x.id
    BY <2>1, <2>2, <2>4, Zenon
  <2>9. \A x \in (outstanding \cup Answers)' : \E y \in outstanding \cup Answers : y.from = x.from /\ y.id = x.id
    BY <2>1, <2>2, <2>4, Zenon
  <2>10. \A x \in outstanding \cup Answers : x.from \in Commands
    BY OwedToCommands
  <2>11. \A x \in (outstanding \cup Answers)' : x.id \in retiredResponseIDs' \/ Awaits(x.from, x.id)'
    <3> SUFFICES ASSUME NEW x \in (outstanding \cup Answers)'
                 PROVE  x.id \in retiredResponseIDs' \/ Awaits(x.from, x.id)'
      BY Zenon
    <3>1. PICK y \in outstanding \cup Answers : y.from = x.from /\ y.id = x.id
      BY <2>9, Zenon
    <3>2. x.from \in Commands /\ (x.id \in retiredResponseIDs \/ Awaits(x.from, x.id))
      BY <2>10, <3>1, Zenon DEF Wire
    <3> QED BY <1>u, <1>w, <3>2, Zenon DEF Awaits
  <2>w. /\ \A q, x \in outstanding : q.id = x.id => q = x
        /\ \A q \in outstanding, x \in Answers : q.id # x.id
        /\ Current => \A id \in retiredResponseIDs : \E x \in outstanding \cup Answers : x.id = id
    BY Zenon DEF Wire
  <2>12. /\ (\A q, x \in outstanding : q.id = x.id => q = x)'
         /\ (\A q \in outstanding, x \in Answers : q.id # x.id)'
    BY <2>1, <2>2, <2>4, <2>w
  <2>13. ASSUME Current', NEW id \in retiredResponseIDs'
         PROVE  \E x \in (outstanding \cup Answers)' : x.id = id
    <3>1. PICK x \in outstanding \cup Answers : x.id = id
      BY <1>u, <2>7, <2>13, <2>w, Zenon
    <3> QED
      BY <2>8, <3>1, Zenon
  <2>14. ASSUME NEW d \in Commands, Current', writeCompleted'[d], pc'[d] \in {"reading", "failing"}
         PROVE  \E x \in (outstanding \cup Answers)' : x.from = d /\ x.id = expectedID'[d]
    <3>1. \E x \in outstanding \cup Answers : x.from = d /\ x.id = expectedID[d]
      BY <1>u, <2>7, <2>14, Zenon DEF Wire
    <3> QED
      BY <1>u, <2>8, <3>1, ZenonT(30)
  <2>15. Current
    BY Zenon DEF Wire
  <2>16. /\ (pipes => active)' /\ (NoID \notin retiredResponseIDs)'
         /\ (\A d \in Commands : expectedID[d] \notin retiredResponseIDs)'
    BY <1>u, <2>1, Zenon DEF Wire
  <2> QED
    BY <2>6, <2>7, <2>11, <2>12, <2>13, <2>14, <2>15, <2>16, Zenon DEF Wire
<1>4. ASSUME NEW m \in Unsolicited, ChildSpeaks(m)
      PROVE  Wire'
  <2>1. /\ incoming' = Append(incoming, m)
        /\ UNCHANGED <<gen, active, pipes, outstanding>>
    BY <1>4 DEF ChildSpeaks
  <2>2. m \in Messages /\ m.from = NoCommand
    BY OwnAccord
  <2>3. Range(incoming') = Range(incoming) \cup {m} /\ Distinct(incoming')
    BY <2>1, <2>2, PutLast, Zenon DEF Kinds, Wire
  <2>4. Answers' = Answers
    BY <2>2, <2>3 DEF Answers
  <2>5. Current' = Current
    BY <1>u, <2>1 DEF Current
  <2>6. \A x \in outstanding \cup Answers : x.from \in Commands
    BY OwedToCommands
  <2>7. \A x \in (outstanding \cup Answers)' : x.id \in retiredResponseIDs' \/ Awaits(x.from, x.id)'
    BY <1>u, <1>w, <2>1, <2>4, <2>6, Zenon DEF Wire, Awaits
  <2> QED
    BY <1>u, <2>1, <2>3, <2>4, <2>5, <2>7, Zenon DEF Wire
<1> QED
  BY <1>1, <1>2, <1>3, <1>4 DEF Child

(* A response that is read: the owner's own, which then waits no longer. *)
LEMMA WireAnswered ==
    ASSUME Kinds, Slot, Wire, NEW c \in Commands, OthersStay(c), pc[c] = "reading",
           NEW m \in Answers, m.id \notin retiredResponseIDs,
           Answers' = Answers \ {m}, \A x \in Answers' : x.id # m.id, Distinct(incoming'),
           UNCHANGED <<outstanding, retiredResponseIDs, generation, gen, active, pipes>>,
           pc'[c] \in {"ensuring", "done"}, expectedID'[c] \in {expectedID[c], NoID}
    PROVE  Wire'
<1>1. Holds(c) /\ Current' = Current
  BY Zenon DEF Slot, Stage, Holds, Current
<1>2. \A d \in Commands \ {c} : ~Waiting(d) /\ ~writeCompleted[d] /\ expectedID[d] = NoID
  BY <1>1, OwnerWaits, Zenon
<1>3. \A x \in outstanding \cup Answers : x.from \in Commands
  BY OwedToCommands, Zenon
<1>w. \A x \in outstanding \cup Answers : x.id \in retiredResponseIDs \/ Awaits(x.from, x.id)
  BY Zenon DEF Wire
<1>4. m.from = c /\ m.id = expectedID[c]
  BY <1>2, <1>3, <1>w, Zenon DEF Awaits
<1>5. ASSUME NEW x \in (outstanding \cup Answers)'
      PROVE  x \in outstanding \cup Answers /\ x.id # m.id
  <2>1. CASE x \in outstanding
    <3>1. \A q \in outstanding, y \in Answers : q.id # y.id
      BY Zenon DEF Wire
    <3> QED BY <2>1, <3>1, Zenon
  <2> QED BY <2>1, Zenon
<1>6. ASSUME NEW x \in (outstanding \cup Answers)' PROVE x.id \in retiredResponseIDs'
  <2>1. ~Awaits(x.from, x.id)
    BY <1>2, <1>3, <1>4, <1>5, Zenon DEF Awaits
  <2> QED BY <1>w, <1>5, <2>1, Zenon
<1>7. \A x \in outstanding \cup Answers : x.id # m.id => x \in (outstanding \cup Answers)'
  BY Zenon
<1>8. (Current => \A id \in retiredResponseIDs : \E x \in outstanding \cup Answers : x.id = id)'
  BY <1>1, <1>7, ZenonT(60) DEF Wire
<1>9. \A d \in Commands : expectedID'[d] \notin retiredResponseIDs'
  <2>1. NoID \notin retiredResponseIDs /\ \A d \in Commands : expectedID[d] \notin retiredResponseIDs
    BY Zenon DEF Wire
  <2>2. ASSUME NEW d \in Commands, d # c PROVE expectedID'[d] \notin retiredResponseIDs
    BY <2>1, <2>2, Zenon DEF OthersStay
  <2>3. expectedID'[c] \notin retiredResponseIDs
    BY <2>1, Zenon
  <2> QED
    BY <2>2, <2>3, Zenon
<1>10. \A d \in Commands : ~(writeCompleted'[d] /\ pc'[d] \in {"reading", "failing"})
  BY <1>2, Zenon DEF OthersStay
<1>v. /\ ~Current => outstanding = {} /\ Answers = {}
      /\ \A q, x \in outstanding : q.id = x.id => q = x
      /\ \A q \in outstanding, x \in Answers : q.id # x.id
      /\ (pipes => active) /\ NoID \notin retiredResponseIDs
  BY Zenon DEF Wire
<1>11. /\ (~Current => outstanding = {} /\ Answers = {})'
       /\ (\A q, x \in outstanding : q.id = x.id => q = x)'
       /\ (\A q \in outstanding, x \in Answers : q.id # x.id)'
       /\ (pipes => active)' /\ (NoID \notin retiredResponseIDs)'
  BY <1>1, <1>v, Zenon
<1> QED
  BY <1>6, <1>8, <1>9, <1>10, <1>11, Zenon DEF Wire

(* A retired response arrives and is dropped, and its ID is free again. *)
LEMMA WireDropped ==
    ASSUME Kinds, Wire, NEW m \in Answers, Answers' = Answers \ {m}, \A x \in Answers' : x.id # m.id,
           m.id \in retiredResponseIDs, retiredResponseIDs' = retiredResponseIDs \ {m.id},
           Distinct(incoming'),
           UNCHANGED <<outstanding, generation, gen, active, pipes, pc, lockHeld, expectedID, writeCompleted>>
    PROVE  Wire'
<1>1. Current' = Current
  BY Zenon DEF Current
<1>2. \A x \in outstanding \cup Answers : x.from \in Commands
  BY OwedToCommands, Zenon
<1>3. \A x \in (outstanding \cup Answers)' : x \in outstanding \cup Answers /\ x.id # m.id
  BY ZenonT(30) DEF Wire
<1>4. \A d \in Commands : Waiting(d)' <=> Waiting(d)
  BY Zenon DEF Waiting
<1>5. \A x \in (outstanding \cup Answers)' : x.id \in retiredResponseIDs' \/ Awaits(x.from, x.id)'
  BY <1>2, <1>3, <1>4, Zenon DEF Wire, Awaits
<1>6. \A x \in outstanding \cup Answers : x.id # m.id => x \in (outstanding \cup Answers)'
  BY Zenon
<1>7. (Current => \A id \in retiredResponseIDs : \E x \in outstanding \cup Answers : x.id = id)'
  BY <1>1, <1>6, Zenon DEF Wire
<1>8. ASSUME NEW d \in Commands, Current', writeCompleted'[d], pc'[d] \in {"reading", "failing"}
      PROVE  \E x \in (outstanding \cup Answers)' : x.from = d /\ x.id = expectedID'[d]
  <2>1. PICK x \in outstanding \cup Answers : x.from = d /\ x.id = expectedID[d]
    BY <1>1, <1>8, Zenon DEF Wire
  <2>2. x.id # m.id
    BY <2>1, ZenonT(30) DEF Wire
  <2> QED
    BY <1>6, <2>1, <2>2, Zenon
<1>9. /\ (~Current => outstanding = {} /\ Answers = {})'
      /\ (\A q, x \in outstanding : q.id = x.id => q = x)'
      /\ (\A q \in outstanding, x \in Answers : q.id # x.id)'
      /\ (pipes => active)' /\ (NoID \notin retiredResponseIDs)'
      /\ (\A d \in Commands : expectedID[d] \notin retiredResponseIDs)'
  BY <1>1, ZenonT(30) DEF Wire
<1> QED
  BY <1>5, <1>7, <1>8, <1>9, Zenon DEF Wire

(* A request is sent under an ID nothing else is owed under. *)
LEMMA WireSent ==
    ASSUME Kinds, Slot, Wire, NEW c \in Commands, OthersStay(c), WriteRequest(c)
    PROVE  Wire'
<1> DEFINE q == [from |-> c, id |-> expectedID[c]]
<1>1. /\ pc[c] = "writing" /\ pc'[c] = "reading" /\ Usable(c)
      /\ outstanding' = outstanding \cup {q} /\ writeCompleted'[c] = TRUE
      /\ UNCHANGED <<lockHeld, expectedID, retiredResponseIDs, generation, gen, active, pipes, incoming>>
  BY Zenon DEF WriteRequest, Kinds, Goto, tableVars
<1>2. q.from = c /\ q.id = expectedID[c]
  BY Zenon
<1> HIDE DEF q
<1>3. Holds(c) /\ lockHeld[c] /\ physicalGeneration[c] = generation
  BY <1>1, Zenon DEF Slot, Stage, Holds
<1>4. Current /\ Current'
  BY <1>1, <1>3, Zenon DEF Current, Usable
<1>5. \A d \in Commands \ {c} : ~Waiting(d) /\ ~writeCompleted[d]
  BY <1>3, OwnerWaits, Zenon
<1>6. \A x \in outstanding \cup Answers : x.from \in Commands
  BY OwedToCommands
<1>7. \A x \in outstanding \cup Answers : x.id \in retiredResponseIDs
  BY <1>1, <1>5, <1>6, Zenon DEF Wire, Awaits, Waiting
<1>8. q.id \notin retiredResponseIDs
  BY <1>2, Zenon DEF Wire
<1>9. Waiting(c)' /\ expectedID'[c] = q.id
  BY <1>1, <1>2, <1>3, ZenonT(30) DEF Waiting
<1>10. Answers' = Answers
  BY <1>1, Zenon DEF Answers
<1>11. \A x \in (outstanding \cup Answers)' : x.id \in retiredResponseIDs' \/ Awaits(x.from, x.id)'
  BY <1>1, <1>2, <1>7, <1>9, <1>10, ZenonT(30) DEF Awaits
<1>w. /\ \A y, x \in outstanding : y.id = x.id => y = x
      /\ \A y \in outstanding, x \in Answers : y.id # x.id
  BY Zenon DEF Wire
<1>12. /\ (\A y, x \in outstanding : y.id = x.id => y = x)'
       /\ (\A y \in outstanding, x \in Answers : y.id # x.id)'
  BY <1>1, <1>7, <1>8, <1>10, <1>w, ZenonT(30)
<1>13. (Current => \A id \in retiredResponseIDs : \E x \in outstanding \cup Answers : x.id = id)'
  BY <1>1, <1>4, <1>10, Zenon DEF Wire
<1>14. ASSUME NEW d \in Commands, writeCompleted'[d]
       PROVE  \E x \in (outstanding \cup Answers)' : x.from = d /\ x.id = expectedID'[d]
  <2>1. d = c
    BY <1>5, <1>14, Zenon DEF OthersStay
  <2> QED
    BY <1>1, <1>2, <2>1, Zenon
<1>15. /\ (pipes => active)' /\ (NoID \notin retiredResponseIDs)' /\ Distinct(incoming')
       /\ (\A d \in Commands : expectedID[d] \notin retiredResponseIDs)'
  BY <1>1, ZenonT(30) DEF Wire
<1> QED
  BY <1>4, <1>11, <1>12, <1>13, <1>14, <1>15, ZenonT(30) DEF Wire

(* The deadline passes and the ID of a request that was sent is retired. *)
LEMMA WireRetired ==
    ASSUME Kinds, Slot, Wire, NEW c \in Commands, OthersStay(c), RetireResponseDeadline(c),
           writeCompleted[c]
    PROVE  Wire'
<1>1. /\ NeedsCleanup(c) /\ retiredResponseIDs' = retiredResponseIDs \cup {expectedID[c]}
      /\ UNCHANGED <<generation, gen, active, pipes, incoming, outstanding>>
      /\ writeCompleted'[c] = FALSE /\ expectedID'[c] = NoID
  BY Zenon DEF RetireResponseDeadline, release, Kinds, childVars
<1>2. pc[c] = "failing" /\ Holds(c) /\ expectedID[c] # NoID
  BY <1>1, Zenon DEF Slot, Stage, Holds, NeedsCleanup
<1>3. \A d \in Commands \ {c} : ~Waiting(d) /\ ~writeCompleted[d] /\ expectedID[d] = NoID
  BY <1>2, OwnerWaits, ZenonT(30)
<1>4. \A x \in outstanding \cup Answers : x.from \in Commands
  BY OwedToCommands, Zenon
<1>5. Answers' = Answers /\ Current' = Current
  BY <1>1, Zenon DEF Answers, Current
<1>6. \A x \in outstanding \cup Answers : x.id \in retiredResponseIDs'
  BY <1>1, <1>3, <1>4, ZenonT(60) DEF Wire, Awaits
<1>7. Current => \E x \in outstanding \cup Answers : x.id = expectedID[c]
  BY <1>2, Zenon DEF Wire
<1>8. (Current => \A id \in retiredResponseIDs : \E x \in outstanding \cup Answers : x.id = id)'
  BY <1>1, <1>5, <1>7, Zenon DEF Wire
<1>9. NoID \notin retiredResponseIDs'
  BY <1>1, <1>2, Zenon DEF Wire
<1>10. \A d \in Commands : expectedID'[d] = NoID /\ ~writeCompleted'[d]
  BY <1>1, <1>3, Zenon DEF OthersStay
<1>11. /\ (~Current => outstanding = {} /\ Answers = {})'
       /\ (\A q, x \in outstanding : q.id = x.id => q = x)'
       /\ (\A q \in outstanding, x \in Answers : q.id # x.id)'
       /\ (pipes => active)' /\ Distinct(incoming')
  BY <1>1, <1>5, Zenon DEF Wire
<1>12. \A x \in (outstanding \cup Answers)' : x.id \in retiredResponseIDs'
  BY <1>1, <1>5, <1>6, Zenon
<1> QED
  BY <1>8, <1>9, <1>10, <1>11, <1>12, ZenonT(30) DEF Wire

(* The step of a command, action by action. *)
LEMMA WireOfCommand ==
    ASSUME Kinds, Slot, Wire, NEW c \in Commands, Command(c) \/ ConnectionTTL(c) \/ DeadlinePasses(c)
    PROVE  Wire'
<1>o. OthersStay(c)
  BY OthersAreLeftAlone
<1>s. Stage(c) /\ (lockHeld[c] => physicalGeneration[c] = generation)
  BY Zenon DEF Slot, Stage
<1>a. ASSUME UNCHANGED <<incoming, outstanding, retiredResponseIDs, generation, gen, active, pipes>>
      PROVE  WireStays /\ Distinct(incoming')
  BY <1>a, Zenon DEF WireStays, Answers, Wire
<1>n. NoID \notin retiredResponseIDs /\ expectedID[c] \notin retiredResponseIDs
  BY ZenonT(30) DEF Wire
\* c's connection stays as it is
<1>k. ASSUME UNCHANGED <<lockHeld, writeCompleted, expectedID>>,
             Waiting(c) => pc'[c] \in {"reading", "failing", "closing"},
             writeCompleted[c] /\ pc'[c] \in {"reading", "failing"} => pc[c] \in {"reading", "failing"}
      PROVE  KeepsWaiting(c)
  BY <1>k, <1>n, ZenonT(30) DEF KeepsWaiting, Waiting
\* c gives up a connection on which it waits for nothing
<1>r. ASSUME release(c), ~Waiting(c)
      PROVE  KeepsWaiting(c)
  <2>1. writeCompleted'[c] = FALSE /\ expectedID'[c] = NoID
    BY <1>r, Zenon DEF release, Kinds
  <2> QED
    BY <1>r, <1>n, <2>1, Zenon DEF KeepsWaiting
<1>1. CASE GiveUp(c) \/ AcquireSlot(c) \/ ConnectFails(c) \/ BaseConnect(c) \/ DeadlineEnds(c)
           \/ Return(c) \/ ConnectionTTL(c) \/ DeadlinePasses(c)
  <2>1. UNCHANGED <<incoming, outstanding, retiredResponseIDs, generation, gen, active, pipes,
                    lockHeld, writeCompleted, expectedID>>
    BY <1>1, Zenon DEF GiveUp, AcquireSlot, ConnectFails, BaseConnect, DeadlineEnds, Return, ConnectionTTL,
       DeadlinePasses, holdVars, childVars, tableVars
  <2>2. \/ pc[c] \in {"polled", "connecting", "returned"} /\ pc'[c] \in {"done", "connecting", "adopting"}
        \/ pc[c] \in {"connected", "writing", "reading"} /\ pc'[c] = "failing"
        \/ pc[c] = "reading" /\ pc'[c] = "closing"
        \/ pc'[c] = pc[c]
    BY <1>1, Zenon DEF GiveUp, AcquireSlot, ConnectFails, BaseConnect, DeadlineEnds, Return, ConnectionTTL,
       DeadlinePasses, Goto, Kinds
  <2>3. /\ Waiting(c) => pc'[c] \in {"reading", "failing", "closing"}
        /\ writeCompleted[c] /\ pc'[c] \in {"reading", "failing"} => pc[c] \in {"reading", "failing"}
    BY <1>s, <2>2, Zenon DEF Waiting, Stage
  <2> QED
    BY <1>o, <1>a, <1>k, <2>1, <2>3, WireKept, Zenon
<1>2. CASE WriteLocally(c) \/ WriteFails(c) \/ WriteNotice(c) \/ EnsureNotified(c) \/ EnsureFails(c)
  <2>1. /\ release(c) /\ pc[c] \in {"connected", "writing", "ensuring"}
        /\ UNCHANGED <<incoming, outstanding, retiredResponseIDs, generation, gen, active, pipes>>
    BY <1>2, Zenon DEF WriteLocally, WriteFails, WriteNotice, EnsureNotified, EnsureFails, childVars, tableVars
  <2>2. ~Waiting(c)
    BY <2>1, Zenon DEF Waiting
  <2> QED
    BY <1>o, <1>a, <1>r, <2>1, <2>2, WireKept, Zenon
<1>3. CASE ReadFails(c)
  <2>1. /\ pc[c] = "reading" /\ ~Usable(c) /\ release(c)
        /\ UNCHANGED <<incoming, outstanding, retiredResponseIDs, generation, gen, active, pipes>>
    BY <1>3, Zenon DEF ReadFails, childVars, tableVars
  <2>2. ~Current /\ ~Current'
    BY <1>s, <2>1, Zenon DEF Current, Usable, Stage
  <2>3. outstanding' = {} /\ Answers' = {} /\ Distinct(incoming') /\ (pipes' => active')
    BY <2>1, <2>2, Zenon DEF Wire, Answers
  <2>4. \A d \in Commands : expectedID'[d] \in {expectedID[d], NoID}
    BY <2>1, Zenon DEF release, Kinds
  <2>5. \A d \in Commands : expectedID'[d] \notin retiredResponseIDs'
    BY <2>1, <2>4, Zenon DEF Wire
  <2> QED
    BY <1>n, <2>1, <2>2, <2>3, <2>5, WireIdle, Zenon
<1>4. CASE BeginWrite(c)
  <2>1. wireResponseID(callerID[c]).id \notin retiredResponseIDs
    BY WireIDIsFree, StdioAssumption, Zenon DEF Kinds, NoID
  <2>2. /\ pc[c] = "connected" /\ pc'[c] = "writing" /\ expectedID'[c] \notin retiredResponseIDs
        /\ UNCHANGED <<incoming, outstanding, retiredResponseIDs, generation, gen, active, pipes>>
    BY <1>4, <1>n, <2>1, Zenon DEF BeginWrite, Goto, Kinds, childVars
  <2>3. KeepsWaiting(c)
    BY <2>2, Zenon DEF KeepsWaiting, Waiting
  <2> QED
    BY <1>o, <1>a, <2>2, <2>3, WireKept, Zenon
<1>5. CASE Adopt(c)
  <2>1. /\ pc[c] = "adopting" /\ pc'[c] = "connected" /\ generation' = physicalGeneration[c]
        /\ UNCHANGED <<incoming, outstanding, gen, active, pipes, writeCompleted, expectedID>>
    BY <1>5, Zenon DEF Adopt, Goto, Kinds, childVars
  <2>2. CASE currentGeneration(c)
    <3>1. UNCHANGED <<retiredResponseIDs, generation>>
      BY <1>5, <2>1, <2>2, Zenon DEF Adopt, currentGeneration, tableVars
    <3>2. KeepsWaiting(c)
      BY <1>n, <2>1, Zenon DEF KeepsWaiting, Waiting
    <3> QED
      BY <1>o, <1>a, <2>1, <3>1, <3>2, WireKept, Zenon
  <2>3. CASE ~currentGeneration(c)
    <3>1. retiredResponseIDs' = {}
      BY <1>5, <2>3, Zenon DEF Adopt
    <3>2. ~Current
      <4>1. /\ generation \in Nat /\ gen \in Nat /\ physicalGeneration[c] \in Nat
            /\ generation <= physicalGeneration[c] /\ physicalGeneration[c] <= gen
            /\ physicalGeneration[c] # generation
        BY <1>s, <2>1, <2>3, Zenon DEF currentGeneration, Stage, Kinds
      <4>2. generation # gen
        BY <4>1
      <4> QED BY <4>2, Zenon DEF Current
    <3>3. outstanding' = {} /\ Answers' = {} /\ Distinct(incoming') /\ (pipes' => active')
      BY <2>1, <3>2, Zenon DEF Wire, Answers
    <3>4. \A d \in Commands \ {c} : ~writeCompleted[d]
      BY <2>1, OwnerWaits, Zenon DEF Holds
    <3>5. \A d \in Commands : ~(writeCompleted'[d] /\ pc'[d] \in {"reading", "failing"})
      BY <2>1, <3>4, Zenon
    <3> QED
      BY <3>1, <3>3, <3>5, WireFresh, Zenon
  <2> QED
    BY <2>2, <2>3
<1>6. CASE WriteRequest(c)
  BY <1>o, <1>6, WireSent
<1>7. CASE DropRetired(c)
  <2> DEFINE m == Head(incoming)
  <2>1. /\ incoming # <<>> /\ incoming' = Tail(incoming)
        /\ IF m.type = "response" THEN m.id \in retiredResponseIDs ELSE retiredResponseIDs # {}
        /\ retiredResponseIDs' = retiredResponseIDs \ {m.id}
        /\ UNCHANGED <<outstanding, generation, gen, active, pipes, pc, lockHeld, expectedID, writeCompleted>>
    BY <1>7, Zenon DEF DropRetired, holdVars
  <2>2. Distinct(incoming)
    BY ZenonT(30) DEF Wire
  <2>3. /\ Distinct(incoming')
        /\ m.type # "response" => m.from = NoCommand /\ m.id = NoID /\ Answers' = Answers
        /\ m.type = "response" =>
              m \in Answers /\ Answers' = Answers \ {m} /\ \A x \in Answers' : x.id # m.id
    BY <2>1, <2>2, AnswersTaken, ZenonT(30)
  <2> HIDE DEF m
  <2>4. CASE m.type = "response"
    BY <2>1, <2>3, <2>4, WireDropped, Zenon
  <2>5. CASE m.type # "response"
    <3>1. WireStays
      BY <1>n, <2>1, <2>3, <2>5, ZenonT(30) DEF WireStays
    <3>2. KeepsWaiting(c)
      BY <1>n, <2>1, Zenon DEF KeepsWaiting, Waiting
    <3> QED
      BY <1>o, <2>3, <3>1, <3>2, WireKept, Zenon
  <2> QED
    BY <2>4, <2>5
<1>8. ASSUME NEW m, Receives(c, m)
      PROVE  /\ m.type = "response" => m.id \notin retiredResponseIDs
             /\ pc[c] = "reading" /\ Distinct(incoming')
             /\ m.type # "response" => WireStays
             /\ m.type = "response" =>
                   m \in Answers /\ Answers' = Answers \ {m} /\ \A x \in Answers' : x.id # m.id
             /\ UNCHANGED <<outstanding, retiredResponseIDs, generation, gen, active, pipes>>
  <2>1. /\ incoming # <<>> /\ incoming' = Tail(incoming) /\ pc[c] = "reading" /\ m = Head(incoming)
        /\ m.type = "response" => m.id \notin retiredResponseIDs
        /\ UNCHANGED <<outstanding, retiredResponseIDs, generation, gen, active, pipes>>
    BY <1>8, Zenon DEF Receives, tableVars
  <2>2. Distinct(incoming)
    BY Zenon DEF Wire
  <2>3. /\ Distinct(incoming')
        /\ m.type # "response" => Answers' = Answers
        /\ m.type = "response" =>
              m \in Answers /\ Answers' = Answers \ {m} /\ \A x \in Answers' : x.id # m.id
    BY <2>1, <2>2, AnswersTaken, Zenon
  <2> QED
    BY <2>1, <2>3, Zenon DEF WireStays
<1>9. CASE ForwardNotification(c)
  <2>1. PICK m \in Range(incoming) : m.type = "notification" /\ Receives(c, m)
    BY <1>9, Zenon DEF ForwardNotification
  <2>2. UNCHANGED <<lockHeld, writeCompleted, expectedID, pc>>
    BY <1>9, Zenon DEF ForwardNotification, holdVars
  <2>3. KeepsWaiting(c)
    BY <1>n, <2>2, Zenon DEF KeepsWaiting, Waiting
  <2>4. WireStays /\ Distinct(incoming')
    BY <1>8, <2>1, Zenon
  <2> QED
    BY <1>o, <2>3, <2>4, WireKept, Zenon
<1>10. CASE ReadResponse(c)
  <2>1. PICK m \in Range(incoming) :
          /\ m.type = "response" /\ Receives(c, m)
          /\ \/ UNCHANGED holdVars /\ Goto(c, "ensuring")
             \/ release(c) /\ Goto(c, "done")
    BY <1>10, Zenon DEF ReadResponse
  <2>2. pc'[c] \in {"ensuring", "done"} /\ expectedID'[c] \in {expectedID[c], NoID}
    BY <2>1, Zenon DEF Goto, Kinds, release, holdVars
  <2> QED
    BY <1>o, <1>8, <2>1, <2>2, WireAnswered, Zenon
<1>11. CASE ProtocolFailure(c)
  <2>1. PICK m \in Range(incoming) :
          /\ m.type = "request" \/ (m.type = "response" /\ m.id # expectedID[c])
          /\ Receives(c, m) /\ Goto(c, "failing")
          /\ m.type = "request" => UNCHANGED holdVars
    BY <1>11, Zenon DEF ProtocolFailure
  <2>2. CASE m.type = "request"
    <3>1. UNCHANGED <<lockHeld, writeCompleted, expectedID>> /\ pc'[c] = "failing" /\ pc[c] = "reading"
      BY <2>1, <2>2, Zenon DEF holdVars, Goto, Kinds, Receives
    <3>2. KeepsWaiting(c)
      BY <1>k, <3>1, Zenon
    <3>3. WireStays /\ Distinct(incoming')
      BY <1>8, <2>1, <2>2, Zenon
    <3> QED
      BY <1>o, <3>2, <3>3, WireKept, Zenon
  <2>3. CASE m.type = "response" /\ m.id # expectedID[c]
    <3>1. m \in Answers /\ m.id \notin retiredResponseIDs /\ Holds(c)
      BY <1>8, <1>s, <2>1, <2>3, Zenon DEF Stage, Holds
    <3>2. m.from \in Commands /\ Awaits(m.from, m.id)
      BY <3>1, OwedToCommands, Zenon DEF Wire
    <3>3. m.from = c
      BY <3>1, <3>2, OwnerWaits, Zenon DEF Awaits
    <3> QED
      BY <2>3, <3>2, <3>3, Zenon DEF Awaits
  <2> QED
    BY <2>1, <2>2, <2>3, Zenon
<1>12. CASE RetireResponseDeadline(c)
  <2>1. CASE writeCompleted[c]
    BY <1>o, <1>12, <2>1, WireRetired, Zenon
  <2>2. CASE ~writeCompleted[c]
    <3>1. /\ release(c)
          /\ UNCHANGED <<incoming, outstanding, retiredResponseIDs, generation, gen, active, pipes>>
      BY <1>12, <2>2, ZenonT(30) DEF RetireResponseDeadline, childVars
    <3> QED
      BY <1>o, <1>a, <1>r, <2>2, <3>1, WireKept, ZenonT(30) DEF Waiting
  <2> QED
    BY <2>1, <2>2, Zenon
<1>13. CASE Close(c)
  <2>1. /\ release(c) /\ ClosePipes(c) /\ UNCHANGED <<retiredResponseIDs, generation, gen, active>>
    BY <1>13, Zenon DEF Close, tableVars
  <2>2. \A d \in Commands : expectedID'[d] \in {expectedID[d], NoID}
    BY <2>1, Zenon DEF release, Kinds
  <2>3. (\A d \in Commands : expectedID'[d] \notin retiredResponseIDs') /\ NoID \notin retiredResponseIDs'
    BY <1>n, <2>1, <2>2, Zenon DEF Wire
  <2>4. CASE Usable(c)
    <3>1. pipes' = FALSE /\ incoming' = <<>> /\ outstanding' = {}
      BY <2>1, <2>4, Zenon DEF ClosePipes, DrainPipes
    <3>2. \A s : s = <<>> => Distinct(s) /\ Range(s) = {}
      BY DEF Distinct, Range
    <3>3. Answers' = {} /\ Distinct(incoming')
      BY <3>1, <3>2, Zenon DEF Answers
    <3>4. ~Current' /\ (pipes' => active')
      BY <3>1 DEF Current
    <3> QED
      BY <2>3, <3>1, <3>3, <3>4, WireIdle, Zenon
  <2>5. CASE ~Usable(c)
    <3>1. UNCHANGED <<pipes, incoming, outstanding>>
      BY <2>1, <2>5, Zenon DEF ClosePipes
    <3>2. CASE lockHeld[c]
      <4>1. ~Current /\ ~Current'
        BY <1>s, <2>1, <2>5, <3>1, <3>2, Zenon DEF Current, Usable
      <4>2. outstanding' = {} /\ Answers' = {} /\ Distinct(incoming') /\ (pipes' => active')
        BY <2>1, <3>1, <4>1, Zenon DEF Wire, Answers
      <4> QED
        BY <2>3, <4>1, <4>2, WireIdle, Zenon
    <3>3. CASE ~lockHeld[c]
      BY <1>o, <1>a, <1>r, <2>1, <3>1, <3>3, WireKept, Zenon DEF Waiting
    <3> QED
      BY <3>2, <3>3, Zenon
  <2> QED
    BY <2>4, <2>5
<1> QED
  BY <1>1, <1>2, <1>3, <1>4, <1>5, <1>6, <1>7, <1>9, <1>10, <1>11, <1>12, <1>13, Zenon DEF Command

-----------------------------------------------------------------------------
(* Ready.                                                                  *)

\* An initialize the child still has to answer is not retired.
NotRetired ==
    \A r \in outstanding \cup Answers : r.from \in Initializes => r.id \notin retiredResponseIDs

(* An initialize is never retired. *)
LEMMA InitializeStays ==
    ASSUME Kinds, Wire, Ready
    PROVE  NotRetired
<1>1. \A r \in outstanding \cup Answers : r.from \in Commands
  BY OwedToCommands
<1> QED
  BY <1>1, Zenon DEF NotRetired, Wire, Ready, Awaits

(* A step that completes no handshake and starts none. *)
LEMMA ReadyKept ==
    ASSUME Ready, Wire', NotRetired', NEW c \in Commands, OthersStay(c),
           outstanding' \subseteq outstanding, Answers' \subseteq Answers,
           UNCHANGED <<handshake, gen, early>>, pipes' => pipes,
           initializeSucceeded' => initializeSucceeded, initializationReady' => initializationReady,
           Current' => Current \/ (~initializeSucceeded' /\ ~initializationReady'),
           c \in Legacy /\ pc'[c] = "writing" /\ Usable(c)' => handshake = "ready"
    PROVE  Ready'
<1>1. /\ (Current /\ initializeSucceeded => handshake \in {"answered", "ready"})'
      /\ (Current /\ initializationReady => handshake = "ready")'
      /\ early' = {}
  BY ZenonT(30) DEF Ready
<1>2. ASSUME NEW r \in (outstanding \cup Answers)', r.from \in Initializes
      PROVE  Awaits(r.from, r.id)' /\ ~initializeSucceeded' /\ ~initializationReady'
  <2>1. r \in outstanding \cup Answers
    BY Zenon
  <2>2. ~initializeSucceeded /\ ~initializationReady
    BY <1>2, <2>1, Zenon DEF Ready
  <2>3. r.id \notin retiredResponseIDs'
    BY <1>2, Zenon DEF NotRetired
  <2>4. r.id \in retiredResponseIDs' \/ Awaits(r.from, r.id)'
    BY <1>2, Zenon DEF Wire
  <2> QED
    BY <2>2, <2>3, <2>4, Zenon
<1>3. (\A m \in Answers : m.from \in Initializes /\ m.ok => handshake \in {"answered", "ready"})'
  BY Zenon DEF Ready
<1>4. ASSUME NEW d \in Legacy, pc'[d] = "writing", Usable(d)' PROVE handshake' = "ready"
  <2>1. CASE d = c
    BY <1>4, <2>1, Zenon
  <2>2. CASE d # c
    <3>1. d \in Commands \ {c}
      BY <2>2, Zenon DEF Legacy, Requests
    <3>2. pc[d] = "writing" /\ Usable(d)
      BY <1>4, <3>1, Zenon DEF OthersStay, Usable
    <3> QED
      BY <3>2, Zenon DEF Ready
  <2> QED
    BY <2>1, <2>2, Zenon
<1> QED
  BY <1>1, <1>2, <1>3, <1>4, Zenon DEF Ready

(* No initialize is owed while the owner of the slot waits for nothing. *)
LEMMA NoInitializeOwed ==
    ASSUME Kinds, Slot, Ready, NEW c \in Commands, Holds(c), ~Waiting(c),
           NEW r \in outstanding \cup Answers
    PROVE  r.from \notin Initializes
<1>1. r.from \in Commands
  BY OwedToCommands, Zenon
<1> QED
  BY <1>1, OwnerWaits, Zenon DEF Ready, Awaits

(* Of an owner that sends no legacy request nobody else sends one. *)
LEMMA OthersDoNotWrite ==
    ASSUME Slot, NEW c \in Commands, Holds(c), OthersStay(c), c \notin Legacy \/ pc'[c] # "writing",
           NEW d \in Legacy
    PROVE  pc'[d] # "writing"
<1>1. CASE d = c
  BY <1>1
<1>2. CASE d # c
  <2>1. d \in Commands /\ d # c
    BY <1>2, Zenon DEF Legacy, Requests
  <2>2. ~lockHeld[d] /\ Stage(d)
    BY <2>1, OwnerWaits, Zenon DEF Slot
  <2> QED
    BY <2>1, <2>2, Zenon DEF OthersStay, Stage
<1> QED
  BY <1>1, <1>2, Zenon

(* notifications/initialized completes the handshake the transport knows of. *)
LEMMA ReadyInitialized ==
    ASSUME Kinds, Slot, Ready, NEW c \in Commands, OthersStay(c), lockHeld[c],
           pc[c] \in {"writing", "ensuring"}, pc'[c] # "writing", ChildInitialized,
           UNCHANGED <<generation, gen, pipes, incoming, outstanding, initializeSucceeded, early>>
    PROVE  Ready'
<1>1. Holds(c) /\ ~Waiting(c) /\ Current' = Current /\ Answers' = Answers
  BY Zenon DEF Holds, Waiting, Current, Answers
<1>2. \A r \in (outstanding \cup Answers)' : r.from \notin Initializes
  BY <1>1, NoInitializeOwed, Zenon
<1>3. \A d \in Legacy : pc'[d] # "writing"
  BY <1>1, OthersDoNotWrite, Zenon
<1>4. /\ (Current /\ initializeSucceeded => handshake \in {"answered", "ready"})'
      /\ (Current /\ initializationReady => handshake = "ready")'
  BY <1>1, Zenon DEF Ready, ChildInitialized
<1> QED
  BY <1>2, <1>3, <1>4, Zenon DEF Ready

(* An initialize that is sent starts the handshake afresh; a legacy request *)
(* is sent to a child that is ready.                                        *)
LEMMA ReadySent ==
    ASSUME Kinds, Slot, Ready, NEW c \in Commands, OthersStay(c), WriteRequest(c)
    PROVE  Ready'
<1> DEFINE q == [from |-> c, id |-> expectedID[c]]
<1>1. /\ pc[c] = "writing" /\ pc'[c] = "reading" /\ Usable(c) /\ writeCompleted'[c] = TRUE
      /\ UNCHANGED <<lockHeld, expectedID, generation, gen, pipes, incoming>>
      /\ outstanding' = outstanding \cup {q}
  BY Zenon DEF WriteRequest, Kinds, Goto
<1>2. /\ c \in Initializes => ResetHandshake(c) /\ handshake' = "none"
      /\ c \notin Initializes => UNCHANGED <<handshakeVars, handshake>>
      /\ early' = IF c \in Legacy /\ handshake # "ready" THEN early \cup {c} ELSE early
  BY Zenon DEF WriteRequest
<1>3. /\ Holds(c) /\ ~Waiting(c) /\ lockHeld[c] /\ currentGeneration(c)
      /\ Current' = Current /\ Answers' = Answers
  BY <1>1, Zenon DEF Slot, Stage, Holds, Waiting, currentGeneration, Current, Answers
<1>4. \A r \in outstanding \cup Answers : r.from \notin Initializes
  BY <1>3, NoInitializeOwed, Zenon
<1>5. \A d \in Legacy : pc'[d] # "writing"
  BY <1>1, <1>3, OthersDoNotWrite, Zenon
<1>6. early' = {}
  BY <1>1, <1>2, Zenon DEF Ready
<1>7. q.from = c /\ q.id = expectedID[c]
  BY Zenon
<1> HIDE DEF q
<1>8. CASE c \in Initializes
  <2>1. ~initializeSucceeded' /\ ~initializationReady'
    BY <1>2, <1>3, <1>8, Zenon DEF ResetHandshake, resetInitialization
  <2>2. Waiting(c)' /\ expectedID'[c] = q.id
    BY <1>1, <1>3, <1>7, Zenon DEF Waiting
  <2>3. \A r \in (outstanding \cup Answers)' : r.from \in Initializes =>
          Awaits(r.from, r.id)' /\ ~initializeSucceeded' /\ ~initializationReady'
    BY <1>1, <1>3, <1>4, <1>7, <2>1, <2>2, Zenon DEF Awaits
  <2>4. \A m \in Answers' : m.from \notin Initializes
    BY <1>3, <1>4, Zenon
  <2> QED
    BY <1>5, <1>6, <2>1, <2>3, <2>4, Zenon DEF Ready
<1>9. CASE c \notin Initializes
  <2>1. \A r \in (outstanding \cup Answers)' : r.from \notin Initializes
    BY <1>1, <1>3, <1>4, <1>7, <1>9, Zenon
  <2>2. UNCHANGED <<initializeSucceeded, initializationReady, handshake>>
    BY <1>2, <1>9, Zenon DEF handshakeVars
  <2> QED
    BY <1>3, <1>5, <1>6, <2>1, <2>2, Zenon DEF Ready
<1> QED
  BY <1>8, <1>9

(* The owner's response is its own, and that of an initialize which         *)
(* succeeded comes from a child that has answered it.                       *)
LEMMA ReadyAnswered ==
    ASSUME Kinds, Slot, Wire, Ready, NEW c \in Commands, OthersStay(c), pc[c] = "reading",
           NEW m \in Answers, m.id \notin retiredResponseIDs,
           Answers' = Answers \ {m}, \A x \in Answers' : x.id # m.id,
           UNCHANGED <<outstanding, handshake, generation, gen, pipes, early, initializationReady>>,
           initializeSucceeded' => initializeSucceeded \/ (c \in Initializes /\ m.ok),
           pc'[c] # "writing"
    PROVE  Ready' /\ m.from = c
<1>1. Holds(c) /\ Current' = Current
  BY Zenon DEF Slot, Stage, Holds, Current
<1>2. \A x \in outstanding \cup Answers : x.from \in Commands
  BY OwedToCommands, ZenonT(30)
<1>3. \A d \in Commands \ {c} : ~Waiting(d)
  BY <1>1, OwnerWaits, ZenonT(30)
<1>4. m.from = c /\ m.id = expectedID[c]
  BY <1>2, <1>3, ZenonT(30) DEF Wire, Awaits
<1>5. \A x \in (outstanding \cup Answers)' : x \in outstanding \cup Answers /\ x.id # m.id
  BY Zenon DEF Wire
<1>6. \A x \in (outstanding \cup Answers)' : x.from \notin Initializes
  BY <1>2, <1>3, <1>4, <1>5, ZenonT(30) DEF Ready, Awaits
<1>7. \A d \in Legacy : pc'[d] # "writing"
  BY <1>1, OthersDoNotWrite, Zenon
<1>8. (Current /\ initializeSucceeded => handshake \in {"answered", "ready"})'
  BY <1>1, <1>4, Zenon DEF Ready
<1>9. (Current /\ initializationReady => handshake = "ready")' /\ early' = {}
  BY <1>1, Zenon DEF Ready
<1> QED
  BY <1>4, <1>6, <1>7, <1>8, <1>9, Zenon DEF Ready

(* What the child does to a handshake. *)
LEMMA ReadyOfChild ==
    ASSUME ~StrayResponses, Kinds, Slot, Wire, Wire', Ready, Child
    PROVE  Ready'
<1>c. UNCHANGED <<connectionVars, early>>
  BY Zenon DEF Child, ChildLost, ChildRestarted, ChildAnswers, ChildSpeaks, historyVars
<1>u. UNCHANGED <<generation, retiredResponseIDs, pc, lockHeld, writeCompleted, expectedID,
                  physicalGeneration, initializeSucceeded, initializationReady, early>>
  BY <1>c, Zenon DEF connectionVars, holdVars, tableVars, handshakeVars
<1>w. \A d \in Commands : Waiting(d)' <=> Waiting(d)
  BY <1>u, Zenon DEF Waiting
<1>1. CASE ChildLost \/ ChildRestarted
  <2>1. ~Current' /\ \A d \in Legacy : ~Usable(d)'
    <3>1. CASE ChildLost
      BY <3>1, Zenon DEF ChildLost, LoseChild, Current, Usable
    <3>2. CASE ChildRestarted
      <4>1. gen' = gen + 1
        BY <3>2, Zenon DEF ChildRestarted
      <4> QED
        <5>1. /\ generation \in Nat /\ gen \in Nat /\ generation <= gen
              /\ \A d \in Legacy : physicalGeneration[d] \in Nat /\ physicalGeneration[d] <= gen
          BY Zenon DEF Slot, Stage, Kinds, Legacy, Requests
        <5>2. \A n \in Nat : n <= gen => n # gen'
          BY <4>1, <5>1
        <5> QED BY <1>u, <5>1, <5>2, Zenon DEF Current, Usable
    <3> QED
      BY <1>1, <3>1, <3>2
  <2>2. outstanding' = {} /\ Answers' = {}
    BY <2>1, Zenon DEF Wire
  <2> QED
    BY <1>u, <2>1, <2>2, Zenon DEF Ready
<1>2. ASSUME NEW r \in outstanding, NEW ok \in BOOLEAN, ChildAnswers(r, ok)
      PROVE  Ready'
  <2> DEFINE m == Response(r, ok)
  <2>1. /\ incoming' = Append(incoming, m) /\ outstanding' = outstanding \ {r}
        /\ UNCHANGED <<gen, pipes>>
        /\ handshake' = IF r.from \in Initializes /\ ok THEN "answered" ELSE handshake
    BY <1>2, Zenon DEF ChildAnswers
  <2>2. m \in Messages /\ m.from = r.from /\ m.id = r.id /\ m.from # NoCommand /\ m.ok = ok
    BY StdioAssumption, Zenon DEF Response, Messages, Requests, Kinds
  <2> HIDE DEF m
  <2>3. Range(incoming') = Range(incoming) \cup {m}
    BY <2>1, <2>2, PutLast, Zenon DEF Kinds
  <2>4. Answers' = Answers \cup {m}
    BY <2>2, <2>3, Zenon DEF Answers
  <2>5. Current' = Current
    BY <1>u, <2>1, Zenon DEF Current
  <2>6. \A x \in (outstanding \cup Answers)' : \E y \in outstanding \cup Answers : y.from = x.from /\ y.id = x.id
    BY <2>1, <2>2, <2>4, Zenon
  <2>7. \A x \in outstanding \cup Answers : x.from \in Commands
    BY OwedToCommands
  <2>8. ASSUME NEW x \in (outstanding \cup Answers)', x.from \in Initializes
        PROVE  Awaits(x.from, x.id)' /\ ~initializeSucceeded' /\ ~initializationReady'
    <3>1. PICK y \in outstanding \cup Answers : y.from = x.from /\ y.id = x.id
      BY <2>6, Zenon
    <3> QED
      BY <1>u, <1>w, <2>7, <2>8, <3>1, Zenon DEF Ready, Awaits
  <2>9. CASE r.from \in Initializes
    <3>1. r.from \in Commands /\ Waiting(r.from) /\ ~initializeSucceeded /\ ~initializationReady
      BY <2>7, <2>9, Zenon DEF Ready, Awaits
    <3>2. \A d \in Legacy : ~(pc[d] = "writing")
      <4>1. ASSUME NEW d \in Legacy, pc[d] = "writing" PROVE FALSE
        <5>1. d \in Commands /\ d # r.from
          BY <2>9, Zenon DEF Legacy, Requests
        <5>2. Holds(r.from)
          BY <3>1, Zenon DEF Waiting, Holds
        <5>3. ~lockHeld[d] /\ Stage(d)
          BY <3>1, <5>1, <5>2, OwnerWaits, Zenon DEF Slot
        <5> QED
          BY <4>1, <5>3, Zenon DEF Stage
      <4> QED
        BY <4>1
    <3>3. ASSUME NEW x \in Answers', x.from \in Initializes, x.ok
          PROVE  handshake' \in {"answered", "ready"}
      <4>1. CASE x \in Answers
        <5>1. handshake \in {"answered", "ready"}
          BY <3>3, <4>1, Zenon DEF Ready
        <5> QED
          BY <2>1, <5>1, Zenon
      <4>2. CASE x = m
        BY <2>1, <2>2, <2>9, <3>3, <4>2, Zenon
      <4> QED
        BY <2>4, <4>1, <4>2, Zenon
    <3>4. early' = {}
      BY <1>u, Zenon DEF Ready
    <3> QED
      BY <1>u, <2>8, <3>1, <3>2, <3>3, <3>4, Zenon DEF Ready
  <2>10. CASE r.from \notin Initializes
    <3>1. UNCHANGED handshake /\ \A d \in Legacy : Usable(d)' <=> Usable(d)
      BY <1>u, <2>1, <2>10, Zenon DEF Usable
    <3>2. \A x \in Answers' : x.from \in Initializes => x \in Answers
      BY <2>2, <2>4, <2>10, Zenon
    <3>3. \A x \in Answers' : x.from \in Initializes /\ x.ok => handshake' \in {"answered", "ready"}
      BY <3>1, <3>2, Zenon DEF Ready
    <3>4. \A d \in Legacy : pc'[d] = "writing" /\ Usable(d)' => handshake' = "ready"
      BY <1>u, <3>1, Zenon DEF Ready
    <3>5. /\ (Current /\ initializeSucceeded => handshake \in {"answered", "ready"})'
          /\ (Current /\ initializationReady => handshake = "ready")' /\ early' = {}
      BY <1>u, <2>5, <3>1, Zenon DEF Ready
    <3> QED
      BY <2>8, <3>3, <3>4, <3>5, Zenon DEF Ready
  <2> QED
    BY <2>9, <2>10
<1>3. ASSUME NEW m \in Unsolicited, ChildSpeaks(m)
      PROVE  Ready'
  <2>1. incoming' = Append(incoming, m) /\ UNCHANGED <<gen, pipes, outstanding, handshake>>
    BY <1>3, Zenon DEF ChildSpeaks
  <2>2. m \in Messages /\ m.from = NoCommand
    BY OwnAccord
  <2>3. Range(incoming') = Range(incoming) \cup {m}
    BY <2>1, <2>2, PutLast, Zenon DEF Kinds
  <2>4. Answers' = Answers /\ Current' = Current
    BY <1>u, <2>1, <2>2, <2>3, Zenon DEF Answers, Current
  <2>5. \A x \in outstanding \cup Answers : x.from \in Commands
    BY OwedToCommands, Zenon
  <2>6. \A d \in Legacy : Usable(d)' <=> Usable(d)
    BY <1>u, <2>1, Zenon DEF Usable
  <2>7. \A x \in (outstanding \cup Answers)' : x.from \in Initializes =>
          Awaits(x.from, x.id)' /\ ~initializeSucceeded' /\ ~initializationReady'
    BY <1>u, <1>w, <2>1, <2>4, <2>5, Zenon DEF Ready, Awaits
  <2> QED
    BY <1>u, <2>1, <2>4, <2>6, <2>7, Zenon DEF Ready
<1> QED
  BY <1>1, <1>2, <1>3, Zenon DEF Child

(* The step of a command, action by action. *)
LEMMA ReadyOfCommand ==
    ASSUME Kinds, Slot, Wire, Wire', Ready, OwnResponse, NEW c \in Commands,
           Command(c) \/ ConnectionTTL(c) \/ DeadlinePasses(c)
    PROVE  Ready' /\ (\A d \in Commands : answer'[d] \in {d, NoCommand})
<1>o. OthersStay(c)
  BY OthersAreLeftAlone, Zenon
<1>s. Stage(c)
  BY Zenon DEF Slot
<1>n. NotRetired
  BY InitializeStays
<1>d. \A d \in Commands : answer[d] \in {d, NoCommand}
  BY Zenon DEF OwnResponse, Everyone, Kinds
<1>q. ASSUME outstanding' \subseteq outstanding, Answers' \subseteq Answers,
             retiredResponseIDs' \subseteq retiredResponseIDs
      PROVE  NotRetired'
  BY <1>n, <1>q, Zenon DEF NotRetired
<1>r. ResetHandshake(c) \/ resetInitialization \/ UNCHANGED handshakeVars =>
         /\ initializeSucceeded' => initializeSucceeded
         /\ initializationReady' => initializationReady
  BY DEF ResetHandshake, resetInitialization, handshakeVars
\* nothing moves on the pipes
<1>k. ASSUME UNCHANGED <<incoming, outstanding, retiredResponseIDs, generation, gen, pipes, handshake,
                         early>>,
             ResetHandshake(c) \/ resetInitialization \/ UNCHANGED handshakeVars,
             c \in Legacy /\ pc'[c] = "writing" /\ Usable(c)' => handshake = "ready"
      PROVE  Ready'
  <2>1. outstanding' \subseteq outstanding /\ Answers' \subseteq Answers /\ Current' = Current
    BY <1>k, Zenon DEF Answers, Current
  <2>2. NotRetired'
    BY <1>k, <1>q, <2>1, Zenon
  <2> QED
    BY <1>k, <1>o, <1>r, <2>1, <2>2, ReadyKept, Zenon
<1>1. CASE GiveUp(c) \/ AcquireSlot(c) \/ ConnectFails(c) \/ BaseConnect(c) \/ DeadlineEnds(c)
           \/ Return(c) \/ ConnectionTTL(c) \/ WriteLocally(c)
  <2>1. /\ UNCHANGED <<incoming, outstanding, retiredResponseIDs, generation, gen, pipes, handshake,
                       early, answer>>
        /\ resetInitialization \/ UNCHANGED handshakeVars
        /\ pc'[c] # "writing"
    BY <1>1, Zenon DEF GiveUp, AcquireSlot, ConnectFails, BaseConnect, DeadlineEnds, Return, ConnectionTTL,
       WriteLocally, childVars, tableVars, historyVars, Goto, Kinds
  <2> QED
    BY <1>d, <1>k, <2>1, Zenon
<1>2. CASE WriteFails(c) \/ ReadFails(c) \/ EnsureFails(c)
  <2>1. /\ UNCHANGED <<incoming, outstanding, retiredResponseIDs, generation, gen, pipes, handshake, early>>
        /\ pc'[c] # "writing"
    BY <1>2, Zenon DEF WriteFails, ReadFails, EnsureFails, childVars, tableVars, Goto, Kinds
  <2>2. ResetHandshake(c) \/ resetInitialization \/ UNCHANGED handshakeVars
    BY <1>2, Zenon DEF WriteFails, ReadFails, EnsureFails
  <2>3. \A d \in Commands : answer'[d] \in {answer[d], NoCommand}
    BY <1>2, Zenon DEF WriteFails, ReadFails, EnsureFails, Kinds
  <2> QED
    BY <1>d, <1>k, <2>1, <2>2, <2>3, ZenonT(30)
<1>3. CASE DeadlinePasses(c)
  <2>1. UNCHANGED <<incoming, outstanding, retiredResponseIDs, generation, gen, pipes, handshake,
                    early, answer, handshakeVars, pc, physicalGeneration>>
    BY <1>3, Zenon DEF DeadlinePasses, childVars, tableVars, historyVars
  <2>2. c \in Legacy /\ pc'[c] = "writing" /\ Usable(c)' => handshake = "ready"
    BY <2>1, Zenon DEF Usable, Ready
  <2> QED
    BY <1>d, <1>k, <2>1, <2>2, ZenonT(30)
<1>4. CASE BeginWrite(c)
  <2>1. /\ UNCHANGED <<incoming, outstanding, retiredResponseIDs, generation, gen, pipes, handshake,
                       early, answer, handshakeVars, physicalGeneration>>
        /\ pc[c] = "connected" /\ ~rejectBeforeInitialization(c)
    BY <1>4, Zenon DEF BeginWrite, childVars, historyVars
  <2>2. ASSUME c \in Legacy, Usable(c)' PROVE handshake = "ready"
    <3>1. initializationReady
      BY <2>1, <2>2, Zenon DEF rejectBeforeInitialization
    <3>2. Current
      BY <1>s, <2>1, <2>2, ZenonT(30) DEF Current, Usable, Stage
    <3> QED
      BY <3>1, <3>2, Zenon DEF Ready
  <2> QED
    BY <1>d, <1>k, <2>1, <2>2, Zenon
<1>5. CASE Adopt(c)
  <2>1. /\ UNCHANGED <<incoming, outstanding, gen, pipes, handshake, early, answer>>
        /\ pc[c] = "adopting" /\ pc'[c] # "writing" /\ generation' = physicalGeneration[c]
    BY <1>5, Zenon DEF Adopt, childVars, historyVars, Goto, Kinds
  <2>2. CASE currentGeneration(c)
    <3>1. UNCHANGED <<retiredResponseIDs, generation, handshakeVars>>
      BY <1>5, <2>1, <2>2, Zenon DEF Adopt, currentGeneration, tableVars
    <3> QED
      BY <1>d, <1>k, <2>1, <3>1, Zenon
  <2>3. CASE ~currentGeneration(c)
    <3>1. /\ retiredResponseIDs' = {} /\ ~initializeSucceeded' /\ ~initializationReady'
      BY <1>5, <2>3, Zenon DEF Adopt, resetInitialization
    <3>2. outstanding' \subseteq outstanding /\ Answers' \subseteq Answers
      BY <2>1, Zenon DEF Answers
    <3>3. NotRetired'
      BY <1>q, <3>1, <3>2, Zenon
    <3> QED
      BY <1>o, <1>d, <2>1, <3>1, <3>2, <3>3, ReadyKept, Zenon
  <2> QED
    BY <2>2, <2>3, ZenonT(30)
<1>6. CASE WriteRequest(c)
  <2>1. UNCHANGED answer
    BY <1>6, ZenonT(30) DEF WriteRequest
  <2> QED
    BY <1>o, <1>d, <1>6, <2>1, ReadySent, Zenon
<1>7. CASE WriteNotice(c) \/ EnsureNotified(c)
  <2>1. /\ pc[c] \in {"writing", "ensuring"} /\ pc'[c] # "writing" /\ ChildInitialized
        /\ UNCHANGED <<generation, gen, pipes, incoming, outstanding, initializeSucceeded, early, answer>>
    BY <1>7, Zenon DEF WriteNotice, EnsureNotified, Goto, Kinds
  <2>2. lockHeld[c]
    BY <1>s, <2>1, Zenon DEF Stage
  <2> QED
    BY <1>o, <1>d, <2>1, <2>2, ReadyInitialized, ZenonT(30)
\* a message is taken and nobody is answered
<1>t. ASSUME incoming # <<>>, incoming' = Tail(incoming), pc[c] = "reading", pc'[c] # "writing",
             retiredResponseIDs' \subseteq retiredResponseIDs,
             UNCHANGED <<outstanding, generation, gen, pipes, handshake, early, handshakeVars>>
      PROVE  Ready'
  <2>1. Answers' \subseteq Answers /\ Current' = Current
    <3>1. Distinct(incoming)
      BY Zenon DEF Wire
    <3>2. Answers' = Answers \/ Answers' = Answers \ {Head(incoming)}
      BY <1>t, <3>1, AnswersTaken, Zenon
    <3> QED
      BY <1>t, <3>2, Zenon DEF Current
  <2>2. NotRetired'
    BY <1>t, <1>q, <2>1, Zenon
  <2>3. /\ initializeSucceeded' => initializeSucceeded
        /\ initializationReady' => initializationReady
    BY <1>t, <1>r, Zenon
  <2>4. outstanding' \subseteq outstanding
    BY <1>t, Zenon
  <2> QED
    BY <1>t, <1>o, <2>1, <2>2, <2>3, <2>4, ReadyKept, Zenon
<1>8. CASE DropRetired(c) \/ ForwardNotification(c) \/ ProtocolFailure(c)
  <2>1. /\ incoming # <<>> /\ incoming' = Tail(incoming) /\ pc[c] = "reading" /\ pc'[c] # "writing"
        /\ retiredResponseIDs' \subseteq retiredResponseIDs
        /\ UNCHANGED <<outstanding, generation, gen, pipes, handshake, early, handshakeVars, answer>>
    BY <1>8, Zenon DEF DropRetired, ForwardNotification, ProtocolFailure, Receives, tableVars, historyVars,
       Goto, Kinds
  <2> QED
    BY <1>d, <1>t, <2>1, Zenon
<1>9. CASE ReadResponse(c)
  <2>1. PICK m \in Range(incoming) :
          /\ m.type = "response" /\ Receives(c, m)
          /\ answer' = [answer EXCEPT ![c] = m.from]
          /\ initializeSucceeded' = (initializeSucceeded \/ (c \in Initializes /\ m.ok))
          /\ Goto(c, "ensuring") \/ Goto(c, "done")
          /\ UNCHANGED initializationReady
    BY <1>9, Zenon DEF ReadResponse
  <2>2. /\ incoming # <<>> /\ m = Head(incoming) /\ incoming' = Tail(incoming)
        /\ pc[c] = "reading" /\ m.id \notin retiredResponseIDs
        /\ UNCHANGED <<outstanding, handshake, generation, gen, pipes, early>>
    BY <2>1, Zenon DEF Receives
  <2>3. Distinct(incoming)
    BY Zenon DEF Wire
  <2>4. m \in Answers /\ Answers' = Answers \ {m} /\ \A x \in Answers' : x.id # m.id
    BY <2>1, <2>2, <2>3, AnswersTaken, Zenon
  <2>5. pc'[c] # "writing"
    BY <2>1, Zenon DEF Goto, Kinds
  <2>6. initializeSucceeded' => initializeSucceeded \/ (c \in Initializes /\ m.ok)
    BY <2>1, Zenon
  <2>7. Ready' /\ m.from = c
    BY <1>o, <2>1, <2>2, <2>4, <2>5, <2>6, ReadyAnswered, Zenon
  <2>8. answer' = [answer EXCEPT ![c] = c]
    BY <2>1, <2>7, Zenon
  <2>9. \A d \in Commands : answer'[d] \in {d, NoCommand}
    BY <1>d, <2>8, Zenon DEF Kinds
  <2> QED
    BY <2>7, <2>9, Zenon
<1>10. CASE RetireResponseDeadline(c)
  <2>1. /\ UNCHANGED <<incoming, outstanding, generation, gen, pipes, handshake, early, handshakeVars, answer>>
        /\ pc'[c] # "writing" /\ Retirable(c)
        /\ retiredResponseIDs' = IF writeCompleted[c] THEN retiredResponseIDs \cup {expectedID[c]}
                                                      ELSE retiredResponseIDs
    BY <1>10, Zenon DEF RetireResponseDeadline, childVars, historyVars, Goto, Kinds
  <2>2. CASE ~writeCompleted[c]
    BY <1>d, <1>k, <2>1, <2>2, Zenon
  <2>3. CASE writeCompleted[c]
    <3>1. lockHeld[c] /\ c \notin Initializes
      BY <1>s, <2>1, <2>3, Zenon DEF Stage, Retirable
    <3>2. ASSUME NEW r \in outstanding \cup Answers PROVE r.from \notin Initializes
      <4>1. r.from \in Commands /\ Holds(c)
        BY <3>1, OwedToCommands, Zenon DEF Holds
      <4> QED
        BY <3>1, <4>1, OwnerWaits, Zenon DEF Ready, Awaits
    <3>3. Answers' = Answers /\ Current' = Current /\ outstanding' = outstanding
      BY <2>1, ZenonT(30) DEF Answers, Current
    <3>4. NotRetired'
      BY <3>2, <3>3, Zenon DEF NotRetired
    <3> QED
      BY <1>o, <1>d, <1>r, <2>1, <3>3, <3>4, ReadyKept, Zenon
  <2> QED
    BY <2>2, <2>3, ZenonT(30)
<1>11. CASE Close(c)
  <2>1. /\ UNCHANGED <<retiredResponseIDs, generation, gen, handshake, early, answer>>
        /\ pc'[c] # "writing" /\ ResetHandshake(c) /\ ClosePipes(c)
    BY <1>11, Zenon DEF Close, historyVars, tableVars, Goto, Kinds
  <2>2. CASE Usable(c)
    <3>1. pipes' = FALSE /\ outstanding' = {}
      BY <2>1, <2>2, Zenon DEF ClosePipes, DrainPipes
    <3>2. ~Current'
      BY <3>1, Zenon DEF Current
    <3>3. outstanding' \subseteq outstanding /\ Answers' \subseteq Answers
      BY <3>2, Zenon DEF Wire
    <3>4. NotRetired'
      BY <1>q, <2>1, <3>3, Zenon
    <3> QED
      BY <1>o, <1>d, <1>r, <2>1, <3>1, <3>2, <3>3, <3>4, ReadyKept, ZenonT(30)
  <2>3. CASE ~Usable(c)
    <3>1. UNCHANGED <<pipes, incoming, outstanding>>
      BY <2>1, <2>3, Zenon DEF ClosePipes
    <3> QED
      BY <1>d, <1>k, <2>1, <3>1, ZenonT(30)
  <2> QED
    BY <2>2, <2>3, Zenon
<1> QED
  BY <1>1, <1>2, <1>3, <1>4, <1>5, <1>6, <1>7, <1>8, <1>9, <1>10, <1>11, ZenonT(60) DEF Command

-----------------------------------------------------------------------------
(* The invariant holds, and gives the properties.                          *)

(* Nothing is in the empty sequence. *)
LEMMA EmptySequence ==
    ASSUME NEW s, s = <<>>
    PROVE  Range(s) = {} /\ s \in Seq(Messages) /\ Distinct(s)
BY DEF Range, Distinct

LEMMA BindingInit == Init => BindingInv
<1> SUFFICES ASSUME Init PROVE BindingInv
  OBVIOUS
<1> USE StdioAssumption DEF Init
<1>1. incoming = <<>> /\ Range(incoming) = {} /\ incoming \in Seq(Messages)
  BY EmptySequence, Zenon
<1>2. Answers = {} /\ Sound(incoming) /\ Distinct(incoming)
  BY <1>1, EmptySequence, Zenon DEF Answers, Sound
<1>3. Bounded(retiredResponseIDs)
  BY StaysBounded, Zenon
<1>4. Kinds
  BY <1>1, <1>2, <1>3, Zenon DEF Kinds, NoID, Places
<1>h. \A c \in Commands : ~Holds(c)
  BY Zenon DEF Holds
<1>z. 0 <= 1 /\ 0 <= 0
  OBVIOUS
<1>t. \A c \in Commands : Stage(c)
  BY <1>z, Zenon DEF Stage
<1>5. Slot
  BY <1>h, <1>t, <1>z, Zenon DEF Slot
<1>6. Wire
  BY <1>2, Zenon DEF Wire
<1>7. Ready
  BY <1>2, Zenon DEF Ready, Legacy, Requests
<1>8. OwnResponse
  BY Zenon DEF OwnResponse, Everyone
<1> QED
  BY <1>4, <1>5, <1>6, <1>7, <1>8, Zenon DEF BindingInv

LEMMA BindingStep ==
    ASSUME ~StrayResponses, BindingInv, [Next]_vars
    PROVE  BindingInv'
<1> USE DEF BindingInv
<1>1. CASE Child
  <2>1. Kinds' /\ Slot' /\ Wire'
    BY <1>1, KindsOfChild, SlotOfChild, WireOfChild, Zenon
  <2>2. Ready'
    BY <1>1, <2>1, ReadyOfChild, Zenon
  <2>3. UNCHANGED <<pc, answer>>
    BY <1>1 DEF Child, ChildLost, ChildRestarted, ChildAnswers, ChildSpeaks, connectionVars, historyVars
  <2>4. OwnResponse'
    BY <2>3 DEF OwnResponse, Everyone
  <2> QED
    BY <2>1, <2>2, <2>4, Zenon
<1>2. ASSUME NEW c \in Commands, Command(c) \/ ConnectionTTL(c) \/ DeadlinePasses(c)
      PROVE  BindingInv'
  <2>1. Kinds' /\ Slot' /\ Wire'
    BY <1>2, KindsOfCommand, SlotOfCommand, WireOfCommand
  <2>2. Ready' /\ \A d \in Commands : answer'[d] \in {d, NoCommand}
    BY <1>2, <2>1, ReadyOfCommand, Zenon
  <2>3. DOMAIN pc' = Commands
    BY <2>1 DEF Kinds
  <2>4. OwnResponse'
    BY <2>2, <2>3, Zenon DEF OwnResponse, Everyone
  <2> QED
    BY <2>1, <2>2, <2>4
<1>3. CASE UNCHANGED vars
  <2>1. UNCHANGED <<lifecycleSlot, lockHeld, expectedID, writeCompleted, generation, retiredResponseIDs,
                    nextAliasedID, initializeSucceeded, initializationReady, pc, physicalGeneration, callerID>>
    BY <1>3 DEF vars, connectionVars, holdVars, tableVars, handshakeVars, inputVars
  <2>2. UNCHANGED <<gen, active, pipes, incoming, outstanding, handshake, answer, early>>
    BY <1>3 DEF vars, childVars, historyVars
  <2>3. UNCHANGED <<Current, Answers>>
    BY <2>1, <2>2 DEF Current, Answers
  <2>4. Kinds'
    BY <2>1, <2>2 DEF Kinds
  <2>5. Slot'
    BY <2>1, <2>2, Zenon DEF Slot, Stage, Holds
  <2>6. Wire'
    BY <2>1, <2>2, <2>3, ZenonT(30) DEF Wire, Awaits, Waiting
  <2>7. Ready'
    BY <2>1, <2>2, <2>3, Zenon DEF Ready, Awaits, Waiting, Usable
  <2>8. OwnResponse'
    BY <2>1, <2>2, Zenon DEF OwnResponse, Everyone
  <2> QED
    BY <2>4, <2>5, <2>6, <2>7, <2>8
<1> QED
  BY <1>1, <1>2, <1>3, Zenon DEF Next, Quiet

(* What is owed on the pipes, as a set of requests. *)
LEMMA OwedBy ==
    ASSUME Kinds
    PROVE  /\ \A r \in Owed : \E x \in outstanding \cup Answers : r.from = x.from /\ r.id = x.id
           /\ \A x \in outstanding \cup Answers : \E r \in Owed : r.from = x.from /\ r.id = x.id
<1> DEFINE Sent(m) == [from |-> m.from, id |-> m.id]
<1>1. Owed = outstanding \cup {Sent(m) : m \in Answers}
  BY Zenon DEF Owed, Answers
<1>2. \A m \in Answers : Sent(m).from = m.from /\ Sent(m).id = m.id
  OBVIOUS
<1> HIDE DEF Sent
<1>3. ASSUME NEW r \in Owed
      PROVE  \E x \in outstanding \cup Answers : r.from = x.from /\ r.id = x.id
  BY <1>1, <1>2
<1>4. ASSUME NEW x \in outstanding \cup Answers
      PROVE  \E r \in Owed : r.from = x.from /\ r.id = x.id
  BY <1>1, <1>2
<1> QED
  BY <1>3, <1>4

(* The invariant says what the properties say. *)
LEMMA BindingIsOwn ==
    ASSUME BindingInv
    PROVE  AnswerIsOwn
<1> USE DEF BindingInv
<1>1. Everyone = Commands
  BY DEF Everyone, Kinds
<1>2. OneLifecycle
  BY <1>1, Zenon DEF OneLifecycle, Slot, Stage, currentGeneration
<1>3. ASSUME Current
      PROVE  /\ \A r \in Owed : \/ r.id \in retiredResponseIDs
                                \/ /\ lockHeld[r.from] /\ writeCompleted[r.from]
                                   /\ expectedID[r.from] = r.id
             /\ \A id \in retiredResponseIDs : \E r \in Owed : r.id = id
             /\ \A c \in Commands : lockHeld[c] => expectedID[c] \notin retiredResponseIDs
  <2>w. /\ \A x \in outstanding \cup Answers : x.id \in retiredResponseIDs \/ Awaits(x.from, x.id)
        /\ \A id \in retiredResponseIDs : \E x \in outstanding \cup Answers : x.id = id
        /\ \A c \in Commands : expectedID[c] \notin retiredResponseIDs
    BY <1>3, Zenon DEF Wire
  <2>1. ASSUME NEW r \in Owed
        PROVE  \/ r.id \in retiredResponseIDs
               \/ lockHeld[r.from] /\ writeCompleted[r.from] /\ expectedID[r.from] = r.id
    <3>1. PICK x \in outstanding \cup Answers : r.from = x.from /\ r.id = x.id
      BY OwedBy, Zenon
    <3> QED
      BY <2>w, <3>1, Zenon DEF Awaits, Waiting
  <2>2. ASSUME NEW id \in retiredResponseIDs PROVE \E r \in Owed : r.id = id
    <3>1. PICK x \in outstanding \cup Answers : x.id = id
      BY <2>w, Zenon
    <3> QED
      BY <3>1, OwedBy, Zenon
  <2> QED
    BY <2>w, <2>1, <2>2, Zenon
<1>4. ASSUME NEW q \in Owed, NEW r \in Owed, q.id = r.id
      PROVE  q = r
  <2> DEFINE Sent(m) == [from |-> m.from, id |-> m.id]
  <2>1. Owed = outstanding \cup {Sent(m) : m \in Answers}
    BY Zenon DEF Owed, Answers
  <2>2. \A m \in Answers : Sent(m).id = m.id
    OBVIOUS
  <2>3. ASSUME NEW m \in Answers, NEW n \in Answers, m.id = n.id PROVE m = n
    <3>1. \A i, j \in DOMAIN incoming :
              incoming[i].from # NoCommand /\ incoming[j].from # NoCommand
                /\ incoming[i].id = incoming[j].id => i = j
      BY Zenon DEF Wire, Distinct
    <3>2. PICK i \in DOMAIN incoming : m = incoming[i]
      BY DEF Answers, Range
    <3>3. PICK j \in DOMAIN incoming : n = incoming[j]
      BY DEF Answers, Range
    <3>4. m.from # NoCommand /\ n.from # NoCommand
      BY ZenonT(30) DEF Answers
    <3> QED
      BY <2>3, <3>1, <3>2, <3>3, <3>4
  <2> HIDE DEF Sent
  <2>4. CASE q \in outstanding /\ r \in outstanding
    BY <1>4, <2>4 DEF Wire
  <2>5. CASE q \in outstanding /\ r \in {Sent(m) : m \in Answers}
    BY <1>4, <2>2, <2>5 DEF Wire
  <2>6. CASE r \in outstanding /\ q \in {Sent(m) : m \in Answers}
    BY <1>4, <2>2, <2>6 DEF Wire
  <2>7. CASE q \in {Sent(m) : m \in Answers} /\ r \in {Sent(m) : m \in Answers}
    BY <1>4, <2>2, <2>3, <2>7
  <2> QED
    BY <2>1, <2>4, <2>5, <2>6, <2>7
<1>5. OwedIsExpectedOrRetired
  BY <1>1, <1>3, <1>4 DEF OwedIsExpectedOrRetired, Current
<1> QED
  BY <1>2, <1>5 DEF AnswerIsOwn

(* BindingInv is an invariant of the binding, for every set of commands,    *)
(* every choice of callers' IDs and any limit of the retired table, as long *)
(* as the child answers only what it was asked.                             *)
THEOREM BindingInvariant ==
    ASSUME ~StrayResponses
    PROVE  Spec => []BindingInv
<1>1. Init => BindingInv
  BY BindingInit
<1>2. BindingInv /\ [Next]_vars => BindingInv'
  BY BindingStep
<1> QED
  BY <1>1, <1>2, PTL DEF Spec

(* One lifecycle at a time owns the pipes, every response that may still    *)
(* come is the owner's or retired, and so the response posted for a command *)
(* is the child's answer to that command's own request.                     *)
THEOREM AnswerIsOwnThm ==
    ASSUME ~StrayResponses
    PROVE  Spec => []AnswerIsOwn
<1>1. BindingInv => AnswerIsOwn
  BY BindingIsOwn
<1> QED
  BY <1>1, BindingInvariant, PTL

(* No legacy request reaches a child whose handshake is not complete.       *)
THEOREM GuardedUntilReadyThm ==
    ASSUME ~StrayResponses
    PROVE  Spec => []GuardedUntilReady
<1>1. BindingInv => GuardedUntilReady
  BY DEF BindingInv, Ready, GuardedUntilReady
<1> QED
  BY <1>1, BindingInvariant, PTL

=============================================================================

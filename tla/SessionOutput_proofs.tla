------------------------ MODULE SessionOutput_proofs ------------------------
(***************************************************************************)
(* Proofs about SessionOutput: for any chunk size and channel capacity and *)
(* any amount of output, what the scrollback task stores is in order,      *)
(* packed, complete and only ever extended, and a client that recovers     *)
(* sees nothing twice.                                                     *)
(***************************************************************************)
EXTENDS SessionOutput, SequenceTheorems, WellFoundedInduction, TLAPS

\* The types of what the storing of output depends on.
StoreType ==
  /\ sent \in Seq(Seq(Nat))
  /\ DOMAIN chunks \subseteq Nat
  /\ \A i \in DOMAIN chunks : chunks[i] \in Seq(Nat)
  /\ saver \in Saver

\* Messages are not empty, and their bytes ascend from message to message.
SentInOrder ==
  \A p \in 1..Len(sent) :
    /\ sent[p] # <<>>
    /\ Increasing(sent[p])
    /\ \A q \in 1..Len(sent) : p < q => Before(sent[p], sent[q])

\* Stored bytes come before those in the hands of append, and both before the
\* messages the task has still to receive.
SaverOrder ==
  /\ Increasing(saver.rest)
  /\ \A i \in DOMAIN chunks : Before(chunks[i], saver.rest)
  /\ saver.pc # "dead" =>
       \A p \in 1..Len(sent) : saver.next <= p =>
         /\ Before(saver.rest, sent[p])
         /\ \A i \in DOMAIN chunks : Before(chunks[i], sent[p])

Below(s, n) == \A k \in 1..Len(s) : s[k] <= n

\* No byte is stored or held that was not produced.
OnlyProduced ==
  /\ Produced \in Nat
  /\ \A p \in 1..Len(sent) : Below(sent[p], Produced)
  /\ Below(saver.rest, Produced)
  /\ \A i \in DOMAIN chunks : Below(chunks[i], Produced)

IsLast(i) == i \in DOMAIN chunks /\ \A j \in DOMAIN chunks : j <= i

HasLast == DOMAIN chunks # {} => \E i \in DOMAIN chunks : IsLast(i)

\* What append found out before is true, or the chunks have been deleted.
SaverLocals ==
  /\ saver.pc \in AppendPC => saver.rest # <<>>
  /\ saver.pc \in {"load", "update"} =>
       /\ saver.index \in Nat
       /\ DOMAIN chunks = {} \/ IsLast(saver.index)
  /\ saver.pc = "update" =>
       /\ Len(saver.last) < ChunkSize
       /\ saver.index \in DOMAIN chunks => chunks[saver.index] = saver.last
  /\ saver.pc = "insert" =>
       \/ DOMAIN chunks = {}
       \/ IsLast(saver.index) /\ Len(chunks[saver.index]) = ChunkSize

IInv ==
  /\ StoreType /\ SentInOrder /\ PersistedInOrder /\ ChunksPacked
  /\ SaverOrder /\ OnlyProduced /\ HasLast /\ SaverLocals

-----------------------------------------------------------------------------
\* A sequence cut after n elements.
LEMMA Cut ==
  ASSUME NEW s \in Seq(Nat), NEW n \in 0..Len(s)
  PROVE  /\ SubSeq(s, 1, n) \in Seq(Nat)
         /\ Len(SubSeq(s, 1, n)) = n
         /\ \A k \in 1..n : SubSeq(s, 1, n)[k] = s[k]
         /\ SubSeq(s, n + 1, Len(s)) \in Seq(Nat)
         /\ Len(SubSeq(s, n + 1, Len(s))) = Len(s) - n
         /\ \A k \in 1..Len(s) - n : SubSeq(s, n + 1, Len(s))[k] = s[n + k]
OBVIOUS

\* The parts of an ascending sequence ascend, one after the other.
LEMMA CutOrder ==
  ASSUME NEW s \in Seq(Nat), NEW n \in 0..Len(s), Increasing(s)
  PROVE  /\ Increasing(SubSeq(s, 1, n))
         /\ Increasing(SubSeq(s, n + 1, Len(s)))
         /\ Before(SubSeq(s, 1, n), SubSeq(s, n + 1, Len(s)))
<1> DEFINE a == SubSeq(s, 1, n)
           b == SubSeq(s, n + 1, Len(s))
<1>1. /\ Len(a) = n /\ \A k \in 1..n : a[k] = s[k]
      /\ Len(b) = Len(s) - n /\ \A k \in 1..Len(s) - n : b[k] = s[n + k]
  BY Cut
<1> HIDE DEF a, b
<1>0. n \in Nat /\ Len(s) \in Nat /\ \A k \in 1..Len(s) : s[k] \in Nat
  OBVIOUS
<1>2. Increasing(a)
  <2> SUFFICES ASSUME NEW k \in 1..Len(a), NEW l \in 1..Len(a), k < l PROVE a[k] < a[l]
    BY DEF Increasing
  <2>1. a[k] = s[k] /\ a[l] = s[l] /\ k \in 1..Len(s) /\ l \in 1..Len(s)
    BY <1>0, <1>1
  <2>2. QED BY <2>1 DEF Increasing
<1>3. Increasing(b)
  <2> SUFFICES ASSUME NEW k \in 1..Len(b), NEW l \in 1..Len(b), k < l PROVE b[k] < b[l]
    BY DEF Increasing
  <2>1. b[k] = s[n + k] /\ b[l] = s[n + l] /\ n + k \in 1..Len(s) /\ n + l \in 1..Len(s) /\ n + k < n + l
    BY <1>0, <1>1
  <2>2. QED BY <2>1 DEF Increasing
<1>4. Before(a, b)
  <2> SUFFICES ASSUME NEW k \in 1..Len(a), NEW l \in 1..Len(b) PROVE a[k] < b[l]
    BY DEF Before
  <2>1. a[k] = s[k] /\ b[l] = s[n + l] /\ k \in 1..Len(s) /\ n + l \in 1..Len(s) /\ k < n + l
    BY <1>0, <1>1
  <2>2. QED BY <2>1 DEF Increasing
<1>5. QED BY <1>2, <1>3, <1>4 DEF a, b

\* A sequence with one more element.
Appends(new, old, e) == new = Append(old, e)

LEMMA Appended ==
  ASSUME NEW S, NEW old \in Seq(S), NEW e \in S, NEW new, Appends(new, old, e)
  PROVE  /\ new # <<>> /\ Len(new) = Len(old) + 1 /\ new[Len(old) + 1] = e
         /\ \A k \in 1..Len(old) : new[k] = old[k]
<1>1. Len(new) = Len(old) + 1 /\ Len(old) \in Nat
  BY DEF Appends
<1>2. new[Len(old) + 1] = e
  BY DEF Appends
<1>3. \A k \in 1..Len(old) : new[k] = old[k]
  BY DEF Appends
<1>4. new # <<>>
  BY <1>1
<1>5. QED
  BY <1>1, <1>2, <1>3, <1>4

\* A part of a sequence that ends with it.
IsRest(r, s, skip) == r = SubSeq(s, skip + 1, Len(s))

LEMMA RestIs ==
  ASSUME NEW s \in Seq(Nat), NEW skip \in Nat, skip <= Len(s), NEW r, IsRest(r, s, skip)
  PROVE  /\ r \in Seq(Nat) /\ Len(r) = Len(s) - skip
         /\ \A k \in 1..Len(s) - skip : r[k] = s[skip + k]
<1> DEFINE from == skip + 1
           to == Len(s)
<1>1. from \in Int /\ to \in Int /\ \A i \in from .. to : s[i] \in Nat
  OBVIOUS
<1>2. /\ SubSeq(s, from, to) \in Seq(Nat)
      /\ Len(SubSeq(s, from, to)) = IF from <= to THEN to - from + 1 ELSE 0
      /\ \A i \in 1 .. to - from + 1 : SubSeq(s, from, to)[i] = s[from + i - 1]
  <2> HIDE DEF from, to
  <2>1. QED
    BY <1>1, SubSeqProperties
<1>3. r = SubSeq(s, from, to)
  BY DEF IsRest
<1> DEFINE n == Len(s)
<1>4. n \in Nat /\ to = n /\ from = skip + 1
  OBVIOUS
<1> HIDE DEF from, to, n
<1>5. to - from + 1 = n - skip /\ (IF from <= to THEN to - from + 1 ELSE 0) = n - skip
  <2>1. skip <= n
    BY DEF n
  <2>2. QED
    BY <1>4, <2>1
<1>6. r \in Seq(Nat) /\ Len(r) = n - skip
  BY <1>2, <1>3, <1>5
<1>7. \A k \in 1..n - skip : r[k] = s[skip + k]
  <2> SUFFICES ASSUME NEW k \in 1..n - skip PROVE r[k] = s[skip + k]
    OBVIOUS
  <2>1. from + k - 1 = skip + k
    BY <1>4
  <2>2. r[k] = s[from + k - 1]
    BY <1>2, <1>3, <1>5
  <2>3. QED
    BY <2>1, <2>2
<1>8. QED
  BY <1>6, <1>7 DEF n

\* Two sequences joined.
LEMMA Joined ==
  ASSUME NEW s \in Seq(Nat), NEW t \in Seq(Nat)
  PROVE  /\ s \o t \in Seq(Nat)
         /\ Len(s \o t) = Len(s) + Len(t)
         /\ \A k \in 1..Len(s) : (s \o t)[k] = s[k]
         /\ \A k \in 1..Len(t) : (s \o t)[Len(s) + k] = t[k]
         /\ \A k \in 1..Len(s) + Len(t) : k \in 1..Len(s) \/ k - Len(s) \in 1..Len(t)
OBVIOUS

\* Ascending sequences, the one before the other, joined.
LEMMA JoinedOrder ==
  ASSUME NEW s \in Seq(Nat), NEW t \in Seq(Nat), Increasing(s), Increasing(t), Before(s, t)
  PROVE  Increasing(s \o t)
<1> DEFINE u == s \o t
<1>1. /\ Len(u) = Len(s) + Len(t)
      /\ \A k \in 1..Len(s) : u[k] = s[k]
      /\ \A k \in 1..Len(t) : u[Len(s) + k] = t[k]
  BY Joined
<1> HIDE DEF u
<1>0. Len(s) \in Nat /\ Len(t) \in Nat
  OBVIOUS
<1> SUFFICES ASSUME NEW k \in 1..Len(u), NEW l \in 1..Len(u), k < l PROVE u[k] < u[l]
  BY DEF Increasing, u
<1>2. CASE k \in 1..Len(s) /\ l \in 1..Len(s)
  BY <1>1, <1>2 DEF Increasing
<1>3. CASE k \in 1..Len(s) /\ l \notin 1..Len(s)
  <2>1. l - Len(s) \in 1..Len(t) /\ Len(s) + (l - Len(s)) = l
    BY <1>0, <1>1, <1>3
  <2>2. u[l] = t[l - Len(s)] /\ u[k] = s[k]
    BY <2>1, <1>1, <1>3
  <2>3. QED BY <2>1, <2>2, <1>3 DEF Before
<1>4. CASE k \notin 1..Len(s)
  <2>1. /\ l - Len(s) \in 1..Len(t) /\ Len(s) + (l - Len(s)) = l
        /\ k - Len(s) \in 1..Len(t) /\ Len(s) + (k - Len(s)) = k
        /\ k - Len(s) < l - Len(s)
    BY <1>0, <1>1, <1>4
  <2>2. u[l] = t[l - Len(s)] /\ u[k] = t[k - Len(s)]
    BY <2>1, <1>1
  <2>3. QED BY <2>1, <2>2 DEF Increasing
<1>5. QED BY <1>2, <1>3, <1>4


-----------------------------------------------------------------------------
\* Steps of the client do not concern what is stored.
LEMMA ElsewhereInductive ==
  ASSUME IInv, UNCHANGED <<sent, chunks, saver>>
  PROVE  IInv'
BY DEF IInv, StoreType, SentInOrder, PersistedInOrder, ChunksPacked, SaverOrder, OnlyProduced,
       Produced, HasLast, IsLast, SaverLocals

\* The task's own steps that write nothing keep all that is about the rows and
\* the messages.
LEMMA SaverOnly ==
  ASSUME IInv, UNCHANGED <<sent, chunks>>
  PROVE  /\ SentInOrder' /\ PersistedInOrder' /\ ChunksPacked' /\ HasLast'
         /\ Produced' = Produced
BY DEF IInv, SentInOrder, PersistedInOrder, ChunksPacked, Produced, HasLast, IsLast

\* The record of the task, made and taken apart.
LEMMA SaverTypes ==
  ASSUME NEW p \in SaverPC, NEW n \in Nat \ {0}, NEW r \in Seq(Nat),
         NEW i \in Nat \cup {-1}, NEW l \in Seq(Nat)
  PROVE  [pc |-> p, next |-> n, rest |-> r, index |-> i, last |-> l] \in Saver
BY DEF Saver

LEMMA SaverFields ==
  ASSUME StoreType
  PROVE  /\ saver.pc \in SaverPC
         /\ saver.next \in Nat \ {0}
         /\ saver.rest \in Seq(Nat)
         /\ saver.index \in Nat \cup {-1}
         /\ saver.last \in Seq(Nat)
BY DEF StoreType, Saver

\* The steps of the task between its writes.
LEMMA SaverSubscribeInductive == ASSUME IInv, SaverSubscribe PROVE IInv'
<1> USE DEF IInv, SaverSubscribe, StoreType, Saver
<1>1. StoreType'
  <2>1. saver' = [pc |-> "recv", next |-> End, rest |-> saver.rest,
                  index |-> saver.index, last |-> saver.last]
    OBVIOUS
  <2>2. End \in Nat \ {0} /\ "recv" \in SaverPC
    BY DEF End, SaverPC
  <2>3. QED
    BY <2>1, <2>2, SaverTypes
<1>2. SaverOrder'
  BY DEF SaverOrder, End
<1>3. OnlyProduced' /\ SaverLocals'
  BY SaverOnly DEF OnlyProduced, SaverLocals, AppendPC
<1>4. QED
  BY <1>1, <1>2, <1>3, SaverOnly

LEMMA SaverRecvInductive == ASSUME IInv, SaverRecv PROVE IInv'
<1> USE DEF IInv, SaverRecv, StoreType, Saver
<1>0. saver.next \in 1..Len(sent)
  BY CapacityAssumption DEF CanReceive, Oldest
<1>a. saver' = [pc |-> "max", next |-> saver.next + 1, rest |-> sent[saver.next],
                index |-> saver.index, last |-> saver.last]
  OBVIOUS
<1>1. StoreType'
  <2>1. sent[saver.next] \in Seq(Nat) /\ "max" \in SaverPC
    BY <1>0 DEF SaverPC, AppendPC
  <2>2. QED
    <3>1. saver.next + 1 \in Nat \ {0}
      BY <1>0
    <3>2. [pc |-> "max", next |-> saver.next + 1, rest |-> sent[saver.next],
           index |-> saver.index, last |-> saver.last] \in Saver
      BY <2>1, <3>1, SaverFields DEF Saver
    <3>3. QED
      BY <1>a, <3>2
<1>2. SaverOrder'
  <2>1. Increasing(saver'.rest)
    BY <1>0, <1>a DEF SentInOrder
  <2>2. \A i \in DOMAIN chunks : Before(chunks[i], saver'.rest)
    BY <1>0, <1>a DEF SaverOrder
  <2>3. ASSUME NEW p \in 1..Len(sent), saver.next + 1 <= p
        PROVE  /\ Before(saver'.rest, sent[p])
               /\ \A i \in DOMAIN chunks : Before(chunks[i], sent[p])
    <3>1. saver.next <= p /\ saver.next < p /\ saver.pc # "dead"
      BY <1>0, <2>3
    <3>2. Before(sent[saver.next], sent[p])
      BY <1>0, <3>1 DEF SentInOrder
    <3>3. QED
      BY <3>1, <3>2, <1>a DEF SaverOrder
  <2>4. QED
    BY <1>a, <2>1, <2>2, <2>3 DEF SaverOrder
<1>3. OnlyProduced'
  BY <1>0, SaverOnly DEF OnlyProduced
<1>4. SaverLocals'
  BY <1>0 DEF SaverLocals, SentInOrder, AppendPC
<1>5. QED
  BY <1>1, <1>2, <1>3, <1>4, SaverOnly

LEMMA SaverLaggedInductive == ASSUME IInv, SaverLagged PROVE IInv'
<1> USE DEF IInv, SaverLagged, StoreType, Saver
<1>0. Oldest \in Nat \ {0} /\ saver.next < Oldest
  BY CapacityAssumption DEF Oldest, Lagged
<1>1. StoreType'
  BY <1>0
<1>2. SaverOrder'
  BY <1>0 DEF SaverOrder
<1>3. OnlyProduced' /\ SaverLocals'
  BY SaverOnly DEF OnlyProduced, SaverLocals, AppendPC
<1>4. QED
  BY <1>1, <1>2, <1>3, SaverOnly

LEMMA SaverClosedInductive == ASSUME IInv, SaverClosed PROVE IInv'
<1> USE DEF IInv, SaverClosed, StoreType, Saver
<1>1. StoreType'
  BY DEF SaverPC, AppendPC
<1>2. SaverOrder'
  BY DEF SaverOrder
<1>3. OnlyProduced' /\ SaverLocals'
  BY SaverOnly DEF OnlyProduced, SaverLocals, AppendPC
<1>4. QED
  BY <1>1, <1>2, <1>3, SaverOnly

LEMMA AppendMaxInductive == ASSUME IInv, AppendMax PROVE IInv'
<1> USE DEF IInv, AppendMax, StoreType, Saver
<1>0. \/ DOMAIN chunks = {} /\ MaxIndex = -1
      \/ IsLast(MaxIndex) /\ MaxIndex \in Nat
  <2>1. CASE DOMAIN chunks = {}
    BY <2>1, Zenon DEF MaxIndex
  <2>2. CASE DOMAIN chunks # {}
    <3>1. PICK i \in DOMAIN chunks : \A j \in DOMAIN chunks : i >= j
      BY <2>2 DEF HasLast, IsLast
    <3>2. MaxIndex \in DOMAIN chunks /\ \A j \in DOMAIN chunks : MaxIndex >= j
      BY <2>2, <3>1 DEF MaxIndex, Max
    <3>3. QED
      BY <3>2 DEF IsLast
  <2>3. QED
    BY <2>1, <2>2
<1>1. StoreType'
  BY <1>0 DEF SaverPC, AppendPC
<1>2. SaverOrder'
  BY DEF SaverOrder
<1>3. OnlyProduced'
  BY SaverOnly DEF OnlyProduced
<1>4. SaverLocals'
  BY <1>0 DEF SaverLocals, AppendPC, IsLast
<1>5. QED
  BY <1>1, <1>2, <1>3, <1>4, SaverOnly

LEMMA AppendLoadInductive == ASSUME IInv, AppendLoad PROVE IInv'
<1> USE DEF IInv, AppendLoad, StoreType, Saver
<1>1. StoreType'
  BY DEF SaverPC, AppendPC
<1>2. SaverOrder'
  BY DEF SaverOrder
<1>3. OnlyProduced'
  BY SaverOnly DEF OnlyProduced
<1>4. SaverLocals'
  <2>1. CASE saver.index \in DOMAIN chunks /\ Len(chunks[saver.index]) < ChunkSize
    BY <2>1 DEF SaverLocals, AppendPC, IsLast
  <2>2. CASE ~(saver.index \in DOMAIN chunks /\ Len(chunks[saver.index]) < ChunkSize)
    <3>1. \/ DOMAIN chunks = {}
          \/ IsLast(saver.index) /\ Len(chunks[saver.index]) = ChunkSize
      <4>1. CASE DOMAIN chunks = {}
        BY <4>1
      <4>2. CASE IsLast(saver.index)
        <5>1. Len(chunks[saver.index]) \in 1..ChunkSize
          BY <4>2 DEF IsLast, ChunksPacked
        <5>2. QED
          BY <2>2, <4>2, <5>1, ChunkSizeAssumption DEF IsLast
      <4>3. QED
        BY <4>1, <4>2 DEF SaverLocals
    <3>2. QED
      BY <2>2, <3>1 DEF SaverLocals, AppendPC, IsLast
  <2>3. QED
    BY <2>1, <2>2
<1>5. QED
  BY <1>1, <1>2, <1>3, <1>4, SaverOnly

\* What append leaves behind when it returns, with or without an error.
LEMMA GiveUpInductive == ASSUME IInv, saver.pc \in AppendPC, GiveUp PROVE IInv'
<1> USE DEF IInv, StoreType
<1>a. /\ saver' = [pc |-> "recv", next |-> saver.next, rest |-> <<>>, index |-> -1, last |-> <<>>]
      /\ UNCHANGED <<sent, chunks>>
  BY DEF GiveUp, AfterWrite, Saver
<1>b. saver'.rest = <<>> /\ saver'.pc = "recv" /\ saver'.next = saver.next
  BY <1>a
<1>1. StoreType'
  <2>1. "recv" \in SaverPC /\ saver.next \in Nat \ {0} /\ <<>> \in Seq(Nat) /\ -1 \in Nat \cup {-1}
    BY SaverFields DEF SaverPC
  <2>2. saver' \in Saver
    BY <1>a, <2>1, SaverTypes
  <2>3. QED
    BY <1>a, <2>2
<1>2. SaverOrder'
  <2>1. /\ Increasing(<<>>)
        /\ \A s \in Seq(Nat) : Before(<<>>, s) /\ Before(s, <<>>)
    BY DEF Increasing, Before
  <2>2. saver.pc # "dead"
    BY DEF AppendPC
  <2>3. \A p \in 1..Len(sent) : saver.next <= p =>
           \A i \in DOMAIN chunks : Before(chunks[i], sent[p])
    BY <2>2 DEF SaverOrder
  <2>4. QED
    BY <1>a, <1>b, <2>1, <2>3 DEF SaverOrder
<1>3. OnlyProduced' /\ SaverLocals'
  BY <1>a, <1>b, SaverOnly DEF OnlyProduced, SaverLocals, AppendPC, Below
<1>4. QED
  BY <1>a, <1>1, <1>2, <1>3, SaverOnly

\* What the end of the server leaves behind.
LEMMA CrashInductive == ASSUME IInv, Crash PROVE IInv'
<1> USE DEF IInv, StoreType
<1>a. /\ saver' = [pc |-> "dead", next |-> 1, rest |-> <<>>, index |-> -1, last |-> <<>>]
      /\ UNCHANGED <<sent, chunks>>
  BY DEF Crash, AfterWrite, Saver
<1>b. saver'.rest = <<>> /\ saver'.pc = "dead" /\ saver'.next = 1
  BY <1>a
<1>1. StoreType'
  <2>1. "dead" \in SaverPC /\ 1 \in Nat \ {0} /\ <<>> \in Seq(Nat) /\ -1 \in Nat \cup {-1}
    BY SaverFields DEF SaverPC
  <2>2. saver' \in Saver
    BY <1>a, <2>1, SaverTypes
  <2>3. QED
    BY <1>a, <2>2
<1>2. SaverOrder'
  BY <1>a, <1>b, SaverFields DEF SaverOrder, Increasing, Before
<1>3. OnlyProduced' /\ SaverLocals'
  BY <1>a, <1>b, SaverOnly DEF OnlyProduced, SaverLocals, AppendPC, Below
<1>4. QED
  BY <1>a, <1>1, <1>2, <1>3, SaverOnly

\* Without chunks there is little to be wrong.
LEMMA DeleteChunksInductive == ASSUME IInv, DeleteChunks PROVE IInv'
<1> USE DEF IInv, DeleteChunks
<1>1. DOMAIN chunks' = {}
  OBVIOUS
<1>2. StoreType' /\ SentInOrder' /\ PersistedInOrder' /\ ChunksPacked' /\ HasLast'
  BY <1>1 DEF StoreType, SentInOrder, PersistedInOrder, ChunksPacked, HasLast
<1>3. SaverOrder' /\ OnlyProduced' /\ SaverLocals'
  BY <1>1 DEF SaverOrder, OnlyProduced, Produced, SaverLocals
<1>4. QED
  BY <1>2, <1>3

-----------------------------------------------------------------------------
\* A new message comes after all there is.
LEMMA ProduceInductive ==
  ASSUME IInv, NEW n \in 1..MaxPacket, Produce(n)
  PROVE  IInv'
<1> USE DEF IInv, StoreType
<1> DEFINE packet == [k \in 1..n |-> Produced + k]
<1>0. n \in Nat /\ 1 <= n /\ Produced \in Nat
  BY BoundsAssumption DEF OnlyProduced
<1>1. /\ packet \in Seq(Nat) /\ Len(packet) = n /\ packet # <<>>
      /\ \A k \in 1..n : packet[k] = Produced + k
  BY <1>0
<1>2. sent' = Append(sent, packet) /\ UNCHANGED <<chunks, saver>>
  BY DEF Produce
<1>a. Increasing(packet)
  <2> SUFFICES ASSUME NEW k \in 1..n, NEW l \in 1..n, k < l PROVE packet[k] < packet[l]
    BY <1>1 DEF Increasing
  <2>1. packet[k] = Produced + k /\ packet[l] = Produced + l
    OBVIOUS
  <2>2. QED
    BY <1>0, <2>1
<1>b. \A s \in Seq(Nat) : Below(s, Produced) => Before(s, packet)
  <2> SUFFICES ASSUME NEW s \in Seq(Nat), Below(s, Produced), NEW k \in 1..Len(s), NEW l \in 1..n
               PROVE  s[k] < packet[l]
    BY <1>1 DEF Before
  <2>1. s[k] <= Produced /\ s[k] \in Nat /\ packet[l] = Produced + l
    BY DEF Below
  <2>2. QED
    BY <1>0, <2>1
<1> HIDE DEF packet
<1>3. /\ sent' \in Seq(Seq(Nat))
      /\ Len(sent') = Len(sent) + 1
      /\ sent'[Len(sent) + 1] = packet
      /\ \A p \in 1..Len(sent) : sent'[p] = sent[p]
  BY <1>1, <1>2
<1>4. Produced' = Produced + n
  <2>1. sent' # <<>> /\ sent'[Len(sent')] = packet
    BY <1>3
  <2>2. Produced' = packet[Len(packet)]
    BY <2>1 DEF Produced, Last
  <2>3. QED
    BY <2>2, <1>0, <1>1
<1>5. \A p \in 1..Len(sent') : p \in 1..Len(sent) \/ p = Len(sent) + 1
  BY <1>3
<1>6. SentInOrder'
  <2>1. ASSUME NEW p \in 1..Len(sent), NEW q \in 1..Len(sent'), p < q
        PROVE  Before(sent'[p], sent'[q])
    <3>1. CASE q \in 1..Len(sent)
      BY <3>1, <2>1, <1>3 DEF SentInOrder
    <3>2. CASE q = Len(sent) + 1
      BY <3>2, <1>3, <1>b DEF OnlyProduced
    <3>3. QED
      BY <3>1, <3>2, <1>5
  <2>2. ASSUME NEW p \in 1..Len(sent')
        PROVE  sent'[p] # <<>> /\ Increasing(sent'[p])
    BY <1>1, <1>a, <1>3, <1>5 DEF SentInOrder
  <2>3. ASSUME NEW q \in 1..Len(sent') PROVE ~(Len(sent) + 1 < q)
    BY <1>3
  <2>4. QED
    BY <2>1, <2>2, <2>3, <1>5 DEF SentInOrder
<1>7. StoreType' /\ PersistedInOrder' /\ ChunksPacked' /\ HasLast' /\ SaverLocals'
  BY <1>2, <1>3 DEF PersistedInOrder, ChunksPacked, HasLast, IsLast, SaverLocals
<1>8. OnlyProduced'
  <2>1. \A s \in Seq(Nat) : Below(s, Produced) => Below(s, Produced + n)
    <3> SUFFICES ASSUME NEW s \in Seq(Nat), Below(s, Produced), NEW k \in 1..Len(s)
                 PROVE  s[k] <= Produced + n
      BY DEF Below
    <3>1. s[k] <= Produced /\ s[k] \in Nat
      BY DEF Below
    <3>2. QED
      BY <3>1, <1>0
  <2>2. Below(packet, Produced + n)
    BY <1>0, <1>1 DEF Below
  <2>3. \A p \in 1..Len(sent') : Below(sent'[p], Produced + n)
    <3>1. ASSUME NEW p \in 1..Len(sent) PROVE Below(sent[p], Produced + n)
      <4>1. sent[p] \in Seq(Nat) /\ Below(sent[p], Produced)
        BY DEF OnlyProduced
      <4>2. QED
        BY <4>1, <2>1
    <3>2. QED
      BY <3>1, <2>2, <1>3, <1>5
  <2>4. Below(saver.rest, Produced + n)
    BY <2>1, SaverFields DEF OnlyProduced
  <2>5. \A i \in DOMAIN chunks : Below(chunks[i], Produced + n)
    BY <2>1 DEF OnlyProduced
  <2>6. QED
    BY <2>3, <2>4, <2>5, <1>0, <1>2, <1>4 DEF OnlyProduced
<1>9. SaverOrder'
  <2>1. Before(saver.rest, packet) /\ \A i \in DOMAIN chunks : Before(chunks[i], packet)
    BY <1>b, SaverFields DEF OnlyProduced
  <2>2. QED
    BY <2>1, <1>2, <1>3, <1>5 DEF SaverOrder
<1>10. QED
  BY <1>6, <1>7, <1>8, <1>9

-----------------------------------------------------------------------------
\* What comes before or after a sequence does so for its parts, and its bounds
\* are theirs.
LEMMA CutBefore ==
  ASSUME NEW s \in Seq(Nat), NEW n \in 0..Len(s), NEW t \in Seq(Nat), NEW b \in Nat
  PROVE  /\ Before(t, s) => Before(t, SubSeq(s, 1, n)) /\ Before(t, SubSeq(s, n + 1, Len(s)))
         /\ Before(s, t) => Before(SubSeq(s, 1, n), t) /\ Before(SubSeq(s, n + 1, Len(s)), t)
         /\ Below(s, b) => Below(SubSeq(s, 1, n), b) /\ Below(SubSeq(s, n + 1, Len(s)), b)
<1> DEFINE u == SubSeq(s, 1, n)
           v == SubSeq(s, n + 1, Len(s))
<1>1. /\ Len(u) = n /\ \A k \in 1..n : k \in 1..Len(s) /\ u[k] = s[k]
      /\ Len(v) = Len(s) - n
      /\ \A k \in 1..Len(s) - n : n + k \in 1..Len(s) /\ v[k] = s[n + k]
  BY Cut
<1> HIDE DEF u, v
<1>2. Before(t, s) => Before(t, u) /\ Before(t, v)
  BY <1>1 DEF Before
<1>3. Before(s, t) => Before(u, t) /\ Before(v, t)
  BY <1>1 DEF Before
<1>4. Below(s, b) => Below(u, b) /\ Below(v, b)
  BY <1>1 DEF Below
<1>5. QED
  BY <1>2, <1>3, <1>4 DEF u, v

\* ... and what does so for the parts does for the whole.
LEMMA JoinedBefore ==
  ASSUME NEW s \in Seq(Nat), NEW t \in Seq(Nat), NEW u \in Seq(Nat), NEW b \in Nat
  PROVE  /\ Before(s, u) /\ Before(t, u) => Before(s \o t, u)
         /\ Before(u, s) /\ Before(u, t) => Before(u, s \o t)
         /\ Below(s, b) /\ Below(t, b) => Below(s \o t, b)
<1> DEFINE v == s \o t
<1>1. \A k \in 1..Len(v) : (\E l \in 1..Len(s) : v[k] = s[l]) \/ (\E l \in 1..Len(t) : v[k] = t[l])
  <2> SUFFICES ASSUME NEW k \in 1..Len(v)
               PROVE  (\E l \in 1..Len(s) : v[k] = s[l]) \/ (\E l \in 1..Len(t) : v[k] = t[l])
    OBVIOUS
  <2>1. CASE k \in 1..Len(s)
    BY <2>1, Joined
  <2>2. CASE k \notin 1..Len(s)
    <3>1. k - Len(s) \in 1..Len(t) /\ Len(s) + (k - Len(s)) = k
      BY <2>2, Joined
    <3>2. v[Len(s) + (k - Len(s))] = t[k - Len(s)]
      BY <3>1, Joined
    <3>3. QED
      BY <3>1, <3>2
  <2>3. QED
    BY <2>1, <2>2
<1> HIDE DEF v
<1>2. Before(s, u) /\ Before(t, u) => Before(v, u)
  BY <1>1 DEF Before
<1>3. Before(u, s) /\ Before(u, t) => Before(u, v)
  BY <1>1 DEF Before
<1>4. Below(s, b) /\ Below(t, b) => Below(v, b)
  BY <1>1 DEF Below
<1>5. QED
  BY <1>2, <1>3, <1>4 DEF v

-----------------------------------------------------------------------------
\* What append takes is no more than there is, and no more than has room.
LEMMA SmallerBounds ==
  ASSUME NEW m \in Nat, NEW n \in Nat
  PROVE  Smaller(m, n) \in 0..n /\ Smaller(m, n) <= m /\ Smaller(m, n) \in {m, n}
BY DEF Smaller

\* The two writes cut the rest of the message in what the row takes and what
\* remains; whatever came before or after the message does so for both.
LEMMA TakenAndRest ==
  ASSUME IInv, saver.pc # "dead", NEW taken \in 0..Len(saver.rest)
  PROVE  LET h == SubSeq(saver.rest, 1, taken)
             r == SubSeq(saver.rest, taken + 1, Len(saver.rest))
         IN  /\ h \in Seq(Nat) /\ Len(h) = taken /\ Increasing(h) /\ Below(h, Produced)
             /\ r \in Seq(Nat) /\ Len(r) = Len(saver.rest) - taken
             /\ Increasing(r) /\ Below(r, Produced)
             /\ Before(h, r)
             /\ \A i \in DOMAIN chunks : Before(chunks[i], h) /\ Before(chunks[i], r)
             /\ \A p \in 1..Len(sent) :
                  saver.next <= p => Before(h, sent[p]) /\ Before(r, sent[p])
<1> DEFINE h == SubSeq(saver.rest, 1, taken)
           r == SubSeq(saver.rest, taken + 1, Len(saver.rest))
<1> USE DEF IInv
<1>1. saver.rest \in Seq(Nat) /\ Produced \in Nat
  BY SaverFields DEF OnlyProduced
<1>2. /\ h \in Seq(Nat) /\ Len(h) = taken /\ r \in Seq(Nat) /\ Len(r) = Len(saver.rest) - taken
  BY <1>1, Cut
<1>3. Increasing(h) /\ Increasing(r) /\ Before(h, r)
  BY <1>1, CutOrder DEF SaverOrder
<1>4. /\ Below(h, Produced) /\ Below(r, Produced)
  BY <1>1, CutBefore DEF OnlyProduced
<1>5. \A i \in DOMAIN chunks : Before(chunks[i], h) /\ Before(chunks[i], r)
  BY <1>1, CutBefore DEF SaverOrder, StoreType
<1>6. ASSUME NEW p \in 1..Len(sent), saver.next <= p
      PROVE  Before(h, sent[p]) /\ Before(r, sent[p])
  <2>1. Before(saver.rest, sent[p]) /\ sent[p] \in Seq(Nat)
    BY <1>6 DEF SaverOrder, StoreType
  <2>2. QED
    BY <1>1, <2>1, CutBefore
<1>7. QED
  BY <1>2, <1>3, <1>4, <1>5, <1>6

\* What the locals are after a write.
LEMMA AfterWriteType ==
  ASSUME IInv, NEW index \in Nat \cup {-1}, NEW r \in Seq(Nat), saver' = AfterWrite(index, r)
  PROVE  /\ saver' \in Saver
         /\ saver'.next = saver.next
         /\ saver'.rest = r
         /\ saver'.pc \in {"recv", "insert"}
         /\ saver'.pc = "insert" => saver'.index = index /\ r # <<>>
<1>0. saver.next \in Nat \ {0} /\ <<>> \in Seq(Nat) /\ -1 \in Nat \cup {-1}
  BY SaverFields DEF IInv
<1>1. CASE r = <<>>
  <2>1. saver' = [pc |-> "recv", next |-> saver.next, rest |-> <<>>, index |-> -1, last |-> <<>>]
    BY <1>1 DEF AfterWrite, IInv, StoreType, Saver
  <2>2. saver' \in Saver
    BY <1>0, <2>1, <1>1 DEF Saver, SaverPC, AppendPC
  <2>3. QED
    BY <2>1, <2>2, <1>1
<1>2. CASE r # <<>>
  <2>1. saver' = [pc |-> "insert", next |-> saver.next, rest |-> r, index |-> index, last |-> <<>>]
    BY <1>2 DEF AfterWrite, IInv, StoreType, Saver
  <2>2. saver' \in Saver
    BY <1>0, <2>1, <1>2 DEF Saver, SaverPC, AppendPC
  <2>3. QED
    BY <2>1, <2>2, <1>2
<1>3. QED
  BY <1>1, <1>2

\* The new chunk follows the last one.
LEMMA AppendInsertInductive == ASSUME IInv, AppendInsert PROVE IInv'
<1> USE DEF IInv
<1> DEFINE index == saver.index + 1
           taken == Smaller(ChunkSize, Len(saver.rest))
           h == SubSeq(saver.rest, 1, taken)
           r == SubSeq(saver.rest, taken + 1, Len(saver.rest))
<1>1. /\ saver.pc = "insert" /\ index \notin DOMAIN chunks
      /\ chunks' = [i \in DOMAIN chunks \cup {index} |-> IF i = index THEN h ELSE chunks[i]]
      /\ saver' = AfterWrite(index, r)
      /\ sent' = sent
  BY DEF AppendInsert, CanInsert
<1>2. /\ taken \in 1..Len(saver.rest) /\ taken \in 1..ChunkSize
      /\ taken = ChunkSize \/ taken = Len(saver.rest)
      /\ index \in Nat
  <2>1. Len(saver.rest) \in Nat \ {0}
    BY <1>1, SaverFields DEF SaverLocals, AppendPC
  <2>2. QED
    BY <2>1, SaverFields, ChunkSizeAssumption DEF Smaller
<1>3. /\ h \in Seq(Nat) /\ Len(h) = taken /\ Increasing(h) /\ Below(h, Produced)
      /\ r \in Seq(Nat) /\ Len(r) = Len(saver.rest) - taken
      /\ Increasing(r) /\ Below(r, Produced)
      /\ Before(h, r)
      /\ \A i \in DOMAIN chunks : Before(chunks[i], h) /\ Before(chunks[i], r)
      /\ \A p \in 1..Len(sent) : saver.next <= p => Before(h, sent[p]) /\ Before(r, sent[p])
  <2>1. taken \in 0..Len(saver.rest) /\ saver.pc # "dead"
    BY <1>1, <1>2
  <2> HIDE DEF IInv, taken
  <2>2. QED
    BY <2>1, TakenAndRest
<1> HIDE DEF h, r, taken
<1>4. /\ saver' \in Saver /\ saver'.next = saver.next /\ saver'.rest = r
      /\ saver'.pc \in {"recv", "insert"}
      /\ saver'.pc = "insert" => saver'.index = index /\ r # <<>>
  BY <1>1, <1>2, <1>3, AfterWriteType
\* The new chunk follows the last one, which is full.
<1>5. \A i \in DOMAIN chunks : i <= saver.index /\ Len(chunks[i]) = ChunkSize
  <2>1. CASE DOMAIN chunks = {}
    BY <2>1
  <2>2. CASE IsLast(saver.index) /\ Len(chunks[saver.index]) = ChunkSize
    <3>1. \A i \in DOMAIN chunks : i < saver.index \/ i = saver.index
      BY <2>2, SaverFields DEF IsLast, StoreType
    <3>2. QED
      BY <2>2, <3>1 DEF IsLast, ChunksPacked
  <2>3. QED
    BY <1>1, <2>1, <2>2 DEF SaverLocals
<1>6. /\ DOMAIN chunks' = DOMAIN chunks \cup {index}
      /\ chunks'[index] = h
      /\ \A i \in DOMAIN chunks : chunks'[i] = chunks[i] /\ i < index
  <2>1. \A i \in DOMAIN chunks : i \in Nat /\ i <= saver.index /\ i < index
    BY <1>5, SaverFields DEF StoreType
  <2>2. QED
    BY <1>1, <2>1
<1> HIDE DEF index
<1>7. StoreType'
  BY <1>1, <1>2, <1>3, <1>4, <1>6 DEF StoreType
<1>8. SentInOrder' /\ Produced' = Produced
  BY <1>1 DEF SentInOrder, Produced
<1>9. PersistedInOrder'
  BY <1>2, <1>3, <1>6 DEF PersistedInOrder, StoreType
<1>10. ChunksPacked'
  <2>1. \A i \in DOMAIN chunks : i + 1 \in DOMAIN chunks'
    <3>1. CASE DOMAIN chunks = {}
      BY <3>1
    <3>2. CASE DOMAIN chunks # {}
      <4>1. IsLast(saver.index)
        BY <1>1, <3>2 DEF SaverLocals
      <4>2. \A i \in DOMAIN chunks : i < saver.index \/ i + 1 = index
        BY <1>5, SaverFields DEF index, StoreType
      <4>3. QED
        BY <4>1, <4>2, <1>6 DEF ChunksPacked, IsLast
    <3>3. QED
      BY <3>1, <3>2
  <2>2. QED
    BY <2>1, <1>2, <1>3, <1>5, <1>6 DEF ChunksPacked, StoreType
<1>11. SaverOrder'
  BY <1>1, <1>3, <1>4, <1>6 DEF SaverOrder
<1>12. OnlyProduced'
  BY <1>1, <1>3, <1>4, <1>6, <1>8 DEF OnlyProduced
<1>13. index \in DOMAIN chunks' /\ \A i \in DOMAIN chunks' : i <= index
  BY <1>2, <1>6 DEF StoreType
<1>14. HasLast'
  BY <1>13 DEF HasLast, IsLast
<1>15. SaverLocals'
  <2>1. saver'.pc = "insert" => Len(h) = ChunkSize
    <3>1. saver'.pc = "insert" => Len(r) # 0
      BY <1>3, <1>4
    <3>2. QED
      BY <3>1, <1>2, <1>3
  <2>2. QED
    BY <2>1, <1>4, <1>6, <1>13 DEF SaverLocals, AppendPC, IsLast
<1>16. QED
  BY <1>7, <1>8, <1>9, <1>10, <1>11, <1>12, <1>14, <1>15

\* The last chunk grows, if it is still there.
LEMMA AppendUpdateInductive == ASSUME IInv, AppendUpdate PROVE IInv'
<1> USE DEF IInv
<1> DEFINE taken == Smaller(ChunkSize - Len(saver.last), Len(saver.rest))
           h == SubSeq(saver.rest, 1, taken)
           r == SubSeq(saver.rest, taken + 1, Len(saver.rest))
           data == saver.last \o h
<1>1. /\ saver.pc = "update"
      /\ chunks' = [i \in DOMAIN chunks |-> IF i = saver.index THEN data ELSE chunks[i]]
      /\ saver' = AfterWrite(saver.index, r)
      /\ sent' = sent
  BY DEF AppendUpdate
<1>2. /\ taken \in 1..Len(saver.rest) /\ Len(saver.last) + taken <= ChunkSize
      /\ Len(saver.last) + taken = ChunkSize \/ taken = Len(saver.rest)
      /\ saver.index \in Nat /\ saver.last \in Seq(Nat)
  <2>1. Len(saver.rest) \in Nat \ {0} /\ Len(saver.last) \in Nat /\ Len(saver.last) < ChunkSize
    BY <1>1, SaverFields DEF SaverLocals, AppendPC
  <2>2. saver.index \in Nat /\ saver.last \in Seq(Nat)
    BY <1>1, SaverFields DEF SaverLocals
  <2>3. QED
    <3> DEFINE space == ChunkSize - Len(saver.last)
               m == Len(saver.rest)
    <3>1. space \in Nat /\ 1 <= space /\ m \in Nat /\ 1 <= m
      BY <2>1, ChunkSizeAssumption
    <3>2. taken = IF space <= m THEN space ELSE m
      BY DEF Smaller
    <3>3. Len(saver.last) + space = ChunkSize
      BY <2>1, ChunkSizeAssumption
    <3> HIDE DEF space, m, taken
    <3>4. taken \in 1..m /\ taken <= space /\ (taken = space \/ taken = m)
      BY <3>1, <3>2
    <3>5. QED
      BY <3>1, <3>3, <3>4, <2>1, <2>2 DEF m
<1>3. /\ h \in Seq(Nat) /\ Len(h) = taken /\ Increasing(h) /\ Below(h, Produced)
      /\ r \in Seq(Nat) /\ Len(r) = Len(saver.rest) - taken
      /\ Increasing(r) /\ Below(r, Produced)
      /\ Before(h, r)
      /\ \A i \in DOMAIN chunks : Before(chunks[i], h) /\ Before(chunks[i], r)
      /\ \A p \in 1..Len(sent) : saver.next <= p => Before(h, sent[p]) /\ Before(r, sent[p])
  <2>1. taken \in 0..Len(saver.rest) /\ saver.pc # "dead"
    BY <1>1, <1>2
  <2> HIDE DEF IInv, taken
  <2>2. QED
    BY <2>1, TakenAndRest
<1> HIDE DEF h, r, taken
<1>4. /\ saver' \in Saver /\ saver'.next = saver.next /\ saver'.rest = r
      /\ saver'.pc \in {"recv", "insert"}
      /\ saver'.pc = "insert" => saver'.index = saver.index /\ r # <<>>
  BY <1>1, <1>2, <1>3, AfterWriteType
<1>5. SentInOrder' /\ Produced' = Produced
  BY <1>1 DEF SentInOrder, Produced
\* The chunk was deleted with all the others: the UPDATE matches no row.
<1>6. CASE saver.index \notin DOMAIN chunks
  <2>1. DOMAIN chunks = {} /\ DOMAIN chunks' = {}
    BY <1>1, <1>6 DEF SaverLocals, IsLast
  <2>2. StoreType' /\ PersistedInOrder' /\ ChunksPacked' /\ HasLast' /\ OnlyProduced'
    BY <2>1, <1>1, <1>3, <1>4, <1>5
       DEF StoreType, PersistedInOrder, ChunksPacked, HasLast, OnlyProduced
  <2>3. SaverOrder' /\ SaverLocals'
    BY <2>1, <1>1, <1>3, <1>4 DEF SaverOrder, SaverLocals, AppendPC
  <2>4. QED
    BY <1>5, <2>2, <2>3
<1>7. CASE saver.index \in DOMAIN chunks
  <2>1. chunks[saver.index] = saver.last /\ IsLast(saver.index)
    BY <1>1, <1>7 DEF SaverLocals
  <2>2. /\ data \in Seq(Nat) /\ Len(data) = Len(saver.last) + taken
        /\ Increasing(data) /\ Below(data, Produced)
        /\ Before(data, r)
        /\ \A i \in DOMAIN chunks : i < saver.index => Before(chunks[i], data)
        /\ \A p \in 1..Len(sent) : saver.next <= p => Before(data, sent[p])
    <3>1. /\ Increasing(saver.last) /\ Below(saver.last, Produced) /\ Produced \in Nat
          /\ Before(saver.last, h) /\ Before(saver.last, r)
      BY <1>3, <1>7, <2>1 DEF PersistedInOrder, OnlyProduced
    <3>2. data \in Seq(Nat) /\ Len(data) = Len(saver.last) + taken /\ Increasing(data)
      BY <1>2, <1>3, <3>1, Joined, JoinedOrder
    <3>3. Below(data, Produced) /\ Before(data, r)
      BY <1>2, <1>3, <3>1, JoinedBefore
    <3>4. ASSUME NEW i \in DOMAIN chunks, i < saver.index
          PROVE  Before(chunks[i], data)
      <4>1. Before(chunks[i], saver.last) /\ Before(chunks[i], h) /\ chunks[i] \in Seq(Nat)
        BY <3>4, <1>3, <1>7, <2>1 DEF PersistedInOrder, StoreType
      <4>2. QED
        BY <4>1, <1>2, <1>3, <3>1, JoinedBefore
    <3>5. ASSUME NEW p \in 1..Len(sent), saver.next <= p
          PROVE  Before(data, sent[p])
      <4>1. Before(saver.last, sent[p]) /\ Before(h, sent[p]) /\ sent[p] \in Seq(Nat)
        BY <3>5, <1>1, <1>3, <1>7, <2>1 DEF SaverOrder, StoreType
      <4>2. QED
        BY <4>1, <1>2, <1>3, <3>1, JoinedBefore
    <3>6. QED
      BY <3>2, <3>3, <3>4, <3>5
  <2> HIDE DEF data
  <2>3. /\ DOMAIN chunks' = DOMAIN chunks
        /\ chunks'[saver.index] = data
        /\ \A i \in DOMAIN chunks : i = saver.index \/ (i < saver.index /\ chunks'[i] = chunks[i])
    <3>1. \A i \in DOMAIN chunks : i \in Nat /\ (i = saver.index \/ i < saver.index)
      BY <1>2, <2>1 DEF IsLast, StoreType
    <3>2. QED
      BY <3>1, <1>1, <1>7
  <2>4. StoreType'
    BY <1>1, <1>4, <2>2, <2>3 DEF StoreType
  <2>5. PersistedInOrder'
    <3>1. ASSUME NEW i \in DOMAIN chunks
          PROVE  Increasing(chunks'[i])
      BY <2>2, <2>3 DEF PersistedInOrder
    <3>2. ASSUME NEW i \in DOMAIN chunks, NEW j \in DOMAIN chunks, i < j
          PROVE  Before(chunks'[i], chunks'[j])
      <4>1. i < saver.index /\ chunks'[i] = chunks[i]
        <5>1. i \in Nat /\ j \in Nat /\ saver.index \in Nat
          BY <1>2 DEF StoreType
        <5>2. i # saver.index
          BY <5>1, <2>3, <3>2
        <5>3. QED
          BY <5>2, <2>3
      <4>2. CASE j = saver.index
        BY <4>1, <4>2, <2>2, <2>3
      <4>3. CASE j < saver.index /\ chunks'[j] = chunks[j]
        BY <4>1, <4>3, <3>2 DEF PersistedInOrder
      <4>4. QED
        BY <4>2, <4>3, <2>3
    <3>3. QED
      BY <3>1, <3>2, <2>3 DEF PersistedInOrder
  <2>6. ChunksPacked'
    <3>1. Len(data) \in 1..ChunkSize
      BY <1>2, <2>2, ChunkSizeAssumption
    <3>2. QED
      <4>1. ASSUME NEW i \in DOMAIN chunks
            PROVE  Len(chunks'[i]) \in 1..ChunkSize
        BY <3>1, <2>3 DEF ChunksPacked
      <4>2. ASSUME NEW i \in DOMAIN chunks, NEW j \in DOMAIN chunks, i < j
            PROVE  Len(chunks'[i]) = ChunkSize /\ i + 1 \in DOMAIN chunks
        <5>1. i < saver.index /\ chunks'[i] = chunks[i]
          <6>1. i \in Nat /\ j \in Nat /\ saver.index \in Nat
            BY <1>2 DEF StoreType
          <6>2. i # saver.index
            BY <6>1, <2>3, <4>2
          <6>3. QED
            BY <6>2, <2>3
        <5>2. QED
          BY <5>1, <4>2 DEF ChunksPacked
      <4>3. QED
        BY <4>1, <4>2, <2>3 DEF ChunksPacked
  <2>7. SaverOrder'
    BY <1>1, <1>3, <1>4, <2>2, <2>3 DEF SaverOrder
  <2>8. OnlyProduced'
    BY <1>1, <1>3, <1>4, <1>5, <2>2, <2>3 DEF OnlyProduced
  <2>9. HasLast'
    BY <2>1, <2>3 DEF IsLast, HasLast
  <2>10. SaverLocals'
    <3>1. saver'.pc = "insert" => Len(data) = ChunkSize
      BY <1>2, <1>3, <1>4, <2>2
    <3>2. QED
      BY <3>1, <1>4, <2>1, <2>3 DEF SaverLocals, AppendPC, IsLast
  <2>11. QED
    BY <1>5, <2>4, <2>5, <2>6, <2>7, <2>8, <2>9, <2>10
<1>8. QED
  BY <1>6, <1>7

-----------------------------------------------------------------------------
\* The invariant holds at the beginning and is kept by every step.
LEMMA InitIInv == Init => IInv
<1> SUFFICES ASSUME Init PROVE IInv
  OBVIOUS
<1>1. /\ sent = <<>> /\ Len(sent) = 0 /\ DOMAIN chunks = {}
      /\ saver = [pc |-> "none", next |-> 1, rest |-> <<>>, index |-> -1, last |-> <<>>]
  BY DEF Init
<1>2. StoreType
  BY <1>1 DEF StoreType, Saver, SaverPC
<1>3. SentInOrder /\ PersistedInOrder /\ ChunksPacked /\ HasLast
  BY <1>1 DEF SentInOrder, PersistedInOrder, ChunksPacked, HasLast
<1>4. SaverOrder /\ SaverLocals
  BY <1>1 DEF SaverOrder, SaverLocals, AppendPC, Increasing
<1>5. OnlyProduced
  BY <1>1 DEF OnlyProduced, Produced, Below
<1>6. QED
  BY <1>2, <1>3, <1>4, <1>5 DEF IInv

LEMMA NextIInv == IInv /\ [Next]_vars => IInv'
<1> SUFFICES ASSUME IInv, [Next]_vars PROVE IInv'
  OBVIOUS
<1>1. ASSUME NEW n \in 1..MaxPacket, Produce(n) PROVE IInv'
  BY <1>1, ProduceInductive
<1>2. CASE SaverStep
  <2>1. CASE AppendRejected
    BY <2>1, GiveUpInductive DEF AppendRejected, AppendPC
  <2>2. QED
    BY <1>2, <2>1, SaverSubscribeInductive, SaverRecvInductive, SaverLaggedInductive,
       SaverClosedInductive, AppendMaxInductive, AppendLoadInductive, AppendUpdateInductive,
       AppendInsertInductive DEF SaverStep
<1>3. CASE AppendFails
  BY <1>3, GiveUpInductive DEF AppendFails
<1>4. CASE ClientStep \/ Hangup \/ UNCHANGED vars
  <2>1. UNCHANGED <<sent, chunks, saver>>
    BY <1>4 DEF ClientStep, Attach, RecoverRead, RecoverSubscribe, RecoverFails, ClientRecv,
                ClientLagged, Disconnect, Hangup, vars
  <2>2. QED
    BY <2>1, ElsewhereInductive
<1>5. QED
  BY <1>1, <1>2, <1>3, <1>4, DeleteChunksInductive, CrashInductive DEF Next

\* IInv is an invariant of the output path.
THEOREM Inductive == Spec => []IInv
<1>1. QED
  BY InitIInv, NextIInv, PTL DEF Spec

\* Whatever the task misses, whatever query fails and whenever the server
\* stops or the chunks are deleted, what is stored is in order and not
\* repeated.
THEOREM PersistedInOrderHolds == Spec => []PersistedInOrder
<1>1. IInv => PersistedInOrder
  BY DEF IInv
<1>2. QED
  BY <1>1, Inductive, PTL

\* ... and in full chunks of consecutive indexes, but for the last one.
THEOREM ChunksPackedHolds == Spec => []ChunksPacked
<1>1. IInv => ChunksPacked
  BY DEF IInv
<1>2. QED
  BY <1>1, Inductive, PTL

-----------------------------------------------------------------------------
\* A step that does not delete the chunks keeps each and at most extends it.
Extends ==
  \/ DOMAIN chunks' = {}
  \/ \A i \in DOMAIN chunks :
       /\ i \in DOMAIN chunks'
       /\ IsPrefix(chunks[i], chunks'[i])
       /\ \A j \in DOMAIN chunks' \ DOMAIN chunks : i < j

\* A sequence is a prefix of itself and of what it is joined to.
LEMMA PrefixOfItself ==
  ASSUME NEW s \in Seq(Nat), NEW t \in Seq(Nat)
  PROVE  IsPrefix(s, s) /\ IsPrefix(s, s \o t)
<1>1. SubSeq(s, 1, Len(s)) = s /\ SubSeq(s \o t, 1, Len(s)) = s
  OBVIOUS
<1>2. QED
  BY <1>1, Joined DEF IsPrefix

\* The two writes extend what is stored; no other step but a deletion touches it.
LEMMA UpdateExtends == ASSUME IInv, AppendUpdate PROVE Extends
<1> DEFINE taken == Smaller(ChunkSize - Len(saver.last), Len(saver.rest))
           h == SubSeq(saver.rest, 1, taken)
<1>1. /\ saver.pc = "update"
      /\ chunks' = [i \in DOMAIN chunks |->
                      IF i = saver.index THEN saver.last \o h ELSE chunks[i]]
  BY DEF AppendUpdate
<1>2. h \in Seq(Nat)
  <2>1. /\ saver.rest \in Seq(Nat) /\ Len(saver.rest) \in Nat
        /\ Len(saver.last) \in Nat /\ Len(saver.last) < ChunkSize
    BY <1>1, SaverFields DEF IInv, SaverLocals
  <2>2. ChunkSize - Len(saver.last) \in Nat
    BY <2>1, ChunkSizeAssumption
  <2>3. taken \in 0..Len(saver.rest)
    BY <2>1, <2>2, SmallerBounds
  <2> HIDE DEF taken
  <2>4. QED
    BY <2>1, <2>3, Cut
<1> HIDE DEF h
<1>3. \A i \in DOMAIN chunks : chunks[i] \in Seq(Nat)
  BY DEF IInv, StoreType
<1>4. saver.index \in DOMAIN chunks => chunks[saver.index] = saver.last
  BY <1>1 DEF IInv, SaverLocals
<1>5. \A i \in DOMAIN chunks : IsPrefix(chunks[i], chunks'[i])
  BY <1>1, <1>2, <1>3, <1>4, PrefixOfItself
<1>6. QED
  BY <1>1, <1>5 DEF Extends

LEMMA InsertExtends == ASSUME IInv, AppendInsert PROVE Extends
<1>1. /\ saver.pc = "insert" /\ saver.index + 1 \notin DOMAIN chunks
      /\ DOMAIN chunks' = DOMAIN chunks \cup {saver.index + 1}
      /\ \A i \in DOMAIN chunks : chunks'[i] = chunks[i]
  BY DEF AppendInsert, CanInsert
<1>2. \A i \in DOMAIN chunks : i < saver.index + 1
  <2>1. \A i \in DOMAIN chunks : i \in Nat /\ i <= saver.index /\ saver.index \in Nat \cup {-1}
    BY <1>1, SaverFields DEF IInv, StoreType, SaverLocals, IsLast
  <2>2. QED
    BY <2>1
<1>3. \A i \in DOMAIN chunks : IsPrefix(chunks[i], chunks'[i])
  BY <1>1, PrefixOfItself DEF IInv, StoreType
<1>4. QED
  BY <1>1, <1>2, <1>3 DEF Extends

LEMMA StepExtends == IInv /\ [Next]_vars => [Extends]_vars
<1> SUFFICES ASSUME IInv, Next PROVE Extends
  BY DEF vars
<1>1. CASE UNCHANGED chunks
  BY <1>1, PrefixOfItself DEF Extends, IInv, StoreType
<1>2. CASE DeleteChunks
  BY <1>2 DEF DeleteChunks, Extends
<1>3. AppendUpdate \/ AppendInsert \/ DeleteChunks \/ UNCHANGED chunks
  BY DEF Next, SaverStep, ClientStep, Produce, Hangup, Crash, SaverSubscribe, SaverRecv,
         SaverLagged, SaverClosed, AppendMax, AppendLoad, AppendRejected, AppendFails, GiveUp,
         Attach, RecoverRead, RecoverSubscribe, RecoverFails, ClientRecv, ClientLagged, Disconnect
<1>4. QED
  BY <1>1, <1>2, <1>3, UpdateExtends, InsertExtends

\* What is stored stays: append writes back a chunk that it read before, and
\* yet no write undoes another.
THEOREM AppendOnlyHolds == Spec => AppendOnly
<1>1. IInv /\ [Next]_vars => [ \/ DOMAIN chunks' = {}
                               \/ \A i \in DOMAIN chunks :
                                    /\ i \in DOMAIN chunks'
                                    /\ IsPrefix(chunks[i], chunks'[i])
                                    /\ \A j \in DOMAIN chunks' \ DOMAIN chunks : i < j ]_vars
  BY StepExtends DEF Extends
<1>2. QED
  BY <1>1, Inductive, PTL DEF Spec, AppendOnly

-----------------------------------------------------------------------------
(***************************************************************************)
(* Induction and recursion over the natural numbers, for sets and          *)
(* functions instead of predicates and operators.                          *)
(***************************************************************************)

\* A set with zero and with the successor of each of its elements is all of Nat.
LEMMA Induction ==
  ASSUME NEW S, S \subseteq Nat, 0 \in S, \A n \in S : n + 1 \in S
  PROVE  S = Nat
<1> SUFFICES ASSUME Nat \ S # {} PROVE FALSE
  OBVIOUS
<1>1. PICK R : IsWellFoundedOn(R, Nat) /\ \A m, n \in Nat : m < n => <<m, n>> \in R
  <2>1. \A m, n \in Nat : m < n => <<m, n>> \in OpToRel(<, Nat)
    BY DEF OpToRel
  <2>2. QED
    BY <2>1, NatLessThanWellFounded, Zenon
<1>2. IsWellFoundedOn(R, Nat \ S)
  <2>1. Nat \ S \subseteq Nat
    OBVIOUS
  <2>2. QED
    BY <2>1, <1>1, IsWellFoundedOnSubset
<1>3. PICK x \in Nat \ S : \A y \in Nat \ S : <<y, x>> \notin R
  BY <1>2, WFMin
<1>4. x # 0 /\ x - 1 \in Nat /\ x - 1 < x /\ (x - 1) + 1 = x
  BY <1>3
<1>5. x - 1 \in S
  BY <1>1, <1>3, <1>4
<1>6. QED
  BY <1>3, <1>4, <1>5

\* A function up to n that begins with a and goes on by step.
Upto(f, n, S, a, step) ==
  /\ f \in [0..n -> S]
  /\ f[0] = a
  /\ \A i \in 0..n - 1 : f[i + 1] = step[i][f[i]]

\* There is such a function for every n.
LEMMA UptoExists ==
  ASSUME NEW S, NEW a \in S, NEW step \in [Nat -> [S -> S]]
  PROVE  \A n \in Nat : \E f : Upto(f, n, S, a, step)
<1> DEFINE Good == {n \in Nat : \E f : Upto(f, n, S, a, step)}
<1>1. 0 \in Good
  <2>1. Upto([i \in 0..0 |-> a], 0, S, a, step)
    BY DEF Upto
  <2>2. QED
    BY <2>1
<1>2. ASSUME NEW n \in Good PROVE n + 1 \in Good
  <2>1. n \in Nat
    OBVIOUS
  <2>2. PICK f : Upto(f, n, S, a, step)
    OBVIOUS
  <2> DEFINE g == [i \in 0..n + 1 |-> IF i = n + 1 THEN step[n][f[n]] ELSE f[i]]
  <2>3. n \in 0..n /\ f[n] \in S /\ step[n] \in [S -> S]
    BY <2>1, <2>2 DEF Upto
  <2>4. g \in [0..n + 1 -> S]
    <3>1. \A i \in 0..n + 1 : i = n + 1 \/ i \in 0..n
      BY <2>1
    <3>2. step[n][f[n]] \in S
      BY <2>3
    <3>3. QED
      BY <2>2, <3>1, <3>2 DEF Upto
  <2>5. g[0] = a
    BY <2>1, <2>2 DEF Upto
  <2>6. ASSUME NEW i \in 0..n + 1 - 1 PROVE g[i + 1] = step[i][g[i]]
    <3>1. i \in 0..n + 1 /\ i + 1 \in 0..n + 1 /\ i # n + 1
      BY <2>1
    <3>2. CASE i = n
      BY <3>1, <3>2
    <3>3. CASE i \in 0..n - 1
      <4>1. i + 1 # n + 1 /\ f[i + 1] = step[i][f[i]]
        BY <2>1, <2>2, <3>3 DEF Upto
      <4>2. QED
        BY <3>1, <4>1
    <3>4. QED
      BY <2>1, <3>2, <3>3
  <2> HIDE DEF g
  <2>7. Upto(g, n + 1, S, a, step)
    BY <2>4, <2>5, <2>6 DEF Upto
  <2>8. QED
    BY <2>1, <2>7
<1> HIDE DEF Good
<1>3. Good = Nat
  <2>1. Good \subseteq Nat
    BY DEF Good
  <2>2. QED
    BY <1>1, <1>2, <2>1, Induction
<1>4. QED
  BY <1>3 DEF Good

\* Two such functions agree as far as both go.
LEMMA UptoAgree ==
  ASSUME NEW S, NEW a, NEW step, NEW m \in Nat, NEW n \in Nat, NEW f, NEW g,
         Upto(f, m, S, a, step), Upto(g, n, S, a, step), m <= n
  PROVE  f[m] = g[m]
<1> DEFINE Good == {i \in Nat : i <= m => f[i] = g[i]}
<1>1. 0 \in Good
  BY DEF Upto
<1>2. ASSUME NEW i \in Good PROVE i + 1 \in Good
  <2> SUFFICES ASSUME i + 1 <= m PROVE f[i + 1] = g[i + 1]
    OBVIOUS
  <2>1. i \in Nat /\ i \in 0..m - 1 /\ i \in 0..n - 1 /\ f[i] = g[i]
    OBVIOUS
  <2>2. QED
    BY <2>1 DEF Upto
<1> HIDE DEF Good
<1>3. Good = Nat
  <2>1. Good \subseteq Nat
    BY DEF Good
  <2>2. QED
    BY <1>1, <1>2, <2>1, Induction
<1>4. QED
  BY <1>3 DEF Good

\* A function on Nat that begins with a and goes on by step.
Solves(f, S, a, step) ==
  /\ f \in [Nat -> S]
  /\ f[0] = a
  /\ \A n \in Nat : f[n + 1] = step[n][f[n]]

\* There is one.
LEMMA Recursion ==
  ASSUME NEW S, NEW a \in S, NEW step \in [Nat -> [S -> S]]
  PROVE  \E f : Solves(f, S, a, step)
<1> DEFINE U(n) == CHOOSE f : Upto(f, n, S, a, step)
           F == [n \in Nat |-> U(n)[n]]
<1>1. ASSUME NEW n \in Nat PROVE Upto(U(n), n, S, a, step)
  BY UptoExists
<1> HIDE DEF U
<1>2. F \in [Nat -> S]
  <2>1. ASSUME NEW n \in Nat PROVE U(n)[n] \in S
    <3>1. n \in 0..n
      OBVIOUS
    <3>2. QED
      BY <3>1, <1>1 DEF Upto
  <2>2. QED
    BY <2>1
<1>3. F[0] = a
  BY <1>1 DEF Upto
<1>4. ASSUME NEW n \in Nat PROVE F[n + 1] = step[n][F[n]]
  <2>1. n \in 0..n + 1 - 1 /\ n + 1 \in Nat /\ n <= n + 1
    OBVIOUS
  <2>2. U(n + 1)[n + 1] = step[n][U(n + 1)[n]]
    BY <2>1, <1>1 DEF Upto
  <2>3. U(n)[n] = U(n + 1)[n]
    BY <2>1, <1>1, UptoAgree
  <2>4. QED
    BY <2>1, <2>2, <2>3
<1> HIDE DEF F
<1>5. QED
  BY <1>2, <1>3, <1>4 DEF Solves

-----------------------------------------------------------------------------
(***************************************************************************)
(* Nothing is lost: the bytes held, from the first to the latest.          *)
(***************************************************************************)

\* What follows from the place of the task in its loop.
SaverPlace ==
  /\ saver.pc \notin AppendPC => saver.rest = <<>>
  /\ saver.pc = "none" => DOMAIN chunks = {}
  /\ saver.pc # "dead" => saver.next <= Len(sent) + 1

\* While nothing was missed the task lives, the chunk that append looked up is
\* there, and the bytes held are consecutive.
Kept ==
  clean => /\ saver.pc # "dead"
           /\ saver.pc \in {"load", "update"} => saver.index \in DOMAIN chunks
           /\ \E first \in 1..Produced + 1 : Held = first..Produced

\* The bytes of the messages to come.
Coming == UNION {ToSet(sent[p]) : p \in Waiting}

\* The bytes of a sequence cut in two are those of the parts.
LEMMA Elements ==
  ASSUME NEW s \in Seq(Nat), NEW t \in Seq(Nat)
  PROVE  ToSet(s \o t) = ToSet(s) \cup ToSet(t)
<1>1. /\ DOMAIN s = 1..Len(s) /\ DOMAIN t = 1..Len(t)
      /\ DOMAIN (s \o t) = 1..Len(s) + Len(t) /\ Len(s) \in Nat /\ Len(t) \in Nat
  OBVIOUS
<1>2. ASSUME NEW k \in 1..Len(s) + Len(t) PROVE (s \o t)[k] \in ToSet(s) \cup ToSet(t)
  <2>1. CASE k \in 1..Len(s)
    BY <2>1, <1>1, Joined DEF ToSet
  <2>2. CASE k - Len(s) \in 1..Len(t)
    <3>1. Len(s) + (k - Len(s)) = k
      BY <1>1
    <3>2. (s \o t)[k] = t[k - Len(s)]
      BY <2>2, <3>1, Joined
    <3>3. QED
      BY <2>2, <3>2, <1>1 DEF ToSet
  <2>3. QED
    BY <1>1, <2>1, <2>2
<1>3. ASSUME NEW k \in 1..Len(s) PROVE s[k] \in ToSet(s \o t)
  <2>1. k \in 1..Len(s) + Len(t) /\ (s \o t)[k] = s[k]
    BY <1>1, Joined
  <2>2. QED
    BY <2>1, <1>1 DEF ToSet
<1>4. ASSUME NEW k \in 1..Len(t) PROVE t[k] \in ToSet(s \o t)
  <2>1. Len(s) + k \in 1..Len(s) + Len(t) /\ (s \o t)[Len(s) + k] = t[k]
    BY <1>1, Joined
  <2>2. QED
    BY <2>1, <1>1 DEF ToSet
<1>5. ToSet(s \o t) \subseteq ToSet(s) \cup ToSet(t)
  BY <1>1, <1>2 DEF ToSet
<1>6. ToSet(s) \subseteq ToSet(s \o t)
  BY <1>1, <1>3 DEF ToSet
<1>7. ToSet(t) \subseteq ToSet(s \o t)
  BY <1>1, <1>4 DEF ToSet
<1>8. QED
  BY <1>5, <1>6, <1>7

\* Taking some of a sequence off its front loses none of it.
LEMMA CutElements ==
  ASSUME NEW s \in Seq(Nat), NEW n \in 0..Len(s)
  PROVE  ToSet(s) = ToSet(SubSeq(s, 1, n)) \cup ToSet(SubSeq(s, n + 1, Len(s)))
<1> DEFINE a == SubSeq(s, 1, n)
           b == SubSeq(s, n + 1, Len(s))
<1>1. /\ a \in Seq(Nat) /\ Len(a) = n /\ \A k \in 1..n : a[k] = s[k]
      /\ b \in Seq(Nat) /\ Len(b) = Len(s) - n /\ \A k \in 1..Len(s) - n : b[k] = s[n + k]
  BY Cut
<1> HIDE DEF a, b
<1>2. DOMAIN s = 1..Len(s) /\ DOMAIN a = 1..n /\ DOMAIN b = 1..Len(s) - n
      /\ Len(s) \in Nat /\ n \in Nat
  BY <1>1
<1>3. ASSUME NEW k \in 1..Len(s) PROVE s[k] \in ToSet(a) \cup ToSet(b)
  <2>1. CASE k \in 1..n
    BY <2>1, <1>1, <1>2 DEF ToSet
  <2>2. CASE k \notin 1..n
    <3>1. k - n \in 1..Len(s) - n /\ n + (k - n) = k
      BY <2>2, <1>2
    <3>2. b[k - n] = s[k]
      BY <3>1, <1>1
    <3>3. QED
      BY <3>1, <3>2, <1>2 DEF ToSet
  <2>3. QED
    BY <2>1, <2>2
<1>4. ASSUME NEW k \in 1..n PROVE a[k] \in ToSet(s)
  <2>1. k \in 1..Len(s) /\ a[k] = s[k]
    BY <1>1, <1>2
  <2>2. QED
    BY <2>1, <1>2 DEF ToSet
<1>5. ASSUME NEW k \in 1..Len(s) - n PROVE b[k] \in ToSet(s)
  <2>1. n + k \in 1..Len(s) /\ b[k] = s[n + k]
    BY <1>1, <1>2
  <2>2. QED
    BY <2>1, <1>2 DEF ToSet
<1>6. ToSet(s) \subseteq ToSet(a) \cup ToSet(b)
  BY <1>2, <1>3 DEF ToSet
<1>7. ToSet(a) \subseteq ToSet(s) /\ ToSet(b) \subseteq ToSet(s)
  BY <1>2, <1>4, <1>5 DEF ToSet
<1>8. QED
  BY <1>6, <1>7 DEF a, b

\* The empty sequence has no elements.
LEMMA NoElements == ToSet(<<>>) = {}
BY DEF ToSet

\* What the task does between its writes changes none of the bytes it holds.
LEMMA SameHeld ==
  ASSUME UNCHANGED <<sent, chunks>>, saver'.rest = saver.rest, saver'.next = saver.next
  PROVE  Held' = Held /\ Produced' = Produced
BY DEF Held, Stored, Waiting, Produced

\* A write moves bytes from the hands of append to the chunks.
LEMMA MovedHeld ==
  ASSUME UNCHANGED sent, saver'.next = saver.next,
         Stored' \cup ToSet(saver.rest)' = Stored \cup ToSet(saver.rest)
  PROVE  Held' = Held /\ Produced' = Produced
<1>1. Coming' = Coming
  BY DEF Coming, Waiting
<1>2. Held = Stored \cup ToSet(saver.rest) \cup Coming
  BY DEF Held, Coming
<1>3. Held' = Stored' \cup ToSet(saver.rest)' \cup Coming'
  BY DEF Held, Coming
<1>4. Held' = Held
  BY <1>1, <1>2, <1>3
<1>5. QED
  BY <1>4 DEF Produced

\* UPDATE: the chunk gets what append takes off its front, if it is there.
LEMMA UpdateMoves ==
  ASSUME IInv, AppendUpdate
  PROVE  /\ UNCHANGED <<sent, clean>> /\ saver'.next = saver.next
         /\ saver'.pc \in {"recv", "insert"}
         /\ Stored' \cup ToSet(saver.rest)' \subseteq Stored \cup ToSet(saver.rest)
         /\ saver.index \in DOMAIN chunks =>
              Stored' \cup ToSet(saver.rest)' = Stored \cup ToSet(saver.rest)
<1> DEFINE taken == Smaller(ChunkSize - Len(saver.last), Len(saver.rest))
           h == SubSeq(saver.rest, 1, taken)
           r == SubSeq(saver.rest, taken + 1, Len(saver.rest))
<1>1. /\ saver.pc = "update" /\ UNCHANGED <<sent, clean>>
      /\ saver' = AfterWrite(saver.index, r)
      /\ chunks' = [i \in DOMAIN chunks |->
                      IF i = saver.index THEN saver.last \o h ELSE chunks[i]]
  BY DEF AppendUpdate
<1>2. /\ saver.rest \in Seq(Nat) /\ saver.last \in Seq(Nat) /\ saver.index \in Nat \cup {-1}
      /\ Len(saver.last) < ChunkSize
  BY <1>1, SaverFields DEF IInv, SaverLocals
<1>3. taken \in 0..Len(saver.rest)
  <2>1. ChunkSize - Len(saver.last) \in Nat
    BY <1>2, ChunkSizeAssumption
  <2>2. Len(saver.rest) \in Nat
    BY <1>2
  <2>3. QED
    BY <2>1, <2>2, SmallerBounds
<1> HIDE DEF taken
<1>4. h \in Seq(Nat) /\ r \in Seq(Nat) /\ ToSet(saver.rest) = ToSet(h) \cup ToSet(r)
  BY <1>2, <1>3, Cut, CutElements
<1> HIDE DEF h, r
<1>5. /\ saver'.next = saver.next /\ saver'.rest = r /\ saver'.pc \in {"recv", "insert"}
  BY <1>1, <1>2, <1>4, AfterWriteType
<1>6. CASE saver.index \in DOMAIN chunks
  <2>1. chunks[saver.index] = saver.last
    BY <1>1, <1>6 DEF IInv, SaverLocals
  <2>2. /\ DOMAIN chunks' = DOMAIN chunks
        /\ ToSet(chunks'[saver.index]) = ToSet(chunks[saver.index]) \cup ToSet(h)
        /\ \A i \in DOMAIN chunks : i # saver.index => chunks'[i] = chunks[i]
    BY <1>1, <1>2, <1>4, <1>6, <2>1, Elements
  <2>3. Stored' = Stored \cup ToSet(h)
    BY <1>6, <2>2 DEF Stored
  <2>4. QED
    BY <1>1, <1>4, <1>5, <2>3
<1>7. CASE saver.index \notin DOMAIN chunks
  <2>1. Stored' = Stored
    BY <1>1, <1>7 DEF Stored
  <2>2. QED
    BY <1>1, <1>4, <1>5, <1>7, <2>1
<1>8. QED
  BY <1>6, <1>7

\* INSERT: the new chunk gets what append takes off its front.
LEMMA InsertMoves ==
  ASSUME IInv, AppendInsert
  PROVE  /\ UNCHANGED <<sent, clean>> /\ saver'.next = saver.next
         /\ saver'.pc \in {"recv", "insert"}
         /\ Stored' \cup ToSet(saver.rest)' = Stored \cup ToSet(saver.rest)
<1> DEFINE index == saver.index + 1
           taken == Smaller(ChunkSize, Len(saver.rest))
           h == SubSeq(saver.rest, 1, taken)
           r == SubSeq(saver.rest, taken + 1, Len(saver.rest))
<1>1. /\ saver.pc = "insert" /\ UNCHANGED <<sent, clean>>
      /\ index \notin DOMAIN chunks
      /\ saver' = AfterWrite(index, r)
      /\ chunks' = [i \in DOMAIN chunks \cup {index} |-> IF i = index THEN h ELSE chunks[i]]
  BY DEF AppendInsert, CanInsert
<1>2. saver.rest \in Seq(Nat) /\ index \in Nat \cup {-1} /\ Len(saver.rest) \in Nat
  BY SaverFields DEF IInv
<1>3. taken \in 0..Len(saver.rest)
  BY <1>2, ChunkSizeAssumption, SmallerBounds
<1> HIDE DEF taken, index
<1>4. h \in Seq(Nat) /\ r \in Seq(Nat) /\ ToSet(saver.rest) = ToSet(h) \cup ToSet(r)
  BY <1>2, <1>3, Cut, CutElements
<1> HIDE DEF h, r
<1>5. /\ saver'.next = saver.next /\ saver'.rest = r /\ saver'.pc \in {"recv", "insert"}
  BY <1>1, <1>2, <1>4, AfterWriteType
<1>6. /\ DOMAIN chunks' = DOMAIN chunks \cup {index}
      /\ chunks'[index] = h
      /\ \A i \in DOMAIN chunks : chunks'[i] = chunks[i]
  BY <1>1
<1>7. Stored' = Stored \cup ToSet(h)
  BY <1>6 DEF Stored
<1>8. QED
  BY <1>1, <1>4, <1>5, <1>7

\* The message that Produce appends holds the next n bytes.
LEMMA Packet ==
  ASSUME IInv, NEW n \in 1..MaxPacket, Produce(n)
  PROVE  /\ UNCHANGED <<up, row, chunks, saver, client, clean>>
         /\ Produced' = Produced + n
         /\ Len(sent') = Len(sent) + 1
         /\ \A p \in 1..Len(sent) : sent'[p] = sent[p]
         /\ sent'[Len(sent) + 1] \in Seq(Nat)
         /\ ToSet(sent'[Len(sent) + 1]) = Produced + 1..Produced + n
<1> DEFINE packet == [k \in 1..n |-> Produced + k]
<1>0. n \in Nat /\ 1 <= n /\ Produced \in Nat /\ Len(sent) \in Nat
  BY BoundsAssumption DEF IInv, OnlyProduced, StoreType
<1>1. /\ sent' = Append(sent, packet) /\ UNCHANGED <<up, row, chunks, saver, client, clean>>
      /\ packet \in Seq(Nat) /\ Len(packet) = n
  BY <1>0 DEF Produce
<1>2. packet[n] = Produced + n
  BY <1>0
<1>3. ToSet(packet) = {Produced + k : k \in 1..n}
  BY DEF ToSet
<1>4. {Produced + k : k \in 1..n} = Produced + 1..Produced + n
  <2>1. ASSUME NEW b \in Produced + 1..Produced + n PROVE b \in {Produced + k : k \in 1..n}
    <3>1. b - Produced \in 1..n /\ b = Produced + (b - Produced)
      BY <1>0
    <3>2. QED
      BY <3>1
  <2>2. QED
    BY <2>1, <1>0
<1> HIDE DEF packet
<1>5. /\ sent' # <<>> /\ Len(sent') = Len(sent) + 1 /\ sent'[Len(sent) + 1] = packet
      /\ \A p \in 1..Len(sent) : sent'[p] = sent[p]
  <2>1. sent \in Seq(Seq(Nat))
    BY DEF IInv, StoreType
  <2>2. packet \in Seq(Nat) /\ Appends(sent', sent, packet)
    BY <1>1 DEF Appends
  <2>3. QED
    BY <2>1, <2>2, Appended
<1>6. Produced' = Produced + n
  BY <1>1, <1>2, <1>5 DEF Produced, Last
<1>7. QED
  BY <1>1, <1>3, <1>4, <1>5, <1>6

\* Every step keeps what follows from the place of the task.
LEMMA PlaceStep == ASSUME IInv, SaverPlace, [Next]_vars PROVE SaverPlace'
<1>1. saver.pc \in SaverPC /\ saver.next \in Nat \ {0} /\ Len(sent) \in Nat
  BY SaverFields DEF IInv, StoreType
<1>2. ASSUME NEW n \in 1..MaxPacket, Produce(n) PROVE SaverPlace'
  <2>1. UNCHANGED <<chunks, saver>> /\ Len(sent') = Len(sent) + 1
    BY <1>2 DEF Produce, IInv, StoreType
  <2>2. QED
    BY <1>1, <2>1 DEF SaverPlace
<1>3. CASE SaverSubscribe
  BY <1>3, <1>1 DEF SaverSubscribe, SaverPlace, End, IInv, StoreType, Saver, AppendPC
<1>4. CASE SaverRecv
  BY <1>4, <1>1 DEF SaverRecv, SaverPlace, CanReceive, IInv, StoreType, Saver, AppendPC
<1>5. CASE SaverLagged
  <2>1. Oldest <= Len(sent) + 1
    BY <1>1, CapacityAssumption DEF Oldest
  <2>2. saver'.pc = saver.pc /\ saver'.rest = saver.rest /\ saver'.next = Oldest
    BY <1>5 DEF SaverLagged, IInv, StoreType, Saver
  <2>3. QED
    BY <1>5, <2>1, <2>2 DEF SaverLagged, SaverPlace
<1>6. CASE SaverClosed
  BY <1>6 DEF SaverClosed, SaverPlace, IInv, StoreType, Saver, AppendPC
<1>7. CASE AppendMax
  BY <1>7 DEF AppendMax, SaverPlace, IInv, StoreType, Saver, AppendPC
<1>8. CASE AppendLoad
  BY <1>8 DEF AppendLoad, SaverPlace, IInv, StoreType, Saver, AppendPC
<1>9. CASE AppendUpdate \/ AppendInsert \/ AppendRejected \/ AppendFails
  <2>1. /\ saver.pc \in AppendPC /\ sent' = sent
        /\ \E i, r : saver' = AfterWrite(i, r)
    BY <1>9 DEF AppendUpdate, AppendInsert, AppendRejected, AppendFails, GiveUp, AppendPC
  <2>2. PICK i, r : saver' = AfterWrite(i, r)
    BY <2>1
  <2>3. /\ saver'.next = saver.next
        /\ \/ saver'.pc = "recv" /\ saver'.rest = <<>>
           \/ saver'.pc = "insert"
    BY <2>2 DEF AfterWrite, IInv, StoreType, Saver
  <2>4. QED
    BY <2>1, <2>3 DEF SaverPlace, AppendPC
<1>10. CASE DeleteChunks
  BY <1>10 DEF DeleteChunks, SaverPlace
<1>11. CASE Crash
  BY <1>11 DEF Crash, AfterWrite, SaverPlace, IInv, StoreType, Saver, AppendPC
<1>12. CASE ClientStep \/ Hangup \/ UNCHANGED vars
  <2>1. UNCHANGED <<sent, chunks, saver>>
    BY <1>12 DEF ClientStep, Attach, RecoverRead, RecoverSubscribe, RecoverFails, ClientRecv,
                ClientLagged, Disconnect, Hangup, vars
  <2>2. QED
    BY <2>1 DEF SaverPlace
<1>13. QED
  BY <1>2, <1>3, <1>4, <1>5, <1>6, <1>7, <1>8, <1>9, <1>10, <1>11, <1>12 DEF Next, SaverStep

\* The session puts out more: the new message follows all that is held.
LEMMA ProduceKept ==
  ASSUME IInv, SaverPlace, Kept, NEW n \in 1..MaxPacket, Produce(n)
  PROVE  Kept'
<1> DEFINE new == Produced + 1..Produced + n
<1>1. /\ UNCHANGED <<chunks, saver, clean>> /\ Produced' = Produced + n
      /\ Len(sent') = Len(sent) + 1
      /\ \A p \in 1..Len(sent) : sent'[p] = sent[p]
      /\ ToSet(sent'[Len(sent) + 1]) = new
  BY Packet
<1>2. n \in Nat /\ Produced \in Nat /\ Len(sent) \in Nat /\ saver.next \in Nat \ {0}
  BY BoundsAssumption, SaverFields DEF IInv, OnlyProduced, StoreType
<1> SUFFICES ASSUME clean PROVE Kept'
  BY <1>1 DEF Kept
<1> HIDE DEF new
<1>3. saver.pc # "dead" /\ saver.next <= Len(sent) + 1
  BY DEF Kept, SaverPlace
<1>4. Coming' = Coming \cup new
  <2>1. Waiting' = Waiting \cup {Len(sent) + 1}
    BY <1>1, <1>2, <1>3 DEF Waiting
  <2>2. \A p \in Waiting : sent'[p] = sent[p]
    BY <1>1, <1>2 DEF Waiting
  <2>3. QED
    BY <1>1, <2>1, <2>2 DEF Coming
<1>5. Held' = Held \cup new
  <2>1. Held = Stored \cup ToSet(saver.rest) \cup Coming
    BY DEF Held, Coming
  <2>2. Held' = Stored' \cup ToSet(saver.rest)' \cup Coming'
    BY DEF Held, Coming
  <2>3. Stored' = Stored /\ ToSet(saver.rest)' = ToSet(saver.rest)
    BY <1>1 DEF Stored
  <2>4. QED
    BY <2>1, <2>2, <2>3, <1>4
<1>6. PICK first \in 1..Produced + 1 : Held = first..Produced
  BY DEF Kept
<1>7. first \in 1..Produced' + 1 /\ Held' = first..Produced'
  BY <1>1, <1>2, <1>5, <1>6 DEF new
<1>8. QED
  BY <1>1, <1>7 DEF Kept

\* The task takes up its receiver: until then it held what it will never get,
\* and nothing is stored.
LEMMA SubscribeKept == ASSUME IInv, SaverPlace, Kept, SaverSubscribe PROVE Kept'
<1>1. /\ saver.pc = "none" /\ DOMAIN chunks = {} /\ saver.rest = <<>>
      /\ UNCHANGED <<sent, chunks, clean>>
      /\ saver'.pc = "recv" /\ saver'.rest = saver.rest /\ saver'.next = Len(sent) + 1
  BY DEF SaverSubscribe, SaverPlace, End, IInv, StoreType, Saver, AppendPC
<1>2. Produced' = Produced /\ Produced \in Nat /\ Len(sent) \in Nat
  BY <1>1 DEF Produced, IInv, OnlyProduced, StoreType
<1>3. Waiting' = {}
  BY <1>1, <1>2 DEF Waiting
<1>4. Held' = {}
  BY <1>1, <1>3, NoElements DEF Held, Stored
<1>5. Produced + 1 \in 1..Produced' + 1 /\ Held' = Produced + 1..Produced'
  BY <1>2, <1>4
<1>6. QED
  BY <1>1, <1>5 DEF Kept

\* A message goes from the channel to the hands of append.
LEMMA RecvKept == ASSUME IInv, SaverPlace, Kept, SaverRecv PROVE Kept'
<1>1. /\ saver.pc = "recv" /\ saver.rest = <<>>
      /\ UNCHANGED <<sent, chunks, clean>>
      /\ saver'.pc = "max" /\ saver'.rest = sent[saver.next] /\ saver'.next = saver.next + 1
  BY DEF SaverRecv, SaverPlace, IInv, StoreType, Saver, AppendPC
<1>2. saver.next \in 1..Len(sent) /\ Len(sent) \in Nat
  BY CapacityAssumption DEF SaverRecv, CanReceive, Oldest, IInv, StoreType
<1>3. Waiting = Waiting' \cup {saver.next}
  BY <1>1, <1>2 DEF Waiting
<1>4. Coming = Coming' \cup ToSet(saver.rest)'
  BY <1>1, <1>3 DEF Coming
<1>5. Held' = Held
  <2>1. Held = Stored \cup ToSet(saver.rest) \cup Coming
    BY DEF Held, Coming
  <2>2. Held' = Stored' \cup ToSet(saver.rest)' \cup Coming'
    BY DEF Held, Coming
  <2>3. Stored' = Stored /\ ToSet(saver.rest) = {}
    BY <1>1, NoElements DEF Stored
  <2>4. QED
    BY <2>1, <2>2, <2>3, <1>4
<1>6. Produced' = Produced
  BY <1>1 DEF Produced
<1>7. QED
  BY <1>1, <1>5, <1>6 DEF Kept

\* append looks for the last chunk, and finds the one there is.
LEMMA LookUpKept == ASSUME IInv, Kept, AppendMax \/ AppendLoad PROVE Kept'
<1>1. /\ UNCHANGED <<sent, chunks, clean>> /\ saver'.rest = saver.rest
      /\ saver'.next = saver.next /\ saver'.pc \in {"load", "update", "insert"}
  BY DEF AppendMax, AppendLoad, IInv, StoreType, Saver
<1>2. ASSUME saver'.pc \in {"load", "update"} PROVE saver'.index \in DOMAIN chunks
  <2>1. CASE AppendLoad
    BY <1>2, <2>1 DEF AppendLoad, IInv, StoreType, Saver
  <2>2. CASE AppendMax
    <3>1. MaxIndex >= 0 /\ saver'.index = MaxIndex
      BY <1>2, <2>2 DEF AppendMax, IInv, StoreType, Saver
    <3>2. DOMAIN chunks # {}
      BY <3>1 DEF MaxIndex
    <3>3. PICK i \in DOMAIN chunks : \A j \in DOMAIN chunks : i >= j
      BY <3>2 DEF IInv, StoreType, HasLast, IsLast
    <3>4. MaxIndex \in DOMAIN chunks
      BY <3>2, <3>3 DEF MaxIndex, Max
    <3>5. QED
      BY <3>1, <3>4
  <2>3. QED
    BY <2>1, <2>2
<1>3. Held' = Held /\ Produced' = Produced
  BY <1>1, SameHeld
<1>4. QED
  BY <1>1, <1>2, <1>3 DEF Kept

\* append writes: the bytes change hands.
LEMMA WriteKept == ASSUME IInv, Kept, AppendUpdate \/ AppendInsert PROVE Kept'
<1> SUFFICES ASSUME clean PROVE Kept'
  BY DEF Kept, AppendUpdate, AppendInsert
<1>1. AppendUpdate => saver.index \in DOMAIN chunks
  BY DEF AppendUpdate, Kept
<1>2. /\ UNCHANGED <<sent, clean>> /\ saver'.next = saver.next
      /\ saver'.pc \in {"recv", "insert"}
      /\ Stored' \cup ToSet(saver.rest)' = Stored \cup ToSet(saver.rest)
  BY <1>1, UpdateMoves, InsertMoves
<1>3. Held' = Held /\ Produced' = Produced
  BY <1>2, MovedHeld
<1>4. QED
  BY <1>2, <1>3 DEF Kept

\* Every step keeps the bytes together, or makes them unclean.
LEMMA KeptStep == ASSUME IInv, SaverPlace, Kept, [Next]_vars PROVE Kept'
<1>1. ASSUME NEW n \in 1..MaxPacket, Produce(n) PROVE Kept'
  BY <1>1, ProduceKept
<1>2. CASE SaverLagged \/ AppendRejected \/ AppendFails \/ DeleteChunks \/ Crash
  BY <1>2 DEF SaverLagged, AppendRejected, AppendFails, GiveUp, DeleteChunks, Crash, Kept
<1>3. CASE SaverClosed
  <2>1. /\ UNCHANGED <<sent, chunks, clean>> /\ saver'.rest = saver.rest
        /\ saver'.next = saver.next /\ saver'.pc = "done"
    BY <1>3 DEF SaverClosed, IInv, StoreType, Saver
  <2>2. QED
    BY <2>1, SameHeld DEF Kept
<1>4. CASE ClientStep \/ Hangup \/ UNCHANGED vars
  <2>1. UNCHANGED <<sent, chunks, saver, clean>>
    BY <1>4 DEF ClientStep, Attach, RecoverRead, RecoverSubscribe, RecoverFails, ClientRecv,
                ClientLagged, Disconnect, Hangup, vars
  <2>2. QED
    BY <2>1, SameHeld DEF Kept
<1>5. QED
  BY <1>1, <1>2, <1>3, <1>4, SubscribeKept, RecvKept, LookUpKept, WriteKept
     DEF Next, SaverStep

\* At the beginning nothing is held.
LEMMA InitKept == Init => SaverPlace /\ Kept
<1> SUFFICES ASSUME Init PROVE SaverPlace /\ Kept
  OBVIOUS
<1>1. /\ sent = <<>> /\ Len(sent) = 0 /\ DOMAIN chunks = {} /\ Produced = 0
      /\ saver = [pc |-> "none", next |-> 1, rest |-> <<>>, index |-> -1, last |-> <<>>]
  BY DEF Init, Produced
<1>2. Waiting = {} /\ ToSet(saver.rest) = {}
  BY <1>1, NoElements DEF Waiting
<1>3. Held = {}
  BY <1>1, <1>2 DEF Held, Stored
<1>4. 1 \in 1..Produced + 1 /\ Held = 1..Produced
  BY <1>1, <1>3
<1>5. Kept
  BY <1>1, <1>4 DEF Kept
<1>6. QED
  BY <1>1, <1>5 DEF SaverPlace, AppendPC

\* The order of what is held is part of the invariant.
LEMMA HeldInTurn == IInv /\ SaverPlace /\ Kept => Conserved
<1> SUFFICES ASSUME IInv, SaverPlace, Kept, clean PROVE Conserved
  BY DEF Conserved
<1>1. saver.pc # "dead" /\ \E first \in 1..Produced + 1 : Held = first..Produced
  BY DEF Kept
<1>2. \A p \in Waiting : p \in 1..Len(sent) /\ saver.next <= p
  BY SaverFields DEF Waiting, IInv, StoreType
<1>3. InTurn
  BY <1>1, <1>2 DEF InTurn, IInv, SaverOrder, SentInOrder
<1>4. QED
  BY <1>1, <1>3 DEF Conserved, IInv

\* As long as no message was missed and no query lost, the bytes from the
\* subscription on are each in one place and in their turn, through every
\* query of append.
THEOREM ConservedHolds == Spec => []Conserved
<1>1. Init => IInv /\ SaverPlace /\ Kept
  BY InitIInv, InitKept
<1>2. IInv /\ SaverPlace /\ Kept /\ [Next]_vars => (IInv /\ SaverPlace /\ Kept)'
  BY NextIInv, PlaceStep, KeptStep
<1>3. IInv /\ SaverPlace /\ Kept => Conserved
  BY HeldInTurn
<1>4. QED
  BY <1>1, <1>2, <1>3, PTL DEF Spec

-----------------------------------------------------------------------------
(***************************************************************************)
(* The read queries.                                                       *)
(***************************************************************************)

\* There are data at every index, if only none.
LEMMA DataType == ASSUME StoreType, NEW i \in Nat PROVE Data(i) \in Seq(Nat)
BY DEF Data, StoreType

\* The recursion of get_all.
LEMMA BytesBelowRec ==
  ASSUME StoreType
  PROVE  /\ BytesBelow[0] = <<>>
         /\ \A n \in Nat : /\ BytesBelow[n] \in Seq(Nat)
                           /\ BytesBelow[n + 1] = BytesBelow[n] \o Data(n)
<1> DEFINE step == [i \in Nat |-> [s \in Seq(Nat) |-> s \o Data(i)]]
           Def(f) == [n \in Nat |-> IF n = 0 THEN <<>> ELSE f[n - 1] \o Data(n - 1)]
<1>1. <<>> \in Seq(Nat) /\ step \in [Nat -> [Seq(Nat) -> Seq(Nat)]]
  BY DataType
<1>2. \A i \in Nat : \A s \in Seq(Nat) : step[i][s] = s \o Data(i)
  OBVIOUS
<1> HIDE DEF step
<1>a. PICK f : Solves(f, Seq(Nat), <<>>, step)
  BY <1>1, Recursion, Zenon
<1>3. /\ f \in [Nat -> Seq(Nat)] /\ f[0] = <<>>
      /\ \A n \in Nat : f[n + 1] = step[n][f[n]]
  BY <1>a DEF Solves
<1>4. \A n \in Nat : f[n] = IF n = 0 THEN <<>> ELSE f[n - 1] \o Data(n - 1)
  <2> SUFFICES ASSUME NEW n \in Nat, n # 0 PROVE f[n] = f[n - 1] \o Data(n - 1)
    BY <1>3
  <2>1. n - 1 \in Nat /\ (n - 1) + 1 = n
    OBVIOUS
  <2>2. f[(n - 1) + 1] = f[n - 1] \o Data(n - 1)
    BY <2>1, <1>2, <1>3
  <2>3. QED
    BY <2>1, <2>2
<1>5. f = Def(f)
  BY <1>3, <1>4
<1>6. BytesBelow = Def(BytesBelow)
  BY <1>5 DEF BytesBelow
<1>7. BytesBelow[0] = <<>> /\ \A n \in Nat : BytesBelow[n + 1] = BytesBelow[n] \o Data(n)
  <2>1. \A n \in Nat : BytesBelow[n] = IF n = 0 THEN <<>> ELSE BytesBelow[n - 1] \o Data(n - 1)
    BY <1>6
  <2>2. ASSUME NEW n \in Nat PROVE BytesBelow[n + 1] = BytesBelow[n] \o Data(n)
    <3>1. n + 1 \in Nat /\ n + 1 # 0 /\ (n + 1) - 1 = n
      OBVIOUS
    <3>2. QED
      BY <2>1, <3>1
  <2>3. QED
    BY <2>1, <2>2
<1> DEFINE Good == {n \in Nat : BytesBelow[n] \in Seq(Nat)}
<1>8. Good = Nat
  <2>1. Good \subseteq Nat /\ 0 \in Good
    BY <1>1, <1>7
  <2>2. ASSUME NEW n \in Good PROVE n + 1 \in Good
    <3>1. n \in Nat /\ BytesBelow[n] \in Seq(Nat) /\ Data(n) \in Seq(Nat)
      BY DataType
    <3>2. BytesBelow[n + 1] \in Seq(Nat)
      BY <1>7, <3>1, Joined
    <3>3. QED
      BY <3>1, <3>2
  <2> HIDE DEF Good
  <2>3. QED
    BY <2>1, <2>2, Induction
<1>9. QED
  BY <1>7, <1>8

\* The recursion of total_size.
LEMMA SizeBelowRec ==
  ASSUME StoreType
  PROVE  /\ SizeBelow[0] = 0
         /\ \A n \in Nat : SizeBelow[n + 1] = SizeBelow[n] + Len(Data(n))
<1> DEFINE step == [i \in Nat |-> [s \in Nat |-> s + Len(Data(i))]]
           Def(f) == [n \in Nat |-> IF n = 0 THEN 0 ELSE f[n - 1] + Len(Data(n - 1))]
<1>1. step \in [Nat -> [Nat -> Nat]]
  BY DataType
<1>2. \A i \in Nat : \A s \in Nat : step[i][s] = s + Len(Data(i))
  OBVIOUS
<1> HIDE DEF step
<1>a. PICK f : Solves(f, Nat, 0, step)
  BY <1>1, Recursion, Zenon
<1>3. /\ f \in [Nat -> Nat] /\ f[0] = 0
      /\ \A n \in Nat : f[n + 1] = step[n][f[n]]
  BY <1>a DEF Solves
<1>4. \A n \in Nat : f[n] = IF n = 0 THEN 0 ELSE f[n - 1] + Len(Data(n - 1))
  <2> SUFFICES ASSUME NEW n \in Nat, n # 0 PROVE f[n] = f[n - 1] + Len(Data(n - 1))
    BY <1>3
  <2>1. n - 1 \in Nat /\ (n - 1) + 1 = n
    OBVIOUS
  <2>2. f[(n - 1) + 1] = f[n - 1] + Len(Data(n - 1))
    BY <2>1, <1>2, <1>3
  <2>3. QED
    BY <2>1, <2>2
<1>5. f = Def(f)
  BY <1>3, <1>4
<1>6. SizeBelow = Def(SizeBelow)
  BY <1>5 DEF SizeBelow
<1>7. \A n \in Nat : SizeBelow[n] = IF n = 0 THEN 0 ELSE SizeBelow[n - 1] + Len(Data(n - 1))
  BY <1>6
<1>8. ASSUME NEW n \in Nat PROVE SizeBelow[n + 1] = SizeBelow[n] + Len(Data(n))
  <2>1. n + 1 \in Nat /\ n + 1 # 0 /\ (n + 1) - 1 = n
    OBVIOUS
  <2>2. QED
    BY <1>7, <2>1
<1>9. QED
  BY <1>7, <1>8

\* How far get_from_offset has come, and what it has collected.
WalkState == [at : Nat, result : Seq(Nat)]

Walked(offset) ==
  CHOOSE W : W = [index \in Nat |->
                    IF index = 0 THEN [at |-> 0, result |-> <<>>]
                    ELSE Visit(W[index - 1], Data(index - 1), offset)]

\* One round of the loop keeps the types.
LEMMA VisitType ==
  ASSUME NEW acc \in WalkState, NEW data \in Seq(Nat), NEW offset \in Nat
  PROVE  Visit(acc, data, offset) \in WalkState
<1>1. /\ acc.at \in Nat /\ acc.result \in Seq(Nat) /\ Len(data) \in Nat
      /\ acc.at + Len(data) \in Nat
  BY DEF WalkState
<1> DEFINE from == IF acc.at < offset THEN offset - acc.at + 1 ELSE 1
<1>2. from \in Nat \ {0}
  BY <1>1
<1> HIDE DEF from
<1>3. SubSeq(data, from, Len(data)) \in Seq(Nat)
  BY <1>1, <1>2
<1>4. acc.result \o SubSeq(data, from, Len(data)) \in Seq(Nat)
  BY <1>1, <1>3
<1>5. QED
  BY <1>1, <1>4 DEF Visit, WalkState, from

\* The recursion of get_from_offset.
LEMMA WalkedRec ==
  ASSUME StoreType, NEW offset \in Nat
  PROVE  /\ Walked(offset)[0] = [at |-> 0, result |-> <<>>]
         /\ \A n \in Nat : Walked(offset)[n + 1] = Visit(Walked(offset)[n], Data(n), offset)
<1> DEFINE zero == [at |-> 0, result |-> <<>>]
           step == [i \in Nat |-> [acc \in WalkState |-> Visit(acc, Data(i), offset)]]
           Def(f) == [n \in Nat |-> IF n = 0 THEN [at |-> 0, result |-> <<>>]
                                    ELSE Visit(f[n - 1], Data(n - 1), offset)]
           W == Walked(offset)
<1>1. zero \in WalkState /\ step \in [Nat -> [WalkState -> WalkState]]
  <2>1. zero \in WalkState
    BY DEF WalkState
  <2>2. QED
    BY <2>1, DataType, VisitType
<1>2. \A i \in Nat : \A acc \in WalkState : step[i][acc] = Visit(acc, Data(i), offset)
  OBVIOUS
<1> HIDE DEF step
<1>a. PICK f : Solves(f, WalkState, zero, step)
  BY <1>1, Recursion, Zenon
<1>3. /\ f \in [Nat -> WalkState] /\ f[0] = zero
      /\ \A n \in Nat : f[n + 1] = step[n][f[n]]
  BY <1>a DEF Solves
<1>4. \A n \in Nat : f[n] = IF n = 0 THEN zero ELSE Visit(f[n - 1], Data(n - 1), offset)
  <2> SUFFICES ASSUME NEW n \in Nat, n # 0 PROVE f[n] = Visit(f[n - 1], Data(n - 1), offset)
    BY <1>3
  <2>1. n - 1 \in Nat /\ (n - 1) + 1 = n
    OBVIOUS
  <2>2. f[(n - 1) + 1] = Visit(f[n - 1], Data(n - 1), offset)
    BY <2>1, <1>2, <1>3
  <2>3. QED
    BY <2>1, <2>2
<1>5. f = Def(f)
  BY <1>3, <1>4
<1>6. W = Def(W)
  BY <1>5 DEF Walked
<1> HIDE DEF W
<1>7. \A n \in Nat : W[n] = IF n = 0 THEN zero ELSE Visit(W[n - 1], Data(n - 1), offset)
  BY <1>6
<1>8. ASSUME NEW n \in Nat PROVE W[n + 1] = Visit(W[n], Data(n), offset)
  <2>1. n + 1 \in Nat /\ n + 1 # 0 /\ (n + 1) - 1 = n
    OBVIOUS
  <2>2. QED
    BY <1>7, <2>1
<1>9. QED
  BY <1>7, <1>8 DEF W

\* A sequence extended, without its first elements.
LEMMA JoinedRest ==
  ASSUME NEW b \in Seq(Nat), NEW d \in Seq(Nat), NEW offset \in Nat
  PROVE  SubSeq(b \o d, offset + 1, Len(b \o d)) =
           IF Len(b) + Len(d) <= offset THEN SubSeq(b, offset + 1, Len(b))
           ELSE SubSeq(b, offset + 1, Len(b)) \o
                  SubSeq(d, IF Len(b) < offset THEN offset - Len(b) + 1 ELSE 1, Len(d))
<1>0. Len(b) \in Nat /\ Len(d) \in Nat /\ b \o d \in Seq(Nat) /\ Len(b \o d) = Len(b) + Len(d)
  BY Joined
<1>1. CASE Len(b) + Len(d) <= offset
  <2>1. SubSeq(b \o d, offset + 1, Len(b \o d)) = <<>> /\ SubSeq(b, offset + 1, Len(b)) = <<>>
    BY <1>0, <1>1
  <2>2. QED
    BY <1>1, <2>1
<1>2. CASE Len(b) < offset /\ ~(Len(b) + Len(d) <= offset)
  <2>1. SubSeq(b, offset + 1, Len(b)) = <<>>
    BY <1>0, <1>2
  <2>2. SubSeq(b \o d, offset + 1, Len(b \o d)) = SubSeq(d, offset - Len(b) + 1, Len(d))
    BY <1>0, <1>2
  <2>3. SubSeq(d, offset - Len(b) + 1, Len(d)) \in Seq(Nat)
    BY <1>0, <1>2
  <2>4. <<>> \o SubSeq(d, offset - Len(b) + 1, Len(d)) = SubSeq(d, offset - Len(b) + 1, Len(d))
    BY <2>3
  <2>5. QED
    BY <1>2, <2>1, <2>2, <2>4
<1>3. CASE offset <= Len(b) /\ ~(Len(b) + Len(d) <= offset)
  <2>1. SubSeq(d, 1, Len(d)) = d
    OBVIOUS
  <2>2. SubSeq(b \o d, offset + 1, Len(b \o d)) = SubSeq(b, offset + 1, Len(b)) \o d
    <3> DEFINE whole == b \o d
               r == SubSeq(b, offset + 1, Len(b))
               u == r \o d
               v == SubSeq(whole, offset + 1, Len(b) + Len(d))
    <3>1. /\ r \in Seq(Nat) /\ Len(r) = Len(b) - offset
          /\ \A k \in 1..Len(b) - offset : r[k] = b[offset + k]
      BY <1>0, <1>3
    <3> HIDE DEF r
    <3>2. /\ u \in Seq(Nat) /\ Len(u) = Len(r) + Len(d)
          /\ \A k \in 1..Len(r) : u[k] = r[k]
          /\ \A k \in 1..Len(d) : u[Len(r) + k] = d[k]
      BY <3>1, Joined
    <3>3. /\ whole \in Seq(Nat) /\ Len(whole) = Len(b) + Len(d)
          /\ \A k \in 1..Len(b) : whole[k] = b[k]
          /\ \A k \in 1..Len(d) : whole[Len(b) + k] = d[k]
      BY Joined
    <3> HIDE DEF u, whole
    <3>4. /\ v \in Seq(Nat) /\ Len(v) = Len(b) + Len(d) - offset
          /\ \A k \in 1..Len(b) + Len(d) - offset : v[k] = whole[offset + k]
      <4>1. Len(whole) = Len(b) + Len(d)
        BY <3>3
      <4>2. IsRest(v, whole, offset)
        BY <4>1 DEF IsRest
      <4> HIDE DEF v
      <4>3. offset <= Len(whole)
        BY <1>0, <1>3, <4>1
      <4>4. /\ v \in Seq(Nat) /\ Len(v) = Len(whole) - offset
            /\ \A k \in 1..Len(whole) - offset : v[k] = whole[offset + k]
        BY <3>3, <4>2, <4>3, RestIs
      <4>5. QED
        BY <4>1, <4>4
    <3> HIDE DEF v
    <3>5. Len(u) = Len(v)
      BY <1>0, <3>1, <3>2, <3>4
    <3>6. ASSUME NEW k \in 1..Len(v) PROVE u[k] = v[k]
      <4>1. CASE k \in 1..Len(r)
        <5>1. /\ offset + k \in 1..Len(b) /\ k \in 1..Len(b) - offset
              /\ k \in 1..Len(b) + Len(d) - offset
          BY <1>0, <1>3, <3>1, <4>1
        <5>2. QED
          BY <5>1, <3>1, <3>2, <3>3, <3>4, <4>1
      <4>2. CASE k \notin 1..Len(r)
        <5>1. /\ k - Len(r) \in 1..Len(d) /\ Len(r) + (k - Len(r)) = k
              /\ offset + k = Len(b) + (k - Len(r)) /\ k \in 1..Len(b) + Len(d) - offset
          BY <1>0, <1>3, <3>1, <3>4, <4>2
        <5>2. u[k] = d[k - Len(r)]
          BY <5>1, <3>2
        <5>3. v[k] = d[k - Len(r)]
          BY <5>1, <3>3, <3>4
        <5>4. QED
          BY <5>2, <5>3
      <4>3. QED
        BY <4>1, <4>2
    <3>7. u = v
      <4>1. u \in Seq(Nat) /\ v \in Seq(Nat)
        BY <3>2, <3>4
      <4>2. \A k \in 1..Len(u) : u[k] = v[k]
        BY <3>5, <3>6
      <4>3. QED
        BY <3>5, <4>1, <4>2, SeqEqual
    <3>8. QED
      BY <1>0, <3>7 DEF u, v, r, whole
  <2>3. ~(Len(b) < offset)
    BY <1>0, <1>3
  <2>4. QED
    BY <1>3, <2>1, <2>2, <2>3
<1>4. \/ Len(b) + Len(d) <= offset
      \/ Len(b) < offset /\ ~(Len(b) + Len(d) <= offset)
      \/ offset <= Len(b) /\ ~(Len(b) + Len(d) <= offset)
  BY <1>0
<1>5. QED
  BY <1>1, <1>2, <1>3, <1>4, Zenon

\* get_from_offset counts the bytes of the chunks it has walked, and has
\* collected those from the offset on.
LEMMA WalkedIs ==
  ASSUME StoreType, NEW offset \in Nat
  PROVE  \A n \in Nat : /\ Walked(offset)[n].at = Len(BytesBelow[n])
                        /\ Walked(offset)[n].result =
                             SubSeq(BytesBelow[n], offset + 1, Len(BytesBelow[n]))
<1> DEFINE Good == {n \in Nat : /\ Walked(offset)[n].at = Len(BytesBelow[n])
                                /\ Walked(offset)[n].result =
                                     SubSeq(BytesBelow[n], offset + 1, Len(BytesBelow[n]))}
<1>1. 0 \in Good
  <2>1. BytesBelow[0] = <<>> /\ Walked(offset)[0] = [at |-> 0, result |-> <<>>]
    BY BytesBelowRec, WalkedRec
  <2>2. Len(<<>>) = 0 /\ SubSeq(<<>>, offset + 1, 0) = <<>>
    OBVIOUS
  <2>3. /\ Walked(offset)[0].at = 0 /\ Walked(offset)[0].result = <<>>
        /\ Len(BytesBelow[0]) = 0 /\ SubSeq(BytesBelow[0], offset + 1, 0) = <<>>
    BY <2>1, <2>2
  <2>4. 0 \in Nat /\ Walked(offset)[0].at = Len(BytesBelow[0])
        /\ Walked(offset)[0].result = SubSeq(BytesBelow[0], offset + 1, Len(BytesBelow[0]))
    BY <2>3
  <2>5. QED
    BY <2>4
<1>2. ASSUME NEW n \in Good PROVE n + 1 \in Good
  <2> DEFINE b == BytesBelow[n]
             d == Data(n)
             acc == Walked(offset)[n]
  <2>1. /\ n \in Nat /\ acc.at = Len(b) /\ acc.result = SubSeq(b, offset + 1, Len(b))
    OBVIOUS
  <2>2. /\ b \in Seq(Nat) /\ d \in Seq(Nat) /\ BytesBelow[n + 1] = b \o d
        /\ Walked(offset)[n + 1] = Visit(acc, d, offset)
    BY <2>1, BytesBelowRec, DataType, WalkedRec
  <2> HIDE DEF b, d, acc
  <2>3. /\ Visit(acc, d, offset).at = Len(b) + Len(d)
        /\ Visit(acc, d, offset).result =
             IF Len(b) + Len(d) <= offset THEN SubSeq(b, offset + 1, Len(b))
             ELSE SubSeq(b, offset + 1, Len(b)) \o
                    SubSeq(d, IF Len(b) < offset THEN offset - Len(b) + 1 ELSE 1, Len(d))
    BY <2>1 DEF Visit
  <2>4. Visit(acc, d, offset).result = SubSeq(b \o d, offset + 1, Len(b \o d))
    BY <2>2, <2>3, JoinedRest
  <2>5. Len(b \o d) = Len(b) + Len(d)
    BY <2>2, Joined
  <2>6. Walked(offset)[n + 1].at = Len(BytesBelow[n + 1])
    BY <2>2, <2>3, <2>5
  <2>7. Walked(offset)[n + 1].result =
          SubSeq(BytesBelow[n + 1], offset + 1, Len(BytesBelow[n + 1]))
    BY <2>2, <2>4, Zenon
  <2>8. n + 1 \in Nat
    BY <2>1
  <2>9. QED
    BY <2>6, <2>7, <2>8
<1> HIDE DEF Good
<1>3. Good = Nat
  <2>1. Good \subseteq Nat
    BY DEF Good
  <2>2. QED
    BY <1>1, <1>2, <2>1, Induction
<1>4. QED
  BY <1>3 DEF Good

\* ... and total_size is the number of bytes.
LEMMA SizeBelowIs ==
  ASSUME StoreType
  PROVE  \A n \in Nat : SizeBelow[n] = Len(BytesBelow[n])
<1> DEFINE Good == {n \in Nat : SizeBelow[n] = Len(BytesBelow[n])}
<1>1. 0 \in Good
  BY BytesBelowRec, SizeBelowRec
<1>2. ASSUME NEW n \in Good PROVE n + 1 \in Good
  <2>1. n \in Nat /\ SizeBelow[n] = Len(BytesBelow[n])
    OBVIOUS
  <2>2. /\ BytesBelow[n] \in Seq(Nat) /\ Data(n) \in Seq(Nat)
        /\ BytesBelow[n + 1] = BytesBelow[n] \o Data(n)
        /\ SizeBelow[n + 1] = SizeBelow[n] + Len(Data(n))
    BY <2>1, BytesBelowRec, DataType, SizeBelowRec
  <2>3. Len(BytesBelow[n] \o Data(n)) = Len(BytesBelow[n]) + Len(Data(n))
    BY <2>2, Joined
  <2>4. n + 1 \in Nat /\ SizeBelow[n + 1] = Len(BytesBelow[n + 1])
    BY <2>1, <2>2, <2>3
  <2>5. QED
    BY <2>4
<1> HIDE DEF Good
<1>3. Good = Nat
  <2>1. Good \subseteq Nat
    BY DEF Good
  <2>2. QED
    BY <1>1, <1>2, <2>1, Induction
<1>4. QED
  BY <1>3 DEF Good

\* The index past the last chunk is a number.
LEMMA PastType == ASSUME IInv PROVE Past \in Nat
<1>1. CASE DOMAIN chunks = {}
  BY <1>1 DEF Past
<1>2. CASE DOMAIN chunks # {}
  <2>1. PICK i \in DOMAIN chunks : \A j \in DOMAIN chunks : i >= j
    BY <1>2 DEF IInv, StoreType, HasLast, IsLast
  <2>2. Max(DOMAIN chunks) \in DOMAIN chunks
    BY <2>1 DEF Max
  <2>3. QED
    BY <1>2, <2>2 DEF Past, IInv, StoreType
<1>3. QED
  BY <1>1, <1>2

\* What the two readers return, for any layout of the chunks and any offset.
LEMMA Reads ==
  ASSUME IInv
  PROVE  /\ GetAll \in Seq(Nat)
         /\ TotalSize = Len(GetAll)
         /\ \A offset \in Nat : GetFromOffset(offset) = SubSeq(GetAll, offset + 1, Len(GetAll))
<1>1. StoreType /\ Past \in Nat
  BY PastType DEF IInv
<1>2. ASSUME NEW offset \in Nat
      PROVE  GetFromOffset(offset) = SubSeq(GetAll, offset + 1, Len(GetAll))
  <2>1. GetFromOffset(offset) = Walked(offset)[Past].result
    BY DEF GetFromOffset, Walked
  <2>2. QED
    BY <1>1, <2>1, WalkedIs DEF GetAll
<1>3. GetAll \in Seq(Nat) /\ TotalSize = Len(GetAll)
  BY <1>1, BytesBelowRec, SizeBelowIs DEF GetAll, TotalSize
<1>4. QED
  BY <1>2, <1>3

\* What is stored below an index is in order, comes before the chunks from
\* there on, and consists of stored bytes.
LEMMA BytesBelowOrder ==
  ASSUME IInv
  PROVE  \A n \in Nat :
           /\ Increasing(BytesBelow[n])
           /\ \A i \in DOMAIN chunks : n <= i => Before(BytesBelow[n], chunks[i])
           /\ Below(BytesBelow[n], Produced)
           /\ ToSet(BytesBelow[n]) \subseteq Stored
<1>0. StoreType /\ Produced \in Nat
  BY DEF IInv, OnlyProduced
<1> DEFINE Good == {n \in Nat :
           /\ Increasing(BytesBelow[n])
           /\ \A i \in DOMAIN chunks : n <= i => Before(BytesBelow[n], chunks[i])
           /\ Below(BytesBelow[n], Produced)
           /\ ToSet(BytesBelow[n]) \subseteq Stored}
<1>1. 0 \in Good
  <2>1. Increasing(<<>>) /\ (\A s : Before(<<>>, s)) /\ Below(<<>>, Produced)
    BY DEF Increasing, Before, Below
  <2>2. ToSet(<<>>) \subseteq Stored
    BY NoElements
  <2>3. BytesBelow[0] = <<>>
    BY <1>0, BytesBelowRec
  <2>4. QED
    BY <2>1, <2>2, <2>3
<1>2. ASSUME NEW n \in Good PROVE n + 1 \in Good
  <2> DEFINE b == BytesBelow[n]
             d == Data(n)
  <2>1. /\ n \in Nat /\ b \in Seq(Nat) /\ d \in Seq(Nat) /\ BytesBelow[n + 1] = b \o d
        /\ Increasing(b) /\ Below(b, Produced) /\ ToSet(b) \subseteq Stored
        /\ \A i \in DOMAIN chunks : n <= i => Before(b, chunks[i])
    BY <1>0, BytesBelowRec, DataType
  <2>2. /\ Increasing(d) /\ Below(d, Produced) /\ Before(b, d)
        /\ \A i \in DOMAIN chunks : n + 1 <= i => Before(d, chunks[i])
        /\ ToSet(d) \subseteq Stored
    <3>1. CASE n \in DOMAIN chunks
      <4>1. d = chunks[n] /\ \A i \in DOMAIN chunks : n + 1 <= i => n < i
        BY <3>1, <1>0 DEF Data, StoreType
      <4>2. QED
        BY <3>1, <4>1, <2>1 DEF IInv, PersistedInOrder, OnlyProduced, Stored
    <3>2. CASE n \notin DOMAIN chunks
      <4>1. d = <<>>
        BY <3>2 DEF Data
      <4>2. QED
        BY <4>1, NoElements DEF Increasing, Before, Below
    <3>3. QED
      BY <3>1, <3>2
  <2>3. \A i \in DOMAIN chunks : chunks[i] \in Seq(Nat) /\ (n + 1 <= i => n <= i)
    BY <1>0, <2>1 DEF StoreType
  <2> HIDE DEF b, d
  <2>4. Increasing(b \o d) /\ Below(b \o d, Produced) /\ ToSet(b \o d) \subseteq Stored
    BY <1>0, <2>1, <2>2, JoinedOrder, JoinedBefore, Elements
  <2>5. \A i \in DOMAIN chunks : n + 1 <= i => Before(b \o d, chunks[i])
    BY <1>0, <2>1, <2>2, <2>3, JoinedBefore
  <2>6. n + 1 \in Nat /\ BytesBelow[n + 1] = b \o d
    BY <2>1
  <2>7. QED
    BY <2>4, <2>5, <2>6
<1> HIDE DEF Good
<1>3. Good = Nat
  <2>1. Good \subseteq Nat
    BY DEF Good
  <2>2. QED
    BY <1>1, <1>2, <2>1, Induction
<1>4. QED
  BY <1>3 DEF Good

\* get_all returns stored bytes, in order.
LEMMA GetAllOrder ==
  ASSUME IInv
  PROVE  Increasing(GetAll) /\ Below(GetAll, Produced) /\ ToSet(GetAll) \subseteq Stored
BY BytesBelowOrder, PastType DEF GetAll

-----------------------------------------------------------------------------
(***************************************************************************)
(* The client.                                                             *)
(***************************************************************************)

\* All that was ever put out.
Output == UNION {ToSet(sent[p]) : p \in 1..Len(sent)}

\* Bytes are numbered from one.
NoZero == 0 \notin Stored \cup ToSet(saver.rest) \cup Output

\* The client has seen, or is about to see, nothing that was not put out; a
\* client without a gap at its beginning has seen less than what its receiver
\* will give it; and what it has fetched comes after what it has seen.
ClientKnows ==
  /\ client \in Client
  /\ Below(client.view, Produced) /\ Below(client.fetched, Produced)
  /\ client.pc = "live" /\ client.full =>
       /\ Increasing(client.view)
       /\ \A p \in 1..Len(sent) : client.next <= p => Before(client.view, sent[p])
  /\ client.pc = "fetched" =>
       /\ Increasing(client.fetched)
       /\ client.full => client.view = <<>>
       /\ ~client.full => \A k \in 1..Len(client.fetched) : Len(client.view) < client.fetched[k]

Switches == up \in BOOLEAN /\ row \in BOOLEAN /\ clean \in BOOLEAN

\* No step brings up a byte without a number.
LEMMA NoZeroStep == ASSUME IInv, NoZero, [Next]_vars PROVE NoZero'
<1>1. ASSUME NEW n \in 1..MaxPacket, Produce(n) PROVE NoZero'
  <2> DEFINE last == Len(sent) + 1
  <2>1. /\ UNCHANGED <<chunks, saver>> /\ Len(sent') = last
        /\ \A p \in 1..Len(sent) : sent'[p] = sent[p]
        /\ ToSet(sent'[last]) = Produced + 1..Produced + n
    BY <1>1, Packet
  <2>2. 0 \notin Produced + 1..Produced + n
    BY BoundsAssumption DEF IInv, OnlyProduced
  <2>3. \A p \in 1..Len(sent') : p \in 1..Len(sent) \/ p = last
    BY <2>1 DEF IInv, StoreType
  <2> HIDE DEF last
  <2>4. Output' \subseteq Output \cup ToSet(sent'[last])
    BY <2>1, <2>3 DEF Output
  <2>5. Stored' = Stored /\ ToSet(saver.rest)' = ToSet(saver.rest)
    BY <2>1 DEF Stored
  <2>6. QED
    BY <2>1, <2>2, <2>4, <2>5 DEF NoZero
<1>2. ASSUME sent' = sent,
             Stored' \cup ToSet(saver.rest)' \subseteq Stored \cup ToSet(saver.rest) \cup Output
      PROVE  NoZero'
  BY <1>2 DEF NoZero, Output
<1>3. CASE UNCHANGED <<sent, chunks>> /\ saver'.rest \in {saver.rest, <<>>}
  <2>1. Stored' = Stored /\ ToSet(saver.rest)' \subseteq ToSet(saver.rest)
    BY <1>3, NoElements DEF Stored
  <2>2. QED
    BY <1>2, <1>3, <2>1
<1>4. CASE SaverRecv
  <2>1. /\ UNCHANGED <<sent, chunks>> /\ saver'.rest = sent[saver.next]
        /\ saver.next \in 1..Len(sent)
    BY <1>4, CapacityAssumption DEF SaverRecv, CanReceive, Oldest, IInv, StoreType, Saver
  <2>2. Stored' = Stored /\ ToSet(saver.rest)' \subseteq Output
    BY <2>1 DEF Stored, Output
  <2>3. QED
    BY <1>2, <2>1, <2>2
<1>5. CASE AppendUpdate \/ AppendInsert
  BY <1>2, <1>5, UpdateMoves, InsertMoves
<1>6. CASE DeleteChunks
  <2>1. UNCHANGED <<sent, saver>> /\ Stored' = {}
    BY <1>6 DEF DeleteChunks, Stored
  <2>2. QED
    BY <1>2, <2>1
<1>7. CASE SaverSubscribe \/ SaverLagged \/ SaverClosed \/ AppendMax \/ AppendLoad
  BY <1>3, <1>7 DEF SaverSubscribe, SaverLagged, SaverClosed, AppendMax, AppendLoad,
                    IInv, StoreType, Saver
<1>8. CASE AppendRejected \/ AppendFails \/ Crash
  BY <1>3, <1>8 DEF AppendRejected, AppendFails, GiveUp, Crash, AfterWrite, IInv, StoreType, Saver
<1>9. CASE ClientStep \/ Hangup \/ UNCHANGED vars
  BY <1>3, <1>9 DEF ClientStep, Attach, RecoverRead, RecoverSubscribe, RecoverFails, ClientRecv,
                    ClientLagged, Disconnect, Hangup, vars
<1>10. QED
  BY <1>1, <1>4, <1>5, <1>6, <1>7, <1>8, <1>9 DEF Next, SaverStep

\* The k-th of ascending bytes is at least k.
LEMMA Climb ==
  ASSUME NEW s \in Seq(Nat), Increasing(s), 0 \notin ToSet(s)
  PROVE  \A k \in 1..Len(s) : k <= s[k]
<1> DEFINE Good == {n \in Nat : n + 1 <= Len(s) => n + 1 <= s[n + 1]}
<1>0. Len(s) \in Nat /\ \A k \in 1..Len(s) : s[k] \in Nat /\ s[k] # 0
  BY DEF ToSet
<1>1. 0 \in Good
  BY <1>0
<1>2. ASSUME NEW n \in Good PROVE n + 1 \in Good
  <2>1. n \in Nat /\ n + 1 \in Nat
    OBVIOUS
  <2>2. ASSUME (n + 1) + 1 <= Len(s) PROVE (n + 1) + 1 <= s[(n + 1) + 1]
    <3>1. n + 1 \in 1..Len(s) /\ (n + 1) + 1 \in 1..Len(s) /\ n + 1 < (n + 1) + 1 /\ n + 1 <= Len(s)
      BY <2>1, <2>2, <1>0
    <3>2. n + 1 <= s[n + 1]
      BY <3>1
    <3>3. s[n + 1] < s[(n + 1) + 1]
      BY <3>1 DEF Increasing
    <3>4. QED
      BY <1>0, <2>1, <3>1, <3>2, <3>3
  <2>3. QED
    BY <2>1, <2>2
<1> HIDE DEF Good
<1>3. Good = Nat
  <2>1. Good \subseteq Nat
    BY DEF Good
  <2>2. QED
    BY <1>1, <1>2, <2>1, Induction
<1>4. SUFFICES ASSUME NEW k \in 1..Len(s) PROVE k <= s[k]
  OBVIOUS
<1>5. k - 1 \in Nat /\ (k - 1) + 1 = k /\ k <= Len(s)
  BY <1>0
<1>6. k - 1 \in Good
  BY <1>3, <1>5
<1>7. QED
  BY <1>5, <1>6 DEF Good

\* What get_from_offset returns is in order, and comes after as many bytes.
LEMMA FromOffset ==
  ASSUME IInv, NoZero, NEW n \in Nat
  PROVE  /\ GetFromOffset(n) \in Seq(Nat)
         /\ Increasing(GetFromOffset(n)) /\ Below(GetFromOffset(n), Produced)
         /\ \A k \in 1..Len(GetFromOffset(n)) : n < GetFromOffset(n)[k]
<1> DEFINE all == GetAll
           rest == SubSeq(all, n + 1, Len(all))
<1>1. /\ all \in Seq(Nat) /\ GetFromOffset(n) = rest /\ Len(all) \in Nat
      /\ Increasing(all) /\ Below(all, Produced) /\ Produced \in Nat
  BY Reads, GetAllOrder DEF IInv, OnlyProduced
<1>2. \A k \in 1..Len(all) : k <= all[k]
  <2>1. 0 \notin ToSet(all)
    BY GetAllOrder DEF NoZero
  <2> HIDE DEF all
  <2>2. QED
    BY <1>1, <2>1, Climb
<1> HIDE DEF all
<1>3. CASE n \in 0..Len(all)
  <2>1. /\ rest \in Seq(Nat) /\ Len(rest) = Len(all) - n
        /\ \A k \in 1..Len(all) - n : rest[k] = all[n + k]
    BY <1>1, <1>3, Cut
  <2>2. Increasing(rest)
    BY <1>1, <1>3, CutOrder
  <2> HIDE DEF rest
  <2>3. ASSUME NEW k \in 1..Len(rest) PROVE rest[k] <= Produced /\ n < rest[k]
    <3>1. n + k \in 1..Len(all) /\ rest[k] = all[n + k] /\ n < n + k
      BY <1>1, <1>3, <2>1
    <3>2. n + k <= all[n + k] /\ all[n + k] <= Produced /\ all[n + k] \in Nat
      BY <1>1, <1>2, <3>1 DEF Below
    <3>3. QED
      BY <1>1, <3>1, <3>2
  <2>4. QED
    BY <1>1, <2>1, <2>2, <2>3 DEF Below
<1>4. CASE n \notin 0..Len(all)
  <2>1. GetFromOffset(n) = <<>>
    BY <1>1, <1>4
  <2>2. <<>> \in Seq(Nat) /\ Len(<<>>) = 0 /\ Increasing(<<>>) /\ Below(<<>>, Produced)
    BY DEF Increasing, Below
  <2> HIDE DEF rest
  <2>3. QED
    BY <2>1, <2>2
<1>5. QED
  BY <1>3, <1>4

\* The record of the client, taken apart and made.
LEMMA ClientFields ==
  ASSUME ClientKnows
  PROVE  /\ client.pc \in ClientPC /\ client.next \in Nat \ {0} /\ client.full \in BOOLEAN
         /\ client.view \in Seq(Nat) /\ client.fetched \in Seq(Nat)
BY DEF ClientKnows, Client

LEMMA ClientTypes ==
  ASSUME NEW p \in ClientPC, NEW n \in Nat \ {0}, NEW v \in Seq(Nat), NEW f \in Seq(Nat),
         NEW b \in BOOLEAN
  PROVE  [pc |-> p, next |-> n, view |-> v, fetched |-> f, full |-> b] \in Client
BY DEF Client

\* More output does not concern what the client has seen.
LEMMA ProduceKnows ==
  ASSUME IInv, ClientKnows, NEW n \in 1..MaxPacket, Produce(n)
  PROVE  ClientKnows'
<1> DEFINE packet == sent'[Len(sent) + 1]
<1>1. /\ client' = client /\ Produced' = Produced + n
      /\ Len(sent') = Len(sent) + 1
      /\ \A p \in 1..Len(sent) : sent'[p] = sent[p]
      /\ packet \in Seq(Nat) /\ ToSet(packet) = Produced + 1..Produced + n
  BY Packet
<1>2. Produced \in Nat /\ n \in Nat /\ Len(sent) \in Nat /\ Produced <= Produced + n
  BY BoundsAssumption DEF IInv, OnlyProduced, StoreType
<1>3. ASSUME NEW s \in Seq(Nat), Below(s, Produced)
      PROVE  Below(s, Produced') /\ Before(s, packet)
  <2>1. \A k \in 1..Len(s) : s[k] \in Nat /\ s[k] <= Produced
    BY <1>3 DEF Below
  <2>2. \A l \in 1..Len(packet) : packet[l] \in Produced + 1..Produced + n
    BY <1>1 DEF ToSet
  <2> HIDE DEF packet
  <2>3. \A k \in 1..Len(s), l \in 1..Len(packet) : s[k] < packet[l]
    BY <2>1, <2>2, <1>2
  <2>4. \A k \in 1..Len(s) : s[k] <= Produced + n
    BY <2>1, <1>2
  <2>5. QED
    BY <2>3, <2>4, <1>1 DEF Before, Below
<1>4. Below(client.view, Produced') /\ Below(client.fetched, Produced')
      /\ Before(client.view, packet)
  BY <1>3, ClientFields DEF ClientKnows
<1>5. \A p \in 1..Len(sent') : p \in 1..Len(sent) \/ p = Len(sent) + 1
  BY <1>1, <1>2
<1>6. ASSUME client.pc = "live", client.full, NEW p \in 1..Len(sent'), client.next <= p
      PROVE  Before(client.view, sent'[p])
  BY <1>1, <1>4, <1>5, <1>6 DEF ClientKnows
<1>7. QED
  BY <1>1, <1>4, <1>6 DEF ClientKnows

\* The two ways to a receiver without a history, and the loss of one.
LEMMA AttachKnows ==
  ASSUME IInv, ClientKnows, Attach \/ Disconnect \/ RecoverFails \/ Crash
  PROVE  ClientKnows'
<1>0. Produced' = Produced /\ Produced \in Nat /\ Len(sent) \in Nat /\ sent' = sent
  BY DEF Attach, Disconnect, RecoverFails, Crash, Produced, IInv, OnlyProduced, StoreType
<1>e. Below(<<>>, Produced) /\ Increasing(<<>>) /\ <<>> \in Seq(Nat)
  BY DEF Below, Increasing
<1>1. CASE Attach
  <2>1. client' = [pc |-> "live", next |-> End, view |-> <<>>, fetched |-> client.fetched,
                   full |-> TRUE]
    BY <1>1 DEF Attach, ClientKnows, Client
  <2>2. client' \in Client
    <3>1. End \in Nat \ {0} /\ "live" \in ClientPC
      BY <1>0 DEF End, ClientPC
    <3>2. QED
      BY <1>e, <2>1, <3>1, ClientFields DEF Client
  <2>3. \A p \in 1..Len(sent) : Before(<<>>, sent[p])
    BY DEF Before
  <2>4. QED
    BY <1>0, <1>e, <2>1, <2>2, <2>3 DEF ClientKnows
<1>2. CASE Disconnect \/ RecoverFails \/ Crash
  <2>1. PICK n \in Nat \ {0}, f \in {client.fetched, <<>>} :
          client' = [pc |-> "idle", next |-> n, view |-> client.view, fetched |-> f,
                     full |-> client.full]
    <3>1. CASE Disconnect
      <4>1. client' = [pc |-> "idle", next |-> 1, view |-> client.view,
                       fetched |-> client.fetched, full |-> client.full]
        BY <3>1 DEF Disconnect, ClientKnows, Client
      <4>2. 1 \in Nat \ {0}
        OBVIOUS
      <4>3. QED
        BY <4>1, <4>2
    <3>2. CASE RecoverFails
      <4>1. client' = [pc |-> "idle", next |-> client.next, view |-> client.view,
                       fetched |-> <<>>, full |-> client.full]
        BY <3>2 DEF RecoverFails, ClientKnows, Client
      <4>2. QED
        BY <4>1, ClientFields
    <3>3. CASE Crash
      <4>1. client' = [pc |-> "idle", next |-> 1, view |-> client.view,
                       fetched |-> <<>>, full |-> client.full]
        BY <3>3 DEF Crash, ClientKnows, Client
      <4>2. 1 \in Nat \ {0}
        OBVIOUS
      <4>3. QED
        BY <4>1, <4>2
    <3>4. QED
      BY <1>2, <3>1, <3>2, <3>3
  <2>2. client' \in Client
    BY <1>e, <2>1, ClientFields, ClientTypes DEF ClientPC
  <2>3. Below(f, Produced)
    BY <1>e DEF ClientKnows
  <2>4. QED
    BY <1>0, <2>1, <2>2, <2>3 DEF ClientKnows
<1>3. QED
  BY <1>1, <1>2

\* The client fetches all, or what comes after the bytes it has seen.
LEMMA ReadKnows ==
  ASSUME IInv, NoZero, ClientKnows, RecoverRead
  PROVE  ClientKnows'
<1>0. Produced' = Produced /\ sent' = sent
  BY DEF RecoverRead, Produced
<1>e. Below(<<>>, Produced) /\ <<>> \in Seq(Nat)
  BY DEF Below
<1>1. CASE client' = [client EXCEPT !.pc = "fetched", !.fetched = GetAll, !.view = <<>>,
                                    !.full = TRUE]
  <2>1. GetAll \in Seq(Nat) /\ Increasing(GetAll) /\ Below(GetAll, Produced)
    BY Reads, GetAllOrder
  <2>2. client' = [pc |-> "fetched", next |-> client.next, view |-> <<>>, fetched |-> GetAll,
                   full |-> TRUE]
    BY <1>1 DEF ClientKnows, Client
  <2>3. client' \in Client
    BY <1>e, <2>1, <2>2, ClientFields, ClientTypes DEF ClientPC
  <2>4. QED
    BY <1>0, <1>e, <2>1, <2>2, <2>3 DEF ClientKnows
<1>2. CASE client' = [client EXCEPT !.pc = "fetched", !.full = FALSE,
                                    !.fetched = GetFromOffset(Len(client.view))]
  <2> DEFINE f == GetFromOffset(Len(client.view))
  <2>1. /\ f \in Seq(Nat) /\ Increasing(f) /\ Below(f, Produced)
        /\ \A k \in 1..Len(f) : Len(client.view) < f[k]
    <3>1. Len(client.view) \in Nat
      BY ClientFields
    <3>2. QED
      BY <3>1, FromOffset
  <2>2. client' = [pc |-> "fetched", next |-> client.next, view |-> client.view, fetched |-> f,
                   full |-> FALSE]
    BY <1>2 DEF ClientKnows, Client
  <2> HIDE DEF f
  <2>3. client' \in Client
    BY <2>1, <2>2, ClientFields, ClientTypes DEF ClientPC
  <2>4. QED
    BY <1>0, <2>1, <2>2, <2>3 DEF ClientKnows
<1>3. QED
  BY <1>1, <1>2 DEF RecoverRead

\* ... and goes on from there.
LEMMA SubscribeKnows ==
  ASSUME IInv, ClientKnows, RecoverSubscribe
  PROVE  ClientKnows'
<1> DEFINE v == client.view \o client.fetched
<1>0. /\ Produced' = Produced /\ sent' = sent /\ client.pc = "fetched"
      /\ Len(sent) \in Nat /\ Produced \in Nat
  BY DEF RecoverSubscribe, Produced, IInv, StoreType, OnlyProduced
<1>1. client' = [pc |-> "live", next |-> End, view |-> v, fetched |-> <<>>, full |-> client.full]
  BY DEF RecoverSubscribe, ClientKnows, Client
<1>2. v \in Seq(Nat) /\ Below(v, Produced)
  BY <1>0, ClientFields, Joined, JoinedBefore DEF ClientKnows
<1>3. client.full => v = client.fetched /\ Increasing(v)
  <2>1. \A s \in Seq(Nat) : <<>> \o s = s
    OBVIOUS
  <2>2. QED
    BY <1>0, <2>1, ClientFields DEF ClientKnows
<1> HIDE DEF v
<1>4. client' \in Client /\ Below(<<>>, Produced)
  <2>1. <<>> \in Seq(Nat) /\ End \in Nat \ {0} /\ "live" \in ClientPC
    BY <1>0 DEF End, ClientPC
  <2>2. client' \in Client
    BY <1>1, <1>2, <2>1, ClientFields, ClientTypes
  <2>3. QED
    BY <2>2 DEF Below
<1>5. \A p \in 1..Len(sent) : ~(End <= p)
  BY <1>0 DEF End
<1>6. QED
  BY <1>0, <1>1, <1>2, <1>3, <1>4, <1>5 DEF ClientKnows

\* The client receives the message at its position.
LEMMA RecvKnows ==
  ASSUME IInv, ClientKnows, ClientRecv
  PROVE  ClientKnows'
<1> DEFINE m == sent[client.next]
           v == client.view \o m
<1>0. /\ Produced' = Produced /\ sent' = sent /\ client.pc = "live"
      /\ Len(sent) \in Nat /\ Produced \in Nat
  BY DEF ClientRecv, Produced, IInv, StoreType, OnlyProduced
<1>1. client.next \in 1..Len(sent)
  BY CapacityAssumption, ClientFields DEF ClientRecv, CanReceive, Oldest, IInv, StoreType
<1>2. client' = [pc |-> "live", next |-> client.next + 1, view |-> v,
                 fetched |-> client.fetched, full |-> client.full]
  BY <1>0 DEF ClientRecv, ClientKnows, Client
<1>3. /\ m \in Seq(Nat) /\ Increasing(m) /\ Below(m, Produced)
      /\ \A p \in 1..Len(sent) : client.next < p => Before(m, sent[p])
  BY <1>1 DEF IInv, StoreType, SentInOrder, OnlyProduced
<1>4. client.full => /\ Increasing(client.view) /\ Before(client.view, m)
                     /\ \A p \in 1..Len(sent) : client.next < p => Before(client.view, sent[p])
  <2>1. \A p \in 1..Len(sent) : client.next < p => client.next <= p
    BY <1>1
  <2>2. client.next <= client.next
    BY <1>1
  <2>3. QED
    BY <1>0, <1>1, <2>1, <2>2 DEF ClientKnows
<1> HIDE DEF m
<1>5. v \in Seq(Nat) /\ Below(v, Produced)
  BY <1>0, <1>3, ClientFields, Joined, JoinedBefore DEF ClientKnows
<1>6. client.full => Increasing(v)
  BY <1>3, <1>4, ClientFields, JoinedOrder
<1>7. ASSUME client.full, NEW p \in 1..Len(sent), client.next + 1 <= p
      PROVE  Before(v, sent[p])
  <2>1. client.next < p /\ sent[p] \in Seq(Nat)
    BY <1>1, <1>7 DEF IInv, StoreType
  <2>2. Before(client.view, sent[p]) /\ Before(m, sent[p])
    BY <1>3, <1>4, <1>7, <2>1
  <2>3. QED
    BY <1>0, <1>3, <2>1, <2>2, ClientFields, JoinedBefore
<1> HIDE DEF v
<1>8. client' \in Client
  <2>1. client.next + 1 \in Nat \ {0} /\ "live" \in ClientPC
    BY ClientFields DEF ClientPC
  <2>2. QED
    BY <1>2, <1>5, <2>1, ClientFields, ClientTypes
<1>9. Below(client.fetched, Produced)
  BY DEF ClientKnows
<1>10. QED
  BY <1>0, <1>2, <1>5, <1>6, <1>7, <1>8, <1>9 DEF ClientKnows

\* A receiver that lagged skips messages.
LEMMA LaggedKnows ==
  ASSUME IInv, ClientKnows, ClientLagged
  PROVE  ClientKnows'
<1>0. Produced' = Produced /\ sent' = sent /\ Len(sent) \in Nat
  BY DEF ClientLagged, Produced, IInv, StoreType
<1>1. client' = [pc |-> client.pc, next |-> Oldest, view |-> client.view,
                 fetched |-> client.fetched, full |-> client.full]
  BY DEF ClientLagged, ClientKnows, Client
<1>2. Oldest \in Nat \ {0} /\ client.next < Oldest
  BY <1>0, CapacityAssumption DEF ClientLagged, Lagged, Oldest
<1>3. client' \in Client
  BY <1>1, <1>2, ClientFields, ClientTypes
<1>4. \A p \in 1..Len(sent) : Oldest <= p => client.next <= p
  BY <1>0, <1>2, ClientFields
<1>5. QED
  BY <1>0, <1>1, <1>3, <1>4 DEF ClientKnows

\* Every step keeps what the client knows.
LEMMA KnowsStep == ASSUME IInv, NoZero, ClientKnows, [Next]_vars PROVE ClientKnows'
<1>1. CASE SaverStep \/ AppendFails \/ DeleteChunks \/ Hangup \/ UNCHANGED vars
  <2>1. UNCHANGED <<sent, client>>
    BY <1>1 DEF SaverStep, SaverSubscribe, SaverRecv, SaverLagged, SaverClosed, AppendMax,
                AppendLoad, AppendUpdate, AppendInsert, AppendRejected, AppendFails, GiveUp,
                DeleteChunks, Hangup, vars
  <2>2. QED
    BY <2>1 DEF ClientKnows, Produced
<1>2. QED
  BY <1>1, ProduceKnows, AttachKnows, ReadKnows, SubscribeKnows, RecvKnows, LaggedKnows
     DEF Next, ClientStep

\* ... and the types of the switches.
LEMMA SwitchesStep == ASSUME Switches, [Next]_vars PROVE Switches'
BY DEF Switches, Next, SaverStep, ClientStep, Produce, Hangup, Crash, DeleteChunks,
       SaverSubscribe, SaverRecv, SaverLagged, SaverClosed, AppendMax, AppendLoad, AppendUpdate,
       AppendInsert, AppendRejected, AppendFails, GiveUp, Attach, RecoverRead, RecoverSubscribe,
       RecoverFails, ClientRecv, ClientLagged, Disconnect, vars

\* At the beginning nothing was put out or seen.
LEMMA InitKnows == Init => NoZero /\ ClientKnows /\ Switches
<1> SUFFICES ASSUME Init PROVE NoZero /\ ClientKnows /\ Switches
  OBVIOUS
<1>1. /\ sent = <<>> /\ Len(sent) = 0 /\ DOMAIN chunks = {} /\ Produced = 0
      /\ saver = [pc |-> "none", next |-> 1, rest |-> <<>>, index |-> -1, last |-> <<>>]
      /\ client = [pc |-> "live", next |-> 1, view |-> <<>>, fetched |-> <<>>, full |-> TRUE]
  BY DEF Init, Produced
<1>2. NoZero
  BY <1>1, NoElements DEF NoZero, Stored, Output
<1>3. client \in Client
  <2>1. "live" \in ClientPC /\ 1 \in Nat \ {0} /\ <<>> \in Seq(Nat)
    BY DEF ClientPC
  <2>2. QED
    BY <1>1, <2>1 DEF Client
<1>4. ClientKnows
  BY <1>1, <1>3 DEF ClientKnows, Below, Increasing
<1>5. QED
  BY <1>2, <1>4 DEF Init, Switches

\* All that holds of the output path.
LEMMA Always == Spec => [](IInv /\ NoZero /\ ClientKnows /\ Switches)
<1>1. Init => IInv /\ NoZero /\ ClientKnows /\ Switches
  BY InitIInv, InitKnows
<1>2. IInv /\ NoZero /\ ClientKnows /\ Switches /\ [Next]_vars
        => (IInv /\ NoZero /\ ClientKnows /\ Switches)'
  BY NextIInv, NoZeroStep, KnowsStep, SwitchesStep
<1>3. QED
  BY <1>1, <1>2, PTL DEF Spec

\* Every variable has its type, and no chunk index is negative, although
\* append goes by an index that may be one of a chunk deleted since.
THEOREM TypeCorrect == Spec => []TypeOK
<1>1. IInv /\ ClientKnows /\ Switches => TypeOK
  BY DEF IInv, StoreType, ClientKnows, Switches, TypeOK
<1>2. QED
  BY <1>1, Always, PTL

\* A client that recovered all sees nothing twice and nothing out of order,
\* and get_from_offset and total_size agree with get_all, for any layout of
\* the chunks and any offset.
THEOREM RecoveryReadsHolds == Spec => []RecoveryReads
<1>1. IInv /\ ClientKnows => RecoveryReads
  <2> SUFFICES ASSUME IInv, ClientKnows PROVE RecoveryReads
    OBVIOUS
  <2>1. 0..MaxBytes + 1 \subseteq Nat
    BY BoundsAssumption
  <2>2. QED
    BY <2>1, Reads DEF ClientKnows, RecoveryReads
<1>2. QED
  BY <1>1, Always, PTL

\* A client that resumes where it stopped sees nothing again.
Resumes ==
  client.pc = "fetched" /\ client'.pc = "live"
    /\ client.view = [k \in 1..Len(client.view) |-> k]
  => Increasing(client'.view)

\* Every step is such a one.
LEMMA StepResumes == IInv /\ ClientKnows /\ [Next]_vars => [Resumes]_vars
<1> SUFFICES ASSUME IInv, ClientKnows, Next, client.pc = "fetched", client'.pc = "live",
                    client.view = [k \in 1..Len(client.view) |-> k]
             PROVE  Increasing(client'.view)
  BY DEF Resumes, vars
<1>1. RecoverSubscribe
  BY DEF Next, SaverStep, ClientStep, Produce, Hangup, Crash, DeleteChunks, SaverSubscribe,
         SaverRecv, SaverLagged, SaverClosed, AppendMax, AppendLoad, AppendUpdate, AppendInsert,
         AppendRejected, AppendFails, GiveUp, Attach, RecoverRead, RecoverFails, ClientRecv,
         ClientLagged, Disconnect, ClientKnows, Client
<1>2. client'.view = client.view \o client.fetched
  BY <1>1 DEF RecoverSubscribe, ClientKnows, Client
<1>3. CASE client.full
  <2>1. \A s \in Seq(Nat) : <<>> \o s = s
    OBVIOUS
  <2>2. QED
    BY <1>2, <1>3, <2>1, ClientFields DEF ClientKnows
<1>4. CASE ~client.full
  <2> DEFINE v == client.view
             f == client.fetched
  <2>1. /\ v \in Seq(Nat) /\ f \in Seq(Nat) /\ Increasing(f) /\ Len(v) \in Nat
        /\ \A k \in 1..Len(f) : Len(v) < f[k] /\ f[k] \in Nat
        /\ \A k \in 1..Len(v) : v[k] = k
    BY <1>4, ClientFields DEF ClientKnows
  <2> HIDE DEF v, f
  <2>2. Increasing(v)
    BY <2>1 DEF Increasing
  <2>3. Before(v, f)
    BY <2>1 DEF Before
  <2>4. Increasing(v \o f)
    BY <2>1, <2>2, <2>3, JoinedOrder
  <2>5. QED
    BY <1>2, <2>4 DEF v, f
<1>5. QED
  BY <1>3, <1>4

\* A client that resumes from the number of bytes it has seen sees nothing again,
\* whatever was stored between its leaving and its coming back.
THEOREM ResumedInOrderHolds == Spec => ResumedInOrder
<1>1. IInv /\ ClientKnows /\ [Next]_vars =>
        [client.pc = "fetched" /\ client'.pc = "live"
           /\ client.view = [k \in 1..Len(client.view) |-> k]
         => Increasing(client'.view)]_vars
  BY StepResumes DEF Resumes
<1>2. QED
  BY <1>1, Always, PTL DEF Spec, ResumedInOrder

=============================================================================

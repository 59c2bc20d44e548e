---- MODULE SessionStoreProofs ----
(* Proofs about SessionStore, for any clients, texts, sessions and scenarios: the *)
(* hash map and the tool map lead to sessions that are where the key says, and an *)
(* answer was made from the history its client sent.                              *)
EXTENDS SessionStore, FiniteSetTheorems, SequenceTheorems, NaturalsInduction, WellFoundedInduction, TLAPS

-----------------------------------------------------------------------------
(* Types. A hash is whatever Hash makes of messages.                              *)

Message ==
    {User(t) : t \in Text} \cup {ToolCall(i) : i \in Nat} \cup {Answer, ToolResponse}

Messages == Seq(Message)

Key == {Hash(msgs) : msgs \in Messages} \cup {{}}

EventType ==
    [state : {"none", "active", "completed", "failed"}, req : Nat \cup {None}, from : Nat, tool : BOOLEAN]

SessionType == [msgs : Messages, event : EventType, cont : Key, retry : Key, done : Messages]

Phase == {"resolved", "running", "answered", "called", "failed", "refused", "nothing new"}

RequestType == [client : Client, msgs : Messages, session : Nat, phase : Phase, basis : Messages]

Typed ==
    /\ view \in [Client -> Messages]
    /\ \A c \in Client : asked[c] \in DOMAIN reqs \cup {None}
    /\ asked = [c \in Client |-> asked[c]]
    /\ reqs \in Seq(RequestType) /\ \A r \in DOMAIN reqs : reqs[r].session \in DOMAIN store
    /\ store \in Seq(SessionType)
    /\ live \subseteq DOMAIN store

LEMMA MessageTypes ==
    /\ Answer \in Message /\ ToolResponse \in Message
    /\ \A t \in Text : User(t) \in Message
    /\ \A i \in Nat : ToolCall(i) \in Message /\ ToolCall(i).role # "user"
    /\ ToolResponse.role = "tool" /\ Answer.role = "assistant"
    /\ NoEvent \in EventType /\ NewSession \in SessionType /\ <<>> \in Messages
    /\ NoEvent.state = "none"
<1>1. \A t \in Text : User(t) \in Message
  BY DEF Message
<1>2. \A i \in Nat : ToolCall(i) \in Message /\ ToolCall(i).role # "user"
  BY DEF Message, ToolCall
<1>3. Answer \in Message /\ ToolResponse \in Message /\ ToolResponse.role = "tool" /\ Answer.role = "assistant"
  BY DEF Message, Answer, ToolResponse
<1>4. <<>> \in Messages
  BY DEF Messages
<1>5. {} \in Key
  BY DEF Key
<1>6. NoEvent \in EventType /\ NoEvent.state = "none"
  BY DEF NoEvent, EventType
<1>7. NewSession \in SessionType
  BY <1>4, <1>5, <1>6 DEF NewSession, SessionType
<1> QED
  BY <1>1, <1>2, <1>3, <1>4, <1>6, <1>7

LEMMA KeyOfMessages == ASSUME NEW msgs \in Messages PROVE Hash(msgs) \in Key
BY DEF Key

(* Sequences with an element more, or with one element changed.                   *)
LEMMA Appended ==
    ASSUME NEW T, NEW s \in Seq(T), NEW x \in T
    PROVE  /\ Append(s, x) \in Seq(T) /\ Len(s) \in Nat
           /\ Len(Append(s, x)) = Len(s) + 1
           /\ DOMAIN s = 1 .. Len(s) /\ DOMAIN Append(s, x) = 1 .. Len(s) + 1
           /\ DOMAIN s \subseteq DOMAIN Append(s, x) /\ Len(s) + 1 \in DOMAIN Append(s, x)
           /\ Len(s) + 1 \notin DOMAIN s
           /\ \A i \in DOMAIN s : Append(s, x)[i] = s[i]
           /\ Append(s, x)[Len(s) + 1] = x
           /\ \A i \in DOMAIN Append(s, x) : i \in DOMAIN s \/ i = Len(s) + 1
<1>1. /\ Append(s, x) \in Seq(T) /\ Len(s) \in Nat /\ DOMAIN s = 1 .. Len(s)
      /\ DOMAIN Append(s, x) = 1 .. Len(s) + 1 /\ Len(Append(s, x)) = Len(s) + 1
      /\ \A i \in 1 .. Len(s) : Append(s, x)[i] = s[i]
      /\ Append(s, x)[Len(s) + 1] = x
  BY AppendProperties, LenProperties
<1> QED
  BY <1>1

LEMMA Changed ==
    ASSUME NEW T, NEW s \in Seq(T), NEW i \in DOMAIN s, NEW x \in T
    PROVE  /\ [s EXCEPT ![i] = x] \in Seq(T)
           /\ DOMAIN [s EXCEPT ![i] = x] = DOMAIN s
           /\ [s EXCEPT ![i] = x][i] = x
           /\ \A j \in DOMAIN s : j # i => [s EXCEPT ![i] = x][j] = s[j]
BY ExceptSeq

LEMMA EntryType ==
    ASSUME NEW T, NEW s \in Seq(T)
    PROVE  \A i \in DOMAIN s : s[i] \in T
BY ElementOfSeq, LenProperties

(* The part of a history from one position on.                                    *)
LEMMA RestOf ==
    ASSUME NEW msgs \in Messages, NEW from \in Nat \ {0}
    PROVE  SubSeq(msgs, from, Len(msgs)) \in Messages
<1>1. Len(msgs) \in Nat /\ \A i \in 1 .. Len(msgs) : msgs[i] \in Message
  BY LenProperties, ElementOfSeq DEF Messages
<1>2. \A i \in from .. Len(msgs) : msgs[i] \in Message
  BY <1>1
<1> QED
  BY <1>1, <1>2, SubSeqProperties DEF Messages

LEMMA PartOf ==
    ASSUME NEW msgs \in Messages, NEW n \in 0 .. Len(msgs)
    PROVE  /\ SubSeq(msgs, 1, n) \in Messages /\ Len(SubSeq(msgs, 1, n)) = n
           /\ \A i \in 1 .. n : SubSeq(msgs, 1, n)[i] = msgs[i]
<1>1. Len(msgs) \in Nat /\ \A i \in 1 .. Len(msgs) : msgs[i] \in Message
  BY LenProperties, ElementOfSeq DEF Messages
<1>2. \A i \in 1 .. n : msgs[i] \in Message
  BY <1>1
<1> QED
  BY <1>1, <1>2, SubSeqProperties DEF Messages

-----------------------------------------------------------------------------
(* The key of a tool call: the user messages of an event. What is no user message *)
(* does not change it.                                                            *)

LEMMA UsersKept ==
    ASSUME NEW a \in Messages, NEW b \in Messages, Len(b) = Len(a) + 1,
           \A i \in 1 .. Len(a) : b[i] = a[i], b[Len(b)].role # "user"
    PROVE  Users(b) = Users(a)
<1>1. DOMAIN a = 1 .. Len(a) /\ DOMAIN b = 1 .. Len(a) + 1 /\ Len(a) \in Nat
  BY LenProperties DEF Messages
<1>2. Said(b) = Said(a)
  BY <1>1 DEF Said
<1>3. \A i \in Said(a) : b[i] = a[i]
  BY <1>1 DEF Said
<1> QED
  BY <1>2, <1>3 DEF Users, Ranked

LEMMA UsersFromKept ==
    ASSUME NEW msgs \in Messages, NEW longer \in Messages, Len(longer) = Len(msgs) + 1,
           \A i \in 1 .. Len(msgs) : longer[i] = msgs[i], longer[Len(longer)].role # "user",
           NEW from \in 1 .. Len(msgs) + 1
    PROVE  Users(SubSeq(longer, from, Len(longer))) = Users(SubSeq(msgs, from, Len(msgs)))
<1> DEFINE a == SubSeq(msgs, from, Len(msgs))
           b == SubSeq(longer, from, Len(longer))
<1>1. Len(msgs) \in Nat /\ Len(longer) = Len(msgs) + 1
  BY LenProperties DEF Messages
<1>2. a \in Messages /\ b \in Messages
  BY <1>1, RestOf
<1>3. /\ Len(a) = Len(msgs) - from + 1 /\ \A i \in 1 .. Len(msgs) - from + 1 : a[i] = msgs[from + i - 1]
  <2>1. \A i \in from .. Len(msgs) : msgs[i] \in Message
    BY <1>1, ElementOfSeq DEF Messages
  <2> QED
    BY <1>1, <2>1, SubSeqProperties
<1>4. /\ Len(b) = Len(msgs) - from + 2 /\ \A i \in 1 .. Len(msgs) - from + 2 : b[i] = longer[from + i - 1]
  <2>1. \A i \in from .. Len(longer) : longer[i] \in Message
    BY <1>1, ElementOfSeq DEF Messages
  <2>2. Len(b) = (IF from <= Len(longer) THEN Len(longer) - from + 1 ELSE 0)
        /\ \A i \in 1 .. Len(longer) - from + 1 : b[i] = longer[from + i - 1]
    BY <1>1, <2>1, SubSeqProperties
  <2> QED
    BY <1>1, <2>2
<1> HIDE DEF a, b
<1>5. \A i \in 1 .. Len(a) : b[i] = a[i]
  <2> TAKE i \in 1 .. Len(a)
  <2>1. /\ i \in 1 .. Len(msgs) - from + 1 /\ i \in 1 .. Len(msgs) - from + 2
        /\ from + i - 1 \in 1 .. Len(msgs)
    BY <1>1, <1>3
  <2> QED
    BY <1>3, <1>4, <2>1
<1>6. Len(b) = Len(a) + 1 /\ b[Len(b)] = longer[Len(longer)]
  <2>1. Len(b) \in 1 .. Len(msgs) - from + 2 /\ from + Len(b) - 1 = Len(longer)
    BY <1>1, <1>4
  <2> QED
    BY <1>1, <1>3, <1>4, <2>1
<1>7. Users(b) = Users(a)
  BY <1>2, <1>5, <1>6, UsersKept
<1> QED
  BY <1>7 DEF a, b

-----------------------------------------------------------------------------
(* Histories and their hashes. The hash of a history that ends in an answer has    *)
(* the whole of it.                                                               *)

(* A user message begins a turn, an answer ends it, and each tool call has its    *)
(* response.                                                                      *)
Shaped(msgs) ==
    \A i \in DOMAIN msgs :
      IF i = 1 THEN msgs[i].role = "user"
      ELSE /\ msgs[i].role = "user" <=> msgs[i - 1].role = "assistant"
           /\ msgs[i].role = "tool" <=> msgs[i - 1].role = "call"

EndsIn(msgs, role) == msgs # <<>> /\ msgs[Len(msgs)].role = role

Complete(msgs) == Shaped(msgs) /\ (msgs # <<>> => EndsIn(msgs, "assistant"))

(* What a hash is made of.                                                        *)
Counted(msgs) == {i \in DOMAIN msgs : msgs[i].role # "tool"}

LEMMA Roles ==
    /\ \A t \in Text : User(t).role = "user"
    /\ \A i \in Nat : ToolCall(i).role = "call"
    /\ ToolResponse.role = "tool" /\ Answer.role = "assistant"
    /\ \A m \in Message : m.role = "tool" => m = ToolResponse
<1>1. \A t \in Text : User(t).role = "user"
  BY DEF User
<1>2. \A i \in Nat : ToolCall(i).role = "call"
  BY DEF ToolCall
<1>3. ToolResponse.role = "tool" /\ Answer.role = "assistant"
  BY DEF ToolResponse, Answer
<1>4. ASSUME NEW m \in Message, m.role = "tool" PROVE m = ToolResponse
  BY <1>1, <1>2, <1>3, <1>4 DEF Message
<1> QED
  BY <1>1, <1>2, <1>3, <1>4

LEMMA Indices ==
    ASSUME NEW msgs \in Messages
    PROVE  /\ Len(msgs) \in Nat /\ DOMAIN msgs = 1 .. Len(msgs)
           /\ \A i \in 1 .. Len(msgs) : msgs[i] \in Message
           /\ msgs = <<>> <=> Len(msgs) = 0
BY LenProperties, ElementOfSeq, EmptySeq DEF Messages

LEMMA LeastNat ==
    ASSUME NEW T, T \subseteq Nat, T # {}
    PROVE  \E n \in T : \A m \in T : n <= m
<1> DEFINE Less == {p \in Nat \X Nat : p[1] < p[2]}
<1>1. IsWellFoundedOn(Less, Nat)
  BY NatLessThanWellFounded DEF OpToRel
<1> HIDE DEF Less
<1>2. PICK n \in T : \A m \in T : ~(<<m, n>> \in Less)
  BY <1>1, WFMin
<1>3. ASSUME NEW m \in T PROVE n <= m
  <2>1. m \in Nat /\ n \in Nat
    OBVIOUS
  <2>2. m < n => <<m, n>> \in Less
    BY <2>1 DEF Less
  <2> QED
    BY <1>2, <2>1, <2>2
<1> QED
  BY <1>3

(* The rank of a place tells the place.                                           *)
LEMMA RankGrows ==
    ASSUME NEW n \in Nat, NEW K, K \subseteq 1 .. n, NEW i \in K, NEW k \in K, i < k
    PROVE  Cardinality({j \in K : j <= i}) # Cardinality({j \in K : j <= k})
<1> DEFINE low == {j \in K : j <= i}
           high == {j \in K : j <= k}
<1>1. IsFiniteSet(1 .. n)
  BY FS_Interval
<1>2. high \subseteq 1 .. n /\ low \subseteq high
  <2>1. \A j \in K : j \in Nat /\ (j <= i => j <= k)
    OBVIOUS
  <2> QED
    BY <2>1
<1>3. k \in high /\ k \notin low
  OBVIOUS
<1>4. IsFiniteSet(high)
  BY <1>1, <1>2, FS_Subset
<1> HIDE DEF low, high
<1>5. Cardinality(high) = Cardinality(low) => high = low
  BY <1>2, <1>4, FS_Subset
<1> QED
  BY <1>3, <1>5 DEF low, high

LEMMA RankTells ==
    ASSUME NEW n \in Nat, NEW K, K \subseteq 1 .. n, NEW i \in K, NEW k \in K,
           Cardinality({j \in K : j <= i}) = Cardinality({j \in K : j <= k})
    PROVE  i = k
<1>1. i \in Nat /\ k \in Nat
  OBVIOUS
<1>2. ~(i < k) /\ ~(k < i)
  BY RankGrows
<1> QED
  BY <1>1, <1>2

LEMMA RankBelow ==
    ASSUME NEW n \in Nat, NEW K, K \subseteq 1 .. n, NEW i
    PROVE  /\ Cardinality({j \in K : j <= i}) \in Nat /\ Cardinality(K) \in Nat
           /\ Cardinality({j \in K : j <= i}) <= Cardinality(K)
<1>1. IsFiniteSet(K)
  <2>1. IsFiniteSet(1 .. n)
    BY FS_Interval
  <2> QED
    BY <2>1, FS_Subset
<1>2. {j \in K : j <= i} \in SUBSET K
  OBVIOUS
<1>3. IsFiniteSet({j \in K : j <= i}) /\ Cardinality({j \in K : j <= i}) <= Cardinality(K)
  BY <1>1, <1>2, FS_Subset
<1> QED
  BY <1>1, <1>3, FS_CardinalityType

LEMMA Shorter ==
    ASSUME NEW msgs \in Messages, Shaped(msgs), NEW n \in 0 .. Len(msgs)
    PROVE  Shaped(SubSeq(msgs, 1, n))
<1>1. /\ SubSeq(msgs, 1, n) \in Messages /\ Len(SubSeq(msgs, 1, n)) = n
      /\ \A i \in 1 .. n : SubSeq(msgs, 1, n)[i] = msgs[i]
  BY PartOf
<1>2. DOMAIN SubSeq(msgs, 1, n) = 1 .. n /\ DOMAIN msgs = 1 .. Len(msgs) /\ Len(msgs) \in Nat
  BY <1>1, Indices
<1>3. PICK p : p = SubSeq(msgs, 1, n)
  OBVIOUS
<1>4. ASSUME NEW i \in 1 .. n, i # 1
      PROVE  /\ p[i].role = "user" <=> p[i - 1].role = "assistant"
             /\ p[i].role = "tool" <=> p[i - 1].role = "call"
  <2>1. i - 1 \in 1 .. n /\ i \in DOMAIN msgs
    BY <1>2, <1>4
  <2> QED
    BY <1>1, <1>3, <1>4, <2>1 DEF Shaped
<1>5. ASSUME 1 \in 1 .. n PROVE p[1].role = "user"
  <2>1. 1 \in DOMAIN msgs
    BY <1>2, <1>5
  <2> QED
    BY <1>1, <1>3, <1>5, <2>1 DEF Shaped
<1> QED
  BY <1>2, <1>3, <1>4, <1>5 DEF Shaped

LEMMA Longer ==
    ASSUME NEW msgs \in Messages, Shaped(msgs), NEW m \in Message,
           IF msgs = <<>> THEN m.role = "user"
           ELSE /\ m.role = "user" <=> EndsIn(msgs, "assistant")
                /\ m.role = "tool" <=> EndsIn(msgs, "call")
    PROVE  /\ Append(msgs, m) \in Messages /\ Shaped(Append(msgs, m))
           /\ EndsIn(Append(msgs, m), m.role)
<1>1. /\ Len(msgs) \in Nat /\ DOMAIN msgs = 1 .. Len(msgs)
      /\ msgs = <<>> <=> Len(msgs) = 0
  BY Indices
<1>2. PICK p : p = Append(msgs, m)
  OBVIOUS
<1>3. /\ p \in Messages /\ Len(p) = Len(msgs) + 1 /\ DOMAIN p = 1 .. Len(msgs) + 1
      /\ \A i \in 1 .. Len(msgs) : p[i] = msgs[i]
      /\ p[Len(msgs) + 1] = m
  BY <1>1, <1>2, Appended DEF Messages
<1>4. ASSUME NEW i \in 1 .. Len(msgs) + 1, i # 1
      PROVE  /\ p[i].role = "user" <=> p[i - 1].role = "assistant"
             /\ p[i].role = "tool" <=> p[i - 1].role = "call"
  <2>1. CASE i = Len(msgs) + 1
    <3>1. i - 1 = Len(msgs) /\ Len(msgs) \in 1 .. Len(msgs) /\ msgs # <<>>
      BY <1>1, <1>4, <2>1
    <3> QED
      BY <1>3, <2>1, <3>1 DEF EndsIn
  <2>2. CASE i # Len(msgs) + 1
    <3>1. i \in 1 .. Len(msgs) /\ i - 1 \in 1 .. Len(msgs)
      BY <1>1, <1>4, <2>2
    <3>2. p[i] = msgs[i] /\ p[i - 1] = msgs[i - 1]
      BY <1>3, <3>1
    <3> QED
      BY <1>1, <1>4, <3>1, <3>2 DEF Shaped
  <2> QED
    BY <2>1, <2>2
<1>5. p[1].role = "user"
  <2>1. CASE msgs = <<>>
    BY <1>1, <1>3, <2>1
  <2>2. CASE msgs # <<>>
    <3>1. 1 \in 1 .. Len(msgs)
      BY <1>1, <2>2
    <3> QED
      BY <1>1, <1>3, <3>1 DEF Shaped
  <2> QED
    BY <2>1, <2>2
<1>6. Shaped(p)
  BY <1>3, <1>4, <1>5 DEF Shaped
<1>7. EndsIn(p, m.role)
  <2>1. p # <<>>
    BY <1>1, <1>3, Indices
  <2> QED
    BY <1>3, <2>1 DEF EndsIn
<1> QED
  BY <1>2, <1>3, <1>6, <1>7

(* Every message up to an answer is in a turn that has an answer.                 *)
LEMMA AnswerAhead ==
    ASSUME NEW msgs \in Messages, Shaped(msgs), NEW n \in 1 .. Len(msgs),
           msgs[n].role = "assistant", NEW i \in 1 .. n
    PROVE  \E j \in i .. n : msgs[j].role = "assistant" /\ \A k \in i + 1 .. j : msgs[k].role # "user"
<1>1. Len(msgs) \in Nat /\ DOMAIN msgs = 1 .. Len(msgs)
  BY Indices
<1> DEFINE T == {j \in i .. n : msgs[j].role = "assistant"}
<1>2. n \in T /\ T \subseteq Nat
  BY <1>1
<1>3. PICK j \in T : \A m \in T : j <= m
  BY <1>2, LeastNat
<1>4. ASSUME NEW k \in i + 1 .. j, msgs[k].role = "user" PROVE FALSE
  <2>1. k \in DOMAIN msgs /\ k # 1 /\ k - 1 \in i .. n /\ k - 1 < j
    BY <1>1, <1>4
  <2>2. msgs[k - 1].role = "assistant"
    BY <1>4, <2>1 DEF Shaped
  <2>3. j <= k - 1
    BY <1>3, <2>1, <2>2
  <2> QED
    BY <1>1, <2>1, <2>3
<1> QED
  BY <1>3, <1>4

LEMMA HashIs ==
    ASSUME NEW msgs \in Messages, Shaped(msgs), NEW n \in 0 .. Len(msgs),
           n = Len(msgs) \/ (n = Len(msgs) - 1 /\ msgs[Len(msgs)].role = "user"),
           n # 0 => msgs[n].role = "assistant"
    PROVE  LET part == SubSeq(msgs, 1, n) IN Complete(part) /\ Hash(msgs) = Ranked(part, Counted(part))
<1> DEFINE part == SubSeq(msgs, 1, n)
           places == {i \in DOMAIN msgs : msgs[i].role # "tool" /\ InAnsweredTurn(msgs, i)}
<1>1. Len(msgs) \in Nat /\ DOMAIN msgs = 1 .. Len(msgs)
  BY Indices
<1>2. /\ part \in Messages /\ Len(part) = n /\ \A i \in 1 .. n : part[i] = msgs[i]
  BY PartOf
<1>3. DOMAIN part = 1 .. n /\ (part = <<>> <=> n = 0)
  BY <1>2, Indices
<1>4. Complete(part)
  <2>1. Shaped(part)
    BY Shorter
  <2>2. ASSUME n # 0 PROVE part[Len(part)].role = "assistant"
    <3>1. n \in 1 .. n
      BY <1>1, <2>2
    <3> QED
      BY <1>2, <2>2, <3>1
  <2> HIDE DEF part
  <2> QED
    BY <1>3, <2>1, <2>2 DEF Complete, EndsIn
<1> HIDE DEF part
<1>5. ASSUME NEW i \in 1 .. n PROVE InAnsweredTurn(msgs, i)
  <2>1. i \in Nat /\ n \in Nat /\ n # 0 /\ n \in 1 .. Len(msgs) /\ msgs[n].role = "assistant"
    <3>1. n # 0 /\ n \in 1 .. Len(msgs) /\ i \in Nat /\ n \in Nat
      BY <1>1, <1>5
    <3> QED
      BY <3>1
  <2>2. PICK j \in i .. n : msgs[j].role = "assistant" /\ \A k \in i + 1 .. j : msgs[k].role # "user"
    BY <2>1, AnswerAhead
  <2>3. j \in DOMAIN msgs
    BY <1>1, <2>1
  <2>4. ASSUME NEW k \in Said(msgs) PROVE k <= i <=> k <= j
    <3>1. k \in 1 .. Len(msgs) /\ msgs[k].role = "user"
      BY <1>1 DEF Said
    <3>2. k \notin i + 1 .. j
      BY <2>2, <3>1
    <3>3. j \in Nat /\ i <= j
      BY <2>1
    <3>4. k \in Nat
      <4>1. PICK len \in Nat : len = Len(msgs)
        BY <1>1
      <4>2. k \in 1 .. len
        BY <3>1, <4>1
      <4> QED
        BY <4>2
    <3> QED
      BY <2>1, <3>2, <3>3, <3>4
  <2> QED
    BY <2>2, <2>3, <2>4 DEF InAnsweredTurn
<1>6. ASSUME NEW i \in DOMAIN msgs, i \notin 1 .. n PROVE ~InAnsweredTurn(msgs, i)
  <2>1. i = Len(msgs) /\ msgs[i].role = "user" /\ i \in Said(msgs)
    BY <1>1, <1>6 DEF Said
  <2>2. ASSUME NEW j \in DOMAIN msgs, msgs[j].role = "assistant" PROVE ~(i <= j)
    BY <1>1, <2>1, <2>2
  <2>3. i <= i
    BY <1>1
  <2> QED
    BY <2>1, <2>2, <2>3 DEF InAnsweredTurn
<1>7. 1 .. n \subseteq DOMAIN msgs
  BY <1>1
<1>8. places = Counted(part)
  BY <1>2, <1>3, <1>5, <1>6, <1>7 DEF Counted
<1>9. \A i \in Counted(part) : msgs[i] = part[i]
  BY <1>2, <1>3 DEF Counted
<1>10. Hash(msgs) = Ranked(msgs, places)
  BY DEF Hash
<1> HIDE DEF places
<1>11. Ranked(msgs, places) = Ranked(part, Counted(part))
  BY <1>8, <1>9 DEF Ranked
<1> QED
  BY <1>4, <1>10, <1>11 DEF part

(* Two histories that end in an answer and have the same hash are the same: they   *)
(* agree up to any place both have,                                               *)
LEMMA Agree ==
    ASSUME NEW p \in Messages, NEW q \in Messages, Shaped(p), Shaped(q),
           Ranked(p, Counted(p)) = Ranked(q, Counted(q)),
           NEW n \in Nat, n <= Len(p), n <= Len(q)
    PROVE  \A i \in 1 .. n : p[i] = q[i]
<1>1. /\ Len(p) \in Nat /\ DOMAIN p = 1 .. Len(p) /\ \A i \in 1 .. Len(p) : p[i] \in Message
      /\ Len(q) \in Nat /\ DOMAIN q = 1 .. Len(q) /\ \A i \in 1 .. Len(q) : q[i] \in Message
  BY Indices
<1> DEFINE T == {i \in 1 .. n : p[i] # q[i]}
<1>2. SUFFICES ASSUME T # {} PROVE FALSE
  OBVIOUS
<1>3. PICK i \in T : \A j \in T : i <= j
  <2>1. T \subseteq Nat
    OBVIOUS
  <2> QED
    BY <1>2, <2>1, LeastNat
<1>4. /\ i \in 1 .. n /\ i \in DOMAIN p /\ i \in DOMAIN q /\ p[i] # q[i]
      /\ p[i] \in Message /\ q[i] \in Message
  BY <1>1
<1>5. \A j \in 1 .. n : j < i => p[j] = q[j]
  BY <1>1, <1>3
<1> HIDE DEF T
<1>6. p[i].role = "tool" <=> q[i].role = "tool"
  <2>1. CASE i = 1
    BY <1>4, <2>1 DEF Shaped
  <2>2. CASE i # 1
    <3>1. i - 1 \in 1 .. n /\ i - 1 < i
      BY <1>1, <1>4, <2>2
    <3>2. p[i - 1] = q[i - 1]
      BY <1>5, <3>1
    <3> QED
      BY <1>4, <2>2, <3>2 DEF Shaped
  <2> QED
    BY <2>1, <2>2
<1>7. p[i].role # "tool" /\ q[i].role # "tool"
  BY <1>4, <1>6, Roles
<1>8. {j \in Counted(p) : j <= i} = {j \in Counted(q) : j <= i}
  <2>1. ASSUME NEW j \in Nat, j <= i PROVE j \in Counted(p) <=> j \in Counted(q)
    <3>1. CASE j = i
      BY <1>4, <1>7, <3>1 DEF Counted
    <3>2. CASE j # i
      <4>1. j < i /\ (j \in 1 .. Len(p) <=> j \in 1 .. n) /\ (j \in 1 .. Len(q) <=> j \in 1 .. n)
        BY <1>1, <1>4, <2>1, <3>2
      <4> QED
        BY <1>1, <1>5, <4>1 DEF Counted
    <3> QED
      BY <3>1, <3>2
  <2>2. Counted(p) \subseteq Nat /\ Counted(q) \subseteq Nat
    BY <1>1 DEF Counted
  <2> QED
    BY <2>1, <2>2
<1> DEFINE rank == Cardinality({j \in Counted(q) : j <= i})
<1>9. <<rank, p[i]>> \in Ranked(p, Counted(p))
  <2>1. i \in Counted(p)
    BY <1>4, <1>7 DEF Counted
  <2> QED
    BY <1>8, <2>1 DEF Ranked
<1>10. PICK k \in Counted(q) : <<rank, p[i]>> = <<Cardinality({j \in Counted(q) : j <= k}), q[k]>>
  BY <1>9 DEF Ranked
<1>11. k = i
  <2>1. Counted(q) \subseteq 1 .. Len(q) /\ i \in Counted(q)
    BY <1>1, <1>4, <1>7 DEF Counted
  <2>2. Cardinality({j \in Counted(q) : j <= k}) = Cardinality({j \in Counted(q) : j <= i})
    BY <1>10
  <2> QED
    BY <1>1, <2>1, <2>2, RankTells
<1> QED
  BY <1>4, <1>10, <1>11

(* and neither has more.                                                          *)
LEMMA NotLonger ==
    ASSUME NEW p \in Messages, NEW q \in Messages, Complete(p), Shaped(q),
           Ranked(p, Counted(p)) = Ranked(q, Counted(q))
    PROVE  ~(Len(p) < Len(q))
<1>1. /\ Len(p) \in Nat /\ DOMAIN p = 1 .. Len(p) /\ (p = <<>> <=> Len(p) = 0)
      /\ Len(q) \in Nat /\ DOMAIN q = 1 .. Len(q)
  BY Indices
<1>2. SUFFICES ASSUME Len(p) < Len(q) PROVE FALSE
  OBVIOUS
<1>3. \A i \in 1 .. Len(p) : p[i] = q[i]
  <2>1. Len(p) <= Len(p) /\ Len(p) <= Len(q)
    BY <1>1, <1>2
  <2> QED
    BY <1>1, <2>1, Agree DEF Complete
<1> DEFINE n == Len(p) + 1
<1>4. n \in DOMAIN q
  BY <1>1, <1>2
<1>5. q[n].role # "tool"
  <2>1. CASE p = <<>>
    <3>1. n = 1
      BY <1>1, <2>1
    <3> QED
      BY <1>4, <3>1 DEF Shaped
  <2>2. CASE p # <<>>
    <3>1. n - 1 = Len(p) /\ Len(p) \in 1 .. Len(p) /\ n # 1
      BY <1>1, <2>2
    <3>2. q[n - 1].role = "assistant"
      BY <1>3, <2>2, <3>1 DEF Complete, EndsIn
    <3> QED
      BY <1>4, <3>1, <3>2 DEF Shaped
  <2> QED
    BY <2>1, <2>2
<1>6. n \in Counted(q) /\ Counted(q) \subseteq 1 .. Len(q) /\ Counted(p) \subseteq 1 .. Len(p)
  BY <1>1, <1>4, <1>5 DEF Counted
<1>7. \A j \in Counted(p) : j \in Counted(q) /\ j <= n /\ j # n
  BY <1>1, <1>2, <1>3 DEF Counted
<1> HIDE DEF n
<1> DEFINE low == {j \in Counted(q) : j <= n}
<1>8. Cardinality(low) \in Nat /\ Cardinality(low) > Cardinality(Counted(p)) /\ Cardinality(Counted(p)) \in Nat
  <2>1. IsFiniteSet(1 .. Len(p)) /\ IsFiniteSet(1 .. Len(q))
    BY <1>1, FS_Interval
  <2>2. IsFiniteSet(Counted(p))
    BY <1>6, <2>1, FS_Subset
  <2>3. low \subseteq 1 .. Len(q)
    BY <1>6
  <2>4. IsFiniteSet(low)
    BY <2>1, <2>3, FS_Subset
  <2>5. n \in low
    <3>1. n <= n
      BY <1>4, <1>1
    <3> QED
      BY <1>6, <3>1
  <2>6. Counted(p) \subseteq low /\ n \notin Counted(p)
    BY <1>7
  <2> HIDE DEF low
  <2>7. /\ Cardinality(Counted(p)) <= Cardinality(low)
        /\ Cardinality(low) = Cardinality(Counted(p)) => low = Counted(p)
    BY <2>4, <2>6, FS_Subset
  <2>8. Cardinality(low) \in Nat /\ Cardinality(Counted(p)) \in Nat
    BY <2>2, <2>4, FS_CardinalityType
  <2> QED
    BY <2>5, <2>6, <2>7, <2>8
<1>9. <<Cardinality(low), q[n]>> \in Ranked(p, Counted(p))
  BY <1>6 DEF Ranked
<1> HIDE DEF low
<1>10. PICK k \in Counted(p) : <<Cardinality(low), q[n]>> = <<Cardinality({j \in Counted(p) : j <= k}), p[k]>>
  BY <1>9 DEF Ranked
<1>11. Cardinality({j \in Counted(p) : j <= k}) <= Cardinality(Counted(p))
       /\ Cardinality({j \in Counted(p) : j <= k}) \in Nat
  BY <1>1, <1>6, RankBelow
<1>12. Cardinality(low) = Cardinality({j \in Counted(p) : j <= k})
  BY <1>10
<1> QED
  BY <1>8, <1>11, <1>12

(* A request that asks for more, with the hash of complete turns, begins with     *)
(* just these.                                                                    *)
LEMMA HashTells ==
    ASSUME NEW p \in Messages, Complete(p), NEW msgs \in Messages, Shaped(msgs),
           EndsIn(msgs, "user"), Hash(msgs) = Hash(p)
    PROVE  Len(msgs) = Len(p) + 1 /\ p = SubSeq(msgs, 1, Len(msgs) - 1)
<1>1. /\ Len(p) \in Nat /\ DOMAIN p = 1 .. Len(p) /\ (p = <<>> <=> Len(p) = 0)
      /\ Len(msgs) \in Nat /\ DOMAIN msgs = 1 .. Len(msgs) /\ (msgs = <<>> <=> Len(msgs) = 0)
  BY Indices
<1> DEFINE n == Len(msgs) - 1
           part == SubSeq(msgs, 1, n)
<1>2. n \in 0 .. Len(msgs) /\ msgs[Len(msgs)].role = "user" /\ n + 1 = Len(msgs)
  BY <1>1 DEF EndsIn
<1>3. n # 0 => msgs[n].role = "assistant"
  <2>1. Len(msgs) \in DOMAIN msgs /\ (n # 0 => Len(msgs) # 1)
    BY <1>1, <1>2
  <2> QED
    BY <1>2, <2>1 DEF Shaped
<1>4. /\ part \in Messages /\ Len(part) = n /\ DOMAIN part = 1 .. n
  BY <1>2, PartOf, Indices
<1>5. Complete(part) /\ Hash(msgs) = Ranked(part, Counted(part))
  BY <1>2, <1>3, HashIs
<1>6. SubSeq(p, 1, Len(p)) = p
  <2>1. Len(p) \in 0 .. Len(p)
    BY <1>1
  <2>2. PICK a : a = SubSeq(p, 1, Len(p))
    OBVIOUS
  <2>3. a \in Messages /\ Len(a) = Len(p) /\ \A i \in 1 .. Len(p) : a[i] = p[i]
    BY <2>1, <2>2, PartOf
  <2>4. a = p
    BY <1>1, <2>3, SeqEqual DEF Messages
  <2> QED
    BY <2>2, <2>4
<1>7. Hash(p) = Ranked(p, Counted(p))
  <2>1. Len(p) \in 0 .. Len(p)
    BY <1>1
  <2>2. Len(p) # 0 => p[Len(p)].role = "assistant"
    BY <1>1 DEF Complete, EndsIn
  <2>3. LET a == SubSeq(p, 1, Len(p)) IN Hash(p) = Ranked(a, Counted(a))
    BY <2>1, <2>2, HashIs DEF Complete
  <2> QED
    BY <1>6, <2>3
<1>14. n \in Nat
  BY <1>1, <1>2
<1> HIDE DEF part, n
<1>8. Ranked(p, Counted(p)) = Ranked(part, Counted(part))
  BY <1>5, <1>7
<1>9. ~(Len(p) < n) /\ ~(n < Len(p))
  BY <1>4, <1>5, <1>8, NotLonger DEF Complete
<1>10. Len(p) = n
  <2>1. PICK a \in Nat : a = Len(p)
    BY <1>1
  <2>2. ~(a < n) /\ ~(n < a)
    BY <1>9, <2>1
  <2> QED
    BY <1>14, <2>1, <2>2
<1>11. \A i \in 1 .. n : p[i] = part[i]
  <2>1. n \in Nat /\ n <= Len(p) /\ n <= Len(part)
    BY <1>1, <1>4, <1>10
  <2> QED
    BY <1>4, <1>5, <1>8, <2>1, Agree DEF Complete
<1>12. p = part
  BY <1>4, <1>10, <1>11, SeqEqual DEF Messages
<1> QED
  BY <1>2, <1>10, <1>12 DEF n, part
-----------------------------------------------------------------------------
(* What the steps of a turn do to its session and its request.                    *)

(* An active event is of a request of its session; when that has brought a tool    *)
(* response, it is the last message.                                              *)
EventFits(s) ==
    LET e == store[s].event IN
    e.state = "active" =>
      /\ e.req \in DOMAIN reqs /\ reqs[e.req].session = s
      /\ e.from \in 1 .. Len(store[s].msgs) + 1
      /\ e.tool /\ reqs[e.req].phase = "running" =>
           Len(store[s].msgs) >= e.from /\ Last(store[s].msgs) = ToolResponse

EventsFit == \A s \in DOMAIN store : EventFits(s)

Becomes(s, x) == s \in DOMAIN store /\ x \in SessionType /\ store' = [store EXCEPT ![s] = x]

(* Only the phase of r may change, and what its answer was made from.              *)
OnlyPhase(r) ==
    /\ reqs' \in Seq(RequestType) /\ DOMAIN reqs' = DOMAIN reqs
    /\ \A q \in DOMAIN reqs : /\ reqs'[q].session = reqs[q].session /\ reqs'[q].msgs = reqs[q].msgs
                              /\ reqs'[q].client = reqs[q].client
    /\ \A q \in DOMAIN reqs : q # r => reqs'[q] = reqs[q]

LEMMA RequestAt ==
    ASSUME Typed, NEW r \in DOMAIN reqs
    PROVE  /\ r \in Nat /\ reqs[r] \in RequestType /\ reqs[r].msgs \in Messages
           /\ reqs[r].client \in Client
           /\ reqs[r].session \in DOMAIN store /\ store[reqs[r].session] \in SessionType
<1>1. DOMAIN reqs = 1 .. Len(reqs) /\ Len(reqs) \in Nat
  BY LenProperties DEF Typed
<1>2. reqs[r] \in RequestType
  BY EntryType DEF Typed
<1>3. reqs[r].msgs \in Messages /\ reqs[r].client \in Client
  BY <1>2 DEF RequestType
<1>4. reqs[r].session \in DOMAIN store
  BY DEF Typed
<1>5. store[reqs[r].session] \in SessionType
  BY <1>4, EntryType DEF Typed
<1> QED
  BY <1>1, <1>2, <1>3, <1>4, <1>5

LEMMA SessionAt ==
    ASSUME Typed, NEW s \in DOMAIN store
    PROVE  /\ store[s] \in SessionType /\ store[s].msgs \in Messages /\ store[s].event \in EventType
           /\ store[s].cont \in Key /\ store[s].done \in Messages
           /\ Len(store[s].msgs) \in Nat
<1>1. store[s] \in SessionType
  BY EntryType DEF Typed
<1>2. /\ store[s].msgs \in Messages /\ store[s].event \in EventType
      /\ store[s].cont \in Key /\ store[s].done \in Messages
  BY <1>1 DEF SessionType
<1> QED
  BY <1>1, <1>2, LenProperties DEF Messages

LEMMA BecomesStore ==
    ASSUME Typed, NEW s, NEW x, Becomes(s, x)
    PROVE  /\ store' \in Seq(SessionType) /\ DOMAIN store' = DOMAIN store /\ store'[s] = x
           /\ \A q \in DOMAIN store : q # s => store'[q] = store[q]
BY Changed DEF Becomes, Typed

LEMMA PhaseChange ==
    ASSUME Typed, NEW r \in DOMAIN reqs, NEW p \in Phase, reqs' = SetPhase(r, p)
    PROVE  OnlyPhase(r) /\ reqs'[r].phase = p
<1> DEFINE x == [reqs[r] EXCEPT !.phase = p]
<1>1. /\ x \in RequestType /\ x.phase = p /\ x.session = reqs[r].session
      /\ x.msgs = reqs[r].msgs /\ x.client = reqs[r].client
  BY RequestAt DEF RequestType
<1>2. reqs' = [reqs EXCEPT ![r] = x]
  BY DEF SetPhase
<1> HIDE DEF x
<1>3. /\ reqs' \in Seq(RequestType) /\ DOMAIN reqs' = DOMAIN reqs /\ reqs'[r] = x
      /\ \A q \in DOMAIN reqs : q # r => reqs'[q] = reqs[q]
  BY <1>1, <1>2, Changed DEF Typed
<1> QED
  BY <1>1, <1>3 DEF OnlyPhase

LEMMA RollBack ==
    ASSUME Typed, NEW s \in DOMAIN store, EventFits(s)
    PROVE  LET x == RolledBack(store[s])
           IN  /\ x \in SessionType /\ x.event.state # "active"
               /\ x.cont = store[s].cont /\ x.retry = store[s].retry
<1>1. store[s] \in SessionType /\ store[s].event \in EventType /\ store[s].msgs \in Messages
  BY SessionAt
<1>2. CASE store[s].event.state = "active"
  <2> DEFINE part == SubSeq(store[s].msgs, 1, store[s].event.from - 1)
  <2>1. store[s].event.from - 1 \in 0 .. Len(store[s].msgs)
    BY <1>2, SessionAt DEF EventFits
  <2>2. part \in Messages
    BY <1>1, <2>1, PartOf
  <2>3. RolledBack(store[s]) = [store[s] EXCEPT !.msgs = part, !.event = NoEvent]
    BY <1>2 DEF RolledBack
  <2> HIDE DEF part
  <2> QED
    BY <1>1, <2>2, <2>3, MessageTypes DEF SessionType
<1>3. CASE store[s].event.state # "active"
  BY <1>1, <1>3 DEF RolledBack
<1> QED
  BY <1>2, <1>3

LEMMA TakeToolEffect ==
    ASSUME Typed, EventsFit, NEW r \in DOMAIN reqs, TakeTool(r)
    PROVE  LET s == reqs[r].session IN
           /\ \E x : /\ Becomes(s, x)
                     /\ x.msgs = Append(store[s].msgs, ToolResponse)
                     /\ x.event = [store[s].event EXCEPT !.req = r]
                     /\ x.cont = store[s].cont /\ x.retry = store[s].retry
           /\ IsActive(s) /\ store[s].event.tool
           /\ OnlyPhase(r) /\ reqs'[r].phase = "running"
<1> DEFINE s == reqs[r].session
           old == store[s]
           x == [old EXCEPT !.msgs = Append(old.msgs, ToolResponse), !.event = [old.event EXCEPT !.req = r]]
<1>1. s \in DOMAIN store /\ r \in Nat /\ old \in SessionType
  BY RequestAt
<1>2. Append(old.msgs, ToolResponse) \in Messages
  BY <1>1, SessionAt, MessageTypes, Appended DEF Messages
<1>3. [old.event EXCEPT !.req = r] \in EventType
  BY <1>1, SessionAt DEF EventType
<1>4. /\ x \in SessionType /\ x.msgs = Append(old.msgs, ToolResponse)
      /\ x.event = [old.event EXCEPT !.req = r] /\ x.cont = old.cont /\ x.retry = old.retry
  BY <1>1, <1>2, <1>3 DEF SessionType
<1>5. store' = [store EXCEPT ![s] = x]
  BY <1>1 DEF TakeTool, SessionType
<1> HIDE DEF x
<1>6. Becomes(s, x)
  BY <1>1, <1>4, <1>5 DEF Becomes
<1>7. OnlyPhase(r) /\ reqs'[r].phase = "running"
  BY PhaseChange DEF TakeTool, Phase
<1>8. IsActive(s) /\ store[s].event.tool
  BY DEF TakeTool, ContinuesTool
<1> QED
  BY <1>4, <1>6, <1>7, <1>8

LEMMA TakeEffect ==
    ASSUME Typed, EventsFit, NEW r \in DOMAIN reqs, Take(r)
    PROVE  LET s == reqs[r].session IN
           /\ \E x : /\ Becomes(s, x)
                     /\ \/ x.event.state # "active" /\ x = Base(r) /\ x = RolledBack(store[s])
                           /\ reqs'[r].phase = "nothing new"
                        \/ LET new == NewMessages(reqs[r].msgs, Base(r)) IN
                           /\ x.event = [state |-> "active", req |-> r, tool |-> FALSE,
                                         from |-> Len(Base(r).msgs) + 1]
                           /\ x.event.from \in 1 .. Len(x.msgs) + 1
                           /\ new # <<>> /\ x.msgs = Base(r).msgs \o new
                           /\ reqs'[r].phase = "running"
                     /\ x.cont = store[s].cont /\ x.retry = store[s].retry
           /\ ~(IsActive(s) /\ store[s].event.tool)
           /\ OnlyPhase(r)
<1> DEFINE s == reqs[r].session
           base == Base(r)
           new == NewMessages(reqs[r].msgs, base)
<1>1. s \in DOMAIN store /\ r \in Nat /\ reqs[r].msgs \in Messages
  BY RequestAt
<1>2. ~(IsActive(s) /\ store[s].event.tool)
  BY DEF Take
<1>3. /\ base \in SessionType /\ base.cont = store[s].cont /\ base.retry = store[s].retry
      /\ new = <<>> => base.event.state # "active" /\ base = RolledBack(store[s])
  <2>1. /\ RolledBack(store[s]) \in SessionType /\ RolledBack(store[s]).event.state # "active"
        /\ RolledBack(store[s]).cont = store[s].cont /\ RolledBack(store[s]).retry = store[s].retry
    BY <1>1, RollBack DEF EventsFit
  <2>2. base \in {RolledBack(store[s]), store[s]}
        /\ (NewMessages(reqs[r].msgs, store[s]) = <<>> => base = RolledBack(store[s]))
        /\ (NewMessages(reqs[r].msgs, store[s]) # <<>> => base = store[s])
    BY DEF Base
  <2> HIDE DEF base
  <2>3. store[s] \in SessionType
    BY <1>1, SessionAt
  <2> QED
    BY <2>1, <2>2, <2>3
<1>4. base.msgs \in Messages /\ Len(base.msgs) \in Nat
  <2> HIDE DEF base
  <2> QED
    BY <1>3, LenProperties DEF SessionType, Messages
<1>5. CASE new = <<>>
  <2>1. Becomes(s, base)
    BY <1>1, <1>3, <1>5 DEF Take, Becomes
  <2>2. reqs' = SetPhase(r, "nothing new")
    BY <1>5 DEF Take
  <2>3. OnlyPhase(r) /\ reqs'[r].phase = "nothing new"
    BY <2>2, PhaseChange DEF Phase
  <2>4. PICK x : x = base
    OBVIOUS
  <2>5. /\ Becomes(s, x) /\ x.event.state # "active" /\ x = Base(r) /\ x = RolledBack(store[s])
        /\ x.cont = store[s].cont /\ x.retry = store[s].retry
    <3> HIDE DEF base, new
    <3>1. x = RolledBack(store[s])
      BY <1>3, <1>5, <2>4
    <3>2. x = Base(r)
      BY <2>4 DEF base
    <3> QED
      BY <1>3, <1>5, <2>1, <2>4, <3>1, <3>2
  <2> HIDE DEF base, new
  <2> QED
    BY <1>2, <2>3, <2>5
<1>6. CASE new # <<>>
  <2> DEFINE event == [state |-> "active", req |-> r, from |-> Len(base.msgs) + 1, tool |-> FALSE]
             x == [base EXCEPT !.msgs = base.msgs \o new, !.event = event]
  <2>1. store' = [store EXCEPT ![s] = x] /\ reqs' = SetPhase(r, "running")
    BY <1>6 DEF Take
  <2>2. new \in Messages
    <3>1. new = SubSeq(reqs[r].msgs, Len(base.msgs) + 1, Len(reqs[r].msgs))
      BY DEF NewMessages
    <3> HIDE DEF base, new
    <3>2. Len(base.msgs) + 1 \in Nat \ {0}
      BY <1>4
    <3> QED
      BY <1>1, <3>1, <3>2, RestOf
  <2> HIDE DEF base, new
  <2>3. base.msgs \o new \in Messages /\ Len(base.msgs \o new) = Len(base.msgs) + Len(new) /\ Len(new) \in Nat
    BY <1>4, <2>2, ConcatProperties, LenProperties DEF Messages
  <2>4. event \in EventType /\ event.from = Len(base.msgs) + 1
    BY <1>1, <1>4 DEF EventType
  <2>9. event = [state |-> "active", req |-> r, tool |-> FALSE, from |-> Len(base.msgs) + 1]
    OBVIOUS
  <2> HIDE DEF event
  <2>5. /\ x \in SessionType /\ x.msgs = base.msgs \o new /\ x.event = event
        /\ x.cont = base.cont /\ x.retry = base.retry
    BY <1>3, <2>3, <2>4 DEF SessionType
  <2> HIDE DEF x
  <2>6. Becomes(s, x)
    BY <1>1, <2>1, <2>5 DEF Becomes
  <2>7. x.event.from \in 1 .. Len(x.msgs) + 1
    BY <1>4, <2>3, <2>4, <2>5
  <2>8. OnlyPhase(r) /\ reqs'[r].phase = "running"
    BY <2>1, PhaseChange DEF Phase
  <2> QED
    BY <1>2, <1>3, <1>6, <2>5, <2>6, <2>7, <2>8, <2>9 DEF base, new
<1> QED
  BY <1>5, <1>6

(* The event of r is the one its session works on.                                *)
LEMMA CurrentEvent ==
    ASSUME Typed, EventsFit, NEW r \in DOMAIN reqs, IsCurrent(r)
    PROVE  LET s   == reqs[r].session
               old == store[s]
           IN  /\ s \in DOMAIN store /\ old \in SessionType /\ r \in Nat
               /\ old.msgs \in Messages /\ old.event \in EventType /\ Len(old.msgs) \in Nat
               /\ old.event.state = "active" /\ old.event.req = r
               /\ old.event.from \in 1 .. Len(old.msgs) + 1
               /\ old.event.tool /\ reqs[r].phase = "running" =>
                    Len(old.msgs) >= old.event.from /\ Last(old.msgs) = ToolResponse
<1>1. reqs[r].session \in DOMAIN store /\ r \in Nat
  BY RequestAt
<1>2. /\ store[reqs[r].session] \in SessionType /\ store[reqs[r].session].msgs \in Messages
      /\ store[reqs[r].session].event \in EventType /\ Len(store[reqs[r].session].msgs) \in Nat
  BY <1>1, SessionAt
<1>3. store[reqs[r].session].event.state = "active" /\ store[reqs[r].session].event.req = r
  BY DEF IsCurrent
<1>4. EventFits(reqs[r].session)
  BY <1>1 DEF EventsFit
<1> QED
  BY <1>1, <1>2, <1>3, <1>4 DEF EventFits

LEMMA CallToolEffect ==
    ASSUME Typed, EventsFit, NEW r \in DOMAIN reqs, CallTool(r)
    PROVE  LET s == reqs[r].session IN
           /\ \E x : /\ Becomes(s, x)
                     /\ x.msgs = Append(store[s].msgs, ToolCall(r))
                     /\ x.event = [store[s].event EXCEPT !.tool = TRUE]
                     /\ x.cont = store[s].cont /\ x.retry = store[s].retry
           /\ IsCurrent(r)
           /\ OnlyPhase(r) /\ reqs'[r].phase = "called"
<1> DEFINE s == reqs[r].session
           old == store[s]
           x == [old EXCEPT !.msgs = Append(old.msgs, ToolCall(r)), !.event = [old.event EXCEPT !.tool = TRUE]]
<1>0. IsCurrent(r)
  BY DEF CallTool
<1>1. /\ s \in DOMAIN store /\ r \in Nat /\ old \in SessionType
      /\ old.msgs \in Messages /\ old.event \in EventType
  BY <1>0, CurrentEvent
<1>2. Append(old.msgs, ToolCall(r)) \in Messages
  <2>1. ToolCall(r) \in Message
    BY <1>1, MessageTypes
  <2> HIDE DEF old, s
  <2> QED
    BY <1>1, <2>1, Appended DEF Messages
<1>3. [old.event EXCEPT !.tool = TRUE] \in EventType
  BY <1>1 DEF EventType
<1>4. /\ x \in SessionType /\ x.msgs = Append(old.msgs, ToolCall(r))
      /\ x.event = [old.event EXCEPT !.tool = TRUE] /\ x.cont = old.cont /\ x.retry = old.retry
  <2> HIDE DEF old, s
  <2> QED
    BY <1>1, <1>2, <1>3 DEF SessionType
<1>5. store' = [store EXCEPT ![s] = x]
  BY <1>1 DEF CallTool, SessionType
<1> HIDE DEF x
<1>6. Becomes(s, x)
  BY <1>1, <1>4, <1>5 DEF Becomes
<1>7. OnlyPhase(r) /\ reqs'[r].phase = "called"
  BY PhaseChange DEF CallTool, Phase
<1> QED
  BY <1>0, <1>4, <1>6, <1>7

LEMMA FinishEffect ==
    ASSUME Typed, EventsFit, NEW r \in DOMAIN reqs, Finish(r)
    PROVE  LET s == reqs[r].session IN
           /\ \E x : /\ Becomes(s, x) /\ x.event = [store[s].event EXCEPT !.state = "completed"]
                     /\ x.event.state = "completed" /\ x.msgs = Append(store[s].msgs, Answer)
                     /\ x.cont = Hash(Append(store[s].msgs, Answer)) /\ x.retry = store[s].cont
           /\ IsCurrent(r)
           /\ OnlyPhase(r) /\ reqs'[r].phase = "answered" /\ reqs'[r].basis = store[s].msgs
<1> DEFINE s == reqs[r].session
           old == store[s]
           full == Hash(Append(old.msgs, Answer))
           event == [old.event EXCEPT !.state = "completed"]
           x == [old EXCEPT !.msgs = Append(old.msgs, Answer), !.event = event,
                            !.cont = full, !.retry = old.cont, !.done = reqs[r].msgs]
           req == [reqs[r] EXCEPT !.phase = "answered", !.basis = old.msgs]
<1>0. IsCurrent(r)
  BY DEF Finish
<1>1. /\ s \in DOMAIN store /\ r \in Nat /\ old \in SessionType
      /\ old.msgs \in Messages /\ old.event \in EventType
  BY <1>0, CurrentEvent
<1>2. Append(old.msgs, Answer) \in Messages
  <2> HIDE DEF old, s
  <2> QED
    BY <1>1, MessageTypes, Appended DEF Messages
<1>3. full \in Key
  BY <1>2, KeyOfMessages
<1>4. event \in EventType /\ event.state = "completed"
  BY <1>1 DEF EventType
<1>5. reqs[r].msgs \in Messages /\ reqs[r] \in RequestType
  BY RequestAt
<1>6. store' = [store EXCEPT ![s] = x]
  BY <1>1 DEF Finish, SessionType
<1> HIDE DEF full, event
<1>7. /\ x \in SessionType /\ x.event = event /\ x.cont = full /\ x.retry = old.cont
      /\ x.msgs = Append(old.msgs, Answer)
  <2> HIDE DEF old, s
  <2> QED
    BY <1>1, <1>2, <1>3, <1>4, <1>5 DEF SessionType
<1> HIDE DEF x
<1>8. Becomes(s, x)
  BY <1>1, <1>6, <1>7 DEF Becomes
<1>9. reqs' = [reqs EXCEPT ![r] = req]
  BY <1>5 DEF Finish, RequestType
<1>10. /\ req \in RequestType /\ req.session = reqs[r].session /\ req.msgs = reqs[r].msgs
       /\ req.client = reqs[r].client /\ req.phase = "answered" /\ req.basis = old.msgs
  <2> HIDE DEF old, s
  <2> QED
    BY <1>1, <1>5 DEF RequestType, Phase
<1> HIDE DEF req
<1>11. /\ reqs' \in Seq(RequestType) /\ DOMAIN reqs' = DOMAIN reqs /\ reqs'[r] = req
       /\ \A q \in DOMAIN reqs : q # r => reqs'[q] = reqs[q]
  BY <1>9, <1>10, Changed DEF Typed
<1>12. OnlyPhase(r) /\ reqs'[r].phase = "answered" /\ reqs'[r].basis = old.msgs
  BY <1>10, <1>11 DEF OnlyPhase
<1> QED
  BY <1>0, <1>4, <1>7, <1>8, <1>12 DEF full, event

(* A session left as it is.                                                       *)
LEMMA BecomesItself ==
    ASSUME Typed, NEW s \in DOMAIN store, store' = store
    PROVE  Becomes(s, store[s])
<1>1. store[s] \in SessionType
  BY SessionAt
<1>2. store = [store EXCEPT ![s] = store[s]]
  BY DEF Typed
<1> QED
  BY <1>1, <1>2 DEF Becomes

LEMMA FailedEvent ==
    ASSUME Typed, NEW s \in DOMAIN store, store' = [store EXCEPT ![s].event.state = "failed"]
    PROVE  \E x : /\ Becomes(s, x) /\ x.event.state = "failed"
                  /\ x.event = [store[s].event EXCEPT !.state = "failed"] /\ x.msgs = store[s].msgs
                  /\ x.cont = store[s].cont /\ x.retry = store[s].retry
<1> DEFINE old == store[s]
           x == [old EXCEPT !.event = [old.event EXCEPT !.state = "failed"]]
<1>1. old \in SessionType /\ old.event \in EventType
  BY SessionAt
<1>2. [old.event EXCEPT !.state = "failed"] \in EventType
  BY <1>1 DEF EventType
<1>3. store' = [store EXCEPT ![s] = x]
  BY <1>1 DEF SessionType
<1>4. /\ x \in SessionType /\ x.event.state = "failed" /\ x.cont = old.cont /\ x.retry = old.retry
      /\ x.event = [old.event EXCEPT !.state = "failed"] /\ x.msgs = old.msgs
  <2> HIDE DEF old
  <2> QED
    BY <1>1, <1>2 DEF SessionType, EventType
<1> HIDE DEF x
<1> QED
  BY <1>3, <1>4 DEF Becomes

LEMMA FailEffect ==
    ASSUME Typed, EventsFit, NEW r \in DOMAIN reqs, Fail(r)
    PROVE  LET s == reqs[r].session IN
           /\ \E x : /\ Becomes(s, x)
                     /\ \/ /\ x.event.state = "failed" /\ x.msgs = store[s].msgs /\ IsCurrent(r)
                           /\ x.event = [store[s].event EXCEPT !.state = "failed"]
                        \/ x = store[s] /\ ~IsCurrent(r)
                     /\ x.cont = store[s].cont /\ x.retry = store[s].retry
           /\ "fail" \notin Env => store' = store
           /\ OnlyPhase(r) /\ reqs'[r].phase = "failed"
<1>1. reqs[r].session \in DOMAIN store
  BY RequestAt
<1>2. OnlyPhase(r) /\ reqs'[r].phase = "failed"
  BY PhaseChange DEF Fail, Phase
<1>3. CASE IsCurrent(r)
  <2>1. store' = [store EXCEPT ![reqs[r].session].event.state = "failed"] /\ "fail" \in Env
    BY <1>3 DEF Fail
  <2>2. \E x : /\ Becomes(reqs[r].session, x) /\ x.event.state = "failed"
               /\ x.event = [store[reqs[r].session].event EXCEPT !.state = "failed"]
               /\ x.msgs = store[reqs[r].session].msgs
               /\ x.cont = store[reqs[r].session].cont /\ x.retry = store[reqs[r].session].retry
    BY <1>1, <2>1, FailedEvent
  <2> QED
    BY <1>2, <1>3, <2>1, <2>2
<1>4. CASE ~IsCurrent(r)
  <2>1. store' = store
    BY <1>4 DEF Fail
  <2>2. Becomes(reqs[r].session, store[reqs[r].session])
    BY <1>1, <2>1, BecomesItself
  <2> QED
    BY <1>2, <1>4, <2>1, <2>2
<1> QED
  BY <1>3, <1>4

LEMMA PreflightEffect ==
    ASSUME Typed, EventsFit, NEW r \in DOMAIN reqs, Preflight(r)
    PROVE  LET s == reqs[r].session IN
           /\ \E x : /\ Becomes(s, x)
                     /\ \/ /\ ~store[s].event.tool /\ x.event.state # "active"
                           /\ x = RolledBack(store[s]) /\ reqs'[r].phase = "refused"
                        \/ /\ store[s].event.tool /\ x.event = store[s].event
                           /\ Len(store[s].msgs) = Len(x.msgs) + 1
                           /\ \A i \in 1 .. Len(x.msgs) : store[s].msgs[i] = x.msgs[i]
                           /\ Last(store[s].msgs) = ToolResponse
                           /\ x.event.from \in 1 .. Len(x.msgs) + 1
                           /\ reqs'[r].phase = "called"
                     /\ x.cont = store[s].cont /\ x.retry = store[s].retry
           /\ IsCurrent(r)
           /\ OnlyPhase(r)
<1> DEFINE s == reqs[r].session
           old == store[s]
<1>0. IsCurrent(r) /\ reqs[r].phase = "running"
  BY DEF Preflight
<1>1. /\ s \in DOMAIN store /\ old \in SessionType /\ Len(old.msgs) \in Nat
      /\ old.msgs \in Messages /\ old.event \in EventType
      /\ old.event.from \in 1 .. Len(old.msgs) + 1
      /\ old.event.tool => Len(old.msgs) >= old.event.from /\ Last(old.msgs) = ToolResponse
  BY <1>0, CurrentEvent
<1>2. CASE old.event.tool
  <2> DEFINE part == SubSeq(old.msgs, 1, Len(old.msgs) - 1)
             x == [old EXCEPT !.msgs = part]
  <2>1. store' = [store EXCEPT ![s] = x] /\ reqs' = SetPhase(r, "called")
    BY <1>1, <1>2 DEF Preflight, Front, SessionType
  <2> HIDE DEF s, old
  <2>2. Len(old.msgs) - 1 \in 0 .. Len(old.msgs) /\ old.event.from \in 1 .. Len(old.msgs)
    BY <1>1, <1>2
  <2>3. /\ part \in Messages /\ Len(part) = Len(old.msgs) - 1
        /\ \A i \in 1 .. Len(part) : part[i] = old.msgs[i]
    BY <1>1, <2>2, PartOf
  <2> HIDE DEF part
  <2>4. /\ x \in SessionType /\ x.msgs = part /\ x.event = old.event
        /\ x.cont = old.cont /\ x.retry = old.retry
    BY <1>1, <2>3 DEF SessionType
  <2> HIDE DEF x
  <2>5. Becomes(s, x)
    BY <1>1, <2>1, <2>4 DEF Becomes
  <2>6. OnlyPhase(r) /\ reqs'[r].phase = "called"
    BY <2>1, PhaseChange DEF Phase
  <2>7. Len(old.msgs) = Len(x.msgs) + 1 /\ x.event.from \in 1 .. Len(x.msgs) + 1
    BY <1>1, <2>2, <2>3, <2>4
  <2>8. /\ Becomes(s, x) /\ x.event = old.event /\ Last(old.msgs) = ToolResponse
        /\ \A i \in 1 .. Len(x.msgs) : old.msgs[i] = x.msgs[i]
        /\ x.cont = old.cont /\ x.retry = old.retry
    BY <1>1, <1>2, <2>3, <2>4, <2>5
  <2> QED
    BY <1>0, <1>2, <2>6, <2>7, <2>8 DEF old, s
<1>3. CASE ~old.event.tool
  <2> DEFINE x == RolledBack(old)
  <2>1. store' = [store EXCEPT ![s] = x] /\ reqs' = SetPhase(r, "refused")
    BY <1>3 DEF Preflight
  <2>2. x \in SessionType /\ x.event.state # "active" /\ x.cont = old.cont /\ x.retry = old.retry
    BY <1>1, RollBack DEF EventsFit
  <2>3. OnlyPhase(r) /\ reqs'[r].phase = "refused"
    BY <2>1, PhaseChange DEF Phase
  <2>5. PICK y : y = x
    OBVIOUS
  <2> HIDE DEF x
  <2>4. Becomes(s, y)
    BY <1>1, <2>1, <2>2, <2>5 DEF Becomes
  <2>6. y = RolledBack(old)
    BY <2>5 DEF x
  <2> QED
    BY <1>0, <1>3, <2>2, <2>3, <2>4, <2>5, <2>6
<1> QED
  BY <1>2, <1>3

(* Its event has a request of its own.                                            *)
LEMMA RequestOfEvent ==
    ASSUME Typed, EventsFit, NEW s \in DOMAIN store, IsActive(s)
    PROVE  store[s].event.req \in DOMAIN reqs /\ reqs[store[s].event.req].session = s
BY DEF EventsFit, EventFits, IsActive

LEMMA ToolTimeoutEffect ==
    ASSUME Typed, EventsFit, NEW s \in DOMAIN store, ToolTimeout(s)
    PROVE  /\ \E x : /\ Becomes(s, x) /\ x.event.state # "active"
                     /\ x.cont = store[s].cont /\ x.retry = store[s].retry
           /\ \E r \in DOMAIN reqs : reqs[r].session = s /\ OnlyPhase(r)
           /\ IsActive(s)
<1>1. IsActive(s)
  BY DEF ToolTimeout, IsWaiting
<1>2. PICK r \in DOMAIN reqs : r = store[s].event.req /\ reqs[r].session = s
  BY <1>1, RequestOfEvent
<1>3. reqs' = SetPhase(r, "failed")
  BY <1>2 DEF ToolTimeout
<1>4. OnlyPhase(r)
  BY <1>3, PhaseChange DEF Phase
<1>5. \E x : /\ Becomes(s, x) /\ x.event.state = "failed"
             /\ x.cont = store[s].cont /\ x.retry = store[s].retry
  BY FailedEvent DEF ToolTimeout
<1> QED
  BY <1>1, <1>2, <1>4, <1>5

LEMMA CancelEffect ==
    ASSUME Typed, EventsFit, NEW s \in DOMAIN store, Cancel(s)
    PROVE  /\ \E x : /\ Becomes(s, x) /\ x.event.state # "active" /\ x = RolledBack(store[s])
                     /\ x.cont = store[s].cont /\ x.retry = store[s].retry
           /\ \E r \in DOMAIN reqs : reqs[r].session = s /\ OnlyPhase(r)
<1>1. IsActive(s)
  BY DEF Cancel
<1>2. PICK r \in DOMAIN reqs : r = store[s].event.req /\ reqs[r].session = s
  BY <1>1, RequestOfEvent
<1>3. OnlyPhase(r)
  <2>1. CASE IsWaiting(s)
    <3>1. reqs' = SetPhase(r, "failed")
      BY <1>2, <2>1 DEF Cancel
    <3> QED
      BY <3>1, PhaseChange DEF Phase
  <2>2. CASE ~IsWaiting(s)
    <3>1. reqs' = reqs
      BY <2>2 DEF Cancel
    <3> QED
      BY <3>1 DEF OnlyPhase, Typed
  <2> QED
    BY <2>1, <2>2
<1>4. PICK x : x = RolledBack(store[s])
  OBVIOUS
<1>5. x \in SessionType /\ x.event.state # "active" /\ x.cont = store[s].cont /\ x.retry = store[s].retry
  BY <1>4, RollBack DEF EventsFit
<1>6. Becomes(s, x)
  BY <1>4, <1>5 DEF Cancel, Becomes
<1> QED
  BY <1>2, <1>3, <1>4, <1>5, <1>6

-----------------------------------------------------------------------------
(* What the coming of a request does.                                             *)

Shrinks(old, new) == DOMAIN new \subseteq DOMAIN old /\ \A k \in DOMAIN new : new[k] = old[k]

LEMMA Shrinking ==
    ASSUME NEW map, NEW keys, NEW gone
    PROVE  Shrinks(map, map) /\ Shrinks(map, Without(map, keys)) /\ Shrinks(map, Forget(map, gone))
BY DEF Shrinks, Without, Forget, Restrict

LEMMA ShrinkingTwice ==
    ASSUME NEW map, NEW keys, NEW gone
    PROVE  Shrinks(map, Forget(Without(map, keys), gone))
BY DEF Shrinks, Without, Forget, Restrict

(* Requests and sessions are only added, and a session made is new.                *)
Grows ==
    /\ Typed'
    /\ DOMAIN reqs \subseteq DOMAIN reqs' /\ \A q \in DOMAIN reqs : reqs'[q] = reqs[q]
    /\ DOMAIN store \subseteq DOMAIN store' /\ \A s \in DOMAIN store : store'[s] = store[s]
    /\ \A s \in DOMAIN store' : s \in DOMAIN store \/ store'[s] = NewSession
    /\ Shrinks(byHash, byHash') /\ Shrinks(byTool, byTool')
    /\ UNCHANGED scenario

LEMMA NewRequest ==
    ASSUME Typed, NEW c \in Client, NEW x \in RequestType,
           reqs' = Append(reqs, x), asked' = [asked EXCEPT ![c] = Len(reqs) + 1]
    PROVE  /\ reqs' \in Seq(RequestType) /\ DOMAIN reqs \subseteq DOMAIN reqs'
           /\ \A q \in DOMAIN reqs : reqs'[q] = reqs[q]
           /\ \A q \in DOMAIN reqs' : q \in DOMAIN reqs \/ reqs'[q] = x
           /\ \A d \in Client : asked'[d] \in DOMAIN reqs' \cup {None}
           /\ asked' = [d \in Client |-> asked'[d]]
<1>1. /\ reqs' \in Seq(RequestType) /\ DOMAIN reqs \subseteq DOMAIN reqs'
      /\ \A q \in DOMAIN reqs : reqs'[q] = reqs[q]
      /\ reqs'[Len(reqs) + 1] = x /\ Len(reqs) + 1 \in DOMAIN reqs'
      /\ \A q \in DOMAIN reqs' : q \in DOMAIN reqs \/ q = Len(reqs) + 1
  BY Appended DEF Typed
<1>2. /\ asked = [d \in Client |-> asked[d]] /\ \A d \in Client : asked[d] \in DOMAIN reqs \cup {None}
  BY DEF Typed
<1>3. \A d \in Client : asked'[d] = IF d = c THEN Len(reqs) + 1 ELSE asked[d]
  BY <1>2
<1>4. asked' = [d \in Client |-> asked'[d]]
  BY <1>2
<1>5. \A d \in Client : asked'[d] \in DOMAIN reqs' \cup {None}
  BY <1>1, <1>2, <1>3
<1> QED
  BY <1>1, <1>4, <1>5

LEMMA ArriveFound ==
    ASSUME Typed, NEW c \in Client, NEW msgs \in Messages, Arrive(c, msgs),
           FoundByTool(msgs) \/ FoundByLate(msgs) \/ Continues(msgs) \/ Replays(msgs)
    PROVE  Grows
<1> DEFINE s == CASE FoundByTool(msgs) -> byTool[Users(msgs)]
                  [] FoundByLate(msgs) -> byLate[Users(msgs)]
                  [] OTHER -> byHash[Hash(msgs)]
           x == [client |-> c, msgs |-> msgs, session |-> s,
                 phase |-> IF Replays(msgs) THEN "answered" ELSE "resolved",
                 basis |-> IF Replays(msgs) THEN store[s].done ELSE <<>>]
<1>1. /\ reqs' = Append(reqs, x) /\ asked' = [asked EXCEPT ![c] = Len(reqs) + 1]
      /\ DropStale(msgs) /\ UNCHANGED <<scenario, store, live>>
      /\ view' = IF Replays(msgs) THEN [view EXCEPT ![c] = Append(msgs, Answer)] ELSE view
  BY DEF Arrive
<1>2. s \in live
  <2>1. CASE FoundByTool(msgs)
    <3>1. ~FoundByLate(msgs) /\ byTool[Users(msgs)] \in live
      BY <2>1 DEF FoundByTool, FoundByLate, Knows
    <3> QED
      BY <2>1, <3>1
  <2>2. CASE ~FoundByTool(msgs) /\ FoundByLate(msgs)
    BY <2>2 DEF FoundByLate, Knows
  <2>3. CASE ~FoundByTool(msgs) /\ ~FoundByLate(msgs)
    <3>1. FoundByHash(msgs)
      BY <2>3 DEF Continues, Replays
    <3> QED
      BY <2>3, <3>1 DEF FoundByHash, Knows
  <2> QED
    BY <2>1, <2>2, <2>3
<1> HIDE DEF s
<1>3. s \in DOMAIN store /\ store[s].done \in Messages /\ s \in Nat
  <2>1. s \in DOMAIN store
    BY <1>2 DEF Typed
  <2>2. s \in Nat
    BY <2>1, LenProperties DEF Typed
  <2> QED
    BY <2>1, <2>2, SessionAt
<1>4. x \in RequestType /\ x.session = s
  BY <1>3, MessageTypes DEF RequestType, Phase
<1> HIDE DEF x
<1>5. /\ reqs' \in Seq(RequestType) /\ DOMAIN reqs \subseteq DOMAIN reqs'
      /\ \A q \in DOMAIN reqs : reqs'[q] = reqs[q]
      /\ \A q \in DOMAIN reqs' : q \in DOMAIN reqs \/ reqs'[q] = x
      /\ \A d \in Client : asked'[d] \in DOMAIN reqs' \cup {None}
      /\ asked' = [d \in Client |-> asked'[d]]
  BY <1>1, <1>4, NewRequest
<1>6. view' \in [Client -> Messages]
  <2>1. Append(msgs, Answer) \in Messages
    BY MessageTypes, Appended DEF Messages
  <2>2. view \in [Client -> Messages]
    BY DEF Typed
  <2> QED
    BY <1>1, <2>1, <2>2
<1>7. Shrinks(byHash, byHash') /\ Shrinks(byTool, byTool')
  <2>1. /\ byTool' = byTool \/ byTool' = Without(byTool, {Users(msgs)})
        /\ byHash' = byHash \/ byHash' = Without(byHash, {Hash(msgs)})
    BY <1>1 DEF DropStale
  <2> QED
    BY <2>1, Shrinking
<1>8. Typed'
  <2>1. store' = store /\ live' = live
    BY <1>1
  <2>2. \A q \in DOMAIN reqs' : reqs'[q].session \in DOMAIN store'
    BY <1>3, <1>4, <1>5, <2>1 DEF Typed
  <2> QED
    BY <1>5, <1>6, <2>1, <2>2 DEF Typed
<1>9. store' = store /\ scenario' = scenario
  BY <1>1
<1> QED
  BY <1>5, <1>7, <1>8, <1>9 DEF Grows

LEMMA ArriveNew ==
    ASSUME Typed, NEW c \in Client, NEW msgs \in Messages, Arrive(c, msgs),
           ~(FoundByTool(msgs) \/ FoundByLate(msgs) \/ Continues(msgs) \/ Replays(msgs))
    PROVE  Grows
<1> DEFINE new == Len(store) + 1
           x == [client |-> c, msgs |-> msgs, session |-> new, phase |-> "resolved", basis |-> <<>>]
<1>1. /\ reqs' = Append(reqs, x) /\ asked' = [asked EXCEPT ![c] = Len(reqs) + 1]
      /\ CreateSession(msgs) /\ UNCHANGED <<scenario, view>>
  BY DEF Arrive
<1>2. PICK gone :
        /\ store' = Append(store, NewSession) /\ live' = (live \ gone) \cup {new}
        /\ byTool' = Forget(Without(byTool, {Users(msgs)}), gone)
        /\ byHash' = Forget(IF FoundByHash(msgs) THEN byHash ELSE Without(byHash, {Hash(msgs)}), gone)
  BY <1>1 DEF CreateSession
<1>3. /\ store' \in Seq(SessionType) /\ DOMAIN store \subseteq DOMAIN store' /\ new \in Nat
      /\ \A s \in DOMAIN store : store'[s] = store[s]
      /\ store'[new] = NewSession /\ new \in DOMAIN store'
      /\ \A s \in DOMAIN store' : s \in DOMAIN store \/ s = new
  BY <1>2, MessageTypes, Appended DEF Typed
<1> HIDE DEF new
<1>4. x \in RequestType /\ x.session = new
  BY <1>3, MessageTypes DEF RequestType, Phase
<1> HIDE DEF x
<1>5. /\ reqs' \in Seq(RequestType) /\ DOMAIN reqs \subseteq DOMAIN reqs'
      /\ \A q \in DOMAIN reqs : reqs'[q] = reqs[q]
      /\ \A q \in DOMAIN reqs' : q \in DOMAIN reqs \/ reqs'[q] = x
      /\ \A d \in Client : asked'[d] \in DOMAIN reqs' \cup {None}
      /\ asked' = [d \in Client |-> asked'[d]]
  BY <1>1, <1>4, NewRequest
<1>6. Shrinks(byHash, byHash') /\ Shrinks(byTool, byTool')
  BY <1>2, Shrinking, ShrinkingTwice
<1>7. live' \subseteq DOMAIN store'
  BY <1>2, <1>3 DEF Typed
<1>8. \A q \in DOMAIN reqs' : reqs'[q].session \in DOMAIN store'
  BY <1>3, <1>4, <1>5 DEF Typed
<1>9. Typed'
  BY <1>1, <1>3, <1>5, <1>7, <1>8 DEF Typed
<1>10. scenario' = scenario
  BY <1>1
<1> QED
  BY <1>3, <1>5, <1>6, <1>9, <1>10 DEF Grows

LEMMA Arriving ==
    ASSUME Typed, NEW c \in Client, NEW msgs \in Messages, Arrive(c, msgs)
    PROVE  Grows
BY ArriveFound, ArriveNew

LEMMA ClientStep ==
    ASSUME Typed, NEW c \in Client,
           (\E t \in Text : Say(c, t) \/ Begin(c, t)) \/ Retry(c) \/ RespondTool(c)
    PROVE  Grows
<1>1. view[c] \in Messages
  BY DEF Typed
<1>2. ASSUME NEW t \in Text, Say(c, t) PROVE Grows
  <2>1. Append(view[c], User(t)) \in Messages
    BY <1>1, MessageTypes, Appended DEF Messages
  <2> QED
    BY <1>2, <2>1, Arriving DEF Say
<1>3. ASSUME NEW t \in Text, Begin(c, t) PROVE Grows
  <2>1. <<User(t)>> \in Messages
    BY MessageTypes DEF Messages
  <2> QED
    BY <1>3, <2>1, Arriving DEF Begin
<1>4. CASE Retry(c)
  <2>1. asked[c] \in DOMAIN reqs
    BY <1>4 DEF Retry, Typed
  <2>2. reqs[asked[c]].msgs \in Messages
    BY <2>1, RequestAt
  <2> QED
    BY <1>4, <2>2, Arriving DEF Retry
<1>5. CASE RespondTool(c)
  <2>1. Append(view[c], ToolResponse) \in Messages
    BY <1>1, MessageTypes, Appended DEF Messages
  <2> QED
    BY <1>5, <2>1, Arriving DEF RespondTool
<1> QED
  BY <1>2, <1>3, <1>4, <1>5

LEMMA DeleteStep ==
    ASSUME Typed, NEW s \in DOMAIN store, Delete(s)
    PROVE  Grows
<1>1. /\ UNCHANGED <<scenario, view, asked, reqs, store>> /\ live' = live \ {s}
      /\ byHash' = Forget(byHash, {s}) /\ byTool' = Forget(byTool, {s})
  BY DEF Delete
<1>2. Typed'
  BY <1>1 DEF Typed
<1>3. Shrinks(byHash, byHash') /\ Shrinks(byTool, byTool')
  BY <1>1, Shrinking
<1> QED
  BY <1>1, <1>2, <1>3 DEF Grows

LEMMA QuietStep ==
    ASSUME Typed, ForgetLate \/ UNCHANGED vars
    PROVE  Grows
<1>1. UNCHANGED <<scenario, view, asked, reqs, store, live, byHash, byTool>>
  BY DEF ForgetLate, vars
<1>2. Typed'
  BY <1>1 DEF Typed
<1>3. Shrinks(byHash, byHash') /\ Shrinks(byTool, byTool')
  BY <1>1, Shrinking
<1> QED
  BY <1>1, <1>2, <1>3 DEF Grows

-----------------------------------------------------------------------------
(* The invariant.                                                                 *)

(* An entry of the hash map names a session, and is where that goes on from or    *)
(* where its last turn began: the entries of a session that it leaves behind go   *)
(* in the step that leaves them.                                                  *)
HashKeys ==
    \A h \in DOMAIN byHash :
      byHash[h] \in DOMAIN store /\ h \in {store[byHash[h]].cont, store[byHash[h]].retry}

(* An entry of the tool map is the key of the event its session has open, so a    *)
(* session has one at most, and the step that ends the event finds it.             *)
ToolKey(k, session) ==
    /\ session.event.state = "active" /\ session.event.tool
    /\ k = EventUsers(session)

ToolKeys ==
    Env \cap {"fail", "cancel"} = {} =>
      \A k \in DOMAIN byTool : byTool[k] \in DOMAIN store /\ ToolKey(k, store[byTool[k]])

Inv == Typed /\ EventsFit /\ HashKeys /\ ToolKeys

(* What the event of a session must be after a step that makes x of it.           *)
FitsNext(s, x) ==
    x.event.state = "active" =>
      /\ x.event.req \in DOMAIN reqs /\ reqs[x.event.req].session = s
      /\ x.event.from \in 1 .. Len(x.msgs) + 1
      /\ x.event.tool /\ reqs'[x.event.req].phase = "running" =>
           Len(x.msgs) >= x.event.from /\ Last(x.msgs) = ToolResponse

LEMMA TurnEvents ==
    ASSUME Typed, EventsFit, NEW r \in DOMAIN reqs, NEW s, NEW x, reqs[r].session = s,
           Becomes(s, x), OnlyPhase(r), FitsNext(s, x)
    PROVE  EventsFit'
<1>1. /\ DOMAIN store' = DOMAIN store /\ store'[s] = x
      /\ \A q \in DOMAIN store : q # s => store'[q] = store[q]
  BY BecomesStore
<1>2. DOMAIN reqs' = DOMAIN reqs /\ \A q \in DOMAIN reqs : reqs'[q].session = reqs[q].session
  BY DEF OnlyPhase
<1>3. ASSUME NEW q \in DOMAIN store PROVE EventFits(q)'
  <2>1. CASE q = s
    BY <1>1, <1>2, <2>1 DEF EventFits, FitsNext
  <2>2. CASE q # s
    <3>1. store'[q] = store[q] /\ EventFits(q)
      BY <1>1, <2>2 DEF EventsFit
    <3>2. ASSUME store[q].event.state = "active"
          PROVE  /\ store[q].event.req \in DOMAIN reqs /\ store[q].event.req # r
                 /\ reqs'[store[q].event.req].phase = reqs[store[q].event.req].phase
      BY <2>2, <3>1, <3>2 DEF EventFits, OnlyPhase
    <3> QED
      BY <1>2, <3>1, <3>2 DEF EventFits
  <2> QED
    BY <2>1, <2>2
<1> QED
  BY <1>1, <1>3 DEF EventsFit

LEMMA TurnTyped ==
    ASSUME Typed, NEW r, NEW s, NEW x, Becomes(s, x), OnlyPhase(r),
           view' \in [Client -> Messages], UNCHANGED <<asked, live>>
    PROVE  Typed'
<1>1. store' \in Seq(SessionType) /\ DOMAIN store' = DOMAIN store
  BY BecomesStore
<1>2. /\ reqs' \in Seq(RequestType) /\ DOMAIN reqs' = DOMAIN reqs
      /\ \A q \in DOMAIN reqs : reqs'[q].session = reqs[q].session
  BY DEF OnlyPhase
<1>3. \A q \in DOMAIN reqs' : reqs'[q].session \in DOMAIN store'
  BY <1>1, <1>2 DEF Typed
<1> QED
  BY <1>1, <1>2, <1>3 DEF Typed

LEMMA TurnHashes ==
    ASSUME Typed, HashKeys, NEW s, NEW x, Becomes(s, x), byHash' = byHash,
           x.cont = store[s].cont, x.retry = store[s].retry
    PROVE  HashKeys'
<1>1. /\ DOMAIN store' = DOMAIN store /\ store'[s] = x
      /\ \A q \in DOMAIN store : q # s => store'[q] = store[q]
  BY BecomesStore
<1> QED
  BY <1>1 DEF HashKeys

LEMMA TurnTools ==
    ASSUME Typed, ToolKeys, NEW s, NEW x, Becomes(s, x), scenario' = scenario,
           Shrinks(byTool, byTool'),
           Env \cap {"fail", "cancel"} = {} =>
             \A k \in DOMAIN byTool' : byTool[k] = s => ToolKey(k, x)
    PROVE  ToolKeys'
<1>1. /\ DOMAIN store' = DOMAIN store /\ store'[s] = x
      /\ \A q \in DOMAIN store : q # s => store'[q] = store[q]
  BY BecomesStore
<1>2. Env' = Env
  BY DEF Env
<1>3. ASSUME Env \cap {"fail", "cancel"} = {}, NEW k \in DOMAIN byTool'
      PROVE  byTool'[k] \in DOMAIN store' /\ ToolKey(k, store'[byTool'[k]])
  <2>1. k \in DOMAIN byTool /\ byTool'[k] = byTool[k]
    BY DEF Shrinks
  <2>2. byTool[k] \in DOMAIN store /\ ToolKey(k, store[byTool[k]])
    BY <1>3, <2>1 DEF ToolKeys
  <2>3. CASE byTool[k] = s
    BY <1>1, <1>3, <2>1, <2>2, <2>3
  <2>4. CASE byTool[k] # s
    BY <1>1, <2>1, <2>2, <2>4
  <2> QED
    BY <2>3, <2>4
<1> QED
  BY <1>2, <1>3 DEF ToolKeys

(* No key leads to a session that has no tool call open.                          *)
LEMMA NoToolKey ==
    ASSUME ToolKeys, NEW s, ~(IsActive(s) /\ store[s].event.tool), Env \cap {"fail", "cancel"} = {}
    PROVE  \A k \in DOMAIN byTool : byTool[k] # s
BY DEF ToolKeys, ToolKey, IsActive

LEMMA EventUsersKept ==
    ASSUME NEW x, NEW y, x.msgs \in Messages, y.msgs \in Messages,
           x.event.from = y.event.from, Len(y.msgs) = Len(x.msgs) + 1,
           \A i \in 1 .. Len(x.msgs) : y.msgs[i] = x.msgs[i],
           y.msgs[Len(y.msgs)].role # "user",
           x.event.from \in 1 .. Len(x.msgs) + 1
    PROVE  EventUsers(y) = EventUsers(x)
BY UsersFromKept DEF EventUsers

LEMMA EventUsersAppended ==
    ASSUME NEW x, NEW y, NEW m \in Message, m.role # "user", x.msgs \in Messages,
           y.msgs = Append(x.msgs, m), x.event.from = y.event.from,
           x.event.from \in 1 .. Len(x.msgs) + 1
    PROVE  EventUsers(y) = EventUsers(x)
<1>1. /\ y.msgs \in Messages /\ Len(y.msgs) = Len(x.msgs) + 1
      /\ \A i \in DOMAIN x.msgs : y.msgs[i] = x.msgs[i]
      /\ DOMAIN x.msgs = 1 .. Len(x.msgs) /\ y.msgs[Len(x.msgs) + 1] = m
  BY Appended DEF Messages
<1> QED
  BY <1>1, EventUsersKept

-----------------------------------------------------------------------------
(* The steps.                                                                     *)

LEMMA GrowsStep ==
    ASSUME Inv, Grows
    PROVE  Inv'
<1> USE DEF Inv, Grows
<1>1. Typed'
  OBVIOUS
<1>2. EventsFit'
  <2>1. ASSUME NEW s \in DOMAIN store' PROVE EventFits(s)'
    <3>1. CASE s \in DOMAIN store
      <4>1. store'[s] = store[s] /\ EventFits(s)
        BY <3>1 DEF EventsFit
      <4> QED
        BY <4>1 DEF EventFits
    <3>2. CASE store'[s] = NewSession
      BY <3>2 DEF EventFits, NewSession, NoEvent
    <3> QED
      BY <3>1, <3>2
  <2> QED
    BY <2>1 DEF EventsFit
<1>3. HashKeys'
  BY DEF HashKeys, Shrinks
<1>4. ToolKeys'
  <2>1. Env' = Env
    BY DEF Env
  <2> QED
    BY <2>1 DEF ToolKeys, Shrinks
<1> QED
  BY <1>1, <1>2, <1>3, <1>4

LEMMA ViewSeen ==
    ASSUME Typed, NEW r \in DOMAIN reqs, NEW msgs \in Messages, Sees(r, msgs)
    PROVE  view' \in [Client -> Messages]
BY DEF Sees, Typed

LEMMA RefuseStep ==
    ASSUME Inv, NEW r \in DOMAIN reqs, Refuse(r)
    PROVE  Inv'
<1>1. UNCHANGED <<scenario, view, asked, store, live, byHash, byTool>> /\ reqs' = SetPhase(r, "refused")
  BY DEF Refuse
<1>2. OnlyPhase(r) /\ reqs'[r].phase = "refused"
  BY <1>1, PhaseChange DEF Inv, Phase
<1>3. Typed'
  BY <1>1, <1>2 DEF Inv, Typed, OnlyPhase
<1>4. EventsFit'
  <2>1. ASSUME NEW s \in DOMAIN store PROVE EventFits(s)'
    <3>1. EventFits(s)
      BY DEF Inv, EventsFit
    <3> QED
      BY <1>1, <1>2, <3>1 DEF EventFits, OnlyPhase
  <2> QED
    BY <1>1, <2>1 DEF EventsFit
<1>5. HashKeys'
  BY <1>1 DEF Inv, HashKeys
<1>6. ToolKeys'
  BY <1>1 DEF Inv, ToolKeys, Env
<1> QED
  BY <1>3, <1>4, <1>5, <1>6 DEF Inv

LEMMA TakeToolStep ==
    ASSUME Inv, NEW r \in DOMAIN reqs, TakeTool(r)
    PROVE  Inv'
<1>1. PICK s \in DOMAIN store : s = reqs[r].session
  BY RequestAt DEF Inv
<1>2. /\ UNCHANGED <<scenario, view, asked, live, byHash, byTool>>
      /\ IsActive(s) /\ store[s].event.tool /\ OnlyPhase(r) /\ reqs'[r].phase = "running"
  BY <1>1, TakeToolEffect DEF Inv, TakeTool
<1>3. PICK x : /\ Becomes(s, x)
               /\ x.msgs = Append(store[s].msgs, ToolResponse)
               /\ x.event = [store[s].event EXCEPT !.req = r]
               /\ x.cont = store[s].cont /\ x.retry = store[s].retry
  BY <1>1, TakeToolEffect DEF Inv
<1>4. /\ store[s].msgs \in Messages /\ Len(store[s].msgs) \in Nat
      /\ store[s].event \in EventType /\ store[s].event.from \in 1 .. Len(store[s].msgs) + 1
  BY <1>2, SessionAt DEF Inv, EventsFit, EventFits, IsActive
<1>5. /\ x.event.req = r /\ x.event.from = store[s].event.from
      /\ x.event.state = "active" /\ x.event.tool
  BY <1>2, <1>3, <1>4 DEF EventType, IsActive
<1>6. Len(x.msgs) = Len(store[s].msgs) + 1 /\ Last(x.msgs) = ToolResponse
  BY <1>3, <1>4, MessageTypes, Appended DEF Messages, Last
<1>7. FitsNext(s, x)
  BY <1>1, <1>4, <1>5, <1>6 DEF FitsNext
<1>8. EventUsers(x) = EventUsers(store[s])
  <2>1. ToolResponse \in Message /\ ToolResponse.role # "user"
    BY MessageTypes
  <2> QED
    BY <1>3, <1>4, <1>5, <2>1, EventUsersAppended
<1>9. Typed' /\ EventsFit'
  BY <1>1, <1>2, <1>3, <1>7, TurnTyped, TurnEvents DEF Inv, Typed
<1>10. HashKeys'
  BY <1>2, <1>3, TurnHashes DEF Inv
<1>11. ToolKeys'
  <2>1. ASSUME Env \cap {"fail", "cancel"} = {}, NEW k \in DOMAIN byTool', byTool[k] = s
        PROVE  ToolKey(k, x)
    BY <1>2, <1>5, <1>8, <2>1 DEF Inv, ToolKeys, ToolKey
  <2> QED
    BY <1>2, <1>3, <2>1, Shrinking, TurnTools DEF Inv
<1> QED
  BY <1>9, <1>10, <1>11 DEF Inv

LEMMA TakeStep ==
    ASSUME Inv, NEW r \in DOMAIN reqs, Take(r)
    PROVE  Inv'
<1>1. PICK s \in DOMAIN store : s = reqs[r].session
  BY RequestAt DEF Inv
<1>2. /\ UNCHANGED <<scenario, view, asked, live, byHash, byTool>>
      /\ ~(IsActive(s) /\ store[s].event.tool) /\ OnlyPhase(r)
  BY <1>1, TakeEffect DEF Inv, Take
<1>3. PICK x : /\ Becomes(s, x)
               /\ \/ x.event.state # "active" /\ x = Base(r) /\ x = RolledBack(store[s])
                     /\ reqs'[r].phase = "nothing new"
                  \/ LET new == NewMessages(reqs[r].msgs, Base(r)) IN
                     /\ x.event = [state |-> "active", req |-> r, tool |-> FALSE,
                                   from |-> Len(Base(r).msgs) + 1]
                     /\ x.event.from \in 1 .. Len(x.msgs) + 1
                     /\ new # <<>> /\ x.msgs = Base(r).msgs \o new
                     /\ reqs'[r].phase = "running"
               /\ x.cont = store[s].cont /\ x.retry = store[s].retry
  BY <1>1, TakeEffect DEF Inv
<1>4. FitsNext(s, x)
  BY <1>1, <1>3 DEF FitsNext
<1>5. Typed' /\ EventsFit'
  BY <1>1, <1>2, <1>3, <1>4, TurnTyped, TurnEvents DEF Inv, Typed
<1>6. HashKeys'
  BY <1>2, <1>3, TurnHashes DEF Inv
<1>7. ToolKeys'
  <2>1. Env \cap {"fail", "cancel"} = {} => \A k \in DOMAIN byTool' : byTool[k] = s => ToolKey(k, x)
    BY <1>2, NoToolKey DEF Inv
  <2> QED
    BY <1>2, <1>3, <2>1, Shrinking, TurnTools DEF Inv
<1> QED
  BY <1>5, <1>6, <1>7 DEF Inv

LEMMA CallToolStep ==
    ASSUME Inv, NEW r \in DOMAIN reqs, CallTool(r)
    PROVE  Inv'
<1>1. PICK s \in DOMAIN store : s = reqs[r].session
  BY RequestAt DEF Inv
<1>2. /\ UNCHANGED <<scenario, asked, live, byHash>> /\ IsCurrent(r)
      /\ OnlyPhase(r) /\ reqs'[r].phase = "called"
      /\ byTool' = Put(byTool, EventUsers(store[s]), s)
      /\ Sees(r, Append(reqs[r].msgs, ToolCall(r)))
  BY <1>1, CallToolEffect DEF Inv, CallTool
<1>3. PICK x : /\ Becomes(s, x)
               /\ x.msgs = Append(store[s].msgs, ToolCall(r))
               /\ x.event = [store[s].event EXCEPT !.tool = TRUE]
               /\ x.cont = store[s].cont /\ x.retry = store[s].retry
  BY <1>1, CallToolEffect DEF Inv
<1>4. /\ store[s].msgs \in Messages /\ Len(store[s].msgs) \in Nat /\ r \in Nat
      /\ store[s].event \in EventType /\ store[s].event.from \in 1 .. Len(store[s].msgs) + 1
      /\ store[s].event.state = "active" /\ store[s].event.req = r
  BY <1>1, <1>2, CurrentEvent DEF Inv
<1>5. /\ x.event.req = r /\ x.event.from = store[s].event.from
      /\ x.event.state = "active" /\ x.event.tool
  BY <1>3, <1>4 DEF EventType
<1>6. ToolCall(r) \in Message /\ ToolCall(r).role # "user"
  BY <1>4, MessageTypes
<1>7. Len(x.msgs) = Len(store[s].msgs) + 1
  BY <1>3, <1>4, <1>6, Appended DEF Messages
<1>8. FitsNext(s, x)
  BY <1>1, <1>2, <1>4, <1>5, <1>7 DEF FitsNext
<1>9. EventUsers(x) = EventUsers(store[s])
  BY <1>3, <1>4, <1>5, <1>6, EventUsersAppended
<1>10. view' \in [Client -> Messages]
  <2>1. reqs[r].msgs \in Messages
    BY RequestAt DEF Inv
  <2>2. Append(reqs[r].msgs, ToolCall(r)) \in Messages
    BY <1>6, <2>1, Appended DEF Messages
  <2> QED
    BY <1>2, <2>2, ViewSeen DEF Inv
<1>11. Typed' /\ EventsFit'
  BY <1>1, <1>2, <1>3, <1>8, <1>10, TurnTyped, TurnEvents DEF Inv
<1>12. HashKeys'
  BY <1>2, <1>3, TurnHashes DEF Inv
<1>13. ToolKeys'
  <2>1. /\ DOMAIN store' = DOMAIN store /\ store'[s] = x
        /\ \A q \in DOMAIN store : q # s => store'[q] = store[q]
    BY <1>3, BecomesStore DEF Inv
  <2>2. Env' = Env
    BY <1>2 DEF Env
  <2>3. ToolKey(EventUsers(store[s]), x)
    BY <1>5, <1>9 DEF ToolKey
  <2>4. ASSUME Env \cap {"fail", "cancel"} = {}, NEW k \in DOMAIN byTool'
        PROVE  byTool'[k] \in DOMAIN store' /\ ToolKey(k, store'[byTool'[k]])
    <3>1. CASE k = EventUsers(store[s])
      <4>1. byTool'[k] = s
        BY <1>2, <3>1 DEF Put
      <4> QED
        BY <2>1, <2>3, <3>1, <4>1
    <3>2. CASE k # EventUsers(store[s])
      <4>1. k \in DOMAIN byTool /\ byTool'[k] = byTool[k]
        BY <1>2, <3>2 DEF Put
      <4>2. byTool[k] \in DOMAIN store /\ ToolKey(k, store[byTool[k]])
        BY <2>4, <4>1 DEF Inv, ToolKeys
      <4>3. byTool[k] # s
        BY <3>2, <4>2 DEF ToolKey
      <4> QED
        BY <2>1, <4>1, <4>2, <4>3
    <3> QED
      BY <3>1, <3>2
  <2> QED
    BY <2>2, <2>4 DEF ToolKeys
<1> QED
  BY <1>11, <1>12, <1>13 DEF Inv

LEMMA FinishStep ==
    ASSUME Inv, NEW r \in DOMAIN reqs, Finish(r)
    PROVE  Inv'
<1>1. PICK s \in DOMAIN store : s = reqs[r].session
  BY RequestAt DEF Inv
<1>2. /\ UNCHANGED <<scenario, asked, live>> /\ IsCurrent(r) /\ OnlyPhase(r)
      /\ byTool' = IF store[s].event.tool THEN Without(byTool, {EventUsers(store[s])}) ELSE byTool
      /\ byHash' = Rehash(s, store[s], Hash(Append(store[s].msgs, Answer)))
      /\ Sees(r, Append(reqs[r].msgs, Answer))
  BY <1>1, FinishEffect DEF Inv, Finish
<1>3. PICK x : /\ Becomes(s, x) /\ x.event.state = "completed"
               /\ x.cont = Hash(Append(store[s].msgs, Answer)) /\ x.retry = store[s].cont
  BY <1>1, FinishEffect DEF Inv
<1>4. FitsNext(s, x)
  BY <1>3 DEF FitsNext
<1>5. view' \in [Client -> Messages]
  <2>1. reqs[r].msgs \in Messages
    BY RequestAt DEF Inv
  <2>2. Append(reqs[r].msgs, Answer) \in Messages
    BY <2>1, MessageTypes, Appended DEF Messages
  <2> QED
    BY <1>2, <2>2, ViewSeen DEF Inv
<1>6. Typed' /\ EventsFit'
  BY <1>1, <1>2, <1>3, <1>4, <1>5, TurnTyped, TurnEvents DEF Inv
<1>7. /\ DOMAIN store' = DOMAIN store /\ store'[s] = x
      /\ \A q \in DOMAIN store : q # s => store'[q] = store[q]
  BY <1>3, BecomesStore DEF Inv
<1>8. HashKeys'
  <2> DEFINE old == store[s]
             full == Hash(Append(store[s].msgs, Answer))
             mine == {h \in {old.retry, old.cont} : h \in DOMAIN byHash /\ byHash[h] = s}
             add == {h \in {old.cont, full} : h # {}}
             rest == Without(byHash, mine)
  <2>1. byHash' = [h \in DOMAIN rest \cup add |-> IF h \in add THEN s ELSE rest[h]]
    BY <1>2 DEF Rehash
  <2>2. DOMAIN rest = DOMAIN byHash \ mine /\ \A h \in DOMAIN rest : rest[h] = byHash[h]
    BY DEF Without, Restrict
  <2>3. x.cont = full /\ x.retry = old.cont
    BY <1>3
  <2> HIDE DEF full, rest
  <2>4. ASSUME NEW h \in DOMAIN byHash'
        PROVE  byHash'[h] \in DOMAIN store' /\ h \in {store'[byHash'[h]].cont, store'[byHash'[h]].retry}
    <3>1. CASE h \in add
      BY <1>7, <2>1, <2>3, <3>1
    <3>2. CASE h \notin add
      <4>1. h \in DOMAIN byHash /\ h \notin mine /\ byHash'[h] = byHash[h]
        BY <2>1, <2>2, <3>2
      <4>2. byHash[h] \in DOMAIN store /\ h \in {store[byHash[h]].cont, store[byHash[h]].retry}
        BY <4>1 DEF Inv, HashKeys
      <4>3. byHash[h] # s
        BY <4>1, <4>2
      <4> QED
        BY <1>7, <4>1, <4>2, <4>3
    <3> QED
      BY <3>1, <3>2
  <2> QED
    BY <2>4 DEF HashKeys
<1>9. ToolKeys'
  <2>1. Shrinks(byTool, byTool')
    BY <1>2, Shrinking
  <2>2. ASSUME Env \cap {"fail", "cancel"} = {}, NEW k \in DOMAIN byTool', byTool[k] = s
        PROVE  FALSE
    <3>1. k \in DOMAIN byTool
      BY <2>1 DEF Shrinks
    <3>2. ToolKey(k, store[s])
      BY <2>2, <3>1 DEF Inv, ToolKeys
    <3>3. byTool' = Without(byTool, {k})
      BY <1>2, <3>2 DEF ToolKey
    <3> QED
      BY <3>3 DEF Without, Restrict
  <2> QED
    BY <1>2, <1>3, <2>1, <2>2, TurnTools DEF Inv
<1> QED
  BY <1>6, <1>8, <1>9 DEF Inv

LEMMA FailStep ==
    ASSUME Inv, NEW r \in DOMAIN reqs, Fail(r)
    PROVE  Inv'
<1>1. PICK s \in DOMAIN store : s = reqs[r].session
  BY RequestAt DEF Inv
<1>2. /\ UNCHANGED <<scenario, view, asked, live, byHash, byTool>> /\ OnlyPhase(r)
      /\ "fail" \notin Env => store' = store
  BY FailEffect DEF Inv, Fail
<1>3. PICK x : /\ Becomes(s, x)
               /\ x.event.state # "active" \/ (x = store[s] /\ ~IsCurrent(r))
               /\ x.cont = store[s].cont /\ x.retry = store[s].retry
  BY <1>1, FailEffect DEF Inv
<1>4. FitsNext(s, x)
  <2>1. CASE x.event.state # "active"
    BY <2>1 DEF FitsNext
  <2>2. CASE x = store[s] /\ ~IsCurrent(r) /\ x.event.state = "active"
    <3>1. EventFits(s) /\ x.event.req # r
      BY <1>1, <2>2 DEF Inv, EventsFit, IsCurrent
    <3> QED
      BY <1>2, <2>2, <3>1 DEF FitsNext, EventFits, OnlyPhase
  <2> QED
    BY <1>3, <2>1, <2>2
<1>5. Typed' /\ EventsFit'
  BY <1>1, <1>2, <1>3, <1>4, TurnTyped, TurnEvents DEF Inv, Typed
<1>6. HashKeys'
  BY <1>2, <1>3, TurnHashes DEF Inv
<1>7. ToolKeys'
  BY <1>2 DEF Inv, ToolKeys, Env
<1> QED
  BY <1>5, <1>6, <1>7 DEF Inv

LEMMA PreflightStep ==
    ASSUME Inv, NEW r \in DOMAIN reqs, Preflight(r)
    PROVE  Inv'
<1>1. PICK s \in DOMAIN store : s = reqs[r].session
  BY RequestAt DEF Inv
<1>2. UNCHANGED <<scenario, view, asked, live, byHash, byTool>> /\ OnlyPhase(r) /\ IsCurrent(r)
  BY PreflightEffect DEF Inv, Preflight
<1>3. PICK x : /\ Becomes(s, x)
               /\ \/ ~store[s].event.tool /\ x.event.state # "active"
                  \/ /\ x.event = store[s].event
                     /\ Len(store[s].msgs) = Len(x.msgs) + 1
                     /\ \A i \in 1 .. Len(x.msgs) : store[s].msgs[i] = x.msgs[i]
                     /\ Last(store[s].msgs) = ToolResponse
                     /\ x.event.from \in 1 .. Len(x.msgs) + 1
                     /\ reqs'[r].phase = "called"
               /\ x.cont = store[s].cont /\ x.retry = store[s].retry
  BY <1>1, PreflightEffect DEF Inv
<1>4. store[s].event.state = "active" /\ store[s].event.req = r /\ store[s].msgs \in Messages
  BY <1>1, <1>2, CurrentEvent DEF Inv
<1>5. x.msgs \in Messages
  BY <1>3 DEF Becomes, SessionType
<1>6. FitsNext(s, x)
  BY <1>1, <1>3, <1>4 DEF FitsNext
<1>7. Typed' /\ EventsFit'
  BY <1>1, <1>2, <1>3, <1>6, TurnTyped, TurnEvents DEF Inv, Typed
<1>8. HashKeys'
  BY <1>2, <1>3, TurnHashes DEF Inv
<1>9. ToolKeys'
  <2>1. ASSUME Env \cap {"fail", "cancel"} = {}, NEW k \in DOMAIN byTool', byTool[k] = s
        PROVE  ToolKey(k, x)
    <3>1. ToolKey(k, store[s])
      BY <1>2, <2>1 DEF Inv, ToolKeys
    <3>2. store[s].event.tool /\ x.event = store[s].event
      BY <1>3, <3>1 DEF ToolKey
    <3>3. store[s].msgs[Len(store[s].msgs)].role # "user"
      BY <1>3, <3>2, MessageTypes DEF Last
    <3>4. EventUsers(store[s]) = EventUsers(x)
      <4>1. /\ Len(store[s].msgs) = Len(x.msgs) + 1 /\ x.event.from \in 1 .. Len(x.msgs) + 1
            /\ \A i \in 1 .. Len(x.msgs) : store[s].msgs[i] = x.msgs[i]
            /\ x.event.from = store[s].event.from
        BY <1>3, <3>2
      <4> QED
        BY <1>4, <1>5, <3>3, <4>1, EventUsersKept
    <3> QED
      BY <1>4, <3>1, <3>2, <3>4 DEF ToolKey
  <2> QED
    BY <1>2, <1>3, <2>1, Shrinking, TurnTools DEF Inv
<1> QED
  BY <1>7, <1>8, <1>9 DEF Inv

LEMMA ToolTimeoutStep ==
    ASSUME Inv, NEW s \in DOMAIN store, ToolTimeout(s)
    PROVE  Inv'
<1>1. /\ UNCHANGED <<scenario, view, asked, live, byHash>>
      /\ byTool' = Without(byTool, {EventUsers(store[s])})
  BY DEF ToolTimeout
<1>2. PICK r \in DOMAIN reqs : reqs[r].session = s /\ OnlyPhase(r)
  BY ToolTimeoutEffect DEF Inv
<1>3. PICK x : /\ Becomes(s, x) /\ x.event.state # "active"
               /\ x.cont = store[s].cont /\ x.retry = store[s].retry
  BY ToolTimeoutEffect DEF Inv
<1>4. FitsNext(s, x)
  BY <1>3 DEF FitsNext
<1>5. Typed' /\ EventsFit'
  BY <1>1, <1>2, <1>3, <1>4, TurnTyped, TurnEvents DEF Inv, Typed
<1>6. HashKeys'
  BY <1>1, <1>3, TurnHashes DEF Inv
<1>7. ToolKeys'
  <2>1. Shrinks(byTool, byTool')
    BY <1>1, Shrinking
  <2>2. ASSUME Env \cap {"fail", "cancel"} = {}, NEW k \in DOMAIN byTool', byTool[k] = s
        PROVE  FALSE
    <3>1. k \in DOMAIN byTool /\ k # EventUsers(store[s])
      BY <1>1 DEF Without, Restrict
    <3> QED
      BY <2>2, <3>1 DEF Inv, ToolKeys, ToolKey
  <2> QED
    BY <1>1, <1>3, <2>1, <2>2, TurnTools DEF Inv
<1> QED
  BY <1>5, <1>6, <1>7 DEF Inv

LEMMA CancelStep ==
    ASSUME Inv, NEW s \in DOMAIN store, Cancel(s)
    PROVE  Inv'
<1>1. UNCHANGED <<scenario, view, asked, live, byHash, byTool>> /\ "cancel" \in Env
  BY DEF Cancel
<1>2. PICK r \in DOMAIN reqs : reqs[r].session = s /\ OnlyPhase(r)
  BY CancelEffect DEF Inv
<1>3. PICK x : /\ Becomes(s, x) /\ x.event.state # "active"
               /\ x.cont = store[s].cont /\ x.retry = store[s].retry
  BY CancelEffect DEF Inv
<1>4. FitsNext(s, x)
  BY <1>3 DEF FitsNext
<1>5. Typed' /\ EventsFit'
  BY <1>1, <1>2, <1>3, <1>4, TurnTyped, TurnEvents DEF Inv, Typed
<1>6. HashKeys'
  BY <1>1, <1>3, TurnHashes DEF Inv
<1>7. ToolKeys'
  BY <1>1 DEF ToolKeys, Env
<1> QED
  BY <1>5, <1>6, <1>7 DEF Inv

LEMMA InitInv == Init => Inv
<1> SUFFICES ASSUME Init PROVE Inv
  OBVIOUS
<1> USE DEF Init
<1>1. DOMAIN reqs = {} /\ DOMAIN store = {} /\ DOMAIN byHash = {} /\ DOMAIN byTool = {}
  OBVIOUS
<1>2. Typed
  BY <1>1, MessageTypes DEF Typed
<1>3. EventsFit /\ HashKeys /\ ToolKeys
  BY <1>1 DEF EventsFit, HashKeys, ToolKeys
<1> QED
  BY <1>2, <1>3 DEF Inv

LEMMA NextInv == Inv /\ [Next]_vars => Inv'
<1> SUFFICES ASSUME Inv, [Next]_vars PROVE Inv'
  OBVIOUS
<1>1. ASSUME NEW c \in Client,
             (\E t \in Text : Say(c, t) \/ Begin(c, t)) \/ Retry(c) \/ RespondTool(c)
      PROVE  Inv'
  BY <1>1, ClientStep, GrowsStep DEF Inv
<1>2. ASSUME NEW r \in DOMAIN reqs,
             \/ Refuse(r) \/ TakeTool(r) \/ Take(r) \/ CallTool(r) \/ Finish(r) \/ Fail(r) \/ Preflight(r)
      PROVE  Inv'
  BY <1>2, RefuseStep, TakeToolStep, TakeStep, CallToolStep, FinishStep, FailStep, PreflightStep
<1>3. ASSUME NEW s \in DOMAIN store, ToolTimeout(s) \/ Cancel(s)
      PROVE  Inv'
  BY <1>3, ToolTimeoutStep, CancelStep
<1>4. ASSUME NEW s \in DOMAIN store, Delete(s) PROVE Inv'
  BY <1>4, DeleteStep, GrowsStep DEF Inv
<1>5. CASE ForgetLate \/ UNCHANGED vars
  BY <1>5, QuietStep, GrowsStep DEF Inv
<1> QED
  BY <1>1, <1>2, <1>3, <1>4, <1>5 DEF Next

-----------------------------------------------------------------------------
(* The events, the hash map and the tool map keep the invariant: every action of  *)
(* session_manager.py and of the handler re-establishes it.                       *)
THEOREM SessionsConsistent == Spec => []Inv
<1>1. Init => Inv
  BY InitInv
<1>2. Inv /\ [Next]_vars => Inv'
  BY NextInv
<1> QED
  BY <1>1, <1>2, PTL DEF Spec

(* find_or_create_session is never led by _hash_to_session to a session that       *)
(* neither goes on from that hash nor has its last turn begun there.              *)
THEOREM HashesLeadHolds == Spec => []HashesLead
<1>1. Inv => HashesLead
  BY DEF Inv, HashKeys, HashesLead
<1> QED
  BY <1>1, SessionsConsistent, PTL

(* An entry of _tool_calling_map leads to a session with that tool call open,      *)
(* where no turn fails and nobody cancels.                                        *)
THEOREM ToolsLeadHolds == Spec => []ToolsLead
<1>1. Inv => ToolsLead
  BY DEF Inv, ToolKeys, ToolKey, ToolsLead, IsActive
<1> QED
  BY <1>1, SessionsConsistent, PTL

-----------------------------------------------------------------------------
(* The sessions in the order of their last activity.                              *)

(* _sessions, each once in that order, and never more than MAX_SESSIONS.          *)
Recency ==
    /\ recent \in Seq(Nat) /\ IsInjective(recent)
    /\ ToSet(recent) = live /\ Len(recent) <= MaxSessions

Bounded ==
    /\ scenario \in Scenarios
    /\ Len(reqs) <= scenario.requests /\ Len(store) <= Cardinality(Session)

LEMMA ScenarioType ==
    ASSUME Bounded
    PROVE  /\ MaxSessions \in Nat \ {0} /\ scenario.requests \in Nat
           /\ scenario.requests <= Cardinality(Request)
           /\ Cardinality(Request) \in Nat /\ Cardinality(Session) \in Nat
<1>1. scenario \in Scenario
  BY SessionAssumption DEF Bounded
<1>2. MaxSessions \in Nat \ {0} /\ scenario.requests \in Nat
  BY <1>1 DEF Scenario, MaxSessions
<1>3. scenario.requests <= Cardinality(Request)
  BY SessionAssumption DEF Bounded
<1>4. Cardinality(Request) \in Nat /\ Cardinality(Session) \in Nat
  BY SessionAssumption, FS_CardinalityType
<1> QED
  BY <1>2, <1>3, <1>4

(* A sequence without repetitions is as long as it has elements.                  *)
LEMMA InjectiveSize ==
    ASSUME NEW T, NEW s \in Seq(T), IsInjective(s)
    PROVE  Cardinality(ToSet(s)) = Len(s)
<1>1. Len(s) \in Nat /\ DOMAIN s = 1 .. Len(s) /\ s \in [1 .. Len(s) -> T]
  BY LenProperties
<1>2. s \in Bijection(1 .. Len(s), ToSet(s))
  BY <1>1 DEF Bijection, Injection, Surjection, IsInjective, ToSet
<1>3. ExistsBijection(1 .. Len(s), ToSet(s))
  BY <1>2 DEF ExistsBijection
<1> QED
  BY <1>1, <1>3, FS_CountingElements

LEMMA InjectiveMore ==
    ASSUME NEW T, NEW s \in Seq(T), NEW x \in T, IsInjective(s), x \notin ToSet(s)
    PROVE  /\ Append(s, x) \in Seq(T) /\ IsInjective(Append(s, x))
           /\ ToSet(Append(s, x)) = ToSet(s) \cup {x}
           /\ Len(Append(s, x)) = Len(s) + 1
<1> DEFINE u == Append(s, x)
<1>1. /\ u \in Seq(T) /\ Len(u) = Len(s) + 1
      /\ DOMAIN s \subseteq DOMAIN u /\ Len(s) + 1 \in DOMAIN u /\ Len(s) + 1 \notin DOMAIN s
      /\ \A i \in DOMAIN s : u[i] = s[i]
      /\ u[Len(s) + 1] = x
      /\ \A i \in DOMAIN u : i \in DOMAIN s \/ i = Len(s) + 1
  BY Appended
<1>2. \A i \in DOMAIN s : s[i] # x
  BY DEF ToSet
<1> HIDE DEF u
<1>3. IsInjective(u)
  BY <1>1, <1>2 DEF IsInjective
<1>4. ToSet(u) = ToSet(s) \cup {x}
  BY <1>1 DEF ToSet
<1> QED
  BY <1>1, <1>3, <1>4 DEF u

(* A part of such a sequence, and what comes before it.                           *)
LEMMA InjectiveRest ==
    ASSUME NEW T, NEW s \in Seq(T), IsInjective(s), NEW n \in 0 .. Len(s)
    PROVE  LET rest == SubSeq(s, n + 1, Len(s))
           IN  /\ rest \in Seq(T) /\ IsInjective(rest) /\ Len(rest) = Len(s) - n
               /\ ToSet(rest) = ToSet(s) \ ToSet(SubSeq(s, 1, n))
<1> DEFINE rest == SubSeq(s, n + 1, Len(s))
           gone == SubSeq(s, 1, n)
<1>1. Len(s) \in Nat /\ DOMAIN s = 1 .. Len(s) /\ \A i \in 1 .. Len(s) : s[i] \in T
  BY LenProperties, ElementOfSeq
<1>2. /\ rest \in Seq(T) /\ Len(rest) = Len(s) - n
      /\ \A i \in 1 .. Len(s) - n : rest[i] = s[n + i]
  <2>1. \A i \in n + 1 .. Len(s) : s[i] \in T
    BY <1>1
  <2>2. /\ rest \in Seq(T)
        /\ Len(rest) = IF n + 1 <= Len(s) THEN Len(s) - (n + 1) + 1 ELSE 0
        /\ \A i \in 1 .. Len(s) - (n + 1) + 1 : rest[i] = s[n + 1 + i - 1]
    BY <1>1, <2>1, SubSeqProperties
  <2> HIDE DEF rest
  <2>3. Len(s) - (n + 1) + 1 = Len(s) - n
    BY <1>1
  <2>4. Len(rest) = Len(s) - n
    <3>1. CASE n + 1 <= Len(s)
      BY <2>2, <2>3, <3>1
    <3>2. CASE ~(n + 1 <= Len(s))
      <4>1. PICK len \in Nat : len = Len(s)
        BY <1>1
      <4>2. n \in 0 .. len /\ ~(n + 1 <= len)
        BY <3>2, <4>1
      <4>3. len - n = 0
        BY <4>2
      <4> QED
        BY <2>2, <3>2, <4>1, <4>3
    <3> QED
      BY <3>1, <3>2
  <2>5. ASSUME NEW i \in 1 .. Len(s) - n PROVE rest[i] = s[n + i]
    <3>1. n + 1 + i - 1 = n + i /\ i \in 1 .. Len(s) - (n + 1) + 1
      BY <1>1, <2>3
    <3>2. rest[i] = s[n + 1 + i - 1]
      BY <2>2, <3>1
    <3> QED
      BY <3>1, <3>2
  <2> QED
    BY <2>2, <2>4, <2>5
<1>3. /\ gone \in Seq(T) /\ Len(gone) = n /\ \A i \in 1 .. n : gone[i] = s[i]
  <2>1. \A i \in 1 .. n : s[i] \in T
    BY <1>1
  <2> QED
    BY <1>1, <2>1, SubSeqProperties
<1>4. DOMAIN rest = 1 .. Len(s) - n /\ DOMAIN gone = 1 .. n
  BY <1>2, <1>3, LenProperties
<1> HIDE DEF rest, gone
<1>5. IsInjective(rest)
  <2> SUFFICES ASSUME NEW i \in DOMAIN rest, NEW j \in DOMAIN rest, rest[i] = rest[j] PROVE i = j
    BY DEF IsInjective
  <2>1. n + i \in DOMAIN s /\ n + j \in DOMAIN s /\ i \in Nat /\ j \in Nat
    BY <1>1, <1>4
  <2>2. s[n + i] = s[n + j]
    BY <1>2, <1>4
  <2>3. n + i = n + j
    BY <2>1, <2>2 DEF IsInjective
  <2> QED
    BY <2>1, <2>3
<1>6. ToSet(rest) \subseteq ToSet(s) \ ToSet(gone)
  <2> SUFFICES ASSUME NEW i \in DOMAIN rest PROVE rest[i] \in ToSet(s) \ ToSet(gone)
    BY DEF ToSet
  <2>1. n + i \in DOMAIN s /\ rest[i] = s[n + i] /\ i \in 1 .. Len(s) - n
    BY <1>1, <1>2, <1>4
  <2>2. ASSUME NEW j \in DOMAIN gone, gone[j] = rest[i] PROVE FALSE
    <3>1. j \in DOMAIN s /\ s[j] = s[n + i] /\ j < n + i
      BY <1>1, <1>3, <1>4, <2>1, <2>2
    <3> QED
      BY <2>1, <3>1 DEF IsInjective
  <2> QED
    BY <2>1, <2>2 DEF ToSet
<1>7. ToSet(s) \ ToSet(gone) \subseteq ToSet(rest)
  <2> SUFFICES ASSUME NEW i \in DOMAIN s, s[i] \notin ToSet(gone) PROVE s[i] \in ToSet(rest)
    BY DEF ToSet
  <2>1. i \notin 1 .. n
    BY <1>3, <1>4 DEF ToSet
  <2>2. i - n \in DOMAIN rest /\ n + (i - n) = i
    BY <1>1, <1>4, <2>1
  <2>3. rest[i - n] = s[i]
    BY <1>2, <1>4, <2>2
  <2> QED
    BY <2>2, <2>3 DEF ToSet
<1> QED
  BY <1>2, <1>5, <1>6, <1>7 DEF rest, gone

(* Where the elements of a sequence are once the i-th is gone.                    *)
LEMMA Places ==
    ASSUME NEW n \in Nat, NEW i \in 1 .. n
    PROVE  /\ i \in Nat /\ i - 1 \in Nat /\ i - 1 + (n - i) = n - 1
           /\ \A k \in 1 .. n - 1 : k \in Nat
           /\ \A k \in 1 .. n - 1 : k < i => k \in 1 .. i - 1 /\ k \in 1 .. n /\ k # i
           /\ \A k \in 1 .. n - 1 : ~(k < i) => k \in i .. n - 1 /\ k + 1 \in 1 .. n /\ k + 1 # i
           /\ \A j, k \in 1 .. n - 1 :
                (IF j < i THEN j ELSE j + 1) = (IF k < i THEN k ELSE k + 1) => j = k
           /\ \A j \in 1 .. n : j < i => j \in 1 .. n - 1
           /\ \A j \in 1 .. n : ~(j < i) /\ j # i => j - 1 \in 1 .. n - 1 /\ ~(j - 1 < i) /\ j - 1 + 1 = j
           /\ \A k \in i .. n - 1 : /\ ~(k <= i - 1) /\ k - (i - 1) \in 1 .. n - i
                                    /\ k - (i - 1) + i = k + 1 /\ k \in 1 .. n - 1
OBVIOUS

LEMMA InjectiveLeft ==
    ASSUME NEW T, NEW s \in Seq(T), IsInjective(s), NEW i \in DOMAIN s
    PROVE  LET left == RemoveAt(s, i)
           IN  /\ left \in Seq(T) /\ IsInjective(left) /\ Len(left) = Len(s) - 1
               /\ ToSet(left) = ToSet(s) \ {s[i]}
<1> DEFINE before == SubSeq(s, 1, i - 1)
           after == SubSeq(s, i + 1, Len(s))
           left == before \o after
<1>1. Len(s) \in Nat /\ DOMAIN s = 1 .. Len(s) /\ \A k \in 1 .. Len(s) : s[k] \in T
  BY LenProperties, ElementOfSeq
<1>2. before \in Seq(T) /\ Len(before) = i - 1 /\ \A k \in 1 .. i - 1 : before[k] = s[k]
  <2>1. \A k \in 1 .. i - 1 : s[k] \in T
    BY <1>1
  <2>2. i - 1 \in Nat /\ i \in 1 .. Len(s)
    BY <1>1
  <2>3. /\ before \in Seq(T) /\ Len(before) = IF 1 <= i - 1 THEN i - 1 - 1 + 1 ELSE 0
        /\ \A k \in 1 .. i - 1 - 1 + 1 : before[k] = s[1 + k - 1]
    BY <2>1, <2>2, SubSeqProperties
  <2> HIDE DEF before
  <2>4. Len(before) = i - 1
    BY <2>2, <2>3
  <2>5. ASSUME NEW k \in 1 .. i - 1 PROVE before[k] = s[k]
    <3>1. k \in 1 .. i - 1 - 1 + 1 /\ 1 + k - 1 = k
      BY <2>2
    <3> QED
      BY <2>3, <3>1
  <2> QED
    BY <2>3, <2>4, <2>5
<1>3. /\ after \in Seq(T) /\ Len(after) = Len(s) - i
      /\ \A k \in 1 .. Len(s) - i : after[k] = s[k + i]
  <2>1. \A k \in i + 1 .. Len(s) : s[k] \in T
    BY <1>1
  <2>2. i \in 1 .. Len(s)
    BY <1>1
  <2>3. /\ after \in Seq(T) /\ Len(after) = IF i + 1 <= Len(s) THEN Len(s) - (i + 1) + 1 ELSE 0
        /\ \A k \in 1 .. Len(s) - (i + 1) + 1 : after[k] = s[i + 1 + k - 1]
    BY <1>1, <2>1, <2>2, SubSeqProperties
  <2> HIDE DEF after
  <2>4. Len(after) = Len(s) - i
    BY <1>1, <2>2, <2>3
  <2>5. ASSUME NEW k \in 1 .. Len(s) - i PROVE after[k] = s[k + i]
    <3>1. k \in 1 .. Len(s) - (i + 1) + 1 /\ i + 1 + k - 1 = k + i
      BY <1>1, <2>2
    <3> QED
      BY <2>3, <3>1
  <2> QED
    BY <2>3, <2>4, <2>5
<1> HIDE DEF before, after
<1>4. /\ left \in Seq(T) /\ Len(left) = Len(s) - 1
      /\ \A k \in 1 .. i - 1 : left[k] = s[k]
      /\ \A k \in i .. Len(s) - 1 : left[k] = s[k + 1]
  <2>1. /\ left \in Seq(T) /\ Len(left) = Len(before) + Len(after)
        /\ \A k \in 1 .. Len(before) + Len(after) :
             left[k] = IF k <= Len(before) THEN before[k] ELSE after[k - Len(before)]
    BY <1>2, <1>3, ConcatProperties
  <2> HIDE DEF left
  <2>2. Len(left) = Len(s) - 1 /\ i \in 1 .. Len(s)
    BY <1>1, <1>2, <1>3, <2>1
  <2>3. ASSUME NEW k \in 1 .. i - 1 PROVE left[k] = s[k]
    <3>1. k \in 1 .. Len(before) + Len(after) /\ k <= Len(before)
      BY <1>1, <1>2, <1>3, <2>2
    <3> QED
      BY <1>2, <2>1, <3>1
  <2>4. ASSUME NEW k \in i .. Len(s) - 1 PROVE left[k] = s[k + 1]
    <3>1. /\ k \in 1 .. Len(before) + Len(after) /\ ~(k <= Len(before))
          /\ k - Len(before) \in 1 .. Len(s) - i /\ k - Len(before) + i = k + 1
      <4>1. PICK len \in Nat : len = Len(s)
        BY <1>1
      <4>2. i \in 1 .. len /\ k \in i .. len - 1 /\ Len(before) = i - 1 /\ Len(after) = len - i
        BY <1>1, <1>2, <1>3, <4>1
      <4>3. i \in Nat /\ k \in Nat
        BY <4>1, <4>2
      <4>4. /\ i - 1 + (len - i) = len - 1 /\ ~(k <= i - 1) /\ k - (i - 1) \in 1 .. len - i
            /\ k - (i - 1) + i = k + 1 /\ k \in 1 .. len - 1
        BY <4>1, <4>2, <4>3
      <4> QED
        BY <4>1, <4>2, <4>4
    <3>2. left[k] = after[k - Len(before)]
      BY <2>1, <3>1
    <3> QED
      BY <1>3, <3>1, <3>2
  <2> QED
    BY <2>1, <2>2, <2>3, <2>4
<1>5. DOMAIN left = 1 .. Len(s) - 1
  <2> HIDE DEF left
  <2> QED
    BY <1>4, LenProperties
<1> DEFINE at(k) == IF k < i THEN k ELSE k + 1
<1>6. /\ \A k \in DOMAIN left : k \in Nat /\ at(k) \in DOMAIN s /\ at(k) # i /\ left[k] = s[at(k)]
      /\ \A j, k \in DOMAIN left : at(j) = at(k) => j = k
  <2> HIDE DEF left
  <2>1. ASSUME NEW k \in DOMAIN left
        PROVE  k \in Nat /\ at(k) \in DOMAIN s /\ at(k) # i /\ left[k] = s[at(k)]
    <3>1. k \in 1 .. Len(s) - 1 /\ k \in Nat
      BY <1>1, <1>5, Places
    <3>2. CASE k < i
      BY <1>1, <1>4, <3>1, <3>2, Places
    <3>3. CASE ~(k < i)
      BY <1>1, <1>4, <3>1, <3>3, Places
    <3> QED
      BY <3>2, <3>3
  <2>2. \A j, k \in DOMAIN left : at(j) = at(k) => j = k
    BY <1>1, <1>5, Places
  <2> QED
    BY <2>1, <2>2
<1>7. ASSUME NEW j \in DOMAIN s, j # i PROVE \E k \in DOMAIN left : at(k) = j
  <2> HIDE DEF left
  <2>1. CASE j < i
    <3>1. j \in DOMAIN left /\ at(j) = j
      BY <1>1, <1>5, <2>1, Places
    <3> QED
      BY <3>1
  <2>2. CASE ~(j < i)
    <3>1. j - 1 \in DOMAIN left /\ at(j - 1) = j
      BY <1>1, <1>5, <1>7, <2>2, Places
    <3> QED
      BY <3>1
  <2> QED
    BY <2>1, <2>2
<1>8. left = RemoveAt(s, i)
  BY DEF before, after, RemoveAt
<1> HIDE DEF left, at
<1>9. IsInjective(left)
  BY <1>6 DEF IsInjective
<1>10. ToSet(left) = ToSet(s) \ {s[i]}
  <2>1. ASSUME NEW k \in DOMAIN left PROVE left[k] \in ToSet(s) \ {s[i]}
    BY <1>6 DEF ToSet, IsInjective
  <2>2. ASSUME NEW j \in DOMAIN s, s[j] # s[i] PROVE \E k \in DOMAIN left : left[k] = s[j]
    <3>1. j # i
      BY <2>2
    <3> QED
      BY <1>6, <1>7, <3>1
  <2> QED
    BY <2>1, <2>2 DEF ToSet
<1> QED
  BY <1>4, <1>8, <1>9, <1>10

LEMMA LeftBehind ==
    ASSUME Recency, NEW s \in live
    PROVE  /\ Left(s) \in Seq(Nat) /\ IsInjective(Left(s)) /\ Len(Left(s)) = Len(recent) - 1
           /\ ToSet(Left(s)) = live \ {s} /\ s \in Nat
<1> DEFINE at == CHOOSE i \in DOMAIN recent : recent[i] = s
<1>1. at \in DOMAIN recent /\ recent[at] = s
  BY DEF Recency, ToSet
<1>2. s \in Nat
  BY <1>1, EntryType DEF Recency
<1>3. Left(s) = RemoveAt(recent, at)
  BY DEF Left
<1> HIDE DEF at
<1> QED
  BY <1>1, <1>2, <1>3, InjectiveLeft DEF Recency

LEMMA MaxWithZero ==
    ASSUME NEW a \in Int
    PROVE  Max({a, 0}) \in Int /\ a <= Max({a, 0}) /\ 0 <= Max({a, 0}) /\ Max({a, 0}) \in {a, 0}
<1>1. \E x \in {a, 0} : \A y \in {a, 0} : x >= y
  <2>1. CASE a >= 0
    BY <2>1
  <2>2. CASE ~(a >= 0)
    BY <2>2
  <2> QED
    BY <2>1, <2>2
<1>2. Max({a, 0}) \in {a, 0} /\ \A y \in {a, 0} : Max({a, 0}) >= y
  BY <1>1 DEF Max
<1> QED
  BY <1>2

(* The sessions kept when one is made leave room for it.                          *)
LEMMA RoomForNew ==
    ASSUME Typed, Recency, Bounded, NEW msgs, CreateSession(msgs)
    PROVE  /\ recent' \in Seq(Nat) /\ IsInjective(recent')
           /\ ToSet(recent') = live' /\ Len(recent') <= MaxSessions
<1> DEFINE new == Len(store) + 1
           keep == Len(recent) + 1 - MaxSessions
<1>1. PICK n \in Max({keep, 0}) .. (IF "expire" \in Env THEN Len(recent) ELSE Max({keep, 0})) :
        /\ live' = (live \ ToSet(SubSeq(recent, 1, n))) \cup {new}
        /\ recent' = Append(SubSeq(recent, n + 1, Len(recent)), new)
  BY DEF CreateSession
<1>2. PICK len \in Nat : len = Len(recent)
  BY LenProperties DEF Recency
<1>3. PICK max \in Nat \ {0} : max = MaxSessions
  BY ScenarioType
<1>4. len <= max
  BY <1>2, <1>3 DEF Recency
<1>5. PICK least : least = Max({keep, 0})
  OBVIOUS
<1>6. least \in Int /\ len + 1 - max <= least /\ 0 <= least /\ least \in {len + 1 - max, 0}
  <2>1. keep \in Int /\ keep = len + 1 - max
    BY <1>2, <1>3
  <2> QED
    BY <1>5, <2>1, MaxWithZero
<1>7. n \in Int /\ n \in 0 .. len /\ len - n + 1 <= max
  <2>1. n \in least .. len \/ n \in least .. least
    BY <1>1, <1>2, <1>5
  <2> QED
    BY <1>2, <1>3, <1>4, <1>6, <2>1
<1> DEFINE rest == SubSeq(recent, n + 1, Len(recent))
<1>8. /\ rest \in Seq(Nat) /\ IsInjective(rest) /\ Len(rest) = len - n
      /\ ToSet(rest) = live \ ToSet(SubSeq(recent, 1, n))
  BY <1>2, <1>7, InjectiveRest DEF Recency
<1>9. new \in Nat /\ new \notin live
  <2>1. Len(store) \in Nat /\ DOMAIN store = 1 .. Len(store)
    BY LenProperties DEF Typed
  <2> QED
    BY <2>1 DEF Typed
<1> HIDE DEF rest, new
<1>10. new \notin ToSet(rest)
  BY <1>8, <1>9
<1>11. /\ Append(rest, new) \in Seq(Nat) /\ IsInjective(Append(rest, new))
       /\ ToSet(Append(rest, new)) = ToSet(rest) \cup {new}
       /\ Len(Append(rest, new)) = len - n + 1
  BY <1>8, <1>9, <1>10, InjectiveMore
<1>12. recent' = Append(rest, new)
  BY <1>1 DEF rest, new
<1> QED
  BY <1>1, <1>3, <1>7, <1>8, <1>11, <1>12

LEMMA ArriveRecency ==
    ASSUME Typed, Recency, Bounded, NEW c \in Client, NEW msgs \in Messages, Arrive(c, msgs)
    PROVE  Recency' /\ Bounded'
<1>1. /\ Len(reqs) < scenario.requests /\ scenario' = scenario
      /\ \E x : reqs' = Append(reqs, x)
      /\ \/ UNCHANGED <<store, live, recent>>
         \/ Len(store) < Cardinality(Session) /\ CreateSession(msgs)
  BY DEF Arrive
<1>2. reqs' \in Seq(RequestType)
  BY Arriving DEF Grows, Typed
<1>3. Len(reqs') = Len(reqs) + 1 /\ Len(reqs) \in Nat
  <2>1. PICK x : reqs' = Append(reqs, x)
    BY <1>1
  <2> QED
    BY <2>1, LenProperties DEF Typed
<1>4. Len(reqs') <= scenario'.requests
  BY <1>1, <1>3, ScenarioType
<1>5. MaxSessions' = MaxSessions
  BY <1>1 DEF MaxSessions
<1>6. CASE UNCHANGED <<store, live, recent>>
  BY <1>1, <1>4, <1>5, <1>6 DEF Recency, Bounded
<1>7. CASE Len(store) < Cardinality(Session) /\ CreateSession(msgs)
  <2>1. Recency'
    BY <1>5, <1>7, RoomForNew DEF Recency
  <2>2. store' = Append(store, NewSession)
    BY <1>7 DEF CreateSession
  <2>3. Len(store') = Len(store) + 1 /\ Len(store) \in Nat
    BY <2>2, MessageTypes, Appended DEF Typed
  <2>4. Len(store') <= Cardinality(Session)
    BY <1>7, <2>3, ScenarioType
  <2> QED
    BY <1>1, <1>4, <2>1, <2>4 DEF Bounded
<1> QED
  BY <1>1, <1>6, <1>7

LEMMA ClientRecency ==
    ASSUME Typed, Recency, Bounded, NEW c \in Client,
           (\E t \in Text : Say(c, t) \/ Begin(c, t)) \/ Retry(c) \/ RespondTool(c)
    PROVE  Recency' /\ Bounded'
<1>1. view[c] \in Messages
  BY DEF Typed
<1>2. \A t \in Text : Append(view[c], User(t)) \in Messages /\ <<User(t)>> \in Messages
  BY <1>1, MessageTypes, Appended DEF Messages
<1>3. Append(view[c], ToolResponse) \in Messages
  BY <1>1, MessageTypes, Appended DEF Messages
<1>4. PICK msgs \in Messages : Arrive(c, msgs)
  <2>1. CASE \E t \in Text : Say(c, t) \/ Begin(c, t)
    BY <1>2, <2>1 DEF Say, Begin
  <2>2. CASE Retry(c)
    <3>1. asked[c] \in DOMAIN reqs
      BY <2>2 DEF Retry, Typed
    <3> QED
      BY <2>2, <3>1, RequestAt DEF Retry
  <2>3. CASE RespondTool(c)
    BY <1>3, <2>3 DEF RespondTool
  <2> QED
    BY <2>1, <2>2, <2>3
<1> QED
  BY <1>4, ArriveRecency

(* A step that adds neither request nor session.                                  *)
LEMMA TurnRecency ==
    ASSUME Typed, Typed', Recency, Bounded, UNCHANGED <<scenario, live>>,
           recent' = recent \/ \E s : Touch(s),
           DOMAIN reqs' = DOMAIN reqs, DOMAIN store' = DOMAIN store
    PROVE  Recency' /\ Bounded'
<1>1. Len(reqs') = Len(reqs) /\ Len(store') = Len(store)
  <2>1. /\ DOMAIN reqs = 1 .. Len(reqs) /\ DOMAIN store = 1 .. Len(store)
        /\ Len(reqs) \in Nat /\ Len(store) \in Nat
    BY LenProperties DEF Typed
  <2>2. /\ DOMAIN reqs' = 1 .. Len(reqs') /\ DOMAIN store' = 1 .. Len(store')
        /\ Len(reqs') \in Nat /\ Len(store') \in Nat
    BY LenProperties DEF Typed
  <2> QED
    BY <2>1, <2>2
<1>2. MaxSessions' = MaxSessions
  BY DEF MaxSessions
<1>3. ASSUME NEW s \in live, recent' = Append(Left(s), s) PROVE Recency'
  <2>1. /\ Left(s) \in Seq(Nat) /\ IsInjective(Left(s)) /\ Len(Left(s)) = Len(recent) - 1
        /\ ToSet(Left(s)) = live \ {s} /\ s \in Nat
    BY LeftBehind
  <2>2. /\ recent' \in Seq(Nat) /\ IsInjective(recent') /\ ToSet(recent') = (live \ {s}) \cup {s}
        /\ Len(recent') = Len(recent) - 1 + 1
    BY <1>3, <2>1, InjectiveMore
  <2>3. Len(recent) \in Nat
    BY LenProperties DEF Recency
  <2> QED
    BY <1>2, <2>2, <2>3 DEF Recency
<1>4. recent' = recent => Recency'
  BY <1>2 DEF Recency
<1>5. Recency'
  BY <1>3, <1>4 DEF Touch
<1> QED
  BY <1>1, <1>5 DEF Bounded

LEMMA DeleteRecency ==
    ASSUME Typed, Recency, Bounded, NEW s \in DOMAIN store, Delete(s)
    PROVE  Recency' /\ Bounded'
<1>1. /\ UNCHANGED <<scenario, reqs, store>> /\ s \in live
      /\ live' = live \ {s} /\ recent' = Left(s)
  BY DEF Delete
<1>2. /\ Left(s) \in Seq(Nat) /\ IsInjective(Left(s)) /\ Len(Left(s)) = Len(recent) - 1
      /\ ToSet(Left(s)) = live \ {s}
  BY <1>1, LeftBehind
<1>3. Len(recent) \in Nat /\ MaxSessions' = MaxSessions /\ MaxSessions \in Nat
  BY <1>1, LenProperties, ScenarioType DEF Recency, MaxSessions
<1> QED
  BY <1>1, <1>2, <1>3 DEF Recency, Bounded

LEMMA NextRecency == Inv /\ Recency /\ Bounded /\ [Next]_vars => Recency' /\ Bounded'
<1> SUFFICES ASSUME Inv, Recency, Bounded, [Next]_vars PROVE Recency' /\ Bounded'
  OBVIOUS
<1>0. Typed /\ Typed'
  BY NextInv DEF Inv
<1>1. ASSUME NEW c \in Client,
             (\E t \in Text : Say(c, t) \/ Begin(c, t)) \/ Retry(c) \/ RespondTool(c)
      PROVE  Recency' /\ Bounded'
  BY <1>0, <1>1, ClientRecency
<1>2. ASSUME NEW r \in DOMAIN reqs,
             \/ Refuse(r) \/ TakeTool(r) \/ Take(r) \/ CallTool(r) \/ Finish(r) \/ Fail(r) \/ Preflight(r)
      PROVE  Recency' /\ Bounded'
  <2>1. UNCHANGED <<scenario, live>>
    BY <1>2 DEF Refuse, TakeTool, Take, CallTool, Finish, Fail, Preflight
  <2>2. recent' = recent \/ \E s : Touch(s)
    BY <1>2 DEF Refuse, TakeTool, Take, CallTool, Finish, Fail, Preflight
  <2>3. DOMAIN reqs' = DOMAIN reqs
    BY <1>2 DEF Refuse, TakeTool, Take, CallTool, Finish, Fail, Preflight, SetPhase
  <2>4. DOMAIN store' = DOMAIN store
    BY <1>2 DEF Refuse, TakeTool, Take, CallTool, Finish, Fail, Preflight
  <2> QED
    BY <1>0, <2>1, <2>2, <2>3, <2>4, TurnRecency
<1>3. ASSUME NEW s \in DOMAIN store, ToolTimeout(s) \/ Cancel(s)
      PROVE  Recency' /\ Bounded'
  <2>1. UNCHANGED <<scenario, live>> /\ (recent' = recent \/ Touch(s))
    BY <1>3 DEF ToolTimeout, Cancel
  <2>2. DOMAIN reqs' = DOMAIN reqs /\ DOMAIN store' = DOMAIN store
    BY <1>3 DEF ToolTimeout, Cancel, SetPhase
  <2> QED
    BY <1>0, <2>1, <2>2, TurnRecency
<1>4. ASSUME NEW s \in DOMAIN store, Delete(s) PROVE Recency' /\ Bounded'
  BY <1>0, <1>4, DeleteRecency
<1>5. CASE ForgetLate \/ UNCHANGED vars
  BY <1>0, <1>5, TurnRecency DEF ForgetLate, vars
<1> QED
  BY <1>1, <1>2, <1>3, <1>4, <1>5 DEF Next

LEMMA TypesFollow == Inv /\ Recency /\ Bounded => TypeOK
<1> SUFFICES ASSUME Inv, Recency, Bounded PROVE TypeOK
  OBVIOUS
<1>1. Len(reqs) <= Cardinality(Request) /\ Len(store) <= Cardinality(Session)
  <2>1. Len(reqs) \in Nat
    BY LenProperties DEF Inv, Typed
  <2> QED
    BY <2>1, ScenarioType DEF Bounded
<1>2. ASSUME NEW r \in DOMAIN reqs
      PROVE  reqs[r].client \in Client /\ reqs[r].session \in DOMAIN store /\ reqs[r].phase \in Phase
  BY RequestAt DEF Inv, RequestType
<1>3. ASSUME NEW s \in DOMAIN store
      PROVE  store[s].event.state \in {"none", "active", "completed", "failed"}
  BY SessionAt DEF Inv, EventType
<1>4. Cardinality(live) <= MaxSessions
  BY InjectiveSize DEF Recency
<1> QED
  BY <1>1, <1>2, <1>3, <1>4 DEF TypeOK, Inv, Typed, Recency, Bounded, Phase

(* Types, and what _cleanup_old_sessions is there for: _sessions never holds more  *)
(* than MAX_SESSIONS, and each of them is once in the order of last activity,     *)
(* whatever the sessions that are touched, made, evicted and deleted in between.  *)
THEOREM TypeCorrect == Spec => []TypeOK
<1>1. Init => Inv /\ Recency /\ Bounded
  <2> SUFFICES ASSUME Init PROVE Recency /\ Bounded
    BY InitInv
  <2>1. Len(reqs) = 0 /\ Len(store) = 0 /\ scenario \in Scenario
    BY SessionAssumption DEF Init
  <2>2. Cardinality(Session) \in Nat
    BY SessionAssumption, FS_CardinalityType
  <2>3. Bounded
    BY <2>1, <2>2 DEF Init, Bounded, Scenario
  <2>4. MaxSessions \in Nat /\ Len(recent) = 0 /\ DOMAIN recent = {}
    BY <2>1 DEF Init, MaxSessions, Scenario
  <2>5. Recency
    BY <2>4 DEF Init, Recency, IsInjective, ToSet
  <2> QED
    BY <2>3, <2>5
<1>2. Inv /\ Recency /\ Bounded /\ [Next]_vars => (Inv /\ Recency /\ Bounded)'
  BY NextInv, NextRecency
<1>3. Inv /\ Recency /\ Bounded => TypeOK
  BY TypesFollow
<1> QED
  BY <1>1, <1>2, <1>3, PTL DEF Spec

-----------------------------------------------------------------------------
(* Whose answer it is. The premise of AnswerFits; it never begins to hold.        *)

Premise ==
    \/ "tools" \notin Env
    \/ Adhoc /\ Env \cap {"cancel", "late"} = {} /\ SameWords

(* An event that has put messages into its session.                               *)
Open(session) == session.event.state \in {"active", "failed"}

(* The complete turns of a session.                                               *)
Sealed(session) ==
    IF Open(session) THEN SubSeq(session.msgs, 1, session.event.from - 1) ELSE session.msgs

SessionFits(session) ==
    /\ Complete(Sealed(session)) /\ session.cont = Hash(Sealed(session))
    /\ Open(session) => Shaped(session.msgs) /\ session.event.from \in 1 .. Len(session.msgs)

(* The session holds the history of the request that is worked on, and what the   *)
(* client of a tool call sees.                                                    *)
Works(s) ==
    LET e == store[s].event
        c == reqs[e.req].client
    IN  e.state = "active" =>
          \/ reqs[e.req].phase = "running" /\ store[s].msgs = reqs[e.req].msgs
          \/ /\ reqs[e.req].phase = "called" /\ e.tool /\ EndsIn(store[s].msgs, "call")
             /\ asked[c] = e.req => view[c] = store[s].msgs

(* An event has one user message, or those of a request for a new session.        *)
OneWord(session) ==
    \A i \in DOMAIN session.msgs : i > session.event.from => session.msgs[i].role # "user"

FirstWords(session, msgs) ==
    /\ EndsIn(msgs, "user") /\ EventUsers(session) = Users(msgs)
    /\ Len(msgs) \in DOMAIN session.msgs /\ session.msgs[Len(msgs)].role = "user"

Words(session) ==
    Open(session) => OneWord(session) \/ \E q \in DOMAIN reqs : FirstWords(session, reqs[q].msgs)

(* A request that waits has at most one message more than the complete turns of   *)
(* its session, and then these are what comes before; or it repeats the words of  *)
(* a tool call.                                                                   *)
Behind(session, msgs) ==
    \/ /\ Len(msgs) <= Len(Sealed(session)) + 1
       /\ Len(msgs) = Len(Sealed(session)) + 1 => Sealed(session) = SubSeq(msgs, 1, Len(msgs) - 1)
    \/ /\ Open(session) /\ session.event.tool
       /\ Len(msgs) \in DOMAIN session.msgs /\ session.msgs[Len(msgs)].role = "user"

(* Or the session was made for it.                                                *)
Alone(r) ==
    /\ store[reqs[r].session] = NewSession
    /\ \A q \in DOMAIN reqs : reqs[q].session = reqs[r].session => q = r

Waits(r) ==
    reqs[r].phase = "resolved" /\ EndsIn(reqs[r].msgs, "user") =>
      Alone(r) \/ Behind(store[reqs[r].session], reqs[r].msgs)

(* A tool response on its way is the last request of a client whose tool call is   *)
(* the one that is waited for.                                                    *)
Awaited(s, c) ==
    /\ IsWaiting(s) /\ store[s].msgs = view[c] /\ reqs[store[s].event.req].client = c

Responds(r) ==
    LET c == reqs[r].client IN
    reqs[r].phase \in {"resolved", "running"} /\ EndsIn(reqs[r].msgs, "tool") =>
      /\ asked[c] = r /\ reqs[r].msgs = Append(view[c], ToolResponse)
      /\ reqs[r].phase = "resolved" => \E s \in DOMAIN store : Awaited(s, c)

Answered(r) == reqs[r].phase = "answered" => reqs[r].basis = reqs[r].msgs

(* A client whose tool call is open is who it is open for.                        *)
Calls(c) ==
    asked[c] # None =>
      /\ reqs[asked[c]].client = c
      /\ reqs[asked[c]].phase = "called" =>
           LET s == reqs[asked[c]].session IN IsActive(s) /\ store[s].event.req = asked[c]

Asks(msgs) == Shaped(msgs) /\ (EndsIn(msgs, "user") \/ EndsIn(msgs, "tool"))

ToolEntry(k, session) == Open(session) /\ session.event.tool /\ k = EventUsers(session)

Maps ==
    /\ {} \notin DOMAIN byHash /\ DOMAIN byLate = {}
    /\ \A k \in DOMAIN byTool : byTool[k] \in DOMAIN store /\ ToolEntry(k, store[byTool[k]])

(* With tools one session at a time is active; without, nothing is called.        *)
Regime ==
    IF "tools" \in Env
    THEN \A s, q \in DOMAIN store : IsActive(s) /\ IsActive(q) => s = q
    ELSE /\ DOMAIN byTool = {}
         /\ \A r \in DOMAIN reqs : reqs[r].phase # "called" /\ ~EndsIn(reqs[r].msgs, "tool")
         /\ \A s \in DOMAIN store : ~store[s].event.tool

Sessions == \A s \in DOMAIN store : SessionFits(store[s]) /\ Works(s) /\ Words(store[s])

Requests == \A r \in DOMAIN reqs : Asks(reqs[r].msgs) /\ Waits(r) /\ Responds(r) /\ Answered(r)

Clients == \A c \in Client : Shaped(view[c]) /\ Calls(c)

Told == Sessions /\ Requests /\ Clients /\ Maps /\ Regime

(* Lemmas about one session: what is Behind it stays so.                          *)
Keeps(old, new) == \A msgs \in Messages : Behind(old, msgs) => Behind(new, msgs)

LEMMA SealedPart ==
    ASSUME NEW session \in SessionType, SessionFits(session)
    PROVE  /\ session.msgs \in Messages /\ session.event \in EventType
           /\ Sealed(session) \in Messages /\ Len(Sealed(session)) \in Nat
           /\ Len(session.msgs) \in Nat
           /\ Open(session) => /\ session.event.from \in 1 .. Len(session.msgs)
                               /\ session.event.from \in Nat \ {0}
                               /\ Len(Sealed(session)) = session.event.from - 1
                               /\ Len(Sealed(session)) < Len(session.msgs)
           /\ ~Open(session) => Sealed(session) = session.msgs
<1>1. session.msgs \in Messages /\ session.event \in EventType
  BY DEF SessionType
<1>2. PICK len \in Nat : len = Len(session.msgs)
  BY <1>1, Indices
<1>3. CASE Open(session)
  <2>1. session.event.from \in 1 .. len
    BY <1>2, <1>3 DEF SessionFits
  <2>2. session.event.from - 1 \in 0 .. len
    BY <2>1
  <2>3. PICK part : part = SubSeq(session.msgs, 1, session.event.from - 1)
    OBVIOUS
  <2>4. part \in Messages /\ Len(part) = session.event.from - 1
    BY <1>1, <1>2, <2>2, <2>3, PartOf
  <2>5. Sealed(session) = part
    BY <1>3, <2>3 DEF Sealed
  <2> QED
    BY <1>1, <1>2, <1>3, <2>1, <2>4, <2>5
<1>4. CASE ~Open(session)
  BY <1>1, <1>2, <1>4 DEF Sealed
<1> QED
  BY <1>3, <1>4

LEMMA NewSessionFits ==
    SessionFits(NewSession) /\ ~Open(NewSession) /\ Sealed(NewSession) = <<>> /\ ~NewSession.event.tool
<1>1. NewSession.msgs = <<>> /\ NewSession.event.state = "none" /\ NewSession.cont = {} /\ ~NewSession.event.tool
  BY DEF NewSession, NoEvent
<1>2. ~Open(NewSession) /\ Sealed(NewSession) = <<>>
  BY <1>1 DEF Open, Sealed
<1>3. Complete(<<>>)
  BY DEF Complete, Shaped
<1>4. Hash(<<>>) = {}
  BY DEF Hash, Ranked
<1> QED
  BY <1>1, <1>2, <1>3, <1>4 DEF SessionFits

LEMMA RollsBack ==
    ASSUME NEW session \in SessionType, SessionFits(session), NEW x, x = RolledBack(session)
    PROVE  /\ SessionFits(x) /\ Sealed(x) = Sealed(session)
           /\ session.event.state = "active" => ~Open(x) /\ ~x.event.tool
           /\ session.event.state # "active" => x = session
           /\ ~(session.event.state = "active" /\ session.event.tool) => Keeps(session, x)
<1>1. CASE session.event.state # "active"
  <2>1. x = session
    BY <1>1 DEF RolledBack
  <2> QED
    BY <1>1, <2>1 DEF Keeps
<1>2. CASE session.event.state = "active"
  <2>1. x = [session EXCEPT !.msgs = SubSeq(session.msgs, 1, session.event.from - 1), !.event = NoEvent]
    BY <1>2 DEF RolledBack
  <2>2. Sealed(session) = SubSeq(session.msgs, 1, session.event.from - 1)
    BY <1>2 DEF Sealed, Open
  <2>3. x.msgs = Sealed(session) /\ x.event = NoEvent /\ x.cont = session.cont
    BY <2>1, <2>2 DEF SessionType
  <2>4. ~Open(x) /\ ~x.event.tool
    BY <2>3 DEF Open, NoEvent
  <2>5. Sealed(x) = Sealed(session)
    BY <2>3, <2>4 DEF Sealed
  <2>6. SessionFits(x)
    BY <2>3, <2>4, <2>5 DEF SessionFits
  <2>7. ~session.event.tool => Keeps(session, x)
    BY <2>5 DEF Keeps, Behind
  <2> QED
    BY <1>2, <2>4, <2>5, <2>6, <2>7
<1> QED
  BY <1>1, <1>2

(* A message that is not of the user comes into an event.                         *)
LEMMA Extends ==
    ASSUME NEW old \in SessionType, SessionFits(old), Open(old), NEW m \in Message, m.role # "user",
           NEW x \in SessionType, x.msgs = Append(old.msgs, m), x.event.from = old.event.from, Open(x),
           old.event.tool => x.event.tool, x.cont = old.cont, Shaped(x.msgs)
    PROVE  /\ SessionFits(x) /\ Keeps(old, x) /\ EventUsers(x) = EventUsers(old)
           /\ OneWord(old) => OneWord(x)
           /\ \A msgs : FirstWords(old, msgs) => FirstWords(x, msgs)
<1>1. /\ old.msgs \in Messages /\ old.event.from \in 1 .. Len(old.msgs)
      /\ old.event.from \in Nat \ {0} /\ Len(old.msgs) \in Nat
  BY SealedPart
<1>2. /\ DOMAIN old.msgs = 1 .. Len(old.msgs) /\ DOMAIN x.msgs = 1 .. Len(old.msgs) + 1
      /\ \A i \in DOMAIN old.msgs : x.msgs[i] = old.msgs[i]
      /\ x.msgs[Len(old.msgs) + 1] = m /\ Len(x.msgs) = Len(old.msgs) + 1
      /\ DOMAIN old.msgs \subseteq DOMAIN x.msgs
      /\ \A i \in DOMAIN x.msgs : i \in DOMAIN old.msgs \/ i = Len(old.msgs) + 1
  BY <1>1, Appended DEF Messages
<1>3. EventUsers(x) = EventUsers(old)
  <2>1. old.event.from \in 1 .. Len(old.msgs) + 1
    BY <1>1
  <2> QED
    BY <1>1, <2>1, EventUsersAppended
<1>4. Sealed(x) = Sealed(old)
  <2>1. old.event.from - 1 \in 0 .. Len(old.msgs)
    BY <1>1
  <2>2. old.event.from - 1 \in 0 .. Len(x.msgs)
    BY <1>1, <1>2
  <2>3. PICK n \in 0 .. Len(old.msgs) : n = old.event.from - 1
    BY <2>1
  <2>4. n \in 0 .. Len(x.msgs) /\ x.msgs \in Messages
    BY <2>2, <2>3 DEF SessionType
  <2>5. PICK a : a = SubSeq(old.msgs, 1, n)
    OBVIOUS
  <2>6. PICK b : b = SubSeq(x.msgs, 1, n)
    OBVIOUS
  <2>7. a \in Messages /\ Len(a) = n /\ \A i \in 1 .. n : a[i] = old.msgs[i]
    BY <1>1, <2>5, PartOf
  <2>8. b \in Messages /\ Len(b) = n /\ \A i \in 1 .. n : b[i] = x.msgs[i]
    BY <2>4, <2>6, PartOf
  <2>9. \A i \in 1 .. n : i \in DOMAIN old.msgs
    BY <1>1, <1>2
  <2>10. a = b
    BY <1>2, <2>7, <2>8, <2>9, SeqEqual DEF Messages
  <2> QED
    BY <2>3, <2>5, <2>6, <2>10 DEF Sealed
<1>5. SessionFits(x)
  <2>1. old.event.from \in 1 .. Len(x.msgs)
    BY <1>1, <1>2
  <2> QED
    BY <1>4, <2>1 DEF SessionFits
<1>6. Keeps(old, x)
  BY <1>2, <1>4 DEF Keeps, Behind
<1>7. OneWord(old) => OneWord(x)
  BY <1>2 DEF OneWord
<1>8. \A msgs : FirstWords(old, msgs) => FirstWords(x, msgs)
  BY <1>2, <1>3 DEF FirstWords
<1> QED
  BY <1>3, <1>5, <1>6, <1>7, <1>8

(* The last message, a tool response, goes again.                                 *)
LEMMA Retracts ==
    ASSUME NEW old \in SessionType, SessionFits(old), Open(old), old.event.tool,
           NEW x \in SessionType, x.event = old.event, x.cont = old.cont,
           Len(old.msgs) = Len(x.msgs) + 1, \A i \in 1 .. Len(x.msgs) : old.msgs[i] = x.msgs[i],
           Last(old.msgs) = ToolResponse
    PROVE  /\ SessionFits(x) /\ Keeps(old, x) /\ EventUsers(x) = EventUsers(old)
           /\ EndsIn(x.msgs, "call") /\ old.msgs = Append(x.msgs, ToolResponse)
           /\ OneWord(old) => OneWord(x)
           /\ \A msgs : FirstWords(old, msgs) => FirstWords(x, msgs)
<1>1. /\ old.msgs \in Messages /\ old.event.from \in 1 .. Len(old.msgs)
      /\ old.event.from \in Nat \ {0} /\ Len(old.msgs) \in Nat
      /\ x.msgs \in Messages /\ Len(x.msgs) \in Nat
  BY SealedPart, Indices DEF SessionType
<1>2. /\ DOMAIN old.msgs = 1 .. Len(x.msgs) + 1 /\ DOMAIN x.msgs = 1 .. Len(x.msgs)
      /\ old.msgs[Len(old.msgs)] = ToolResponse
  BY <1>1, Indices DEF Last
<1>3. Shaped(old.msgs) /\ Complete(Sealed(old))
  BY DEF SessionFits
<1>4. old.msgs[old.event.from].role # "tool"
  <2>1. CASE old.event.from = 1
    <3>1. 1 \in DOMAIN old.msgs
      BY <1>1, <1>2
    <3> QED
      BY <1>3, <2>1, <3>1 DEF Shaped
  <2>2. CASE old.event.from # 1
    <3>1. PICK n \in Nat : n = old.event.from - 1 /\ n # 0 /\ n + 1 = old.event.from
      BY <1>1, <2>2
    <3>2. n \in 0 .. Len(old.msgs) /\ n \in 1 .. n
      BY <1>1, <3>1
    <3>3. PICK a : a = SubSeq(old.msgs, 1, n)
      OBVIOUS
    <3>4. a \in Messages /\ Len(a) = n /\ a[n] = old.msgs[n]
      BY <1>1, <3>2, <3>3, PartOf
    <3>5. a = Sealed(old)
      BY <3>1, <3>3 DEF Sealed
    <3>6. a # <<>>
      BY <3>1, <3>4, Indices
    <3>7. old.msgs[n].role = "assistant"
      BY <1>3, <3>4, <3>5, <3>6 DEF Complete, EndsIn
    <3>8. old.event.from \in DOMAIN old.msgs /\ old.event.from - 1 = n
      BY <1>1, <1>2, <3>1
    <3> QED
      BY <1>3, <2>2, <3>7, <3>8 DEF Shaped
  <2> QED
    BY <2>1, <2>2
<1>5. old.event.from \in 1 .. Len(x.msgs) /\ Len(old.msgs) # 1 /\ Len(x.msgs) # 0
  <2>1. old.event.from # Len(old.msgs)
    BY <1>2, <1>4, Roles
  <2> QED
    BY <1>1, <2>1
<1>6. EndsIn(x.msgs, "call")
  <2>1. Len(old.msgs) \in DOMAIN old.msgs /\ Len(old.msgs) - 1 = Len(x.msgs) /\ Len(x.msgs) \in 1 .. Len(x.msgs)
    BY <1>1, <1>2, <1>5
  <2>2. old.msgs[Len(x.msgs)].role = "call"
    <3>1. PICK i \in DOMAIN old.msgs : i = Len(old.msgs) /\ i # 1 /\ i - 1 = Len(x.msgs)
      BY <1>5, <2>1
    <3>2. old.msgs[i].role = "tool"
      BY <1>2, <3>1, Roles
    <3>3. old.msgs[i].role = "tool" <=> old.msgs[i - 1].role = "call"
      BY <1>3, <3>1 DEF Shaped
    <3> QED
      BY <3>1, <3>2, <3>3
  <2>3. x.msgs # <<>>
    BY <1>1, <1>5, Indices
  <2> QED
    BY <2>1, <2>2, <2>3 DEF EndsIn
<1>7. old.msgs = Append(x.msgs, ToolResponse)
  <2>1. PICK a : a = Append(x.msgs, ToolResponse)
    OBVIOUS
  <2>2. /\ a \in Messages /\ Len(a) = Len(x.msgs) + 1 /\ a[Len(x.msgs) + 1] = ToolResponse
        /\ \A i \in 1 .. Len(x.msgs) : a[i] = x.msgs[i]
    BY <1>1, <2>1, MessageTypes, Appended DEF Messages
  <2>3. \A i \in 1 .. Len(old.msgs) : i \in 1 .. Len(x.msgs) \/ i = Len(x.msgs) + 1
    BY <1>1
  <2>4. \A i \in 1 .. Len(old.msgs) : old.msgs[i] = a[i]
    BY <1>1, <1>2, <2>2, <2>3
  <2>5. old.msgs = a
    BY <1>1, <2>2, <2>4, SeqEqual DEF Messages
  <2> QED
    BY <2>1, <2>5
<1>8. EventUsers(x) = EventUsers(old)
  <2>1. x.event.from \in 1 .. Len(x.msgs) + 1
    BY <1>1, <1>5
  <2> QED
    BY <1>1, <1>7, <2>1, MessageTypes, Roles, EventUsersAppended
<1>9. Sealed(x) = Sealed(old) /\ Shaped(x.msgs)
  <2>1. PICK len \in Nat : len = Len(x.msgs)
    BY <1>1
  <2>2. len \in 0 .. Len(old.msgs) /\ 1 <= len + 1
    BY <1>1, <2>1
  <2>3. PICK a : a = SubSeq(old.msgs, 1, len)
    OBVIOUS
  <2>4. a \in Messages /\ Len(a) = len /\ \A i \in 1 .. len : a[i] = old.msgs[i]
    BY <1>1, <2>2, <2>3, PartOf
  <2>5. a = x.msgs
    BY <1>1, <2>1, <2>4, SeqEqual DEF Messages
  <2>6. Shaped(x.msgs)
    BY <1>1, <1>3, <2>2, <2>3, <2>5, Shorter
  <2>7. PICK n \in 0 .. Len(x.msgs) : n = old.event.from - 1 /\ n \in 0 .. Len(old.msgs)
    BY <1>1, <1>5
  <2>8. PICK b : b = SubSeq(old.msgs, 1, n)
    OBVIOUS
  <2>9. PICK d : d = SubSeq(x.msgs, 1, n)
    OBVIOUS
  <2>10. /\ b \in Messages /\ Len(b) = n /\ \A i \in 1 .. n : b[i] = old.msgs[i]
         /\ d \in Messages /\ Len(d) = n /\ \A i \in 1 .. n : d[i] = x.msgs[i]
    BY <1>1, <2>7, <2>8, <2>9, PartOf
  <2>11. \A i \in 1 .. n : i \in 1 .. Len(x.msgs)
    BY <1>1, <2>7
  <2>12. b = d
    BY <2>10, <2>11, SeqEqual DEF Messages
  <2> QED
    BY <2>6, <2>7, <2>8, <2>9, <2>12 DEF Sealed, Open
<1>10. SessionFits(x) /\ Open(x)
  BY <1>5, <1>9 DEF SessionFits, Open
<1>11. \A i \in DOMAIN old.msgs : old.msgs[i].role = "user" => i \in DOMAIN x.msgs
  <2>1. \A i \in DOMAIN old.msgs : i \in DOMAIN x.msgs \/ i = Len(old.msgs)
    BY <1>1, <1>2
  <2> QED
    BY <1>2, <2>1, Roles
<1>12. Keeps(old, x)
  BY <1>2, <1>9, <1>10, <1>11 DEF Keeps, Behind
<1>13. OneWord(old) => OneWord(x)
  <2>1. DOMAIN x.msgs \subseteq DOMAIN old.msgs
    BY <1>1, <1>2
  <2> QED
    BY <1>2, <2>1 DEF OneWord
<1>14. \A msgs : FirstWords(old, msgs) => FirstWords(x, msgs)
  BY <1>2, <1>8, <1>11 DEF FirstWords
<1> QED
  BY <1>6, <1>7, <1>8, <1>10, <1>12, <1>13, <1>14

(* A step of the turn of r, which makes x of its session s, and what it leaves    *)
(* alone: what other clients see, and a session that waits for a tool response of *)
(* somebody else.                                                                 *)
Turn(r, s, x) ==
    /\ reqs[r].session = s /\ Becomes(s, x) /\ OnlyPhase(r) /\ reqs'[r].phase # "resolved"
    /\ UNCHANGED <<scenario, asked>>
    /\ \A c \in Client : asked[c] # r => view'[c] = view[c]
    /\ reqs'[r].phase = "running" => reqs[r].phase \in {"resolved", "running"} /\ view' = view

Spares(r, s, x) ==
    IsWaiting(s) /\ asked[reqs[store[s].event.req].client] # r => x = store[s] /\ store[s].event.req # r

WorksNext(x) ==
    LET e == x.event
        c == reqs[e.req].client
    IN  e.state = "active" =>
          /\ e.req \in DOMAIN reqs
          /\ \/ reqs'[e.req].phase = "running" /\ x.msgs = reqs[e.req].msgs
             \/ /\ reqs'[e.req].phase = "called" /\ e.tool /\ EndsIn(x.msgs, "call")
                /\ asked[c] = e.req => view'[c] = x.msgs

LEMMA TurnFrame ==
    ASSUME Typed, NEW r \in DOMAIN reqs, NEW s, NEW x, Turn(r, s, x)
    PROVE  /\ DOMAIN store' = DOMAIN store /\ store'[s] = x /\ s \in DOMAIN store
           /\ \A q \in DOMAIN store : q # s => store'[q] = store[q]
           /\ DOMAIN reqs' = DOMAIN reqs
           /\ \A q \in DOMAIN reqs : /\ reqs'[q].session = reqs[q].session /\ reqs'[q].msgs = reqs[q].msgs
                                     /\ reqs'[q].client = reqs[q].client /\ (q # r => reqs'[q] = reqs[q])
           /\ asked' = asked /\ Env' = Env
<1>1. /\ DOMAIN store' = DOMAIN store /\ store'[s] = x
      /\ \A q \in DOMAIN store : q # s => store'[q] = store[q]
  BY BecomesStore DEF Turn
<1> QED
  BY <1>1 DEF Turn, OnlyPhase, Becomes, Env

LEMMA TurnSessions ==
    ASSUME Inv, Sessions, NEW r \in DOMAIN reqs, NEW s, NEW x, Turn(r, s, x),
           SessionFits(x), WorksNext(x), Words(x)
    PROVE  Sessions'
<1>1. /\ DOMAIN store' = DOMAIN store /\ store'[s] = x
      /\ \A q \in DOMAIN store : q # s => store'[q] = store[q]
      /\ DOMAIN reqs' = DOMAIN reqs
      /\ \A q \in DOMAIN reqs : /\ reqs'[q].session = reqs[q].session /\ reqs'[q].msgs = reqs[q].msgs
                                /\ reqs'[q].client = reqs[q].client /\ (q # r => reqs'[q] = reqs[q])
      /\ asked' = asked
  BY TurnFrame DEF Inv
<1>2. ASSUME NEW q \in DOMAIN store PROVE SessionFits(store'[q])
  BY <1>1, <1>2 DEF Sessions
<1>3. ASSUME NEW session, Words(session) PROVE Words(session)'
  BY <1>1, <1>3 DEF Words
<1>4. ASSUME NEW q \in DOMAIN store PROVE Words(store[q])'
  <2>1. PICK session : session = store'[q]
    OBVIOUS
  <2>2. Words(session)
    BY <1>1, <2>1 DEF Sessions
  <2>3. Words(session)'
    BY <1>3, <2>2
  <2> QED
    BY <2>1, <2>3 DEF Words
<1>5. ASSUME NEW q \in DOMAIN store PROVE Works(q)'
  <2>1. CASE q = s
    BY <1>1, <2>1 DEF WorksNext, Works
  <2>2. CASE q # s
    <3>1. store'[q] = store[q] /\ EventFits(q) /\ Works(q)
      BY <1>1, <2>2 DEF Sessions, Inv, EventsFit
    <3>2. CASE store[q].event.state = "active"
      <4>1. PICK p \in DOMAIN reqs : p = store[q].event.req /\ reqs[p].session = q
        BY <3>1, <3>2 DEF EventFits
      <4>2. p # r /\ reqs'[p] = reqs[p]
        BY <1>1, <2>2, <4>1 DEF Turn
      <4>3. reqs[p].client \in Client
        BY RequestAt DEF Inv
      <4>4. asked[reqs[p].client] = p => view'[reqs[p].client] = view[reqs[p].client]
        BY <4>2, <4>3 DEF Turn
      <4> QED
        BY <1>1, <3>1, <3>2, <4>1, <4>2, <4>4 DEF Works
    <3>3. CASE store[q].event.state # "active"
      BY <3>1, <3>3 DEF Works
    <3> QED
      BY <3>2, <3>3
  <2> QED
    BY <2>1, <2>2
<1> QED
  BY <1>1, <1>2, <1>4, <1>5 DEF Sessions

LEMMA TurnRequests ==
    ASSUME Inv, Told, NEW r \in DOMAIN reqs, NEW s, NEW x, Turn(r, s, x), Spares(r, s, x),
           Keeps(store[s], x), reqs'[r].phase = "answered" => reqs'[r].basis = reqs[r].msgs
    PROVE  Requests'
<1>1. /\ DOMAIN store' = DOMAIN store /\ store'[s] = x /\ s \in DOMAIN store
      /\ \A q \in DOMAIN store : q # s => store'[q] = store[q]
      /\ DOMAIN reqs' = DOMAIN reqs
      /\ \A q \in DOMAIN reqs : /\ reqs'[q].session = reqs[q].session /\ reqs'[q].msgs = reqs[q].msgs
                                /\ reqs'[q].client = reqs[q].client /\ (q # r => reqs'[q] = reqs[q])
      /\ asked' = asked
  BY TurnFrame DEF Inv
<1>2. reqs[r].session = s
  BY DEF Turn
<1>3. ASSUME NEW q \in DOMAIN reqs
      PROVE  /\ Asks(reqs[q].msgs) /\ Waits(q) /\ Responds(q) /\ Answered(q)
             /\ reqs[q].client \in Client /\ reqs[q].session \in DOMAIN store
             /\ reqs[q].msgs \in Messages
  BY <1>3, RequestAt DEF Told, Requests, Inv
<1>4. ASSUME NEW q \in DOMAIN reqs PROVE Asks(reqs'[q].msgs)
  BY <1>1, <1>3
<1>5. ASSUME NEW q \in DOMAIN reqs PROVE Waits(q)'
  <2>1. CASE q = r
    BY <1>1, <2>1 DEF Waits, Turn
  <2>2. CASE q # r
    <3>1. reqs'[q] = reqs[q]
      BY <1>1, <2>2
    <3>2. SUFFICES ASSUME reqs[q].phase = "resolved", EndsIn(reqs[q].msgs, "user")
                   PROVE  Alone(q)' \/ Behind(store'[reqs[q].session], reqs[q].msgs)
      BY <3>1 DEF Waits
    <3>3. Alone(q) \/ Behind(store[reqs[q].session], reqs[q].msgs)
      BY <1>3, <3>2 DEF Waits
    <3>4. CASE reqs[q].session = s
      <4>1. ~Alone(q)
        BY <1>2, <2>2, <3>4 DEF Alone
      <4> QED
        BY <1>1, <1>3, <3>3, <3>4, <4>1 DEF Keeps
    <3>5. CASE reqs[q].session # s
      <4>1. store'[reqs[q].session] = store[reqs[q].session]
        BY <1>1, <1>3, <3>5
      <4>2. Alone(q) => Alone(q)'
        BY <1>1, <3>1, <4>1 DEF Alone
      <4> QED
        BY <3>3, <4>1, <4>2
    <3> QED
      BY <3>4, <3>5
  <2> QED
    BY <2>1, <2>2
<1>6. ASSUME NEW q \in DOMAIN reqs PROVE Responds(q)'
  <2> DEFINE c == reqs[q].client
  <2>1. CASE q = r
    <3>1. SUFFICES ASSUME reqs'[r].phase = "running", EndsIn(reqs[r].msgs, "tool")
                   PROVE  asked[c] = r /\ reqs[r].msgs = Append(view'[c], ToolResponse)
      BY <1>1, <2>1 DEF Responds, Turn
    <3>2. view' = view /\ reqs[r].phase \in {"resolved", "running"}
      BY <3>1 DEF Turn
    <3> QED
      BY <1>3, <2>1, <3>1, <3>2 DEF Responds
  <2>2. CASE q # r
    <3>1. reqs'[q] = reqs[q]
      BY <1>1, <2>2
    <3>2. SUFFICES ASSUME reqs[q].phase \in {"resolved", "running"}, EndsIn(reqs[q].msgs, "tool")
                   PROVE  /\ asked[c] = q /\ reqs[q].msgs = Append(view'[c], ToolResponse)
                          /\ reqs[q].phase = "resolved" => \E p \in DOMAIN store : Awaited(p, c)'
      BY <1>1, <3>1 DEF Responds
    <3>3. /\ asked[c] = q /\ reqs[q].msgs = Append(view[c], ToolResponse)
          /\ reqs[q].phase = "resolved" => \E p \in DOMAIN store : Awaited(p, c)
      BY <1>3, <3>2 DEF Responds
    <3>4. view'[c] = view[c]
      BY <1>3, <2>2, <3>3 DEF Turn
    <3>5. ASSUME NEW p \in DOMAIN store, Awaited(p, c) PROVE Awaited(p, c)'
      <4>1. /\ store[p].event.state = "active" /\ reqs[store[p].event.req].phase = "called"
            /\ store[p].msgs = view[c] /\ reqs[store[p].event.req].client = c
        BY <3>5 DEF Awaited, IsWaiting, IsActive
      <4>2. store[p].event.req \in DOMAIN reqs /\ reqs[store[p].event.req].session = p
        BY <4>1 DEF Inv, EventsFit, EventFits
      <4>3. store'[p] = store[p] /\ store[p].event.req # r
        <5>1. CASE p = s
          <6>1. IsWaiting(s) /\ asked[reqs[store[s].event.req].client] # r
            BY <2>2, <3>3, <3>5, <4>1, <5>1 DEF Awaited
          <6> QED
            BY <1>1, <5>1, <6>1 DEF Spares
        <5>2. CASE p # s
          BY <1>1, <1>2, <4>2, <5>2
        <5> QED
          BY <5>1, <5>2
      <4>4. reqs'[store[p].event.req] = reqs[store[p].event.req]
        BY <1>1, <4>2, <4>3
      <4> QED
        BY <3>1, <3>4, <4>1, <4>3, <4>4 DEF Awaited, IsWaiting, IsActive
    <3> QED
      BY <3>3, <3>4, <3>5
  <2> QED
    BY <2>1, <2>2
<1>7. ASSUME NEW q \in DOMAIN reqs PROVE Answered(q)'
  BY <1>1, <1>3 DEF Answered
<1> QED
  BY <1>1, <1>4, <1>5, <1>6, <1>7 DEF Requests

LEMMA TurnClients ==
    ASSUME Inv, Told, NEW r \in DOMAIN reqs, NEW s, NEW x, Turn(r, s, x), Spares(r, s, x),
           reqs'[r].phase = "called" => x.event.state = "active" /\ x.event.req = r,
           \A c \in Client : Shaped(view'[c])
    PROVE  Clients'
<1>1. /\ DOMAIN store' = DOMAIN store /\ store'[s] = x /\ s \in DOMAIN store
      /\ \A q \in DOMAIN store : q # s => store'[q] = store[q]
      /\ DOMAIN reqs' = DOMAIN reqs
      /\ \A q \in DOMAIN reqs : /\ reqs'[q].session = reqs[q].session /\ reqs'[q].msgs = reqs[q].msgs
                                /\ reqs'[q].client = reqs[q].client /\ (q # r => reqs'[q] = reqs[q])
      /\ asked' = asked
  BY TurnFrame DEF Inv
<1>2. reqs[r].session = s
  BY DEF Turn
<1>3. ASSUME NEW c \in Client PROVE Calls(c)'
  <2>1. CASE asked[c] = None
    BY <1>1, <2>1 DEF Calls
  <2>2. CASE asked[c] # None
    <3>1. PICK q \in DOMAIN reqs : q = asked[c]
      BY <2>2 DEF Inv, Typed
    <3>2. reqs[q].client = c /\ reqs[q].session \in DOMAIN store
          /\ (reqs[q].phase = "called" =>
                IsActive(reqs[q].session) /\ store[reqs[q].session].event.req = q)
      BY <2>2, <3>1, RequestAt DEF Told, Clients, Calls, Inv
    <3>3. reqs'[q].client = c
      BY <1>1, <3>2
    <3>4. ASSUME reqs'[q].phase = "called"
          PROVE  store'[reqs[q].session].event.state = "active" /\ store'[reqs[q].session].event.req = q
      <4>1. CASE q = r
        BY <1>1, <1>2, <3>4, <4>1
      <4>2. CASE q # r
        <5>1. /\ reqs[q].phase = "called" /\ IsActive(reqs[q].session)
              /\ store[reqs[q].session].event.req = q
          BY <1>1, <3>2, <3>4, <4>2
        <5>2. CASE reqs[q].session = s
          <6>1. IsWaiting(s) /\ asked[reqs[store[s].event.req].client] # r
            BY <3>1, <3>2, <4>2, <5>1, <5>2 DEF IsWaiting
          <6>2. x = store[s]
            BY <6>1 DEF Spares
          <6> QED
            BY <1>1, <5>1, <5>2, <6>2 DEF IsActive
        <5>3. CASE reqs[q].session # s
          BY <1>1, <3>2, <5>1, <5>3 DEF IsActive
        <5> QED
          BY <5>2, <5>3
      <4> QED
        BY <4>1, <4>2
    <3>5. reqs'[q].session = reqs[q].session
      BY <1>1
    <3> QED
      BY <1>1, <3>1, <3>3, <3>4, <3>5 DEF Calls, IsActive
  <2> QED
    BY <2>1, <2>2
<1> QED
  BY <1>3 DEF Clients

LEMMA TurnMaps ==
    ASSUME Inv, Maps, NEW r \in DOMAIN reqs, NEW s, NEW x, Turn(r, s, x),
           {} \notin DOMAIN byHash', DOMAIN byLate' = {},
           \A k \in DOMAIN byTool' : \/ byTool'[k] = s /\ ToolEntry(k, x)
                                     \/ k \in DOMAIN byTool /\ byTool'[k] = byTool[k] /\ byTool[k] # s
    PROVE  Maps'
<1>1. /\ DOMAIN store' = DOMAIN store /\ store'[s] = x /\ s \in DOMAIN store
      /\ \A q \in DOMAIN store : q # s => store'[q] = store[q]
  BY TurnFrame DEF Inv
<1> QED
  BY <1>1 DEF Maps

LEMMA TurnRegime ==
    ASSUME Inv, Regime, NEW r \in DOMAIN reqs, NEW s, NEW x, Turn(r, s, x),
           IF "tools" \in Env
           THEN x.event.state = "active" => IsActive(s) \/ \A q \in DOMAIN store : ~IsActive(q)
           ELSE DOMAIN byTool' = {} /\ reqs'[r].phase # "called" /\ ~x.event.tool
    PROVE  Regime'
<1>1. /\ DOMAIN store' = DOMAIN store /\ store'[s] = x /\ s \in DOMAIN store
      /\ \A q \in DOMAIN store : q # s => store'[q] = store[q]
      /\ DOMAIN reqs' = DOMAIN reqs
      /\ \A q \in DOMAIN reqs : /\ reqs'[q].session = reqs[q].session /\ reqs'[q].msgs = reqs[q].msgs
                                /\ reqs'[q].client = reqs[q].client /\ (q # r => reqs'[q] = reqs[q])
      /\ Env' = Env
  BY TurnFrame DEF Inv
<1>2. CASE "tools" \in Env
  <2>1. ASSUME NEW q \in DOMAIN store, store'[q].event.state = "active"
        PROVE  q = s \/ store[q].event.state = "active"
    BY <1>1, <2>1
  <2> QED
    BY <1>1, <1>2, <2>1 DEF Regime, IsActive
<1>3. CASE "tools" \notin Env
  <2>1. \A q \in DOMAIN reqs : reqs'[q].phase # "called" /\ ~EndsIn(reqs'[q].msgs, "tool")
    BY <1>1, <1>3 DEF Regime
  <2>2. \A q \in DOMAIN store : ~store'[q].event.tool
    BY <1>1, <1>3 DEF Regime
  <2> QED
    BY <1>1, <1>3, <2>1, <2>2 DEF Regime
<1> QED
  BY <1>2, <1>3

LEMMA TurnTold ==
    ASSUME Inv, Told, NEW r \in DOMAIN reqs, NEW s, NEW x, Turn(r, s, x), Spares(r, s, x),
           SessionFits(x), WorksNext(x), Words(x), Keeps(store[s], x),
           reqs'[r].phase = "answered" => reqs'[r].basis = reqs[r].msgs,
           reqs'[r].phase = "called" => x.event.state = "active" /\ x.event.req = r,
           \A c \in Client : Shaped(view'[c]),
           {} \notin DOMAIN byHash', DOMAIN byLate' = {},
           \A k \in DOMAIN byTool' : \/ byTool'[k] = s /\ ToolEntry(k, x)
                                     \/ k \in DOMAIN byTool /\ byTool'[k] = byTool[k] /\ byTool[k] # s,
           IF "tools" \in Env
           THEN x.event.state = "active" => IsActive(s) \/ \A q \in DOMAIN store : ~IsActive(q)
           ELSE DOMAIN byTool' = {} /\ reqs'[r].phase # "called" /\ ~x.event.tool
    PROVE  Told'
<1>1. Sessions'
  BY TurnSessions DEF Told
<1>2. Requests'
  BY TurnRequests
<1>3. Clients'
  BY TurnClients
<1>4. Maps'
  BY TurnMaps DEF Told
<1>5. Regime'
  BY TurnRegime DEF Told
<1> QED
  BY <1>1, <1>2, <1>3, <1>4, <1>5 DEF Told

LEMMA Replies ==
    ASSUME NEW msgs \in Messages, Asks(msgs), NEW m \in Message, m.role \in {"call", "assistant"}
    PROVE  /\ Append(msgs, m) \in Messages /\ Shaped(Append(msgs, m))
           /\ EndsIn(Append(msgs, m), m.role)
<1>1. Shaped(msgs) /\ msgs # <<>> /\ ~EndsIn(msgs, "assistant") /\ ~EndsIn(msgs, "call")
  BY DEF Asks, EndsIn
<1> QED
  BY <1>1, Longer

(* What is known of a turn that runs.                                             *)
LEMMA Runs ==
    ASSUME Inv, Told, NEW r \in DOMAIN reqs, IsCurrent(r), reqs[r].phase = "running"
    PROVE  LET s   == reqs[r].session
               old == store[s]
           IN  /\ s \in DOMAIN store /\ old \in SessionType /\ old.msgs = reqs[r].msgs
               /\ old.msgs \in Messages /\ Asks(old.msgs)
               /\ Open(old) /\ SessionFits(old) /\ Words(old)
               /\ IsActive(s) /\ ~IsWaiting(s) /\ old.event.req = r
<1> DEFINE s == reqs[r].session
           old == store[s]
<1>1. /\ s \in DOMAIN store /\ old \in SessionType /\ old.msgs \in Messages
      /\ old.event.state = "active" /\ old.event.req = r
  BY CurrentEvent DEF Inv
<1>2. SessionFits(old) /\ Words(old) /\ Works(s)
  BY <1>1 DEF Told, Sessions
<1>3. old.msgs = reqs[r].msgs
  BY <1>1, <1>2 DEF Works
<1>4. Asks(reqs[r].msgs)
  BY DEF Told, Requests
<1>5. Open(old) /\ IsActive(s) /\ ~IsWaiting(s)
  BY <1>1 DEF Open, IsActive, IsWaiting
<1> QED
  BY <1>1, <1>2, <1>3, <1>4, <1>5

LEMMA Seen ==
    ASSUME Inv, Told, NEW r \in DOMAIN reqs, NEW msgs, Shaped(msgs), Sees(r, msgs)
    PROVE  /\ \A c \in Client : asked[c] # r => view'[c] = view[c]
           /\ asked[reqs[r].client] = r => view'[reqs[r].client] = msgs
           /\ \A c \in Client : Shaped(view'[c])
<1>1. reqs[r].client \in Client /\ view \in [Client -> Messages]
  BY RequestAt DEF Inv, Typed
<1>2. \A c \in Client : Shaped(view[c])
  BY DEF Told, Clients
<1>3. CASE asked[reqs[r].client] = r
  <2>1. view' = [view EXCEPT ![reqs[r].client] = msgs]
    BY <1>3 DEF Sees
  <2>2. \A c \in Client : view'[c] = IF c = reqs[r].client THEN msgs ELSE view[c]
    BY <1>1, <2>1
  <2> QED
    BY <1>1, <1>2, <1>3, <2>2
<1>4. CASE asked[reqs[r].client] # r
  <2>1. view' = view
    BY <1>4 DEF Sees
  <2> QED
    BY <1>2, <1>4, <2>1
<1> QED
  BY <1>3, <1>4

(* Another phase of its event changes nothing that was said.                      *)
LEMMA SaysTheSame ==
    ASSUME NEW old, SessionFits(old), Open(old), NEW x, Open(x), x.msgs = old.msgs, x.cont = old.cont,
           x.event.from = old.event.from, x.event.tool = old.event.tool
    PROVE  /\ SessionFits(x) /\ Keeps(old, x) /\ EventUsers(x) = EventUsers(old)
           /\ OneWord(old) => OneWord(x)
           /\ \A msgs : FirstWords(old, msgs) => FirstWords(x, msgs)
<1>1. Sealed(x) = Sealed(old) /\ EventUsers(x) = EventUsers(old)
  BY DEF Sealed, EventUsers
<1>2. SessionFits(x)
  BY <1>1 DEF SessionFits
<1>3. Keeps(old, x)
  BY <1>1 DEF Keeps, Behind
<1>4. OneWord(old) => OneWord(x)
  BY DEF OneWord
<1>5. \A msgs : FirstWords(old, msgs) => FirstWords(x, msgs)
  BY <1>1 DEF FirstWords
<1> QED
  BY <1>1, <1>2, <1>3, <1>4, <1>5

LEMMA WordsStay ==
    ASSUME NEW old, Open(old), Words(old), NEW x,
           OneWord(old) => OneWord(x), \A msgs : FirstWords(old, msgs) => FirstWords(x, msgs)
    PROVE  Words(x)
BY DEF Words

LEMMA CallToolTold ==
    ASSUME Inv, Told, NEW r \in DOMAIN reqs, CallTool(r)
    PROVE  Told'
<1>1. PICK s : s = reqs[r].session
  OBVIOUS
<1>2. PICK x : /\ Becomes(s, x)
               /\ x.msgs = Append(store[s].msgs, ToolCall(r))
               /\ x.event = [store[s].event EXCEPT !.tool = TRUE]
               /\ x.cont = store[s].cont /\ x.retry = store[s].retry
  BY <1>1, CallToolEffect DEF Inv
<1>3. IsCurrent(r) /\ OnlyPhase(r) /\ reqs'[r].phase = "called" /\ reqs[r].phase = "running" /\ "tools" \in Env
  BY CallToolEffect DEF Inv, CallTool
<1>4. /\ s \in DOMAIN store /\ store[s] \in SessionType /\ store[s].msgs = reqs[r].msgs
      /\ store[s].msgs \in Messages /\ Asks(store[s].msgs)
      /\ Open(store[s]) /\ SessionFits(store[s]) /\ Words(store[s])
      /\ IsActive(s) /\ ~IsWaiting(s) /\ store[s].event.req = r
  BY <1>1, <1>3, Runs
<1>5. x \in SessionType /\ store[s].event \in EventType
  BY <1>2, <1>4 DEF Becomes, SessionType
<1>6. /\ x.event.state = "active" /\ x.event.req = r /\ x.event.tool
      /\ x.event.from = store[s].event.from /\ Open(x)
  BY <1>2, <1>4, <1>5 DEF EventType, Open, IsActive
<1>7. PICK m : m = ToolCall(r) /\ m \in Message /\ m.role = "call"
  <2>1. r \in Nat
    BY RequestAt DEF Inv
  <2> QED
    BY <2>1, MessageTypes, Roles
<1>8. /\ x.msgs = Append(store[s].msgs, m) /\ Shaped(x.msgs) /\ EndsIn(x.msgs, "call")
  BY <1>2, <1>4, <1>7, Replies
<1>9. /\ SessionFits(x) /\ Keeps(store[s], x) /\ EventUsers(x) = EventUsers(store[s])
      /\ OneWord(store[s]) => OneWord(x)
      /\ \A msgs : FirstWords(store[s], msgs) => FirstWords(x, msgs)
  BY <1>2, <1>4, <1>5, <1>6, <1>7, <1>8, Extends
<1>10. Words(x)
  BY <1>4, <1>9, WordsStay
<1>11. /\ \A c \in Client : asked[c] # r => view'[c] = view[c]
       /\ asked[reqs[r].client] = r => view'[reqs[r].client] = x.msgs
       /\ \A c \in Client : Shaped(view'[c])
  <2>1. Sees(r, x.msgs)
    BY <1>2, <1>4 DEF CallTool, Sees
  <2> QED
    BY <1>8, <2>1, Seen
<1>12. Turn(r, s, x) /\ Spares(r, s, x)
  BY <1>1, <1>2, <1>3, <1>4, <1>11 DEF Turn, Spares, CallTool
<1>13. WorksNext(x)
  BY <1>3, <1>6, <1>8, <1>11 DEF WorksNext
<1>14. byTool' = Put(byTool, EventUsers(store[s]), s) /\ byLate' = Without(byLate, {EventUsers(store[s])})
       /\ byHash' = byHash
  BY <1>1 DEF CallTool
<1>15. {} \notin DOMAIN byHash' /\ DOMAIN byLate' = {}
  BY <1>14 DEF Told, Maps, Without, Restrict
<1>16. ASSUME NEW k \in DOMAIN byTool'
       PROVE  \/ byTool'[k] = s /\ ToolEntry(k, x)
              \/ k \in DOMAIN byTool /\ byTool'[k] = byTool[k] /\ byTool[k] # s
  <2>1. CASE k = EventUsers(store[s])
    BY <1>6, <1>9, <1>14, <2>1 DEF Put, ToolEntry
  <2>2. CASE k # EventUsers(store[s])
    <3>1. k \in DOMAIN byTool /\ byTool'[k] = byTool[k]
      BY <1>14, <2>2 DEF Put
    <3>2. byTool[k] # s
      BY <2>2, <3>1 DEF Told, Maps, ToolEntry
    <3> QED
      BY <3>1, <3>2
  <2> QED
    BY <2>1, <2>2
<1> QED
  BY <1>3, <1>4, <1>6, <1>9, <1>10, <1>11, <1>12, <1>13, <1>15, <1>16, TurnTold

LEMMA FinishTold ==
    ASSUME Inv, Told, NEW r \in DOMAIN reqs, Finish(r)
    PROVE  Told'
<1>1. PICK s : s = reqs[r].session
  OBVIOUS
<1>2. PICK x : /\ Becomes(s, x) /\ x.event = [store[s].event EXCEPT !.state = "completed"]
               /\ x.event.state = "completed" /\ x.msgs = Append(store[s].msgs, Answer)
               /\ x.cont = Hash(Append(store[s].msgs, Answer)) /\ x.retry = store[s].cont
  BY <1>1, FinishEffect DEF Inv
<1>3. /\ IsCurrent(r) /\ OnlyPhase(r) /\ reqs'[r].phase = "answered" /\ reqs[r].phase = "running"
      /\ reqs'[r].basis = store[s].msgs
  BY <1>1, FinishEffect DEF Inv, Finish
<1>4. /\ s \in DOMAIN store /\ store[s] \in SessionType /\ store[s].msgs = reqs[r].msgs
      /\ store[s].msgs \in Messages /\ Asks(store[s].msgs)
      /\ Open(store[s]) /\ SessionFits(store[s]) /\ Words(store[s])
      /\ IsActive(s) /\ ~IsWaiting(s) /\ store[s].event.req = r
  BY <1>1, <1>3, Runs
<1>5. x.msgs \in Messages /\ Shaped(x.msgs) /\ EndsIn(x.msgs, "assistant")
  BY <1>2, <1>4, MessageTypes, Roles, Replies
<1>6. ~Open(x) /\ Sealed(x) = x.msgs /\ x.event.tool = store[s].event.tool
  BY <1>2, <1>4 DEF Open, Sealed, SessionType, EventType
<1>7. SessionFits(x) /\ Words(x) /\ WorksNext(x)
  BY <1>2, <1>5, <1>6 DEF SessionFits, Complete, Words, WorksNext
<1>8. Keeps(store[s], x)
  <2>1. PICK n \in Nat : n = Len(store[s].msgs) /\ DOMAIN store[s].msgs = 1 .. n
    BY <1>4, Indices
  <2>2. PICK k \in Nat : k = Len(Sealed(store[s])) /\ k < n
    BY <1>4, <2>1, SealedPart
  <2>3. Len(Sealed(x)) = n + 1
    BY <1>2, <1>4, <1>6, <2>1, MessageTypes, Appended DEF Messages
  <2>4. ASSUME NEW msgs \in Messages, Behind(store[s], msgs) PROVE Behind(x, msgs)
    <3>1. PICK len \in Nat : len = Len(msgs)
      BY Indices
    <3>2. len <= k + 1 \/ len \in 1 .. n
      BY <2>1, <2>2, <2>4, <3>1 DEF Behind
    <3>3. len <= (n + 1) + 1 /\ len # (n + 1) + 1
      BY <2>2, <3>2
    <3> QED
      BY <2>3, <3>1, <3>3 DEF Behind
  <2> QED
    BY <2>4 DEF Keeps
<1>9. /\ \A c \in Client : asked[c] # r => view'[c] = view[c]
      /\ \A c \in Client : Shaped(view'[c])
  <2>1. Sees(r, x.msgs)
    BY <1>2, <1>4 DEF Finish, Sees
  <2> QED
    BY <1>5, <2>1, Seen
<1>10. Turn(r, s, x) /\ Spares(r, s, x)
  BY <1>1, <1>2, <1>3, <1>4, <1>9 DEF Turn, Spares, Finish
<1>11. {} \notin DOMAIN byHash' /\ DOMAIN byLate' = {}
  <2>1. byHash' = Rehash(s, store[s], Hash(Append(store[s].msgs, Answer))) /\ byLate' = byLate
    BY <1>1 DEF Finish
  <2> QED
    BY <2>1 DEF Told, Maps, Rehash, Without, Restrict
<1>12. ASSUME NEW k \in DOMAIN byTool'
       PROVE  k \in DOMAIN byTool /\ byTool'[k] = byTool[k] /\ byTool[k] # s
  <2>1. byTool' = IF store[s].event.tool THEN Without(byTool, {EventUsers(store[s])}) ELSE byTool
    BY <1>1 DEF Finish
  <2>2. /\ k \in DOMAIN byTool /\ byTool'[k] = byTool[k]
        /\ store[s].event.tool => k # EventUsers(store[s])
    BY <2>1 DEF Without, Restrict
  <2> QED
    BY <2>2 DEF Told, Maps, ToolEntry
<1>13. IF "tools" \in Env
       THEN x.event.state = "active" => IsActive(s) \/ \A q \in DOMAIN store : ~IsActive(q)
       ELSE DOMAIN byTool' = {} /\ reqs'[r].phase # "called" /\ ~x.event.tool
  BY <1>3, <1>4, <1>6, <1>12 DEF Told, Regime
<1> QED
  BY <1>3, <1>4, <1>7, <1>8, <1>9, <1>10, <1>11, <1>12, <1>13, TurnTold

(* A request that is refused, or given up by a turn that is not current any more,  *)
(* touches nothing else.                                                          *)
LEMMA StaysPut ==
    ASSUME Inv, Told, NEW r \in DOMAIN reqs, OnlyPhase(r), reqs'[r].phase \in {"refused", "failed"},
           IsActive(reqs[r].session) => store[reqs[r].session].event.req # r,
           UNCHANGED <<scenario, view, asked, store, byHash, byTool, byLate>>
    PROVE  Told'
<1>1. PICK s : s = reqs[r].session
  OBVIOUS
<1>2. PICK x : x = store[s]
  OBVIOUS
<1>3. s \in DOMAIN store /\ Becomes(s, x)
  BY <1>1, <1>2, RequestAt, BecomesItself DEF Inv
<1>4. SessionFits(x) /\ Words(x) /\ Works(s) /\ EventFits(s)
  BY <1>2, <1>3 DEF Told, Sessions, Inv, EventsFit
<1>5. Keeps(store[s], x)
  BY <1>2 DEF Keeps
<1>6. \A c \in Client : Shaped(view'[c])
  BY DEF Told, Clients
<1>7. Turn(r, s, x) /\ Spares(r, s, x)
  BY <1>1, <1>2, <1>3 DEF Turn, Spares, IsWaiting
<1>8. WorksNext(x)
  <2>1. ASSUME x.event.state = "active"
        PROVE  x.event.req \in DOMAIN reqs /\ reqs'[x.event.req] = reqs[x.event.req]
    BY <1>1, <1>2, <1>4, <2>1 DEF EventFits, OnlyPhase, IsActive
  <2> QED
    BY <1>2, <1>4, <2>1 DEF WorksNext, Works
<1>9. {} \notin DOMAIN byHash' /\ DOMAIN byLate' = {}
  BY DEF Told, Maps
<1>10. \A k \in DOMAIN byTool' : \/ byTool'[k] = s /\ ToolEntry(k, x)
                                 \/ k \in DOMAIN byTool /\ byTool'[k] = byTool[k] /\ byTool[k] # s
  BY <1>2 DEF Told, Maps
<1>11. IF "tools" \in Env
       THEN x.event.state = "active" => IsActive(s) \/ \A q \in DOMAIN store : ~IsActive(q)
       ELSE DOMAIN byTool' = {} /\ reqs'[r].phase # "called" /\ ~x.event.tool
  BY <1>2, <1>3 DEF Told, Regime, IsActive
<1> QED
  BY <1>4, <1>5, <1>6, <1>7, <1>8, <1>9, <1>10, <1>11, TurnTold

LEMMA RefuseTold ==
    ASSUME Inv, Told, NEW r \in DOMAIN reqs, Refuse(r)
    PROVE  Told'
<1>1. OnlyPhase(r) /\ reqs'[r].phase = "refused"
  BY PhaseChange DEF Refuse, Inv, Phase
<1>2. reqs[r].phase = "resolved" /\ reqs[r].session \in DOMAIN store
  BY RequestAt DEF Refuse, MayTake, Inv
<1>3. IsActive(reqs[r].session) => store[reqs[r].session].event.req # r
  BY <1>2 DEF Told, Sessions, Works, IsActive
<1> QED
  BY <1>1, <1>3, StaysPut DEF Refuse

LEMMA FailTold ==
    ASSUME Inv, Told, NEW r \in DOMAIN reqs, Fail(r)
    PROVE  Told'
<1>1. OnlyPhase(r) /\ reqs'[r].phase = "failed" /\ reqs[r].phase = "running"
  BY FailEffect DEF Inv, Fail
<1>2. PICK s : s = reqs[r].session
  OBVIOUS
<1>3. CASE ~IsCurrent(r)
  <2>1. UNCHANGED <<scenario, view, asked, store, byHash, byTool, byLate>>
    BY <1>3 DEF Fail
  <2>2. IsActive(reqs[r].session) => store[reqs[r].session].event.req # r
    BY <1>3 DEF IsCurrent, IsActive
  <2> QED
    BY <1>1, <2>1, <2>2, StaysPut
<1>4. CASE IsCurrent(r)
  <2>1. PICK x : /\ Becomes(s, x)
                 /\ x.event.state = "failed" /\ x.msgs = store[s].msgs
                 /\ x.event = [store[s].event EXCEPT !.state = "failed"]
                 /\ x.cont = store[s].cont /\ x.retry = store[s].retry
    <3>1. PICK x : /\ Becomes(s, x)
                   /\ \/ /\ x.event.state = "failed" /\ x.msgs = store[s].msgs /\ IsCurrent(r)
                         /\ x.event = [store[s].event EXCEPT !.state = "failed"]
                      \/ x = store[s] /\ ~IsCurrent(r)
                   /\ x.cont = store[s].cont /\ x.retry = store[s].retry
      BY <1>2, FailEffect DEF Inv
    <3> QED
      BY <1>4, <3>1
  <2>2. /\ s \in DOMAIN store /\ store[s] \in SessionType
        /\ Open(store[s]) /\ SessionFits(store[s]) /\ Words(store[s])
        /\ IsActive(s) /\ ~IsWaiting(s)
    BY <1>1, <1>2, <1>4, Runs
  <2>3. x.event.from = store[s].event.from /\ x.event.tool = store[s].event.tool /\ Open(x)
    BY <2>1, <2>2 DEF SessionType, EventType, Open
  <2>4. /\ SessionFits(x) /\ Keeps(store[s], x) /\ EventUsers(x) = EventUsers(store[s])
        /\ OneWord(store[s]) => OneWord(x)
        /\ \A msgs : FirstWords(store[s], msgs) => FirstWords(x, msgs)
    BY <2>1, <2>2, <2>3, SaysTheSame
  <2>5. Words(x) /\ WorksNext(x)
    BY <2>1, <2>2, <2>4, WordsStay DEF WorksNext
  <2>6. \A c \in Client : Shaped(view'[c])
    BY DEF Told, Clients, Fail
  <2>7. Turn(r, s, x) /\ Spares(r, s, x)
    BY <1>1, <1>2, <2>1, <2>2 DEF Turn, Spares, Fail
  <2>8. {} \notin DOMAIN byHash' /\ DOMAIN byLate' = {}
    BY DEF Told, Maps, Fail
  <2>9. \A k \in DOMAIN byTool' : \/ byTool'[k] = s /\ ToolEntry(k, x)
                                  \/ k \in DOMAIN byTool /\ byTool'[k] = byTool[k] /\ byTool[k] # s
    BY <2>3, <2>4 DEF Told, Maps, Fail, ToolEntry
  <2>10. IF "tools" \in Env
         THEN x.event.state = "active" => IsActive(s) \/ \A q \in DOMAIN store : ~IsActive(q)
         ELSE DOMAIN byTool' = {} /\ reqs'[r].phase # "called" /\ ~x.event.tool
    BY <1>1, <2>1, <2>2, <2>3 DEF Told, Regime, Fail
  <2> QED
    BY <1>1, <2>2, <2>4, <2>5, <2>6, <2>7, <2>8, <2>9, <2>10, TurnTold
<1> QED
  BY <1>3, <1>4

LEMMA LastAppended ==
    ASSUME NEW p \in Messages, NEW q \in Messages, NEW m \in Message, Append(p, m) = Append(q, m)
    PROVE  p = q
<1>1. PICK n \in Nat : n = Len(p) /\ Len(Append(p, m)) = n + 1
  BY Indices, Appended DEF Messages
<1>2. PICK k \in Nat : k = Len(q) /\ Len(Append(q, m)) = k + 1
  BY Indices, Appended DEF Messages
<1>3. n = k /\ DOMAIN p = 1 .. n /\ DOMAIN q = 1 .. n
  BY <1>1, <1>2, Indices
<1>4. \A i \in 1 .. n : p[i] = q[i]
  BY <1>3, Appended DEF Messages
<1> QED
  BY <1>1, <1>2, <1>3, <1>4, SeqEqual DEF Messages

LEMMA ToolRequest ==
    ASSUME Told, NEW r \in DOMAIN reqs
    PROVE  /\ IsToolResponse(reqs[r].msgs) => EndsIn(reqs[r].msgs, "tool")
           /\ ~IsToolResponse(reqs[r].msgs) => EndsIn(reqs[r].msgs, "user")
           /\ Shaped(reqs[r].msgs)
<1>1. Asks(reqs[r].msgs)
  BY DEF Told, Requests
<1> QED
  BY <1>1 DEF Asks, EndsIn, IsToolResponse, Last

LEMMA PreflightTold ==
    ASSUME Inv, Told, NEW r \in DOMAIN reqs, Preflight(r)
    PROVE  Told'
<1>1. PICK s : s = reqs[r].session
  OBVIOUS
<1>2. PICK x : /\ Becomes(s, x)
               /\ \/ /\ ~store[s].event.tool /\ x.event.state # "active"
                     /\ x = RolledBack(store[s]) /\ reqs'[r].phase = "refused"
                  \/ /\ store[s].event.tool /\ x.event = store[s].event
                     /\ Len(store[s].msgs) = Len(x.msgs) + 1
                     /\ \A i \in 1 .. Len(x.msgs) : store[s].msgs[i] = x.msgs[i]
                     /\ Last(store[s].msgs) = ToolResponse
                     /\ x.event.from \in 1 .. Len(x.msgs) + 1
                     /\ reqs'[r].phase = "called"
               /\ x.cont = store[s].cont /\ x.retry = store[s].retry
  BY <1>1, PreflightEffect DEF Inv
<1>3. /\ IsCurrent(r) /\ OnlyPhase(r) /\ reqs[r].phase = "running"
      /\ UNCHANGED <<scenario, view, asked, byHash, byTool, byLate>>
  BY PreflightEffect DEF Inv, Preflight
<1>4. /\ s \in DOMAIN store /\ store[s] \in SessionType /\ store[s].msgs = reqs[r].msgs
      /\ store[s].msgs \in Messages /\ Asks(store[s].msgs)
      /\ Open(store[s]) /\ SessionFits(store[s]) /\ Words(store[s])
      /\ IsActive(s) /\ ~IsWaiting(s) /\ store[s].event.req = r
  BY <1>1, <1>3, Runs
<1>5. x \in SessionType /\ \A c \in Client : Shaped(view[c])
  BY <1>2 DEF Becomes, Told, Clients
<1>6. {} \notin DOMAIN byHash' /\ DOMAIN byLate' = {}
  BY <1>3 DEF Told, Maps
<1>7. CASE ~store[s].event.tool
  <2>1. x = RolledBack(store[s]) /\ reqs'[r].phase = "refused" /\ x.event.state # "active"
    BY <1>2, <1>7
  <2>2. SessionFits(x) /\ ~Open(x) /\ ~x.event.tool /\ Keeps(store[s], x)
    BY <1>4, <1>7, <2>1, RollsBack DEF IsActive
  <2>3. Words(x) /\ WorksNext(x)
    BY <2>1, <2>2 DEF Words, WorksNext
  <2>4. Turn(r, s, x) /\ Spares(r, s, x)
    BY <1>1, <1>2, <1>3, <1>4, <2>1 DEF Turn, Spares
  <2>5. \A k \in DOMAIN byTool' : k \in DOMAIN byTool /\ byTool'[k] = byTool[k] /\ byTool[k] # s
    BY <1>3, <1>7 DEF Told, Maps, ToolEntry
  <2>6. IF "tools" \in Env
        THEN x.event.state = "active" => IsActive(s) \/ \A q \in DOMAIN store : ~IsActive(q)
        ELSE DOMAIN byTool' = {} /\ reqs'[r].phase # "called" /\ ~x.event.tool
    BY <1>3, <1>4, <2>1, <2>2 DEF Told, Regime
  <2> QED
    BY <1>3, <1>5, <1>6, <2>1, <2>2, <2>3, <2>4, <2>5, <2>6, TurnTold
<1>8. CASE store[s].event.tool
  <2>1. /\ x.event = store[s].event /\ Last(store[s].msgs) = ToolResponse /\ reqs'[r].phase = "called"
        /\ Len(store[s].msgs) = Len(x.msgs) + 1
        /\ \A i \in 1 .. Len(x.msgs) : store[s].msgs[i] = x.msgs[i]
    BY <1>2, <1>8
  <2>2. /\ SessionFits(x) /\ Keeps(store[s], x) /\ EventUsers(x) = EventUsers(store[s])
        /\ EndsIn(x.msgs, "call") /\ store[s].msgs = Append(x.msgs, ToolResponse)
        /\ OneWord(store[s]) => OneWord(x)
        /\ \A msgs : FirstWords(store[s], msgs) => FirstWords(x, msgs)
    BY <1>2, <1>4, <1>5, <1>8, <2>1, Retracts
  <2>3. Words(x) /\ x.event.state = "active" /\ x.event.req = r /\ x.event.tool /\ Open(x)
    BY <1>4, <1>8, <2>1, <2>2, WordsStay DEF IsActive, Open
  <2>4. asked[reqs[r].client] = r => view[reqs[r].client] = x.msgs
    <3>1. EndsIn(reqs[r].msgs, "tool")
      BY <1>4, <2>1, Roles DEF Asks, EndsIn, Last
    <3>2. reqs[r].msgs = Append(view[reqs[r].client], ToolResponse)
      BY <1>3, <3>1 DEF Told, Requests, Responds
    <3>3. view[reqs[r].client] \in Messages /\ x.msgs \in Messages
      BY <1>5, RequestAt DEF Inv, Typed, SessionType
    <3> QED
      BY <1>4, <2>2, <3>2, <3>3, MessageTypes, LastAppended
  <2>5. WorksNext(x)
    BY <1>3, <2>1, <2>2, <2>3, <2>4 DEF WorksNext
  <2>6. Turn(r, s, x) /\ Spares(r, s, x)
    BY <1>1, <1>2, <1>3, <1>4, <2>1 DEF Turn, Spares
  <2>7. \A k \in DOMAIN byTool' : \/ byTool'[k] = s /\ ToolEntry(k, x)
                                  \/ k \in DOMAIN byTool /\ byTool'[k] = byTool[k] /\ byTool[k] # s
    BY <1>3, <2>2, <2>3 DEF Told, Maps, ToolEntry
  <2>8. "tools" \in Env
    BY <1>4, <1>8 DEF Told, Regime
  <2> QED
    BY <1>3, <1>4, <1>5, <1>6, <2>1, <2>2, <2>3, <2>5, <2>6, <2>7, <2>8, TurnTold
<1> QED
  BY <1>7, <1>8

LEMMA TakeToolTold ==
    ASSUME Inv, Told, NEW r \in DOMAIN reqs, TakeTool(r)
    PROVE  Told'
<1>1. PICK s \in DOMAIN store : s = reqs[r].session
  BY RequestAt DEF Inv
<1>2. /\ UNCHANGED <<scenario, view, asked, byHash, byTool, byLate>>
      /\ IsActive(s) /\ store[s].event.tool /\ OnlyPhase(r) /\ reqs'[r].phase = "running"
      /\ reqs[r].phase = "resolved" /\ EndsIn(reqs[r].msgs, "tool") /\ Shaped(reqs[r].msgs)
  BY <1>1, TakeToolEffect, ToolRequest DEF Inv, TakeTool, MayTake, ContinuesTool
<1>3. PICK x : /\ Becomes(s, x)
               /\ x.msgs = Append(store[s].msgs, ToolResponse)
               /\ x.event = [store[s].event EXCEPT !.req = r]
               /\ x.cont = store[s].cont /\ x.retry = store[s].retry
  BY <1>1, TakeToolEffect DEF Inv
<1>4. /\ store[s] \in SessionType /\ store[s].event \in EventType /\ x \in SessionType
      /\ SessionFits(store[s]) /\ Words(store[s]) /\ Open(store[s])
  BY <1>2, <1>3, SessionAt DEF Inv, Told, Sessions, Becomes, IsActive, Open
<1>5. /\ x.event.state = "active" /\ x.event.req = r /\ x.event.tool
      /\ x.event.from = store[s].event.from /\ Open(x)
  BY <1>2, <1>3, <1>4 DEF EventType, Open, IsActive
<1>6. "tools" \in Env
  BY <1>2 DEF Told, Regime
<1>7. PICK c \in Client : c = reqs[r].client
  BY RequestAt DEF Inv
<1>8. /\ asked[c] = r /\ reqs[r].msgs = Append(view[c], ToolResponse)
      /\ \E p \in DOMAIN store : Awaited(p, c)
  BY <1>2, <1>7 DEF Told, Requests, Responds
<1>9. IsWaiting(s) /\ store[s].msgs = view[c] /\ reqs[store[s].event.req].client = c
  <2>1. PICK p \in DOMAIN store : Awaited(p, c)
    BY <1>8
  <2>2. p = s
    BY <1>2, <1>6, <2>1 DEF Told, Regime, Awaited, IsWaiting
  <2> QED
    BY <2>1, <2>2 DEF Awaited
<1>10. x.msgs = reqs[r].msgs
  BY <1>3, <1>8, <1>9
<1>11. /\ SessionFits(x) /\ Keeps(store[s], x) /\ EventUsers(x) = EventUsers(store[s])
       /\ OneWord(store[s]) => OneWord(x)
       /\ \A msgs : FirstWords(store[s], msgs) => FirstWords(x, msgs)
  <2>1. PICK m : m = ToolResponse /\ m \in Message /\ m.role # "user"
    BY MessageTypes
  <2>2. x.msgs = Append(store[s].msgs, m) /\ Shaped(x.msgs)
    BY <1>2, <1>3, <1>10, <2>1
  <2> QED
    BY <1>3, <1>4, <1>5, <2>1, <2>2, Extends
<1>12. Words(x) /\ WorksNext(x)
  BY <1>2, <1>4, <1>5, <1>10, <1>11, WordsStay DEF WorksNext
<1>13. Turn(r, s, x) /\ Spares(r, s, x)
  BY <1>1, <1>2, <1>3, <1>8, <1>9 DEF Turn, Spares
<1>14. \A d \in Client : Shaped(view'[d])
  BY <1>2 DEF Told, Clients
<1>15. {} \notin DOMAIN byHash' /\ DOMAIN byLate' = {}
  BY <1>2 DEF Told, Maps
<1>16. \A k \in DOMAIN byTool' : \/ byTool'[k] = s /\ ToolEntry(k, x)
                                 \/ k \in DOMAIN byTool /\ byTool'[k] = byTool[k] /\ byTool[k] # s
  BY <1>2, <1>5, <1>11 DEF Told, Maps, ToolEntry
<1> QED
  BY <1>2, <1>6, <1>11, <1>12, <1>13, <1>14, <1>15, <1>16, TurnTold

(* Without its start a history is what is new of it.                              *)
LEMMA Joined ==
    ASSUME NEW msgs \in Messages, NEW n \in 0 .. Len(msgs), NEW p, p = SubSeq(msgs, 1, n)
    PROVE  /\ p \o SubSeq(msgs, Len(p) + 1, Len(msgs)) = msgs
           /\ SubSeq(msgs, Len(p) + 1, Len(msgs)) = <<>> <=> n = Len(msgs)
<1>1. PICK len \in Nat : len = Len(msgs)
  BY Indices
<1>2. \A i \in 1 .. len : msgs[i] \in Message
  BY <1>1, Indices
<1>3. p \in Messages /\ Len(p) = n /\ \A i \in 1 .. n : p[i] = msgs[i]
  BY PartOf
<1>4. PICK q : q = SubSeq(msgs, n + 1, Len(msgs))
  OBVIOUS
<1>5. q \in Messages
  <2>1. n + 1 \in Nat \ {0}
    BY <1>1
  <2> QED
    BY <1>4, <2>1, RestOf
<1>6. Len(q) = len - n /\ \A i \in 1 .. len - n : q[i] = msgs[n + i]
  <2>1. \A i \in n + 1 .. len : msgs[i] \in Message
    BY <1>1, <1>2
  <2>2. /\ Len(q) = (IF n + 1 <= len THEN len - (n + 1) + 1 ELSE 0)
        /\ \A i \in 1 .. len - (n + 1) + 1 : q[i] = msgs[n + 1 + i - 1]
    BY <1>1, <1>4, <2>1, SubSeqProperties
  <2>3. (IF n + 1 <= len THEN len - (n + 1) + 1 ELSE 0) = len - n
    BY <1>1
  <2>4. len - (n + 1) + 1 = len - n /\ \A i \in 1 .. len - n : n + 1 + i - 1 = n + i
    BY <1>1
  <2> QED
    BY <2>2, <2>3, <2>4
<1>7. PICK a : a = p \o q
  OBVIOUS
<1>8. /\ a \in Messages /\ Len(a) = Len(p) + Len(q)
      /\ \A i \in 1 .. Len(p) + Len(q) : a[i] = IF i <= Len(p) THEN p[i] ELSE q[i - Len(p)]
  BY <1>3, <1>5, <1>7, ConcatProperties DEF Messages
<1>9. Len(a) = len /\ \A i \in 1 .. len : a[i] = IF i <= n THEN p[i] ELSE q[i - n]
  <2>1. n + (len - n) = len
    BY <1>1
  <2> QED
    BY <1>3, <1>6, <1>8, <2>1
<1>10. ASSUME NEW i \in 1 .. len PROVE a[i] = msgs[i]
  <2>1. CASE i <= n
    <3>1. i \in 1 .. n
      BY <1>1, <2>1
    <3> QED
      BY <1>3, <1>9, <2>1, <3>1
  <2>2. CASE ~(i <= n)
    <3>1. i - n \in 1 .. len - n /\ n + (i - n) = i
      BY <1>1, <2>2
    <3> QED
      BY <1>6, <1>9, <2>2, <3>1
  <2> QED
    BY <2>1, <2>2
<1>11. a = msgs
  BY <1>1, <1>8, <1>9, <1>10, SeqEqual DEF Messages
<1>12. q = <<>> <=> n = len
  <2>1. q = <<>> <=> Len(q) = 0
    BY <1>5, Indices
  <2> QED
    BY <1>1, <1>6, <2>1
<1> QED
  BY <1>1, <1>3, <1>4, <1>7, <1>11, <1>12

LEMMA Whole ==
    ASSUME NEW msgs \in Messages
    PROVE  SubSeq(msgs, 1, Len(msgs)) = msgs
<1>1. PICK n \in Nat : n = Len(msgs) /\ n \in 0 .. Len(msgs)
  BY Indices
<1>2. PICK a : a = SubSeq(msgs, 1, n)
  OBVIOUS
<1>3. a \in Messages /\ Len(a) = n /\ \A i \in 1 .. n : a[i] = msgs[i]
  BY <1>1, <1>2, PartOf
<1>4. a = msgs
  BY <1>1, <1>3, SeqEqual DEF Messages
<1> QED
  BY <1>1, <1>2, <1>4

LEMMA SomethingNew ==
    ASSUME NEW msgs \in Messages, NEW session, session.msgs \in Messages
    PROVE  NewMessages(msgs, session) # <<>> <=> Len(session.msgs) < Len(msgs)
<1>1. PICK len \in Nat : len = Len(msgs)
  BY Indices
<1>2. PICK n \in Nat : n = Len(session.msgs)
  BY Indices
<1>3. PICK q : q = SubSeq(msgs, n + 1, len)
  OBVIOUS
<1>4. q \in Messages
  <2>1. n + 1 \in Nat \ {0}
    BY <1>2
  <2> QED
    BY <1>1, <1>3, <2>1, RestOf
<1>5. Len(q) = IF n + 1 <= len THEN len - (n + 1) + 1 ELSE 0
  <2>1. PICK m \in Nat : m = n + 1 /\ m # 0
    BY <1>2
  <2>2. \A i \in m .. len : msgs[i] \in Message
    BY <1>1, <2>1, Indices
  <2>3. q = SubSeq(msgs, m, len)
    BY <1>3, <2>1
  <2>4. Len(q) = IF m <= len THEN len - m + 1 ELSE 0
    BY <2>2, <2>3, SubSeqProperties
  <2> QED
    BY <2>1, <2>4
<1>6. q = <<>> <=> Len(q) = 0
  BY <1>4, Indices
<1>7. Len(q) = 0 <=> ~(n < len)
  BY <1>5
<1> QED
  BY <1>1, <1>2, <1>3, <1>6, <1>7 DEF NewMessages

(* When a request has more than its session, the session has what comes before    *)
(* its last message, or nothing.                                                  *)
LEMMA NewTurn ==
    ASSUME NEW session \in SessionType, SessionFits(session),
           NEW msgs \in Messages, EndsIn(msgs, "user"),
           session = NewSession \/ Behind(session, msgs),
           ~(session.event.state = "active" /\ session.event.tool),
           NEW base, base = IF NewMessages(msgs, session) = <<>> THEN RolledBack(session) ELSE session,
           NewMessages(msgs, base) # <<>>
    PROVE  /\ base.msgs \o NewMessages(msgs, base) = msgs
           /\ Len(base.msgs) = Len(Sealed(session)) /\ Sealed(session) = SubSeq(msgs, 1, Len(Sealed(session)))
           /\ Len(Sealed(session)) \in 0 .. Len(msgs) - 1
           /\ Len(Sealed(session)) = 0 \/ Len(Sealed(session)) + 1 = Len(msgs)
           /\ ~(Open(session) /\ session.event.tool)
<1>1. PICK len \in Nat : len = Len(msgs) /\ len # 0
  BY Indices DEF EndsIn
<1>2. PICK part \in Messages : part = Sealed(session)
  BY SealedPart
<1>3. PICK n \in Nat : n = Len(part)
  BY Indices
<1>4. SUFFICES ASSUME base.msgs = part, part = SubSeq(msgs, 1, n), n < len, n = 0 \/ n + 1 = len,
                      ~(Open(session) /\ session.event.tool)
               PROVE  base.msgs \o NewMessages(msgs, base) = msgs
  <2>1. /\ base.msgs = part /\ part = SubSeq(msgs, 1, n) /\ n < len /\ (n = 0 \/ n + 1 = len)
        /\ ~(Open(session) /\ session.event.tool)
    <3>1. CASE session = NewSession
      <4>1. RolledBack(session) = session /\ ~Open(session) /\ part = <<>> /\ session.msgs = <<>>
        BY <1>2, <3>1, NewSessionFits DEF RolledBack, NewSession, NoEvent
      <4>2. n = 0
        BY <1>2, <1>3, <4>1, Indices
      <4>3. base.msgs = part
        BY <4>1
      <4>4. SubSeq(msgs, 1, n) = <<>>
        <5>1. 0 \in 0 .. Len(msgs)
          BY <1>1
        <5>2. PICK a : a = SubSeq(msgs, 1, 0)
          OBVIOUS
        <5>3. a \in Messages /\ Len(a) = 0
          BY <5>1, <5>2, PartOf
        <5> QED
          BY <4>2, <5>2, <5>3, Indices
      <4> QED
        BY <1>1, <4>1, <4>2, <4>3, <4>4
    <3>2. CASE session # NewSession
      <4>1. Behind(session, msgs)
        BY <3>2
      <4>2. PICK m \in Nat : m = Len(session.msgs) /\ (Open(session) => n < m) /\ (~Open(session) => m = n)
            /\ session.msgs \in Messages
        BY <1>2, <1>3, SealedPart
      <4>3. CASE Open(session) /\ session.event.tool /\ Len(msgs) \in DOMAIN session.msgs
        <5>1. base = session
          BY <4>3 DEF RolledBack
        <5>2. len <= m
          BY <1>1, <4>2, <4>3, Indices
        <5> QED
          BY <1>1, <4>2, <5>1, <5>2, SomethingNew
      <4>4. CASE len <= n + 1 /\ (len = n + 1 => part = SubSeq(msgs, 1, len - 1))
        <5>1. base.msgs = part /\ ~(Open(session) /\ session.event.tool)
          <6>1. CASE Open(session)
            <7>1. ~(m < len)
              BY <4>2, <4>4, <6>1
            <7>2. base = RolledBack(session)
              BY <1>1, <4>2, <7>1, SomethingNew
            <7>3. session.event.state = "active"
              <8>1. ASSUME session.event.state # "active" PROVE FALSE
                <9>1. base = session
                  BY <7>2, <8>1 DEF RolledBack
                <9> QED
                  BY <1>1, <4>2, <7>1, <9>1, SomethingNew
              <8> QED
                BY <8>1
            <7>4. base.msgs = SubSeq(session.msgs, 1, session.event.from - 1)
              BY <7>2, <7>3 DEF RolledBack, SessionType
            <7> QED
              BY <1>2, <6>1, <7>3, <7>4 DEF Sealed
          <6>2. CASE ~Open(session)
            <7>1. base = session
              BY <6>2 DEF RolledBack, Open
            <7> QED
              BY <1>2, <6>2, <7>1 DEF Sealed
          <6> QED
            BY <6>1, <6>2
        <5>2. n < len
          BY <1>1, <1>3, <5>1, SomethingNew
        <5>3. len = n + 1 /\ len - 1 = n
          BY <4>4, <5>2
        <5> QED
          BY <4>4, <5>1, <5>2, <5>3
      <4> QED
        BY <1>1, <1>2, <1>3, <4>1, <4>3, <4>4 DEF Behind
    <3> QED
      BY <3>1, <3>2
  <2>2. n \in 0 .. len - 1
    BY <2>1
  <2> QED
    BY <1>1, <1>2, <1>3, <1>4, <2>1, <2>2
<1>5. n \in 0 .. Len(msgs)
  BY <1>1, <1>4
<1> QED
  BY <1>3, <1>4, <1>5, Joined DEF NewMessages

LEMMA TakeTold ==
    ASSUME Inv, Told, Premise, NEW r \in DOMAIN reqs, Take(r)
    PROVE  Told'
<1>1. PICK s \in DOMAIN store : s = reqs[r].session
  BY RequestAt DEF Inv
<1>2. /\ UNCHANGED <<scenario, view, asked, byHash, byTool, byLate>>
      /\ ~(IsActive(s) /\ store[s].event.tool) /\ OnlyPhase(r) /\ MayTake(r)
      /\ reqs[r].phase = "resolved" /\ EndsIn(reqs[r].msgs, "user") /\ Shaped(reqs[r].msgs)
      /\ reqs[r].msgs \in Messages
  BY <1>1, TakeEffect, ToolRequest, RequestAt DEF Inv, Take, MayTake
<1>3. PICK x : /\ Becomes(s, x)
               /\ \/ x.event.state # "active" /\ x = Base(r) /\ x = RolledBack(store[s])
                     /\ reqs'[r].phase = "nothing new"
                  \/ LET new == NewMessages(reqs[r].msgs, Base(r)) IN
                     /\ x.event = [state |-> "active", req |-> r, tool |-> FALSE,
                                   from |-> Len(Base(r).msgs) + 1]
                     /\ x.event.from \in 1 .. Len(x.msgs) + 1
                     /\ new # <<>> /\ x.msgs = Base(r).msgs \o new
                     /\ reqs'[r].phase = "running"
               /\ x.cont = store[s].cont /\ x.retry = store[s].retry
  BY <1>1, TakeEffect DEF Inv
<1>4. /\ store[s] \in SessionType /\ SessionFits(store[s]) /\ Words(store[s]) /\ Works(s)
      /\ ~(store[s].event.state = "active" /\ store[s].event.tool)
  BY <1>2, SessionAt DEF Inv, Told, Sessions, IsActive
<1>5. ~IsWaiting(s)
  BY <1>4 DEF Works, IsWaiting, IsActive
<1>6. /\ \A c \in Client : Shaped(view'[c])
      /\ {} \notin DOMAIN byHash' /\ DOMAIN byLate' = {}
  BY <1>2 DEF Told, Clients, Maps
<1>7. reqs'[r].phase \in {"nothing new", "running"}
  BY <1>3
<1>8. Turn(r, s, x) /\ Spares(r, s, x)
  BY <1>1, <1>2, <1>3, <1>5, <1>7 DEF Turn, Spares
<1>9. CASE x.event.state # "active"
  <2>1. x = RolledBack(store[s])
    <3>1. PICK n : n = Len(Base(r).msgs) + 1
      OBVIOUS
    <3>2. x.event # [state |-> "active", req |-> r, tool |-> FALSE, from |-> n]
      BY <1>9
    <3> QED
      BY <1>3, <3>1, <3>2
  <2>2. /\ SessionFits(x) /\ Keeps(store[s], x)
        /\ store[s].event.state = "active" => ~Open(x) /\ ~x.event.tool
        /\ store[s].event.state # "active" => x = store[s]
    BY <1>4, <2>1, RollsBack
  <2>3. Words(x) /\ WorksNext(x)
    BY <1>4, <1>9, <2>2 DEF Words, WorksNext
  <2>4. \A k \in DOMAIN byTool' : \/ byTool'[k] = s /\ ToolEntry(k, x)
                                  \/ k \in DOMAIN byTool /\ byTool'[k] = byTool[k] /\ byTool[k] # s
    BY <1>2, <1>4, <2>2 DEF Told, Maps, ToolEntry
  <2>5. IF "tools" \in Env
        THEN x.event.state = "active" => IsActive(s) \/ \A q \in DOMAIN store : ~IsActive(q)
        ELSE DOMAIN byTool' = {} /\ reqs'[r].phase # "called" /\ ~x.event.tool
    BY <1>2, <1>7, <1>9, <2>2 DEF Told, Regime
  <2> QED
    BY <1>6, <1>7, <1>8, <2>2, <2>3, <2>4, <2>5, TurnTold
<1>10. CASE x.event.state = "active"
  <2>1. PICK base : base = Base(r)
    OBVIOUS
  <2>2. /\ x.event = [state |-> "active", req |-> r, tool |-> FALSE, from |-> Len(base.msgs) + 1]
        /\ x.msgs = base.msgs \o NewMessages(reqs[r].msgs, base) /\ NewMessages(reqs[r].msgs, base) # <<>>
        /\ reqs'[r].phase = "running" /\ x.cont = store[s].cont
    BY <1>3, <1>10, <2>1
  <2>3. base = IF NewMessages(reqs[r].msgs, store[s]) = <<>> THEN RolledBack(store[s]) ELSE store[s]
    BY <1>1, <2>1 DEF Base
  <2>4. store[s] = NewSession \/ Behind(store[s], reqs[r].msgs)
    BY <1>1, <1>2 DEF Told, Requests, Waits, Alone
  <2>5. PICK part \in Messages : part = Sealed(store[s])
    BY <1>4, SealedPart
  <2>6. /\ x.msgs = reqs[r].msgs
        /\ Len(base.msgs) = Len(part) /\ part = SubSeq(reqs[r].msgs, 1, Len(part))
        /\ Len(part) \in 0 .. Len(reqs[r].msgs) - 1
        /\ Len(part) = 0 \/ Len(part) + 1 = Len(reqs[r].msgs)
        /\ ~(Open(store[s]) /\ store[s].event.tool)
    <3>1. PICK session \in SessionType : session = store[s]
      BY <1>4
    <3>2. PICK msgs \in Messages : msgs = reqs[r].msgs
      BY <1>2
    <3>3. /\ SessionFits(session) /\ EndsIn(msgs, "user")
          /\ session = NewSession \/ Behind(session, msgs)
          /\ ~(session.event.state = "active" /\ session.event.tool)
      BY <1>2, <1>4, <2>4, <3>1, <3>2
    <3>4. /\ base = IF NewMessages(msgs, session) = <<>> THEN RolledBack(session) ELSE session
          /\ NewMessages(msgs, base) # <<>>
      BY <2>2, <2>3, <3>1, <3>2
    <3>5. /\ base.msgs \o NewMessages(msgs, base) = msgs
          /\ Len(base.msgs) = Len(Sealed(session)) /\ Sealed(session) = SubSeq(msgs, 1, Len(Sealed(session)))
          /\ Len(Sealed(session)) \in 0 .. Len(msgs) - 1
          /\ Len(Sealed(session)) = 0 \/ Len(Sealed(session)) + 1 = Len(msgs)
          /\ ~(Open(session) /\ session.event.tool)
      BY <3>3, <3>4, NewTurn
    <3> QED
      BY <2>2, <2>5, <3>1, <3>2, <3>5
  <2>7. PICK n \in Nat : n = Len(part)
    BY Indices
  <2>8. PICK len \in Nat : len = Len(reqs[r].msgs) /\ DOMAIN reqs[r].msgs = 1 .. len
    BY <1>2, Indices
  <2>9. /\ x.event.from = n + 1 /\ x.event.req = r /\ ~x.event.tool /\ Open(x)
        /\ n + 1 \in 1 .. len /\ n + 1 - 1 = n /\ (n = 0 \/ n + 1 = len)
    BY <2>2, <2>6, <2>7, <2>8 DEF Open
  <2>10. Sealed(x) = part
    BY <2>6, <2>7, <2>9 DEF Sealed
  <2>11. SessionFits(x)
    BY <1>2, <1>4, <2>2, <2>5, <2>6, <2>8, <2>9, <2>10 DEF SessionFits
  <2>12. Keeps(store[s], x)
    BY <2>5, <2>6, <2>10 DEF Keeps, Behind
  <2>13. Words(x)
    <3>1. CASE n = 0
      <4>1. x.event.from = 1
        BY <2>9, <3>1
      <4>2. SubSeq(x.msgs, 1, Len(x.msgs)) = x.msgs
        BY <1>2, <2>6, Whole
      <4>3. EventUsers(x) = Users(reqs[r].msgs)
        BY <2>6, <4>1, <4>2 DEF EventUsers
      <4>4. len \in 1 .. len /\ reqs[r].msgs[len].role = "user"
        BY <1>2, <2>8, <2>9 DEF EndsIn
      <4>5. FirstWords(x, reqs[r].msgs)
        BY <1>2, <2>6, <2>8, <4>3, <4>4 DEF FirstWords
      <4> QED
        BY <4>5 DEF Words
    <3>2. CASE n + 1 = len
      <4>1. \A i \in DOMAIN x.msgs : ~(i > x.event.from)
        BY <2>6, <2>8, <2>9, <3>2
      <4> QED
        BY <4>1 DEF Words, OneWord
    <3> QED
      BY <2>9, <3>1, <3>2
  <2>14. WorksNext(x)
    BY <2>2, <2>6, <2>9 DEF WorksNext
  <2>15. \A k \in DOMAIN byTool' : k \in DOMAIN byTool /\ byTool'[k] = byTool[k] /\ byTool[k] # s
    BY <1>2, <2>6 DEF Told, Maps, ToolEntry
  <2>16. IF "tools" \in Env
         THEN x.event.state = "active" => IsActive(s) \/ \A q \in DOMAIN store : ~IsActive(q)
         ELSE DOMAIN byTool' = {} /\ reqs'[r].phase # "called" /\ ~x.event.tool
    <3>1. CASE "tools" \in Env
      <4>1. ASSUME NEW q \in DOMAIN store, IsActive(q) PROVE FALSE
        <5>1. store[q].event.req \in DOMAIN reqs /\ Works(q) /\ store[q].event.state = "active"
          BY <4>1, RequestOfEvent DEF Inv, Told, Sessions, IsActive
        <5>2. Adhoc
          BY <3>1 DEF Premise
        <5>3. reqs[store[q].event.req].phase # "running" /\ (IsWaiting(q) => q = s)
          BY <1>1, <1>2, <5>1, <5>2 DEF MayTake
        <5>4. reqs[store[q].event.req].phase = "called"
          BY <5>1, <5>3 DEF Works
        <5> QED
          BY <1>5, <4>1, <5>3, <5>4 DEF IsWaiting
      <4> QED
        BY <3>1, <4>1
    <3>2. CASE "tools" \notin Env
      BY <1>2, <2>2, <2>9, <3>2 DEF Told, Regime
    <3> QED
      BY <3>1, <3>2
  <2> QED
    BY <1>6, <1>8, <2>2, <2>11, <2>12, <2>13, <2>14, <2>15, <2>16, TurnTold
<1> QED
  BY <1>9, <1>10

LEMMA CancelTold ==
    ASSUME Inv, Told, Premise, NEW s \in DOMAIN store, Cancel(s)
    PROVE  Told'
<1>1. /\ IsActive(s) /\ "cancel" \in Env
      /\ UNCHANGED <<scenario, view, asked, byHash, byTool, byLate>>
  BY DEF Cancel
<1>2. "tools" \notin Env
  BY <1>1 DEF Premise
<1>3. PICK r \in DOMAIN reqs : r = store[s].event.req /\ reqs[r].session = s
  BY <1>1, RequestOfEvent DEF Inv
<1>4. /\ \A q \in DOMAIN reqs : reqs[q].phase # "called"
      /\ ~store[s].event.tool /\ DOMAIN byTool = {}
  BY <1>2 DEF Told, Regime
<1>5. reqs' = reqs /\ ~IsWaiting(s)
  BY <1>3, <1>4 DEF Cancel, IsWaiting
<1>6. /\ store[s] \in SessionType /\ SessionFits(store[s]) /\ Works(s) /\ store[s].event.state = "active"
  BY <1>1, SessionAt DEF Inv, Told, Sessions, IsActive
<1>7. reqs[r].phase = "running"
  BY <1>3, <1>4, <1>6 DEF Works
<1>8. PICK x : Becomes(s, x) /\ x.event.state # "active" /\ x = RolledBack(store[s])
  BY CancelEffect DEF Inv
<1>9. SessionFits(x) /\ Keeps(store[s], x) /\ ~Open(x) /\ ~x.event.tool
  BY <1>4, <1>6, <1>8, RollsBack
<1>10. Words(x) /\ WorksNext(x)
  BY <1>8, <1>9 DEF Words, WorksNext
<1>11. OnlyPhase(r)
  BY <1>5 DEF OnlyPhase, Inv, Typed
<1>12. Turn(r, s, x) /\ Spares(r, s, x)
  BY <1>1, <1>3, <1>5, <1>7, <1>8, <1>11 DEF Turn, Spares
<1>13. /\ \A c \in Client : Shaped(view'[c])
       /\ {} \notin DOMAIN byHash' /\ DOMAIN byLate' = {} /\ DOMAIN byTool' = {}
  BY <1>1, <1>4 DEF Told, Clients, Maps
<1> QED
  BY <1>2, <1>5, <1>7, <1>8, <1>9, <1>10, <1>12, <1>13, TurnTold

(* No tool call is given up.                                                      *)
LEMMA NoToolTimeout ==
    ASSUME Inv, Told, Premise, NEW s \in DOMAIN store, ToolTimeout(s)
    PROVE  FALSE
<1>1. IsWaiting(s) /\ "late" \in Env
  BY DEF ToolTimeout
<1>2. reqs[store[s].event.req].phase = "called" /\ store[s].event.req \in DOMAIN reqs
  BY <1>1, RequestOfEvent DEF Inv, IsWaiting
<1>3. "tools" \notin Env
  BY <1>1 DEF Premise
<1> QED
  BY <1>2, <1>3 DEF Told, Regime

(* The coming of x, the n-th request, of client c: it finds a session that it is  *)
(* not ahead of, or its answer, or has one made.                                  *)
Comes(c, msgs, n, x) ==
    /\ Grows
    /\ n \in DOMAIN reqs' /\ n \notin DOMAIN reqs /\ \A q \in DOMAIN reqs' : q \in DOMAIN reqs \/ q = n
    /\ reqs'[n] = x /\ x.client = c /\ x.msgs = msgs /\ x.phase \in {"resolved", "answered"}
    /\ x.phase = "answered" => x.basis = msgs
    /\ asked'[c] = n /\ \A d \in Client : d # c => asked'[d] = asked[d] /\ view'[d] = view[d]
    /\ x.phase = "resolved" => view'[c] = view[c]
    /\ \A d \in Client : Shaped(view'[d])
    /\ DOMAIN byLate' = {}
    /\ IF x.session \in DOMAIN store
       THEN /\ store[x.session] # NewSession
            /\ x.phase = "resolved" /\ EndsIn(msgs, "user") => Behind(store[x.session], msgs)
       ELSE store'[x.session] = NewSession

(* A tool response is for the tool call of the last request, and the client of a  *)
(* tool response on its way waits.                                                *)
MayAsk(c, msgs) ==
    /\ EndsIn(msgs, "tool") =>
         asked[c] # None /\ reqs[asked[c]].phase = "called" /\ msgs = Append(view[c], ToolResponse)
    /\ asked[c] # None /\ EndsIn(reqs[asked[c]].msgs, "tool") =>
         reqs[asked[c]].phase \notin {"resolved", "running"}

LEMMA ComesTold ==
    ASSUME Inv, Told, NEW c \in Client, NEW msgs \in Messages, Asks(msgs), MayAsk(c, msgs),
           NEW n, NEW x, Comes(c, msgs, n, x)
    PROVE  Told'
<1>1. /\ \A q \in DOMAIN reqs : q \in DOMAIN reqs' /\ reqs'[q] = reqs[q] /\ q # n
      /\ \A s \in DOMAIN store : s \in DOMAIN store' /\ store'[s] = store[s]
      /\ \A s \in DOMAIN store' : s \in DOMAIN store \/ store'[s] = NewSession
      /\ \A q \in DOMAIN reqs' : q \in DOMAIN reqs \/ q = n
      /\ Shrinks(byHash, byHash') /\ Shrinks(byTool, byTool') /\ Env' = Env
      /\ x.session \in DOMAIN store'
  BY DEF Comes, Grows, Typed, Env
<1>2. /\ reqs'[n] = x /\ x.client = c /\ x.msgs = msgs /\ asked'[c] = n
      /\ \A d \in Client : d # c => asked'[d] = asked[d] /\ view'[d] = view[d]
  BY DEF Comes
<1>3. NewSession.event.state = "none" /\ ~NewSession.event.tool
  BY DEF NewSession, NoEvent
<1>4. ASSUME NEW s \in DOMAIN store PROVE Works(s)'
  <2>1. Works(s) /\ EventFits(s) /\ store'[s] = store[s]
    BY <1>1 DEF Told, Sessions, Inv, EventsFit
  <2>2. CASE store[s].event.state = "active"
    <3>1. PICK q \in DOMAIN reqs : q = store[s].event.req /\ reqs'[q] = reqs[q] /\ q # n
      BY <1>1, <2>1, <2>2 DEF EventFits
    <3>2. reqs[q].client \in Client
      BY RequestAt DEF Inv
    <3>3. asked'[reqs[q].client] = q => asked[reqs[q].client] = q /\ view'[reqs[q].client] = view[reqs[q].client]
      BY <1>2, <3>1, <3>2
    <3> QED
      BY <2>1, <2>2, <3>1, <3>3 DEF Works
  <2>3. CASE store[s].event.state # "active"
    BY <2>1, <2>3 DEF Works
  <2> QED
    BY <2>2, <2>3
<1>5. Sessions'
  <2>1. ASSUME NEW session, Words(session) PROVE Words(session)'
    BY <1>1, <2>1 DEF Words
  <2>2. ASSUME NEW s \in DOMAIN store' PROVE Words(store[s])'
    <3>1. PICK session : session = store'[s]
      OBVIOUS
    <3>2. Words(session)
      BY <1>1, <3>1, NewSessionFits DEF Told, Sessions, Words
    <3>3. Words(session)'
      BY <2>1, <3>2
    <3> QED
      BY <3>1, <3>3 DEF Words
  <2>3. ASSUME NEW s \in DOMAIN store' PROVE SessionFits(store'[s])
    BY <1>1, NewSessionFits DEF Told, Sessions
  <2>4. ASSUME NEW s \in DOMAIN store' PROVE Works(s)'
    <3>1. CASE s \in DOMAIN store
      BY <1>4, <3>1
    <3>2. CASE store'[s] = NewSession
      BY <1>3, <3>2 DEF Works
    <3> QED
      BY <1>1, <3>1, <3>2
  <2> QED
    BY <2>2, <2>3, <2>4 DEF Sessions
<1>6. ASSUME NEW q \in DOMAIN reqs
      PROVE  /\ Asks(reqs[q].msgs) /\ Waits(q) /\ Responds(q) /\ Answered(q)
             /\ reqs[q].client \in Client /\ reqs[q].session \in DOMAIN store
             /\ reqs'[q] = reqs[q]
  BY <1>1, <1>6, RequestAt DEF Told, Requests, Inv
<1>7. ASSUME NEW d \in Client, view'[d] = view[d], NEW p \in DOMAIN store, Awaited(p, d) PROVE Awaited(p, d)'
  <2>1. PICK q \in DOMAIN reqs : q = store[p].event.req
    BY <1>7, RequestOfEvent DEF Awaited, IsWaiting, Inv
  <2>2. reqs'[q] = reqs[q] /\ store'[p] = store[p]
    BY <1>1, <2>1
  <2> QED
    BY <1>7, <2>1, <2>2 DEF Awaited, IsWaiting, IsActive
<1>8. ASSUME NEW q \in DOMAIN reqs PROVE Waits(q)'
  <2>1. SUFFICES ASSUME reqs[q].phase = "resolved", EndsIn(reqs[q].msgs, "user")
                 PROVE  Alone(q)' \/ Behind(store'[reqs[q].session], reqs[q].msgs)
    BY <1>6 DEF Waits
  <2>2. Alone(q) \/ Behind(store[reqs[q].session], reqs[q].msgs)
    BY <1>6, <2>1 DEF Waits
  <2>3. store'[reqs[q].session] = store[reqs[q].session]
    BY <1>1, <1>6
  <2>4. ASSUME Alone(q) PROVE Alone(q)'
    <3>1. store[reqs[q].session] = NewSession
      BY <2>4 DEF Alone
    <3>2. x.session # reqs[q].session
      BY <1>6, <3>1 DEF Comes
    <3>3. ASSUME NEW p \in DOMAIN reqs', reqs'[p].session = reqs[q].session PROVE p = q
      <4>1. p \in DOMAIN reqs /\ reqs'[p] = reqs[p]
        BY <1>1, <1>2, <3>2, <3>3
      <4> QED
        BY <2>4, <3>3, <4>1 DEF Alone
    <3> QED
      BY <1>6, <2>3, <3>1, <3>3 DEF Alone
  <2> QED
    BY <2>2, <2>3, <2>4
<1>9. Waits(n)'
  <2>1. SUFFICES ASSUME x.phase = "resolved", EndsIn(msgs, "user")
                 PROVE  Alone(n)' \/ Behind(store'[x.session], msgs)
    BY <1>2 DEF Waits
  <2>2. CASE x.session \in DOMAIN store
    BY <1>1, <2>1, <2>2 DEF Comes
  <2>3. CASE x.session \notin DOMAIN store
    <3>1. store'[x.session] = NewSession
      BY <2>3 DEF Comes
    <3>2. ASSUME NEW q \in DOMAIN reqs', reqs'[q].session = x.session PROVE q = n
      BY <1>1, <1>6, <2>3, <3>2
    <3> QED
      BY <1>2, <3>1, <3>2 DEF Alone
  <2> QED
    BY <2>2, <2>3
<1>10. ASSUME NEW q \in DOMAIN reqs PROVE Responds(q)'
  <2>1. PICK d \in Client : d = reqs[q].client
    BY <1>6
  <2>2. SUFFICES ASSUME reqs[q].phase \in {"resolved", "running"}, EndsIn(reqs[q].msgs, "tool")
                 PROVE  /\ asked'[d] = q /\ reqs[q].msgs = Append(view'[d], ToolResponse)
                        /\ reqs[q].phase = "resolved" => \E p \in DOMAIN store' : Awaited(p, d)'
    BY <1>6, <2>1 DEF Responds
  <2>3. /\ asked[d] = q /\ reqs[q].msgs = Append(view[d], ToolResponse)
        /\ reqs[q].phase = "resolved" => \E p \in DOMAIN store : Awaited(p, d)
    BY <1>6, <2>1, <2>2 DEF Responds
  <2>4. d # c
    <3>1. asked[d] # None
      BY <2>3, RequestAt, SessionAssumption DEF Inv
    <3> QED
      BY <2>2, <2>3, <3>1 DEF MayAsk
  <2>5. asked'[d] = q /\ view'[d] = view[d]
    BY <1>2, <2>3, <2>4
  <2> QED
    BY <1>1, <1>7, <2>3, <2>5
<1>11. Responds(n)'
  <2>1. SUFFICES ASSUME x.phase = "resolved", EndsIn(msgs, "tool")
                 PROVE  msgs = Append(view'[c], ToolResponse) /\ \E p \in DOMAIN store' : Awaited(p, c)'
    <3>1. x.phase # "running"
      BY DEF Comes
    <3> QED
      BY <1>2, <3>1, <2>1 DEF Responds
  <2>2. asked[c] # None /\ reqs[asked[c]].phase = "called" /\ msgs = Append(view[c], ToolResponse)
    BY <2>1 DEF MayAsk
  <2>3. view'[c] = view[c]
    BY <2>1 DEF Comes
  <2>4. PICK q \in DOMAIN reqs : q = asked[c]
    BY <2>2 DEF Inv, Typed
  <2>5. PICK p \in DOMAIN store : p = reqs[q].session
    BY <1>6
  <2>6. reqs[q].client = c /\ IsActive(p) /\ store[p].event.req = q
    BY <2>2, <2>4, <2>5 DEF Told, Clients, Calls
  <2>7. IsWaiting(p)
    BY <2>2, <2>4, <2>6 DEF IsWaiting
  <2>8. store[p].msgs = view[c]
    BY <2>2, <2>4, <2>6 DEF Told, Sessions, Works, IsActive
  <2>9. Awaited(p, c)
    BY <2>6, <2>7, <2>8 DEF Awaited
  <2> QED
    BY <1>1, <1>7, <2>2, <2>3, <2>9
<1>12. Requests'
  <2>1. ASSUME NEW q \in DOMAIN reqs' PROVE Asks(reqs'[q].msgs) /\ Answered(q)'
    <3>1. CASE q \in DOMAIN reqs
      BY <1>6, <3>1 DEF Answered
    <3>2. CASE q = n
      <4>1. x.phase = "answered" => x.basis = msgs
        BY DEF Comes
      <4> QED
        BY <1>2, <3>2, <4>1 DEF Answered
    <3> QED
      BY <1>1, <3>1, <3>2
  <2>2. ASSUME NEW q \in DOMAIN reqs' PROVE Waits(q)' /\ Responds(q)'
    <3>1. CASE q \in DOMAIN reqs
      BY <1>8, <1>10, <3>1
    <3>2. CASE q = n
      BY <1>9, <1>11, <3>2 DEF Waits, Responds
    <3> QED
      BY <1>1, <3>1, <3>2
  <2> QED
    BY <2>1, <2>2 DEF Requests
<1>13. Clients'
  <2>1. ASSUME NEW d \in Client PROVE Calls(d)'
    <3>1. CASE d = c
      <4>1. x.phase # "called"
        BY DEF Comes
      <4> QED
        BY <1>2, <3>1, <4>1 DEF Calls
    <3>2. CASE d # c
      <4>1. asked'[d] = asked[d] /\ Calls(d)
        BY <1>2, <3>2 DEF Told, Clients
      <4>2. CASE asked[d] = None
        BY <4>1, <4>2 DEF Calls
      <4>3. CASE asked[d] # None
        <5>1. PICK q \in DOMAIN reqs : q = asked[d]
          BY <4>3 DEF Inv, Typed
        <5>2. reqs'[q] = reqs[q] /\ store'[reqs[q].session] = store[reqs[q].session]
          BY <1>1, <1>6
        <5> QED
          BY <4>1, <4>3, <5>1, <5>2 DEF Calls, IsActive
      <4> QED
        BY <4>2, <4>3
    <3> QED
      BY <3>1, <3>2
  <2>2. \A d \in Client : Shaped(view'[d])
    BY DEF Comes
  <2> QED
    BY <2>1, <2>2 DEF Clients
<1>14. Maps'
  <2>1. DOMAIN byLate' = {}
    BY DEF Comes
  <2> QED
    BY <1>1, <2>1 DEF Told, Maps, Shrinks
<1>15. Regime'
  <2>1. CASE "tools" \in Env
    <3>1. ASSUME NEW s \in DOMAIN store', store'[s].event.state = "active"
          PROVE  s \in DOMAIN store /\ store[s].event.state = "active"
      BY <1>1, <1>3, <3>1
    <3> QED
      BY <1>1, <2>1, <3>1 DEF Told, Regime, IsActive
  <2>2. CASE "tools" \notin Env
    <3>1. DOMAIN byTool' = {}
      BY <1>1, <2>2 DEF Told, Regime, Shrinks
    <3>2. \A s \in DOMAIN store' : ~store'[s].event.tool
      BY <1>1, <1>3, <2>2 DEF Told, Regime
    <3>3. ~EndsIn(msgs, "tool")
      <4>1. ASSUME EndsIn(msgs, "tool") PROVE FALSE
        <5>1. asked[c] \in DOMAIN reqs /\ reqs[asked[c]].phase = "called"
          BY <4>1 DEF MayAsk, Inv, Typed
        <5> QED
          BY <2>2, <5>1 DEF Told, Regime
      <4> QED
        BY <4>1
    <3>4. ASSUME NEW q \in DOMAIN reqs' PROVE reqs'[q].phase # "called" /\ ~EndsIn(reqs'[q].msgs, "tool")
      <4>1. CASE q \in DOMAIN reqs
        BY <1>6, <2>2, <4>1 DEF Told, Regime
      <4>2. CASE q = n
        <5>1. x.phase # "called"
          BY DEF Comes
        <5> QED
          BY <1>2, <3>3, <4>2, <5>1
      <4> QED
        BY <1>1, <4>1, <4>2
    <3> QED
      BY <1>1, <2>2, <3>1, <3>2, <3>4 DEF Regime
  <2> QED
    BY <2>1, <2>2
<1> QED
  BY <1>5, <1>12, <1>13, <1>14, <1>15 DEF Told

(* Who ends on the one user message of an event, has nothing before it.           *)
LEMMA OneUserMessage ==
    ASSUME NEW session \in SessionType, session.event.from \in Nat \ {0}, OneWord(session),
           NEW msgs \in Messages, Shaped(msgs), EndsIn(msgs, "user"), Users(msgs) = EventUsers(session)
    PROVE  Len(msgs) = 1
<1>1. PICK len \in Nat : len = Len(msgs) /\ len # 0 /\ DOMAIN msgs = 1 .. len
  BY Indices DEF EndsIn
<1>2. 1 \in Said(msgs) /\ len \in Said(msgs) /\ Said(msgs) \subseteq 1 .. len
  <2>1. 1 \in DOMAIN msgs /\ len \in DOMAIN msgs
    BY <1>1
  <2> QED
    BY <1>1, <2>1 DEF Said, Shaped, EndsIn
<1>3. PICK old \in Messages : old = session.msgs
  BY DEF SessionType
<1>4. PICK n \in Nat : n = Len(old) /\ DOMAIN old = 1 .. n /\ \A i \in 1 .. n : old[i] \in Message
  BY Indices
<1>5. PICK from \in Nat \ {0} : from = session.event.from
  OBVIOUS
<1>6. PICK part : part = SubSeq(old, from, n)
  OBVIOUS
<1>7. part \in Messages
  BY <1>4, <1>6, RestOf
<1>8. PICK k \in Nat : k = Len(part) /\ DOMAIN part = 1 .. k
  BY <1>7, Indices
<1>9. \A i \in 1 .. k : from + i - 1 \in 1 .. n /\ part[i] = old[from + i - 1]
  <2>1. \A i \in from .. n : old[i] \in Message
    BY <1>4
  <2>2. k = (IF from <= n THEN n - from + 1 ELSE 0) /\ \A i \in 1 .. n - from + 1 : part[i] = old[from + i - 1]
    BY <1>6, <1>8, <2>1, SubSeqProperties
  <2>3. \A i \in 1 .. k : i \in 1 .. n - from + 1 /\ from + i - 1 \in 1 .. n
    BY <2>2
  <2> QED
    BY <2>2, <2>3
<1>10. \A i \in Said(part) : i = 1
  <2>1. ASSUME NEW i \in Said(part), i # 1 PROVE FALSE
    <3>1. i \in 1 .. k /\ part[i].role = "user"
      BY <1>8 DEF Said
    <3>2. PICK j \in 1 .. n : j = from + i - 1 /\ part[i] = old[j]
      BY <1>9, <3>1
    <3>3. j > from
      BY <2>1, <3>1, <3>2
    <3> QED
      BY <1>3, <1>4, <1>5, <3>1, <3>2, <3>3 DEF OneWord
  <2> QED
    BY <2>1
<1>11. Users(msgs) = Ranked(part, Said(part))
  BY <1>3, <1>4, <1>5, <1>6 DEF EventUsers, Users
<1> DEFINE one == Cardinality({j \in Said(part) : j <= 1})
<1>12. \A p \in Ranked(part, Said(part)) : p[1] = one
  <2>1. ASSUME NEW p \in Ranked(part, Said(part)) PROVE p[1] = one
    <3>1. PICK i \in Said(part) : p = <<Cardinality({j \in Said(part) : j <= i}), part[i]>>
      BY DEF Ranked
    <3>2. i = 1
      BY <1>10
    <3> QED
      BY <3>1, <3>2
  <2> QED
    BY <2>1
<1> DEFINE rank(i) == Cardinality({j \in Said(msgs) : j <= i})
<1>13. <<rank(1), msgs[1]>> \in Users(msgs) /\ <<rank(len), msgs[len]>> \in Users(msgs)
  BY <1>2 DEF Users, Ranked
<1> HIDE DEF one
<1>14. rank(1) = rank(len)
  <2>1. PICK a : a = rank(1)
    OBVIOUS
  <2>2. PICK b : b = rank(len)
    OBVIOUS
  <2> HIDE DEF rank
  <2>3. a = one /\ b = one
    BY <1>11, <1>12, <1>13, <2>1, <2>2
  <2> QED
    BY <2>1, <2>2, <2>3
<1>15. 1 = len
  BY <1>1, <1>2, <1>14, RankTells
<1> QED
  BY <1>1, <1>15

(* A session found by the words of its event, when these tell the history;        *)
LEMMA BehindByWords ==
    ASSUME NEW session \in SessionType, SessionFits(session), NEW msgs \in Messages, Shaped(msgs),
           EndsIn(msgs, "user"), ToolEntry(Users(msgs), session),
           OneWord(session) \/ FirstWords(session, msgs)
    PROVE  Behind(session, msgs)
<1>1. CASE OneWord(session)
  <2>1. Len(msgs) = 1
    BY <1>1, SealedPart, OneUserMessage DEF ToolEntry
  <2>2. PICK part \in Messages : part = Sealed(session)
    BY SealedPart
  <2>3. PICK n \in Nat : n = Len(part)
    BY Indices
  <2>4. ASSUME n = 0 PROVE part = SubSeq(msgs, 1, 0)
    <3>1. PICK a : a = SubSeq(msgs, 1, 0)
      OBVIOUS
    <3>2. a \in Messages /\ Len(a) = 0
      <4>1. 0 \in 0 .. Len(msgs)
        BY <2>1
      <4> QED
        BY <3>1, <4>1, PartOf
    <3> QED
      BY <2>3, <2>4, <3>1, <3>2, Indices
  <2>5. 1 <= n + 1 /\ (1 = n + 1 => n = 0) /\ 1 - 1 = 0
    BY <2>3
  <2> QED
    BY <2>1, <2>2, <2>3, <2>4, <2>5 DEF Behind
<1>2. CASE FirstWords(session, msgs)
  BY <1>2 DEF Behind, FirstWords, ToolEntry
<1> QED
  BY <1>1, <1>2

(* and one found by the hash of its complete turns.                               *)
LEMMA BehindByHash ==
    ASSUME NEW session \in SessionType, SessionFits(session), NEW msgs \in Messages, Shaped(msgs),
           EndsIn(msgs, "user"), Hash(msgs) = session.cont
    PROVE  Behind(session, msgs)
<1>1. PICK part \in Messages : part = Sealed(session)
  BY SealedPart
<1>2. Complete(part) /\ Hash(msgs) = Hash(part)
  BY <1>1 DEF SessionFits
<1>3. Len(msgs) = Len(part) + 1 /\ part = SubSeq(msgs, 1, Len(msgs) - 1)
  BY <1>2, HashTells
<1>4. Len(part) + 1 <= Len(part) + 1
  BY <1>1, Indices
<1> QED
  BY <1>1, <1>3, <1>4 DEF Behind

(* The session a request finds is one it is not ahead of.                         *)
LEMMA FoundBehind ==
    ASSUME Inv, Told, Premise', Grows, NEW msgs \in Messages, Asks(msgs),
           NEW n \in DOMAIN reqs', reqs'[n].msgs = msgs,
           NEW s, \/ FoundByTool(msgs) /\ s = byTool[Users(msgs)]
                  \/ ~FoundByTool(msgs) /\ FoundByHash(msgs) /\ s = byHash[Hash(msgs)]
    PROVE  /\ s \in DOMAIN store /\ store[s] # NewSession
           /\ EndsIn(msgs, "user") /\ (FoundByTool(msgs) \/ Continues(msgs)) => Behind(store[s], msgs)
<1>1. CASE FoundByTool(msgs)
  <2>1. PICK k : k = Users(msgs)
    OBVIOUS
  <2>2. k \in DOMAIN byTool /\ s = byTool[k]
    BY <1>1, <2>1 DEF FoundByTool, Knows
  <2>3. s \in DOMAIN store /\ ToolEntry(k, store[s])
    BY <2>2 DEF Told, Maps
  <2>4. PICK session \in SessionType : session = store[s]
    BY <2>3, SessionAt DEF Inv
  <2>5. SessionFits(session) /\ Words(session)
    BY <2>3, <2>4 DEF Told, Sessions
  <2>6. session # NewSession
    BY <2>3, <2>4, NewSessionFits DEF ToolEntry
  <2>7. ASSUME EndsIn(msgs, "user") PROVE Behind(session, msgs)
    <3>1. CASE OneWord(session)
      BY <2>1, <2>3, <2>4, <2>5, <2>7, <3>1, BehindByWords DEF Asks
    <3>2. CASE ~OneWord(session)
      <4>1. PICK q \in DOMAIN reqs : FirstWords(session, reqs[q].msgs)
        BY <2>3, <2>4, <2>5, <3>2 DEF Words, ToolEntry
      <4>2. q \in DOMAIN reqs' /\ reqs'[q].msgs = reqs[q].msgs
        BY DEF Grows
      <4>3. Users(msgs) = Users(reqs[q].msgs)
        BY <2>1, <2>3, <2>4, <4>1 DEF ToolEntry, FirstWords
      <4>4. ~IsToolResponse(msgs) /\ ~IsToolResponse(reqs[q].msgs)
        BY <2>7, <4>1 DEF FirstWords, EndsIn, IsToolResponse, Last
      <4>5. SameWords'
        <5>1. "tools" \in Env
          BY <2>2 DEF Told, Regime
        <5>2. Env' = Env
          BY DEF Grows, Env
        <5> QED
          BY <5>1, <5>2 DEF Premise
      <4>6. msgs = reqs[q].msgs
        BY <4>2, <4>3, <4>4, <4>5 DEF SameWords
      <4>7. FirstWords(session, msgs)
        BY <4>1, <4>6
      <4> QED
        BY <2>1, <2>3, <2>4, <2>5, <2>7, <4>7, BehindByWords DEF Asks
    <3> QED
      BY <3>1, <3>2
  <2> QED
    BY <2>3, <2>4, <2>6, <2>7
<1>2. CASE ~FoundByTool(msgs) /\ FoundByHash(msgs) /\ s = byHash[Hash(msgs)]
  <2>1. PICK h : h = Hash(msgs)
    OBVIOUS
  <2>2. h \in DOMAIN byHash /\ s = byHash[h]
    BY <1>2, <2>1 DEF FoundByHash, Knows
  <2>3. s \in DOMAIN store /\ h \in {store[s].cont, store[s].retry} /\ h # {}
    BY <2>2 DEF Inv, HashKeys, Told, Maps
  <2>4. store[s] # NewSession
    BY <2>3 DEF NewSession
  <2>5. PICK session \in SessionType : session = store[s]
    BY <2>3, SessionAt DEF Inv
  <2>6. SessionFits(session)
    BY <2>3, <2>5 DEF Told, Sessions
  <2>7. ASSUME EndsIn(msgs, "user"), Continues(msgs) PROVE Behind(session, msgs)
    <3>1. Hash(msgs) = session.cont
      BY <2>1, <2>2, <2>5, <2>7 DEF Continues
    <3> QED
      BY <2>6, <2>7, <3>1, BehindByHash DEF Asks
  <2> QED
    BY <1>2, <2>3, <2>4, <2>5, <2>7
<1> QED
  BY <1>1, <1>2

LEMMA ArriveTold ==
    ASSUME Inv, Told, Premise', NEW c \in Client, NEW msgs \in Messages, Asks(msgs), MayAsk(c, msgs),
           Arrive(c, msgs)
    PROVE  Told'
<1>1. Grows
  BY Arriving DEF Inv
<1>2. PICK n : n = Len(reqs) + 1
  OBVIOUS
<1>3. asked'[c] = n /\ \A d \in Client : d # c => asked'[d] = asked[d]
  BY <1>2 DEF Arrive, Inv, Typed
<1>4. /\ ~FoundByLate(msgs)
      /\ view \in [Client -> Messages] /\ \A d \in Client : Shaped(view[d])
  BY DEF FoundByLate, Knows, Told, Maps, Clients, Inv, Typed
<1>5. ASSUME NEW x, reqs' = Append(reqs, x)
      PROVE  /\ n \in DOMAIN reqs' /\ n \notin DOMAIN reqs /\ reqs'[n] = x
             /\ \A q \in DOMAIN reqs' : q \in DOMAIN reqs \/ q = n
  <2>1. /\ n \in DOMAIN Append(reqs, x) /\ n \notin DOMAIN reqs /\ Append(reqs, x)[n] = x
        /\ \A q \in DOMAIN Append(reqs, x) : q \in DOMAIN reqs \/ q = n
    BY <1>2, AppendProperties, LenProperties DEF Inv, Typed
  <2> QED
    BY <1>5, <2>1
<1>6. CASE FoundByTool(msgs) \/ Continues(msgs) \/ Replays(msgs)
  <2>1. PICK s : s = CASE FoundByTool(msgs) -> byTool[Users(msgs)]
                       [] FoundByLate(msgs) -> byLate[Users(msgs)]
                       [] OTHER -> byHash[Hash(msgs)]
    OBVIOUS
  <2>2. PICK x : x = [client |-> c, msgs |-> msgs, session |-> s,
                      phase |-> IF Replays(msgs) THEN "answered" ELSE "resolved",
                      basis |-> IF Replays(msgs) THEN store[s].done ELSE <<>>]
    OBVIOUS
  <2>3. /\ reqs' = Append(reqs, x) /\ DropStale(msgs) /\ store' = store
        /\ view' = IF Replays(msgs) THEN [view EXCEPT ![c] = Append(msgs, Answer)] ELSE view
    BY <1>6, <2>1, <2>2 DEF Arrive
  <2>4. \/ FoundByTool(msgs) /\ s = byTool[Users(msgs)]
        \/ ~FoundByTool(msgs) /\ FoundByHash(msgs) /\ s = byHash[Hash(msgs)]
    BY <1>4, <1>6, <2>1 DEF Continues, Replays
  <2>5. /\ n \in DOMAIN reqs' /\ n \notin DOMAIN reqs /\ reqs'[n] = x
        /\ \A q \in DOMAIN reqs' : q \in DOMAIN reqs \/ q = n
    BY <1>5, <2>3
  <2>6. x.msgs = msgs /\ x.client = c /\ x.session = s
        /\ (Replays(msgs) => x.phase = "answered" /\ x.basis = store[s].done)
        /\ (~Replays(msgs) => x.phase = "resolved")
    BY <2>2
  <2>7. /\ s \in DOMAIN store /\ store[s] # NewSession
        /\ EndsIn(msgs, "user") /\ (FoundByTool(msgs) \/ Continues(msgs)) => Behind(store[s], msgs)
    BY <1>1, <2>4, <2>5, <2>6, FoundBehind
  <2>8. Replays(msgs) => store[s].done = msgs
    BY <2>4 DEF Replays, FoundByHash
  <2>9. DOMAIN byLate' = {}
    BY <2>3 DEF DropStale, Without, Restrict, Told, Maps
  <2>10. /\ \A d \in Client : Shaped(view'[d]) /\ (d # c => view'[d] = view[d])
         /\ ~Replays(msgs) => view' = view
    <3>1. Shaped(Append(msgs, Answer))
      BY MessageTypes, Replies
    <3> QED
      BY <1>4, <2>3, <3>1
  <2>11. Comes(c, msgs, n, x)
    BY <1>1, <1>3, <1>6, <2>5, <2>6, <2>7, <2>8, <2>9, <2>10 DEF Comes
  <2> QED
    BY <2>11, ComesTold
<1>7. CASE ~(FoundByTool(msgs) \/ Continues(msgs) \/ Replays(msgs))
  <2>1. PICK x : x = [client |-> c, msgs |-> msgs, session |-> Len(store) + 1,
                      phase |-> "resolved", basis |-> <<>>]
    OBVIOUS
  <2>2. /\ reqs' = Append(reqs, x) /\ CreateSession(msgs) /\ view' = view
    BY <1>4, <1>7, <2>1 DEF Arrive
  <2>3. /\ n \in DOMAIN reqs' /\ n \notin DOMAIN reqs /\ reqs'[n] = x
        /\ \A q \in DOMAIN reqs' : q \in DOMAIN reqs \/ q = n
    BY <1>5, <2>2
  <2>4. x.msgs = msgs /\ x.client = c /\ x.phase = "resolved" /\ x.session = Len(store) + 1
    BY <2>1
  <2>5. store' = Append(store, NewSession)
    BY <2>2 DEF CreateSession
  <2>6. x.session \notin DOMAIN store /\ store'[x.session] = NewSession
    BY <2>4, <2>5, MessageTypes, Appended DEF Inv, Typed
  <2>7. DOMAIN byLate' = {}
    <3>1. PICK gone : byLate' = Forget(IF IsToolResponse(msgs) THEN Without(byLate, {Users(msgs)}) ELSE byLate, gone)
      BY <2>2 DEF CreateSession
    <3> QED
      BY <3>1 DEF Forget, Without, Restrict, Told, Maps
  <2>8. Comes(c, msgs, n, x)
    BY <1>1, <1>3, <1>4, <2>2, <2>3, <2>4, <2>6, <2>7 DEF Comes
  <2> QED
    BY <2>8, ComesTold
<1> QED
  BY <1>6, <1>7

LEMMA SayTold ==
    ASSUME Inv, Told, Premise', NEW c \in Client, NEW t \in Text, Say(c, t) \/ Begin(c, t)
    PROVE  Told'
<1>1. Settled(c)
  BY DEF Say, Begin
<1>2. view[c] \in Messages /\ Shaped(view[c])
  BY DEF Inv, Typed, Told, Clients
<1>3. PICK m \in Message : m = User(t) /\ m.role = "user"
  BY MessageTypes, Roles
<1>4. PICK p \in Messages : /\ Shaped(p) /\ Arrive(c, Append(p, m))
                            /\ p # <<>> => EndsIn(p, "assistant")
  <2>1. CASE Say(c, t)
    <3>1. Arrive(c, Append(view[c], m)) /\ (view[c] # <<>> => Last(view[c]).role = "assistant")
      BY <1>3, <2>1 DEF Say
    <3> QED
      BY <1>2, <3>1 DEF EndsIn, Last
  <2>2. CASE Begin(c, t)
    <3>1. Arrive(c, <<m>>) /\ Append(<<>>, m) = <<m>>
      BY <1>3, <2>2 DEF Begin
    <3>2. <<>> \in Messages /\ Shaped(<<>>)
      BY MessageTypes DEF Shaped
    <3> QED
      BY <3>1, <3>2
  <2> QED
    BY <2>1, <2>2
<1>5. /\ Append(p, m) \in Messages /\ Shaped(Append(p, m)) /\ EndsIn(Append(p, m), "user")
  <2>1. IF p = <<>> THEN m.role = "user"
        ELSE /\ m.role = "user" <=> EndsIn(p, "assistant")
             /\ m.role = "tool" <=> EndsIn(p, "call")
    BY <1>3, <1>4 DEF EndsIn
  <2> QED
    BY <1>3, <1>4, <2>1, Longer
<1>6. PICK msgs : msgs = Append(p, m)
  OBVIOUS
<1>7. msgs \in Messages /\ Asks(msgs) /\ ~EndsIn(msgs, "tool") /\ Arrive(c, msgs)
  BY <1>4, <1>5, <1>6 DEF Asks, EndsIn
<1>8. MayAsk(c, msgs)
  BY <1>1, <1>7 DEF MayAsk, Settled
<1> QED
  BY <1>7, <1>8, ArriveTold

LEMMA RetryTold ==
    ASSUME Inv, Told, Premise', NEW c \in Client, Retry(c)
    PROVE  Told'
<1>1. PICK r \in DOMAIN reqs : r = asked[c]
  BY DEF Retry, Inv, Typed
<1>2. EndsIn(reqs[r].msgs, "user") /\ Asks(reqs[r].msgs) /\ reqs[r].msgs \in Messages
  BY <1>1, RequestAt, ToolRequest DEF Retry, Told, Requests, Inv
<1>3. PICK msgs : msgs = reqs[r].msgs
  OBVIOUS
<1>4. msgs \in Messages /\ Asks(msgs) /\ ~EndsIn(msgs, "tool") /\ Arrive(c, msgs)
  BY <1>1, <1>2, <1>3 DEF Retry, EndsIn
<1>5. MayAsk(c, msgs)
  BY <1>1, <1>3, <1>4 DEF MayAsk
<1> QED
  BY <1>4, <1>5, ArriveTold

LEMMA RespondToolTold ==
    ASSUME Inv, Told, Premise', NEW c \in Client, RespondTool(c)
    PROVE  Told'
<1>1. PICK r \in DOMAIN reqs : r = asked[c]
  BY DEF RespondTool, Inv, Typed
<1>2. asked[c] # None /\ reqs[r].phase = "called" /\ reqs[r].session \in DOMAIN store
  BY <1>1, RequestAt DEF RespondTool, Inv
<1>3. reqs[r].client = c /\ IsActive(reqs[r].session) /\ store[reqs[r].session].event.req = r
  BY <1>1, <1>2 DEF Told, Clients, Calls
<1>4. EndsIn(view[c], "call")
  BY <1>1, <1>2, <1>3 DEF Told, Sessions, Works, IsActive
<1>5. view[c] \in Messages /\ Shaped(view[c])
  BY DEF Inv, Typed, Told, Clients
<1>6. PICK m \in Message : m = ToolResponse /\ m.role = "tool"
  BY MessageTypes
<1>7. PICK msgs : msgs = Append(view[c], m)
  OBVIOUS
<1>8. msgs \in Messages /\ Shaped(msgs) /\ EndsIn(msgs, "tool")
  <2>1. PICK p \in Messages : p = view[c]
    BY <1>5
  <2>2. IF p = <<>> THEN m.role = "user"
        ELSE /\ m.role = "user" <=> EndsIn(p, "assistant")
             /\ m.role = "tool" <=> EndsIn(p, "call")
    BY <1>4, <1>6, <2>1 DEF EndsIn
  <2> QED
    BY <1>5, <1>6, <1>7, <2>1, <2>2, Longer
<1>9. Arrive(c, msgs) /\ MayAsk(c, msgs) /\ Asks(msgs)
  BY <1>1, <1>2, <1>6, <1>7, <1>8 DEF RespondTool, MayAsk, Asks
<1> QED
  BY <1>8, <1>9, ArriveTold

(* Nobody says or asks anything; entries go.                                      *)
LEMMA QuietTold ==
    ASSUME Inv, Told, UNCHANGED <<scenario, view, asked, reqs, store>>,
           Shrinks(byHash, byHash'), Shrinks(byTool, byTool'), DOMAIN byLate' \subseteq DOMAIN byLate
    PROVE  Told'
<1>1. /\ scenario' = scenario /\ view' = view /\ asked' = asked /\ reqs' = reqs /\ store' = store
  OBVIOUS
<1>2. Sessions'
  <2>1. ASSUME NEW s \in DOMAIN store PROVE Works(s)' /\ Words(store[s])' /\ SessionFits(store'[s])
    BY <1>1 DEF Told, Sessions, Works, Words
  <2> QED
    BY <1>1, <2>1 DEF Sessions
<1>3. Requests'
  <2>1. ASSUME NEW r \in DOMAIN reqs PROVE Waits(r)' /\ Responds(r)' /\ Answered(r)' /\ Asks(reqs'[r].msgs)
    BY <1>1 DEF Told, Requests, Waits, Alone, Responds, Awaited, IsWaiting, IsActive, Answered
  <2> QED
    BY <1>1, <2>1 DEF Requests
<1>4. Clients'
  <2>1. ASSUME NEW c \in Client PROVE Calls(c)' /\ Shaped(view'[c])
    BY <1>1 DEF Told, Clients, Calls, IsActive
  <2> QED
    BY <2>1 DEF Clients
<1>5. Maps'
  BY <1>1 DEF Told, Maps, Shrinks
<1>6. Regime'
  BY <1>1 DEF Told, Regime, Shrinks, IsActive, Env
<1> QED
  BY <1>2, <1>3, <1>4, <1>5, <1>6 DEF Told

LEMMA QuietStepTold ==
    ASSUME Inv, Told, (\E s \in DOMAIN store : Delete(s)) \/ ForgetLate \/ UNCHANGED vars
    PROVE  Told'
<1>1. CASE \E s \in DOMAIN store : Delete(s)
  <2>1. PICK s \in DOMAIN store : Delete(s)
    BY <1>1
  <2>2. /\ UNCHANGED <<scenario, view, asked, reqs, store>> /\ byLate' = Forget(byLate, {s})
        /\ byHash' = Forget(byHash, {s}) /\ byTool' = Forget(byTool, {s})
    BY <2>1 DEF Delete
  <2>3. DOMAIN byLate' \subseteq DOMAIN byLate
    BY <2>2 DEF Forget, Restrict
  <2> QED
    BY <2>2, <2>3, Shrinking, QuietTold
<1>2. CASE ForgetLate
  <2>1. UNCHANGED <<scenario, view, asked, reqs, store, byHash, byTool>>
    BY <1>2 DEF ForgetLate
  <2>2. DOMAIN byLate' \subseteq DOMAIN byLate
    BY <1>2 DEF ForgetLate, Without, Restrict
  <2> QED
    BY <2>1, <2>2, Shrinking, QuietTold
<1>3. CASE UNCHANGED vars
  <2>1. UNCHANGED <<scenario, view, asked, reqs, store, byHash, byTool, byLate>>
    BY <1>3 DEF vars
  <2> QED
    BY <2>1, Shrinking, QuietTold
<1> QED
  BY <1>1, <1>2, <1>3

(* The premise does not begin to hold: what was asked stays.                      *)
LEMMA PremiseStays == Inv /\ [Next]_vars /\ Premise' => Premise
<1> SUFFICES ASSUME Inv, [Next]_vars, Premise' PROVE Premise
  OBVIOUS
<1>1. ASSUME scenario' = scenario, DOMAIN reqs \subseteq DOMAIN reqs',
             \A q \in DOMAIN reqs : reqs'[q].msgs = reqs[q].msgs
      PROVE  Premise
  <2>1. SameWords' => SameWords
    BY <1>1 DEF SameWords
  <2> QED
    BY <1>1, <2>1 DEF Premise, Env, Adhoc
<1>2. ASSUME Grows PROVE Premise
  BY <1>1, <1>2 DEF Grows
<1>3. ASSUME NEW r, OnlyPhase(r), scenario' = scenario PROVE Premise
  BY <1>1, <1>3 DEF OnlyPhase
<1>4. ASSUME NEW c \in Client,
             (\E t \in Text : Say(c, t) \/ Begin(c, t)) \/ Retry(c) \/ RespondTool(c)
      PROVE  Premise
  BY <1>2, <1>4, ClientStep DEF Inv
<1>5. ASSUME NEW r \in DOMAIN reqs,
             \/ Refuse(r) \/ TakeTool(r) \/ Take(r) \/ CallTool(r) \/ Finish(r) \/ Fail(r) \/ Preflight(r)
      PROVE  Premise
  <2>1. scenario' = scenario
    BY <1>5 DEF Refuse, TakeTool, Take, CallTool, Finish, Fail, Preflight
  <2>2. CASE Refuse(r)
    <3>1. OnlyPhase(r)
      BY <2>2, PhaseChange DEF Refuse, Inv, Phase
    <3> QED
      BY <1>3, <2>1, <3>1
  <2>3. OnlyPhase(r) \/ Refuse(r)
    BY <1>5, TakeToolEffect, TakeEffect, CallToolEffect, FinishEffect, FailEffect, PreflightEffect DEF Inv
  <2> QED
    BY <1>3, <2>1, <2>2, <2>3
<1>6. ASSUME NEW s \in DOMAIN store, ToolTimeout(s) \/ Cancel(s) PROVE Premise
  <2>1. \E r \in DOMAIN reqs : OnlyPhase(r)
    BY <1>6, ToolTimeoutEffect, CancelEffect DEF Inv
  <2>2. scenario' = scenario
    BY <1>6 DEF ToolTimeout, Cancel
  <2> QED
    BY <1>3, <2>1, <2>2
<1>7. ASSUME NEW s \in DOMAIN store, Delete(s) PROVE Premise
  BY <1>2, <1>7, DeleteStep DEF Inv
<1>8. CASE ForgetLate \/ UNCHANGED vars
  BY <1>2, <1>8, QuietStep DEF Inv
<1> QED
  BY <1>4, <1>5, <1>6, <1>7, <1>8 DEF Next

LEMMA InitTold == Init => Told
<1> SUFFICES ASSUME Init PROVE Told
  OBVIOUS
<1>1. /\ DOMAIN reqs = {} /\ DOMAIN store = {} /\ DOMAIN byHash = {} /\ DOMAIN byTool = {} /\ DOMAIN byLate = {}
      /\ \A c \in Client : view[c] = <<>> /\ asked[c] = None
  BY DEF Init
<1>2. Shaped(<<>>)
  BY DEF Shaped
<1>3. Sessions /\ Requests /\ Clients /\ Maps /\ Regime
  BY <1>1, <1>2 DEF Sessions, Requests, Clients, Calls, Maps, Regime
<1> QED
  BY <1>3 DEF Told

LEMMA NextTold == Inv /\ Told /\ Premise /\ Premise' /\ [Next]_vars => Told'
<1> SUFFICES ASSUME Inv, Told, Premise, Premise', [Next]_vars PROVE Told'
  OBVIOUS
<1>1. ASSUME NEW c \in Client,
             (\E t \in Text : Say(c, t) \/ Begin(c, t)) \/ Retry(c) \/ RespondTool(c)
      PROVE  Told'
  BY <1>1, SayTold, RetryTold, RespondToolTold
<1>2. ASSUME NEW r \in DOMAIN reqs,
             \/ Refuse(r) \/ TakeTool(r) \/ Take(r) \/ CallTool(r) \/ Finish(r) \/ Fail(r) \/ Preflight(r)
      PROVE  Told'
  BY <1>2, RefuseTold, TakeToolTold, TakeTold, CallToolTold, FinishTold, FailTold, PreflightTold
<1>3. ASSUME NEW s \in DOMAIN store, ToolTimeout(s) \/ Cancel(s)
      PROVE  Told'
  BY <1>3, NoToolTimeout, CancelTold
<1>4. CASE (\E s \in DOMAIN store : Delete(s)) \/ ForgetLate \/ UNCHANGED vars
  BY <1>4, QuietStepTold
<1> QED
  BY <1>1, <1>2, <1>3, <1>4 DEF Next

(* An answer, made by a turn or replayed by find_or_create_session, was made from  *)
(* just the history that its client sent.                                         *)
THEOREM AnswerFitsHolds == Spec => []AnswerFits
<1>1. Init => Inv /\ (Premise => Told)
  BY InitInv, InitTold
<1>2. Inv /\ (Premise => Told) /\ [Next]_vars => Inv' /\ (Premise => Told)'
  BY NextInv, PremiseStays, NextTold
<1>3. Inv /\ (Premise => Told) => AnswerFits
  BY DEF Premise, Told, Requests, Answered, AnswerFits
<1> QED
  BY <1>1, <1>2, <1>3, PTL DEF Spec
====

----------------------------- MODULE StreamProofs -----------------------------
(***************************************************************************)
(* Proofs about AnthropicStream, for every set of tool indices and counts  *)
(* and streams of any length.                                              *)
(***************************************************************************)
EXTENDS AnthropicStream, FiniteSetTheorems, SequenceTheorems, TLAPS

\* What the client has received, and what is still to be sent to it.
All == sent \o pending

Has(q, e) == \E i \in DOMAIN q : q[i] = e
Begun(q, b) == Has(q, On("block_start", b))
Ended(q, b) == Has(q, On("block_stop", b))

\* A sequence of events is bracketed, as far as it goes.
Bracketed(q) ==
    /\ \A i \in DOMAIN q : q[i].kind \in {"delta", "block_stop"} =>
          /\ \E s \in DOMAIN q : s < i /\ q[s] = On("block_start", q[i].block)
          /\ \A s \in DOMAIN q : s < i => q[s] # On("block_stop", q[i].block)
    /\ \A i, j \in DOMAIN q : q[i].kind = "block_start" /\ q[j] = q[i] => i = j

\* The blocks that are open while the stream is read.
IsOpen(b) == \/ text.started /\ text.block = b
             \/ \E k \in Started : tools[k].block = b

BlocksApart ==
    /\ text.started => text.block < next /\ \A k \in DOMAIN tools : tools[k].block # text.block
    /\ \A k, m \in DOMAIN tools : tools[k].block = tools[m].block => k = m
    /\ ~text.started /\ tools = <<>> => next = 0

ReadingKnows ==
    /\ \A b \in Nat : IsOpen(b) <=> Begun(All, b) /\ ~Ended(All, b)
    /\ \A b \in Nat : Begun(All, b) => b < next
    /\ \A k \in DOMAIN tools \ Started : ~Begun(All, tools[k].block)
    /\ \A i \in DOMAIN All : All[i].kind # "message_stop"

ClosingKnows ==
    /\ \A b \in Nat : Begun(All, b) => Ended(All, b)
    /\ \A i \in DOMAIN All : All[i].kind = "message_stop" => i = Len(All)

QuitKnows == \A i \in DOMAIN sent : sent[i].kind # "message_stop"

BracketInv ==
    /\ TypeOK /\ Bracketed(All) /\ BlocksApart
    /\ phase = "reading" => ReadingKnows
    /\ phase \in {"closing", "done"} => ClosingKnows
    /\ phase = "quit" => QuitKnows

\* The accumulator is empty while the transform task works, and then holds all.
UsageKnown ==
    /\ phase \in {"reading", "closing"} => acc = 0
    /\ phase \in {"done", "quit"} => acc = usage

-----------------------------------------------------------------------------
(* Events and sequences of them.                                           *)

LEMMA OnIsEvent ==
    ASSUME NEW kind \in Kinds, NEW b \in Nat
    PROVE  On(kind, b) \in Event /\ On(kind, b).kind = kind /\ On(kind, b).block = b
  BY DEF On, Event

LEMMA EventIsOn ==
    ASSUME NEW e \in Event PROVE e = On(e.kind, e.block) /\ e.block \in Nat
  BY DEF On, Event

LEMMA KindsThere ==
    {"message_start", "ping", "block_start", "delta", "block_stop", "message_delta", "message_stop"}
        = Kinds
  BY DEF Kinds

LEMMA HasConcat ==
    ASSUME NEW q \in Seq(Event), NEW r \in Seq(Event), NEW e
    PROVE  Has(q \o r, e) <=> Has(q, e) \/ Has(r, e)
<1>1. /\ Len(q) \in Nat /\ Len(r) \in Nat /\ DOMAIN q = 1 .. Len(q) /\ DOMAIN r = 1 .. Len(r)
      /\ DOMAIN (q \o r) = 1 .. Len(q) + Len(r)
      /\ \A i \in 1 .. Len(q) : (q \o r)[i] = q[i]
      /\ \A i \in 1 .. Len(r) : (q \o r)[Len(q) + i] = r[i]
  BY ConcatProperties, LenProperties
<1>2. ASSUME Has(q, e) PROVE Has(q \o r, e)
  BY <1>1, <1>2 DEF Has
<1>3. ASSUME Has(r, e) PROVE Has(q \o r, e)
  <2>1. PICK i \in 1 .. Len(r) : r[i] = e
    BY <1>1, <1>3 DEF Has
  <2>2. Len(q) + i \in DOMAIN (q \o r) /\ (q \o r)[Len(q) + i] = e
    BY <1>1, <2>1
  <2> QED
    BY <2>2 DEF Has
<1>4. ASSUME Has(q \o r, e) PROVE Has(q, e) \/ Has(r, e)
  <2>1. PICK i \in 1 .. Len(q) + Len(r) : (q \o r)[i] = e
    BY <1>1, <1>4 DEF Has
  <2>2. CASE i <= Len(q)
    BY <1>1, <2>1, <2>2 DEF Has
  <2>3. CASE ~(i <= Len(q))
    <3>1. i - Len(q) \in 1 .. Len(r) /\ Len(q) + (i - Len(q)) = i
      BY <1>1, <2>1, <2>3
    <3>2. r[i - Len(q)] = e
      BY <1>1, <2>1, <3>1
    <3> QED
      BY <1>1, <3>1, <3>2 DEF Has
  <2> QED
    BY <2>2, <2>3
<1> QED
  BY <1>2, <1>3, <1>4

LEMMA HasOne == ASSUME NEW d, NEW e PROVE Has(<<d>>, e) <=> d = e
  BY DEF Has

LEMMA HasNone == ASSUME NEW e PROVE ~Has(<<>>, e)
  BY DEF Has

\* Events that keep a bracketed sequence bracketed: they start what has not
\* begun, and come to what is open.
Follows(q, r) ==
    /\ \A i \in DOMAIN r : r[i].kind = "block_start" =>
          /\ ~Begun(q, r[i].block)
          /\ \A j \in DOMAIN r : r[j] = r[i] => i = j
    /\ \A i \in DOMAIN r : r[i].kind \in {"delta", "block_stop"} =>
          /\ Begun(q, r[i].block) \/ \E s \in DOMAIN r : s < i /\ r[s] = On("block_start", r[i].block)
          /\ ~Ended(q, r[i].block)
          /\ \A s \in DOMAIN r : s < i => r[s] # On("block_stop", r[i].block)

LEMMA BracketedConcat ==
    ASSUME NEW q \in Seq(Event), NEW r \in Seq(Event), Bracketed(q), Follows(q, r)
    PROVE  Bracketed(q \o r)
<1> DEFINE n == Len(q)
           c == q \o r
<1>1. /\ n \in Nat /\ Len(r) \in Nat /\ DOMAIN q = 1 .. n /\ DOMAIN r = 1 .. Len(r)
      /\ DOMAIN c = 1 .. n + Len(r)
      /\ \A i \in 1 .. n : c[i] = q[i]
      /\ \A i \in 1 .. Len(r) : c[n + i] = r[i]
      /\ \A i \in DOMAIN c : i \notin 1 .. n => i - n \in 1 .. Len(r) /\ c[i] = r[i - n]
  BY ConcatProperties, LenProperties
<1>2. \A i \in 1 .. n : q[i] \in Event
  BY <1>1, ElementOfSeq
<1>3. \A i \in 1 .. Len(r) : r[i] \in Event
  BY <1>1, ElementOfSeq
<1> HIDE DEF n, c
<1>4. ASSUME NEW i \in DOMAIN c, c[i].kind \in {"delta", "block_stop"}
      PROVE  /\ \E s \in DOMAIN c : s < i /\ c[s] = On("block_start", c[i].block)
             /\ \A s \in DOMAIN c : s < i => c[s] # On("block_stop", c[i].block)
  <2>1. CASE i \in 1 .. n
    <3>1. /\ \E s \in 1 .. n : s < i /\ q[s] = On("block_start", q[i].block)
          /\ \A s \in 1 .. n : s < i => q[s] # On("block_stop", q[i].block)
      BY <1>1, <1>4, <2>1 DEF Bracketed
    <3>2. \A s \in DOMAIN c : s < i => s \in 1 .. n
      BY <1>1, <2>1
    <3>3. c[i] = q[i] /\ \A s \in 1 .. n : s \in DOMAIN c /\ c[s] = q[s]
      BY <1>1, <2>1
    <3> QED
      BY <3>1, <3>2, <3>3
  <2>2. CASE i \notin 1 .. n
    <3>1. PICK j \in 1 .. Len(r) : i = n + j /\ c[i] = r[j]
      BY <1>1, <2>2
    <3>2. /\ Begun(q, r[j].block) \/ \E s \in 1 .. Len(r) : s < j /\ r[s] = On("block_start", r[j].block)
          /\ ~Ended(q, r[j].block)
          /\ \A s \in 1 .. Len(r) : s < j => r[s] # On("block_stop", r[j].block)
      BY <1>1, <1>4, <3>1 DEF Follows
    <3>3. \E s \in DOMAIN c : s < i /\ c[s] = On("block_start", c[i].block)
      <4>1. CASE Begun(q, r[j].block)
        <5>1. PICK s \in 1 .. n : q[s] = On("block_start", r[j].block)
          BY <1>1, <4>1 DEF Begun, Has
        <5>2. s \in DOMAIN c /\ s < i /\ c[s] = On("block_start", c[i].block)
          BY <1>1, <3>1, <5>1
        <5> QED
          BY <5>2
      <4>2. CASE \E s \in 1 .. Len(r) : s < j /\ r[s] = On("block_start", r[j].block)
        <5>1. PICK s \in 1 .. Len(r) : s < j /\ r[s] = On("block_start", r[j].block)
          BY <4>2
        <5>2. n + s \in DOMAIN c /\ n + s < i /\ c[n + s] = On("block_start", c[i].block)
          BY <1>1, <3>1, <5>1
        <5> QED
          BY <5>2
      <4> QED
        BY <3>2, <4>1, <4>2
    <3>4. ASSUME NEW s \in DOMAIN c, s < i PROVE c[s] # On("block_stop", c[i].block)
      <4>1. CASE s \in 1 .. n
        BY <1>1, <3>1, <3>2, <4>1 DEF Ended, Has
      <4>2. CASE s \notin 1 .. n
        <5>1. s - n \in 1 .. Len(r) /\ c[s] = r[s - n] /\ s - n < j
          BY <1>1, <3>1, <3>4, <4>2
        <5> QED
          BY <3>1, <3>2, <5>1
      <4> QED
        BY <4>1, <4>2
    <3> QED
      BY <3>3, <3>4
  <2> QED
    BY <2>1, <2>2
<1>5. ASSUME NEW i \in DOMAIN c, NEW j \in DOMAIN c, c[i].kind = "block_start", c[j] = c[i]
      PROVE  i = j
  <2>1. CASE i \in 1 .. n /\ j \in 1 .. n
    BY <1>1, <1>5, <2>1 DEF Bracketed
  <2>2. CASE i \notin 1 .. n /\ j \notin 1 .. n
    <3>1. i - n = j - n
      BY <1>1, <1>5, <2>2 DEF Follows
    <3> QED
      BY <1>1, <3>1
  <2>3. ASSUME NEW k \in 1 .. n, NEW m \in 1 .. Len(r), q[k] = r[m], r[m].kind = "block_start"
        PROVE  FALSE
    <3>1. r[m] = On("block_start", r[m].block)
      BY <1>3, <2>3, EventIsOn
    <3> QED
      BY <1>1, <2>3, <3>1 DEF Follows, Begun, Has
  <2>4. CASE i \in 1 .. n /\ j \notin 1 .. n
    BY <1>1, <1>5, <2>3, <2>4
  <2>5. CASE i \notin 1 .. n /\ j \in 1 .. n
    BY <1>1, <1>5, <2>3, <2>5
  <2> QED
    BY <2>1, <2>2, <2>4, <2>5
<1> QED
  BY <1>4, <1>5 DEF Bracketed, c

\* One event follows.
CanFollow(q, e) ==
    /\ e.kind = "block_start" => ~Begun(q, e.block)
    /\ e.kind \in {"delta", "block_stop"} => Begun(q, e.block) /\ ~Ended(q, e.block)

LEMMA BracketedOne ==
    ASSUME NEW q \in Seq(Event), NEW e \in Event, Bracketed(q), CanFollow(q, e)
    PROVE  q \o <<e>> \in Seq(Event) /\ Bracketed(q \o <<e>>)
<1>1. <<e>> \in Seq(Event) /\ DOMAIN <<e>> = {1} /\ <<e>>[1] = e
  OBVIOUS
<1>2. Follows(q, <<e>>)
  BY <1>1 DEF Follows, CanFollow
<1> QED
  BY <1>1, <1>2, BracketedConcat, ConcatProperties

\* What has ended had begun; the first part of a bracketed sequence is bracketed.
LEMMA EndedBegan ==
    ASSUME NEW q \in Seq(Event), Bracketed(q), NEW b \in Nat, Ended(q, b)
    PROVE  Begun(q, b)
<1>1. PICK i \in DOMAIN q : q[i] = On("block_stop", b)
  BY DEF Ended, Has
<1>2. q[i].kind = "block_stop" /\ q[i].block = b
  BY <1>1 DEF On
<1> QED
  BY <1>2 DEF Bracketed, Begun, Has

LEMMA BracketedPart ==
    ASSUME NEW q \in Seq(Event), NEW r \in Seq(Event), Bracketed(q \o r)
    PROVE  Bracketed(q)
<1> DEFINE c == q \o r
<1>1. /\ Len(q) \in Nat /\ Len(r) \in Nat /\ DOMAIN q = 1 .. Len(q)
      /\ DOMAIN c = 1 .. Len(q) + Len(r)
      /\ \A i \in DOMAIN q : i \in DOMAIN c /\ c[i] = q[i]
  BY ConcatProperties, LenProperties
<1> HIDE DEF c
<1>2. Bracketed(c)
  BY DEF c
<1>3. ASSUME NEW i \in DOMAIN q, q[i].kind \in {"delta", "block_stop"}
      PROVE  /\ \E s \in DOMAIN q : s < i /\ q[s] = On("block_start", q[i].block)
             /\ \A s \in DOMAIN q : s < i => q[s] # On("block_stop", q[i].block)
  <2>1. PICK s \in DOMAIN c : s < i /\ c[s] = On("block_start", c[i].block)
    BY <1>1, <1>2, <1>3 DEF Bracketed
  <2>2. s \in DOMAIN q
    BY <1>1, <2>1
  <2>3. \A m \in DOMAIN q : m < i => q[m] # On("block_stop", q[i].block)
    BY <1>1, <1>2, <1>3 DEF Bracketed
  <2> QED
    BY <1>1, <2>1, <2>2, <2>3
<1>4. \A i, j \in DOMAIN q : q[i].kind = "block_start" /\ q[j] = q[i] => i = j
  BY <1>1, <1>2 DEF Bracketed
<1> QED
  BY <1>3, <1>4 DEF Bracketed

-----------------------------------------------------------------------------
(* The started calls in their order: each has its place.                   *)

ToolRecord == [index : ToolIndices, block : 0 .. (next - 1), started : BOOLEAN]

LEMMA ToolsType ==
    ASSUME TypeOK
    PROVE  /\ tools \in Seq(ToolRecord) /\ next \in Nat
           /\ \A k \in DOMAIN tools : /\ tools[k] \in ToolRecord
                                    /\ tools[k].block \in Nat /\ tools[k].block < next
<1>1. tools \in Seq(ToolRecord) /\ next \in Nat
  BY DEF TypeOK, ToolRecord
<1>2. ASSUME NEW k \in DOMAIN tools PROVE tools[k] \in ToolRecord
  BY <1>1, LenProperties, ElementOfSeq
<1>3. ASSUME NEW t \in ToolRecord PROVE t.block \in Nat /\ t.block < next
  BY <1>1, <1>3 DEF ToolRecord
<1> QED
  BY <1>1, <1>2, <1>3

UpTo(k) == {m \in Started : m <= k}

LEMMA StartedFinite ==
    ASSUME TypeOK
    PROVE  /\ Started \subseteq 1 .. Len(tools) /\ Len(tools) \in Nat
           /\ IsFiniteSet(Started) /\ Cardinality(Started) \in Nat
<1>1. /\ Len(tools) \in Nat /\ DOMAIN tools = 1 .. Len(tools)
  BY LenProperties DEF TypeOK
<1>2. Started \subseteq 1 .. Len(tools)
  BY <1>1 DEF Started
<1>3. IsFiniteSet(1 .. Len(tools))
  BY <1>1, FS_Interval
<1>4. IsFiniteSet(Started)
  BY <1>2, <1>3, FS_Subset
<1> QED
  BY <1>1, <1>2, <1>4, FS_CardinalityType

LEMMA RankGrows ==
    ASSUME TypeOK, NEW k \in Started, NEW m \in Started
    PROVE  /\ Cardinality(UpTo(k)) \in 1 .. Cardinality(Started)
           /\ Cardinality(UpTo(k)) = Cardinality(UpTo(m)) => k = m
<1>1. ASSUME NEW n \in Started
      PROVE  /\ n \in Nat /\ n \in UpTo(n) /\ UpTo(n) \subseteq Started
             /\ IsFiniteSet(UpTo(n)) /\ Cardinality(UpTo(n)) \in 1 .. Cardinality(Started)
  <2>1. n \in Nat /\ n \in UpTo(n) /\ UpTo(n) \subseteq Started
    BY StartedFinite DEF UpTo
  <2>2. IsFiniteSet(UpTo(n)) /\ Cardinality(UpTo(n)) <= Cardinality(Started)
    BY <2>1, StartedFinite, FS_Subset
  <2>3. Cardinality(UpTo(n)) \in Nat /\ Cardinality(UpTo(n)) # 0
    BY <2>1, <2>2, FS_CardinalityType, FS_EmptySet
  <2> QED
    BY <2>1, <2>2, <2>3, StartedFinite
<1>2. ASSUME NEW i \in Started, NEW j \in Started, i < j,
             Cardinality(UpTo(i)) = Cardinality(UpTo(j))
      PROVE  FALSE
  <2>1. i \in Nat /\ j \in Nat
    BY <1>1
  <2>2. UpTo(i) \subseteq UpTo(j)
    <3>1. ASSUME NEW n \in UpTo(i) PROVE n \in UpTo(j)
      BY <1>1, <1>2, <2>1 DEF UpTo
    <3> QED
      BY <3>1
  <2>3. UpTo(i) = UpTo(j)
    BY <1>1, <1>2, <2>2, FS_Subset
  <2>4. j \in UpTo(i)
    BY <1>1, <2>3
  <2> QED
    BY <1>2, <2>1, <2>4 DEF UpTo
<1>3. k \in Nat /\ m \in Nat
  BY <1>1
<1> QED
  BY <1>1, <1>2, <1>3

LEMMA StartedInOrder ==
    ASSUME TypeOK, NEW n \in 1 .. Cardinality(Started)
    PROVE  StartedTool(n) \in Started /\ Cardinality(UpTo(StartedTool(n))) = n
<1> DEFINE S == 1 .. Cardinality(Started)
           rank == [k \in Started |-> Cardinality(UpTo(k))]
<1>1. IsFiniteSet(S) /\ Cardinality(S) = Cardinality(Started)
  BY StartedFinite, FS_Interval
<1>2. rank \in Injection(Started, S)
  BY RankGrows DEF Injection, IsInjective
<1>3. rank \in Surjection(Started, S)
  BY <1>1, <1>2, StartedFinite, FS_Injection
<1>4. \E k \in Started : rank[k] = n
  <2> HIDE DEF rank
  <2> QED
    BY <1>3 DEF Surjection
<1>5. \E k \in Started : Cardinality({m \in Started : m <= k}) = n
  BY <1>4 DEF UpTo
<1> QED
  BY <1>5 DEF StartedTool, UpTo

LEMMA StartedHasPlace ==
    ASSUME TypeOK, NEW k \in Started
    PROVE  \E n \in 1 .. Cardinality(Started) : StartedTool(n) = k
<1>1. Cardinality(UpTo(k)) \in 1 .. Cardinality(Started)
  BY RankGrows
<1>2. /\ StartedTool(Cardinality(UpTo(k))) \in Started
      /\ Cardinality(UpTo(StartedTool(Cardinality(UpTo(k))))) = Cardinality(UpTo(k))
  BY <1>1, StartedInOrder
<1> QED
  BY <1>1, <1>2, RankGrows

\* The loop over the calls at the end of a stream ends every block of a started
\* call, and each once.
LEMMA EndsOfTools ==
    ASSUME TypeOK, BlocksApart
    PROVE  /\ ToolEnds \in Seq(Event)
           /\ \A n \in DOMAIN ToolEnds : \E k \in Started :
                 ToolEnds[n] = On("block_stop", tools[k].block)
           /\ \A k \in Started : Has(ToolEnds, On("block_stop", tools[k].block))
           /\ \A m, n \in DOMAIN ToolEnds : ToolEnds[m] = ToolEnds[n] => m = n
<1>1. DOMAIN ToolEnds = 1 .. Cardinality(Started)
  BY DEF ToolEnds
<1>2. ASSUME NEW n \in 1 .. Cardinality(Started)
      PROVE  /\ StartedTool(n) \in Started /\ StartedTool(n) \in DOMAIN tools
             /\ ToolEnds[n] = On("block_stop", tools[StartedTool(n)].block)
             /\ tools[StartedTool(n)].block \in Nat
  <2>1. StartedTool(n) \in Started /\ StartedTool(n) \in DOMAIN tools
    BY StartedInOrder DEF Started
  <2>2. tools[StartedTool(n)].block \in Nat
    BY <2>1, ToolsType
  <2> QED
    BY <2>1, <2>2 DEF ToolEnds
<1>3. ToolEnds \in Seq(Event)
  <2>1. \A n \in 1 .. Cardinality(Started) : ToolEnds[n] \in Event
    BY <1>2, OnIsEvent, KindsThere
  <2>2. ToolEnds \in [1 .. Cardinality(Started) -> Event]
    BY <2>1 DEF ToolEnds
  <2> QED
    BY <2>2, StartedFinite, SeqDef
<1>4. ASSUME NEW k \in Started PROVE Has(ToolEnds, On("block_stop", tools[k].block))
  BY <1>1, <1>2, StartedHasPlace DEF Has
<1>5. ASSUME NEW m \in DOMAIN ToolEnds, NEW n \in DOMAIN ToolEnds, ToolEnds[m] = ToolEnds[n]
      PROVE  m = n
  <2>1. tools[StartedTool(m)].block = tools[StartedTool(n)].block
    BY <1>1, <1>2, <1>5 DEF On
  <2>2. StartedTool(m) = StartedTool(n)
    BY <1>1, <1>2, <2>1 DEF BlocksApart
  <2> QED
    BY <1>1, <2>2, StartedInOrder
<1> QED
  BY <1>1, <1>2, <1>3, <1>4, <1>5

-----------------------------------------------------------------------------
(* What a chunk does to the blocks and which events it leaves to be sent.  *)

LEMMA TakesAll ==
    ASSUME TypeOK, Take
    PROVE  /\ phase = "reading" /\ All = sent /\ UNCHANGED <<phase, sent, here, acc, late, logged>>
           /\ All' = sent \o pending' /\ chunks' \in 0 .. MaxChunks
<1>1. pending = <<>> /\ sent \in Seq(Event) /\ phase = "reading"
      /\ UNCHANGED <<phase, sent, here, acc, late, logged>>
  BY DEF Take, TypeOK, logVars
<1>2. chunks' \in 0 .. MaxChunks
  BY StreamAssumption DEF Take, TypeOK
<1>3. All = sent
  BY <1>1, ConcatEmptySeq DEF All
<1> QED
  BY <1>1, <1>2, <1>3 DEF All

LEMMA TextTaken ==
    ASSUME TypeOK, TakeText
    PROVE  /\ UNCHANGED <<tools, usage>>
           /\ \/ /\ text.started /\ UNCHANGED <<text, next>>
                 /\ pending' = <<On("delta", text.block)>>
              \/ /\ ~text.started /\ text' = [started |-> TRUE, block |-> next]
                 /\ next' = next + 1
                 /\ pending' = <<On("block_start", next)>> \o <<On("delta", next)>>
<1>1. CASE text.started
  BY <1>1 DEF TakeText, Advance
<1>2. CASE ~text.started
  <2>1. /\ text' = [started |-> TRUE, block |-> next] /\ next' = next + 1
        /\ pending' = Append(<<On("block_start", next)>>, On("delta", next))
        /\ UNCHANGED <<tools, usage>>
    BY <1>2 DEF TakeText, Advance
  <2>2. Append(<<On("block_start", next)>>, On("delta", next))
          = <<On("block_start", next)>> \o <<On("delta", next)>>
    OBVIOUS
  <2> QED
    BY <1>2, <2>1, <2>2
<1> QED
  BY <1>1, <1>2

\* The call of a chunk is the k-th, its block is b, and it was started before or not.
ToolTaken(i, named, arguments, k, b, was) ==
    /\ tools' \in Seq([index : ToolIndices, block : Nat, started : BOOLEAN])
    /\ DOMAIN tools' = DOMAIN tools \cup {k} /\ k \in Nat \ {0}
    /\ tools'[k].block = b /\ tools'[k].started = (was \/ named) /\ b \in Nat
    /\ \A m \in DOMAIN tools \ {k} : tools'[m] = tools[m]
    /\ \/ /\ k \in DOMAIN tools /\ b = tools[k].block /\ was = tools[k].started
          /\ UNCHANGED <<text, next>>
       \/ /\ k \notin DOMAIN tools /\ b = next /\ ~was /\ next' = next + 1
          /\ text' = [text EXCEPT !.started = @ /\ tools # <<>>]
    /\ pending' = (IF text.started /\ ~text'.started THEN <<On("block_stop", text.block)>> ELSE <<>>)
                  \o (IF (was \/ named) /\ ~was THEN <<On("block_start", b)>> ELSE <<>>)
                  \o (IF (was \/ named) /\ arguments THEN <<On("delta", b)>> ELSE <<>>)

LEMMA ToolIsTaken ==
    ASSUME TypeOK, NEW i \in ToolIndices, NEW named \in BOOLEAN, NEW arguments \in BOOLEAN,
           TakeTool(i, named, arguments)
    PROVE  \E k, b : \E was \in BOOLEAN : ToolTaken(i, named, arguments, k, b, was)
<1> DEFINE Rec == [index : ToolIndices, block : Nat, started : BOOLEAN]
           isNew == ~\E k \in DOMAIN tools : tools[k].index = i
           all == IF isNew THEN Append(tools, [index |-> i, block |-> next, started |-> FALSE])
                  ELSE tools
           k == CHOOSE n \in DOMAIN all : all[n].index = i
           b == all[k].block
           was == all[k].started
<1>1. /\ tools' = [all EXCEPT ![k] = Opened(@, named)]
      /\ next' = Advance(isNew)
      /\ text' = [text EXCEPT !.started = @ /\ ~ClosesText(isNew)]
      /\ pending' =
            (IF ClosesText(isNew) THEN <<On("block_stop", text.block)>> ELSE <<>>)
            \o (IF tools'[k].started /\ ~all[k].started THEN <<On("block_start", b)>> ELSE <<>>)
            \o (IF tools'[k].started /\ arguments THEN <<On("delta", b)>> ELSE <<>>)
  BY Zenon DEF TakeTool
<1>2. /\ Len(tools) \in Nat /\ DOMAIN tools = 1 .. Len(tools) /\ next \in Nat
      /\ \A m \in DOMAIN tools : tools[m] \in Rec
  BY ToolsType, LenProperties DEF ToolRecord
<1>3. /\ Len(all) \in Nat /\ DOMAIN all = 1 .. Len(all) /\ k \in DOMAIN all
      /\ \A m \in DOMAIN all : all[m] \in Rec
      /\ \A m \in DOMAIN tools \ {k} : m \in DOMAIN all /\ all[m] = tools[m]
      /\ ~isNew => all = tools /\ k \in DOMAIN tools
      /\ isNew => /\ DOMAIN all = DOMAIN tools \cup {k} /\ k \notin DOMAIN tools
                  /\ all[k].block = next /\ ~all[k].started
  <2>1. CASE isNew
    <3> DEFINE n == [index |-> i, block |-> next, started |-> FALSE]
    <3>1. n \in Rec /\ n.index = i /\ n.block = next /\ ~n.started
      BY <1>2
    <3>2. /\ all = Append(tools, n) /\ Len(all) = Len(tools) + 1 /\ DOMAIN all = 1 .. Len(tools) + 1
          /\ all[Len(tools) + 1] = n
          /\ \A m \in 1 .. Len(tools) : all[m] = tools[m]
      BY <2>1, ToolsType, LenProperties
    <3>3. \A m \in DOMAIN tools : tools[m].index # i
      BY <2>1
    <3> HIDE DEF n, all, isNew
    <3>4. k = Len(tools) + 1
      BY <1>2, <3>1, <3>2, <3>3
    <3> HIDE DEF k
    <3> QED
      BY <1>2, <2>1, <3>1, <3>2, <3>4
  <2>2. CASE ~isNew
    <3>1. all = tools /\ \E m \in DOMAIN all : all[m].index = i
      BY <2>2
    <3>2. k \in DOMAIN all
      BY <3>1
    <3> HIDE DEF all, k, isNew
    <3> QED
      BY <1>2, <2>2, <3>1, <3>2
  <2> QED
    BY <2>1, <2>2
<1> HIDE DEF isNew, all, k
<1>4. /\ all[k] \in Rec /\ Opened(all[k], named) \in Rec
      /\ Opened(all[k], named).block = all[k].block
      /\ Opened(all[k], named).started = (all[k].started \/ named)
  <2>1. all[k] \in Rec
    BY <1>3
  <2> QED
    BY <2>1 DEF Opened
<1>5. /\ tools' \in Seq(Rec) /\ DOMAIN tools' = DOMAIN all /\ tools'[k] = Opened(all[k], named)
      /\ \A m \in DOMAIN all \ {k} : tools'[m] = all[m]
  <2>1. all \in Seq(Rec)
    <3>1. tools \in Seq(Rec)
      <4>1. ToolRecord \subseteq Rec
        BY <1>2 DEF ToolRecord
      <4> QED
        BY <4>1, ToolsType, SeqMonotonic
    <3>2. [index |-> i, block |-> next, started |-> FALSE] \in Rec
      BY <1>2
    <3>3. CASE isNew
      <4>1. all = Append(tools, [index |-> i, block |-> next, started |-> FALSE])
        BY <3>3 DEF all
      <4> HIDE DEF all
      <4> QED
        BY <3>1, <3>2, <4>1
    <3>4. CASE ~isNew
      BY <1>3, <3>1, <3>4
    <3> QED
      BY <3>3, <3>4
  <2>2. all \in [1 .. Len(all) -> Rec]
    BY <2>1, LenProperties
  <2>3. /\ DOMAIN tools' = DOMAIN all /\ tools'[k] = Opened(all[k], named)
        /\ \A m \in DOMAIN all \ {k} : tools'[m] = all[m]
    BY <1>1, <1>3, <2>2
  <2>4. tools' \in Seq(Rec)
    BY <1>1, <1>3, <1>4, <2>1, ExceptSeq
  <2> QED
    BY <2>3, <2>4
<1>6. /\ DOMAIN tools' = DOMAIN tools \cup {k} /\ k \in Nat \ {0}
      /\ \A m \in DOMAIN tools \ {k} : tools'[m] = tools[m]
  BY <1>2, <1>3, <1>5
<1>7. /\ b \in Nat /\ was \in BOOLEAN
      /\ tools'[k].block = b /\ tools'[k].started = (was \/ named)
  BY <1>4, <1>5
<1>8. ClosesText(isNew) <=> text.started /\ ~text'.started
  BY <1>1 DEF ClosesText, TypeOK
<1>9. pending' = (IF text.started /\ ~text'.started THEN <<On("block_stop", text.block)>> ELSE <<>>)
                  \o (IF (was \/ named) /\ ~was THEN <<On("block_start", b)>> ELSE <<>>)
                  \o (IF (was \/ named) /\ arguments THEN <<On("delta", b)>> ELSE <<>>)
  BY <1>1, <1>7, <1>8
<1>10. CASE isNew
  <2>1. k \notin DOMAIN tools /\ b = next /\ ~was /\ next' = next + 1
    BY <1>1, <1>3, <1>10 DEF Advance
  <2>2. text' = [text EXCEPT !.started = @ /\ tools # <<>>]
    BY <1>1, <1>10 DEF ClosesText, TypeOK
  <2> HIDE DEF b, was
  <2> QED
    BY <1>5, <1>6, <1>7, <1>9, <2>1, <2>2 DEF ToolTaken
<1>11. CASE ~isNew
  <2>1. k \in DOMAIN tools /\ b = tools[k].block /\ was = tools[k].started /\ next' = next
    BY <1>1, <1>3, <1>11 DEF Advance
  <2>2. text' = text
    BY <1>1, <1>11 DEF ClosesText, TypeOK
  <2> HIDE DEF b, was
  <2> QED
    BY <1>5, <1>6, <1>7, <1>9, <2>1, <2>2 DEF ToolTaken
<1> QED
  BY <1>10, <1>11

-----------------------------------------------------------------------------
(* A sequence while the stream is read: the blocks O are open in it, those it *)
(* has begun are below n, and those of F are still to begin.                  *)

Fits(q, O, n, F) ==
    /\ q \in Seq(Event) /\ Bracketed(q) /\ n \in Nat
    /\ \A b \in Nat : b \in O <=> Begun(q, b) /\ ~Ended(q, b)
    /\ \A b \in Nat : Begun(q, b) => b < n
    /\ \A b \in F : ~Begun(q, b)
    /\ ~\E i \in DOMAIN q : q[i].kind = "message_stop"

LEMMA NoStopConcat ==
    ASSUME NEW q \in Seq(Event), NEW e \in Event, e.kind # "message_stop",
           ~\E i \in DOMAIN q : q[i].kind = "message_stop"
    PROVE  ~\E i \in DOMAIN (q \o <<e>>) : (q \o <<e>>)[i].kind = "message_stop"
<1>1. q \o <<e>> = Append(q, e)
  BY AppendIsConcat
<1>2. /\ Len(q) \in Nat /\ DOMAIN q = 1 .. Len(q)
      /\ DOMAIN Append(q, e) = 1 .. Len(q) + 1
      /\ Append(q, e)[Len(q) + 1] = e
      /\ \A i \in 1 .. Len(q) : Append(q, e)[i] = q[i]
  BY LenProperties, AppendProperties
<1> QED
  BY <1>1, <1>2

LEMMA FitsStart ==
    ASSUME NEW q, NEW O, NEW n, NEW F, Fits(q, O, n, F), NEW m \in Nat, n <= m,
           NEW b \in Nat, b < m, ~Begun(q, b)
    PROVE  Fits(q \o <<On("block_start", b)>>, O \cup {b}, m, F \ {b})
<1> DEFINE e == On("block_start", b)
           r == q \o <<e>>
<1>1. e \in Event /\ e.kind = "block_start" /\ e.block = b
  BY OnIsEvent, KindsThere
<1>2. q \in Seq(Event) /\ Bracketed(q) /\ n \in Nat /\ CanFollow(q, e)
  BY <1>1 DEF Fits, CanFollow
<1>3. r \in Seq(Event) /\ Bracketed(r)
  BY <1>1, <1>2, BracketedOne
<1>4. <<e>> \in Seq(Event)
  BY <1>1
<1>5. ASSUME NEW c \in Nat
      PROVE  /\ Begun(r, c) <=> Begun(q, c) \/ c = b
             /\ Ended(r, c) <=> Ended(q, c)
  <2>1. /\ On("block_start", c) = e <=> c = b
        /\ On("block_stop", c) # e
    BY DEF On
  <2>2. /\ Has(r, On("block_start", c)) <=> Has(q, On("block_start", c)) \/ Has(<<e>>, On("block_start", c))
        /\ Has(r, On("block_stop", c)) <=> Has(q, On("block_stop", c)) \/ Has(<<e>>, On("block_stop", c))
    BY <1>2, <1>4, HasConcat
  <2>3. /\ Has(<<e>>, On("block_start", c)) <=> e = On("block_start", c)
        /\ Has(<<e>>, On("block_stop", c)) <=> e = On("block_stop", c)
    BY HasOne
  <2> HIDE DEF e, r
  <2> QED
    BY <2>1, <2>2, <2>3 DEF Begun, Ended
<1>6. ~Ended(q, b)
  BY <1>2, EndedBegan
<1>7. ~\E i \in DOMAIN r : r[i].kind = "message_stop"
  <2>1. ~\E i \in DOMAIN q : q[i].kind = "message_stop"
    BY DEF Fits
  <2> QED
    BY <1>1, <1>2, <2>1, NoStopConcat
<1> HIDE DEF e, r
<1>8. /\ \A c \in Nat : c \in O <=> Begun(q, c) /\ ~Ended(q, c)
      /\ \A c \in Nat : Begun(q, c) => c < n
      /\ \A c \in F : ~Begun(q, c)
  BY Zenon DEF Fits
<1>9. /\ \A c \in Nat : c \in O \cup {b} <=> Begun(r, c) /\ ~Ended(r, c)
      /\ \A c \in Nat : Begun(r, c) => c < m
  <2>1. \A c \in Nat : c \in O \cup {b} <=> Begun(r, c) /\ ~Ended(r, c)
    BY <1>5, <1>6, <1>8
  <2>2. ASSUME NEW c \in Nat, Begun(r, c) PROVE c < m
    BY <1>2, <1>5, <1>8, <2>2
  <2> QED
    BY <2>1, <2>2
<1>10. ASSUME NEW c \in F \ {b} PROVE ~Begun(r, c)
  <2>1. ~Begun(q, c) /\ c # b
    BY <1>8
  <2>2. CASE c \in Nat
    BY <1>5, <2>1, <2>2
  <2>3. CASE c \notin Nat
    <3>1. ASSUME NEW i \in DOMAIN r PROVE r[i] # On("block_start", c)
      <4>1. r[i] \in Event
        BY <1>3, LenProperties, ElementOfSeq
      <4> QED
        BY <2>3, <4>1 DEF Event, On
    <3> QED
      BY <3>1 DEF Begun, Has
  <2> QED
    BY <2>2, <2>3
<1>11. Fits(r, O \cup {b}, m, F \ {b})
  BY <1>3, <1>7, <1>9, <1>10 DEF Fits
<1> QED
  BY <1>11 DEF e, r

LEMMA FitsMore ==
    ASSUME NEW q, NEW O, NEW n, NEW F, Fits(q, O, n, F), NEW b \in O, b \in Nat,
           NEW kind \in {"delta", "block_stop"}
    PROVE  Fits(q \o <<On(kind, b)>>, IF kind = "delta" THEN O ELSE O \ {b}, n, F)
<1> DEFINE e == On(kind, b)
           r == q \o <<e>>
           P == IF kind = "delta" THEN O ELSE O \ {b}
<1>1. e \in Event /\ e.kind = kind /\ e.block = b
  BY OnIsEvent, KindsThere
<1>2. q \in Seq(Event) /\ Bracketed(q) /\ n \in Nat /\ CanFollow(q, e)
  BY <1>1 DEF Fits, CanFollow
<1>3. r \in Seq(Event) /\ Bracketed(r)
  BY <1>1, <1>2, BracketedOne
<1>4. <<e>> \in Seq(Event)
  BY <1>1
<1>5. ASSUME NEW c
      PROVE  /\ Begun(r, c) <=> Begun(q, c)
             /\ Ended(r, c) <=> Ended(q, c) \/ (kind = "block_stop" /\ c = b)
  <2>1. /\ On("block_start", c) # e
        /\ On("block_stop", c) = e <=> kind = "block_stop" /\ c = b
    BY DEF On
  <2>2. /\ Has(r, On("block_start", c)) <=> Has(q, On("block_start", c)) \/ Has(<<e>>, On("block_start", c))
        /\ Has(r, On("block_stop", c)) <=> Has(q, On("block_stop", c)) \/ Has(<<e>>, On("block_stop", c))
    BY <1>2, <1>4, HasConcat
  <2>3. /\ Has(<<e>>, On("block_start", c)) <=> e = On("block_start", c)
        /\ Has(<<e>>, On("block_stop", c)) <=> e = On("block_stop", c)
    BY HasOne
  <2> HIDE DEF e, r
  <2> QED
    BY <2>1, <2>2, <2>3 DEF Begun, Ended
<1>6. ~\E i \in DOMAIN r : r[i].kind = "message_stop"
  <2>1. ~\E i \in DOMAIN q : q[i].kind = "message_stop"
    BY DEF Fits
  <2> QED
    BY <1>1, <1>2, <2>1, NoStopConcat
<1> HIDE DEF e, r
<1>7. \A c \in Nat : c \in P <=> Begun(r, c) /\ ~Ended(r, c)
  <2>1. \A c \in Nat : c \in O <=> Begun(q, c) /\ ~Ended(q, c)
    BY Zenon DEF Fits
  <2> QED
    BY <1>5, <2>1
<1>8. /\ \A c \in Nat : Begun(r, c) => c < n
      /\ \A c \in F : ~Begun(r, c)
  BY <1>5 DEF Fits
<1> HIDE DEF P
<1>9. Fits(r, P, n, F)
  BY <1>2, <1>3, <1>6, <1>7, <1>8 DEF Fits
<1> QED
  BY <1>9 DEF e, r, P

\* The invariant, while the stream is read, in these terms.
OpenBlocks == {b \in Nat : IsOpen(b)}
Unstarted == {tools[k].block : k \in DOMAIN tools \ Started}

LEMMA ReadingFits ==
    ASSUME TypeOK
    PROVE  Bracketed(All) /\ ReadingKnows <=> Fits(All, OpenBlocks, next, Unstarted)
<1>1. next \in Nat /\ All \in Seq(Event)
  BY ConcatProperties DEF TypeOK, All
<1>2. (\A b \in Unstarted : ~Begun(All, b)) <=> \A k \in DOMAIN tools \ Started : ~Begun(All, tools[k].block)
  BY DEF Unstarted
<1>3. (\A b \in Nat : b \in OpenBlocks <=> Begun(All, b) /\ ~Ended(All, b))
        <=> \A b \in Nat : IsOpen(b) <=> Begun(All, b) /\ ~Ended(All, b)
  BY DEF OpenBlocks
<1> QED
  BY <1>1, <1>2, <1>3 DEF Fits, ReadingKnows

LEMMA ReadingFitsPrime ==
    TypeOK' => (Bracketed(All)' /\ ReadingKnows' <=> Fits(All, OpenBlocks, next, Unstarted)')
<1>1. TypeOK => (Bracketed(All) /\ ReadingKnows <=> Fits(All, OpenBlocks, next, Unstarted))
  BY ReadingFits
<1> QED
  BY <1>1, PTL

LEMMA FitsInv ==
    ASSUME TypeOK', BlocksApart', phase' = "reading",
           Fits(All', OpenBlocks', next', Unstarted')
    PROVE  BracketInv'
<1>1. Fits(All, OpenBlocks, next, Unstarted)'
  OBVIOUS
<1>2. Bracketed(All)' /\ ReadingKnows'
  BY <1>1, ReadingFitsPrime
<1> QED
  BY <1>2 DEF BracketInv

LEMMA InvFits ==
    ASSUME BracketInv, Take
    PROVE  /\ TypeOK /\ BlocksApart /\ Fits(sent, OpenBlocks, next, Unstarted)
           /\ All' = sent \o pending' /\ phase' = "reading" /\ sent \in Seq(Event)
           /\ \A b \in OpenBlocks : b \in Nat
<1>1. TypeOK /\ BlocksApart /\ Bracketed(All)
  BY DEF BracketInv
<1>2. phase = "reading" /\ All = sent /\ phase' = phase /\ All' = sent \o pending'
  BY <1>1, TakesAll
<1>3. ReadingKnows
  BY <1>2 DEF BracketInv
<1>4. Fits(All, OpenBlocks, next, Unstarted)
  BY <1>1, <1>3, ReadingFits
<1>5. sent \in Seq(Event) /\ \A b \in OpenBlocks : b \in Nat
  BY <1>1 DEF TypeOK, OpenBlocks
<1> QED
  BY <1>1, <1>2, <1>4, <1>5

\* The lists of pieces that TakeText and TakeTool put together.
LEMMA Pieces ==
    ASSUME NEW q \in Seq(Event), NEW r \in Seq(Event), NEW s \in Seq(Event)
    PROVE  /\ q \o (r \o s) = (q \o r) \o s
           /\ q \o r \in Seq(Event) /\ r \o s \in Seq(Event)
  BY ConcatProperties, ConcatAssociative

\* Text leaves the stream in order: it opens a block that nothing has begun.
LEMMA TextKeeps ==
    ASSUME BracketInv, TakeText PROVE BracketInv'
<1> USE KindsThere
<1>1. Take
  BY DEF TakeText
<1>2. /\ TypeOK /\ BlocksApart /\ Fits(sent, OpenBlocks, next, Unstarted)
      /\ All' = sent \o pending' /\ phase' = "reading" /\ sent \in Seq(Event)
  BY <1>1, InvFits
<1>3. UNCHANGED <<sent, here, acc, late, logged>> /\ chunks' \in 0 .. MaxChunks
  BY <1>1, <1>2, TakesAll
<1>4. next \in Nat /\ text \in [started : BOOLEAN, block : 0 .. next] /\ text.block \in Nat
  BY <1>2 DEF TypeOK
<1>5. tools' = tools /\ usage' = usage
  BY <1>2, TextTaken
<1>6. Unstarted' = Unstarted /\ Started' = Started
  BY <1>5 DEF Unstarted, Started
<1>7. CASE text.started
  <2>1. /\ UNCHANGED <<text, next>> /\ pending' = <<On("delta", text.block)>>
    BY <1>2, <1>7, TextTaken
  <2>2. pending' \in Seq(Event)
    BY <2>1, <1>4, OnIsEvent
  <2>3. TypeOK'
    BY <1>2, <1>3, <1>5, <2>1, <2>2 DEF TypeOK
  <2>4. BlocksApart'
    BY <1>2, <1>5, <2>1 DEF BlocksApart
  <2>5. OpenBlocks' = OpenBlocks
    BY <1>5, <1>6, <2>1 DEF OpenBlocks, IsOpen
  <2>6. text.block \in OpenBlocks
    BY <1>4, <1>7 DEF OpenBlocks, IsOpen
  <2>7. Fits(sent \o <<On("delta", text.block)>>, OpenBlocks, next, Unstarted)
    BY <1>2, <1>4, <2>6, FitsMore
  <2>8. Fits(All', OpenBlocks', next', Unstarted')
    BY <1>2, <1>6, <2>1, <2>5, <2>7
  <2> QED
    BY <1>2, <2>3, <2>4, <2>8, FitsInv
<1>8. CASE ~text.started
  <2>1. /\ text' = [started |-> TRUE, block |-> next] /\ next' = next + 1
        /\ pending' = <<On("block_start", next)>> \o <<On("delta", next)>>
    BY <1>2, <1>8, TextTaken
  <2>2. <<On("block_start", next)>> \in Seq(Event) /\ <<On("delta", next)>> \in Seq(Event)
    BY <1>4, OnIsEvent
  <2>3. pending' \in Seq(Event)
    BY <2>1, <2>2, Pieces
  <2>4. text' \in [started : BOOLEAN, block : 0 .. next']
    BY <1>4, <2>1
  <2>5. tools' \in Seq([index : ToolIndices, block : 0 .. (next' - 1), started : BOOLEAN])
    <3>1. /\ ToolRecord \subseteq [index : ToolIndices, block : 0 .. (next' - 1), started : BOOLEAN]
          /\ tools \in Seq(ToolRecord)
      BY <1>2, <1>4, <2>1, ToolsType DEF ToolRecord
    <3> QED
      BY <3>1, <1>5, SeqMonotonic
  <2>6. TypeOK'
    <3>1. next' \in Nat
      BY <1>4, <2>1
    <3> QED
      BY <1>2, <1>3, <1>5, <2>3, <2>4, <2>5, <3>1 DEF TypeOK
  <2>7. text'.started /\ text'.block = next
    BY <2>1
  <2>8. BlocksApart'
    <3>1. \A k \in DOMAIN tools : tools[k].block # next
      BY <1>2, <1>4, ToolsType
    <3>2. next < next'
      BY <1>4, <2>1
    <3> QED
      BY <1>2, <1>5, <2>7, <3>1, <3>2 DEF BlocksApart
  <2>9. OpenBlocks' = OpenBlocks \cup {next}
    BY <1>4, <1>5, <1>6, <1>8, <2>7 DEF OpenBlocks, IsOpen
  <2>10. ~Begun(sent, next) /\ next \notin Unstarted
    <3>1. ~Begun(sent, next)
      <4>1. \A b \in Nat : Begun(sent, b) => b < next
        BY <1>2, Zenon DEF Fits
      <4> QED
        BY <4>1, <1>4
    <3> QED
      BY <3>1, <1>2, <1>4, ToolsType DEF Unstarted
  <2>11. Fits(sent \o <<On("block_start", next)>>, OpenBlocks', next', Unstarted)
    <3>1. Unstarted \ {next} = Unstarted
      BY <2>10
    <3>2. next' \in Nat /\ next <= next' /\ next < next'
      BY <1>4, <2>1
    <3> HIDE DEF OpenBlocks, Unstarted
    <3>3. Fits(sent, OpenBlocks, next, Unstarted) /\ next \in Nat /\ ~Begun(sent, next)
      BY <1>2, <1>4, <2>10
    <3>4. Fits(sent \o <<On("block_start", next)>>, OpenBlocks \cup {next}, next', Unstarted \ {next})
      BY ONLY <3>2, <3>3, FitsStart
    <3> QED
      BY <2>9, <3>1, <3>4
  <2>12. Fits((sent \o <<On("block_start", next)>>) \o <<On("delta", next)>>, OpenBlocks', next', Unstarted)
    BY <1>4, <2>9, <2>11, FitsMore
  <2>13. All' = (sent \o <<On("block_start", next)>>) \o <<On("delta", next)>>
    BY <1>2, <2>1, <2>2, Pieces
  <2>14. Fits(All', OpenBlocks', next', Unstarted')
    BY <1>6, <2>12, <2>13
  <2> QED
    BY <1>2, <2>6, <2>8, <2>14, FitsInv
<1> QED
  BY <1>7, <1>8

\* A call's chunk in three moves: the text may close, the call's block may start,
\* and a delta may come to it.
ThreeMoves(q, O, n, F, closing, c, opening, m, b, more, O1, O2, F2, p1, p2, p3) ==
    /\ Fits(q, O, n, F)
    /\ closing \in BOOLEAN /\ opening \in BOOLEAN /\ more \in BOOLEAN
    /\ c \in Nat /\ (closing => c \in O)
    /\ m \in Nat /\ n <= m /\ b \in Nat /\ b < m
    /\ opening => ~Begun(q, b)
    /\ more => opening \/ (b \in O /\ ~(closing /\ b = c))
    /\ O1 = (IF closing THEN O \ {c} ELSE O)
    /\ O2 = (IF opening THEN O1 \cup {b} ELSE O1)
    /\ F2 = (IF opening THEN F \ {b} ELSE F)
    /\ p1 = (IF closing THEN <<On("block_stop", c)>> ELSE <<>>)
    /\ p2 = (IF opening THEN <<On("block_start", b)>> ELSE <<>>)
    /\ p3 = (IF more THEN <<On("delta", b)>> ELSE <<>>)

LEMMA MovesFit ==
    ASSUME NEW q, NEW O, NEW n, NEW F, NEW closing, NEW c, NEW opening, NEW m, NEW b, NEW more,
           NEW O1, NEW O2, NEW F2, NEW p1, NEW p2, NEW p3,
           ThreeMoves(q, O, n, F, closing, c, opening, m, b, more, O1, O2, F2, p1, p2, p3)
    PROVE  p1 \o p2 \o p3 \in Seq(Event) /\ Fits(q \o (p1 \o p2 \o p3), O2, m, F2)
<1> USE DEF ThreeMoves
<1> USE KindsThere
<1> DEFINE q1 == q \o p1
           q2 == q1 \o p2
<1>0. q \in Seq(Event) /\ n \in Nat /\ Bracketed(q)
  BY Zenon DEF Fits
<1>1. p1 \in Seq(Event) /\ p2 \in Seq(Event) /\ p3 \in Seq(Event)
  <2>1. On("block_stop", c) \in Event /\ On("block_start", b) \in Event /\ On("delta", b) \in Event
    BY OnIsEvent
  <2> QED
    BY <2>1
<1>2. Fits(q1, O1, n, F) /\ (opening => ~Begun(q1, b))
  <2>1. CASE closing
    <3>1. Fits(q \o <<On("block_stop", c)>>, O \ {c}, n, F)
      BY <2>1, FitsMore
    <3>2. <<On("block_stop", c)>> \in Seq(Event)
      BY <1>1, <2>1
    <3>3. On("block_stop", c) # On("block_start", b)
      BY DEF On
    <3>4. opening => ~Has(q \o <<On("block_stop", c)>>, On("block_start", b))
      BY <1>0, <3>2, <3>3, HasConcat, HasOne DEF Begun
    <3> QED
      BY <2>1, <3>1, <3>4 DEF Begun
  <2>2. CASE ~closing
    <3>1. q1 = q /\ O1 = O
      BY <1>0, <2>2, ConcatEmptySeq
    <3> HIDE DEF q1
    <3> QED
      BY <3>1
  <2> QED
    BY <2>1, <2>2
<1> HIDE DEF q1
<1>3. Fits(q2, O2, m, F2)
  <2>1. CASE opening
    BY <1>2, <2>1, FitsStart
  <2>2. CASE ~opening
    <3>1. q2 = q1 /\ O2 = O1 /\ F2 = F
      <4>1. q1 \in Seq(Event)
        BY <1>2, Zenon DEF Fits
      <4> QED
        BY <4>1, <2>2, ConcatEmptySeq
    <3>2. q1 \in Seq(Event) /\ Bracketed(q1)
          /\ (\A x \in Nat : x \in O1 <=> Begun(q1, x) /\ ~Ended(q1, x))
          /\ (\A x \in Nat : Begun(q1, x) => x < n)
          /\ (\A x \in F : ~Begun(q1, x))
          /\ ~\E i \in DOMAIN q1 : q1[i].kind = "message_stop"
      BY <1>2, Zenon DEF Fits
    <3>3. \A x \in Nat : Begun(q1, x) => x < m
      <4>1. ASSUME NEW x \in Nat, Begun(q1, x) PROVE x < m
        BY <1>0, <3>2, <4>1
      <4> QED
        BY <4>1
    <3> HIDE DEF q2
    <3>4. Fits(q1, O1, m, F)
      BY <3>2, <3>3, Zenon DEF Fits
    <3> QED
      BY <3>1, <3>4
  <2> QED
    BY <2>1, <2>2
<1> HIDE DEF q2
<1>4. Fits(q2 \o p3, O2, m, F2)
  <2>1. CASE more
    <3>1. b \in O2
      BY <2>1
    <3>2. Fits(q2 \o <<On("delta", b)>>, O2, m, F2)
      BY <1>3, <3>1, FitsMore
    <3> QED
      BY <2>1, <3>2
  <2>2. CASE ~more
    <3>1. q2 \in Seq(Event)
      BY <1>3, Zenon DEF Fits
    <3>2. q2 \o p3 = q2
      BY <2>2, <3>1, ConcatEmptySeq
    <3> QED
      BY <1>3, <3>2
  <2> QED
    BY <2>1, <2>2
<1>5. q \o (p1 \o p2 \o p3) = ((q \o p1) \o p2) \o p3
  <2>1. p1 \o p2 \in Seq(Event)
    BY <1>1, ConcatProperties
  <2>2. q \o ((p1 \o p2) \o p3) = (q \o (p1 \o p2)) \o p3
    BY <1>0, <1>1, <2>1, ConcatAssociative
  <2>3. q \o (p1 \o p2) = (q \o p1) \o p2
    BY ONLY <1>0, <1>1, Pieces
  <2> QED
    BY <2>2, <2>3, Zenon
<1>6. p1 \o p2 \o p3 \in Seq(Event) /\ q \o (p1 \o p2 \o p3) = q2 \o p3
  <2>1. q2 = (q \o p1) \o p2
    BY DEF q1, q2
  <2>2. p1 \o p2 \o p3 \in Seq(Event)
    BY <1>1, ConcatProperties
  <2> QED
    BY <1>5, <2>1, <2>2, Zenon
<1> QED
  BY <1>4, <1>6

\* So does a tool call: what its chunk closes was open, and what it opens was not
\* begun, be the call new, known or started.
LEMMA ToolKeeps ==
    ASSUME BracketInv, NEW i \in ToolIndices, NEW named \in BOOLEAN, NEW arguments \in BOOLEAN,
           TakeTool(i, named, arguments)
    PROVE  BracketInv'
<1>1. Take /\ usage' = usage
  BY DEF TakeTool
<1>2. /\ TypeOK /\ BlocksApart /\ Fits(sent, OpenBlocks, next, Unstarted)
      /\ All' = sent \o pending' /\ phase' = "reading" /\ sent \in Seq(Event)
  BY <1>1, InvFits
<1>3. UNCHANGED <<sent, here, acc, late, logged>> /\ chunks' \in 0 .. MaxChunks
  BY <1>1, <1>2, TakesAll
<1>4. /\ next \in Nat /\ text \in [started : BOOLEAN, block : 0 .. next] /\ text.block \in Nat
      /\ text.started \in BOOLEAN
  BY <1>2 DEF TypeOK
<1>5. PICK k, b : \E was \in BOOLEAN : ToolTaken(i, named, arguments, k, b, was)
  BY <1>2, ToolIsTaken
<1>6. PICK was \in BOOLEAN : ToolTaken(i, named, arguments, k, b, was)
  BY <1>5
<1> DEFINE closing == text.started /\ ~text'.started
           opening == (was \/ named) /\ ~was
           more == (was \/ named) /\ arguments
           F == IF k \in DOMAIN tools THEN Unstarted ELSE Unstarted \cup {b}
<1>7. /\ DOMAIN tools' = DOMAIN tools \cup {k}
      /\ tools'[k].block = b /\ tools'[k].started = (was \/ named) /\ b \in Nat
      /\ \A m \in DOMAIN tools \ {k} : tools'[m] = tools[m]
  BY <1>6 DEF ToolTaken
<1>8. /\ next' \in Nat /\ next <= next' /\ b < next'
      /\ text' \in [started : BOOLEAN, block : 0 .. next']
      /\ text'.block = text.block /\ (text'.started => text.started)
      /\ closing => tools = <<>> /\ k \notin DOMAIN tools
      /\ k \in DOMAIN tools => /\ b = tools[k].block /\ was = tools[k].started
                               /\ UNCHANGED <<text, next>>
      /\ k \notin DOMAIN tools => b = next /\ ~was
  <2>1. CASE k \in DOMAIN tools
    <3>1. b = tools[k].block /\ was = tools[k].started /\ text' = text /\ next' = next
      BY <1>6, <2>1 DEF ToolTaken
    <3>2. b < next
      BY <1>2, <2>1, <3>1, ToolsType
    <3> QED
      BY <1>4, <2>1, <3>1, <3>2
  <2>2. CASE k \notin DOMAIN tools
    <3>1. /\ b = next /\ ~was /\ next' = next + 1
          /\ text' = [text EXCEPT !.started = @ /\ tools # <<>>]
      BY <1>6, <2>2 DEF ToolTaken
    <3>2. text'.block = text.block /\ text'.started = (text.started /\ tools # <<>>)
          /\ text' \in [started : BOOLEAN, block : 0 .. next]
      BY <1>4, <3>1
    <3>3. text' \in [started : BOOLEAN, block : 0 .. next']
      BY <1>4, <3>1, <3>2
    <3> QED
      BY <1>4, <2>2, <3>1, <3>2, <3>3
  <2> QED
    BY <2>1, <2>2
<1>9. TypeOK'
  <2>1. tools' \in Seq([index : ToolIndices, block : 0 .. (next' - 1), started : BOOLEAN])
    <3> DEFINE Rec == [index : ToolIndices, block : Nat, started : BOOLEAN]
               New == [index : ToolIndices, block : 0 .. (next' - 1), started : BOOLEAN]
    <3>1. tools' \in Seq(Rec)
      BY <1>6 DEF ToolTaken
    <3>2. Len(tools') \in Nat /\ DOMAIN tools' = 1 .. Len(tools') /\ tools' \in [1 .. Len(tools') -> Rec]
      BY <3>1, LenProperties
    <3>3. ASSUME NEW m \in DOMAIN tools' PROVE tools'[m].block < next'
      <4>1. CASE m = k
        BY <4>1, <1>7, <1>8
      <4>2. CASE m # k
        <5>1. m \in DOMAIN tools \ {k} /\ tools'[m] = tools[m]
          BY <1>7, <4>2
        <5>2. tools[m].block < next /\ tools[m].block \in Nat
          BY <1>2, <5>1, ToolsType
        <5> QED
          BY <1>4, <1>8, <5>1, <5>2
      <4> QED
        BY <4>1, <4>2
    <3>4. ASSUME NEW t \in Rec, t.block < next' PROVE t \in New
      BY <1>8, <3>4
    <3>5. \A m \in DOMAIN tools' : tools'[m] \in New
      BY <3>2, <3>3, <3>4
    <3> HIDE DEF New
    <3>6. tools' \in [1 .. Len(tools') -> New]
      BY <3>2, <3>5
    <3>7. tools' \in Seq(New)
      BY <3>2, <3>6, SeqDef
    <3> QED
      BY <3>7 DEF New
  <2>2. pending' \in Seq(Event)
    <3>1. On("block_stop", text.block) \in Event /\ On("block_start", b) \in Event /\ On("delta", b) \in Event
      BY <1>4, <1>7, OnIsEvent, KindsThere
    <3> DEFINE p1 == IF closing THEN <<On("block_stop", text.block)>> ELSE <<>>
               p2 == IF opening THEN <<On("block_start", b)>> ELSE <<>>
               p3 == IF more THEN <<On("delta", b)>> ELSE <<>>
    <3>2. p1 \in Seq(Event) /\ p2 \in Seq(Event) /\ p3 \in Seq(Event)
      BY <3>1
    <3>3. pending' = p1 \o p2 \o p3
      BY <1>6 DEF ToolTaken
    <3> HIDE DEF p1, p2, p3
    <3> QED
      BY <3>2, <3>3, ConcatProperties
  <2> QED
    BY <1>1, <1>2, <1>3, <1>8, <2>1, <2>2 DEF TypeOK
<1>10. \A m \in DOMAIN tools : tools[m].block \in Nat /\ tools[m].block < next
  BY <1>2, ToolsType
<1>11. BlocksApart'
  <2>1. text'.started => text'.block < next' /\ \A m \in DOMAIN tools' : tools'[m].block # text'.block
    <3>1. ASSUME text'.started
          PROVE  text.block < next /\ \A m \in DOMAIN tools : tools[m].block # text.block
      BY <1>2, <1>8, <3>1 DEF BlocksApart
    <3>2. ASSUME text'.started, NEW m \in DOMAIN tools' PROVE tools'[m].block # text.block
      <4>1. CASE m = k
        BY <1>4, <1>7, <1>8, <3>1, <3>2, <4>1
      <4>2. CASE m # k
        BY <1>7, <3>1, <3>2, <4>2
      <4> QED
        BY <4>1, <4>2
    <3> QED
      BY <1>4, <1>8, <3>1, <3>2
  <2>2. ASSUME NEW m \in DOMAIN tools', NEW n \in DOMAIN tools', tools'[m].block = tools'[n].block
        PROVE  m = n
    <3>1. CASE m # k /\ n # k
      BY <1>2, <1>7, <2>2, <3>1 DEF BlocksApart
    <3>2. ASSUME NEW x \in DOMAIN tools, x # k, tools'[x].block = b PROVE FALSE
      <4>1. tools[x].block = b
        BY <1>7, <3>2
      <4>2. CASE k \in DOMAIN tools
        BY <1>2, <1>8, <3>2, <4>1, <4>2 DEF BlocksApart
      <4>3. CASE k \notin DOMAIN tools
        BY <1>4, <1>8, <1>10, <4>1, <4>3
      <4> QED
        BY <4>2, <4>3
    <3> QED
      BY <1>7, <2>2, <3>1, <3>2
  <2>3. k \in DOMAIN tools'
    BY <1>7
  <2>4. tools' # <<>>
    BY <2>3
  <2> QED
    BY <2>1, <2>2, <2>4 DEF BlocksApart
<1>12. /\ Started' = (Started \ {k}) \cup (IF was \/ named THEN {k} ELSE {})
       /\ k \in Started <=> k \in DOMAIN tools /\ was
       /\ \A m \in Started \ {k} : m \in DOMAIN tools /\ tools'[m] = tools[m]
  <2>1. Started' = {m \in DOMAIN tools' : tools'[m].started}
    BY DEF Started
  <2> QED
    BY <1>7, <1>8, <2>1 DEF Started
<1>13. ~Begun(sent, next)
  <2>1. \A x \in Nat : Begun(sent, x) => x < next
    BY <1>2, Zenon DEF Fits
  <2> QED
    BY <2>1, <1>4
<1>14. /\ \A x : x \in OpenBlocks <=>
                x \in Nat /\ \/ text.started /\ text.block = x
                             \/ \E m \in Started \ {k} : tools[m].block = x
                             \/ k \in DOMAIN tools /\ was /\ b = x
       /\ \A x : x \in OpenBlocks' <=>
                x \in Nat /\ \/ text'.started /\ text.block = x
                             \/ \E m \in Started \ {k} : tools[m].block = x
                             \/ (was \/ named) /\ b = x
  <2>1. \A x : x \in OpenBlocks <=>
                x \in Nat /\ \/ text.started /\ text.block = x
                             \/ \E m \in Started \ {k} : tools[m].block = x
                             \/ k \in DOMAIN tools /\ was /\ b = x
    BY <1>8, <1>12 DEF OpenBlocks, IsOpen
  <2>2. OpenBlocks' = {x \in Nat : \/ text'.started /\ text'.block = x
                                   \/ \E m \in Started' : tools'[m].block = x}
    BY DEF OpenBlocks, IsOpen
  <2>3. ASSUME NEW x
        PROVE  (\E m \in Started' : tools'[m].block = x) <=>
                    \/ \E m \in Started \ {k} : tools[m].block = x
                    \/ (was \/ named) /\ b = x
    BY <1>7, <1>12
  <2> QED
    BY <1>8, <2>1, <2>2, <2>3
<1>15. OpenBlocks' = IF opening THEN (IF closing THEN OpenBlocks \ {text.block} ELSE OpenBlocks) \cup {b}
                     ELSE IF closing THEN OpenBlocks \ {text.block} ELSE OpenBlocks
  <2>1. closing => Started = {}
    BY <1>8 DEF Started
  <2>2. \A x \in OpenBlocks : x \in Nat
    BY DEF OpenBlocks
  <2> HIDE DEF OpenBlocks
  <2>3. CASE closing
    BY <1>4, <1>7, <1>8, <1>14, <2>1, <2>3
  <2>4. CASE ~closing
    <3>1. (text'.started <=> text.started) /\ (was => k \in DOMAIN tools)
      BY <1>4, <1>8, <2>4
    <3>2. \A x : x \in OpenBlocks' <=> x \in OpenBlocks \/ (opening /\ x = b)
      BY <1>7, <1>14, <3>1, Zenon
    <3> QED
      BY <2>4, <3>2
  <2> QED
    BY <2>3, <2>4
<1>16. Unstarted' = IF opening THEN F \ {b} ELSE F
  <2>1. Unstarted' = {tools'[m].block : m \in DOMAIN tools' \ Started'}
    BY DEF Unstarted
  <2>2. \A x : x \in Unstarted <=>
              \/ \E m \in (DOMAIN tools \ Started) \ {k} : tools[m].block = x
              \/ k \in DOMAIN tools /\ ~was /\ x = b
    BY <1>8, <1>12 DEF Unstarted
  <2>3. \A x : x \in Unstarted' <=>
              \/ \E m \in (DOMAIN tools \ Started) \ {k} : tools[m].block = x
              \/ ~(was \/ named) /\ x = b
    <3>1. \A m : m \in DOMAIN tools' \ Started' <=>
                \/ m \in (DOMAIN tools \ Started) \ {k}
                \/ m = k /\ ~(was \/ named)
      BY <1>7, <1>12
    <3> QED
      BY <1>7, <2>1, <3>1
  <2>4. \A m \in DOMAIN tools \ {k} : tools[m].block # b
    <3>1. CASE k \in DOMAIN tools
      BY <1>2, <1>8, <3>1 DEF BlocksApart
    <3>2. CASE k \notin DOMAIN tools
      BY <1>4, <1>8, <1>10, <3>2
    <3> QED
      BY <3>1, <3>2
  <2>5. \A x : x \in F <=>
              \/ \E m \in (DOMAIN tools \ Started) \ {k} : tools[m].block = x
              \/ ~was /\ x = b
    BY <1>8, <2>2
  <2> QED
    BY <2>3, <2>4, <2>5
<1>17. Fits(sent, OpenBlocks, next, F)
  <2>1. \A x \in F \ Unstarted : ~Begun(sent, x)
    BY <1>8, <1>13
  <2> HIDE DEF F
  <2> QED
    BY <1>2, <2>1 DEF Fits
<1>18. closing => text.block \in OpenBlocks
  BY <1>4, <1>14
<1>19. opening => ~Begun(sent, b)
  <2>1. CASE k \in DOMAIN tools
    <3>1. opening => k \in DOMAIN tools \ Started
      BY <1>12, <2>1
    <3>2. \A x \in Unstarted : ~Begun(sent, x)
      BY <1>2, Zenon DEF Fits
    <3> QED
      BY <1>8, <2>1, <3>1, <3>2 DEF Unstarted
  <2>2. CASE k \notin DOMAIN tools
    BY <1>8, <1>13, <2>2
  <2> QED
    BY <2>1, <2>2
<1>20. more => opening \/ (b \in OpenBlocks /\ ~(closing /\ b = text.block))
  BY <1>7, <1>8, <1>14
<1>21. Fits(sent \o pending', OpenBlocks', next', Unstarted')
  <2> DEFINE O1 == IF closing THEN OpenBlocks \ {text.block} ELSE OpenBlocks
             p1 == IF closing THEN <<On("block_stop", text.block)>> ELSE <<>>
             p2 == IF opening THEN <<On("block_start", b)>> ELSE <<>>
             p3 == IF more THEN <<On("delta", b)>> ELSE <<>>
  <2>1. /\ O1 = (IF closing THEN OpenBlocks \ {text.block} ELSE OpenBlocks)
        /\ OpenBlocks' = (IF opening THEN O1 \cup {b} ELSE O1)
        /\ Unstarted' = (IF opening THEN F \ {b} ELSE F)
        /\ p1 = (IF closing THEN <<On("block_stop", text.block)>> ELSE <<>>)
        /\ p2 = (IF opening THEN <<On("block_start", b)>> ELSE <<>>)
        /\ p3 = (IF more THEN <<On("delta", b)>> ELSE <<>>)
        /\ closing \in BOOLEAN /\ opening \in BOOLEAN /\ more \in BOOLEAN
    BY <1>15, <1>16, Zenon
  <2>2. pending' = p1 \o p2 \o p3
    BY <1>6 DEF ToolTaken
  <2> HIDE DEF O1, p1, p2, p3, closing, opening, more, F
  <2>3. ThreeMoves(sent, OpenBlocks, next, F, closing, text.block, opening, next', b, more,
                   O1, OpenBlocks', Unstarted', p1, p2, p3)
    BY <1>4, <1>7, <1>8, <1>17, <1>18, <1>19, <1>20, <2>1, Zenon DEF ThreeMoves
  <2> QED
    BY <2>2, <2>3, MovesFit, Zenon
<1> QED
  BY <1>2, <1>9, <1>11, <1>21, FitsInv

-----------------------------------------------------------------------------
(* The end of a stream: its last events end what is open.                  *)

\* Every block has ended, and the message not yet.
Shut(q) ==
    /\ q \in Seq(Event) /\ Bracketed(q)
    /\ \A b \in Nat : Begun(q, b) => Ended(q, b)
    /\ ~\E i \in DOMAIN q : q[i].kind = "message_stop"

LEMMA ConcatElement ==
    ASSUME NEW q \in Seq(Event), NEW r \in Seq(Event), NEW i \in DOMAIN (q \o r)
    PROVE  \/ i \in DOMAIN q /\ (q \o r)[i] = q[i]
           \/ \E j \in DOMAIN r : i = Len(q) + j /\ (q \o r)[i] = r[j]
<1>1. /\ Len(q) \in Nat /\ Len(r) \in Nat /\ DOMAIN q = 1 .. Len(q) /\ DOMAIN r = 1 .. Len(r)
      /\ DOMAIN (q \o r) = 1 .. Len(q) + Len(r)
      /\ \A j \in 1 .. Len(q) : (q \o r)[j] = q[j]
      /\ \A j \in 1 .. Len(r) : (q \o r)[Len(q) + j] = r[j]
  BY ConcatProperties, LenProperties
<1>2. CASE i <= Len(q)
  BY <1>1, <1>2
<1>3. CASE ~(i <= Len(q))
  <2>1. i - Len(q) \in 1 .. Len(r) /\ i = Len(q) + (i - Len(q))
    BY <1>1, <1>3
  <2>2. (q \o r)[Len(q) + (i - Len(q))] = r[i - Len(q)]
    BY <1>1, <2>1
  <2> QED
    BY <1>1, <2>1, <2>2
<1> QED
  BY <1>2, <1>3

LEMMA StopsShut ==
    ASSUME NEW q, NEW O, NEW n, NEW F, Fits(q, O, n, F), NEW r \in Seq(Event),
           \A i \in DOMAIN r : \E b \in O : b \in Nat /\ r[i] = On("block_stop", b),
           \A b \in O : b \in Nat => Has(r, On("block_stop", b)),
           \A i, j \in DOMAIN r : r[i] = r[j] => i = j
    PROVE  Shut(q \o r) /\ \A b \in Nat : Begun(q \o r, b) => Begun(q, b)
<1>1. /\ q \in Seq(Event) /\ Bracketed(q)
      /\ \A b \in Nat : b \in O <=> Begun(q, b) /\ ~Ended(q, b)
      /\ ~\E i \in DOMAIN q : q[i].kind = "message_stop"
  BY Zenon DEF Fits
<1>2. ASSUME NEW i \in DOMAIN r
      PROVE  /\ r[i].kind = "block_stop" /\ r[i].block \in Nat /\ r[i] = On("block_stop", r[i].block)
             /\ Begun(q, r[i].block) /\ ~Ended(q, r[i].block)
  <2>1. PICK b \in O : b \in Nat /\ r[i] = On("block_stop", b)
    OBVIOUS
  <2>2. r[i].kind = "block_stop" /\ r[i].block = b
    BY <2>1 DEF On
  <2> QED
    BY <1>1, <2>1, <2>2
<1>3. Follows(q, r)
  <2>1. ASSUME NEW i \in DOMAIN r, NEW s \in DOMAIN r, s < i, r[s] = On("block_stop", r[i].block)
        PROVE  FALSE
    <3>1. r[s] = r[i]
      BY <1>2, <2>1
    <3>2. s = i
      BY <3>1
    <3>3. i \in Nat
      BY LenProperties
    <3> QED
      BY <2>1, <3>2, <3>3
  <2> QED
    BY <1>2, <2>1 DEF Follows
<1>4. q \o r \in Seq(Event) /\ Bracketed(q \o r)
  BY <1>1, <1>3, BracketedConcat, ConcatProperties
<1>5. ASSUME NEW b \in Nat, Begun(q \o r, b) PROVE Begun(q, b)
  <2>1. ~Has(r, On("block_start", b))
    <3>1. On("block_start", b).kind = "block_start"
      BY DEF On
    <3> QED
      BY <1>2, <3>1 DEF Has
  <2> QED
    BY <1>1, <1>5, <2>1, HasConcat DEF Begun
<1>6. ASSUME NEW b \in Nat, Begun(q \o r, b) PROVE Ended(q \o r, b)
  <2>1. Begun(q, b)
    BY <1>5, <1>6
  <2>2. Ended(q, b) \/ Has(r, On("block_stop", b))
    BY <1>1, <2>1
  <2> QED
    BY <1>1, <2>2, HasConcat DEF Ended
<1>7. ~\E i \in DOMAIN (q \o r) : (q \o r)[i].kind = "message_stop"
  BY <1>1, <1>2, ConcatElement
<1> QED
  BY <1>4, <1>5, <1>6, <1>7 DEF Shut

LEMMA EmptyShut ==
    ASSUME NEW q, Shut(q), ~Begun(q, 0)
    PROVE  Shut(q \o <<On("block_start", 0), On("block_stop", 0)>>)
<1> DEFINE e == On("block_start", 0)
           f == On("block_stop", 0)
           r == <<e, f>>
<1>1. /\ e \in Event /\ e.kind = "block_start" /\ e.block = 0
      /\ f \in Event /\ f.kind = "block_stop" /\ f.block = 0
  BY OnIsEvent, KindsThere
<1>2. /\ q \in Seq(Event) /\ Bracketed(q)
      /\ \A b \in Nat : Begun(q, b) => Ended(q, b)
      /\ ~\E i \in DOMAIN q : q[i].kind = "message_stop"
  BY Zenon DEF Shut
<1>3. ~Ended(q, 0)
  BY <1>2, EndedBegan
<1>4. e = On("block_start", e.block) /\ f = On("block_stop", f.block) /\ e # f
  BY <1>1 DEF On
<1> HIDE DEF e, f
<1>5. r \in Seq(Event) /\ DOMAIN r = {1, 2} /\ r[1] = e /\ r[2] = f
  BY <1>1
<1> HIDE DEF r
<1>6. Follows(q, r)
  <2>1. ~Begun(q, e.block) /\ ~Ended(q, f.block) /\ f.block = e.block
    BY <1>1, <1>3
  <2> QED
    BY <1>1, <1>4, <1>5, <2>1 DEF Follows
<1>7. q \o r \in Seq(Event) /\ Bracketed(q \o r)
  BY <1>2, <1>5, <1>6, BracketedConcat, ConcatProperties
<1>8. ASSUME NEW b \in Nat, Begun(q \o r, b) PROVE Ended(q \o r, b)
  <2>1. CASE Begun(q, b)
    BY <1>2, <1>5, <2>1, HasConcat DEF Ended
  <2>2. CASE ~Begun(q, b)
    <3>1. Has(r, On("block_start", b))
      BY <1>2, <1>5, <1>8, <2>2, HasConcat DEF Begun
    <3>2. On("block_start", b) = e
      <4>1. f # On("block_start", b)
        BY <1>1 DEF On
      <4> QED
        BY <1>5, <3>1, <4>1 DEF Has
    <3>3. b = 0
      BY <1>1, <3>2 DEF On
    <3>4. Has(r, On("block_stop", b))
      BY <1>5, <3>3 DEF Has, f
    <3> QED
      BY <1>2, <1>5, <3>4, HasConcat DEF Ended
  <2> QED
    BY <2>1, <2>2
<1>9. ~\E i \in DOMAIN (q \o r) : (q \o r)[i].kind = "message_stop"
  BY <1>1, <1>2, <1>5, ConcatElement
<1>10. Shut(q \o r)
  BY <1>7, <1>8, <1>9 DEF Shut
<1> QED
  BY <1>10 DEF r, e, f

LEMMA ShutCloses ==
    ASSUME NEW q, Shut(q),
           NEW c, c = q \o <<Plain("message_delta"), Plain("message_stop")>>
    PROVE  /\ c \in Seq(Event) /\ Bracketed(c)
           /\ \A b \in Nat : Begun(c, b) => Ended(c, b)
           /\ \A i \in DOMAIN c : c[i].kind = "message_stop" => i = Len(c)
<1> DEFINE e == Plain("message_delta")
           f == Plain("message_stop")
           r == <<e, f>>
<1>1. /\ e \in Event /\ e.kind = "message_delta" /\ f \in Event /\ f.kind = "message_stop"
  BY KindsThere, OnIsEvent DEF Plain
<1>2. /\ q \in Seq(Event) /\ Bracketed(q)
      /\ \A b \in Nat : Begun(q, b) => Ended(q, b)
      /\ ~\E i \in DOMAIN q : q[i].kind = "message_stop"
  BY Zenon DEF Shut
<1> HIDE DEF e, f
<1>3. r \in Seq(Event) /\ DOMAIN r = {1, 2} /\ Len(r) = 2 /\ r[1] = e /\ r[2] = f
  BY <1>1
<1> HIDE DEF r
<1>4. Follows(q, r)
  BY <1>1, <1>3 DEF Follows
<1>5. c = q \o r
  BY DEF r, e, f
<1>6. c \in Seq(Event) /\ Bracketed(c) /\ Len(c) = Len(q) + 2
  <2>1. q \o r \in Seq(Event) /\ Len(q \o r) = Len(q) + 2
    <3>1. r \in Seq(Event)
      BY <1>3
    <3>2. q \o r \in Seq(Event) /\ Len(q \o r) = Len(q) + Len(r)
      BY ONLY <1>2, <3>1, ConcatProperties
    <3> QED
      BY ONLY <1>3, <3>2
  <2>2. Bracketed(q \o r)
    BY ONLY <1>2, <1>3, <1>4, BracketedConcat
  <2> QED
    BY ONLY <1>5, <2>1, <2>2
<1>7. ASSUME NEW b \in Nat, Begun(c, b) PROVE Ended(c, b)
  <2>1. ~Has(r, On("block_start", b))
    <3>1. On("block_start", b).kind = "block_start"
      BY DEF On
    <3> QED
      BY <1>1, <1>3, <3>1 DEF Has
  <2>2. Begun(q, b)
    BY <1>2, <1>3, <1>5, <1>7, <2>1, HasConcat DEF Begun
  <2> QED
    <3>1. Has(q, On("block_stop", b))
      BY <1>2, <2>2 DEF Ended
    <3>2. Has(q \o r, On("block_stop", b))
      BY ONLY <1>2, <1>3, <3>1, HasConcat
    <3> QED
      BY ONLY <1>5, <3>2 DEF Ended
<1>8. ASSUME NEW i \in DOMAIN c, c[i].kind = "message_stop" PROVE i = Len(c)
  <2>1. \/ i \in DOMAIN q /\ c[i] = q[i]
        \/ \E j \in DOMAIN r : i = Len(q) + j /\ c[i] = r[j]
    BY <1>2, <1>3, <1>5, ConcatElement
  <2> QED
    BY <1>1, <1>2, <1>3, <1>6, <1>8, <2>1
<1> QED
  BY <1>6, <1>7, <1>8

LEMMA EndKeeps ==
    ASSUME BracketInv, End PROVE BracketInv'
<1> USE KindsThere
<1>1. /\ phase = "reading" /\ pending = <<>> /\ phase' = "closing"
      /\ pending' = TextEnd \o ToolEnds \o EmptyText
                    \o <<Plain("message_delta"), Plain("message_stop")>>
      /\ UNCHANGED <<sent, text, tools, next, usage, here, acc, late, logged, chunks>>
  BY Zenon DEF End, blockVars, logVars
<1>2. /\ TypeOK /\ BlocksApart /\ Bracketed(All) /\ ReadingKnows
      /\ next \in Nat /\ text.block \in Nat /\ text.started \in BOOLEAN /\ sent \in Seq(Event)
  BY <1>1 DEF BracketInv, TypeOK
<1>3. All = sent
  BY <1>1, <1>2, ConcatEmptySeq DEF All
<1>4. Fits(sent, OpenBlocks, next, Unstarted)
  BY <1>2, <1>3, ReadingFits
<1> DEFINE O1 == {b \in Nat : \E k \in Started : tools[k].block = b}
           q1 == sent \o TextEnd
           q2 == q1 \o ToolEnds
           q3 == q2 \o EmptyText
           tail == <<Plain("message_delta"), Plain("message_stop")>>
           c == q3 \o tail
<1>5. Fits(q1, O1, next, Unstarted) /\ TextEnd \in Seq(Event)
  <2>1. CASE text.started
    <3>1. text.block \in OpenBlocks
      BY <1>2, <2>1 DEF OpenBlocks, IsOpen
    <3>2. Fits(sent \o <<On("block_stop", text.block)>>, OpenBlocks \ {text.block}, next, Unstarted)
      BY <1>2, <1>4, <3>1, FitsMore
    <3>3. OpenBlocks \ {text.block} = O1
      BY <1>2, <2>1 DEF OpenBlocks, IsOpen, BlocksApart, Started
    <3>4. TextEnd = <<On("block_stop", text.block)>>
      BY <2>1 DEF TextEnd
    <3>5. On("block_stop", text.block) \in Event
      BY <1>2, OnIsEvent
    <3> HIDE DEF O1
    <3> QED
      BY <3>2, <3>3, <3>4, <3>5
  <2>2. CASE ~text.started
    <3>1. OpenBlocks = O1
      BY <2>2 DEF OpenBlocks, IsOpen
    <3>2. TextEnd = <<>>
      BY <2>2 DEF TextEnd
    <3>3. q1 = sent
      BY <1>2, <3>2, ConcatEmptySeq
    <3> HIDE DEF O1, q1
    <3> QED
      BY <1>4, <3>1, <3>2, <3>3
  <2> QED
    BY <1>2, <2>1, <2>2
<1>6. ToolEnds \in Seq(Event)
  BY <1>2, EndsOfTools
<1> HIDE DEF q1
<1>7. Shut(q2) /\ \A b \in Nat : Begun(q2, b) => Begun(q1, b)
  <2>1. \A k \in Started : tools[k].block \in Nat
    BY <1>2, ToolsType DEF Started
  <2>2. \A i \in DOMAIN ToolEnds : \E b \in O1 : b \in Nat /\ ToolEnds[i] = On("block_stop", b)
    <3>1. ASSUME NEW i \in DOMAIN ToolEnds
          PROVE  \E b \in O1 : b \in Nat /\ ToolEnds[i] = On("block_stop", b)
      <4>1. PICK k \in Started : ToolEnds[i] = On("block_stop", tools[k].block)
        BY <1>2, EndsOfTools
      <4>2. tools[k].block \in O1 /\ tools[k].block \in Nat
        BY <2>1
      <4> QED
        BY <4>1, <4>2, Zenon
    <3> QED
      BY <3>1, Zenon
  <2>3. \A b \in O1 : b \in Nat => Has(ToolEnds, On("block_stop", b))
    BY <1>2, EndsOfTools
  <2>4. \A i, j \in DOMAIN ToolEnds : ToolEnds[i] = ToolEnds[j] => i = j
    BY <1>2, EndsOfTools
  <2> HIDE DEF O1
  <2> QED
    BY <1>5, <1>6, <2>2, <2>3, <2>4, StopsShut
<1> HIDE DEF q2, O1
<1>8. Shut(q3) /\ EmptyText \in Seq(Event)
  <2>1. CASE ~text.started /\ tools = <<>>
    <3>1. EmptyText = <<On("block_start", 0), On("block_stop", 0)>>
      BY <2>1 DEF EmptyText
    <3>2. On("block_start", 0) \in Event /\ On("block_stop", 0) \in Event
      BY OnIsEvent
    <3>3. next = 0
      BY <1>2, <2>1 DEF BlocksApart
    <3>4. \A b \in Nat : Begun(q1, b) => b < next
      BY <1>5, Zenon DEF Fits
    <3>5. ~Begun(q2, 0)
      BY <1>7, <3>3, <3>4
    <3>6. Shut(q2 \o <<On("block_start", 0), On("block_stop", 0)>>)
      BY <1>7, <3>5, EmptyShut
    <3> QED
      BY <3>1, <3>2, <3>6
  <2>2. CASE ~(~text.started /\ tools = <<>>)
    <3>1. EmptyText = <<>>
      BY <2>2 DEF EmptyText
    <3>2. q2 \in Seq(Event)
      BY <1>7, Zenon DEF Shut
    <3>3. q3 = q2
      BY <3>1, <3>2, ConcatEmptySeq
    <3> HIDE DEF q3
    <3> QED
      BY <1>7, <3>1, <3>3
  <2> QED
    BY <2>1, <2>2
<1> HIDE DEF q3
<1>9. /\ c \in Seq(Event) /\ Bracketed(c)
      /\ \A b \in Nat : Begun(c, b) => Ended(c, b)
      /\ \A i \in DOMAIN c : c[i].kind = "message_stop" => i = Len(c)
  BY <1>8, ShutCloses
<1>10. tail \in Seq(Event)
  BY OnIsEvent DEF Plain
<1> HIDE DEF c, tail
<1>11. All' = c /\ pending' \in Seq(Event)
  <2> DEFINE tt == TextEnd \o ToolEnds
             te == tt \o EmptyText
  <2>1. tt \in Seq(Event)
    BY ONLY <1>5, <1>6, ConcatProperties
  <2>2. sent \o tt = q2
    <3>1. sent \o (TextEnd \o ToolEnds) = (sent \o TextEnd) \o ToolEnds
      BY ONLY <1>2, <1>5, <1>6, Pieces
    <3> QED
      BY <3>1, Zenon DEF q1, q2
  <2> HIDE DEF tt
  <2>3. te \in Seq(Event)
    BY ONLY <1>8, <2>1, ConcatProperties
  <2>4. sent \o te = q3
    <3>1. sent \o (tt \o EmptyText) = (sent \o tt) \o EmptyText
      BY ONLY <1>2, <1>8, <2>1, Pieces
    <3> QED
      BY <2>2, <3>1, Zenon DEF q3
  <2> HIDE DEF te
  <2>5. sent \o (te \o tail) = (sent \o te) \o tail /\ te \o tail \in Seq(Event)
    BY ONLY <1>2, <1>10, <2>3, Pieces
  <2>6. pending' = te \o tail
    BY <1>1, Zenon DEF te, tt, tail
  <2>7. All' = sent \o pending'
    BY <1>1 DEF All
  <2> QED
    BY <2>4, <2>5, <2>6, <2>7, Zenon DEF c
<1>12. TypeOK'
  BY <1>1, <1>2, <1>11 DEF TypeOK
<1>13. BlocksApart'
  BY <1>1, <1>2 DEF BlocksApart
<1>14. Bracketed(All)'
  BY <1>9, <1>11
<1>15. ClosingKnows'
  BY <1>9, <1>11 DEF ClosingKnows
<1> QED
  BY <1>1, <1>12, <1>13, <1>14, <1>15 DEF BracketInv

-----------------------------------------------------------------------------
(* The other steps: they move events, or touch neither events nor blocks.  *)

LEMMA SameKeeps ==
    ASSUME BracketInv, TypeOK', UNCHANGED <<text, tools, next>>, All' = All,
           phase = "quit" => UNCHANGED sent,
           phase' = phase \/ (phase = "closing" /\ phase' = "done")
    PROVE  BracketInv'
<1>1. BlocksApart' /\ Bracketed(All)'
  BY DEF BracketInv, BlocksApart
<1>2. Started' = Started /\ \A b : IsOpen(b)' <=> IsOpen(b)
  BY DEF Started, IsOpen
<1>3. ReadingKnows' <=> ReadingKnows
  <2>1. (\A b \in Nat : IsOpen(b) <=> Begun(All, b) /\ ~Ended(All, b))'
          <=> (\A b \in Nat : IsOpen(b) <=> Begun(All, b) /\ ~Ended(All, b))
    BY <1>2
  <2>2. (\A b \in Nat : Begun(All, b) => b < next)' <=> (\A b \in Nat : Begun(All, b) => b < next)
    OBVIOUS
  <2>3. (\A k \in DOMAIN tools \ Started : ~Begun(All, tools[k].block))'
          <=> (\A k \in DOMAIN tools \ Started : ~Begun(All, tools[k].block))
    BY <1>2
  <2>4. (\A i \in DOMAIN All : All[i].kind # "message_stop")'
          <=> (\A i \in DOMAIN All : All[i].kind # "message_stop")
    OBVIOUS
  <2> QED
    BY <2>1, <2>2, <2>3, <2>4, Zenon DEF ReadingKnows
<1>4. ClosingKnows' <=> ClosingKnows
  BY DEF ClosingKnows
<1>5. phase = "quit" => (QuitKnows' <=> QuitKnows)
  BY DEF QuitKnows
<1> QED
  BY <1>1, <1>3, <1>4, <1>5 DEF BracketInv, TypeOK

LEMMA SendKeeps ==
    ASSUME BracketInv, Send PROVE BracketInv'
<1>1. /\ sent \in Seq(Event) /\ pending \in Seq(Event) /\ pending # <<>>
      /\ sent' = Append(sent, Head(pending)) /\ pending' = Tail(pending)
      /\ UNCHANGED <<phase, text, tools, next, usage, here, acc, late, logged, chunks>>
      /\ phase # "quit"
  BY DEF BracketInv, TypeOK, Send, blockVars, logVars
<1> DEFINE h == Head(pending)
           t == Tail(pending)
<1>2. h \in Event /\ t \in Seq(Event)
  BY <1>1
<1>3. <<h>> \in Seq(Event) /\ Append(sent, h) = sent \o <<h>> /\ Append(sent, h) \in Seq(Event)
  BY <1>1, <1>2, AppendIsConcat
<1>4. <<h>> \o t = pending
  BY <1>1
<1>5. sent' = sent \o <<h>> /\ pending' = t
  BY <1>1, <1>3
<1> HIDE DEF h, t
<1>6. (sent \o <<h>>) \o t = sent \o (<<h>> \o t)
  BY ONLY <1>1, <1>2, <1>3, Pieces
<1>7. All' = All
  BY <1>4, <1>5, <1>6, Zenon DEF All
<1>8. TypeOK'
  BY <1>1, <1>2, <1>3, <1>5 DEF BracketInv, TypeOK
<1> QED
  BY <1>1, <1>7, <1>8, SameKeeps

\* When the client is gone, what it did get has no end.
LEMMA SendFailsKeeps ==
    ASSUME BracketInv, SendFails PROVE BracketInv'
<1>1. /\ sent \in Seq(Event) /\ pending \in Seq(Event) /\ pending # <<>>
      /\ phase \in {"reading", "closing"} /\ phase' = "quit" /\ pending' = <<>> /\ acc' = usage
      /\ UNCHANGED <<sent, text, tools, next, usage, here, late, logged, chunks>>
  BY DEF BracketInv, TypeOK, SendFails, blockVars
<1>2. All' = sent
  BY <1>1, ConcatEmptySeq DEF All
<1>3. TypeOK'
  BY <1>1 DEF BracketInv, TypeOK
<1>4. BlocksApart'
  BY <1>1 DEF BracketInv, BlocksApart
<1>5. Bracketed(sent)
  BY <1>1, BracketedPart DEF BracketInv, All
<1>6. /\ Len(sent) \in Nat /\ DOMAIN sent = 1 .. Len(sent)
      /\ Len(pending) \in Nat /\ Len(pending) # 0
      /\ Len(All) = Len(sent) + Len(pending) /\ DOMAIN All = 1 .. Len(sent) + Len(pending)
      /\ \A i \in 1 .. Len(sent) : All[i] = sent[i]
  BY <1>1, ConcatProperties, LenProperties, EmptySeq DEF All
<1>7. ASSUME NEW i \in DOMAIN sent PROVE sent[i].kind # "message_stop"
  <2>1. i \in DOMAIN All /\ All[i] = sent[i] /\ i # Len(All)
    BY <1>6
  <2>2. CASE phase = "reading"
    BY <2>1, <2>2 DEF BracketInv, ReadingKnows
  <2>3. CASE phase = "closing"
    BY <2>1, <2>3 DEF BracketInv, ClosingKnows
  <2> QED
    BY <1>1, <2>2, <2>3
<1>8. QuitKnows'
  BY <1>1, <1>7 DEF QuitKnows
<1>9. Bracketed(All)'
  BY <1>2, <1>5
<1> QED
  BY <1>1, <1>3, <1>4, <1>8, <1>9 DEF BracketInv

LEMMA BracketStep ==
    ASSUME BracketInv, [Next]_vars PROVE BracketInv'
<1>1. CASE TakeText
  BY <1>1, TextKeeps
<1>2. ASSUME NEW i \in ToolIndices, NEW named \in BOOLEAN, NEW arguments \in BOOLEAN,
             TakeTool(i, named, arguments)
      PROVE  BracketInv'
  BY <1>2, ToolKeeps
<1>3. CASE End
  BY <1>3, EndKeeps
<1>4. CASE Send
  BY <1>4, SendKeeps
<1>5. CASE SendFails
  BY <1>5, SendFailsKeeps
<1>6. ASSUME NEW u \in Usages, TakeUsage(u) PROVE BracketInv'
  <2>1. TypeOK /\ Take
    BY <1>6 DEF BracketInv, TakeUsage
  <2>2. UNCHANGED <<phase, sent, here, acc, late, logged>> /\ chunks' \in 0 .. MaxChunks
    BY <2>1, TakesAll
  <2>3. UNCHANGED <<pending, text, tools, next>> /\ usage' = u
    BY <1>6 DEF TakeUsage, blockVars
  <2>4. TypeOK'
    BY <2>1, <2>2, <2>3 DEF TypeOK
  <2>5. All' = All
    BY <2>2, <2>3 DEF All
  <2> QED
    BY <2>2, <2>3, <2>4, <2>5, SameKeeps
<1>7. CASE Store
  <2>1. /\ UNCHANGED <<pending, sent, text, tools, next, usage, here, late, logged, chunks>>
        /\ acc' = usage /\ phase = "closing" /\ phase' = "done"
    BY <1>7 DEF Store, blockVars
  <2>2. TypeOK'
    BY <2>1 DEF BracketInv, TypeOK
  <2>3. All' = All
    BY <2>1 DEF All
  <2> QED
    BY <2>1, <2>2, <2>3, SameKeeps
<1>8. CASE Leave \/ Deadline \/ Log \/ UNCHANGED vars
  <2>1. UNCHANGED <<phase, pending, sent, text, tools, next, usage, acc, chunks>>
    BY <1>8 DEF Leave, Deadline, Log, vars, blockVars, logVars
  <2>2. here' \in BOOLEAN /\ late' \in BOOLEAN /\ logged' \in Usages \cup {0, NotYet}
    BY <1>8 DEF BracketInv, TypeOK, Leave, Deadline, Log, vars, blockVars, logVars
  <2>3. TypeOK'
    BY <2>1, <2>2 DEF BracketInv, TypeOK
  <2>4. All' = All
    BY <2>1 DEF All
  <2> QED
    BY <2>1, <2>3, <2>4, SameKeeps
<1> QED
  BY <1>1, <1>2, <1>3, <1>4, <1>5, <1>6, <1>7, <1>8 DEF Next

LEMMA BracketInit ==
    ASSUME Init PROVE BracketInv
<1> DEFINE e == Plain("message_start")
           f == Plain("ping")
<1>1. e \in Event /\ f \in Event /\ e.kind = "message_start" /\ f.kind = "ping"
  BY OnIsEvent, KindsThere DEF Plain
<1> HIDE DEF e, f
<1>2. pending = <<e, f>> /\ sent = <<>> /\ phase = "reading" /\ tools = <<>> /\ next = 0
      /\ text = [started |-> FALSE, block |-> 0] /\ usage = 0 /\ acc = 0
      /\ here = TRUE /\ late = FALSE /\ logged = NotYet /\ chunks = 0
  BY DEF Init, e, f
<1>3. pending \in Seq(Event) /\ DOMAIN pending = {1, 2} /\ pending[1] = e /\ pending[2] = f
  BY <1>1, <1>2
<1>4. All = pending
  BY <1>2, <1>3, ConcatEmptySeq DEF All
<1>5. TypeOK
  <2>1. text \in [started : BOOLEAN, block : 0 .. next] /\ next \in Nat
    BY <1>2
  <2>2. tools \in Seq([index : ToolIndices, block : 0 .. (next - 1), started : BOOLEAN])
        /\ sent \in Seq(Event)
    BY <1>2, EmptySeq
  <2>3. chunks \in 0 .. MaxChunks
    BY <1>2, StreamAssumption
  <2>4. /\ phase \in {"reading", "closing", "done", "quit"}
        /\ usage \in Usages \cup {0} /\ acc \in Usages \cup {0}
        /\ here \in BOOLEAN /\ late \in BOOLEAN /\ logged \in Usages \cup {0, NotYet}
    BY <1>2
  <2> QED
    BY <1>3, <2>1, <2>2, <2>3, <2>4, Zenon DEF TypeOK
<1>6. Bracketed(All)
  BY <1>1, <1>3, <1>4 DEF Bracketed
<1>7. BlocksApart
  BY <1>2 DEF BlocksApart
<1>8. \A b : ~Begun(All, b) /\ ~IsOpen(b)
  <2>1. \A b : On("block_start", b) # e /\ On("block_start", b) # f
    BY <1>1 DEF On
  <2> QED
    BY <1>2, <1>3, <1>4, <2>1 DEF Begun, Has, IsOpen, Started
<1>9. ReadingKnows
  BY <1>1, <1>2, <1>3, <1>4, <1>8 DEF ReadingKnows
<1> QED
  BY <1>2, <1>5, <1>6, <1>7, <1>9 DEF BracketInv

LEMMA UsageStep ==
    ASSUME UsageKnown, TypeOK, [Next]_vars PROVE UsageKnown'
<1> USE DEF UsageKnown, vars, blockVars, logVars
<1>1. ASSUME Take, UNCHANGED <<phase, acc>> PROVE UsageKnown'
  BY <1>1 DEF Take
<1>2. CASE TakeText \/ \E i \in ToolIndices, named, arguments \in BOOLEAN : TakeTool(i, named, arguments)
  <2>1. Take
    BY <1>2 DEF TakeText, TakeTool
  <2> QED
    BY <1>1, <2>1 DEF Take
<1>3. CASE \E u \in Usages : TakeUsage(u)
  BY <1>1, <1>3 DEF TakeUsage, Take
<1>4. CASE End
  BY <1>4 DEF End
<1>5. CASE Send
  BY <1>5 DEF Send
<1>6. CASE SendFails
  BY <1>6 DEF SendFails
<1>7. CASE Store
  BY <1>7 DEF Store
<1>8. CASE Leave \/ Deadline \/ Log \/ UNCHANGED vars
  BY <1>8 DEF Leave, Deadline, Log
<1> QED
  BY <1>2, <1>3, <1>4, <1>5, <1>6, <1>7, <1>8 DEF Next

LEMMA UsageLogged ==
    ASSUME UsageKnown, TypeOK, [Next]_vars
    PROVE  [logged # logged' /\ ~late => phase \in {"done", "quit"} /\ logged' = usage]_vars
<1> SUFFICES ASSUME Next, logged # logged', ~late
             PROVE  phase \in {"done", "quit"} /\ logged' = usage
  OBVIOUS
<1>1. Log
  <2>1. ASSUME Take PROVE FALSE
    BY <2>1 DEF Take, logVars
  <2>2. ~TakeText /\ ~(\E i \in ToolIndices, named, arguments \in BOOLEAN : TakeTool(i, named, arguments))
        /\ ~(\E u \in Usages : TakeUsage(u))
    BY <2>1 DEF TakeText, TakeTool, TakeUsage
  <2>3. ~(End \/ Send \/ SendFails \/ Store \/ Leave \/ Deadline)
    BY DEF End, Send, SendFails, Store, Leave, Deadline, logVars
  <2> QED
    BY <2>2, <2>3 DEF Next
<1>2. acc > 0 /\ logged' = acc
  BY <1>1 DEF Log
<1>3. acc # 0
  BY <1>2
<1> QED
  BY <1>2, <1>3 DEF UsageKnown, TypeOK

-----------------------------------------------------------------------------
(* What the client and the log can rely on.                                *)

LEMMA BracketedForClient ==
    ASSUME BracketInv PROVE WellBracketed
<1>1. sent \in Seq(Event) /\ pending \in Seq(Event) /\ phase \in {"reading", "closing", "done", "quit"}
  BY DEF BracketInv, TypeOK
<1>2. /\ Len(sent) \in Nat /\ DOMAIN sent = 1 .. Len(sent) /\ Len(pending) \in Nat
      /\ Len(All) = Len(sent) + Len(pending) /\ DOMAIN All = 1 .. Len(sent) + Len(pending)
      /\ \A i \in 1 .. Len(sent) : All[i] = sent[i]
  BY <1>1, ConcatProperties, LenProperties DEF All
<1>3. Bracketed(sent)
  BY <1>1, BracketedPart DEF BracketInv, All
<1>4. ASSUME NEW i \in DOMAIN sent
      PROVE  sent[i] = On(sent[i].kind, sent[i].block) /\ sent[i].block \in Nat
  BY <1>1, <1>4, LenProperties, ElementOfSeq, EventIsOn
<1>5. ASSUME NEW i \in DOMAIN sent, sent[i].kind \in {"delta", "block_stop"}
      PROVE  /\ \E s \in Places("block_start", sent[i].block) : s < i
             /\ ~\E s \in Places("block_stop", sent[i].block) : s < i
  BY <1>3, <1>5 DEF Bracketed, Places
<1>6. ASSUME NEW i \in DOMAIN sent, sent[i].kind = "block_start"
      PROVE  Cardinality(Places("block_start", sent[i].block)) = 1
  <2>1. sent[i] = On("block_start", sent[i].block)
    BY <1>4, <1>6
  <2>2. \A j \in DOMAIN sent : sent[j] = sent[i] => i = j
    BY <1>3, <1>6, Zenon DEF Bracketed
  <2>3. Places("block_start", sent[i].block) = {i}
    BY <2>1, <2>2 DEF Places
  <2> QED
    BY <2>3, FS_Singleton
<1>7. ASSUME Complete, NEW i \in DOMAIN sent, sent[i].kind = "block_start"
      PROVE  Places("block_stop", sent[i].block) # {}
  <2>1. PICK j \in DOMAIN sent : sent[j].kind = "message_stop"
    BY <1>7 DEF Complete
  <2>2. j \in DOMAIN All /\ All[j].kind = "message_stop"
    BY <1>2, <2>1
  <2>3. phase \in {"closing", "done"}
    BY <1>1, <2>1, <2>2 DEF BracketInv, ReadingKnows, QuitKnows
  <2>4. ClosingKnows
    BY <2>3 DEF BracketInv
  <2>5. j = Len(All)
    BY <2>2, <2>4 DEF ClosingKnows
  <2>6. Len(pending) = 0
    BY <1>2, <2>1, <2>5
  <2>7. All = sent
    BY <1>1, <2>6, EmptySeq, ConcatEmptySeq DEF All
  <2>8. Begun(All, sent[i].block)
    BY <1>4, <1>7, <2>7 DEF Begun, Has
  <2>9. Ended(sent, sent[i].block)
    BY <1>4, <1>7, <2>4, <2>7, <2>8 DEF ClosingKnows
  <2> QED
    BY <2>9 DEF Ended, Has, Places
<1> QED
  BY <1>5, <1>6, <1>7 DEF WellBracketed

\* The streaming task keeps its bookkeeping: the blocks it believes open are those
\* that what it has sent and is about to send leaves open (transform_stream).
THEOREM StreamInvariant == FairSpec => []BracketInv
<1>1. BracketInv /\ [Next]_vars => BracketInv'
  BY BracketStep
<1> QED
  BY <1>1, BracketInit, PTL DEF FairSpec

\* What a client receives is bracketed, however text, named and unnamed tool calls
\* follow each other, and wherever the client leaves (transform_stream).
THEOREM StreamBracketed == FairSpec => []WellBracketed
  BY StreamInvariant, BracketedForClient, PTL

\* The task that logs a stream's usage (messages) logs, before its patience ends,
\* what the transform task knew when it ended, and never a part of it.
THEOREM UsageIsWhole == FairSpec => LogsWholeUsage
<1>1. Init => UsageKnown
  BY DEF Init, UsageKnown
<1>2. UsageKnown /\ TypeOK /\ [Next]_vars => UsageKnown'
  BY UsageStep
<1>3. BracketInv => TypeOK
  BY DEF BracketInv
<1>4. FairSpec => [](UsageKnown /\ TypeOK)
  BY <1>1, <1>2, <1>3, StreamInvariant, PTL DEF FairSpec
<1>5. UsageKnown /\ TypeOK /\ [Next]_vars
        => [logged # logged' /\ ~late => phase \in {"done", "quit"} /\ logged' = usage]_vars
  BY UsageLogged
<1> QED
  BY <1>4, <1>5, PTL DEF FairSpec, LogsWholeUsage
=============================================================================

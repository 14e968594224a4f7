----------------------------- MODULE BulkProofs -----------------------------
(***************************************************************************)
(* Proofs about BulkExchange, for any communication objects and halos.     *)
(***************************************************************************)
EXTENDS BulkExchange, TLAPS

\* Sending appends a message.
LEMMA AppendFacts ==
    ASSUME NEW S, NEW q \in Seq(S), NEW x \in S
    PROVE  /\ Len(q) \in Nat
           /\ Len(Append(q, x)) = Len(q) + 1
           /\ Append(q, x)[Len(q) + 1] = x
           /\ \A i \in 1 .. Len(q) : Append(q, x)[i] = q[i]
OBVIOUS

\* Receiving takes the first message.
LEMMA TailFacts ==
    ASSUME NEW S, NEW q \in Seq(S), q # << >>
    PROVE  /\ Len(q) \in Nat /\ Len(q) > 0
           /\ Head(q) = q[1]
           /\ Len(Tail(q)) = Len(q) - 1
           /\ \A i \in 1 .. Len(q) - 1 : Tail(q)[i] = q[i + 1]
OBVIOUS

\* The invariant holds before any field is added.
LEMMA InitBulk == Init => BulkInv
<1> SUFFICES ASSUME Init PROVE BulkInv
    OBVIOUS
<1> USE BulkAssumption
<1>1. TypeOK
  BY DEF Init, TypeOK, PCs, Torn
<1>2. ASSUME NEW c \in COs PROVE ThreadInv(c)
  BY DEF Init, ThreadInv, Starting, InExchange, Round
<1>3. ASSUME NEW l \in Local PROVE HandshakeInv(l) /\ EpochInv(l)
  BY DEF Init, HandshakeInv, EpochInv, Starting, Round, Opened, PutInto
<1>4. ASSUME NEW l \in Remote PROVE MessageInv(l)
  BY DEF Init, MessageInv, SentFor, UnpackedFrom, Round, Remote
<1> QED
  BY <1>1, <1>2, <1>3, <1>4 DEF BulkInv, Init

\* What BulkInv says of one halo, and the range of its counts.
LocalFacts(l) ==
    /\ Src[l] \in COs /\ Dst[l] \in COs /\ l \in Links /\ l \in Local
    /\ ThreadInv(Src[l]) /\ ThreadInv(Dst[l])
    /\ Round(Src[l]) \in Nat /\ Round(Dst[l]) \in Nat
    /\ Opened(l) \in Nat
    /\ pc[Dst[l]] \in Starting => Opened(l) = 0
    /\ PutInto(l) \in 0 .. Round(Src[l])
    /\ HandshakeInv(l) /\ EpochInv(l)

RemoteFacts(l) ==
    /\ Src[l] \in COs /\ Dst[l] \in COs /\ l \in Links /\ l \notin Local
    /\ ThreadInv(Src[l]) /\ ThreadInv(Dst[l])
    /\ Round(Src[l]) \in Nat
    /\ SentFor(l) \in 0 .. Round(Src[l])
    /\ UnpackedFrom(l) \in Nat
    /\ MessageInv(l)

\* BulkInv says this of every halo.
LEMMA LinkFacts ==
    ASSUME BulkInv
    PROVE  /\ \A l \in Local : LocalFacts(l)
           /\ \A l \in Remote : RemoteFacts(l)
<1>1. ASSUME NEW l \in Links
      PROVE  /\ Src[l] \in COs /\ Dst[l] \in COs
             /\ ThreadInv(Src[l]) /\ ThreadInv(Dst[l])
             /\ Round(Src[l]) \in Nat /\ Round(Dst[l]) \in Nat
             /\ Opened(l) \in Nat /\ UnpackedFrom(l) \in Nat
             /\ PutInto(l) \in 0 .. Round(Src[l]) /\ SentFor(l) \in 0 .. Round(Src[l])
             /\ pc[Dst[l]] \in Starting => Opened(l) = 0
  <2>1. /\ Src[l] \in COs /\ Dst[l] \in COs
        /\ ThreadInv(Src[l]) /\ ThreadInv(Dst[l])
    BY BulkAssumption DEF BulkInv
  <2>2. Round(Src[l]) \in Nat /\ Round(Dst[l]) \in Nat
    BY <2>1 DEF BulkInv, TypeOK, Round
  <2>3. /\ Opened(l) \in Nat /\ UnpackedFrom(l) \in Nat
        /\ PutInto(l) \in 0 .. Round(Src[l]) /\ SentFor(l) \in 0 .. Round(Src[l])
    BY <2>1, <2>2 DEF ThreadInv, Opened, PutInto, SentFor, UnpackedFrom, InExchange
  <2>4. pc[Dst[l]] \in Starting => Opened(l) = 0
    BY <2>1, <2>2 DEF ThreadInv, Opened, Starting
  <2> QED
    BY <2>1, <2>2, <2>3, <2>4
<1>2. Local \subseteq Links
  BY BulkAssumption
<1> QED
  BY <1>1, <1>2 DEF BulkInv, LocalFacts, RemoteFacts, Remote

\* AddField preserves the invariant, in every halo it touches and every one it does not.
LEMMA AddFieldBulk ==
    ASSUME BulkInv, NEW c \in COs, AddField(c) PROVE BulkInv'
<1> USE BulkAssumption DEF AddField, Goto
<1>0. /\ TypeOK
      /\ \A d \in COs : ThreadInv(d)
  BY DEF BulkInv
<1>1. TypeOK'
  BY <1>0 DEF TypeOK, PCs, Torn
<1>2. ASSUME NEW d \in COs PROVE ThreadInv(d)'
  BY <1>0 DEF TypeOK, ThreadInv, Starting, InExchange, Round, In, Out
<1>3. ASSUME NEW l \in Local PROVE HandshakeInv(l)' /\ EpochInv(l)'
  <2>0. LocalFacts(l)
    BY LinkFacts
  <2> USE DEF LocalFacts
  <2>1. HandshakeInv(l)'
    BY <1>0, <2>0 DEF TypeOK, ThreadInv, HandshakeInv, EpochInv, Starting, In, Out
  <2>2. Opened(l)' = Opened(l)
    BY <1>0, <2>0 DEF Opened, Round, TypeOK, In, ThreadInv
  <2>3. PutInto(l)' = PutInto(l)
    BY <1>0, <2>0 DEF PutInto, Round, TypeOK, Out, EpochInv
  <2>4. EpochInv(l)'
    BY <1>0, <2>0, <2>2, <2>3 DEF TypeOK, EpochInv, HandshakeInv, Starting, In, Out
  <2> QED
    BY <2>1, <2>4
<1>4. ASSUME NEW l \in Remote PROVE MessageInv(l)'
  <2>0. RemoteFacts(l)
    BY LinkFacts
  <2> USE DEF RemoteFacts
  <2>1. SentFor(l)' = SentFor(l)
    BY <1>0, <2>0 DEF SentFor, Round, TypeOK
  <2>2. UnpackedFrom(l)' = UnpackedFrom(l)
    BY <1>0, <2>0 DEF UnpackedFrom, Round, TypeOK, In, Remote
  <2> QED
    BY <1>0, <2>0, <2>1, <2>2 DEF MessageInv, TypeOK, Remote, Out
<1>5. writing' \subseteq Local
  BY <1>0 DEF BulkInv
<1> QED
  BY <1>1, <1>2, <1>3, <1>4, <1>5 DEF BulkInv

\* InitRecv preserves the invariant, in every halo it touches and every one it does not.
LEMMA InitRecvBulk ==
    ASSUME BulkInv, NEW c \in COs, InitRecv(c) PROVE BulkInv'
<1> USE BulkAssumption DEF InitRecv, Goto
<1>0. /\ TypeOK
      /\ \A d \in COs : ThreadInv(d)
  BY DEF BulkInv
<1>1. TypeOK'
  BY <1>0 DEF TypeOK, PCs, Torn
<1>2. ASSUME NEW d \in COs PROVE ThreadInv(d)'
  BY <1>0 DEF TypeOK, ThreadInv, Starting, InExchange, Round, In, Out
<1>3. ASSUME NEW l \in Local PROVE HandshakeInv(l)' /\ EpochInv(l)'
  <2>0. LocalFacts(l)
    BY LinkFacts
  <2> USE DEF LocalFacts
  <2>1. HandshakeInv(l)'
    BY <1>0, <2>0 DEF TypeOK, ThreadInv, HandshakeInv, EpochInv, Starting, In, Out
  <2>2. Opened(l)' = Opened(l)
    BY <1>0, <2>0 DEF Opened, Round, TypeOK, In, ThreadInv
  <2>3. PutInto(l)' = PutInto(l)
    BY <1>0, <2>0 DEF PutInto, Round, TypeOK, Out, EpochInv
  <2>4. EpochInv(l)'
    BY <1>0, <2>0, <2>2, <2>3 DEF TypeOK, EpochInv, HandshakeInv, Starting, In, Out
  <2> QED
    BY <2>1, <2>4
<1>4. ASSUME NEW l \in Remote PROVE MessageInv(l)'
  <2>0. RemoteFacts(l)
    BY LinkFacts
  <2> USE DEF RemoteFacts
  <2>1. SentFor(l)' = SentFor(l)
    BY <1>0, <2>0 DEF SentFor, Round, TypeOK
  <2>2. UnpackedFrom(l)' = UnpackedFrom(l)
    BY <1>0, <2>0 DEF UnpackedFrom, Round, TypeOK, In, Remote
  <2> QED
    BY <1>0, <2>0, <2>1, <2>2 DEF MessageInv, TypeOK, Remote, Out
<1>5. writing' \subseteq Local
  BY <1>0 DEF BulkInv
<1> QED
  BY <1>1, <1>2, <1>3, <1>4, <1>5 DEF BulkInv

\* InitSend preserves the invariant, in every halo it touches and every one it does not.
LEMMA InitSendBulk ==
    ASSUME BulkInv, NEW c \in COs, InitSend(c) PROVE BulkInv'
<1> USE BulkAssumption DEF InitSend, Goto
<1>0. /\ TypeOK
      /\ \A d \in COs : ThreadInv(d)
  BY DEF BulkInv
<1>1. TypeOK'
  BY <1>0 DEF TypeOK, PCs, Torn
<1>2. ASSUME NEW d \in COs PROVE ThreadInv(d)'
  BY <1>0 DEF TypeOK, ThreadInv, Starting, InExchange, Round, In, Out
<1>3. ASSUME NEW l \in Local PROVE HandshakeInv(l)' /\ EpochInv(l)'
  <2>0. LocalFacts(l)
    BY LinkFacts
  <2> USE DEF LocalFacts
  <2>1. HandshakeInv(l)'
    BY <1>0, <2>0 DEF TypeOK, ThreadInv, HandshakeInv, EpochInv, Starting, In, Out
  <2>2. Opened(l)' = Opened(l)
    BY <1>0, <2>0 DEF Opened, Round, TypeOK, In, ThreadInv
  <2>3. PutInto(l)' = PutInto(l)
    BY <1>0, <2>0 DEF PutInto, Round, TypeOK, Out, EpochInv
  <2>4. EpochInv(l)'
    BY <1>0, <2>0, <2>2, <2>3 DEF TypeOK, EpochInv, HandshakeInv, Starting, In, Out
  <2> QED
    BY <2>1, <2>4
<1>4. ASSUME NEW l \in Remote PROVE MessageInv(l)'
  <2>0. RemoteFacts(l)
    BY LinkFacts
  <2> USE DEF RemoteFacts
  <2>1. SentFor(l)' = SentFor(l)
    BY <1>0, <2>0 DEF SentFor, Round, TypeOK
  <2>2. UnpackedFrom(l)' = UnpackedFrom(l)
    BY <1>0, <2>0 DEF UnpackedFrom, Round, TypeOK, In, Remote
  <2> QED
    BY <1>0, <2>0, <2>1, <2>2 DEF MessageInv, TypeOK, Remote, Out
<1>5. writing' \subseteq Local
  BY <1>0 DEF BulkInv
<1> QED
  BY <1>1, <1>2, <1>3, <1>4, <1>5 DEF BulkInv

\* Initialized preserves the invariant, in every halo it touches and every one it does not.
LEMMA InitializedBulk ==
    ASSUME BulkInv, NEW c \in COs, Initialized(c) PROVE BulkInv'
<1> USE BulkAssumption DEF Initialized, Goto
<1>0. /\ TypeOK
      /\ \A d \in COs : ThreadInv(d)
  BY DEF BulkInv
<1>1. TypeOK'
  BY <1>0 DEF TypeOK, PCs, Torn
<1>2. ASSUME NEW d \in COs PROVE ThreadInv(d)'
  BY <1>0 DEF TypeOK, ThreadInv, Starting, InExchange, Round, In, Out
<1>3. ASSUME NEW l \in Local PROVE HandshakeInv(l)' /\ EpochInv(l)'
  <2>0. LocalFacts(l)
    BY LinkFacts
  <2> USE DEF LocalFacts
  <2>1. HandshakeInv(l)'
    BY <1>0, <2>0 DEF TypeOK, ThreadInv, HandshakeInv, EpochInv, Starting, In, Out
  <2>2. Opened(l)' = Opened(l)
    BY <1>0, <2>0 DEF Opened, Round, TypeOK, In, ThreadInv
  <2>3. PutInto(l)' = PutInto(l)
    BY <1>0, <2>0 DEF PutInto, Round, TypeOK, Out, EpochInv
  <2>4. EpochInv(l)'
    BY <1>0, <2>0, <2>2, <2>3 DEF TypeOK, EpochInv, HandshakeInv, Starting, In, Out
  <2> QED
    BY <2>1, <2>4
<1>4. ASSUME NEW l \in Remote PROVE MessageInv(l)'
  <2>0. RemoteFacts(l)
    BY LinkFacts
  <2> USE DEF RemoteFacts
  <2>1. SentFor(l)' = SentFor(l)
    BY <1>0, <2>0 DEF SentFor, Round, TypeOK
  <2>2. UnpackedFrom(l)' = UnpackedFrom(l)
    BY <1>0, <2>0 DEF UnpackedFrom, Round, TypeOK, In, Remote
  <2> QED
    BY <1>0, <2>0, <2>1, <2>2 DEF MessageInv, TypeOK, Remote, Out
<1>5. writing' \subseteq Local
  BY <1>0 DEF BulkInv
<1> QED
  BY <1>1, <1>2, <1>3, <1>4, <1>5 DEF BulkInv

\* Exchange preserves the invariant, in every halo it touches and every one it does not.
LEMMA ExchangeBulk ==
    ASSUME BulkInv, NEW c \in COs, Exchange(c) PROVE BulkInv'
<1> USE BulkAssumption DEF Exchange, Goto
<1>0. /\ TypeOK
      /\ \A d \in COs : ThreadInv(d)
  BY DEF BulkInv
<1>s. \A d \in COs : /\ sent'[d] \in Seq(Nat) /\ Len(sent'[d]) >= Len(sent[d])
                      /\ \A i \in 1 .. Len(sent[d]) : sent'[d][i] = sent[d][i]
  BY <1>0 DEF TypeOK
<1>1. TypeOK'
  BY <1>0 DEF TypeOK, PCs, Torn
<1>2. ASSUME NEW d \in COs PROVE ThreadInv(d)'
  BY <1>0 DEF TypeOK, ThreadInv, Starting, InExchange, Round, In, Out
<1>3. ASSUME NEW l \in Local PROVE HandshakeInv(l)' /\ EpochInv(l)'
  <2>0. LocalFacts(l)
    BY LinkFacts
  <2> USE DEF LocalFacts
  <2>1. HandshakeInv(l)'
    BY <1>0, <2>0 DEF TypeOK, ThreadInv, HandshakeInv, EpochInv, Starting, In, Out
  <2>2. Opened(l)' = Opened(l)
    BY <1>0, <2>0, SMTT(20) DEF Opened, Round, TypeOK, In, ThreadInv
  <2>3. PutInto(l)' = PutInto(l)
    BY <1>0, <2>0, SMTT(20) DEF PutInto, Round, TypeOK, Out, EpochInv
  <2>4. PutInto(l) > 0 => sent'[Src[l]][PutInto(l)] = sent[Src[l]][PutInto(l)]
    BY <1>s, <2>0 DEF Round
  <2>5. EpochInv(l)'
    BY <1>0, <2>0, <2>2, <2>3, <2>4 DEF TypeOK, EpochInv, HandshakeInv, Starting, In
  <2> QED
    BY <2>1, <2>5
<1>4. ASSUME NEW l \in Remote PROVE MessageInv(l)'
  <2>0. RemoteFacts(l)
    BY LinkFacts
  <2> USE DEF RemoteFacts
  <2>1. SentFor(l)' = SentFor(l)
    BY <1>0, <2>0 DEF SentFor, Round, TypeOK
  <2>2. UnpackedFrom(l)' = UnpackedFrom(l)
    BY <1>0, <2>0 DEF UnpackedFrom, Round, TypeOK, In, Remote
  <2>3. ASSUME NEW i \in 1 .. SentFor(l) PROVE sent'[Src[l]][i] = sent[Src[l]][i]
    BY <1>s, <2>0 DEF Round
  <2>4. Len(chan[l]) \in Nat /\ UnpackedFrom(l) <= SentFor(l)
    BY <1>0, <2>0 DEF MessageInv, TypeOK
  <2>5. ASSUME NEW i \in 1 .. Len(chan[l])
        PROVE  chan[l][i] = sent'[Src[l]][UnpackedFrom(l) + i]
    <3>1. UnpackedFrom(l) + i \in 1 .. SentFor(l)
      BY <2>0, <2>4 DEF MessageInv
    <3> QED
      BY <2>0, <2>3, <3>1 DEF MessageInv
  <2>6. UnpackedFrom(l) > 0 => halo[l] = sent'[Src[l]][UnpackedFrom(l)]
    <3>1. UnpackedFrom(l) > 0 => UnpackedFrom(l) \in 1 .. SentFor(l)
      BY <2>0, <2>4
    <3> QED
      BY <2>0, <2>3, <3>1 DEF MessageInv
  <2> QED
    BY <2>0, <2>1, <2>2, <2>5, <2>6 DEF MessageInv
<1>5. writing' \subseteq Local
  BY <1>0 DEF BulkInv
<1> QED
  BY <1>1, <1>2, <1>3, <1>4, <1>5 DEF BulkInv

\* ExchangeRemote preserves the invariant, in every halo it touches and every one it does not.
LEMMA ExchangeRemoteBulk ==
    ASSUME BulkInv, NEW c \in COs, ExchangeRemote(c) PROVE BulkInv'
<1> USE BulkAssumption DEF ExchangeRemote, Goto
<1>0. /\ TypeOK
      /\ \A d \in COs : ThreadInv(d)
  BY DEF BulkInv
<1>1. TypeOK'
  BY <1>0 DEF TypeOK, PCs, Torn
<1>2. ASSUME NEW d \in COs PROVE ThreadInv(d)'
  BY <1>0 DEF TypeOK, ThreadInv, Starting, InExchange, Round, In, Out
<1>3. ASSUME NEW l \in Local PROVE HandshakeInv(l)' /\ EpochInv(l)'
  <2>0. LocalFacts(l)
    BY LinkFacts
  <2> USE DEF LocalFacts
  <2>1. HandshakeInv(l)'
    BY <1>0, <2>0 DEF TypeOK, ThreadInv, HandshakeInv, EpochInv, Starting, In, Out
  <2>2. Opened(l)' = Opened(l)
    BY <1>0, <2>0 DEF Opened, Round, TypeOK, In, ThreadInv
  <2>3. PutInto(l)' = PutInto(l)
    BY <1>0, <2>0 DEF PutInto, Round, TypeOK, Out, EpochInv
  <2>4. EpochInv(l)'
    BY <1>0, <2>0, <2>2, <2>3 DEF TypeOK, EpochInv, HandshakeInv, Starting, In, Out
  <2> QED
    BY <2>1, <2>4
<1>4. ASSUME NEW l \in Remote PROVE MessageInv(l)'
  <2>0. RemoteFacts(l)
    BY LinkFacts
  <2> USE DEF RemoteFacts
  <2>1. SentFor(l)' = (IF Src[l] = c THEN SentFor(l) + 1 ELSE SentFor(l))
    BY <1>0, <2>0 DEF SentFor, Round, TypeOK
  <2>2. UnpackedFrom(l)' = UnpackedFrom(l)
    BY <1>0, <2>0 DEF UnpackedFrom, Round, TypeOK, In, Remote
  <2>3. CASE Src[l] = c
    <3>1. /\ chan[l] \in Seq(Nat) /\ field[c] \in Nat
          /\ chan'[l] = Append(chan[l], field[c])
      BY <1>0, <2>0, <2>3 DEF TypeOK, Remote, Out
    <3>2. SentFor(l) + 1 = Round(c) /\ field[c] = sent[c][Round(c)]
      BY <2>0, <2>3 DEF SentFor, ThreadInv
    <3> HIDE DEF ExchangeRemote, Goto
    <3>3. /\ Len(chan'[l]) = Len(chan[l]) + 1 /\ Len(chan[l]) \in Nat
          /\ chan'[l][Len(chan[l]) + 1] = field[c]
          /\ \A i \in 1 .. Len(chan[l]) : chan'[l][i] = chan[l][i]
      BY <3>1, AppendFacts
    <3>4. sent' = sent /\ halo' = halo
      BY DEF ExchangeRemote
    <3>5. UnpackedFrom(l) + (Len(chan[l]) + 1) = Round(c)
      BY <2>0, <3>2, <3>3 DEF MessageInv
    <3>6. ASSUME NEW i \in 1 .. Len(chan[l]) + 1
          PROVE  chan'[l][i] = sent[Src[l]][UnpackedFrom(l) + i]
      <4>1. CASE i = Len(chan[l]) + 1
        BY <2>3, <3>2, <3>3, <3>5, <4>1
      <4>2. CASE i # Len(chan[l]) + 1
        <5>1. i \in 1 .. Len(chan[l])
          BY <3>3, <4>2
        <5> QED
          BY <2>0, <3>3, <5>1 DEF MessageInv
      <4> QED
        BY <4>1, <4>2
    <3> QED
      BY <2>0, <2>1, <2>2, <2>3, <3>2, <3>3, <3>4, <3>6 DEF MessageInv
  <2>4. CASE Src[l] # c
    <3>1. chan'[l] = chan[l]
      BY <1>0, <2>0, <2>4 DEF TypeOK, Out
    <3> QED
      BY <2>0, <2>1, <2>2, <2>4, <3>1 DEF MessageInv
  <2> QED
    BY <2>3, <2>4
<1>5. writing' \subseteq Local
  BY <1>0 DEF BulkInv
<1> QED
  BY <1>1, <1>2, <1>3, <1>4, <1>5 DEF BulkInv

\* Return preserves the invariant, in every halo it touches and every one it does not.
LEMMA ReturnBulk ==
    ASSUME BulkInv, NEW c \in COs, Return(c) PROVE BulkInv'
<1> USE BulkAssumption DEF Return, Goto
<1>0. /\ TypeOK
      /\ \A d \in COs : ThreadInv(d)
  BY DEF BulkInv
<1>1. TypeOK'
  BY <1>0 DEF TypeOK, PCs, Torn
<1>2. ASSUME NEW d \in COs PROVE ThreadInv(d)'
  BY <1>0 DEF TypeOK, ThreadInv, Starting, InExchange, Round, In, Out
<1>3. ASSUME NEW l \in Local PROVE HandshakeInv(l)' /\ EpochInv(l)'
  <2>0. LocalFacts(l)
    BY LinkFacts
  <2> USE DEF LocalFacts
  <2>1. HandshakeInv(l)'
    BY <1>0, <2>0 DEF TypeOK, ThreadInv, HandshakeInv, EpochInv, Starting, In, Out
  <2>2. Opened(l)' = Opened(l)
    BY <1>0, <2>0 DEF Opened, Round, TypeOK, In, ThreadInv
  <2>3. PutInto(l)' = PutInto(l)
    BY <1>0, <2>0 DEF PutInto, Round, TypeOK, Out, EpochInv
  <2>4. EpochInv(l)'
    BY <1>0, <2>0, <2>2, <2>3 DEF TypeOK, EpochInv, HandshakeInv, Starting, In, Out
  <2> QED
    BY <2>1, <2>4
<1>4. ASSUME NEW l \in Remote PROVE MessageInv(l)'
  <2>0. RemoteFacts(l)
    BY LinkFacts
  <2> USE DEF RemoteFacts
  <2>1. SentFor(l)' = SentFor(l)
    BY <1>0, <2>0 DEF SentFor, Round, TypeOK
  <2>2. UnpackedFrom(l)' = UnpackedFrom(l)
    BY <1>0, <2>0 DEF UnpackedFrom, Round, TypeOK, In, Remote
  <2> QED
    BY <1>0, <2>0, <2>1, <2>2 DEF MessageInv, TypeOK, Remote, Out
<1>5. writing' \subseteq Local
  BY <1>0 DEF BulkInv
<1> QED
  BY <1>1, <1>2, <1>3, <1>4, <1>5 DEF BulkInv

\* WaitRemote preserves the invariant, in every halo it touches and every one it does not.
LEMMA WaitRemoteBulk ==
    ASSUME BulkInv, NEW c \in COs, WaitRemote(c) PROVE BulkInv'
<1> USE BulkAssumption DEF WaitRemote, Goto
<1>0. /\ TypeOK
      /\ \A d \in COs : ThreadInv(d)
  BY DEF BulkInv
<1>1. TypeOK'
  BY <1>0 DEF TypeOK, PCs, Remote
<1>2. ASSUME NEW d \in COs PROVE ThreadInv(d)'
  BY <1>0 DEF TypeOK, ThreadInv, Starting, InExchange, Round, In, Out
<1>3. ASSUME NEW l \in Local PROVE HandshakeInv(l)' /\ EpochInv(l)'
  <2>0. LocalFacts(l)
    BY LinkFacts
  <2> USE DEF LocalFacts
  <2>1. HandshakeInv(l)'
    BY <1>0, <2>0 DEF TypeOK, ThreadInv, HandshakeInv, EpochInv, Starting, In, Out
  <2>2. Opened(l)' = Opened(l)
    BY <1>0, <2>0 DEF Opened, Round, TypeOK, In, ThreadInv
  <2>3. PutInto(l)' = PutInto(l)
    BY <1>0, <2>0 DEF PutInto, Round, TypeOK, Out, EpochInv
  <2>4. EpochInv(l)'
    BY <1>0, <2>0, <2>2, <2>3 DEF TypeOK, EpochInv, HandshakeInv, Starting, In, Out
  <2> QED
    BY <2>1, <2>4
<1>4. ASSUME NEW l \in Remote PROVE MessageInv(l)'
  <2>0. RemoteFacts(l)
    BY LinkFacts
  <2> USE DEF RemoteFacts
  <2>1. SentFor(l)' = SentFor(l)
    BY <1>0, <2>0 DEF SentFor, Round, TypeOK
  <2>2. UnpackedFrom(l)' = UnpackedFrom(l)
    BY <1>0, <2>0 DEF UnpackedFrom, Round, TypeOK, In, Remote
  <2> QED
    BY <1>0, <2>0, <2>1, <2>2 DEF MessageInv, TypeOK, Remote, Out
<1>5. writing' \subseteq Local
  BY <1>0 DEF BulkInv
<1> QED
  BY <1>1, <1>2, <1>3, <1>4, <1>5 DEF BulkInv

\* WaitLocal preserves the invariant, in every halo it touches and every one it does not.
LEMMA WaitLocalBulk ==
    ASSUME BulkInv, NEW c \in COs, WaitLocal(c) PROVE BulkInv'
<1> USE BulkAssumption DEF WaitLocal, Goto
<1>0. /\ TypeOK
      /\ \A d \in COs : ThreadInv(d)
  BY DEF BulkInv
<1>1. TypeOK'
  BY <1>0 DEF TypeOK, PCs, Torn
<1>2. ASSUME NEW d \in COs PROVE ThreadInv(d)'
  BY <1>0 DEF TypeOK, ThreadInv, Starting, InExchange, Round, In, Out
<1>3. ASSUME NEW l \in Local PROVE HandshakeInv(l)' /\ EpochInv(l)'
  <2>0. LocalFacts(l)
    BY LinkFacts
  <2> USE DEF LocalFacts
  <2>1. HandshakeInv(l)'
    BY <1>0, <2>0 DEF TypeOK, ThreadInv, HandshakeInv, EpochInv, Starting, In, Out
  <2>2. Opened(l)' = Opened(l)
    BY <1>0, <2>0 DEF Opened, Round, TypeOK, In, ThreadInv
  <2>3. PutInto(l)' = PutInto(l)
    BY <1>0, <2>0 DEF PutInto, Round, TypeOK, Out, EpochInv
  <2>4. EpochInv(l)'
    BY <1>0, <2>0, <2>2, <2>3 DEF TypeOK, EpochInv, HandshakeInv, Starting, In, Out
  <2> QED
    BY <2>1, <2>4
<1>4. ASSUME NEW l \in Remote PROVE MessageInv(l)'
  <2>0. RemoteFacts(l)
    BY LinkFacts
  <2> USE DEF RemoteFacts
  <2>1. SentFor(l)' = SentFor(l)
    BY <1>0, <2>0 DEF SentFor, Round, TypeOK
  <2>2. UnpackedFrom(l)' = UnpackedFrom(l)
    BY <1>0, <2>0 DEF UnpackedFrom, Round, TypeOK, In, Remote
  <2> QED
    BY <1>0, <2>0, <2>1, <2>2 DEF MessageInv, TypeOK, Remote, Out
<1>5. writing' \subseteq Local
  BY <1>0 DEF BulkInv
<1> QED
  BY <1>1, <1>2, <1>3, <1>4, <1>5 DEF BulkInv

\* Complete preserves the invariant, in every halo it touches and every one it does not.
LEMMA CompleteBulk ==
    ASSUME BulkInv, NEW c \in COs, Complete(c) PROVE BulkInv'
<1> USE BulkAssumption DEF Complete, Goto
<1>0. /\ TypeOK
      /\ \A d \in COs : ThreadInv(d)
  BY DEF BulkInv
<1>1. TypeOK'
  BY <1>0 DEF TypeOK, PCs, Torn
<1>2. ASSUME NEW d \in COs PROVE ThreadInv(d)'
  BY <1>0 DEF TypeOK, ThreadInv, Starting, InExchange, Round, In, Out
<1>3. ASSUME NEW l \in Local PROVE HandshakeInv(l)' /\ EpochInv(l)'
  <2>0. LocalFacts(l)
    BY LinkFacts
  <2> USE DEF LocalFacts
  <2>1. HandshakeInv(l)'
    BY <1>0, <2>0 DEF TypeOK, ThreadInv, HandshakeInv, EpochInv, Starting, In, Out
  <2>2. Opened(l)' = Opened(l)
    BY <1>0, <2>0 DEF Opened, Round, TypeOK, In, ThreadInv
  <2>3. PutInto(l)' = PutInto(l)
    BY <1>0, <2>0 DEF PutInto, Round, TypeOK, Out, EpochInv
  <2>4. EpochInv(l)'
    BY <1>0, <2>0, <2>2, <2>3 DEF TypeOK, EpochInv, HandshakeInv, Starting, In, Out
  <2> QED
    BY <2>1, <2>4
<1>4. ASSUME NEW l \in Remote PROVE MessageInv(l)'
  <2>0. RemoteFacts(l)
    BY LinkFacts
  <2> USE DEF RemoteFacts
  <2>1. SentFor(l)' = SentFor(l)
    BY <1>0, <2>0 DEF SentFor, Round, TypeOK
  <2>2. UnpackedFrom(l)' = UnpackedFrom(l)
    BY <1>0, <2>0 DEF UnpackedFrom, Round, TypeOK, In, Remote
  <2> QED
    BY <1>0, <2>0, <2>1, <2>2 DEF MessageInv, TypeOK, Remote, Out
<1>5. writing' \subseteq Local
  BY <1>0 DEF BulkInv
<1> QED
  BY <1>1, <1>2, <1>3, <1>4, <1>5 DEF BulkInv

\* Compute preserves the invariant, in every halo it touches and every one it does not.
LEMMA ComputeBulk ==
    ASSUME BulkInv, NEW c \in COs, Compute(c) PROVE BulkInv'
<1> USE BulkAssumption DEF Compute
<1>0. /\ TypeOK
      /\ \A d \in COs : ThreadInv(d)
  BY DEF BulkInv
<1>1. TypeOK'
  BY <1>0 DEF TypeOK, PCs, Torn
<1>2. ASSUME NEW d \in COs PROVE ThreadInv(d)'
  BY <1>0 DEF TypeOK, ThreadInv, Starting, InExchange, Round, In, Out
<1>3. ASSUME NEW l \in Local PROVE HandshakeInv(l)' /\ EpochInv(l)'
  <2>0. LocalFacts(l)
    BY LinkFacts
  <2> USE DEF LocalFacts
  <2>1. HandshakeInv(l)'
    BY <1>0, <2>0 DEF TypeOK, ThreadInv, HandshakeInv, EpochInv, Starting, In, Out
  <2>2. Opened(l)' = Opened(l)
    BY <1>0, <2>0 DEF Opened, Round, TypeOK, In, ThreadInv
  <2>3. PutInto(l)' = PutInto(l)
    BY <1>0, <2>0 DEF PutInto, Round, TypeOK, Out, EpochInv
  <2>4. EpochInv(l)'
    BY <1>0, <2>0, <2>2, <2>3 DEF TypeOK, EpochInv, HandshakeInv, Starting, In, Out
  <2> QED
    BY <2>1, <2>4
<1>4. ASSUME NEW l \in Remote PROVE MessageInv(l)'
  <2>0. RemoteFacts(l)
    BY LinkFacts
  <2> USE DEF RemoteFacts
  <2>1. SentFor(l)' = SentFor(l)
    BY <1>0, <2>0 DEF SentFor, Round, TypeOK
  <2>2. UnpackedFrom(l)' = UnpackedFrom(l)
    BY <1>0, <2>0 DEF UnpackedFrom, Round, TypeOK, In, Remote
  <2> QED
    BY <1>0, <2>0, <2>1, <2>2 DEF MessageInv, TypeOK, Remote, Out
<1>5. writing' \subseteq Local
  BY <1>0 DEF BulkInv
<1> QED
  BY <1>1, <1>2, <1>3, <1>4, <1>5 DEF BulkInv

\* Recv preserves the invariant, in every halo it touches and every one it does not.
LEMMA RecvBulk ==
    ASSUME BulkInv, NEW c \in COs, NEW k \in Links, Recv(c, k) PROVE BulkInv'
<1> USE BulkAssumption DEF Recv, Visit
<1>0. /\ TypeOK
      /\ \A d \in COs : ThreadInv(d)
  BY DEF BulkInv
<1>k. k \in Local /\ Src[k] = c
  BY <1>0 DEF ThreadInv, In, Out, Remote
<1>1. TypeOK'
  BY <1>0 DEF TypeOK, PCs, Torn
<1>2. ASSUME NEW d \in COs PROVE ThreadInv(d)'
  <2>1. pc' = pc /\ sent' = sent /\ field' = field /\ todo'[d] \subseteq todo[d]
    BY <1>0 DEF TypeOK
  <2> QED
    BY <1>0, <2>1 DEF ThreadInv, InExchange, Round
<1>3. ASSUME NEW l \in Local PROVE HandshakeInv(l)' /\ EpochInv(l)'
  <2>0. LocalFacts(l)
    BY LinkFacts
  <2> USE DEF LocalFacts
  <2>1. HandshakeInv(l)'
    BY <1>0, <1>k, <2>0, SMTT(20) DEF TypeOK, ThreadInv, HandshakeInv, EpochInv, Starting, In, Out
  <2>2. Opened(l)' = Opened(l)
    BY <1>0, <1>k, <2>0 DEF Opened, Round, TypeOK, In, ThreadInv
  <2>3. PutInto(l)' = PutInto(l)
    BY <1>0, <1>k, <2>0 DEF PutInto, Round, TypeOK, Out, EpochInv
  <2>4. EpochInv(l)'
    <3>1. CASE l = k
      <4>1. Opened(l) = 0 /\ PutInto(l) = 0 /\ pc[Dst[l]] \in Starting /\ pc[Src[l]] = "recv"
        BY <1>k, <2>0, <3>1 DEF HandshakeInv, ThreadInv, Starting
      <4>2. archive'[l] = "received" /\ mode'[l] = "local" /\ l \notin writing
        BY <1>0, <2>0, <3>1, <4>1 DEF TypeOK, EpochInv
      <4> QED
        BY <2>0, <2>2, <2>3, <4>1, <4>2 DEF EpochInv, Starting
    <3>2. CASE l # k
      <4>1. archive'[l] = archive[l] /\ mode'[l] = mode[l] /\ (l \in todo'[Dst[l]] <=> l \in todo[Dst[l]]) /\ (l \in todo'[Src[l]] <=> l \in todo[Src[l]])
        BY <1>0, <2>0, <3>2 DEF TypeOK
      <4> QED
        BY <2>0, <2>2, <2>3, <4>1 DEF EpochInv
    <3> QED
      BY <3>1, <3>2
  <2> QED
    BY <2>1, <2>4
<1>4. ASSUME NEW l \in Remote PROVE MessageInv(l)'
  <2>0. RemoteFacts(l)
    BY LinkFacts
  <2> USE DEF RemoteFacts
  <2>1. SentFor(l)' = SentFor(l)
    BY <1>0, <1>k, <2>0 DEF SentFor, Round, TypeOK
  <2>2. UnpackedFrom(l)' = UnpackedFrom(l)
    BY <1>0, <1>k, <2>0 DEF UnpackedFrom, Round, TypeOK, In, Remote
  <2> QED
    BY <1>0, <1>k, <2>0, <2>1, <2>2 DEF MessageInv, TypeOK, Remote, Out
<1>5. writing' \subseteq Local
  BY <1>k DEF BulkInv
<1> QED
  BY <1>1, <1>2, <1>3, <1>4, <1>5 DEF BulkInv

\* Send preserves the invariant, in every halo it touches and every one it does not.
LEMMA SendBulk ==
    ASSUME BulkInv, NEW c \in COs, NEW k \in Links, Send(c, k) PROVE BulkInv'
<1> USE BulkAssumption DEF Send, Visit
<1>0. /\ TypeOK
      /\ \A d \in COs : ThreadInv(d)
  BY DEF BulkInv
<1>k. k \in Local /\ Dst[k] = c
  BY <1>0 DEF ThreadInv, In, Out, Remote
<1>1. TypeOK'
  BY <1>0 DEF TypeOK, PCs, Torn
<1>2. ASSUME NEW d \in COs PROVE ThreadInv(d)'
  BY <1>0 DEF TypeOK, ThreadInv, Starting, InExchange, Round, In, Out
<1>3. ASSUME NEW l \in Local PROVE HandshakeInv(l)' /\ EpochInv(l)'
  <2>0. LocalFacts(l)
    BY LinkFacts
  <2> USE DEF LocalFacts
  <2>1. HandshakeInv(l)'
    BY <1>0, <1>k, <2>0, SMTT(20) DEF TypeOK, ThreadInv, HandshakeInv, EpochInv, Starting, In, Out
  <2>2. Opened(l)' = Opened(l)
    BY <1>0, <1>k, <2>0 DEF Opened, Round, TypeOK, In, ThreadInv
  <2>3. PutInto(l)' = PutInto(l)
    BY <1>0, <1>k, <2>0 DEF PutInto, Round, TypeOK, Out, EpochInv
  <2>4. EpochInv(l)'
    BY <1>0, <1>k, <2>0, <2>2, <2>3 DEF TypeOK, EpochInv, HandshakeInv, Starting, In, Out
  <2> QED
    BY <2>1, <2>4
<1>4. ASSUME NEW l \in Remote PROVE MessageInv(l)'
  <2>0. RemoteFacts(l)
    BY LinkFacts
  <2> USE DEF RemoteFacts
  <2>1. SentFor(l)' = SentFor(l)
    BY <1>0, <1>k, <2>0 DEF SentFor, Round, TypeOK
  <2>2. UnpackedFrom(l)' = UnpackedFrom(l)
    BY <1>0, <1>k, <2>0 DEF UnpackedFrom, Round, TypeOK, In, Remote
  <2> QED
    BY <1>0, <1>k, <2>0, <2>1, <2>2 DEF MessageInv, TypeOK, Remote, Out
<1>5. writing' \subseteq Local
  BY <1>k DEF BulkInv
<1> QED
  BY <1>1, <1>2, <1>3, <1>4, <1>5 DEF BulkInv

\* EndTargetEpoch preserves the invariant, in every halo it touches and every one it does not.
LEMMA EndTargetEpochBulk ==
    ASSUME BulkInv, NEW c \in COs, NEW k \in Links, EndTargetEpoch(c, k) PROVE BulkInv'
<1> USE BulkAssumption DEF EndTargetEpoch, Visit
<1>0. /\ TypeOK
      /\ \A d \in COs : ThreadInv(d)
  BY DEF BulkInv
<1>k. k \in Local /\ Dst[k] = c
  BY <1>0 DEF ThreadInv, In, Out, Remote
<1>1. TypeOK'
  BY <1>0 DEF TypeOK, PCs, Torn
<1>2. ASSUME NEW d \in COs PROVE ThreadInv(d)'
  BY <1>0 DEF TypeOK, ThreadInv, Starting, InExchange, Round, In, Out
<1>3. ASSUME NEW l \in Local PROVE HandshakeInv(l)' /\ EpochInv(l)'
  <2>0. LocalFacts(l)
    BY LinkFacts
  <2> USE DEF LocalFacts
  <2>1. HandshakeInv(l)'
    BY <1>0, <1>k, <2>0, SMTT(20) DEF TypeOK, ThreadInv, HandshakeInv, EpochInv, Starting, In, Out
  <2>2. Opened(l)' = (IF l = k THEN Opened(l) + 1 ELSE Opened(l))
    BY <1>0, <1>k, <2>0, SMTT(20) DEF Opened, Round, TypeOK, In, ThreadInv
  <2>3. PutInto(l)' = PutInto(l)
    BY <1>0, <1>k, <2>0 DEF PutInto, Round, TypeOK, Out, EpochInv
  <2>4. EpochInv(l)'
    BY <1>0, <1>k, <2>0, <2>2, <2>3 DEF TypeOK, EpochInv, HandshakeInv, Starting, In, Out
  <2> QED
    BY <2>1, <2>4
<1>4. ASSUME NEW l \in Remote PROVE MessageInv(l)'
  <2>0. RemoteFacts(l)
    BY LinkFacts
  <2> USE DEF RemoteFacts
  <2>1. SentFor(l)' = SentFor(l)
    BY <1>0, <1>k, <2>0 DEF SentFor, Round, TypeOK
  <2>2. UnpackedFrom(l)' = UnpackedFrom(l)
    BY <1>0, <1>k, <2>0 DEF UnpackedFrom, Round, TypeOK, In, Remote
  <2> QED
    BY <1>0, <1>k, <2>0, <2>1, <2>2 DEF MessageInv, TypeOK, Remote, Out
<1>5. writing' \subseteq Local
  BY <1>k DEF BulkInv
<1> QED
  BY <1>1, <1>2, <1>3, <1>4, <1>5 DEF BulkInv

\* StartPut preserves the invariant, in every halo it touches and every one it does not.
LEMMA StartPutBulk ==
    ASSUME BulkInv, NEW c \in COs, NEW k \in Links, StartPut(c, k) PROVE BulkInv'
<1> USE BulkAssumption DEF StartPut
<1>0. /\ TypeOK
      /\ \A d \in COs : ThreadInv(d)
  BY DEF BulkInv
<1>k. k \in Local /\ Src[k] = c
  BY <1>0 DEF ThreadInv, In, Out, Remote
<1>1. TypeOK'
  BY <1>0 DEF TypeOK, PCs, Torn
<1>2. ASSUME NEW d \in COs PROVE ThreadInv(d)'
  BY <1>0 DEF TypeOK, ThreadInv, Starting, InExchange, Round, In, Out
<1>3. ASSUME NEW l \in Local PROVE HandshakeInv(l)' /\ EpochInv(l)'
  <2>0. LocalFacts(l)
    BY LinkFacts
  <2> USE DEF LocalFacts
  <2>1. HandshakeInv(l)'
    BY <1>0, <1>k, <2>0 DEF TypeOK, ThreadInv, HandshakeInv, EpochInv, Starting, In, Out
  <2>2. Opened(l)' = Opened(l)
    BY <1>0, <1>k, <2>0 DEF Opened, Round, TypeOK, In, ThreadInv
  <2>3. PutInto(l)' = PutInto(l)
    BY <1>0, <1>k, <2>0 DEF PutInto, Round, TypeOK, Out, EpochInv
  <2>4. EpochInv(l)'
    BY <1>0, <1>k, <2>0, <2>2, <2>3 DEF TypeOK, EpochInv, HandshakeInv, Starting, In, Out
  <2> QED
    BY <2>1, <2>4
<1>4. ASSUME NEW l \in Remote PROVE MessageInv(l)'
  <2>0. RemoteFacts(l)
    BY LinkFacts
  <2> USE DEF RemoteFacts
  <2>1. SentFor(l)' = SentFor(l)
    BY <1>0, <1>k, <2>0 DEF SentFor, Round, TypeOK
  <2>2. UnpackedFrom(l)' = UnpackedFrom(l)
    BY <1>0, <1>k, <2>0 DEF UnpackedFrom, Round, TypeOK, In, Remote
  <2> QED
    BY <1>0, <1>k, <2>0, <2>1, <2>2 DEF MessageInv, TypeOK, Remote, Out
<1>5. writing' \subseteq Local
  BY <1>k DEF BulkInv
<1> QED
  BY <1>1, <1>2, <1>3, <1>4, <1>5 DEF BulkInv

\* EndPut preserves the invariant, in every halo it touches and every one it does not.
LEMMA EndPutBulk ==
    ASSUME BulkInv, NEW c \in COs, NEW k \in Links, EndPut(c, k) PROVE BulkInv'
<1> USE BulkAssumption DEF EndPut, Visit
<1>0. /\ TypeOK
      /\ \A d \in COs : ThreadInv(d)
  BY DEF BulkInv
<1>k. k \in Local /\ Src[k] = c
  BY <1>0 DEF ThreadInv, In, Out, Remote
<1>1. TypeOK'
  BY <1>0 DEF TypeOK, PCs, Torn
<1>2. ASSUME NEW d \in COs PROVE ThreadInv(d)'
  BY <1>0 DEF TypeOK, ThreadInv, Starting, InExchange, Round, In, Out
<1>3. ASSUME NEW l \in Local PROVE HandshakeInv(l)' /\ EpochInv(l)'
  <2>0. LocalFacts(l)
    BY LinkFacts
  <2> USE DEF LocalFacts
  <2>1. HandshakeInv(l)'
    BY <1>0, <1>k, <2>0, SMTT(20) DEF TypeOK, ThreadInv, HandshakeInv, EpochInv, Starting, In, Out
  <2>2. Opened(l)' = Opened(l)
    BY <1>0, <1>k, <2>0 DEF Opened, Round, TypeOK, In, ThreadInv
  <2>3. PutInto(l)' = (IF l = k THEN PutInto(l) + 1 ELSE PutInto(l))
    BY <1>0, <1>k, <2>0 DEF PutInto, Round, TypeOK, Out, EpochInv
  <2>4. EpochInv(l)'
    <3>1. CASE l = k
      <4>1. PutInto(l) + 1 = Round(c) /\ field[c] = sent[c][Round(c)]
        BY <1>k, <2>0, <3>1 DEF PutInto, ThreadInv
      <4>2. l \notin writing' /\ halo'[l] = field[c] /\ mode'[l] = "local"
        BY <1>0, <2>0, <3>1 DEF TypeOK
      <4> QED
        BY <1>k, <2>0, <2>2, <2>3, <3>1, <4>1, <4>2 DEF EpochInv
    <3>2. CASE l # k
      <4>1. /\ halo'[l] = halo[l] /\ mode'[l] = mode[l] /\ (l \in writing' <=> l \in writing)
            /\ l \in todo'[Dst[l]] <=> l \in todo[Dst[l]]
            /\ l \in todo'[Src[l]] <=> l \in todo[Src[l]]
        BY <1>0, <2>0, <3>2 DEF TypeOK
      <4> QED
        BY <2>0, <2>2, <2>3, <3>2, <4>1 DEF EpochInv
    <3> QED
      BY <3>1, <3>2
  <2> QED
    BY <2>1, <2>4
<1>4. ASSUME NEW l \in Remote PROVE MessageInv(l)'
  <2>0. RemoteFacts(l)
    BY LinkFacts
  <2> USE DEF RemoteFacts
  <2>1. SentFor(l)' = SentFor(l)
    BY <1>0, <1>k, <2>0 DEF SentFor, Round, TypeOK
  <2>2. UnpackedFrom(l)' = UnpackedFrom(l)
    BY <1>0, <1>k, <2>0 DEF UnpackedFrom, Round, TypeOK, In, Remote
  <2> QED
    BY <1>0, <1>k, <2>0, <2>1, <2>2 DEF MessageInv, TypeOK, Remote, Out
<1>5. writing' \subseteq Local
  BY <1>k DEF BulkInv
<1> QED
  BY <1>1, <1>2, <1>3, <1>4, <1>5 DEF BulkInv

\* Unpack preserves the invariant, in every halo it touches and every one it does not.
LEMMA UnpackBulk ==
    ASSUME BulkInv, NEW c \in COs, NEW k \in Links, Unpack(c, k) PROVE BulkInv'
<1> USE BulkAssumption DEF Unpack, Visit
<1>0. /\ TypeOK
      /\ \A d \in COs : ThreadInv(d)
  BY DEF BulkInv
<1>k. k \in Remote /\ k \notin Local /\ Dst[k] = c
  BY <1>0 DEF ThreadInv, In, Out, Remote
<1>1. TypeOK'
  BY <1>0, SMTT(20) DEF TypeOK, PCs, Torn
<1>2. ASSUME NEW d \in COs PROVE ThreadInv(d)'
  BY <1>0, SMTT(20) DEF TypeOK, ThreadInv, Starting, InExchange, Round, In, Out
<1>3. ASSUME NEW l \in Local PROVE HandshakeInv(l)' /\ EpochInv(l)'
  <2>0. LocalFacts(l)
    BY LinkFacts
  <2> USE DEF LocalFacts
  <2>1. HandshakeInv(l)'
    <3>1. /\ l \in todo'[Dst[l]] <=> l \in todo[Dst[l]]
          /\ l \in todo'[Src[l]] <=> l \in todo[Src[l]]
      BY <1>0, <1>k, <2>0 DEF TypeOK
    <3> QED
      BY <2>0, <3>1 DEF HandshakeInv
  <2>2. Opened(l)' = Opened(l)
    BY <1>0, <1>k, <2>0, SMTT(20) DEF Opened, Round, TypeOK, In, ThreadInv
  <2>3. PutInto(l)' = PutInto(l)
    BY <1>0, <1>k, <2>0 DEF PutInto, Round, TypeOK, Out, EpochInv
  <2>4. EpochInv(l)'
    BY <1>0, <1>k, <2>0, <2>2, <2>3 DEF TypeOK, EpochInv, HandshakeInv, Starting, In, Out
  <2> QED
    BY <2>1, <2>4
<1>4. ASSUME NEW l \in Remote PROVE MessageInv(l)'
  <2>0. RemoteFacts(l)
    BY LinkFacts
  <2> USE DEF RemoteFacts
  <2>1. SentFor(l)' = SentFor(l)
    BY <1>0, <1>k, <2>0 DEF SentFor, Round, TypeOK
  <2>2. UnpackedFrom(l)' = (IF l = k THEN UnpackedFrom(l) + 1 ELSE UnpackedFrom(l))
    <3>1. /\ (sent' = sent /\ pc' = pc /\ pc[c] = "wait_remote" /\ k \in todo[c])
          /\ (l \in todo'[Dst[l]] <=> (l \in todo[Dst[l]] /\ l # k))
      <4>1. sent' = sent /\ pc' = pc /\ pc[c] = "wait_remote" /\ k \in todo[c]
        OBVIOUS
      <4>2. todo' = [todo EXCEPT ![c] = @ \ {k}]
        OBVIOUS
      <4>3. todo \in [COs -> SUBSET Links]
        BY <1>0 DEF TypeOK
      <4>4. CASE Dst[l] = c
        BY <4>2, <4>3, <4>4
      <4>5. CASE Dst[l] # c
        BY <1>k, <2>0, <4>2, <4>3, <4>5
      <4> QED
        BY <4>1, <4>4, <4>5
    <3>2. Round(Dst[l])' = Round(Dst[l]) /\ Round(Dst[l]) \in Nat
      <4>1. Round(Dst[l]) \in Nat
        BY <1>0, <2>0 DEF Round, TypeOK
      <4> QED
        BY <3>1, <4>1 DEF Round
    <3> HIDE DEF Unpack, Visit
    <3>3. CASE l = k
      BY <1>k, <3>1, <3>2, <3>3 DEF UnpackedFrom
    <3>4. CASE l # k
      BY <3>1, <3>2, <3>4 DEF UnpackedFrom
    <3> QED
      BY <3>3, <3>4
  <2>3. CASE l = k
    <3>1. chan[l] \in Seq(Nat) /\ chan[l] # << >>
      BY <1>0, <2>0, <2>3 DEF TypeOK
    <3>2. chan'[l] = Tail(chan[l]) /\ halo'[l] = chan[l][1]
      BY <1>0, <2>0, <2>3, <3>1 DEF TypeOK
    <3>3. /\ Len(chan[l]) \in Nat /\ Len(chan[l]) > 0 /\ Len(chan'[l]) = Len(chan[l]) - 1
          /\ \A i \in 1 .. Len(chan[l]) - 1 : chan'[l][i] = chan[l][i + 1]
      BY <3>1, <3>2, TailFacts
    <3>4. halo'[l] = sent[Src[l]][UnpackedFrom(l) + 1]
      <4>1. 1 \in 1 .. Len(chan[l])
        BY <3>3
      <4> QED
        BY <2>0, <3>2, <4>1 DEF MessageInv
    <3>5. ASSUME NEW i \in 1 .. Len(chan[l]) - 1
          PROVE  chan'[l][i] = sent[Src[l]][UnpackedFrom(l) + 1 + i]
      <4>1. i + 1 \in 1 .. Len(chan[l]) /\ UnpackedFrom(l) + (i + 1) = UnpackedFrom(l) + 1 + i
        BY <2>0, <3>3
      <4>2. chan[l][i + 1] = sent[Src[l]][UnpackedFrom(l) + (i + 1)]
        BY <2>0, <4>1 DEF MessageInv
      <4> QED
        BY <3>3, <4>1, <4>2
    <3> QED
      <4> HIDE DEF Unpack, Visit
      <4>1. sent' = sent
        BY DEF Unpack
      <4> QED
        BY <2>0, <2>1, <2>2, <2>3, <3>3, <3>4, <3>5, <4>1 DEF MessageInv
  <2>4. CASE l # k
    <3>1. chan'[l] = chan[l] /\ halo'[l] = halo[l]
      BY <1>0, <2>0, <2>4 DEF TypeOK
    <3> QED
      BY <2>0, <2>1, <2>2, <2>4, <3>1 DEF MessageInv
  <2> QED
    BY <2>3, <2>4
<1>5. writing' \subseteq Local
  BY <1>k DEF BulkInv
<1> QED
  BY <1>1, <1>2, <1>3, <1>4, <1>5 DEF BulkInv

\* TryStartTargetEpoch preserves the invariant, in every halo it touches and every one it does not.
LEMMA TryStartTargetEpochBulk ==
    ASSUME BulkInv, NEW c \in COs, NEW k \in Links, TryStartTargetEpoch(c, k) PROVE BulkInv'
<1> USE BulkAssumption DEF TryStartTargetEpoch, Visit
<1>0. /\ TypeOK
      /\ \A d \in COs : ThreadInv(d)
  BY DEF BulkInv
<1>k. k \in Local /\ Dst[k] = c
  BY <1>0 DEF ThreadInv, In, Out, Remote
<1>1. TypeOK'
  BY <1>0 DEF TypeOK, PCs, Torn
<1>2. ASSUME NEW d \in COs PROVE ThreadInv(d)'
  BY <1>0 DEF TypeOK, ThreadInv, Starting, InExchange, Round, In, Out
<1>3. ASSUME NEW l \in Local PROVE HandshakeInv(l)' /\ EpochInv(l)'
  <2>0. LocalFacts(l)
    BY LinkFacts
  <2> USE DEF LocalFacts
  <2>1. HandshakeInv(l)'
    BY <1>0, <1>k, <2>0, SMTT(20) DEF TypeOK, ThreadInv, HandshakeInv, EpochInv, Starting, In, Out
  <2>2. Opened(l)' = Opened(l)
    BY <1>0, <1>k, <2>0 DEF Opened, Round, TypeOK, In, ThreadInv
  <2>3. PutInto(l)' = PutInto(l)
    BY <1>0, <1>k, <2>0 DEF PutInto, Round, TypeOK, Out, EpochInv
  <2>4. EpochInv(l)'
    BY <1>0, <1>k, <2>0, <2>2, <2>3 DEF TypeOK, EpochInv, HandshakeInv, Starting, In, Out
  <2> QED
    BY <2>1, <2>4
<1>4. ASSUME NEW l \in Remote PROVE MessageInv(l)'
  <2>0. RemoteFacts(l)
    BY LinkFacts
  <2> USE DEF RemoteFacts
  <2>1. SentFor(l)' = SentFor(l)
    BY <1>0, <1>k, <2>0 DEF SentFor, Round, TypeOK
  <2>2. UnpackedFrom(l)' = UnpackedFrom(l)
    BY <1>0, <1>k, <2>0 DEF UnpackedFrom, Round, TypeOK, In, Remote
  <2> QED
    BY <1>0, <1>k, <2>0, <2>1, <2>2 DEF MessageInv, TypeOK, Remote, Out
<1>5. writing' \subseteq Local
  BY <1>k DEF BulkInv
<1> QED
  BY <1>1, <1>2, <1>3, <1>4, <1>5 DEF BulkInv


\* Every step of the program preserves the invariant.
LEMMA BulkStep == BulkInv /\ [Next]_vars => BulkInv'
<1> SUFFICES ASSUME BulkInv, [Next]_vars PROVE BulkInv'
    OBVIOUS
<1>1. ASSUME NEW c \in COs, Library(c) PROVE BulkInv'
  <2>1. ASSUME NEW k \in Links,
               \/ Recv(c, k) \/ Send(c, k) \/ EndTargetEpoch(c, k)
               \/ StartPut(c, k) \/ EndPut(c, k)
               \/ Unpack(c, k) \/ TryStartTargetEpoch(c, k)
        PROVE  BulkInv'
    BY <2>1, RecvBulk, SendBulk, EndTargetEpochBulk, StartPutBulk, EndPutBulk,
       UnpackBulk, TryStartTargetEpochBulk
  <2> QED
    BY <1>1, <2>1, AddFieldBulk, InitRecvBulk, InitSendBulk, InitializedBulk,
       ExchangeBulk, ExchangeRemoteBulk, ReturnBulk, WaitRemoteBulk,
       WaitLocalBulk, CompleteBulk DEF Library
<1>2. ASSUME NEW c \in COs, Compute(c) PROVE BulkInv'
  BY <1>2, ComputeBulk
<1>3. CASE UNCHANGED vars
  <2>1. TypeOK'
    BY <1>3 DEF vars, BulkInv, TypeOK
  <2>2. ASSUME NEW c \in COs PROVE ThreadInv(c)'
    BY <1>3 DEF vars, BulkInv, ThreadInv, InExchange, Round
  <2>3. ASSUME NEW l \in Local PROVE HandshakeInv(l)' /\ EpochInv(l)'
    BY <1>3 DEF vars, BulkInv, HandshakeInv, EpochInv, Opened, PutInto, Round
  <2>4. ASSUME NEW l \in Remote PROVE MessageInv(l)'
    BY <1>3 DEF vars, BulkInv, MessageInv, SentFor, UnpackedFrom, Round
  <2> QED
    BY <1>3, <2>1, <2>2, <2>3, <2>4 DEF vars, BulkInv
<1> QED
  BY <1>1, <1>2, <1>3 DEF Next, Finished

(***************************************************************************)
(* BulkInv holds in every reachable state, whatever the communication      *)
(* objects, their halos and the way they are carried.                      *)
(***************************************************************************)
THEOREM BulkInvariant == Spec => []BulkInv
<1>1. Init => BulkInv
  BY InitBulk
<1>2. BulkInv /\ [Next]_vars => BulkInv'
  BY BulkStep
<1> QED
  BY <1>1, <1>2, PTL DEF Spec

(***************************************************************************)
(* After wait every halo holds its source's values of the same round       *)
(* (bulk_communication_object.hpp:146-150, 572-589).                       *)
(***************************************************************************)
THEOREM BulkHaloFresh == Spec => []HaloFresh
<1>1. BulkInv => HaloFresh
  <2> SUFFICES ASSUME BulkInv, NEW l \in Links, pc[Dst[l]] = "ready", Round(Dst[l]) > 0
               PROVE  /\ Round(Src[l]) >= Round(Dst[l])
                      /\ halo[l] = sent[Src[l]][Round(Dst[l])]
    BY DEF HaloFresh
  <2>1. CASE l \in Local
    <3>1. LocalFacts(l)
      BY <2>1, LinkFacts
    <3>2. archive[l] = "received" /\ mode[l] = "local" /\ l \notin writing
      BY <3>1 DEF LocalFacts, HandshakeInv, EpochInv, Starting
    <3>3. Opened(l) = PutInto(l) /\ Opened(l) = Round(Dst[l])
      BY <3>1, <3>2 DEF LocalFacts, EpochInv, Opened
    <3> QED
      BY <3>1, <3>2, <3>3 DEF LocalFacts, EpochInv
  <2>2. CASE l \notin Local
    <3>1. RemoteFacts(l)
      BY <2>2, LinkFacts DEF Remote
    <3>2. UnpackedFrom(l) = Round(Dst[l])
      BY DEF UnpackedFrom
    <3>3. Len(chan[l]) \in Nat
      BY DEF BulkInv, TypeOK
    <3> QED
      BY <3>1, <3>2, <3>3 DEF RemoteFacts, MessageInv
  <2> QED
    BY <2>1, <2>2
<1> QED
  BY <1>1, BulkInvariant, PTL

(***************************************************************************)
(* A put happens only in the source's epoch, between the exchange and the  *)
(* end of the wait of the halo's owner, who is in the same round, and from *)
(* a field that has not changed since the source called exchange           *)
(* (access_guard.hpp:31-35).                                               *)
(***************************************************************************)
THEOREM BulkExclusiveAccess == Spec => []ExclusiveAccess
<1>1. BulkInv => ExclusiveAccess
  <2> SUFFICES ASSUME BulkInv, NEW l \in writing
               PROVE  /\ mode[l] = "remote"
                      /\ InExchange(Dst[l])
                      /\ Round(Dst[l]) = Round(Src[l])
                      /\ pc[Dst[l]] = "wait_local" => l \in todo[Dst[l]]
                      /\ field[Src[l]] = sent[Src[l]][Round(Src[l])]
    BY DEF ExclusiveAccess
  <2>1. LocalFacts(l)
    BY LinkFacts DEF BulkInv
  <2>2. /\ archive[l] = "received" /\ mode[l] = "remote"
        /\ pc[Src[l]] = "put" /\ l \in todo[Src[l]]
        /\ pc[Dst[l]] # "ready" /\ (pc[Dst[l]] \in {"wait_local", "open"} =>
              (pc[Dst[l]] = "open" <=> l \notin todo[Dst[l]]))
    BY <2>1 DEF LocalFacts, EpochInv
  <2>3. Round(Src[l]) > 0 /\ Opened(l) = Round(Src[l])
    BY <2>1, <2>2 DEF LocalFacts, EpochInv, PutInto, ThreadInv, InExchange
  <2>4. Round(Dst[l]) = Round(Src[l])
    BY <2>1, <2>2, <2>3 DEF LocalFacts, Opened
  <2>5. pc[Dst[l]] \in PCs /\ pc[Dst[l]] \notin Starting
    BY <2>1, <2>3, <2>4 DEF LocalFacts, BulkInv, TypeOK, ThreadInv
  <2>6. field[Src[l]] = sent[Src[l]][Round(Src[l])]
    BY <2>1, <2>2 DEF LocalFacts, ThreadInv
  <2> QED
    BY <2>2, <2>4, <2>5, <2>6 DEF PCs, Starting, InExchange
<1> QED
  BY <1>1, BulkInvariant, PTL
-----------------------------------------------------------------------------
\* Refinement.  The counts of the abstract exchange, as functions.
LEMMA Stutter ==
    ASSUME sent' = sent,
           \A c \in COs : Completed(c)' = Completed(c),
           \A l \in Links : Filled(l)' = Filled(l)
    PROVE  UNCHANGED H!vars
BY DEF H!vars, Round

\* AddField is invisible in the abstract exchange.
LEMMA AddFieldStutters ==
    ASSUME BulkInv, NEW c \in COs, AddField(c) PROVE UNCHANGED H!vars
<1> USE DEF AddField, Goto
<1>0. TypeOK /\ \A d \in COs : ThreadInv(d)
  BY DEF BulkInv
<1>1. ASSUME NEW d \in COs PROVE Completed(d)' = Completed(d)
  BY <1>0 DEF TypeOK, Completed, InExchange, Round
<1>2. ASSUME NEW l \in Local PROVE PutInto(l)' = PutInto(l)
  BY <1>0, LinkFacts DEF TypeOK, LocalFacts, PutInto, Round, Out
<1>3. ASSUME NEW l \in Links \ Local PROVE UnpackedFrom(l)' = UnpackedFrom(l)
  BY <1>0, LinkFacts DEF TypeOK, RemoteFacts, UnpackedFrom, Round, In, Remote
<1> QED
  BY <1>1, <1>2, <1>3, Stutter DEF Filled

\* InitRecv is invisible in the abstract exchange.
LEMMA InitRecvStutters ==
    ASSUME BulkInv, NEW c \in COs, InitRecv(c) PROVE UNCHANGED H!vars
<1> USE DEF InitRecv, Goto
<1>0. TypeOK /\ \A d \in COs : ThreadInv(d)
  BY DEF BulkInv
<1>1. ASSUME NEW d \in COs PROVE Completed(d)' = Completed(d)
  BY <1>0 DEF TypeOK, Completed, InExchange, Round
<1>2. ASSUME NEW l \in Local PROVE PutInto(l)' = PutInto(l)
  BY <1>0, LinkFacts DEF TypeOK, LocalFacts, PutInto, Round, Out
<1>3. ASSUME NEW l \in Links \ Local PROVE UnpackedFrom(l)' = UnpackedFrom(l)
  BY <1>0, LinkFacts DEF TypeOK, RemoteFacts, UnpackedFrom, Round, In, Remote
<1> QED
  BY <1>1, <1>2, <1>3, Stutter DEF Filled

\* InitSend is invisible in the abstract exchange.
LEMMA InitSendStutters ==
    ASSUME BulkInv, NEW c \in COs, InitSend(c) PROVE UNCHANGED H!vars
<1> USE DEF InitSend, Goto
<1>0. TypeOK /\ \A d \in COs : ThreadInv(d)
  BY DEF BulkInv
<1>1. ASSUME NEW d \in COs PROVE Completed(d)' = Completed(d)
  BY <1>0 DEF TypeOK, Completed, InExchange, Round
<1>2. ASSUME NEW l \in Local PROVE PutInto(l)' = PutInto(l)
  BY <1>0, LinkFacts DEF TypeOK, LocalFacts, PutInto, Round, Out
<1>3. ASSUME NEW l \in Links \ Local PROVE UnpackedFrom(l)' = UnpackedFrom(l)
  BY <1>0, LinkFacts DEF TypeOK, RemoteFacts, UnpackedFrom, Round, In, Remote
<1> QED
  BY <1>1, <1>2, <1>3, Stutter DEF Filled

\* Initialized is invisible in the abstract exchange.
LEMMA InitializedStutters ==
    ASSUME BulkInv, NEW c \in COs, Initialized(c) PROVE UNCHANGED H!vars
<1> USE DEF Initialized, Goto
<1>0. TypeOK /\ \A d \in COs : ThreadInv(d)
  BY DEF BulkInv
<1>1. ASSUME NEW d \in COs PROVE Completed(d)' = Completed(d)
  BY <1>0 DEF TypeOK, Completed, InExchange, Round
<1>2. ASSUME NEW l \in Local PROVE PutInto(l)' = PutInto(l)
  BY <1>0, LinkFacts DEF TypeOK, LocalFacts, PutInto, Round, Out
<1>3. ASSUME NEW l \in Links \ Local PROVE UnpackedFrom(l)' = UnpackedFrom(l)
  BY <1>0, LinkFacts DEF TypeOK, RemoteFacts, UnpackedFrom, Round, In, Remote
<1> QED
  BY <1>1, <1>2, <1>3, Stutter DEF Filled

\* ExchangeRemote is invisible in the abstract exchange.
LEMMA ExchangeRemoteStutters ==
    ASSUME BulkInv, NEW c \in COs, ExchangeRemote(c) PROVE UNCHANGED H!vars
<1> USE DEF ExchangeRemote, Goto
<1>0. TypeOK /\ \A d \in COs : ThreadInv(d)
  BY DEF BulkInv
<1>1. ASSUME NEW d \in COs PROVE Completed(d)' = Completed(d)
  BY <1>0 DEF TypeOK, Completed, InExchange, Round
<1>2. ASSUME NEW l \in Local PROVE PutInto(l)' = PutInto(l)
  BY <1>0, LinkFacts DEF TypeOK, LocalFacts, PutInto, Round, Out
<1>3. ASSUME NEW l \in Links \ Local PROVE UnpackedFrom(l)' = UnpackedFrom(l)
  BY <1>0, LinkFacts DEF TypeOK, RemoteFacts, UnpackedFrom, Round, In, Remote
<1> QED
  BY <1>1, <1>2, <1>3, Stutter DEF Filled

\* Return is invisible in the abstract exchange.
LEMMA ReturnStutters ==
    ASSUME BulkInv, NEW c \in COs, Return(c) PROVE UNCHANGED H!vars
<1> USE DEF Return, Goto
<1>0. TypeOK /\ \A d \in COs : ThreadInv(d)
  BY DEF BulkInv
<1>1. ASSUME NEW d \in COs PROVE Completed(d)' = Completed(d)
  BY <1>0 DEF TypeOK, Completed, InExchange, Round
<1>2. ASSUME NEW l \in Local PROVE PutInto(l)' = PutInto(l)
  BY <1>0, LinkFacts DEF TypeOK, LocalFacts, PutInto, Round, Out
<1>3. ASSUME NEW l \in Links \ Local PROVE UnpackedFrom(l)' = UnpackedFrom(l)
  BY <1>0, LinkFacts DEF TypeOK, RemoteFacts, UnpackedFrom, Round, In, Remote
<1> QED
  BY <1>1, <1>2, <1>3, Stutter DEF Filled

\* WaitRemote is invisible in the abstract exchange.
LEMMA WaitRemoteStutters ==
    ASSUME BulkInv, NEW c \in COs, WaitRemote(c) PROVE UNCHANGED H!vars
<1> USE DEF WaitRemote, Goto
<1>0. TypeOK /\ \A d \in COs : ThreadInv(d)
  BY DEF BulkInv
<1>1. ASSUME NEW d \in COs PROVE Completed(d)' = Completed(d)
  BY <1>0 DEF TypeOK, Completed, InExchange, Round
<1>2. ASSUME NEW l \in Local PROVE PutInto(l)' = PutInto(l)
  BY <1>0, LinkFacts DEF TypeOK, LocalFacts, PutInto, Round, Out
<1>3. ASSUME NEW l \in Links \ Local PROVE UnpackedFrom(l)' = UnpackedFrom(l)
  BY <1>0, LinkFacts DEF TypeOK, RemoteFacts, UnpackedFrom, Round, In, Remote
<1> QED
  BY <1>1, <1>2, <1>3, Stutter DEF Filled

\* WaitLocal is invisible in the abstract exchange.
LEMMA WaitLocalStutters ==
    ASSUME BulkInv, NEW c \in COs, WaitLocal(c) PROVE UNCHANGED H!vars
<1> USE DEF WaitLocal, Goto
<1>0. TypeOK /\ \A d \in COs : ThreadInv(d)
  BY DEF BulkInv
<1>1. ASSUME NEW d \in COs PROVE Completed(d)' = Completed(d)
  BY <1>0 DEF TypeOK, Completed, InExchange, Round
<1>2. ASSUME NEW l \in Local PROVE PutInto(l)' = PutInto(l)
  BY <1>0, LinkFacts DEF TypeOK, LocalFacts, PutInto, Round, Out
<1>3. ASSUME NEW l \in Links \ Local PROVE UnpackedFrom(l)' = UnpackedFrom(l)
  BY <1>0, LinkFacts DEF TypeOK, RemoteFacts, UnpackedFrom, Round, In, Remote
<1> QED
  BY <1>1, <1>2, <1>3, Stutter DEF Filled

\* Recv is invisible in the abstract exchange.
LEMMA RecvStutters ==
    ASSUME BulkInv, NEW c \in COs, NEW k \in Links, Recv(c, k) PROVE UNCHANGED H!vars
<1> USE DEF Recv, Visit
<1>0. TypeOK /\ \A d \in COs : ThreadInv(d)
  BY DEF BulkInv
<1>k. k \in Local
  BY <1>0 DEF ThreadInv
<1>1. ASSUME NEW d \in COs PROVE Completed(d)' = Completed(d)
  BY <1>0 DEF TypeOK, Completed, InExchange, Round
<1>2. ASSUME NEW l \in Local PROVE PutInto(l)' = PutInto(l)
  BY <1>0, <1>k, LinkFacts DEF TypeOK, LocalFacts, PutInto, Round, Out
<1>3. ASSUME NEW l \in Links \ Local PROVE UnpackedFrom(l)' = UnpackedFrom(l)
  BY <1>0, <1>k, LinkFacts DEF TypeOK, RemoteFacts, UnpackedFrom, Round, In, Remote
<1> QED
  BY <1>1, <1>2, <1>3, Stutter DEF Filled

\* Send is invisible in the abstract exchange.
LEMMA SendStutters ==
    ASSUME BulkInv, NEW c \in COs, NEW k \in Links, Send(c, k) PROVE UNCHANGED H!vars
<1> USE DEF Send, Visit
<1>0. TypeOK /\ \A d \in COs : ThreadInv(d)
  BY DEF BulkInv
<1>k. k \in Local
  BY <1>0 DEF ThreadInv
<1>1. ASSUME NEW d \in COs PROVE Completed(d)' = Completed(d)
  BY <1>0 DEF TypeOK, Completed, InExchange, Round
<1>2. ASSUME NEW l \in Local PROVE PutInto(l)' = PutInto(l)
  BY <1>0, <1>k, LinkFacts DEF TypeOK, LocalFacts, PutInto, Round, Out
<1>3. ASSUME NEW l \in Links \ Local PROVE UnpackedFrom(l)' = UnpackedFrom(l)
  BY <1>0, <1>k, LinkFacts DEF TypeOK, RemoteFacts, UnpackedFrom, Round, In, Remote
<1> QED
  BY <1>1, <1>2, <1>3, Stutter DEF Filled

\* EndTargetEpoch is invisible in the abstract exchange.
LEMMA EndTargetEpochStutters ==
    ASSUME BulkInv, NEW c \in COs, NEW k \in Links, EndTargetEpoch(c, k) PROVE UNCHANGED H!vars
<1> USE DEF EndTargetEpoch, Visit
<1>0. TypeOK /\ \A d \in COs : ThreadInv(d)
  BY DEF BulkInv
<1>k. k \in Local
  BY <1>0 DEF ThreadInv
<1>1. ASSUME NEW d \in COs PROVE Completed(d)' = Completed(d)
  BY <1>0 DEF TypeOK, Completed, InExchange, Round
<1>2. ASSUME NEW l \in Local PROVE PutInto(l)' = PutInto(l)
  BY <1>0, <1>k, LinkFacts DEF TypeOK, LocalFacts, PutInto, Round, Out
<1>3. ASSUME NEW l \in Links \ Local PROVE UnpackedFrom(l)' = UnpackedFrom(l)
  BY <1>0, <1>k, LinkFacts DEF TypeOK, RemoteFacts, UnpackedFrom, Round, In, Remote
<1> QED
  BY <1>1, <1>2, <1>3, Stutter DEF Filled

\* TryStartTargetEpoch is invisible in the abstract exchange.
LEMMA TryStartTargetEpochStutters ==
    ASSUME BulkInv, NEW c \in COs, NEW k \in Links, TryStartTargetEpoch(c, k) PROVE UNCHANGED H!vars
<1> USE DEF TryStartTargetEpoch, Visit
<1>0. TypeOK /\ \A d \in COs : ThreadInv(d)
  BY DEF BulkInv
<1>k. k \in Local
  BY <1>0 DEF ThreadInv
<1>1. ASSUME NEW d \in COs PROVE Completed(d)' = Completed(d)
  BY <1>0 DEF TypeOK, Completed, InExchange, Round
<1>2. ASSUME NEW l \in Local PROVE PutInto(l)' = PutInto(l)
  BY <1>0, <1>k, LinkFacts DEF TypeOK, LocalFacts, PutInto, Round, Out
<1>3. ASSUME NEW l \in Links \ Local PROVE UnpackedFrom(l)' = UnpackedFrom(l)
  BY <1>0, <1>k, LinkFacts DEF TypeOK, RemoteFacts, UnpackedFrom, Round, In, Remote
<1> QED
  BY <1>1, <1>2, <1>3, Stutter DEF Filled

\* StartPut is invisible in the abstract exchange.
LEMMA StartPutStutters ==
    ASSUME NEW c \in COs, NEW k \in Links, StartPut(c, k) PROVE UNCHANGED H!vars
BY Stutter DEF StartPut, Completed, InExchange, Round, Filled, PutInto, UnpackedFrom

\* Compute is invisible in the abstract exchange.
LEMMA ComputeStutters ==
    ASSUME NEW c \in COs, Compute(c) PROVE UNCHANGED H!vars
BY Stutter DEF Compute, Completed, InExchange, Round, Filled, PutInto, UnpackedFrom

\* Exchange starts the abstract round.
LEMMA ExchangeStarts ==
    ASSUME BulkInv, NEW c \in COs, Exchange(c) PROVE H!Start({c})
<1> USE DEF Exchange, Goto
<1>0. TypeOK
  BY DEF BulkInv
<1>1. ASSUME NEW d \in COs
      PROVE  /\ Round(d)' = IF d = c THEN Round(d) + 1 ELSE Round(d)
             /\ Round(d) \in Nat
  BY <1>0 DEF TypeOK, Round
<1>2. ASSUME NEW d \in COs PROVE Completed(d)' = Completed(d)
  BY <1>0, <1>1 DEF TypeOK, Completed, InExchange
<1>3. ASSUME NEW l \in Local PROVE PutInto(l)' = PutInto(l)
  BY <1>0, <1>1, LinkFacts, SMTT(20) DEF TypeOK, LocalFacts, PutInto
<1>4. ASSUME NEW l \in Links \ Local PROVE UnpackedFrom(l)' = UnpackedFrom(l)
  BY <1>0, <1>1, LinkFacts, SMTT(20) DEF TypeOK, RemoteFacts, UnpackedFrom, Remote
<1>5. \A l \in Links : Filled(l)' = Filled(l)
  BY <1>3, <1>4 DEF Filled
<1>6. Completed(c) = Round(c) /\ Round(c) < MaxRound
  BY DEF Completed, InExchange, Round
<1>7. [d \in COs |-> Round(d)]'
        = [d \in COs |-> IF d \in {c} THEN [e \in COs |-> Round(e)][d] + 1
                                     ELSE [e \in COs |-> Round(e)][d]]
  BY <1>1
<1> QED
  BY <1>2, <1>5, <1>6, <1>7 DEF H!Start

\* The end of wait completes the abstract round.
LEMMA CompleteCompletes ==
    ASSUME BulkInv, NEW c \in COs, Complete(c) PROVE H!Complete({c})
<1> USE DEF Complete, Goto
<1>0. TypeOK /\ \A d \in COs : ThreadInv(d)
  BY DEF BulkInv
<1>1. sent' = sent /\ Round(c) \in Nat
  BY <1>0 DEF TypeOK, Round
<1>2. ASSUME NEW d \in COs
      PROVE  Completed(d)' = IF d = c THEN Round(c) ELSE Completed(d)
  BY <1>0 DEF TypeOK, Completed, InExchange, Round
<1>3. ASSUME NEW l \in Local
      PROVE  PutInto(l)' = PutInto(l) /\ (Dst[l] = c => PutInto(l) = Round(c))
  <2>1. LocalFacts(l)
    BY LinkFacts
  <2>2. PutInto(l)' = PutInto(l)
    BY <1>0, <2>1 DEF TypeOK, LocalFacts, PutInto, Round
  <2>3. ASSUME Dst[l] = c PROVE PutInto(l) = Round(c)
    <3>1. archive[l] = "received" /\ mode[l] = "local"
      BY <2>1, <2>3 DEF LocalFacts, HandshakeInv, EpochInv, Starting
    <3> QED
      BY <2>1, <2>3, <3>1 DEF LocalFacts, EpochInv, Opened
  <2> QED
    BY <2>2, <2>3
<1>4. ASSUME NEW l \in Links \ Local
      PROVE  UnpackedFrom(l)' = UnpackedFrom(l) /\ (Dst[l] = c => UnpackedFrom(l) = Round(c))
  BY <1>0, LinkFacts DEF TypeOK, RemoteFacts, UnpackedFrom, Round, Remote
<1>5. \A l \in Links : Filled(l)' = Filled(l) /\ (Dst[l] = c => Filled(l) = Round(c))
  BY <1>3, <1>4 DEF Filled
<1>6. Completed(c) < Round(c)
  BY <1>1 DEF Completed, InExchange
<1>7. [d \in COs |-> Completed(d)]'
        = [d \in COs |-> IF d \in {c} THEN [e \in COs |-> Round(e)][d]
                                     ELSE [e \in COs |-> Completed(e)][d]]
  BY <1>2
<1>8. [d \in COs |-> Round(d)]' = [d \in COs |-> Round(d)]
  BY <1>1 DEF Round
<1> QED
  BY <1>5, <1>6, <1>7, <1>8 DEF H!Complete

\* The end of a put fills the halo.
LEMMA EndPutDelivers ==
    ASSUME BulkInv, NEW c \in COs, NEW k \in Links, EndPut(c, k) PROVE H!Deliver({k})
<1> USE DEF EndPut, Visit
<1>0. TypeOK /\ (\A d \in COs : ThreadInv(d)) /\ k \in Local
  BY DEF BulkInv
<1>1. sent' = sent /\ \A d \in COs : Completed(d)' = Completed(d)
  BY <1>0 DEF TypeOK, Completed, InExchange, Round
<1>2. LocalFacts(k) /\ Src[k] = c
  BY <1>0, LinkFacts DEF ThreadInv, Out
<1>3. PutInto(k) < Round(Src[k]) /\ PutInto(k) < Round(Dst[k])
  <2>1. Opened(k) = PutInto(k) + 1 /\ PutInto(k) = Round(Src[k]) - 1
    BY <1>2 DEF LocalFacts, EpochInv, PutInto
  <2>2. Opened(k) <= Round(Dst[k])
    BY <1>2 DEF LocalFacts, Opened
  <2> QED
    BY <1>2, <2>1, <2>2 DEF LocalFacts
<1>4. ASSUME NEW l \in Local
      PROVE  PutInto(l)' = IF l = k THEN PutInto(l) + 1 ELSE PutInto(l)
  BY <1>0, <1>2, LinkFacts, SMTT(20) DEF TypeOK, LocalFacts, PutInto, Round
<1>5. ASSUME NEW l \in Links \ Local PROVE UnpackedFrom(l)' = UnpackedFrom(l)
  BY <1>0, LinkFacts DEF TypeOK, RemoteFacts, UnpackedFrom, Round, Remote
<1>6. \A l \in Links : Filled(l)' = IF l = k THEN Filled(l) + 1 ELSE Filled(l)
  BY <1>0, <1>4, <1>5 DEF Filled
<1>7. [l \in Links |-> Filled(l)]'
        = [l \in Links |-> IF l \in {k} THEN [m \in Links |-> Filled(m)][l] + 1
                                       ELSE [m \in Links |-> Filled(m)][l]]
  BY <1>6
<1>8. Filled(k) < Round(Src[k]) /\ Filled(k) < Round(Dst[k])
  BY <1>0, <1>3 DEF Filled
<1> QED
  BY <1>1, <1>2, <1>7, <1>8 DEF H!Deliver, LocalFacts, Round

\* Unpacking a message fills the halo.
LEMMA UnpackDelivers ==
    ASSUME BulkInv, NEW c \in COs, NEW k \in Links, Unpack(c, k) PROVE H!Deliver({k})
<1> USE DEF Unpack, Visit
<1>0. TypeOK /\ \A d \in COs : ThreadInv(d)
  BY DEF BulkInv
<1>1. sent' = sent /\ \A d \in COs : Completed(d)' = Completed(d)
  BY <1>0 DEF TypeOK, Completed, InExchange, Round
<1>2. k \notin Local /\ Dst[k] = c
  BY <1>0 DEF ThreadInv, In, Remote
<1>3. RemoteFacts(k)
  BY <1>2, LinkFacts DEF Remote
<1>4. UnpackedFrom(k) < Round(Src[k]) /\ UnpackedFrom(k) < Round(Dst[k])
  <2>1. Len(chan[k]) \in Nat /\ Len(chan[k]) > 0
    <3>1. chan[k] \in Seq(Nat) /\ chan[k] # << >>
      BY <1>0 DEF TypeOK
    <3> QED
      BY <3>1, TailFacts
  <2>2. UnpackedFrom(k) = Round(Dst[k]) - 1 /\ Round(Dst[k]) \in Nat
    BY <1>0, <1>2, <1>3 DEF UnpackedFrom, TypeOK, Round
  <2> QED
    BY <1>3, <2>1, <2>2 DEF RemoteFacts, MessageInv
<1>5. ASSUME NEW l \in Links \ Local
      PROVE  UnpackedFrom(l)' = IF l = k THEN UnpackedFrom(l) + 1 ELSE UnpackedFrom(l)
  <2>1. RemoteFacts(l)
    BY LinkFacts DEF Remote
  <2>2. CASE l = k
    BY <1>0, <1>2, <2>1, <2>2, SMTT(20) DEF TypeOK, RemoteFacts, UnpackedFrom, Round
  <2>3. CASE l # k
    BY <1>0, <1>2, <2>1, <2>3 DEF TypeOK, RemoteFacts, UnpackedFrom, Round
  <2> QED
    BY <2>2, <2>3
<1>6. ASSUME NEW l \in Local PROVE PutInto(l)' = PutInto(l)
  BY <1>0, LinkFacts DEF TypeOK, LocalFacts, PutInto, Round
<1>7. \A l \in Links : Filled(l)' = IF l = k THEN Filled(l) + 1 ELSE Filled(l)
  BY <1>2, <1>5, <1>6 DEF Filled
<1>8. [l \in Links |-> Filled(l)]'
        = [l \in Links |-> IF l \in {k} THEN [m \in Links |-> Filled(m)][l] + 1
                                       ELSE [m \in Links |-> Filled(m)][l]]
  BY <1>7
<1>9. Filled(k) < Round(Src[k]) /\ Filled(k) < Round(Dst[k])
  BY <1>2, <1>4 DEF Filled
<1> QED
  BY <1>1, <1>3, <1>8, <1>9 DEF H!Deliver, RemoteFacts, Round

(***************************************************************************)
(* Every step of the guards, puts and messages is a step of the abstract   *)
(* halo exchange, or leaves it alone (bulk_communication_object.hpp:       *)
(* 465-589): the safety part of ImplementsHaloExchange.                    *)
(***************************************************************************)
THEOREM BulkRefines == Spec => H!Init /\ [][H!Next]_(H!vars)
<1>1. Init => H!Init
  BY BulkAssumption DEF Init, H!Init, Round, Completed, InExchange, Filled, PutInto, UnpackedFrom
<1>2. BulkInv /\ [Next]_vars => [H!Next]_(H!vars)
  <2> SUFFICES ASSUME BulkInv, [Next]_vars PROVE [H!Next]_(H!vars)
    OBVIOUS
  <2>1. ASSUME NEW c \in COs, Library(c) PROVE [H!Next]_(H!vars)
    <3>1. ASSUME NEW k \in Links,
                 \/ Recv(c, k) \/ Send(c, k) \/ EndTargetEpoch(c, k)
                 \/ StartPut(c, k) \/ EndPut(c, k)
                 \/ Unpack(c, k) \/ TryStartTargetEpoch(c, k)
          PROVE  [H!Next]_(H!vars)
      <4>1. CASE EndPut(c, k) \/ Unpack(c, k)
        BY <4>1, EndPutDelivers, UnpackDelivers DEF H!Next
      <4> QED
        BY <3>1, <4>1, RecvStutters, SendStutters, EndTargetEpochStutters,
           StartPutStutters, TryStartTargetEpochStutters
    <3>2. CASE Exchange(c) \/ Complete(c)
      BY <3>2, ExchangeStarts, CompleteCompletes DEF H!Next
    <3> QED
      BY <2>1, <3>1, <3>2, AddFieldStutters, InitRecvStutters, InitSendStutters,
         InitializedStutters, ExchangeRemoteStutters, ReturnStutters,
         WaitRemoteStutters, WaitLocalStutters DEF Library
  <2>2. ASSUME NEW c \in COs, Compute(c) PROVE [H!Next]_(H!vars)
    BY <2>2, ComputeStutters
  <2>3. CASE UNCHANGED vars
    BY <2>3, Stutter DEF vars, Completed, InExchange, Round, Filled, PutInto, UnpackedFrom
  <2> QED
    BY <2>1, <2>2, <2>3 DEF Next, Finished
<1> QED
  BY <1>1, <1>2, BulkInvariant, PTL DEF Spec
=============================================================================

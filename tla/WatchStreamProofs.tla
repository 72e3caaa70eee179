-------------------------- MODULE WatchStreamProofs --------------------------
(* What emitting and delivering an event does to a watch stream and its cache.  *)
EXTENDS WatchStream, SequenceTheorems, TLAPS

(* What a sequence holds is of the type of its elements. *)
LEMMA ElementType ==
    ASSUME NEW S, NEW seq \in Seq(S), NEW i \in DOMAIN seq
    PROVE  seq[i] \in S
BY ElementOfSeq

(* An emitted event belongs in the stream. *)
LEMMA EmitType ==
    ASSUME NEW Names, NEW Objects, NEW stream \in Seq(Event(Names, Objects)),
           NEW key \in Names, NEW object \in Objects
    PROVE  Emit(stream, key, object) \in Seq(Event(Names, Objects))
BY AppendProperties DEF Emit, Event

(* Delivering the oldest event leaves a cache and a stream of the same type. *)
LEMMA DeliverType ==
    ASSUME NEW Names, NEW Objects, NEW stream \in Seq(Event(Names, Objects)),
           stream # << >>, NEW cache \in [Names -> Objects]
    PROVE  /\ Head(stream) \in Event(Names, Objects)
           /\ Tail(stream) \in Seq(Event(Names, Objects))
           /\ Delivered(cache, stream) \in [Names -> Objects]
<1>1. Head(stream) \in Event(Names, Objects) /\ Tail(stream) \in Seq(Event(Names, Objects))
  BY HeadTailProperties
<1>2. Head(stream).key \in Names /\ Head(stream).object \in Objects
  BY <1>1 DEF Event
<1> QED
  BY <1>1, <1>2 DEF Delivered

(* After an event for key is emitted, key is stale and nothing else changes. *)
LEMMA EmitStale ==
    ASSUME NEW Names, NEW Objects, NEW stream \in Seq(Event(Names, Objects)),
           NEW key, NEW object, NEW other
    PROVE  Stale(Emit(stream, key, object), other) <=> Stale(stream, other) \/ other = key
<1> DEFINE event == [key |-> key, object |-> object]
           longer == Append(stream, event)
<1>1. /\ DOMAIN stream = 1..Len(stream) /\ Len(stream) \in Nat
      /\ DOMAIN longer = 1..Len(stream)+1
      /\ \A i \in 1..Len(stream) : longer[i] = stream[i]
      /\ longer[Len(stream)+1] = event
  OBVIOUS
<1>2. Emit(stream, key, object) = longer
  BY DEF Emit
<1>3. ASSUME Stale(longer, other) PROVE Stale(stream, other) \/ other = key
  <2>1. PICK i \in DOMAIN longer : longer[i].key = other
    BY <1>3 DEF Stale
  <2>2. CASE i = Len(stream) + 1
    BY <2>1, <2>2, <1>1
  <2>3. CASE i # Len(stream) + 1
    <3>1. i \in 1..Len(stream)
      BY <2>3, <1>1
    <3> QED BY <3>1, <2>1, <1>1 DEF Stale
  <2> QED BY <2>2, <2>3
<1>4. ASSUME Stale(stream, other) PROVE Stale(longer, other)
  <2>1. PICK i \in DOMAIN stream : stream[i].key = other
    BY <1>4 DEF Stale
  <2>2. i \in DOMAIN longer /\ longer[i] = stream[i]
    BY <1>1
  <2> QED BY <2>1, <2>2 DEF Stale
<1>5. ASSUME other = key PROVE Stale(longer, other)
  <2>1. Len(stream)+1 \in DOMAIN longer /\ longer[Len(stream)+1].key = other
    BY <1>1, <1>5
  <2> QED BY <2>1 DEF Stale
<1> QED BY <1>2, <1>3, <1>4, <1>5

(* Delivering the oldest event leaves the stale keys stale but for its own, which
   may have become current. *)
LEMMA DeliverStale ==
    ASSUME NEW Names, NEW Objects, NEW stream \in Seq(Event(Names, Objects)),
           stream # << >>, NEW other
    PROVE  Stale(stream, other) <=> Stale(Tail(stream), other) \/ other = Head(stream).key
<1>1. /\ Len(stream) \in Nat /\ Len(stream) > 0
      /\ DOMAIN stream = 1..Len(stream)
      /\ DOMAIN Tail(stream) = 1..Len(stream)-1
      /\ \A i \in 1..Len(stream)-1 : Tail(stream)[i] = stream[i+1]
      /\ Head(stream) = stream[1]
  BY HeadTailProperties, EmptySeq
<1>2. ASSUME Stale(stream, other) PROVE Stale(Tail(stream), other) \/ other = Head(stream).key
  <2>1. PICK i \in DOMAIN stream : stream[i].key = other
    BY <1>2 DEF Stale
  <2>2. CASE i = 1
    BY <2>1, <2>2, <1>1
  <2>3. CASE i # 1
    <3>1. i - 1 \in 1..Len(stream)-1 /\ (i - 1) + 1 = i
      BY <2>3, <1>1
    <3>2. Tail(stream)[i-1] = stream[i]
      BY <3>1, <1>1
    <3> QED BY <3>1, <3>2, <2>1, <1>1 DEF Stale
  <2> QED BY <2>2, <2>3
<1>3. ASSUME Stale(Tail(stream), other) PROVE Stale(stream, other)
  <2>1. PICK i \in DOMAIN Tail(stream) : Tail(stream)[i].key = other
    BY <1>3 DEF Stale
  <2>2. i + 1 \in DOMAIN stream /\ stream[i+1].key = other
    BY <2>1, <1>1
  <2> QED BY <2>2 DEF Stale
<1>4. ASSUME other = Head(stream).key PROVE Stale(stream, other)
  <2>1. 1 \in DOMAIN stream /\ stream[1].key = other
    BY <1>4, <1>1
  <2> QED BY <2>1 DEF Stale
<1> QED BY <1>2, <1>3, <1>4

(* A change of an object, emitted, keeps the cache coherent with the API server. *)
LEMMA EmitCoherent ==
    ASSUME NEW Names, NEW Objects, NEW stream \in Seq(Event(Names, Objects)),
           NEW api \in [Names -> Objects], NEW cache \in [Names -> Objects],
           NEW key \in Names, NEW object \in Objects,
           Coherent(api, cache, stream)
    PROVE  Coherent([api EXCEPT ![key] = object], cache, Emit(stream, key, object))
<1> DEFINE longer == Emit(stream, key, object)
           changed == [api EXCEPT ![key] = object]
<1>1. /\ DOMAIN stream = 1..Len(stream) /\ Len(stream) \in Nat
      /\ DOMAIN longer = 1..Len(stream)+1
      /\ \A i \in 1..Len(stream) : longer[i] = stream[i]
      /\ longer[Len(stream)+1] = [key |-> key, object |-> object]
  BY DEF Emit
<1>2. ASSUME NEW other \in DOMAIN changed, ~Stale(longer, other)
      PROVE  cache[other] = changed[other]
  <2>1. ~Stale(stream, other) /\ other # key
    BY <1>2, EmitStale
  <2> QED BY <2>1 DEF Coherent
<1>3. ASSUME NEW i \in DOMAIN longer, LastOf(longer, i)
      PROVE  longer[i].object = changed[longer[i].key]
  <2>1. CASE i = Len(stream) + 1
    BY <2>1, <1>1
  <2>2. CASE i # Len(stream) + 1
    <3>1. i \in DOMAIN stream /\ longer[i] = stream[i]
      BY <2>2, <1>1
    <3>2. stream[i].key \in Names
      <4>1. stream[i] \in Event(Names, Objects)
        BY <3>1, ElementOfSeq
      <4> QED BY <4>1 DEF Event
    <3>3. stream[i].key # key
      <4> SUFFICES ASSUME stream[i].key = key PROVE FALSE
        OBVIOUS
      <4>1. Len(stream) + 1 <= i
        BY <3>1, <1>1, <1>3 DEF LastOf
      <4> QED BY <4>1, <3>1, <1>1
    <3>4. LastOf(stream, i)
      BY <3>1, <1>1, <1>3 DEF LastOf
    <3> QED BY <3>1, <3>2, <3>3, <3>4 DEF Coherent
  <2> QED BY <2>1, <2>2
<1> QED BY <1>2, <1>3 DEF Coherent

(* So does the delivery of the oldest event. *)
LEMMA DeliverCoherent ==
    ASSUME NEW Names, NEW Objects, NEW stream \in Seq(Event(Names, Objects)),
           stream # << >>,
           NEW api \in [Names -> Objects], NEW cache \in [Names -> Objects],
           Coherent(api, cache, stream)
    PROVE  Coherent(api, Delivered(cache, stream), Tail(stream))
<1>1. /\ Len(stream) \in Nat /\ Len(stream) > 0
      /\ DOMAIN stream = 1..Len(stream)
      /\ DOMAIN Tail(stream) = 1..Len(stream)-1
      /\ \A i \in 1..Len(stream)-1 : Tail(stream)[i] = stream[i+1]
      /\ Head(stream) = stream[1]
  BY HeadTailProperties, EmptySeq
<1>2. Head(stream).key \in Names
  <2>1. Head(stream) \in Event(Names, Objects)
    BY DeliverType
  <2> QED BY <2>1 DEF Event
<1>3. ASSUME NEW other \in DOMAIN api, ~Stale(Tail(stream), other)
      PROVE  Delivered(cache, stream)[other] = api[other]
  <2>1. CASE other # Head(stream).key
    <3>1. ~Stale(stream, other)
      BY <1>3, <2>1, DeliverStale
    <3> QED BY <3>1, <2>1 DEF Coherent, Delivered
  <2>2. CASE other = Head(stream).key
    <3>1. \A j \in DOMAIN stream : stream[j].key = stream[1].key => j <= 1
      <4> SUFFICES ASSUME NEW j \in DOMAIN stream, stream[j].key = stream[1].key, j > 1
                   PROVE  FALSE
        BY <1>1
      <4>1. j - 1 \in DOMAIN Tail(stream) /\ Tail(stream)[j-1] = stream[j]
        BY <1>1
      <4> QED BY <4>1, <2>2, <1>1, <1>3 DEF Stale
    <3>2. LastOf(stream, 1)
      BY <3>1 DEF LastOf
    <3>3. 1 \in DOMAIN stream
      BY <1>1
    <3>4. Head(stream).object = api[other]
      BY <3>2, <3>3, <2>2, <1>1 DEF Coherent
    <3> QED BY <3>4, <2>2, <1>2 DEF Delivered
  <2> QED BY <2>1, <2>2
<1>4. ASSUME NEW i \in DOMAIN Tail(stream), LastOf(Tail(stream), i)
      PROVE  Tail(stream)[i].object = api[Tail(stream)[i].key]
  <2>1. i + 1 \in DOMAIN stream /\ Tail(stream)[i] = stream[i+1] /\ i \in 1..Len(stream)-1
    BY <1>1
  <2>2. ASSUME NEW j \in DOMAIN stream, stream[j].key = stream[i+1].key
        PROVE  j <= i + 1
    <3>1. CASE j = 1
      BY <3>1, <2>1, <1>1
    <3>2. CASE j # 1
      <4>1. j - 1 \in DOMAIN Tail(stream) /\ Tail(stream)[j-1] = stream[j]
        BY <3>2, <1>1
      <4>2. j - 1 <= i
        BY <4>1, <2>1, <2>2, <1>4 DEF LastOf
      <4> QED BY <4>2, <2>1, <1>1
    <3> QED BY <3>1, <3>2
  <2>3. LastOf(stream, i + 1)
    BY <2>2 DEF LastOf
  <2> QED BY <2>1, <2>3 DEF Coherent
<1> QED BY <1>3, <1>4 DEF Coherent, Delivered
=============================================================================

------------------------- MODULE EventBridgeProofs --------------------------
(* EventBridge implements Mailbox, for any producers and any number of sends. *)
EXTENDS EventBridge, SequenceTheorems, TLAPS

\* A successful send keeps the variants and appends to the events, whichever
\* variant it found.
LEMMA PushedAppends ==
    ASSUME TypeOK, Shape, inner.variant # "Closed", NEW event \in Events
    PROVE  /\ Pushed(event) \in InnerType
           /\ Pushed(event).events = Append(inner.events, event)
           /\ Pushed(event).variant \in {"Single", "Multiple"}
           /\ Pushed(event).variant = "Single" => Len(Pushed(event).events) = 1
           /\ Pushed(event).variant = "Multiple" => Len(Pushed(event).events) > 1
<1>1. inner.events \in Seq(Events) /\ Len(inner.events) \in Nat
  BY DEF TypeOK, InnerType
<1>2. CASE inner.variant = "Empty"
  <2>1. inner.events = <<>>
    BY <1>2 DEF Shape
  <2> QED
    BY <1>2, <2>1 DEF Pushed, Single, InnerType
<1>3. CASE inner.variant = "Single"
  <2>1. Len(inner.events) = 1
    BY <1>3 DEF Shape
  <2>2. <<inner.events[1], event>> = Append(inner.events, event)
    <3> DEFINE pair == <<inner.events[1], event>>
               longer == Append(inner.events, event)
    <3>1. inner.events[1] \in Events
      BY <1>1, <2>1
    <3>2. /\ pair \in Seq(Events) /\ Len(pair) = 2
          /\ pair[1] = inner.events[1] /\ pair[2] = event
      <4>1. \A a, b \in Events : /\ <<a, b>> \in Seq(Events) /\ Len(<<a, b>>) = 2
                                 /\ <<a, b>>[1] = a /\ <<a, b>>[2] = b
        OBVIOUS
      <4> QED
        BY <3>1, <4>1, Zenon
    <3>3. /\ longer \in Seq(Events) /\ Len(longer) = 2
          /\ longer[1] = inner.events[1] /\ longer[2] = event
      <4>1. /\ longer \in Seq(Events) /\ Len(longer) = Len(inner.events) + 1
            /\ \A i \in 1 .. Len(inner.events) : longer[i] = inner.events[i]
            /\ longer[Len(inner.events) + 1] = event
        BY <1>1, AppendProperties
      <4> HIDE DEF longer
      <4> QED
        BY <2>1, <4>1
    <3>4. \A i \in 1 .. 2 : i = 1 \/ i = 2
      OBVIOUS
    <3> HIDE DEF pair, longer
    <3>5. pair = longer
      BY <3>2, <3>3, <3>4, SeqEqual
    <3> QED
      BY <3>5 DEF pair, longer
  <2>3. Pushed(event) = Multiple(<<inner.events[1], event>>)
    BY <1>3 DEF Pushed
  <2>4. Len(Append(inner.events, event)) = 2 /\ Append(inner.events, event) \in Seq(Events)
    <3>1. Len(Append(inner.events, event)) = Len(inner.events) + 1
      BY <1>1
    <3> QED
      BY <1>1, <2>1, <3>1
  <2>5. Pushed(event) = Multiple(Append(inner.events, event))
    BY <2>2, <2>3, Zenon
  <2> QED
    BY <2>4, <2>5 DEF Multiple, InnerType
<1>4. CASE inner.variant = "Multiple"
  <2>1. Len(inner.events) > 1
    BY <1>4 DEF Shape
  <2>2. Pushed(event) = Multiple(Append(inner.events, event))
    BY <1>4 DEF Pushed
  <2>3. Len(Append(inner.events, event)) > 1 /\ Append(inner.events, event) \in Seq(Events)
    BY <1>1, <2>1
  <2> QED
    BY <2>2, <2>3 DEF Multiple, InnerType
<1> QED
  BY <1>2, <1>3, <1>4 DEF TypeOK, InnerType

\* The variants of Inner agree with what they hold through every method.
LEMMA ShapeStep ==
    ASSUME TypeOK, Shape, [Next]_vars
    PROVE  TypeOK' /\ Shape'
<1>1. CASE \E event \in Events : send(event)
  <2>1. PICK event \in Events : send(event)
    BY <1>1
  <2>2. sends' \in [Producers -> 0 .. MaxSends]
    BY <2>1 DEF send, TypeOK, Events
  <2>3. UNCHANGED <<worker, draining, handled>>
    BY <2>1 DEF send
  <2>4. CASE inner.variant = "Closed"
    BY <2>1, <2>2, <2>3, <2>4 DEF send, TypeOK, Shape
  <2>5. CASE inner.variant # "Closed"
    <3>1. inner' = Pushed(event) /\ rejected' = rejected
      BY <2>1, <2>5 DEF send
    <3> QED
      BY <2>2, <2>3, <2>5, <3>1, PushedAppends DEF TypeOK, Shape
  <2> QED
    BY <2>4, <2>5
<1>2. CASE process
  BY <1>2 DEF process, TypeOK, Shape, Empty, InnerType
<1>3. CASE CallF
  BY <1>3 DEF CallF, TypeOK, Shape
<1>4. CASE ProcessReturns
  BY <1>4 DEF ProcessReturns, TypeOK, Shape
<1>5. CASE close
  BY <1>5 DEF close, TypeOK, Shape, Closed, InnerType
<1>6. CASE UNCHANGED vars
  BY <1>6 DEF vars, TypeOK, Shape
<1> QED
  BY <1>1, <1>2, <1>3, <1>4, <1>5, <1>6 DEF Next

\* Inner's variants agree with the events they hold, process leaves nothing
\* behind, and the bridge is closed exactly when the stream is complete.
THEOREM ShapeCorrect == Spec => [](TypeOK /\ Shape)
<1>1. new => TypeOK /\ Shape
  BY EventBridgeAssumption DEF new, TypeOK, Shape, Empty, InnerType
<1>2. (TypeOK /\ Shape) /\ [Next]_vars => (TypeOK /\ Shape)'
  BY ShapeStep
<1> QED
  BY <1>1, <1>2, PTL DEF Spec

\* Handing the first drained event to f does not change what has been taken.
LEMMA HandOver ==
    ASSUME NEW first \in Seq(Events), NEW rest \in Seq(Events), rest # <<>>
    PROVE  Append(first, Head(rest)) \o Tail(rest) = first \o rest
<1> DEFINE left == Append(first, Head(rest)) \o Tail(rest)
           right == first \o rest
<1>1. /\ left \in Seq(Events) /\ right \in Seq(Events)
      /\ Len(first) \in Nat /\ Len(rest) \in Nat /\ Len(rest) >= 1
  OBVIOUS
<1>2. Len(left) = Len(first) + Len(rest) /\ Len(right) = Len(first) + Len(rest)
  OBVIOUS
<1>3. \A i \in 1 .. Len(first) + Len(rest) : left[i] = right[i]
  OBVIOUS
<1> QED
  BY <1>1, <1>2, <1>3, SeqEqual

\* The event bridge is a mailbox: each method is one step of Mailbox or no step
\* at all, so Filter may treat it as a queue that on_scheduled empties at once
\* and that on_stream_complete shuts for good.
THEOREM Refinement == Spec => ImplementsMailbox
<1>1. new => Box!Init
  BY DEF new, Box!Init, Empty
<1>2. TypeOK /\ Shape /\ [Next]_vars => [Box!Next]_Box!vars
  <2> SUFFICES ASSUME TypeOK, Shape, [Next]_vars
               PROVE  [Box!Next]_Box!vars
    OBVIOUS
  <2>1. CASE \E event \in Events : send(event)
    <3>1. PICK event \in Events : send(event)
      BY <2>1
    <3>2. event \in Box!Events
      BY DEF Events, Box!Events
    <3>3. handled' \o draining' = handled \o draining
      BY <3>1 DEF send
    <3>4. Box!Put(event)
      <4>1. CASE inner.variant = "Closed"
        BY <3>1, <3>3, <4>1 DEF send, Box!Put
      <4>2. CASE inner.variant # "Closed"
        <5>1. inner' = Pushed(event) /\ rejected' = rejected
          BY <3>1, <4>2 DEF send
        <5> QED
          BY <3>3, <4>2, <5>1, PushedAppends DEF Box!Put
      <4> QED
        BY <4>1, <4>2
    <3> QED
      BY <3>2, <3>4 DEF Box!Next
  <2>2. CASE process
    <3>1. /\ draining = <<>> /\ handled' = handled /\ draining' = inner.events
          /\ inner.events \in Seq(Events) /\ handled \in Seq(Events)
          /\ inner' = Empty /\ inner.variant # "Closed" /\ rejected' = rejected
      BY <2>2 DEF process, TypeOK, Shape, InnerType
    <3>2. handled \o draining = handled
      BY <3>1
    <3>3. Box!TakeAll
      BY <3>1, <3>2 DEF Box!TakeAll, Empty
    <3> QED
      BY <3>3 DEF Box!Next
  <2>3. CASE CallF
    <3>1. handled' \o draining' = handled \o draining
      BY <2>3, HandOver DEF CallF, TypeOK
    <3> QED
      BY <2>3, <3>1 DEF CallF, Box!vars
  <2>4. CASE ProcessReturns
    BY <2>4 DEF ProcessReturns, Box!vars
  <2>5. CASE close
    BY <2>5 DEF close, Closed, Box!Shut, Box!Next
  <2>6. CASE UNCHANGED vars
    BY <2>6 DEF vars, Box!vars
  <2> QED
    BY <2>1, <2>2, <2>3, <2>4, <2>5, <2>6 DEF Next
<1> QED
  BY <1>1, <1>2, ShapeCorrect, PTL DEF Spec, ImplementsMailbox, Box!Spec

-----------------------------------------------------------------------------
\* An event that is sent comes last.
LEMMA Appended ==
    ASSUME NEW s \in Seq(Events), NEW t \in Seq(Events), NEW event \in Events
    PROVE  s \o Append(t, event) = Append(s \o t, event)
<1> DEFINE left == s \o Append(t, event)
           right == Append(s \o t, event)
<1>1. /\ left \in Seq(Events) /\ right \in Seq(Events) /\ Len(s) \in Nat /\ Len(t) \in Nat
      /\ Len(left) = Len(s) + Len(t) + 1 /\ Len(right) = Len(s) + Len(t) + 1
  OBVIOUS
<1>2. \A i \in 1 .. Len(s) + Len(t) + 1 : left[i] = right[i]
  OBVIOUS
<1> QED
  BY <1>1, <1>2, SeqEqual

\* A send appends to what is on its way, and no other step on the open bridge
\* changes it.
LEMMA AllStep ==
    ASSUME TypeOK, Shape, [Next]_vars, inner'.variant # "Closed"
    PROVE  /\ inner.variant # "Closed" /\ All \in Seq(Events)
           /\ \/ UNCHANGED <<All, sends>>
              \/ \E event \in Events :
                    /\ event.n = sends[event.from] + 1
                    /\ sends' = [sends EXCEPT ![event.from] = event.n]
                    /\ All' = Append(All, event)
<1>1. /\ handled \in Seq(Events) /\ draining \in Seq(Events) /\ inner.events \in Seq(Events)
      /\ handled \o draining \in Seq(Events) /\ All \in Seq(Events)
  BY DEF TypeOK, InnerType, All
<1>2. CASE \E event \in Events : send(event)
  <2>1. PICK event \in Events : send(event)
    BY <1>2
  <2>2. inner.variant # "Closed"
    BY <2>1 DEF send
  <2>3. /\ inner'.events = Append(inner.events, event) /\ UNCHANGED <<draining, handled>>
        /\ event.n = sends[event.from] + 1
        /\ sends' = [sends EXCEPT ![event.from] = event.n]
    BY <2>1, <2>2, PushedAppends DEF send
  <2>4. All' = Append(All, event)
    <3>1. All' = (handled \o draining) \o Append(inner.events, event)
      BY <2>3 DEF All
    <3> QED
      BY <1>1, <3>1, Appended DEF All
  <2> QED
    BY <1>1, <2>2, <2>3, <2>4
<1>3. CASE process
  <2>1. /\ draining = <<>> /\ inner.variant # "Closed" /\ UNCHANGED <<handled, sends>>
        /\ draining' = inner.events /\ inner'.events = <<>>
    BY <1>3 DEF process, Shape, Empty
  <2>2. All' = (handled \o inner.events) \o <<>> /\ All = (handled \o <<>>) \o inner.events
    BY <2>1 DEF All
  <2>3. handled \o <<>> = handled /\ (handled \o inner.events) \o <<>> = handled \o inner.events
    BY <1>1
  <2> QED
    BY <1>1, <2>1, <2>2, <2>3
<1>4. CASE CallF
  <2>1. handled' \o draining' = handled \o draining
    BY <1>4, HandOver DEF CallF, TypeOK
  <2> QED
    BY <1>1, <1>4, <2>1 DEF CallF, All
<1>5. CASE ProcessReturns
  BY <1>1, <1>5 DEF ProcessReturns, All
<1>6. CASE close
  BY <1>6 DEF close, Closed
<1>7. CASE UNCHANGED vars
  BY <1>1, <1>7 DEF vars, All
<1> QED
  BY <1>2, <1>3, <1>4, <1>5, <1>6, <1>7 DEF Next

\* A number more than all before keeps the events of a producer in order.
LEMMA LosslessStep ==
    ASSUME TypeOK, Shape, Lossless, [Next]_vars
    PROVE  Lossless'
<1> SUFFICES ASSUME inner'.variant # "Closed"
             PROVE  /\ \A event \in Events :
                          event.n <= sends'[event.from]
                            <=> \E i \in 1 .. Len(All') : All'[i] = event
                    /\ \A i, j \in 1 .. Len(All') :
                          (i < j /\ All'[i].from = All'[j].from) => All'[i].n < All'[j].n
  BY DEF Lossless
<1>1. inner.variant # "Closed" /\ All \in Seq(Events)
  BY AllStep
<1>2. /\ \A event \in Events :
            event.n <= sends[event.from] <=> \E i \in 1 .. Len(All) : All[i] = event
      /\ \A i, j \in 1 .. Len(All) :
            (i < j /\ All[i].from = All[j].from) => All[i].n < All[j].n
  BY <1>1 DEF Lossless
<1>3. CASE UNCHANGED <<All, sends>>
  BY <1>2, <1>3
<1>4. ASSUME NEW event \in Events, event.n = sends[event.from] + 1,
             sends' = [sends EXCEPT ![event.from] = event.n], All' = Append(All, event)
      PROVE  /\ \A e \in Events :
                   e.n <= sends'[e.from] <=> \E i \in 1 .. Len(All') : All'[i] = e
             /\ \A i, j \in 1 .. Len(All') :
                   (i < j /\ All'[i].from = All'[j].from) => All'[i].n < All'[j].n
  <2>1. PICK n \in Nat :
          /\ n = Len(All) /\ Len(All') = n + 1 /\ All'[n + 1] = event
          /\ \A i \in 1 .. n : All'[i] = All[i] /\ All[i] \in Events
    BY <1>1, <1>4
  <2>2. \A i : i \in 1 .. n + 1 <=> i \in 1 .. n \/ i = n + 1
    BY <2>1
  <2>3. \A e \in Events : e.from \in Producers /\ e.n \in Nat
    BY EventBridgeAssumption DEF Events
  <2>4. \A p \in Producers : sends[p] \in Nat
    BY EventBridgeAssumption DEF TypeOK
  <2>5. ASSUME NEW e \in Events
        PROVE  e.n <= sends'[e.from] <=> e.n <= sends[e.from] \/ e = event
    <3>1. CASE e.from = event.from
      <4>1. sends'[e.from] = sends[e.from] + 1
        BY <1>4, <2>3, <3>1 DEF TypeOK
      <4>2. e.n = event.n <=> e = event
        BY <3>1 DEF Events
      <4> QED
        BY <1>4, <2>3, <2>4, <3>1, <4>1, <4>2
    <3>2. CASE e.from # event.from
      BY <1>4, <2>3, <3>2 DEF TypeOK
    <3> QED
      BY <3>1, <3>2
  <2>6. ASSUME NEW e \in Events
        PROVE  (\E i \in 1 .. n + 1 : All'[i] = e)
                 <=> (\E i \in 1 .. n : All[i] = e) \/ e = event
    BY <2>1, <2>2
  <2>7. ASSUME NEW i \in 1 .. n + 1, NEW j \in 1 .. n + 1, i < j, All'[i].from = All'[j].from
        PROVE  All'[i].n < All'[j].n
    <3>1. i \in 1 .. n
      BY <2>1, <2>7
    <3>2. CASE j \in 1 .. n
      BY <1>2, <2>1, <2>7, <3>1, <3>2
    <3>3. CASE j = n + 1
      <4>1. All[i] \in Events /\ All[i].from = event.from /\ All'[i] = All[i]
        BY <2>1, <2>7, <3>1, <3>3
      <4>2. All[i].n <= sends[event.from]
        BY <1>2, <2>1, <3>1, <4>1
      <4> QED
        BY <1>4, <2>1, <2>3, <2>4, <3>3, <4>1, <4>2
    <3> QED
      BY <2>2, <3>2, <3>3
  <2> QED
    BY <1>2, <2>1, <2>5, <2>6, <2>7
<1> QED
  BY <1>3, <1>4, AllStep

\* Whatever the producers send and however the worker drains, no event is lost,
\* duplicated or overtaken on the open bridge.
THEOREM LosslessCorrect == Spec => []Lossless
<1>1. new => Lossless
  <2> SUFFICES ASSUME new PROVE Lossless
    OBVIOUS
  <2>1. All = <<>> \o <<>> \o <<>> /\ sends = [p \in Producers |-> 0]
    BY DEF new, All, Empty
  <2>2. Len(All) = 0
    BY <2>1
  <2>3. \A event \in Events : ~(event.n <= sends[event.from])
    BY <2>1, EventBridgeAssumption DEF Events
  <2> QED
    BY <2>2, <2>3 DEF Lossless
<1>2. (TypeOK /\ Shape) /\ Lossless /\ [Next]_vars => Lossless'
  BY LosslessStep
<1> QED
  BY <1>1, <1>2, ShapeCorrect, PTL DEF Spec
=============================================================================

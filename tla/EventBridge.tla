----------------------------- MODULE EventBridge ----------------------------
(* crates/envoy-files-filter/src/eventbridge.rs: the mailbox from the I/O    *)
(* threads to the worker thread.  Each method holds the mutex for its whole  *)
(* body, except that process unlocks before it calls f for the events it     *)
(* took.  The worker calls process from on_scheduled and close from          *)
(* on_stream_complete, which is the last callback of a stream.               *)
EXTENDS Integers, Sequences

CONSTANTS
    Producers,   \* I/O threads that send
    MaxSends     \* bound: events per producer

ASSUME EventBridgeAssumption == MaxSends \in Nat

Events == [from : Producers, n : 1 .. MaxSends]

VARIABLES
    inner,      \* Inner<T>: its variant and the events the variant holds
    sends,      \* number of events each producer has sent
    worker,     \* "Idle", "Handling" (f runs, unlocked) or "Gone"
    draining,   \* events process took and has not given to f
    handled,    \* history: events given to f
    rejected    \* history: events returned by a failed send

vars == <<inner, sends, worker, draining, handled, rejected>>

Closed == [variant |-> "Closed", events |-> <<>>]
Empty == [variant |-> "Empty", events |-> <<>>]
Single(event) == [variant |-> "Single", events |-> <<event>>]
Multiple(events) == [variant |-> "Multiple", events |-> events]

InnerType ==
    [variant : {"Closed", "Empty", "Single", "Multiple"}, events : Seq(Events)]

new ==
    /\ inner = Empty
    /\ sends = [p \in Producers |-> 0]
    /\ worker = "Idle"
    /\ draining = <<>>
    /\ handled = <<>>
    /\ rejected = {}

\* Mutants: the second event replaces the first; it goes in front of it.
PushedLossy(event) ==
    CASE inner.variant = "Empty" -> Single(event)
      [] inner.variant = "Single" -> Multiple(<<event>>)
      [] inner.variant = "Multiple" -> Multiple(Append(inner.events, event))

PushedSwapped(event) ==
    CASE inner.variant = "Empty" -> Single(event)
      [] inner.variant = "Single" -> Multiple(<<event, inner.events[1]>>)
      [] inner.variant = "Multiple" -> Multiple(Append(inner.events, event))

\* The state after a successful send.
Pushed(event) ==
    CASE inner.variant = "Empty" -> Single(event)
      [] inner.variant = "Single" -> Multiple(<<inner.events[1], event>>)
      [] inner.variant = "Multiple" -> Multiple(Append(inner.events, event))

send(event) ==
    /\ event.n = sends[event.from] + 1
    /\ sends' = [sends EXCEPT ![event.from] = event.n]
    /\ IF inner.variant = "Closed"
       THEN rejected' = rejected \cup {event} /\ UNCHANGED inner
       ELSE inner' = Pushed(event) /\ UNCHANGED rejected
    /\ UNCHANGED <<worker, draining, handled>>

process ==
    /\ worker = "Idle"
    /\ inner' = Empty
    /\ draining' = inner.events
    /\ worker' = "Handling"
    /\ UNCHANGED <<sends, handled, rejected>>

CallF ==
    /\ worker = "Handling" /\ draining # <<>>
    /\ handled' = Append(handled, Head(draining))
    /\ draining' = Tail(draining)
    /\ UNCHANGED <<inner, sends, worker, rejected>>

ProcessReturns ==
    /\ worker = "Handling" /\ draining = <<>>
    /\ worker' = "Idle"
    /\ UNCHANGED <<inner, sends, draining, handled, rejected>>

\* Mutant: close empties the bridge and leaves it open.
close_reopens ==
    /\ worker = "Idle"
    /\ inner' = Empty
    /\ worker' = "Gone"
    /\ UNCHANGED <<sends, draining, handled, rejected>>

close ==
    /\ worker = "Idle"
    /\ inner' = Closed
    /\ worker' = "Gone"
    /\ UNCHANGED <<sends, draining, handled, rejected>>

Next ==
    \/ \E event \in Events : send(event)
    \/ process \/ CallF \/ ProcessReturns
    \/ close

Spec == new /\ [][Next]_vars

-----------------------------------------------------------------------------
(* Properties. *)

TypeOK ==
    /\ inner \in InnerType
    /\ sends \in [Producers -> 0 .. MaxSends]
    /\ worker \in {"Idle", "Handling", "Gone"}
    /\ draining \in Seq(Events)
    /\ handled \in Seq(Events)
    /\ rejected \subseteq Events

\* The variant tells the number of events, and an idle worker has none left;
\* the bridge is closed only once the worker is gone.
Shape ==
    /\ inner.variant \in {"Closed", "Empty"} => inner.events = <<>>
    /\ inner.variant = "Single" => Len(inner.events) = 1
    /\ inner.variant = "Multiple" => Len(inner.events) > 1
    /\ worker # "Handling" => draining = <<>>
    /\ inner.variant = "Closed" <=> worker = "Gone"

\* What the worker has handled, is handling and will take next.
All == handled \o draining \o inner.events

\* No event is lost, duplicated or overtaken by a later one of its producer:
\* while the bridge is open, an event was sent exactly if it was handled or is on
\* its way, and those of a producer are there in the order of their numbers.
Lossless ==
    inner.variant # "Closed" =>
        /\ \A event \in Events :
              event.n <= sends[event.from] <=> \E i \in 1 .. Len(All) : All[i] = event
        /\ \A i, j \in 1 .. Len(All) :
              (i < j /\ All[i].from = All[j].from) => All[i].n < All[j].n

\* The bridge as Filter uses it: process takes at the moment it holds the lock.
Box == INSTANCE Mailbox WITH
          queue <- inner.events, open <- inner.variant # "Closed",
          taken <- handled \o draining, refused <- rejected

\* The four variants, the two-step drain and the fence of close behave as one
\* first-in first-out mailbox that refuses every event once it is closed.
ImplementsMailbox == Box!Spec
=============================================================================

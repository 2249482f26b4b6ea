-------------------------- MODULE ConversationProofs --------------------------
(***************************************************************************)
(* Proofs about Conversation, for any number of turns, any plans and       *)
(* limits, and any capacities.                                             *)
(*                                                                         *)
(* First what a step does to the records of its own turn, then what the    *)
(* history finds, then the parts of the inductive invariant, which relate  *)
(* turns, and last the theorems.                                           *)
(***************************************************************************)
EXTENDS Conversation, FiniteSetTheorems, SequenceTheorems, TLAPS

TurnType(r, q, o, u, d) ==
    /\ r \in {"off", "plan", "relay", "done"} /\ q \in Request /\ o \in Agent
    /\ u \in Wire /\ d \in Wire
    /\ Len(o.tasks_status) = Len(o.plan) /\ o.next \in 1 .. Len(o.plan) + 1
    /\ Len(u.events) <= WireCap /\ Len(d.events) <= WireCap /\ Len(q.out) <= ChanCap

\* What the invariant says of one turn.
Sound(r, q, o, u, d) == TurnType(r, q, o, u, d) /\ Fits(r, q, o, u, d) /\ InOrder(r, q, o, u, d)

\* The places of an agent that has not completed its task.
Working == {"cards", "plan", "tasks", "recall", "stream"}

\* What an agent may become: with its plan and its results in step.
Sensible(o) ==
    /\ o \in Agent /\ Len(o.tasks_status) = Len(o.plan) /\ o.next \in 1 .. Len(o.plan) + 1
    /\ o.at = "tasks" => o.next <= Len(o.plan)

(***************************************************************************)
(* The client's side of a turn                                             *)
(***************************************************************************)

LEMMA Lengths ==
    ASSUME NEW r, NEW q, NEW o, NEW u, NEW d, TurnType(r, q, o, u, d)
    PROVE  /\ Len(q.out) \in Nat /\ Len(q.got) \in Nat /\ Len(u.events) \in Nat /\ Len(d.events) \in Nat
           /\ Len(o.plan) \in Nat /\ o.sent \in Nat /\ Ending(q) \in {0, 1} /\ Relayed(q, d) \in Int
  <1>1. q.out \in Seq(Int) /\ q.got \in Seq(Nat) /\ u.events \in Seq(Nat) /\ d.events \in Seq(Nat)
        /\ o.sent \in Nat /\ o.tasks_status \in Seq(Statuses)
    BY DEF TurnType, Request, Agent, Wire
  <1>2. Len(o.tasks_status) \in Nat /\ Len(o.tasks_status) = Len(o.plan)
    BY <1>1 DEF TurnType
  <1>3. Ending(q) \in {0, 1}
    BY DEF Ending
  <1>4. Len(q.out) \in Nat /\ Len(q.got) \in Nat /\ Len(u.events) \in Nat /\ Len(d.events) \in Nat
    BY <1>1
  <1>5. Relayed(q, d) \in Int
    <2> DEFINE g == Len(q.got)
               n == Len(q.out)
               c == Ending(q)
               e == Len(d.events)
    <2>1. g \in Int /\ n \in Int /\ c \in Int /\ e \in Int
      BY <1>3, <1>4
    <2>2. Relayed(q, d) = g + n - c + e
      BY DEF Relayed
    <2> HIDE DEF g, n, c, e
    <2>3. g + n - c + e \in Int
      BY <2>1
    <2> QED
      BY <2>2, <2>3
  <1> QED
    BY <1>1, <1>2, <1>3, <1>4, <1>5

LEMMA Ranges ==
    /\ \A n : n = 0 => \A i \in 1 .. n : FALSE
    /\ \A n \in Nat : \A i \in 1 .. n + 1 : i \in 1 .. n \/ i = n + 1
    /\ \A n \in Nat : n > 0 /\ n # 1 => n > 1 /\ n - 1 \in 1 .. n - 1 /\ n - 1 + 1 = n
  OBVIOUS

LEMMA Marker == IsEnd \in Int /\ IsEnd \notin Nat
  BY DEF IsEnd

LEMMA EndingIs ==
    ASSUME NEW q, NEW out, out = q.out, out \in Seq(Int)
    PROVE  /\ (\A i \in 1 .. Len(out) : out[i] # IsEnd) => Ending(q) = 0
           /\ out = <<>> => Ending(q) = 0
           /\ Len(out) > 0 /\ out[Len(out)] = IsEnd => Ending(q) = 1
           /\ Len(out) > 0 /\ out[Len(out)] # IsEnd => Ending(q) = 0
  <1>1. Len(out) \in Nat /\ (out # <<>> => Len(out) \in 1 .. Len(out)) /\ (Len(out) > 0 => out # <<>>)
    OBVIOUS
  <1> QED
    BY <1>1 DEF Ending

LEMMA EmptyOut ==
    ASSUME NEW q, q.out \in Seq(Int)
    PROVE  q.out = <<>> <=> Len(q.out) = 0
  OBVIOUS

LEMMA GotFirst ==
    ASSUME NEW q, NEW d, NEW g \in Nat, NEW n \in Nat, NEW w \in Nat,
           Len(q.got) = g, Len(q.out) = n, Len(d.events) = w, n = 0 => q.out = <<>>
    PROVE  g <= Relayed(q, d)
  <1>1. CASE n = 0
    <2>1. Ending(q) = 0
      BY <1>1 DEF Ending
    <2>2. Relayed(q, d) = g + n - 0 + w
      BY <2>1 DEF Relayed
    <2> QED
      BY <2>2
  <1>2. CASE n > 0
    <2>1. PICK e : e = Ending(q) /\ e \in {0, 1}
      BY DEF Ending
    <2>2. Relayed(q, d) = g + n - e + w
      BY <2>1 DEF Relayed
    <2> QED
      BY <1>2, <2>1, <2>2
  <1> QED
    BY <1>1, <1>2

LEMMA Asked ==
    ASSUME NEW q, NEW o, NEW u, NEW d, Sound("off", q, o, u, d), q.end = "not asked"
    PROVE  /\ Sound("plan", [q EXCEPT !.end = "waiting", !.converter = "on"], o, u, d)
           /\ Sound("off", [q EXCEPT !.end = "error"], o, u, d)
  <1>1. q \in Request
    BY DEF Sound, TurnType
  <1>2. TurnType("plan", [q EXCEPT !.end = "waiting", !.converter = "on"], o, u, d)
        /\ TurnType("off", [q EXCEPT !.end = "error"], o, u, d)
    BY DEF Sound, TurnType, Request
  <1>3. Fits("plan", [q EXCEPT !.end = "waiting", !.converter = "on"], o, u, d)
        /\ Fits("off", [q EXCEPT !.end = "error"], o, u, d)
    <2>1. Fits("off", q, o, u, d) /\ q.out = <<>> /\ d.events = <<>> /\ d.end = "open"
      <3>1. Fits("off", q, o, u, d)
        BY DEF Sound
      <3>2. q.out = <<>> /\ d = Open
        BY <3>1 DEF Fits
      <3>3. d.events = <<>> /\ d.end = "open"
        BY <3>2 DEF Open
      <3> QED
        BY <3>1, <3>2, <3>3
    <2>2. ASSUME NEW q2, q2 = [q EXCEPT !.end = "waiting", !.converter = "on"]
          PROVE  Fits("plan", q2, o, u, d)
      <3>1. q2.end = "waiting" /\ q2.converter = "on" /\ q2.out = q.out /\ q2.got = q.got
        BY <1>1, <2>2 DEF Request
      <3> QED
        BY <2>1, <3>1 DEF Fits
    <2>3. ASSUME NEW q2, q2 = [q EXCEPT !.end = "error"]
          PROVE  Fits("off", q2, o, u, d)
      <3>1. q2.end = "error" /\ q2.converter = q.converter /\ q2.out = q.out /\ q2.got = q.got
        BY <1>1, <2>3 DEF Request
      <3> QED
        BY <2>1, <3>1 DEF Fits
    <2> QED
      BY <2>2, <2>3
  <1>4. InOrder("plan", [q EXCEPT !.end = "waiting", !.converter = "on"], o, u, d)
        /\ InOrder("off", [q EXCEPT !.end = "error"], o, u, d)
    BY <1>1 DEF Sound, Fits, InOrder, UnderWay, Request, Open, Relayed, Ending, Nth
  <1> QED
    BY <1>2, <1>3, <1>4 DEF Sound

\* The converter takes a chunk from the stream,
LEMMA Converted ==
    ASSUME NEW r, NEW q, NEW o, NEW u, NEW d, Sound(r, q, o, u, d),
           q.converter = "on", Len(q.out) < ChanCap, d.events # <<>>,
           NEW q2, q2 = [q EXCEPT !.out = Append(@, Head(d.events))],
           NEW d2, d2 = [d EXCEPT !.events = Tail(@)]
    PROVE  Sound(r, q2, o, u, d2)
  <1>1. q \in Request /\ d \in Wire /\ o \in Agent /\ q.out \in Seq(Int) /\ q.got \in Seq(Nat)
        /\ d.events \in Seq(Nat) /\ WireCap \in Nat /\ ChanCap \in Nat
    BY OrchestratorAssumption, ConversationAssumption DEF Sound, TurnType, Request, Wire
  <1>2. /\ Head(d.events) = d.events[1] /\ Head(d.events) \in Nat
        /\ Tail(d.events) \in Seq(Nat) /\ Len(Tail(d.events)) = Len(d.events) - 1
        /\ Len(d.events) \in Nat /\ Len(d.events) > 0
        /\ \A i \in 1 .. Len(d.events) - 1 : Tail(d.events)[i] = d.events[i + 1]
    BY <1>1
  <1>3. /\ q2.out \in Seq(Int) /\ Len(q2.out) = Len(q.out) + 1
        /\ \A i \in 1 .. Len(q.out) : q2.out[i] = q.out[i]
        /\ q2.out[Len(q.out) + 1] = d.events[1]
        /\ q2.end = q.end /\ q2.converter = q.converter /\ q2.got = q.got /\ q2 \in Request
    <2>1. q2.out = Append(q.out, d.events[1]) /\ q2.end = q.end /\ q2.converter = q.converter
          /\ q2.got = q.got
      BY <1>1, <1>2 DEF Request
    <2>2. d.events[1] \in Int
      BY <1>2
    <2>3. /\ q2.out \in Seq(Int) /\ Len(q2.out) = Len(q.out) + 1
          /\ \A i \in 1 .. Len(q.out) : q2.out[i] = q.out[i]
          /\ q2.out[Len(q.out) + 1] = d.events[1]
      BY <1>1, <2>1, <2>2, AppendProperties
    <2>4. q2 \in Request
      BY <1>1, <2>1, <2>3 DEF Request
    <2> QED
      BY <2>1, <2>3, <2>4
  <1>4. d2.events = Tail(d.events) /\ d2.end = d.end /\ d2 \in Wire
    BY <1>1, <1>2 DEF Wire
  <1>5. TurnType(r, q2, o, u, d2)
    BY <1>1, <1>2, <1>3, <1>4, SMTT(40) DEF Sound, TurnType
  <1>6. r \notin {"off", "plan"}
    BY DEF Sound, Fits
  <1>7. Fits(r, q2, o, u, d2)
    BY <1>1, <1>2, <1>3, <1>4, <1>6 DEF Sound, Fits
  <1>8. InOrder(r, q2, o, u, d2)
    <2> SUFFICES ASSUME q.end # "left" PROVE UnderWay(r, q2, o, u, d2)
      BY <1>3 DEF Sound, InOrder, Nth
    <2>1. UnderWay(r, q, o, u, d)
      BY DEF Sound, InOrder
    <2>2. \A i \in 1 .. Len(q.out) : q.out[i] # IsEnd
      BY <2>1 DEF UnderWay
    <2>3. Ending(q) = 0 /\ Ending(q2) = 0
      <3>1. d.events[1] # IsEnd /\ Len(q2.out) > 0 /\ q2.out[Len(q2.out)] = d.events[1]
        BY <1>1, <1>2, <1>3, Marker, Lengths, SMTT(40) DEF Sound
      <3>2. q.out \in Seq(Int) /\ q2.out \in Seq(Int)
        BY <1>1, <1>3
      <3>3. Ending(q) = 0
        BY <2>2, <3>2, EndingIs
      <3>4. q2.out[Len(q2.out)] # IsEnd
        BY <3>1
      <3> QED
        BY <3>1, <3>2, <3>3, <3>4, EndingIs
    <2>4. Relayed(q2, d2) = Relayed(q, d)
      <3> DEFINE g == Len(q.got)
                 n == Len(q.out)
                 e == Len(d.events)
      <3>1. g \in Nat /\ n \in Nat /\ e \in Nat /\ Len(q2.got) = g /\ Len(q2.out) = n + 1
            /\ Len(d2.events) = e - 1
        BY <1>1, <1>2, <1>3, <1>4, SMTT(40)
      <3> HIDE DEF g, n, e
      <3>2. Relayed(q, d) = g + n - 0 + e /\ Relayed(q2, d2) = g + (n + 1) - 0 + (e - 1)
        BY <2>3, <3>1 DEF Relayed, g, n, e
      <3> QED
        BY <3>1, <3>2
    <2>5. \A i \in 1 .. Len(q2.out) :
             IF q2.out[i] = IsEnd THEN i = Len(q2.out) /\ q2.converter = "returned"
             ELSE q2.out[i] = Nth(o, Len(q2.got) + i)
      <3>1. d.events[1] = Nth(o, Len(q.got) + Len(q.out) + 1)
        <4>1. 1 \in 1 .. Len(d.events)
          BY <1>2
        <4> QED
          BY <2>1, <4>1 DEF UnderWay
      <3>2. Len(q.out) \in Nat /\ Len(q.got) \in Nat
        BY <1>1
      <3>3. d.events[1] # IsEnd
        BY <1>2, Marker
      <3> SUFFICES ASSUME NEW i \in 1 .. Len(q.out) + 1
                   PROVE  q2.out[i] # IsEnd /\ q2.out[i] = Nth(o, Len(q.got) + i)
        BY <1>3
      <3>4. CASE i = Len(q.out) + 1
        <4>1. Len(q.got) + i = Len(q.got) + Len(q.out) + 1
          <5> DEFINE g == Len(q.got)
                     n == Len(q.out)
          <5>1. g \in Nat /\ n \in Nat /\ i = n + 1
            BY <3>2, <3>4
          <5> HIDE DEF g, n
          <5>2. g + i = g + n + 1
            BY <5>1
          <5> QED
            BY <5>2 DEF g, n
        <4> QED
          BY <1>3, <3>1, <3>3, <3>4, <4>1
      <3>5. CASE i # Len(q.out) + 1
        <4>1. i \in 1 .. Len(q.out)
          BY <3>2, <3>5
        <4> QED
          BY <1>3, <2>1, <2>2, <4>1 DEF UnderWay
      <3> QED
        BY <3>4, <3>5
    <2>6. \A i \in 1 .. Len(d2.events) : d2.events[i] = Nth(o, Len(q2.got) + Len(q2.out) + i)
      <3> SUFFICES ASSUME NEW i \in 1 .. Len(d2.events)
                   PROVE  d2.events[i] = Nth(o, Len(q2.got) + Len(q2.out) + i)
        OBVIOUS
      <3>1. i \in 1 .. Len(d.events) - 1 /\ i + 1 \in 1 .. Len(d.events)
        BY <1>2, <1>4, SMTT(40)
      <3>2. d2.events[i] = d.events[i + 1]
        BY <1>2, <1>4, <3>1
      <3>3. d.events[i + 1] = Nth(o, Len(q.got) + Len(q.out) + (i + 1))
        BY <2>1, <3>1 DEF UnderWay
      <3>4. Len(q.got) + Len(q.out) + (i + 1) = Len(q2.got) + Len(q2.out) + i
        <4>1. Len(q.got) \in Int /\ Len(q.out) \in Int /\ i \in Int
              /\ Len(q2.got) = Len(q.got) /\ Len(q2.out) = Len(q.out) + 1
          BY <1>1, <1>3
        <4> DEFINE g == Len(q.got)
                   n == Len(q.out)
        <4>2. g \in Int /\ n \in Int /\ i \in Int /\ Len(q2.got) = g /\ Len(q2.out) = n + 1
          BY <4>1
        <4> HIDE DEF g, n
        <4>3. g + n + (i + 1) = g + (n + 1) + i
          BY <4>2
        <4> QED
          BY <4>2, <4>3 DEF g, n
      <3> QED
        BY <3>2, <3>3, <3>4, <1>3
    <2> QED
      BY <1>4, <2>1, <2>4, <2>5, <2>6 DEF UnderWay
  <1> QED
    BY <1>5, <1>7, <1>8 DEF Sound

\* or its end.
LEMMA ConvertedEnd ==
    ASSUME NEW r, NEW q, NEW o, NEW u, NEW d, Sound(r, q, o, u, d),
           q.converter = "on", Len(q.out) < ChanCap, d.events = <<>>, d.end # "open",
           NEW q2, q2 = [q EXCEPT !.out = Append(@, IsEnd), !.converter = "returned"]
    PROVE  Sound(r, q2, o, u, d)
  <1>1. q \in Request /\ d \in Wire /\ q.out \in Seq(Int) /\ q.got \in Seq(Nat)
        /\ ChanCap \in Nat /\ IsEnd \in Int /\ Len(d.events) = 0
    BY ConversationAssumption, Marker DEF Sound, TurnType, Request, Wire
  <1>3. /\ q2.out \in Seq(Int) /\ Len(q2.out) = Len(q.out) + 1
        /\ \A i \in 1 .. Len(q.out) : q2.out[i] = q.out[i]
        /\ q2.out[Len(q.out) + 1] = IsEnd
        /\ q2.end = q.end /\ q2.converter = "returned" /\ q2.got = q.got /\ q2 \in Request
    <2>1. q2.out = Append(q.out, IsEnd) /\ q2.end = q.end /\ q2.converter = "returned"
          /\ q2.got = q.got
      BY <1>1 DEF Request
    <2>3. /\ q2.out \in Seq(Int) /\ Len(q2.out) = Len(q.out) + 1
          /\ \A i \in 1 .. Len(q.out) : q2.out[i] = q.out[i]
          /\ q2.out[Len(q.out) + 1] = IsEnd
      BY <1>1, <2>1, AppendProperties
    <2>4. q2 \in Request
      BY <1>1, <2>1, <2>3 DEF Request
    <2> QED
      BY <2>1, <2>3, <2>4
  <1>4. Len(q.out) \in Nat /\ Len(q.got) \in Nat
    BY <1>1
  <1>5. TurnType(r, q2, o, u, d)
    BY <1>1, <1>3, <1>4 DEF Sound, TurnType
  <1>7. Fits(r, q2, o, u, d)
    <2>1. \A i \in DOMAIN q2.out : i \in DOMAIN q.out \/ q2.out[i] = IsEnd
      BY <1>1, <1>3, <1>4
    <2>2. Fits(r, q, o, u, d) /\ r # "off"
      BY DEF Sound, Fits
    <2>3. r = "plan" => \A i \in DOMAIN q2.out : q2.out[i] = IsEnd
      <3>1. r = "plan" => \A i \in DOMAIN q.out : q.out[i] = IsEnd
        BY <2>2 DEF Fits
      <3>2. DOMAIN q.out = 1 .. Len(q.out)
        BY <1>1
      <3> QED
        BY <1>3, <2>1, <3>1, <3>2
    <2> QED
      BY <1>1, <1>3, <2>2, <2>3 DEF Fits
  <1>8. InOrder(r, q2, o, u, d)
    <2> SUFFICES ASSUME q.end # "left" PROVE UnderWay(r, q2, o, u, d)
      BY <1>3 DEF Sound, InOrder, Nth
    <2>1. UnderWay(r, q, o, u, d)
      BY DEF Sound, InOrder
    <2>2. \A i \in 1 .. Len(q.out) : q.out[i] # IsEnd
      BY <2>1 DEF UnderWay
    <2>3. Ending(q) = 0 /\ Ending(q2) = 1
      <3>1. Len(q2.out) > 0 /\ q2.out[Len(q2.out)] = IsEnd
        BY <1>3, <1>4
      <3>2. Ending(q2) = 1
        BY <1>3, <3>1, EndingIs
      <3> QED
        BY <1>1, <2>2, <3>2, EndingIs
    <2>4. Relayed(q2, d) = Relayed(q, d)
      BY <1>1, <1>3, <1>4, <2>3 DEF Relayed
    <2>5. \A i \in 1 .. Len(q2.out) :
             IF q2.out[i] = IsEnd THEN i = Len(q2.out) /\ q2.converter = "returned"
             ELSE q2.out[i] = Nth(o, Len(q2.got) + i)
      BY <1>3, <1>4, <2>1, <2>2 DEF UnderWay
    <2>6. \A i \in 1 .. Len(d.events) : d.events[i] = Nth(o, Len(q2.got) + Len(q2.out) + i)
      BY <1>1
    <2> QED
      BY <2>1, <2>4, <2>5, <2>6 DEF UnderWay
  <1> QED
    BY <1>5, <1>7, <1>8 DEF Sound

\* What is left of the channel, and what is collected.
TakenFrom(q, q2) ==
    /\ q2.out \in Seq(Int) /\ Len(q2.out) = Len(q.out) - 1
    /\ \A i \in 1 .. Len(q.out) - 1 : q2.out[i] = q.out[i + 1]
    /\ q2.got \in Seq(Nat)
    /\ q.out[1] = IsEnd => q2.got = q.got
    /\ q.out[1] # IsEnd => /\ Len(q2.got) = Len(q.got) + 1 /\ q2.got[Len(q.got) + 1] = q.out[1]
                           /\ \A i \in 1 .. Len(q.got) : q2.got[i] = q.got[i]

LEMMA Collected ==
    ASSUME NEW r, NEW q, NEW o, NEW u, NEW d, Sound(r, q, o, u, d), q.end # "left", q.out # <<>>,
           NEW q2, q2.out = Tail(q.out), q2.got = q.got \o TextOf(Head(q.out))
    PROVE  TakenFrom(q, q2) /\ Head(q.out) = q.out[1]
  <1>1. q.out \in Seq(Int) /\ q.got \in Seq(Nat)
    BY DEF Sound, TurnType, Request
  <1>2. /\ Head(q.out) = q.out[1] /\ q2.out \in Seq(Int) /\ 1 \in 1 .. Len(q.out) /\ Len(q.got) \in Nat
        /\ Len(q2.out) = Len(q.out) - 1
        /\ \A i \in 1 .. Len(q.out) - 1 : q2.out[i] = q.out[i + 1]
    BY <1>1
  <1>3. CASE Head(q.out) = IsEnd
    <2>1. TextOf(Head(q.out)) = <<>>
      BY <1>3 DEF TextOf
    <2>2. q2.got = q.got
      BY <1>1, <2>1, ConcatEmptySeq
    <2> QED
      BY <1>1, <1>2, <1>3, <2>2 DEF TakenFrom
  <1>4. CASE Head(q.out) # IsEnd
    <2>1. q.out[1] = Nth(o, Len(q.got) + 1)
      BY <1>2, <1>4 DEF Sound, InOrder, UnderWay
    <2>2. Head(q.out) \in Nat
      BY <1>2, <2>1 DEF Nth, Apology
    <2>3. TextOf(Head(q.out)) = <<Head(q.out)>>
      BY <1>4 DEF TextOf
    <2>4. q2.got = Append(q.got, Head(q.out))
      BY <1>1, <2>2, <2>3, AppendIsConcat
    <2>5. /\ q2.got \in Seq(Nat) /\ Len(q2.got) = Len(q.got) + 1
          /\ q2.got[Len(q.got) + 1] = Head(q.out)
          /\ \A i \in 1 .. Len(q.got) : q2.got[i] = q.got[i]
      <3>1. PICK item \in Nat : item = Head(q.out)
        BY <2>2
      <3>2. q2.got = Append(q.got, item)
        BY <2>4, <3>1
      <3>3. /\ Append(q.got, item) \in Seq(Nat) /\ Len(Append(q.got, item)) = Len(q.got) + 1
            /\ Append(q.got, item)[Len(q.got) + 1] = item
            /\ \A i \in 1 .. Len(q.got) : Append(q.got, item)[i] = q.got[i]
        BY <1>1, AppendProperties
      <3> QED
        BY <3>1, <3>2, <3>3
    <2> QED
      BY <1>2, <1>4, <2>5 DEF TakenFrom
  <1> QED
    BY <1>2, <1>3, <1>4

\* The handler takes an item from the channel; the end may end the request.
LEMMA Handled ==
    ASSUME NEW r, NEW q, NEW o, NEW u, NEW d, Sound(r, q, o, u, d),
           q.end = "waiting", q.out # <<>>,
           NEW q2 \in Request, q2.converter = q.converter, TakenFrom(q, q2),
           q2.end = "waiting" \/ (q.out[1] = IsEnd /\ q2.end = "stop")
    PROVE  Sound(r, q2, o, u, d)
  <1>1. PICK n, g, w : n = Len(q.out) /\ g = Len(q.got) /\ w = Len(d.events)
    OBVIOUS
  <1>2. /\ q.out \in Seq(Int) /\ n \in Nat /\ n > 0 /\ g \in Nat /\ w \in Nat /\ ChanCap \in Nat
        /\ n <= ChanCap /\ o.sent \in Nat
    <2>1. q.out \in Seq(Int) /\ ChanCap \in Nat /\ n \in Nat /\ g \in Nat /\ w \in Nat /\ n <= ChanCap
          /\ o.sent \in Nat
      BY <1>1, Lengths, ConversationAssumption DEF Sound, TurnType, Request
    <2>2. n # 0
      BY <1>1, <2>1, EmptyOut
    <2> QED
      BY <2>1, <2>2
  <1>3. /\ q2.out \in Seq(Int) /\ Len(q2.out) = n - 1
        /\ \A i \in 1 .. n - 1 : q2.out[i] = q.out[i + 1]
        /\ q2.got \in Seq(Nat)
        /\ q.out[1] = IsEnd => q2.got = q.got
        /\ q.out[1] # IsEnd => /\ Len(q2.got) = g + 1 /\ q2.got[g + 1] = q.out[1]
                               /\ \A i \in 1 .. g : q2.got[i] = q.got[i]
    BY <1>1 DEF TakenFrom
  <1>4. UnderWay(r, q, o, u, d) /\ r # "off" /\ Fits(r, q, o, u, d)
    BY DEF Sound, Fits, InOrder
  <1>5. /\ \A i \in 1 .. n : IF q.out[i] = IsEnd THEN i = n /\ q.converter = "returned"
                             ELSE q.out[i] = Nth(o, g + i)
        /\ \A i \in 1 .. w : d.events[i] = Nth(o, g + n + i)
        /\ Relayed(q, d) <= IF o.at = "off" THEN 1 ELSE o.sent
    BY <1>1, <1>4 DEF UnderWay
  <1>6. q.out[1] = IsEnd => n = 1 /\ q.converter = "returned" /\ w = 0
    <2>1. 1 \in 1 .. n
      BY <1>2
    <2>2. q.converter = "returned" => w = 0
      BY <1>1, <1>4 DEF Fits
    <2> QED
      BY <1>5, <2>1, <2>2
  <1>7. TurnType(r, q2, o, u, d)
    <2>1. Len(q2.out) <= ChanCap
      BY <1>2, <1>3
    <2> QED
      BY <2>1 DEF Sound, TurnType
  <1>8. n = 1 => q2.out = <<>>
    BY <1>3, EmptyOut
  <1>9. r = "plan" => q.out[1] = IsEnd
    <2>1. r = "plan" => \A i \in DOMAIN q.out : q.out[i] = IsEnd
      BY <1>4 DEF Fits
    <2>2. 1 \in DOMAIN q.out
      BY <1>1, <1>2
    <2> QED
      BY <2>1, <2>2
  <1>10. Fits(r, q2, o, u, d)
    <2>1. r = "plan" => q2.out = <<>> /\ q2.got = q.got
      BY <1>3, <1>6, <1>8, <1>9
    <2>2. r = "plan" => \A i \in DOMAIN q2.out : q2.out[i] = IsEnd
      BY <2>1
    <2>3. q2.end = "stop" => q2.converter = "returned" /\ q2.out = <<>>
      BY <1>6, <1>8
    <2> QED
      BY <1>4, <2>1, <2>2, <2>3 DEF Fits
  <1>11. Relayed(q2, d) = Relayed(q, d)
    <2>1. CASE q.out[1] = IsEnd
      <3>1. Ending(q) = 1 /\ Ending(q2) = 0 /\ Len(q2.got) = g
        BY <1>1, <1>2, <1>3, <1>6, <1>8, <2>1, EndingIs
      <3>2. Relayed(q, d) = g + n - 1 + w /\ Relayed(q2, d) = g + (n - 1) - 0 + w
        BY <1>1, <1>3, <3>1 DEF Relayed
      <3> QED
        BY <1>2, <3>2
    <2>2. CASE q.out[1] # IsEnd
      <3>1. PICK e \in {0, 1} : e = Ending(q)
        BY DEF Ending
      <3>2. Ending(q2) = e
        <4>1. CASE n = 1
          <5>1. q.out[n] # IsEnd /\ Len(q.out) > 0
            BY <1>1, <1>2, <2>2, <4>1
          <5>2. Ending(q) = 0
            BY <1>1, <1>2, <5>1, EndingIs
          <5>3. Ending(q2) = 0
            BY <1>8, <4>1 DEF Ending
          <5> QED
            BY <3>1, <5>2, <5>3
        <4>2. CASE n # 1
          <5>1. n - 1 \in 1 .. n - 1 /\ n - 1 + 1 = n
            BY <1>2, <4>2
          <5>2. q2.out[Len(q2.out)] = q.out[n] /\ Len(q2.out) > 0 /\ Len(q.out) > 0
            <6>1. q2.out[n - 1] = q.out[n - 1 + 1]
              BY <1>3, <5>1
            <6> QED
              BY <1>1, <1>2, <1>3, <5>1, <6>1
          <5>3. CASE q.out[n] = IsEnd
            <6>1. Ending(q2) = 1
              BY <1>3, <5>2, <5>3, EndingIs
            <6>2. Ending(q) = 1
              BY <1>1, <1>2, <5>2, <5>3, EndingIs
            <6> QED
              BY <3>1, <6>1, <6>2
          <5>4. CASE q.out[n] # IsEnd
            <6>1. Ending(q2) = 0
              BY <1>3, <5>2, <5>4, EndingIs
            <6>2. Ending(q) = 0
              BY <1>1, <1>2, <5>2, <5>4, EndingIs
            <6> QED
              BY <3>1, <6>1, <6>2
          <5> QED
            BY <5>3, <5>4
        <4> QED
          BY <4>1, <4>2
      <3>3. Relayed(q, d) = g + n - e + w /\ Relayed(q2, d) = (g + 1) + (n - 1) - e + w
        BY <1>1, <1>3, <2>2, <3>1, <3>2 DEF Relayed
      <3> QED
        BY <1>2, <3>3
    <2> QED
      BY <2>1, <2>2
  <1>12. \A i \in 1 .. Len(q2.got) : q2.got[i] = Nth(o, i)
    <2>1. \A i \in 1 .. g : q.got[i] = Nth(o, i)
      BY <1>1 DEF Sound, InOrder
    <2>2. CASE q.out[1] = IsEnd
      BY <1>1, <1>3, <2>1, <2>2
    <2>3. CASE q.out[1] # IsEnd
      <3>1. 1 \in 1 .. n
        BY <1>2
      <3>2. q.out[1] = Nth(o, g + 1)
        BY <1>5, <2>3, <3>1
      <3>3. \A i \in 1 .. g + 1 : i \in 1 .. g \/ i = g + 1
        BY <1>2
      <3> QED
        BY <1>3, <2>1, <2>3, <3>2, <3>3
    <2> QED
      BY <2>2, <2>3
  <1>13. Len(q2.got) <= IF o.at = "off" THEN 1 ELSE o.sent
    <2>1. PICK k, j : k = Len(q2.got) /\ j = Relayed(q2, d)
      OBVIOUS
    <2>2. k \in Nat /\ n - 1 \in Nat /\ (n - 1 = 0 => q2.out = <<>>)
      BY <1>2, <1>3, <1>8, <2>1
    <2>3. k <= j /\ j \in Int
      BY <1>1, <1>2, <1>3, <1>7, <2>1, <2>2, GotFirst, Lengths
    <2>4. j <= IF o.at = "off" THEN 1 ELSE o.sent
      BY <1>5, <1>11, <2>1
    <2> QED
      BY <1>2, <2>1, <2>2, <2>3, <2>4
  <1>14. \A i \in 1 .. Len(q2.out) :
            IF q2.out[i] = IsEnd THEN i = Len(q2.out) /\ q2.converter = "returned"
            ELSE q2.out[i] = Nth(o, Len(q2.got) + i)
    <2>1. CASE n = 1
      <3>1. \A i \in 1 .. Len(q2.out) : FALSE
        BY <1>3, <2>1, Ranges
      <3> QED
        BY <3>1
    <2>2. CASE n # 1
      <3>1. Len(q2.got) = g + 1
        BY <1>3, <1>6, <2>2
      <3> SUFFICES ASSUME NEW i \in 1 .. n - 1
                   PROVE  IF q.out[i + 1] = IsEnd THEN i = n - 1 /\ q.converter = "returned"
                          ELSE q.out[i + 1] = Nth(o, (g + 1) + i)
        BY <1>3, <3>1
      <3>2. i + 1 \in 1 .. n /\ (i + 1 = n => i = n - 1) /\ g + (i + 1) = (g + 1) + i
        BY <1>2
      <3> QED
        BY <1>5, <3>2
    <2> QED
      BY <2>1, <2>2
  <1>15. \A i \in 1 .. w : d.events[i] = Nth(o, Len(q2.got) + Len(q2.out) + i)
    <2>1. CASE q.out[1] = IsEnd
      <3>1. \A i \in 1 .. w : FALSE
        BY <1>6, <2>1, Ranges
      <3> QED
        BY <3>1
    <2>2. CASE q.out[1] # IsEnd
      <3>1. Len(q2.got) = g + 1 /\ Len(q2.out) = n - 1 /\ (g + 1) + (n - 1) = g + n
        BY <1>2, <1>3, <2>2
      <3>2. Len(q2.got) + Len(q2.out) = g + n
        BY <3>1
      <3> QED
        BY <1>5, <3>2
    <2> QED
      BY <2>1, <2>2
  <1>16. UnderWay(r, q2, o, u, d)
    BY <1>1, <1>4, <1>11, <1>14, <1>15 DEF UnderWay
  <1>17. InOrder(r, q2, o, u, d)
    BY <1>12, <1>13, <1>16 DEF InOrder
  <1> QED
    BY <1>7, <1>10, <1>17 DEF Sound

\* A client that cannot be written to has left.
LEMMA GoneAway ==
    ASSUME NEW r, NEW q, NEW o, NEW u, NEW d, Sound(r, q, o, u, d),
           q.end = "waiting", q.out # <<>>,
           NEW q2, q2 = [q EXCEPT !.out = Tail(@), !.end = "left"]
    PROVE  Sound(r, q2, o, u, d)
  <1>1. q \in Request /\ q.out \in Seq(Int) /\ ChanCap \in Nat
    BY ConversationAssumption DEF Sound, TurnType, Request
  <1>2. /\ Tail(q.out) \in Seq(Int) /\ Len(q.out) \in Nat /\ Len(Tail(q.out)) = Len(q.out) - 1
        /\ \A i \in 1 .. Len(q.out) - 1 : Tail(q.out)[i] = q.out[i + 1]
    BY <1>1
  <1>3. /\ q2 \in Request /\ q2.out = Tail(q.out) /\ q2.end = "left"
        /\ q2.converter = q.converter /\ q2.got = q.got
    BY <1>1, <1>2 DEF Request
  <1>4. TurnType(r, q2, o, u, d)
    <2>1. Len(q2.out) <= ChanCap
      BY <1>1, <1>2, <1>3 DEF Sound, TurnType
    <2> QED
      BY <1>3, <2>1 DEF Sound, TurnType
  <1>5. Fits(r, q2, o, u, d)
    <2>1. Fits(r, q, o, u, d) /\ r # "off"
      BY DEF Sound, Fits
    <2>2. ASSUME r = "plan", NEW i \in DOMAIN q2.out PROVE q2.out[i] = IsEnd
      <3>1. \A j \in DOMAIN q.out : q.out[j] = IsEnd
        BY <2>1, <2>2 DEF Fits
      <3>2. i + 1 \in DOMAIN q.out /\ q2.out[i] = q.out[i + 1]
        BY <1>1, <1>2, <1>3
      <3> QED
        BY <3>1, <3>2
    <2> QED
      BY <1>3, <2>1, <2>2 DEF Fits
  <1>6. InOrder(r, q2, o, u, d)
    BY <1>3 DEF Sound, InOrder
  <1> QED
    BY <1>4, <1>5, <1>6 DEF Sound

\* The channel is closed and empty.
LEMMA Stopped ==
    ASSUME NEW r, NEW q, NEW o, NEW u, NEW d, Sound(r, q, o, u, d),
           q.end = "waiting", q.out = <<>>, q.converter = "returned",
           NEW q2, q2 = [q EXCEPT !.end = "stop"]
    PROVE  Sound(r, q2, o, u, d)
  <1>1. q \in Request
    BY DEF Sound, TurnType
  <1>2. /\ q2 \in Request /\ q2.out = q.out /\ q2.end = "stop"
        /\ q2.converter = q.converter /\ q2.got = q.got
    BY <1>1 DEF Request
  <1>3. TurnType(r, q2, o, u, d)
    BY <1>2 DEF Sound, TurnType
  <1>4. Fits(r, q2, o, u, d)
    <2>1. Fits(r, q, o, u, d) /\ r # "off"
      BY DEF Sound, Fits
    <2> QED
      BY <1>2, <2>1 DEF Fits
  <1>5. InOrder(r, q2, o, u, d)
    <2>1. Relayed(q2, d) = Relayed(q, d)
      BY <1>2 DEF Relayed, Ending
    <2>2. UnderWay(r, q2, o, u, d)
      BY <1>2, <2>1, ZenonT(60) DEF Sound, InOrder, UnderWay
    <2> QED
      BY <1>2, <2>2 DEF Sound, InOrder
  <1> QED
    BY <1>3, <1>4, <1>5 DEF Sound

(***************************************************************************)
(* The agent's side of a turn                                              *)
(***************************************************************************)

\* An agent goes on without a word.
LEMMA Silent ==
    ASSUME NEW r, NEW q, NEW o, NEW u, NEW d, Sound(r, q, o, u, d),
           NEW o2, Sensible(o2), o.at \in Working, o2.at \in Working, o2.sent = o.sent
    PROVE  Sound(r, q, o2, u, d)
  <1>1. o.at \notin {"off", "store", "remember", "done"} /\ o2.at \notin {"off", "store", "remember", "done"}
    BY DEF Working
  <1>2. TurnType(r, q, o2, u, d)
    BY DEF Sound, TurnType, Sensible
  <1>3. Fits(r, q, o2, u, d)
    BY <1>1 DEF Sound, Fits, Sensible
  <1>4. InOrder(r, q, o2, u, d)
    BY <1>1 DEF Sound, InOrder, UnderWay, Nth
  <1> QED
    BY <1>2, <1>3, <1>4 DEF Sound

\* What is published reaches the stream, unless that is over.
LEMMA Published ==
    ASSUME NEW u \in Wire, NEW n \in Nat, Room(u), Len(u.events) <= WireCap,
           NEW u2, u2 = Publish(u, n)
    PROVE  /\ u2 \in Wire /\ u2.end = u.end /\ Len(u2.events) <= WireCap
           /\ u.end # "open" => u2 = u
           /\ u.end = "open" =>
                /\ Len(u2.events) = Len(u.events) + 1 /\ u2.events[Len(u.events) + 1] = n
                /\ \A i \in 1 .. Len(u.events) : u2.events[i] = u.events[i]
  <1>1. CASE u.end # "open"
    BY <1>1 DEF Publish
  <1>2. CASE u.end = "open"
    <2>1. u2.events = Append(u.events, n) /\ u2.end = u.end /\ u.events \in Seq(Nat)
      BY <1>2 DEF Publish, Wire
    <2>2. /\ u2.events \in Seq(Nat) /\ Len(u2.events) = Len(u.events) + 1
          /\ u2.events[Len(u.events) + 1] = n
          /\ \A i \in 1 .. Len(u.events) : u2.events[i] = u.events[i]
      BY <2>1, AppendProperties
    <2>3. u2 \in Wire
      BY <1>2, <2>1, <2>2 DEF Wire, Publish
    <2>4. Len(u2.events) <= WireCap
      <3>1. Len(u.events) \in Nat /\ WireCap \in Nat /\ Len(u.events) < WireCap
        BY <1>2, <2>1, OrchestratorAssumption DEF Room
      <3> QED
        BY <2>2, <3>1
    <2> QED
      BY <1>2, <2>1, <2>2, <2>3, <2>4
  <1> QED
    BY <1>1, <1>2

\* An agent goes on and says something.
LEMMA Said ==
    ASSUME NEW r, NEW q, NEW o, NEW u, NEW d, Sound(r, q, o, u, d), Room(u),
           NEW o2, Sensible(o2), o.at \in Working, o2.at \in Working, o2.sent = o.sent + 1,
           NEW u2, u2 = Publish(u, o.sent + 1)
    PROVE  Sound(r, q, o2, u2, d)
  <1>1. o.at \notin {"off", "store", "remember", "done"} /\ o2.at \notin {"off", "store", "remember", "done"}
    BY DEF Working
  <1>2. o \in Agent /\ o.sent \in Nat /\ u \in Wire /\ Len(u.events) <= WireCap /\ o.sent + 1 \in Nat
    BY DEF Sound, TurnType, Agent
  <1>3. /\ u2 \in Wire /\ u2.end = u.end /\ Len(u2.events) <= WireCap
        /\ u.end # "open" => u2 = u
        /\ u.end = "open" =>
             /\ Len(u2.events) = Len(u.events) + 1 /\ u2.events[Len(u.events) + 1] = o.sent + 1
             /\ \A i \in 1 .. Len(u.events) : u2.events[i] = u.events[i]
    BY <1>2, Published
  <1>4. TurnType(r, q, o2, u2, d)
    BY <1>3 DEF Sound, TurnType, Sensible
  <1>5. Fits(r, q, o2, u2, d)
    BY <1>1, <1>3 DEF Sound, Fits, Sensible
  <1>6. InOrder(r, q, o2, u2, d)
    <2>1. Len(q.got) <= o2.sent
      BY <1>1, <1>2, Lengths DEF Sound, InOrder
    <2> SUFFICES ASSUME q.end # "left" PROVE UnderWay(r, q, o2, u2, d)
      BY <1>1, <2>1 DEF Sound, InOrder, Nth
    <2>2. UnderWay(r, q, o, u, d)
      BY DEF Sound, InOrder
    <2>3. Relayed(q, d) <= o2.sent
      BY <1>1, <1>2, <2>2, Lengths DEF UnderWay, Sound
    <2>4. ~(d.end = "complete")
      BY <1>1, <2>2 DEF UnderWay
    <2>5. ASSUME r = "relay", d.end = "open"
          PROVE  /\ \A i \in 1 .. Len(u2.events) : u2.events[i] = Relayed(q, d) + i
                 /\ Relayed(q, d) + Len(u2.events) <= o2.sent
                 /\ u2.end # "broken" => Relayed(q, d) + Len(u2.events) = o2.sent
      <3> DEFINE n == Len(u.events)
                 m == Relayed(q, d)
      <3>1. /\ \A i \in 1 .. n : u.events[i] = m + i
            /\ m + n <= o.sent
            /\ u.end # "broken" => m + n = o.sent
        BY <2>2, <2>5 DEF UnderWay
      <3>2. n \in Nat /\ m \in Int
        BY Lengths DEF Sound
      <3>3. CASE u.end # "open"
        <4>1. u.end = "broken" /\ u2 = u
          BY <1>1, <1>3, <3>3 DEF Sound, Fits, TurnType, Wire, Ends
        <4> HIDE DEF m, n
        <4>2. m + n <= o2.sent
          BY <1>2, <3>1, <3>2
        <4> QED
          BY <3>1, <4>1, <4>2 DEF m, n
      <3>4. CASE u.end = "open"
        <4>1. /\ Len(u2.events) = n + 1 /\ u2.events[n + 1] = o.sent + 1
              /\ \A i \in 1 .. n : u2.events[i] = u.events[i]
          BY <1>3, <3>4
        <4>2. m + n = o.sent
          BY <3>1, <3>4
        <4> HIDE DEF m, n
        <4>3. o.sent + 1 = m + (n + 1)
          BY <1>2, <3>2, <4>2
        <4>4. \A i \in 1 .. n + 1 : i \in 1 .. n \/ i = n + 1
          BY <3>2
        <4>5. \A i \in 1 .. n + 1 : u2.events[i] = m + i
          BY <3>1, <4>1, <4>3, <4>4
        <4>6. m + (n + 1) = o2.sent /\ m + (n + 1) <= o2.sent
          BY <1>2, <4>3
        <4>7. m = Relayed(q, d) /\ Len(u2.events) = n + 1
          BY <4>1 DEF m
        <4> QED
          BY <4>5, <4>6, <4>7
      <3> QED
        BY <3>3, <3>4
    <2> QED
      BY <1>1, <2>2, <2>3, <2>4, <2>5 DEF UnderWay, Nth
  <1> QED
    BY <1>4, <1>5, <1>6 DEF Sound

\* Ending a stream that is open.
LEMMA EndedStream ==
    ASSUME NEW u \in Wire, NEW how \in {"complete", "closed", "broken"}, NEW u2, u2 = End(u, how)
    PROVE  /\ u2 \in Wire /\ u2.events = u.events /\ u2.end # "open"
           /\ u2.end = IF u.end = "open" THEN how ELSE u.end
  <1>1. CASE u.end = "open"
    BY <1>1 DEF End, Wire, Ends
  <1>2. CASE u.end # "open"
    BY <1>2 DEF End
  <1> QED
    BY <1>1, <1>2

\* An agent ends, or loses, its stream: what it sent before stays on its way.
LEMMA Closed ==
    ASSUME NEW r, NEW q, NEW o, NEW u, NEW d, Sound(r, q, o, u, d),
           NEW o2, Sensible(o2), o.at \in Working \union {"store", "remember"},
           o2.at \in {"store", "remember", "done"}, o2.sent = o.sent,
           NEW u2 \in Wire, u2.events = u.events, u2.end # "open",
           o2.at # "done" => u2.end # "closed",
           u.end = "complete" => u2.end \in {"complete", "broken"},
           u.end = "broken" => u2.end = "broken"
    PROVE  Sound(r, q, o2, u2, d)
  <1>1. o.at # "off" /\ o2.at # "off" /\ o2.at # "tasks"
    BY DEF Working
  <1>2. TurnType(r, q, o2, u2, d)
    BY DEF Sound, TurnType, Sensible
  <1>3. Fits(r, q, o2, u2, d)
    <2>1. u2.end \in {"complete", "closed", "broken"}
      BY DEF Wire, Ends
    <2> QED
      BY <1>1, <2>1 DEF Sound, Fits
  <1>4. InOrder(r, q, o2, u2, d)
    <2>1. u2.end # "broken" => u.end # "broken"
      OBVIOUS
    <2> QED
      BY <1>1, <2>1 DEF Sound, InOrder, UnderWay, Nth
  <1> QED
    BY <1>2, <1>3, <1>4 DEF Sound

\* The answer is over, or the agent apologised and has nothing to store.
LEMMA Completed ==
    ASSUME NEW r, NEW q, NEW o, NEW u, NEW d, Sound(r, q, o, u, d),
           NEW o2, Sensible(o2), o.at \in Working, o2.at \in {"store", "done"}, o2.sent = o.sent,
           NEW u2, u2 = End(u, "complete")
    PROVE  Sound(r, q, o2, u2, d)
  <1>1. u \in Wire /\ u.end \in {"open", "broken"}
    BY DEF Working, Sound, TurnType, Fits, Wire, Ends
  <1>2. "complete" \in {"complete", "closed", "broken"}
    OBVIOUS
  <1>3. /\ u2 \in Wire /\ u2.events = u.events /\ u2.end # "open"
        /\ u2.end = IF u.end = "open" THEN "complete" ELSE u.end
    BY <1>1, <1>2, EndedStream
  <1> QED
    BY <1>1, <1>3, Closed

LEMMA Apologised ==
    ASSUME NEW r, NEW q, NEW o, NEW u, NEW d, Sound(r, q, o, u, d), Room(u), o.at \in Working,
           NEW o2, Sensible(o2), o2 = [o EXCEPT !.at = "done", !.sent = @ + 1],
           NEW u2, u2 = End(Publish(u, o.sent + 1), "complete")
    PROVE  Sound(r, q, o2, u2, d)
  <1> DEFINE said == [o EXCEPT !.sent = @ + 1]
             u1 == Publish(u, o.sent + 1)
  <1>1. o \in Agent /\ o.sent \in Nat /\ Sensible(o) /\ u \in Wire
    BY DEF Sound, TurnType, Fits, Sensible, Agent
  <1>2. Sensible(said) /\ said.at = o.at /\ said.sent = o.sent + 1 /\ o2.at = "done" /\ o2.sent = said.sent
    BY <1>1 DEF Sensible, Agent
  <1> HIDE DEF said, u1
  <1>3. Sound(r, q, said, u1, d)
    BY <1>2, Said DEF u1
  <1> QED
    BY <1>2, <1>3, Completed DEF u1

\* The answer was stored, or remembered.
LEMMA Kept ==
    ASSUME NEW r, NEW q, NEW o, NEW u, NEW d, Sound(r, q, o, u, d), o.at \in {"store", "remember"},
           NEW o2, Sensible(o2), o2.at \in {"remember", "done"}, o2.sent = o.sent
    PROVE  Sound(r, q, o2, u, d)
  <1>1. u \in Wire /\ u.end \in {"complete", "broken"}
    BY DEF Sound, TurnType, Fits
  <1> QED
    BY <1>1, Closed

\* An exception leaves execute.
LEMMA Aborted ==
    ASSUME NEW r, NEW q, NEW o, NEW u, NEW d, Sound(r, q, o, u, d), o.at \in Working \union {"store"},
           NEW o2, Sensible(o2), o2.at = "done", o2.sent = o.sent,
           NEW u2 \in Fails(u)
    PROVE  Sound(r, q, o2, u2, d)
  <1>1. u \in Wire /\ u.end \in {"open", "complete", "broken"}
    BY DEF Working, Sound, TurnType, Fits, Wire, Ends
  <1>2. /\ u2 \in Wire /\ u2.events = u.events /\ u2.end # "open"
        /\ u.end = "complete" => u2.end \in {"complete", "broken"}
        /\ u.end = "broken" => u2.end = "broken"
    <2>1. CASE u.end = "open"
      BY <1>1, <2>1 DEF Fails, Wire, Ends
    <2>2. CASE u.end = "complete"
      BY <1>1, <2>2 DEF Fails, Wire, Ends
    <2>3. CASE u.end = "broken"
      BY <1>1, <2>3 DEF Fails
    <2> QED
      BY <1>1, <2>1, <2>2, <2>3
  <1> QED
    BY <1>2, Closed

(***************************************************************************)
(* The routing agent's side of a turn                                      *)
(***************************************************************************)

\* It chose an orchestrator, which begins.
LEMMA Routed ==
    ASSUME NEW q, NEW o, NEW u, NEW d, Sound("plan", q, o, u, d),
           NEW o2, o2 = [o EXCEPT !.at = "cards"]
    PROVE  Sound("relay", q, o2, u, d)
  <1>1. /\ o = Off /\ o \in Agent /\ u = Open /\ d.events = <<>> /\ q.got = <<>> /\ q.out \in Seq(Int)
        /\ \A i \in DOMAIN q.out : q.out[i] = IsEnd
    BY DEF Sound, TurnType, Fits, Request
  <1>2. o2 \in Agent /\ o2.at = "cards" /\ o2.sent = 0 /\ o2.plan = <<>> /\ o2.tasks_status = <<>> /\ o2.next = 1
    BY <1>1 DEF Off, Agent
  <1>3. \A i \in 1 .. Len(q.out) : q.out[i] = IsEnd
    BY <1>1
  <1>4. TurnType("relay", q, o2, u, d)
    BY <1>2 DEF Sound, TurnType
  <1>5. d.end \in {"open", "broken"}
    BY DEF Sound, Fits
  <1>6. Fits("relay", q, o2, u, d)
    BY <1>1, <1>2 DEF Sound, Fits, Open
  <1>7. InOrder("relay", q, o2, u, d)
    <2>1. UnderWay("plan", q, o, u, d) \/ q.end = "left"
      BY DEF Sound, InOrder
    <2>2. Len(q.got) = 0 /\ Len(d.events) = 0 /\ Len(u.events) = 0
      BY <1>1 DEF Open
    <2> SUFFICES ASSUME q.end # "left" PROVE UnderWay("relay", q, o2, u, d)
      <3>1. \A i \in 1 .. Len(q.got) : FALSE
        BY <2>2, Ranges
      <3> QED
        BY <1>2, <2>2, <3>1 DEF InOrder
    <2>3. \A i \in 1 .. Len(q.out) : i = Len(q.out) /\ q.converter = "returned"
      BY <1>3, <2>1 DEF UnderWay
    <2>4. q.out = <<>> \/ (Len(q.out) = 1 /\ q.out[1] = IsEnd)
      <3>1. Len(q.out) \in Nat
        BY <1>1
      <3>2. Len(q.out) > 0 => 1 \in 1 .. Len(q.out)
        BY <3>1
      <3>3. Len(q.out) = 0 \/ Len(q.out) = 1
        <4>1. Len(q.out) > 0 => 1 = Len(q.out)
          BY <2>3, <3>2
        <4> QED
          BY <3>1, <4>1
      <3> QED
        BY <1>1, <1>3, <3>2, <3>3, EmptyOut
    <2>5. Relayed(q, d) = 0
      <3>1. CASE q.out = <<>>
        <4>1. Len(q.out) = 0 /\ Ending(q) = 0
          BY <3>1 DEF Ending
        <4> QED
          BY <2>2, <4>1 DEF Relayed
      <3>2. CASE Len(q.out) = 1 /\ q.out[1] = IsEnd
        <4>1. Len(q.out) = 1 /\ Ending(q) = 1
          BY <1>1, <3>2, EndingIs
        <4> QED
          BY <2>2, <4>1 DEF Relayed
      <3> QED
        BY <2>4, <3>1, <3>2
    <2>6. \A i \in 1 .. Len(d.events) : FALSE
      BY <2>2, Ranges
    <2>7. \A i \in 1 .. Len(u.events) : FALSE
      BY <2>2, Ranges
    <2>8. Relayed(q, d) + Len(u.events) = 0
      BY <2>2, <2>5
    <2> QED
      <3>1. Relayed(q, d) <= IF o2.at = "off" THEN 1 ELSE o2.sent
        BY <1>2, <2>5
      <3>2. Relayed(q, d) + Len(u.events) <= o2.sent /\ Relayed(q, d) + Len(u.events) = o2.sent
        BY <1>2, <2>8
      <3>3. d.end # "complete"
        BY <1>5
      <3>4. \A i \in 1 .. Len(q.out) :
             IF q.out[i] = IsEnd THEN i = Len(q.out) /\ q.converter = "returned"
             ELSE q.out[i] = Nth(o2, Len(q.got) + i)
        BY <1>3, <2>3
      <3> QED
        BY <2>6, <2>7, <3>1, <3>2, <3>3, <3>4 DEF UnderWay
  <1> QED
    BY <1>4, <1>6, <1>7 DEF Sound

\* It apologises, without an orchestrator.
LEMMA NobodyFound ==
    ASSUME NEW q, NEW o, NEW u, NEW d, Sound("plan", q, o, u, d),
           NEW d2, d2 = End(Publish(d, Apology), "complete")
    PROVE  Sound("done", q, o, u, d2)
  <1>0. q.out \in Seq(Int) /\ \A i \in DOMAIN q.out : q.out[i] = IsEnd
    BY DEF Sound, TurnType, Fits, Request
  <1>1. /\ o = Off /\ u = Open /\ d.events = <<>> /\ q.got = <<>> /\ q.out \in Seq(Int)
        /\ q.end \notin {"not asked", "error"}
        /\ q.converter # "off" /\ d.end \in {"open", "broken"} /\ d \in Wire
        /\ (q.converter = "returned" => d.end # "open")
    BY DEF Sound, TurnType, Fits, Request
  <1>2. CASE d.end # "open"
    <2>1. d2 = d
      BY <1>2 DEF End, Publish
    <2>2. TurnType("done", q, o, u, d)
      BY DEF Sound, TurnType
    <2>3. Fits("done", q, o, u, d)
      BY <1>1 DEF Sound, Fits
    <2>4. InOrder("done", q, o, u, d)
      BY DEF Sound, InOrder, UnderWay
    <2> QED
      BY <2>1, <2>2, <2>3, <2>4 DEF Sound
  <1>3. CASE d.end = "open"
    <2>1. d2.end = "complete" /\ d2 \in Wire /\ Len(d2.events) = 1
          /\ d2.events[1] = 0
      <3>1. PICK d1 : d1 = Publish(d, Apology)
        OBVIOUS
      <3>2. 0 \in Nat /\ <<>> \in Seq(Nat) /\ Len(<<>>) = 0
        OBVIOUS
      <3>3. d1 = [d EXCEPT !.events = Append(<<>>, 0)]
        BY <1>1, <1>3, <3>1 DEF Publish, Apology
      <3>4. /\ Append(<<>>, 0) \in Seq(Nat) /\ Len(Append(<<>>, 0)) = 1 /\ Append(<<>>, 0)[1] = 0
        OBVIOUS
      <3>5. d1 \in Wire /\ d1.events = Append(<<>>, 0) /\ d1.end = "open"
        BY <1>1, <1>3, <3>3, <3>4 DEF Wire
      <3>6. d2 = [d1 EXCEPT !.end = "complete"]
        BY <3>1, <3>5 DEF End
      <3>7. d2 \in Wire /\ d2.events = Append(<<>>, 0) /\ d2.end = "complete"
        BY <3>5, <3>6 DEF Wire, Ends
      <3> QED
        BY <3>4, <3>7
    <2>2. Len(d2.events) <= WireCap
      <3>1. WireCap \in Nat \ {0}
        BY OrchestratorAssumption
      <3>2. 1 <= WireCap
        BY <3>1
      <3> QED
        BY <2>1, <3>2
    <2>3. TurnType("done", q, o, u, d2)
      BY <2>1, <2>2 DEF Sound, TurnType
    <2>4. q.converter = "on" /\ q.end # "stop"
      BY <1>1, <1>3 DEF Sound, TurnType, Fits, Request
    <2>5. Fits("done", q, o, u, d2)
      BY <1>1, <2>1, <2>4 DEF Sound, Fits, Off
    <2>6. InOrder("done", q, o, u, d2)
      <3> SUFFICES ASSUME q.end # "left" PROVE UnderWay("done", q, o, u, d2)
        BY DEF Sound, InOrder
      <3>1. UnderWay("plan", q, o, u, d)
        BY DEF Sound, InOrder
      <3>2. \A i \in 1 .. Len(q.out) : FALSE
        <4>1. \A i \in 1 .. Len(q.out) : q.out[i] = IsEnd
          BY <1>0
        <4> QED
          BY <2>4, <3>1, <4>1 DEF UnderWay
      <3>3. Len(q.out) = 0 /\ Len(q.got) = 0
        <4>0. \A s : s = <<>> => Len(s) = 0
          OBVIOUS
        <4>1. Len(q.out) \in Nat /\ Len(q.got) = 0
          <5>1. Len(q.out) \in Nat
            BY <1>0
          <5> QED
            BY <1>1, <4>0, <5>1
        <4>2. Len(q.out) > 0 => 1 \in 1 .. Len(q.out)
          BY <4>1
        <4> QED
          BY <3>2, <4>1, <4>2
      <3>4. Ending(q) = 0
        BY <1>1, <3>3, EmptyOut DEF Ending
      <3>5. Relayed(q, d2) = 1
        BY <2>1, <3>3, <3>4 DEF Relayed
      <3>6. o.at = "off"
        BY <1>1 DEF Off
      <3>7. \A i \in 1 .. Len(d2.events) : d2.events[i] = Nth(o, Len(q.got) + Len(q.out) + i)
        BY <2>1, <3>3, <3>6 DEF Nth, Apology
      <3> QED
        <4>1. Relayed(q, d2) <= 1
          BY <3>5
        <4> QED
          BY <3>2, <3>6, <3>7, <4>1 DEF UnderWay
    <2> QED
      BY <2>3, <2>5, <2>6 DEF Sound
  <1> QED
    BY <1>2, <1>3

\* It relays a chunk,
LEMMA RelayedOne ==
    ASSUME NEW q, NEW o, NEW u, NEW d, Sound("relay", q, o, u, d), u.events # <<>>, Room(d),
           NEW u2, u2 = [u EXCEPT !.events = Tail(@)],
           NEW d2, d2 = Publish(d, Head(u.events))
    PROVE  Sound("relay", q, o, u2, d2)
  <1>1. u \in Wire /\ d \in Wire /\ u.events \in Seq(Nat) /\ Len(d.events) <= WireCap
        /\ Len(u.events) <= WireCap /\ WireCap \in Nat /\ o \in Agent /\ o.sent \in Nat
    BY OrchestratorAssumption DEF Sound, TurnType, Wire, Agent
  <1>2. /\ Head(u.events) = u.events[1] /\ Head(u.events) \in Nat
        /\ Tail(u.events) \in Seq(Nat) /\ Len(Tail(u.events)) = Len(u.events) - 1
        /\ Len(u.events) \in Nat /\ Len(u.events) > 0
        /\ \A i \in 1 .. Len(u.events) - 1 : Tail(u.events)[i] = u.events[i + 1]
    BY <1>1
  <1>3. u2 \in Wire /\ u2.events = Tail(u.events) /\ u2.end = u.end /\ Len(u2.events) <= WireCap
    <2>1. u2 \in Wire /\ u2.events = Tail(u.events) /\ u2.end = u.end
      BY <1>1, <1>2 DEF Wire
    <2> QED
      BY <1>1, <1>2, <2>1
  <1>4. /\ d2 \in Wire /\ d2.end = d.end /\ Len(d2.events) <= WireCap
        /\ d.end # "open" => d2 = d
        /\ d.end = "open" =>
             /\ Len(d2.events) = Len(d.events) + 1 /\ d2.events[Len(d.events) + 1] = u.events[1]
             /\ \A i \in 1 .. Len(d.events) : d2.events[i] = d.events[i]
    <2>1. PICK n \in Nat : n = u.events[1] /\ d2 = Publish(d, n)
      BY <1>2
    <2>2. d \in Wire /\ Room(d) /\ Len(d.events) <= WireCap
      BY <1>1
    <2> QED
      BY <2>1, <2>2, Published
  <1>5. TurnType("relay", q, o, u2, d2)
    BY <1>3, <1>4 DEF Sound, TurnType
  <1>6. o.at # "off" /\ d.end \in {"open", "broken"}
    BY DEF Sound, Fits
  <1>7. Fits("relay", q, o, u2, d2)
    BY <1>3, <1>4, <1>6 DEF Sound, Fits
  <1>8. InOrder("relay", q, o, u2, d2)
    <2> SUFFICES ASSUME q.end # "left" PROVE UnderWay("relay", q, o, u2, d2)
      BY DEF Sound, InOrder
    <2>1. UnderWay("relay", q, o, u, d)
      BY DEF Sound, InOrder
    <2>2. CASE d.end # "open"
      BY <1>4, <1>6, <2>1, <2>2 DEF UnderWay
    <2>3. CASE d.end = "open"
      <3> DEFINE m == Relayed(q, d)
                 n == Len(u.events)
                 g == Len(q.got)
                 k == Len(q.out)
                 w == Len(d.events)
      <3>1. /\ \A i \in 1 .. n : u.events[i] = m + i
            /\ m + n <= o.sent
            /\ u.end # "broken" => m + n = o.sent
        BY <2>1, <2>3 DEF UnderWay
      <3>2. m \in Int /\ n \in Nat /\ n > 0 /\ g \in Nat /\ k \in Nat /\ w \in Nat
            /\ Len(u2.events) = n - 1 /\ Len(d2.events) = w + 1
            /\ \A i \in 1 .. n - 1 : u2.events[i] = u.events[i + 1]
        BY <1>2, <1>3, <1>4, <2>3, Lengths DEF Sound
      <3>3. PICK e \in {0, 1} : e = Ending(q)
        BY Lengths DEF Sound
      <3>4. m = g + k - e + w /\ Relayed(q, d2) = g + k - e + (w + 1)
        BY <3>2, <3>3 DEF Relayed
      <3>5. e = 0
        <4>1. q.converter # "returned"
          BY <2>3 DEF Sound, Fits
        <4>2. \A i \in 1 .. Len(q.out) : q.out[i] # IsEnd
          BY <2>1, <4>1 DEF UnderWay
        <4>3. q.out \in Seq(Int)
          BY DEF Sound, TurnType, Request
        <4> QED
          BY <3>3, <4>2, <4>3, EndingIs
      <3>6. u.events[1] = m + 1
        <4>1. 1 \in 1 .. n
          BY <3>2
        <4> QED
          BY <3>1, <4>1
      <3>7. \A i \in 1 .. w : d2.events[i] = g + k + i
        BY <1>4, <1>6, <2>1, <2>3 DEF UnderWay, Nth
      <3>8. d2.events[w + 1] = u.events[1]
        BY <1>4, <2>3
      <3> HIDE DEF m, n, g, k, w
      <3>9. Relayed(q, d2) = m + 1 /\ m + 1 = g + k + (w + 1) /\ m + 1 <= o.sent
        <4>1. m = g + k + w /\ Relayed(q, d2) = g + k + (w + 1)
          BY <3>2, <3>4, <3>5
        <4>2. g + k + (w + 1) = m + 1
          BY <3>2, <4>1
        <4>3. m + 1 <= o.sent
          BY <1>1, <3>1, <3>2, SMTT(40)
        <4> QED
          BY <4>1, <4>2, <4>3
      <3>10. \A i \in 1 .. w + 1 : d2.events[i] = g + k + i
        <4>1. \A i \in 1 .. w + 1 : i \in 1 .. w \/ i = w + 1
          BY <3>2
        <4> QED
          BY <3>6, <3>7, <3>8, <3>9, <4>1
      <3>11. \A i \in 1 .. n - 1 : u2.events[i] = (m + 1) + i
        <4> SUFFICES ASSUME NEW i \in 1 .. n - 1 PROVE u2.events[i] = (m + 1) + i
          OBVIOUS
        <4>1. i + 1 \in 1 .. n
          BY <3>2, SMTT(40)
        <4>2. u.events[i + 1] = m + (i + 1)
          BY <3>1, <4>1
        <4>3. m + (i + 1) = (m + 1) + i
          BY <3>2
        <4> QED
          BY <3>2, <4>2, <4>3
      <3>12. (m + 1) + (n - 1) = m + n
        BY <3>2
      <3>13. /\ \A i \in 1 .. Len(u2.events) : u2.events[i] = Relayed(q, d2) + i
             /\ Relayed(q, d2) + Len(u2.events) <= o.sent
             /\ u2.end # "broken" => Relayed(q, d2) + Len(u2.events) = o.sent
        BY <1>3, <3>1, <3>2, <3>9, <3>11, <3>12
      <3>14. \A i \in 1 .. Len(d2.events) : d2.events[i] = Nth(o, Len(q.got) + Len(q.out) + i)
        BY <1>6, <3>2, <3>10 DEF Nth, g, k
      <3>15. d2.end # "complete" /\ Relayed(q, d2) <= o.sent
        BY <1>4, <2>3, <3>9
      <3> QED
        BY <1>6, <2>1, <3>13, <3>14, <3>15 DEF UnderWay
    <2> QED
      BY <2>2, <2>3
  <1> QED
    BY <1>5, <1>7, <1>8 DEF Sound

\* and the end.
LEMMA Finished ==
    ASSUME NEW q, NEW o, NEW u, NEW d, Sound("relay", q, o, u, d), u.events = <<>>, u.end # "open",
           NEW d2, d2 = End(d, IF u.end = "broken" THEN "closed" ELSE "complete")
    PROVE  Sound("done", q, o, u, d2)
  <1>1. PICK how \in {"complete", "closed", "broken"} : how = IF u.end = "broken" THEN "closed" ELSE "complete"
    OBVIOUS
  <1>2. d \in Wire /\ u \in Wire
    BY DEF Sound, TurnType
  <1>3. d2 \in Wire /\ d2.events = d.events /\ d2.end = IF d.end = "open" THEN how ELSE d.end
    BY <1>1, <1>2, EndedStream
  <1>4. TurnType("done", q, o, u, d2)
    BY <1>3 DEF Sound, TurnType
  <1>5. o.at # "off" /\ d.end \in {"open", "broken"}
    BY DEF Sound, Fits
  <1>6. Fits("done", q, o, u, d2)
    BY <1>1, <1>3, <1>5 DEF Sound, Fits
  <1>7. InOrder("done", q, o, u, d2)
    <2> SUFFICES ASSUME q.end # "left" PROVE UnderWay("done", q, o, u, d2)
      BY DEF Sound, InOrder
    <2>1. UnderWay("relay", q, o, u, d) /\ Relayed(q, d2) = Relayed(q, d)
      BY <1>3 DEF Sound, InOrder, Relayed
    <2>2. ASSUME d2.end = "complete" PROVE Relayed(q, d) = o.sent /\ o.at \in {"store", "remember", "done"}
      <3>1. d.end = "open" /\ u.end # "broken"
        BY <1>1, <1>3, <1>5, <2>2
      <3>2. u.end \in {"complete", "closed"}
        BY <1>2, <3>1 DEF Wire, Ends
      <3>3. Len(u.events) = 0 /\ Relayed(q, d) \in Int
        BY Lengths DEF Sound
      <3>4. Relayed(q, d) + Len(u.events) = o.sent
        BY <2>1, <3>1 DEF UnderWay
      <3>5. o.at \in {"store", "remember", "done"}
        BY <3>2 DEF Sound, Fits
      <3> QED
        BY <3>3, <3>4, <3>5
    <2> QED
      BY <1>3, <1>5, <2>1, <2>2 DEF UnderWay
  <1> QED
    BY <1>4, <1>6, <1>7 DEF Sound

LEMMA RoutingFailed ==
    ASSUME NEW q, NEW o, NEW u, NEW d, Sound("plan", q, o, u, d), NEW how \in {"closed", "broken"},
           NEW d2, d2 = End(d, how)
    PROVE  Sound("done", q, o, u, d2)
  <1>1. d \in Wire /\ how \in {"complete", "closed", "broken"}
    BY DEF Sound, TurnType
  <1>2. d2 \in Wire /\ d2.events = d.events /\ d2.end \in {"closed", "broken"}
    <2>1. d2 \in Wire /\ d2.events = d.events /\ d2.end = IF d.end = "open" THEN how ELSE d.end
      BY <1>1, EndedStream
    <2>2. d.end \in {"open", "broken"}
      BY DEF Sound, Fits
    <2> QED
      BY <2>1, <2>2
  <1>3. TurnType("done", q, o, u, d2)
    BY <1>2 DEF Sound, TurnType
  <1>4. Fits("done", q, o, u, d2)
    BY <1>2 DEF Sound, Fits
  <1>5. InOrder("done", q, o, u, d2)
    BY <1>2 DEF Sound, InOrder, UnderWay, Relayed
  <1> QED
    BY <1>3, <1>4, <1>5 DEF Sound

\* A connection breaks.
LEMMA Broken ==
    ASSUME NEW r, NEW q, NEW o, NEW u, NEW d, Sound(r, q, o, u, d)
    PROVE  /\ u.end = "open" /\ r = "relay" => Sound(r, q, o, [u EXCEPT !.end = "broken"], d)
           /\ d.end = "open" /\ r # "off" => Sound(r, q, o, u, [d EXCEPT !.end = "broken"])
  <1>1. u \in Wire /\ d \in Wire
    BY DEF Sound, TurnType
  <1>2. ASSUME u.end = "open", r = "relay", NEW u2, u2 = [u EXCEPT !.end = "broken"]
        PROVE  Sound(r, q, o, u2, d)
    <2>1. u2 \in Wire /\ u2.events = u.events /\ u2.end = "broken"
      BY <1>1, <1>2 DEF Wire, Ends
    <2>2. TurnType(r, q, o, u2, d)
      BY <2>1 DEF Sound, TurnType
    <2>3. Fits(r, q, o, u2, d)
      BY <1>2, <2>1 DEF Sound, Fits
    <2>4. InOrder(r, q, o, u2, d)
      BY <2>1 DEF Sound, InOrder, UnderWay
    <2> QED
      BY <2>2, <2>3, <2>4 DEF Sound
  <1>3. ASSUME d.end = "open", r # "off", NEW d2, d2 = [d EXCEPT !.end = "broken"]
        PROVE  Sound(r, q, o, u, d2)
    <2>1. d2 \in Wire /\ d2.events = d.events /\ d2.end = "broken"
      BY <1>1, <1>3 DEF Wire, Ends
    <2>2. TurnType(r, q, o, u, d2)
      BY <2>1 DEF Sound, TurnType
    <2>3. Fits(r, q, o, u, d2)
      BY <1>3, <2>1 DEF Sound, Fits
    <2>4. InOrder(r, q, o, u, d2)
      BY <2>1 DEF Sound, InOrder, UnderWay, Relayed
    <2> QED
      BY <2>2, <2>3, <2>4 DEF Sound
  <1> QED
    BY <1>2, <1>3

(***************************************************************************)
(* All turns: what a step of one turn does to its records                  *)
(***************************************************************************)

AllSound ==
    /\ routing \in [Turn -> {"off", "plan", "relay", "done"}] /\ chat \in [Turn -> Request]
    /\ orch \in [Turn -> Agent] /\ up \in [Turn -> Wire] /\ down \in [Turn -> Wire]
    /\ \A t \in Turn : Sound(routing[t], chat[t], orch[t], up[t], down[t])

\* The part of the types that is not about the records of turns.
DataOK ==
    /\ HistoryTypeOK(0 .. Turns, Turn)
    /\ run_id \in [Turn -> 0 .. runs]
    /\ knew \in [Turn -> [rows : SUBSET Row, items : SUBSET Item]]
    /\ stored \in [Turn -> SUBSET Turn] /\ \A t \in Turn : stored[t] \subseteq 1 .. t - 1
    /\ client \in Clients /\ named \in {NoRun, OwnRun} \union 1 .. runs
    /\ runs \in 0 .. Turns /\ faults \in 0 .. MaxFaults

LEMMA Split == TypeOK /\ TurnsInv <=> AllSound /\ DataOK
  BY DEF TypeOK, TurnsInv, AllSound, DataOK, Sound, TurnType

LEMMA SplitPrime == (TypeOK /\ TurnsInv)' <=> (AllSound /\ DataOK)'
  BY Split, PTL

\* The records of t become these, the others stay.
Moves(t, r, q, o, u, d) ==
    /\ routing' = [routing EXCEPT ![t] = r] /\ chat' = [chat EXCEPT ![t] = q]
    /\ orch' = [orch EXCEPT ![t] = o] /\ up' = [up EXCEPT ![t] = u] /\ down' = [down EXCEPT ![t] = d]

Elsewhere(t) ==
    \A s \in Turn \ {t} :
        /\ routing'[s] = routing[s] /\ chat'[s] = chat[s] /\ orch'[s] = orch[s]
        /\ up'[s] = up[s] /\ down'[s] = down[s]

LEMMA MovesSound ==
    ASSUME AllSound, NEW t \in Turn, NEW r, NEW q, NEW o, NEW u, NEW d,
           Moves(t, r, q, o, u, d), Sound(r, q, o, u, d)
    PROVE  /\ AllSound' /\ Elsewhere(t)
           /\ routing'[t] = r /\ chat'[t] = q /\ orch'[t] = o /\ up'[t] = u /\ down'[t] = d
  <1>1. r \in {"off", "plan", "relay", "done"} /\ q \in Request /\ o \in Agent /\ u \in Wire /\ d \in Wire
    BY DEF Sound, TurnType
  <1>2. Elsewhere(t)
    BY DEF AllSound, Moves, Elsewhere
  <1>3. routing'[t] = r /\ chat'[t] = q /\ orch'[t] = o /\ up'[t] = u /\ down'[t] = d
    BY DEF AllSound, Moves
  <1>4. /\ routing' \in [Turn -> {"off", "plan", "relay", "done"}] /\ chat' \in [Turn -> Request]
        /\ orch' \in [Turn -> Agent] /\ up' \in [Turn -> Wire] /\ down' \in [Turn -> Wire]
    BY <1>1 DEF AllSound, Moves
  <1>5. ASSUME NEW s \in Turn
        PROVE  Sound(routing'[s], chat'[s], orch'[s], up'[s], down'[s])
    <2>1. CASE s = t
      BY <1>3, <2>1
    <2>2. CASE s # t
      BY <1>2, <2>2 DEF AllSound, Elsewhere
    <2> QED
      BY <2>1, <2>2
  <1> QED
    BY <1>2, <1>3, <1>4, <1>5 DEF AllSound

\* A record that is not assigned to is assigned to itself.
LEMMA Itself ==
    ASSUME AllSound, NEW t \in Turn
    PROVE  /\ routing = [routing EXCEPT ![t] = routing[t]] /\ chat = [chat EXCEPT ![t] = chat[t]]
           /\ orch = [orch EXCEPT ![t] = orch[t]] /\ up = [up EXCEPT ![t] = up[t]]
           /\ down = [down EXCEPT ![t] = down[t]]
           /\ Sound(routing[t], chat[t], orch[t], up[t], down[t])
           /\ routing[t] \in {"off", "plan", "relay", "done"} /\ chat[t] \in Request
           /\ orch[t] \in Agent /\ up[t] \in Wire /\ down[t] \in Wire
           /\ Sensible(orch[t])
  BY DEF AllSound, Sound, TurnType, Fits, Sensible

\* The client's steps.
LEMMA AskingSound ==
    ASSUME AllSound, NEW t \in Turn
    PROVE  /\ ChatStreaming(t) =>
                /\ AllSound' /\ Elsewhere(t) /\ orch'[t] = orch[t] /\ up'[t] = up[t] /\ down'[t] = down[t]
                /\ routing[t] = "off" /\ routing'[t] = "plan" /\ chat'[t].end = "waiting"
                /\ orch[t].at = "off" /\ down[t] = Open
           /\ ChatRefused(t) =>
                /\ AllSound' /\ Elsewhere(t) /\ orch'[t] = orch[t] /\ up'[t] = up[t] /\ down'[t] = down[t]
                /\ routing[t] = "off" /\ routing'[t] = "off" /\ chat'[t].end = "error"
  <1> DEFINE r == routing[t]
             q == chat[t]
             o == orch[t]
             u == up[t]
             d == down[t]
  <1>0. Sound(r, q, o, u, d)
    BY Itself
  <1>1. ASSUME ChatStreaming(t)
        PROVE  /\ AllSound' /\ Elsewhere(t) /\ orch'[t] = orch[t] /\ up'[t] = up[t] /\ down'[t] = down[t]
               /\ routing[t] = "off" /\ routing'[t] = "plan" /\ chat'[t].end = "waiting"
               /\ orch[t].at = "off" /\ down[t] = Open
    <2> DEFINE q2 == [q EXCEPT !.end = "waiting", !.converter = "on"]
    <2>1. q.end = "not asked" /\ r = "off" /\ o.at = "off" /\ d = Open
      BY <1>0, <1>1 DEF ChatStreaming, MayAsk, Sound, Fits
    <2>2. Moves(t, "plan", q2, o, u, d)
      BY <1>1, Itself DEF ChatStreaming, Moves
    <2>3. Sound("plan", q2, o, u, d)
      <3>1. Sound("off", q, o, u, d)
        BY <1>0, <2>1
      <3> QED
        BY <2>1, <3>1, Asked
    <2>4. q2.end = "waiting"
      BY Itself DEF Request
    <2> HIDE DEF q2
    <2>5. /\ AllSound' /\ Elsewhere(t)
          /\ routing'[t] = "plan" /\ chat'[t] = q2 /\ orch'[t] = o /\ up'[t] = u /\ down'[t] = d
      BY <2>2, <2>3, MovesSound
    <2> QED
      BY <2>1, <2>4, <2>5
  <1>2. ASSUME ChatRefused(t)
        PROVE  /\ AllSound' /\ Elsewhere(t) /\ orch'[t] = orch[t] /\ up'[t] = up[t] /\ down'[t] = down[t]
               /\ routing[t] = "off" /\ routing'[t] = "off" /\ chat'[t].end = "error"
    <2> DEFINE q2 == [q EXCEPT !.end = "error"]
    <2>1. q.end = "not asked" /\ r = "off"
      BY <1>0, <1>2 DEF ChatRefused, MayAsk, Sound, Fits
    <2>2. Moves(t, r, q2, o, u, d)
      BY <1>2, Itself DEF ChatRefused, Moves, routingVars
    <2>3. Sound(r, q2, o, u, d)
      <3>1. Sound("off", q, o, u, d)
        BY <1>0, <2>1
      <3>2. Sound("off", q2, o, u, d)
        BY <2>1, <3>1, Asked
      <3> QED
        BY <2>1, <3>2
    <2>4. q2.end = "error"
      BY Itself DEF Request
    <2> HIDE DEF q2
    <2>5. /\ AllSound' /\ Elsewhere(t)
          /\ routing'[t] = r /\ chat'[t] = q2 /\ orch'[t] = o /\ up'[t] = u /\ down'[t] = d
      BY <2>2, <2>3, MovesSound
    <2> QED
      BY <2>1, <2>4, <2>5
  <1> QED
    BY <1>1, <1>2

LEMMA ChatSound ==
    ASSUME AllSound, NEW t \in Turn, ChatStep(t) \/ ClientLeft(t)
    PROVE  /\ AllSound' /\ Elsewhere(t) /\ routing'[t] = routing[t] /\ orch'[t] = orch[t] /\ up'[t] = up[t]
           /\ down'[t].end = down[t].end /\ chat[t].end \notin {"not asked", "error"}
           /\ \/ chat'[t].end = chat[t].end
              \/ chat[t].end = "waiting" /\ client # "whole" /\ chat'[t].end = "stop"
              \/ chat[t].end = "waiting" /\ client # "whole" /\ chat'[t].end = "left" /\ ClientLeft(t)
              \/ chat[t].end = "waiting" /\ chat'[t].end = "stop" /\ handleNonStreaming(t) /\ named' = run_id[t]
           /\ named' = named \/ (named' = run_id[t] /\ chat'[t].end = "stop")
  <1> DEFINE r == routing[t]
             q == chat[t]
             o == orch[t]
             u == up[t]
             d == down[t]
  <1>0. Sound(r, q, o, u, d) /\ q \in Request /\ d \in Wire
    BY Itself
  <1>a. q.converter # "off" \/ q.end = "waiting" => q.end \notin {"not asked", "error"}
    BY <1>0 DEF Sound, Fits
  <1>1. CASE convertStreamResponse(t) /\ d.events # <<>>
    <2> DEFINE q2 == [q EXCEPT !.out = Append(@, Head(d.events))]
               d2 == [d EXCEPT !.events = Tail(@)]
    <2>1. Moves(t, r, q2, o, u, d2)
      BY <1>1, Itself DEF convertStreamResponse, Moves, orchestratorVars
    <2>2. Sound(r, q2, o, u, d2)
      BY <1>0, <1>1, Converted DEF convertStreamResponse
    <2>3. q2.end = q.end /\ d2.end = d.end /\ q.converter # "off" /\ named' = named
      BY <1>0, <1>1 DEF Request, Wire, convertStreamResponse
    <2> HIDE DEF q2, d2
    <2>5. /\ AllSound' /\ Elsewhere(t)
          /\ routing'[t] = r /\ chat'[t] = q2 /\ orch'[t] = o /\ up'[t] = u /\ down'[t] = d2
      BY <2>1, <2>2, MovesSound
    <2> QED
      BY <1>a, <2>3, <2>5
  <1>2. CASE convertStreamResponse(t) /\ d.events = <<>>
    <2> DEFINE q2 == [q EXCEPT !.out = Append(@, IsEnd), !.converter = "returned"]
    <2>1. Moves(t, r, q2, o, u, d)
      BY <1>2, Itself DEF convertStreamResponse, Moves, orchestratorVars
    <2>2. Sound(r, q2, o, u, d)
      BY <1>0, <1>2, ConvertedEnd DEF convertStreamResponse, StreamOver
    <2>3. q2.end = q.end /\ q.converter # "off" /\ named' = named
      BY <1>0, <1>2 DEF Request, convertStreamResponse
    <2> HIDE DEF q2
    <2> QED
      BY <1>a, <2>1, <2>2, <2>3, MovesSound, ZenonT(60)
  <1>3. CASE handleStreaming(t)
    <2> DEFINE item == Head(q.out)
               q2 == [q EXCEPT !.out = Tail(@), !.got = @ \o TextOf(item),
                               !.end = IF item = IsEnd THEN "stop" ELSE @]
    <2>1. Moves(t, r, q2, o, u, d)
      BY <1>3, Itself DEF handleStreaming, Moves, orchestratorVars, routingVars
    <2>0. q.end = "waiting" /\ client # "whole" /\ q.out # <<>> /\ named' = named
      BY <1>3 DEF handleStreaming
    <2>10. q2.out = Tail(q.out) /\ q2.got = q.got \o TextOf(Head(q.out))
           /\ q2.converter = q.converter /\ q2.end = IF item = IsEnd THEN "stop" ELSE q.end
      BY <1>0 DEF Request
    <2>11. TakenFrom(q, q2) /\ item = q.out[1]
      BY <1>0, <2>0, <2>10, Collected
    <2>2. q2 \in Request /\ q2.converter = q.converter /\ TakenFrom(q, q2)
          /\ q2.end = IF q.out[1] = IsEnd THEN "stop" ELSE q.end
      BY <1>0, <2>10, <2>11 DEF Request, TakenFrom
    <2> HIDE DEF q2
    <2>3. Sound(r, q2, o, u, d)
      BY <1>0, <2>0, <2>2, Handled
    <2> QED
      BY <1>a, <2>0, <2>1, <2>2, <2>3, MovesSound
  <1>4. CASE handleNonStreaming(t) /\ q.out # <<>>
    <2> DEFINE item == Head(q.out)
               q2 == [q EXCEPT !.out = Tail(@), !.got = @ \o TextOf(item)]
    <2>1. Moves(t, r, q2, o, u, d)
      BY <1>4, Itself DEF handleNonStreaming, Moves, orchestratorVars, routingVars
    <2>0. q.end = "waiting" /\ named' = named
      BY <1>4 DEF handleNonStreaming
    <2>10. q2.out = Tail(q.out) /\ q2.got = q.got \o TextOf(Head(q.out))
           /\ q2.converter = q.converter /\ q2.end = q.end
      BY <1>0 DEF Request
    <2>11. TakenFrom(q, q2) /\ item = q.out[1]
      BY <1>0, <1>4, <2>0, <2>10, Collected
    <2>2. q2 \in Request /\ q2.converter = q.converter /\ TakenFrom(q, q2) /\ q2.end = q.end
      BY <1>0, <2>10, <2>11 DEF Request, TakenFrom
    <2> HIDE DEF q2
    <2>3. Sound(r, q2, o, u, d)
      BY <1>0, <1>4, <2>0, <2>2, Handled
    <2> QED
      BY <1>a, <2>0, <2>1, <2>2, <2>3, MovesSound
  <1>5. CASE handleNonStreaming(t) /\ q.out = <<>>
    <2> DEFINE q2 == [q EXCEPT !.end = "stop"]
    <2>1. Moves(t, r, q2, o, u, d)
      BY <1>5, Itself DEF handleNonStreaming, Moves, orchestratorVars, routingVars
    <2>2. Sound(r, q2, o, u, d)
      BY <1>0, <1>5, Stopped DEF handleNonStreaming
    <2>3. q2.end = "stop" /\ q.end = "waiting" /\ named' = run_id[t]
      BY <1>0, <1>5 DEF Request, handleNonStreaming
    <2> HIDE DEF q2
    <2> QED
      BY <1>a, <1>5, <2>1, <2>2, <2>3, MovesSound
  <1>6. CASE ClientLeft(t)
    <2> DEFINE q2 == [q EXCEPT !.out = Tail(@), !.end = "left"]
    <2>1. Moves(t, r, q2, o, u, d)
      BY <1>6, Itself DEF ClientLeft, Moves, routingVars
    <2>2. Sound(r, q2, o, u, d)
      BY <1>0, <1>6, GoneAway DEF ClientLeft
    <2>3. q2.end = "left" /\ q.end = "waiting" /\ client # "whole" /\ named' = named
      BY <1>0, <1>6 DEF Request, ClientLeft
    <2> HIDE DEF q2
    <2> QED
      BY <1>a, <1>6, <2>1, <2>2, <2>3, MovesSound
  <1> QED
    BY <1>1, <1>2, <1>3, <1>4, <1>5, <1>6 DEF ChatStep

LEMMA Consts ==
    /\ Turns \in Nat /\ MaxLoops \in Nat /\ MaxText \in Nat
    /\ PlannerLimit \in Nat \ {0} /\ AnswerLimit \in Nat \ {0}
  BY OrchestratorAssumption

LEMMA AgentParts ==
    ASSUME NEW o \in Agent
    PROVE  /\ o.at \in {"off", "cards", "plan", "tasks", "recall", "stream", "store", "remember", "done"}
           /\ o.plan \in Plans \union {<<>>} /\ o.tasks_status \in Seq(Statuses) /\ o.next \in Nat
           /\ o.retry_count \in 0 .. MaxLoops /\ o.sent \in Nat /\ o.text \in 0 .. MaxText
  BY DEF Agent

\* The agent's steps.
Acts(t) ==
    /\ AllSound' /\ Elsewhere(t) /\ orch[t].at # "off"
    /\ routing'[t] = routing[t] /\ chat'[t] = chat[t] /\ down'[t] = down[t]

\* A stream that was not closed or broken is not now.
StaysWhole(t) == up'[t].end \in {"closed", "broken"} => up[t].end \in {"closed", "broken"}

LEMMA ActsSilently ==
    ASSUME AllSound, NEW t \in Turn, UNCHANGED <<routing, chat, down, up>>,
           NEW o, orch' = [orch EXCEPT ![t] = o], Sensible(o),
           orch[t].at \in Working, o.at \in Working, o.sent = orch[t].sent
    PROVE  Acts(t) /\ StaysWhole(t) /\ orch'[t] = o
  <1>1. Sound(routing[t], chat[t], o, up[t], down[t])
    BY Itself, Silent
  <1>2. Moves(t, routing[t], chat[t], o, up[t], down[t])
    BY Itself DEF Moves
  <1>3. /\ AllSound' /\ Elsewhere(t)
        /\ routing'[t] = routing[t] /\ chat'[t] = chat[t] /\ down'[t] = down[t]
        /\ orch'[t] = o /\ up'[t] = up[t]
    BY <1>1, <1>2, MovesSound
  <1> QED
    BY <1>3 DEF Acts, StaysWhole, Working

LEMMA ActsAloud ==
    ASSUME AllSound, NEW t \in Turn, UNCHANGED <<routing, chat, down>>,
           NEW o, Emit(t, o), Sensible(o), orch[t].at \in Working, o.at \in Working, o.sent = orch[t].sent
    PROVE  /\ Acts(t) /\ StaysWhole(t) /\ Sensible(orch'[t])
           /\ orch'[t] = [o EXCEPT !.sent = @ + 1]
           /\ orch'[t].at = o.at /\ orch'[t].text = o.text /\ orch'[t].tasks_status = o.tasks_status
           /\ orch'[t].plan = o.plan /\ orch'[t].next = o.next /\ orch'[t].retry_count = o.retry_count
  <1> DEFINE o2 == [o EXCEPT !.sent = @ + 1]
             u2 == Publish(up[t], orch[t].sent + 1)
  <1>1. Room(up[t]) /\ up' = [up EXCEPT ![t] = u2] /\ orch' = [orch EXCEPT ![t] = o2]
    BY DEF AllSound, Emit
  <1>2. o \in Agent /\ o2 \in Agent /\ Sensible(o2) /\ o2.at = o.at /\ o2.sent = orch[t].sent + 1
        /\ o2.text = o.text /\ o2.tasks_status = o.tasks_status /\ o2.plan = o.plan /\ o2.next = o.next
        /\ o2.retry_count = o.retry_count
    BY DEF Agent, Sensible
  <1>3. Moves(t, routing[t], chat[t], o2, u2, down[t])
    BY <1>1, Itself DEF Moves
  <1>4. u2.end = up[t].end
    BY DEF Publish
  <1> HIDE DEF o2, u2
  <1>5. Sound(routing[t], chat[t], o2, u2, down[t])
    BY <1>1, <1>2, Itself, Said DEF u2
  <1>6. /\ AllSound' /\ Elsewhere(t)
        /\ routing'[t] = routing[t] /\ chat'[t] = chat[t] /\ down'[t] = down[t]
        /\ orch'[t] = o2 /\ up'[t] = u2
    BY <1>3, <1>5, MovesSound
  <1>7. Acts(t) /\ StaysWhole(t)
    BY <1>4, <1>6 DEF Acts, StaysWhole, Working
  <1> QED
    BY <1>2, <1>6, <1>7 DEF o2

LEMMA CardsAct ==
    ASSUME AllSound, NEW t \in Turn, UNCHANGED <<routing, chat, down>>, list_agent_cards(t)
    PROVE  /\ Acts(t) /\ StaysWhole(t) /\ orch[t].at = "cards"
           /\ orch'[t].at \in {"plan", "done", "recall"} /\ orch'[t].text = orch[t].text
           /\ UNCHANGED <<knew, history, memories>>
  <1> DEFINE o == orch[t]
  <1>0. o.at = "cards" /\ o.at \in Working /\ o \in Agent /\ Sensible(o) /\ UNCHANGED <<knew, history, memories>>
    BY Itself DEF list_agent_cards, At, Working
  <1>1. CASE orch' = [orch EXCEPT ![t].at = "plan"] /\ UNCHANGED up
    <2> DEFINE o2 == [o EXCEPT !.at = "plan"]
    <2>1. orch' = [orch EXCEPT ![t] = o2] /\ Sensible(o2) /\ o2.at = "plan" /\ o2.at \in Working
          /\ o2.sent = o.sent /\ o2.text = o.text
      BY <1>0, <1>1 DEF AllSound, Sensible, Agent, Working
    <2> HIDE DEF o2
    <2> QED
      BY <1>0, <1>1, <2>1, ActsSilently
  <1>2. CASE /\ Room(up[t])
             /\ orch' = [orch EXCEPT ![t].at = "done", ![t].sent = @ + 1]
             /\ up' = [up EXCEPT ![t] = End(Publish(@, orch[t].sent + 1), "complete")]
    <2> DEFINE o2 == [o EXCEPT !.at = "done", !.sent = @ + 1]
               u2 == End(Publish(up[t], orch[t].sent + 1), "complete")
    <2>1. Sensible(o2) /\ o2.at = "done" /\ o2.text = o.text
      <3>1. o2.at = "done" /\ o2.text = o.text /\ o2.tasks_status = o.tasks_status /\ o2.plan = o.plan
            /\ o2.next = o.next
        BY <1>0 DEF Agent
      <3>2. o2 \in Agent
        <4>1. o.sent + 1 \in Nat
          BY <1>0, AgentParts
        <4>2. [o EXCEPT !.sent = @ + 1] \in Agent
          BY <1>0, <4>1 DEF Agent
        <4> QED
          BY <1>0, <4>1 DEF Agent
      <3> HIDE DEF o2
      <3> QED
        BY <1>0, <3>1, <3>2 DEF Sensible
    <2>2. Moves(t, routing[t], chat[t], o2, u2, down[t])
      BY <1>2, Itself DEF Moves, AllSound
    <2>3. Sound(routing[t], chat[t], o2, u2, down[t])
      BY <1>0, <1>2, <2>1, Itself, Apologised
    <2>4. u2.end \in {"closed", "broken"} => up[t].end \in {"closed", "broken"}
      BY Itself DEF End, Publish, Wire
    <2> HIDE DEF o2, u2
    <2>5. /\ AllSound' /\ Elsewhere(t)
          /\ routing'[t] = routing[t] /\ chat'[t] = chat[t] /\ down'[t] = down[t]
          /\ orch'[t] = o2 /\ up'[t] = u2
      BY <2>2, <2>3, MovesSound
    <2> QED
      BY <1>0, <2>1, <2>4, <2>5 DEF Acts, StaysWhole
  <1>3. CASE Emit(t, ToAnswer(orch[t]))
    <2> DEFINE o2 == ToAnswer(o)
    <2>1. Sensible(o2) /\ o2.at = "recall" /\ o2.at \in Working /\ o2.sent = o.sent /\ o2.text = o.text
      BY <1>0 DEF Sensible, Agent, ToAnswer, Working
    <2> HIDE DEF o2
    <2>2. Emit(t, o2)
      BY <1>3 DEF o2
    <2> QED
      BY <1>0, <2>1, <2>2, ActsAloud
  <1> QED
    BY <1>1, <1>2, <1>3 DEF list_agent_cards

LEMMA NoneStarted ==
    ASSUME NEW plan \in Seq(Task), NEW s, s = [i \in DOMAIN plan |-> "not_started"]
    PROVE  s \in Seq(Statuses) /\ Len(s) = Len(plan)
  <1>1. s = [i \in 1 .. Len(plan) |-> "not_started"] /\ Len(plan) \in Nat /\ "not_started" \in Statuses
    BY DEF Statuses
  <1> QED
    BY <1>1

LEMMA PlanAct ==
    ASSUME AllSound, NEW t \in Turn, UNCHANGED <<routing, chat, down>>, NEW rows, PlanKnowing(t, rows)
    PROVE  /\ Acts(t) /\ StaysWhole(t) /\ orch[t].at = "plan" /\ orch'[t].text = orch[t].text
           /\ \/ orch'[t].at = "recall" /\ UNCHANGED knew
              \/ orch'[t].at = "tasks" /\ orch'[t].next = 1 /\ knew' = [knew EXCEPT ![t].rows = rows]
           /\ UNCHANGED <<history, memories>>
  <1> DEFINE o == orch[t]
  <1>0. o.at = "plan" /\ o.at \in Working /\ o \in Agent /\ Sensible(o) /\ UNCHANGED <<history, memories>>
    BY Itself DEF PlanKnowing, At, Working
  <1>1. PICK plan \in Plans :
          IF plan = <<>> THEN Emit(t, ToAnswer(orch[t])) /\ UNCHANGED knew
          ELSE /\ knew' = [knew EXCEPT ![t].rows = rows]
               /\ orch' = [orch EXCEPT ![t] = [@ EXCEPT !.at = "tasks", !.plan = plan, !.next = 1,
                              !.tasks_status = [i \in DOMAIN plan |-> "not_started"]]]
               /\ UNCHANGED up
    BY DEF PlanKnowing
  <1>2. CASE plan = <<>>
    <2> DEFINE o2 == ToAnswer(o)
    <2>1. Sensible(o2) /\ o2.at = "recall" /\ o2.at \in Working /\ o2.sent = o.sent /\ o2.text = o.text
      BY <1>0 DEF Sensible, Agent, ToAnswer, Working
    <2> HIDE DEF o2
    <2>2. Emit(t, o2)
      BY <1>1, <1>2 DEF o2
    <2> QED
      BY <1>0, <1>1, <1>2, <2>1, <2>2, ActsAloud
  <1>3. CASE plan # <<>>
    <2>1. PICK s : s = [i \in DOMAIN plan |-> "not_started"]
      OBVIOUS
    <2>2. plan \in Seq(Task) /\ Len(plan) \in Nat /\ Len(plan) > 0
      BY <1>3, OrchestratorAssumption
    <2>3. s \in Seq(Statuses) /\ Len(s) = Len(plan)
      BY <2>1, <2>2, NoneStarted
    <2> DEFINE o2 == [o EXCEPT !.at = "tasks", !.plan = plan, !.next = 1, !.tasks_status = s]
    <2>4. orch' = [orch EXCEPT ![t] = o2] /\ UNCHANGED up /\ knew' = [knew EXCEPT ![t].rows = rows]
      BY <1>1, <1>3, <2>1
    <2>5. /\ o2.at = "tasks" /\ o2.plan = plan /\ o2.next = 1 /\ o2.tasks_status = s
          /\ o2.sent = o.sent /\ o2.text = o.text /\ o2 \in Agent
      BY <1>0, <2>2, <2>3 DEF Agent
    <2> HIDE DEF o2
    <2>6. Sensible(o2) /\ o2.at \in Working
      BY <2>2, <2>3, <2>5 DEF Sensible, Working
    <2>7. Acts(t) /\ StaysWhole(t) /\ orch'[t] = o2
      BY <1>0, <2>4, <2>5, <2>6, ActsSilently
    <2> QED
      BY <1>0, <2>4, <2>5, <2>7
  <1> QED
    BY <1>2, <1>3

LEMMA UpdatedStatus ==
    ASSUME NEW o \in Agent, NEW status \in Statuses, NEW s, s = _update_task_status(o, status)
    PROVE  s \in Seq(Statuses) /\ Len(s) = Len(o.tasks_status)
  <1>1. PICK first : s = [o.tasks_status EXCEPT ![first] = status]
    BY DEF _update_task_status
  <1>2. o.tasks_status \in Seq(Statuses)
    BY DEF Agent
  <1>3. CASE first \in 1 .. Len(o.tasks_status)
    BY <1>1, <1>2, <1>3, ExceptSeq
  <1>4. CASE first \notin 1 .. Len(o.tasks_status)
    <2>1. s = o.tasks_status
      BY <1>1, <1>2, <1>4
    <2> QED
      BY <1>2, <2>1
  <1> QED
    BY <1>3, <1>4

Distinct(plan) == \A i, j \in DOMAIN plan : plan[i].id = plan[j].id => i = j

\* In a plan without duplicates the status is that of the task.
LEMMA OwnStatus ==
    ASSUME NEW o \in Agent, NEW status \in Statuses, Distinct(o.plan), o.plan \in Seq(Task),
           o.next \in 1 .. Len(o.plan)
    PROVE  _update_task_status(o, status) = [o.tasks_status EXCEPT ![o.next] = status]
  <1> DEFINE Is(i) == /\ o.plan[i].id = o.plan[o.next].id
                      /\ \A j \in 1 .. i - 1 : o.plan[j].id # o.plan[o.next].id
  <1>1. DOMAIN o.plan = 1 .. Len(o.plan) /\ Len(o.plan) \in Nat /\ o.next \in DOMAIN o.plan
    OBVIOUS
  <1>2. Is(o.next)
    <2> SUFFICES ASSUME NEW j \in 1 .. o.next - 1 PROVE o.plan[j].id # o.plan[o.next].id
      OBVIOUS
    <2>1. j \in DOMAIN o.plan /\ j # o.next
      BY <1>1
    <2> QED
      BY <1>1, <2>1 DEF Distinct
  <1>3. \A i \in DOMAIN o.plan : Is(i) => i = o.next
    BY <1>1 DEF Distinct
  <1>4. (CHOOSE i \in DOMAIN o.plan : Is(i)) = o.next
    <2> HIDE DEF Is
    <2> QED
      BY <1>1, <1>2, <1>3
  <1> QED
    BY <1>4 DEF _update_task_status

LEMMA PlanTyped ==
    ASSUME NEW o \in Agent
    PROVE  o.plan \in Seq(Task)
  <1>1. o.plan \in Plans \union {<<>>} /\ <<>> \in Seq(Task)
    BY DEF Agent
  <1> QED
    BY <1>1, OrchestratorAssumption

\* What a2a_tasks makes of the agent o.
RanTask(o, o2, status) ==
    /\ status \in {"complete", "fail"} /\ o2.plan = o.plan
    /\ o2.tasks_status = _update_task_status(o, status)
    /\ \/ o2.at = "tasks" /\ o2.next = o.next + 1
       \/ o2.at = "cards"
       \/ /\ o2.at = "recall" /\ o2.retry_count = o.retry_count
          /\ (should_retry_planning(o2.tasks_status) => o.retry_count >= MaxLoops)
          /\ (status = "fail" \/ o.next >= Len(o.plan) \/ should_retry_planning(o2.tasks_status))

LEMMA TasksAct ==
    ASSUME AllSound, NEW t \in Turn, UNCHANGED <<routing, chat, down>>, a2a_tasks(t)
    PROVE  /\ Acts(t) /\ StaysWhole(t) /\ orch[t].at = "tasks" /\ orch'[t].text = orch[t].text
           /\ \/ orch'[t].at = "tasks" /\ UNCHANGED knew
              \/ orch'[t].at \in {"cards", "recall"} /\ knew' = [knew EXCEPT ![t] = Nothing]
           /\ UNCHANGED <<history, memories>>
           /\ \E status : RanTask(orch[t], orch'[t], status)
  <1> DEFINE o == orch[t]
  <1>0. o.at = "tasks" /\ o.at \in Working /\ o \in Agent /\ Sensible(o) /\ UNCHANGED <<history, memories>>
    BY Itself, SMTT(40) DEF a2a_tasks, At, Working
  <1>1. PICK result \in a2a_stream(o.plan[o.next]) :
         LET after == [o EXCEPT !.tasks_status = _update_task_status(o, StatusOf(result)), !.next = @ + 1]
         IN  IF result # "fail" /\ o.next < Len(o.plan)
             THEN orch' = [orch EXCEPT ![t] = after] /\ UNCHANGED <<up, knew>>
             ELSE /\ Emit(t, IF Replans(after)
                             THEN [after EXCEPT !.at = "cards", !.retry_count = @ + 1, !.next = 1]
                             ELSE ToAnswer(after))
                  /\ knew' = [knew EXCEPT ![t] = Nothing]
    BY DEF a2a_tasks
  <1>2. result \in {"exception", "fail", "complete"}
    BY DEF a2a_stream, get_last_step_status
  <1>3. PICK status \in {"complete", "fail"} : status = StatusOf(result) /\ (result = "fail" => status = "fail")
    BY <1>2 DEF StatusOf
  <1>4. PICK s : s = _update_task_status(o, status)
    OBVIOUS
  <1>5. s \in Seq(Statuses) /\ Len(s) = Len(o.tasks_status)
    BY <1>0, <1>3, <1>4, UpdatedStatus DEF Statuses
  <1>6. Len(o.plan) \in Nat /\ o.next \in 1 .. Len(o.plan)
    <2>1. Len(o.plan) \in Nat
      BY <1>0, PlanTyped
    <2> QED
      BY <1>0, <2>1 DEF Sensible
  <1> DEFINE after == [o EXCEPT !.tasks_status = s, !.next = @ + 1]
  <1>7. /\ after \in Agent /\ after.tasks_status = s /\ after.next = o.next + 1 /\ after.plan = o.plan
        /\ after.at = "tasks" /\ after.sent = o.sent /\ after.text = o.text /\ after.retry_count = o.retry_count
        /\ o.next + 1 \in 2 .. Len(o.plan) + 1
    <2>1. o.next + 1 \in 2 .. Len(o.plan) + 1 /\ o.next + 1 \in Nat
      BY <1>6
    <2>2. /\ after.tasks_status = s /\ after.next = o.next + 1 /\ after.plan = o.plan
          /\ after.at = "tasks" /\ after.sent = o.sent /\ after.text = o.text
          /\ after.retry_count = o.retry_count
      BY <1>0 DEF Agent
    <2>3. after \in Agent
      BY <1>0, <1>5, <2>1 DEF Agent
    <2> QED
      BY <2>1, <2>2, <2>3
  <1>8. IF result # "fail" /\ o.next < Len(o.plan)
        THEN orch' = [orch EXCEPT ![t] = after] /\ UNCHANGED <<up, knew>>
        ELSE /\ Emit(t, IF Replans(after)
                        THEN [after EXCEPT !.at = "cards", !.retry_count = @ + 1, !.next = 1]
                        ELSE ToAnswer(after))
             /\ knew' = [knew EXCEPT ![t] = Nothing]
    BY <1>1, <1>3, <1>4
  <1> HIDE DEF after
  <1>9. CASE result # "fail" /\ o.next < Len(o.plan)
    <2>1. Sensible(after) /\ after.at \in Working
      BY <1>0, <1>5, <1>6, <1>7, <1>9 DEF Sensible, Working
    <2>2. Acts(t) /\ StaysWhole(t) /\ orch'[t] = after
      BY <1>0, <1>7, <1>8, <1>9, <2>1, ActsSilently
    <2>3. RanTask(o, orch'[t], status)
      BY <1>3, <1>4, <1>7, <2>2 DEF RanTask
    <2> QED
      BY <1>0, <1>7, <1>8, <1>9, <2>2, <2>3
  <1>10. CASE ~(result # "fail" /\ o.next < Len(o.plan)) /\ Replans(after)
    <2> DEFINE o2 == [after EXCEPT !.at = "cards", !.retry_count = @ + 1, !.next = 1]
    <2>1. Emit(t, o2) /\ knew' = [knew EXCEPT ![t] = Nothing]
      BY <1>8, <1>10
    <2>2. o.retry_count + 1 \in 0 .. MaxLoops
      <3>1. o.retry_count \in 0 .. MaxLoops /\ o.retry_count < MaxLoops
        BY <1>0, <1>7, <1>10, AgentParts DEF Replans
      <3> QED
        BY <3>1, Consts
    <2>3. o2 \in Agent /\ o2.at = "cards" /\ o2.next = 1 /\ o2.plan = o.plan /\ o2.tasks_status = s
          /\ o2.text = o.text /\ o2.sent = o.sent
      BY <1>7, <2>2 DEF Agent
    <2> HIDE DEF o2
    <2>4. Sensible(o2) /\ o2.at \in Working
      BY <1>0, <1>5, <1>6, <2>3 DEF Sensible, Working
    <2>5. /\ Acts(t) /\ StaysWhole(t) /\ orch'[t].at = o2.at /\ orch'[t].text = o2.text
          /\ orch'[t].tasks_status = o2.tasks_status /\ orch'[t].plan = o2.plan
      BY <1>0, <2>1, <2>3, <2>4, ActsAloud
    <2>6. RanTask(o, orch'[t], status)
      BY <1>3, <1>4, <2>3, <2>5 DEF RanTask
    <2> QED
      BY <1>0, <2>1, <2>3, <2>5, <2>6
  <1>11. CASE ~(result # "fail" /\ o.next < Len(o.plan)) /\ ~Replans(after)
    <2> DEFINE o2 == ToAnswer(after)
    <2>1. Emit(t, o2) /\ knew' = [knew EXCEPT ![t] = Nothing]
      BY <1>8, <1>11
    <2>3. o2 \in Agent /\ o2.at = "recall" /\ o2.next = o.next + 1 /\ o2.plan = o.plan /\ o2.tasks_status = s
          /\ o2.text = o.text /\ o2.sent = o.sent /\ o2.retry_count = o.retry_count
      BY <1>7 DEF Agent, ToAnswer
    <2> HIDE DEF o2
    <2>4. Sensible(o2) /\ o2.at \in Working
      BY <1>0, <1>5, <1>6, <2>3 DEF Sensible, Working
    <2>5. /\ Acts(t) /\ StaysWhole(t) /\ orch'[t].at = o2.at /\ orch'[t].text = o2.text
          /\ orch'[t].tasks_status = o2.tasks_status /\ orch'[t].plan = o2.plan
          /\ orch'[t].retry_count = o2.retry_count
      BY <1>0, <2>1, <2>3, <2>4, ActsAloud
    <2>6. should_retry_planning(s) => o.retry_count >= MaxLoops
      <3>1. o.retry_count \in Nat
        BY <1>0, Consts, AgentParts
      <3> QED
        BY <1>7, <1>11, <3>1, Consts DEF Replans
    <2>7. status = "fail" \/ o.next >= Len(o.plan)
      BY <1>0, <1>3, <1>6, <1>11
    <2>8. RanTask(o, orch'[t], status)
      BY <1>3, <1>4, <2>3, <2>5, <2>6, <2>7 DEF RanTask
    <2> QED
      BY <1>0, <2>1, <2>3, <2>5, <2>8
  <1> QED
    BY <1>9, <1>10, <1>11

LEMMA RecallAct ==
    ASSUME AllSound, NEW t \in Turn, UNCHANGED <<routing, chat, down>>,
           NEW rows, NEW items, RecallKnowing(t, rows, items)
    PROVE  /\ Acts(t) /\ StaysWhole(t) /\ orch[t].at = "recall" /\ orch'[t].at = "stream"
           /\ orch'[t].text = orch[t].text
           /\ knew' = [knew EXCEPT ![t] = [rows |-> rows, items |-> items]]
           /\ UNCHANGED <<history, memories>>
  <1> DEFINE o == orch[t]
             o2 == [Forget(o) EXCEPT !.at = "stream"]
  <1>0. o.at = "recall" /\ o.at \in Working /\ o \in Agent /\ UNCHANGED <<history, memories, up>>
        /\ orch' = [orch EXCEPT ![t] = o2] /\ knew' = [knew EXCEPT ![t] = [rows |-> rows, items |-> items]]
    BY Itself DEF RecallKnowing, At, Working
  <1>1. /\ o2.at = "stream" /\ o2.text = o.text /\ o2.sent = o.sent /\ o2.plan = <<>>
        /\ o2.tasks_status = <<>> /\ o2.next = 1 /\ o2 \in Agent
    <2>1. o.sent \in Nat /\ o.text \in 0 .. MaxText /\ 0 \in 0 .. MaxLoops /\ <<>> \in Seq(Statuses)
      BY <1>0, Consts, AgentParts
    <2>2. /\ o2.at = "stream" /\ o2.text = o.text /\ o2.sent = o.sent /\ o2.plan = <<>>
          /\ o2.tasks_status = <<>> /\ o2.next = 1
      BY <1>0 DEF Forget, Agent
    <2>3. o2 \in Agent
      BY <1>0, <2>1 DEF Forget, Agent
    <2> QED
      BY <2>2, <2>3
  <1> HIDE DEF o2
  <1>2. Sensible(o2) /\ o2.at \in Working
    BY <1>1 DEF Sensible, Working
  <1>3. Acts(t) /\ StaysWhole(t) /\ orch'[t] = o2
    BY <1>0, <1>1, <1>2, ActsSilently
  <1> QED
    BY <1>0, <1>1, <1>3

LEMMA StreamAct ==
    ASSUME AllSound, NEW t \in Turn, UNCHANGED <<routing, chat, down>>, stream(t)
    PROVE  /\ Acts(t) /\ StaysWhole(t) /\ orch[t].at = "stream"
           /\ \/ orch'[t].at = "stream" /\ UNCHANGED knew
              \/ orch'[t].at = "store" /\ knew' = [knew EXCEPT ![t] = Nothing]
           /\ UNCHANGED <<history, memories>>
  <1> DEFINE o == orch[t]
  <1>0. o.at = "stream" /\ o.at \in Working /\ o \in Agent /\ Sensible(o) /\ UNCHANGED <<history, memories>>
    BY Itself DEF stream, At, Working
  <1>1. CASE o.text < MaxText /\ Emit(t, [o EXCEPT !.text = @ + 1]) /\ UNCHANGED knew
    <2> DEFINE o2 == [o EXCEPT !.text = @ + 1]
    <2>0. o.text + 1 \in 0 .. MaxText
      BY <1>0, <1>1, OrchestratorAssumption, SMTT(40) DEF Agent
    <2>1. /\ o2.at = "stream" /\ o2.sent = o.sent /\ o2.plan = o.plan
          /\ o2.tasks_status = o.tasks_status /\ o2.next = o.next /\ o2 \in Agent
      BY <1>0, <2>0 DEF Agent
    <2> HIDE DEF o2
    <2>2. Sensible(o2) /\ o2.at \in Working
      BY <1>0, <2>1 DEF Sensible, Working
    <2>3. Emit(t, o2)
      BY <1>1 DEF o2
    <2> QED
      BY <1>0, <1>1, <2>1, <2>2, <2>3, ActsAloud
  <1>2. CASE /\ orch' = [orch EXCEPT ![t].at = "store"]
             /\ up' = [up EXCEPT ![t] = End(@, "complete")]
             /\ knew' = [knew EXCEPT ![t] = Nothing]
    <2> DEFINE o2 == [o EXCEPT !.at = "store"]
               u2 == End(up[t], "complete")
    <2>1. Sensible(o2) /\ o2.at = "store" /\ o2.sent = o.sent
      BY <1>0 DEF Sensible, Agent
    <2>2. Moves(t, routing[t], chat[t], o2, u2, down[t])
      BY <1>2, Itself DEF Moves, AllSound
    <2>4. u2.end \in {"closed", "broken"} => up[t].end \in {"closed", "broken"}
      BY Itself DEF End, Wire
    <2> HIDE DEF o2
    <2>3. Sound(routing[t], chat[t], o2, u2, down[t])
      BY <1>0, <2>1, Itself, Completed
    <2> HIDE DEF u2
    <2>5. /\ AllSound' /\ Elsewhere(t)
          /\ routing'[t] = routing[t] /\ chat'[t] = chat[t] /\ down'[t] = down[t]
          /\ orch'[t] = o2 /\ up'[t] = u2
      BY <2>2, <2>3, MovesSound
    <2> QED
      BY <1>0, <1>2, <2>1, <2>4, <2>5 DEF Acts, StaysWhole
  <1> QED
    BY <1>1, <1>2 DEF stream

\* Storing and remembering.
LEMMA LateAct ==
    ASSUME AllSound, NEW t \in Turn, UNCHANGED <<routing, chat, down, up>>, NEW place,
           \/ orch[t].at = "store" /\ place = "remember"
           \/ orch[t].at = "remember" /\ place = "done",
           orch' = [orch EXCEPT ![t].at = place]
    PROVE  /\ Acts(t) /\ StaysWhole(t) /\ orch'[t].at = place /\ orch'[t].text = orch[t].text
           /\ up'[t] = up[t]
  <1> DEFINE o == orch[t]
             o2 == [o EXCEPT !.at = place]
  <1>0. o.at \in {"store", "remember"} /\ o \in Agent /\ Sensible(o) /\ orch' = [orch EXCEPT ![t] = o2]
    BY Itself DEF AllSound
  <1>1. Sensible(o2) /\ o2.at = place /\ o2.sent = o.sent /\ o2.text = o.text /\ place \in {"remember", "done"}
    BY <1>0 DEF Sensible, Agent
  <1>2. Moves(t, routing[t], chat[t], o2, up[t], down[t])
    BY <1>0, Itself DEF Moves
  <1> HIDE DEF o2
  <1>3. Sound(routing[t], chat[t], o2, up[t], down[t])
    BY <1>0, <1>1, Itself, Kept
  <1>4. /\ AllSound' /\ Elsewhere(t)
        /\ routing'[t] = routing[t] /\ chat'[t] = chat[t] /\ down'[t] = down[t]
        /\ orch'[t] = o2 /\ up'[t] = up[t]
    BY <1>2, <1>3, MovesSound
  <1> QED
    BY <1>0, <1>1, <1>4 DEF Acts, StaysWhole

\* An exception ends an agent.
LEMMA AbortAct ==
    ASSUME AllSound, NEW t \in Turn, UNCHANGED <<routing, chat, down>>, Abort(t),
           orch[t].at \in Working \union {"store"}
    PROVE  /\ Acts(t) /\ orch'[t].at = "done" /\ knew' = [knew EXCEPT ![t] = Nothing]
  <1> DEFINE o == orch[t]
             o2 == [Forget(o) EXCEPT !.at = "done"]
  <1>0. o \in Agent /\ orch' = [orch EXCEPT ![t] = o2] /\ knew' = [knew EXCEPT ![t] = Nothing]
    BY Itself DEF Abort
  <1>1. /\ o2.at = "done" /\ o2.sent = o.sent /\ o2.plan = <<>>
        /\ o2.tasks_status = <<>> /\ o2.next = 1 /\ o2 \in Agent
    <2>1. o.sent \in Nat /\ o.text \in 0 .. MaxText /\ 0 \in 0 .. MaxLoops /\ <<>> \in Seq(Statuses)
      BY <1>0, Consts, AgentParts
    <2>2. /\ o2.at = "done" /\ o2.text = o.text /\ o2.sent = o.sent /\ o2.plan = <<>>
          /\ o2.tasks_status = <<>> /\ o2.next = 1
      BY <1>0 DEF Forget, Agent
    <2>3. o2 \in Agent
      BY <1>0, <2>1 DEF Forget, Agent
    <2> QED
      BY <2>2, <2>3
  <1> HIDE DEF o2
  <1>2. Sensible(o2)
    BY <1>1 DEF Sensible
  <1>3. PICK u2 \in Fails(up[t]) : up' = [up EXCEPT ![t] = u2]
    BY DEF Abort
  <1>4. Sound(routing[t], chat[t], o2, u2, down[t])
    BY <1>1, <1>2, <1>3, Itself, Aborted
  <1>5. Moves(t, routing[t], chat[t], o2, u2, down[t])
    BY <1>0, <1>3, Itself DEF Moves
  <1>6. /\ AllSound' /\ Elsewhere(t)
        /\ routing'[t] = routing[t] /\ chat'[t] = chat[t] /\ down'[t] = down[t] /\ orch'[t] = o2
    BY <1>4, <1>5, MovesSound
  <1> QED
    BY <1>0, <1>1, <1>6 DEF Acts, Working

\* The steps of the routing agent.
LEMMA RoutingAct ==
    ASSUME AllSound, NEW t \in Turn, UNCHANGED chat, get_plan(t) \/ relay(t) \/ finish(t)
    PROVE  /\ AllSound' /\ Elsewhere(t) /\ routing[t] # "off" /\ routing'[t] # "off"
           /\ chat'[t] = chat[t] /\ up'[t].end = up[t].end
           /\ orch'[t] = orch[t] \/ (orch[t].at = "off" /\ orch'[t].at = "cards" /\ up'[t] = up[t])
           /\ down'[t].end \in {"closed", "broken"} =>
                down[t].end \in {"closed", "broken"} \/ up[t].end \in {"closed", "broken"}
  <1> DEFINE q == chat[t]
             o == orch[t]
             u == up[t]
             d == down[t]
  <1>0. Sound(routing[t], q, o, u, d) /\ u \in Wire /\ d \in Wire /\ o \in Agent
    BY Itself
  <1>1. CASE /\ routing[t] = "plan" /\ routing' = [routing EXCEPT ![t] = "relay"]
             /\ orch' = [orch EXCEPT ![t].at = "cards"] /\ UNCHANGED <<down, up>>
    <2> DEFINE o2 == [o EXCEPT !.at = "cards"]
    <2>1. o2.at = "cards" /\ orch' = [orch EXCEPT ![t] = o2] /\ o.at = "off"
      BY <1>0, <1>1 DEF Agent, AllSound, Sound, Fits
    <2>2. Sound("plan", q, o, u, d)
      BY <1>0, <1>1
    <2>3. Sound("relay", q, o2, u, d)
      BY <2>2, Routed
    <2>4. Moves(t, "relay", q, o2, u, d)
      BY <1>1, <2>1, Itself DEF Moves
    <2> HIDE DEF o2
    <2>5. /\ AllSound' /\ Elsewhere(t) /\ routing'[t] = "relay"
          /\ chat'[t] = q /\ down'[t] = d /\ orch'[t] = o2 /\ up'[t] = u
      BY <2>3, <2>4, MovesSound
    <2> QED
      BY <1>1, <2>1, <2>5
  <1>2. CASE /\ routing[t] = "plan" /\ routing' = [routing EXCEPT ![t] = "done"]
             /\ down' = [down EXCEPT ![t] = End(Publish(@, Apology), "complete")]
             /\ UNCHANGED <<orch, up>>
    <2> DEFINE d2 == End(Publish(d, Apology), "complete")
    <2>1. d2.end \in {"closed", "broken"} => d.end \in {"closed", "broken"}
      BY <1>0 DEF End, Publish, Wire
    <2>2. Sound("plan", q, o, u, d)
      BY <1>0, <1>2
    <2>3. Sound("done", q, o, u, d2)
      BY <2>2, NobodyFound
    <2>4. Moves(t, "done", q, o, u, d2)
      BY <1>2, Itself DEF Moves, AllSound
    <2> HIDE DEF d2
    <2>5. /\ AllSound' /\ Elsewhere(t) /\ routing'[t] = "done"
          /\ chat'[t] = q /\ down'[t] = d2 /\ orch'[t] = o /\ up'[t] = u
      BY <2>3, <2>4, MovesSound
    <2> QED
      BY <1>2, <2>1, <2>5
  <1>3. CASE relay(t)
    <2> DEFINE u2 == [u EXCEPT !.events = Tail(@)]
               d2 == Publish(d, Head(u.events))
    <2>1. d2.end = d.end /\ u2.end = u.end /\ routing[t] = "relay"
      BY <1>0, <1>3 DEF Publish, Wire, relay
    <2>2. Sound("relay", q, o, u, d) /\ u.events # <<>> /\ Room(d)
      BY <1>0, <1>3 DEF relay
    <2>3. Sound("relay", q, o, u2, d2)
      BY <2>2, RelayedOne
    <2>4. Moves(t, "relay", q, o, u2, d2)
      BY <1>3, Itself DEF Moves, AllSound, relay
    <2> HIDE DEF u2, d2
    <2>5. /\ AllSound' /\ Elsewhere(t) /\ routing'[t] = "relay"
          /\ chat'[t] = q /\ down'[t] = d2 /\ orch'[t] = o /\ up'[t] = u2
      BY <2>3, <2>4, MovesSound
    <2> QED
      BY <2>1, <2>5
  <1>4. CASE finish(t)
    <2> DEFINE how == IF u.end = "broken" THEN "closed" ELSE "complete"
               d2 == End(d, how)
    <2>1. d2.end \in {"closed", "broken"} => d.end \in {"closed", "broken"} \/ u.end = "broken"
      BY <1>0 DEF End, Wire
    <2>2. Sound("relay", q, o, u, d) /\ u.events = <<>> /\ u.end # "open" /\ routing[t] = "relay"
      BY <1>0, <1>4 DEF finish
    <2>3. Sound("done", q, o, u, d2)
      BY <2>2, Finished
    <2>4. Moves(t, "done", q, o, u, d2)
      BY <1>4, Itself DEF Moves, AllSound, finish
    <2> HIDE DEF d2
    <2>5. /\ AllSound' /\ Elsewhere(t) /\ routing'[t] = "done"
          /\ chat'[t] = q /\ down'[t] = d2 /\ orch'[t] = o /\ up'[t] = u
      BY <2>3, <2>4, MovesSound
    <2> QED
      BY <2>1, <2>2, <2>5
  <1> QED
    BY <1>1, <1>2, <1>3, <1>4 DEF get_plan

LEMMA RoutingFault ==
    ASSUME AllSound, NEW t \in Turn, RoutingRaise(t), UNCHANGED chat
    PROVE  /\ AllSound' /\ Elsewhere(t) /\ routing[t] # "off" /\ routing'[t] # "off"
           /\ chat'[t] = chat[t] /\ up'[t].end = up[t].end /\ orch'[t] = orch[t]
  <1>1. PICK how \in {"closed", "broken"} : down' = [down EXCEPT ![t] = End(@, how)]
    BY DEF RoutingRaise
  <1>2. routing[t] = "plan" /\ routing' = [routing EXCEPT ![t] = "done"] /\ UNCHANGED <<orch, up>>
    BY DEF RoutingRaise
  <1> DEFINE d2 == End(down[t], how)
  <1>3. Sound("plan", chat[t], orch[t], up[t], down[t])
    BY <1>2, Itself
  <1>4. Sound("done", chat[t], orch[t], up[t], d2)
    BY <1>3, RoutingFailed
  <1>5. Moves(t, "done", chat[t], orch[t], up[t], d2)
    BY <1>1, <1>2, Itself DEF Moves, AllSound
  <1> HIDE DEF d2
  <1>6. /\ AllSound' /\ Elsewhere(t) /\ routing'[t] = "done"
        /\ chat'[t] = chat[t] /\ orch'[t] = orch[t] /\ up'[t] = up[t]
    BY <1>4, <1>5, MovesSound
  <1> QED
    BY <1>2, <1>6

LEMMA LinkFault ==
    ASSUME AllSound, NEW t \in Turn, LinkBreaks(t)
    PROVE  /\ AllSound' /\ Elsewhere(t) /\ routing[t] # "off" /\ routing'[t] # "off"
           /\ chat'[t] = chat[t] /\ orch'[t] = orch[t]
           /\ up'[t].end = up[t].end \/ up[t].end = "open"
  <1> DEFINE r == routing[t]
             q == chat[t]
             o == orch[t]
             u == up[t]
             d == down[t]
  <1>0. Sound(r, q, o, u, d) /\ UNCHANGED <<orch, routing, chat>>
    BY Itself DEF LinkBreaks, chatVars
  <1>1. CASE r = "relay" /\ u.end = "open" /\ up' = [up EXCEPT ![t].end = "broken"] /\ UNCHANGED down
    <2> DEFINE u2 == [u EXCEPT !.end = "broken"]
    <2>1. Sound(r, q, o, u2, d)
      BY <1>0, <1>1, Broken
    <2>2. Moves(t, r, q, o, u2, d)
      BY <1>0, <1>1, Itself DEF Moves, AllSound
    <2> HIDE DEF u2
    <2>3. /\ AllSound' /\ Elsewhere(t) /\ routing'[t] = r /\ chat'[t] = q /\ orch'[t] = o
      BY <2>1, <2>2, MovesSound
    <2> QED
      BY <1>1, <2>3
  <1>2. CASE q.end = "waiting" /\ d.end = "open" /\ down' = [down EXCEPT ![t].end = "broken"] /\ UNCHANGED up
    <2> DEFINE d2 == [d EXCEPT !.end = "broken"]
    <2>0. r # "off"
      BY <1>0, <1>2 DEF Sound, Fits
    <2>1. Sound(r, q, o, u, d2)
      BY <1>0, <1>2, <2>0, Broken
    <2>2. Moves(t, r, q, o, u, d2)
      BY <1>0, <1>2, Itself DEF Moves, AllSound
    <2> HIDE DEF d2
    <2>3. /\ AllSound' /\ Elsewhere(t) /\ routing'[t] = r /\ chat'[t] = q /\ orch'[t] = o /\ up'[t] = u
      BY <2>1, <2>2, MovesSound
    <2> QED
      BY <2>0, <2>3
  <1> QED
    BY <1>1, <1>2 DEF LinkBreaks

(***************************************************************************)
(* What is stored, and what is found                                       *)
(***************************************************************************)

\* The number of a finite set's later members falls along it.
LEMMA Later ==
    ASSUME NEW S, IsFiniteSet(S), S \subseteq Int, NEW i \in Int, NEW j \in Int, j <= i
    PROVE  /\ IsFiniteSet({k \in S : k > i}) /\ Cardinality({k \in S : k > i}) \in Nat
           /\ Cardinality({k \in S : k > i}) <= Cardinality({k \in S : k > j})
           /\ Cardinality({k \in S : k > i}) <= Cardinality(S)
  <1>1. {k \in S : k > i} \subseteq {k \in S : k > j} /\ {k \in S : k > j} \subseteq S
        /\ {k \in S : k > i} \subseteq S
    <2>1. \A k \in S : k > i => k > j
      OBVIOUS
    <2> QED
      BY <2>1
  <1>2. IsFiniteSet({k \in S : k > j})
    BY <1>1, FS_Subset
  <1> QED
    BY <1>1, <1>2, FS_Subset, FS_CardinalityType

\* One row more, behind the others.
LEMMA OneRowMore ==
    ASSUME NEW own, IsFiniteSet(own), NEW n \in Nat, own \subseteq 1 .. n, NEW limit \in Nat \ {0}
    PROVE  LastOf(own \union {n + 1}, limit) = LastOf(own, limit - 1) \union {n + 1}
  <1> DEFINE all == own \union {n + 1}
             After(S, i) == {j \in S : j > i}
  <1>1. \A i \in own : /\ After(all, i) = After(own, i) \union {n + 1} /\ n + 1 \notin After(own, i)
                       /\ IsFiniteSet(After(own, i))
    <2> SUFFICES ASSUME NEW i \in own
                 PROVE  /\ After(all, i) = After(own, i) \union {n + 1} /\ n + 1 \notin After(own, i)
                        /\ IsFiniteSet(After(own, i))
      OBVIOUS
    <2>1. i \in 1 .. n /\ n + 1 > i /\ n + 1 \notin own
      OBVIOUS
    <2>2. After(own, i) \subseteq own
      OBVIOUS
    <2> QED
      BY <2>1, <2>2, FS_Subset
  <1>2. \A i \in own : /\ Cardinality(After(all, i)) = Cardinality(After(own, i)) + 1
                       /\ Cardinality(After(own, i)) \in Nat
    <2> SUFFICES ASSUME NEW i \in own
                 PROVE  /\ Cardinality(After(all, i)) = Cardinality(After(own, i)) + 1
                        /\ Cardinality(After(own, i)) \in Nat
      OBVIOUS
    <2> HIDE DEF After
    <2> QED
      BY <1>1, FS_AddElement, FS_CardinalityType
  <1>3. Cardinality(After(all, n + 1)) = 0
    <2>1. \A j \in all : ~ (j > n + 1)
      OBVIOUS
    <2>2. After(all, n + 1) = {}
      BY <2>1
    <2> QED
      BY <2>2, FS_EmptySet
  <1>4. \A i \in all : i \in LastOf(all, limit) <=> Cardinality(After(all, i)) < limit
    BY DEF LastOf
  <1>5. \A i \in own : i \in LastOf(own, limit - 1) <=> Cardinality(After(own, i)) < limit - 1
    BY DEF LastOf
  <1>6. LastOf(all, limit) \subseteq all /\ LastOf(own, limit - 1) \subseteq own
    BY DEF LastOf
  <1>7. n + 1 \notin own
    OBVIOUS
  <1> HIDE DEF After
  <1>8. \A i \in own : i \in LastOf(all, limit) <=> i \in LastOf(own, limit - 1)
    <2> SUFFICES ASSUME NEW i \in own
                 PROVE  i \in LastOf(all, limit) <=> i \in LastOf(own, limit - 1)
      OBVIOUS
    <2>1. PICK c \in Nat : c = Cardinality(After(own, i))
      BY <1>2
    <2>2. Cardinality(After(all, i)) = c + 1
      BY <1>2, <2>1
    <2>3. c + 1 < limit <=> c < limit - 1
      OBVIOUS
    <2> HIDE DEF all
    <2>4. i \in all
      BY DEF all
    <2> QED
      BY <1>4, <1>5, <2>1, <2>2, <2>3, <2>4
  <1>9. n + 1 \in LastOf(all, limit)
    BY <1>3, <1>4
  <1> QED
    BY <1>6, <1>8, <1>9

(***************************************************************************)
(* A step of a turn that has been asked                                    *)
(***************************************************************************)

Known == [rows : SUBSET Row, items : SUBSET Item]
Informed == {"tasks", "stream"}

\* Only a fault closes or breaks a stream, and only then a client leaves.
Whole(t) ==
    \/ Fault
    \/ /\ faults' = faults /\ StaysWhole(t)
       /\ down'[t].end \in {"closed", "broken"} =>
            down[t].end \in {"closed", "broken"} \/ up[t].end \in {"closed", "broken"}
       /\ chat'[t].end = "left" => chat[t].end = "left"

\* A request ends once, and one for a whole answer names its run.
ClientSide(t) ==
    /\ \/ chat'[t].end = chat[t].end
       \/ /\ chat[t].end = "waiting" /\ chat'[t].end \in {"stop", "left"}
          /\ client = "whole" => named' = run_id[t]
    /\ named' \in {named, run_id[t]}

\* An agent that has stored its answer has no more to do with its turn.
Late(t) ==
    orch[t].at \in {"remember", "done"} =>
        /\ orch'[t].at \in {"remember", "done"} /\ (orch[t].at = "done" => orch'[t].at = "done")
        /\ orch'[t].text = orch[t].text /\ up'[t].end = up[t].end

\* What it knows stays, is forgotten, or is what it has just looked up.
Stays(t) ==
    knew'[t] = knew[t] /\ (orch'[t].at = orch[t].at \/ {orch[t].at, orch'[t].at} \cap Informed = {})
Forgets(t) == knew'[t] = Nothing /\ orch'[t].at \notin Informed
LimitAt(place) == IF place = "tasks" THEN PlannerLimit ELSE AnswerLimit
Informs(t) ==
    /\ orch[t].at \in {"plan", "recall"} /\ orch'[t].at \in Informed
    /\ \/ knew'[t].rows = {} /\ (EnableHistory => faults' > 0)
       \/ knew'[t].rows = get_by_user_agent_run(run_id[t], LimitAt(orch'[t].at))
    /\ knew'[t].items \in {{}, search_memory_items(run_id[t])}
Knows(t) ==
    /\ knew' \in [Turn -> Known] /\ \A s \in Turn \ {t} : knew'[s] = knew[s]
    /\ Stays(t) \/ Forgets(t) \/ Informs(t)

\* The history and the memories stay, or become more by its turn.
Adds(t) ==
    /\ EnableHistory /\ orch[t].at = "store" /\ orch'[t].at = "remember"
    /\ orch'[t].text = orch[t].text /\ up'[t] = up[t] /\ knew' = knew
    /\ create_history_record(run_id[t], t, orch[t].text)
Remembers(t) ==
    /\ orch[t].at = "remember" /\ orch'[t].at = "done" /\ knew' = knew
    /\ add_memory_item(run_id[t], t)
Stores(t) ==
    \/ /\ UNCHANGED <<history, memories>>
       /\ orch'[t].at = "remember" => orch[t].at = "remember" \/ ~ EnableHistory
    \/ Adds(t) \/ Remembers(t)

\* Tasks are begun with, or run one by one.
Tasks(t) ==
    /\ orch[t].at # "tasks" /\ orch'[t].at = "tasks" => orch'[t].next = 1
    /\ orch[t].at = "tasks" /\ orch'[t].at \in {"tasks", "recall"} =>
         orch'[t] = orch[t] \/ \E status : RanTask(orch[t], orch'[t], status)

Proceeds(t) ==
    /\ AllSound' /\ Elsewhere(t) /\ routing[t] # "off" /\ routing'[t] # "off"
    /\ UNCHANGED <<run_id, stored, runs, client>>
    /\ Whole(t) /\ ClientSide(t) /\ Late(t) /\ Knows(t) /\ Stores(t) /\ Tasks(t)

\* An agent knows nothing but while it runs tasks or streams.
Forgetful == \A t \in Turn : orch[t].at \notin Informed => knew[t] = Nothing

LEMMA KnowsSame ==
    ASSUME DataOK, NEW t \in Turn, UNCHANGED knew,
           orch'[t].at = orch[t].at \/ {orch[t].at, orch'[t].at} \cap Informed = {}
    PROVE  Knows(t)
  BY DEF DataOK, Known, Knows, Stays

LEMMA KnowsNothing ==
    ASSUME DataOK, NEW t \in Turn, knew' = [knew EXCEPT ![t] = Nothing], orch'[t].at \notin Informed
    PROVE  Knows(t)
  <1>1. Nothing \in Known
    BY DEF Nothing, Known
  <1> QED
    BY <1>1 DEF DataOK, Known, Knows, Forgets

LEMMA Found ==
    ASSUME DataOK, NEW run, NEW limit
    PROVE  /\ get_by_user_agent_run(run, limit) \subseteq {history[i] : i \in DOMAIN history}
           /\ {history[i] : i \in DOMAIN history} \subseteq Row
           /\ search_memory_items(run) \subseteq memories /\ memories \subseteq Item
           /\ \A row \in get_by_user_agent_run(run, limit) : row.run = run
           /\ \A item \in search_memory_items(run) : item.run = run
  <1>1. history \in Seq(Row) /\ memories \subseteq Item
    BY DEF DataOK, HistoryTypeOK, Row, Item
  <1>2. \A i \in DOMAIN history : history[i] \in Row
    BY <1>1
  <1>3. LastOf(RowsOf(run), limit) \subseteq RowsOf(run) /\ RowsOf(run) \subseteq DOMAIN history
        /\ \A i \in RowsOf(run) : history[i].run = run
    BY DEF LastOf, RowsOf
  <1> QED
    BY <1>1, <1>2, <1>3 DEF get_by_user_agent_run, search_memory_items

LEMMA KnowsFound ==
    ASSUME DataOK, NEW t \in Turn, NEW rows, NEW items, knew' = [knew EXCEPT ![t] = [rows |-> rows, items |-> items]],
           orch[t].at \in {"plan", "recall"}, orch'[t].at \in Informed,
           \/ rows = {} /\ (EnableHistory => faults' > 0)
           \/ rows = get_by_user_agent_run(run_id[t], LimitAt(orch'[t].at)),
           items \in {{}, search_memory_items(run_id[t])}
    PROVE  Knows(t)
  <1>1. rows \subseteq Row /\ items \subseteq Item
    BY Found
  <1>2. [rows |-> rows, items |-> items] \in Known
    BY <1>1 DEF Known
  <1>3. knew \in [Turn -> Known]
    BY DEF DataOK, Known
  <1>4. knew' \in [Turn -> Known] /\ (\A s \in Turn \ {t} : knew'[s] = knew[s])
        /\ knew'[t] = [rows |-> rows, items |-> items]
    BY <1>2, <1>3
  <1>5. knew'[t].rows = rows /\ knew'[t].items = items
    BY <1>4
  <1>6. Informs(t)
    BY <1>5 DEF Informs
  <1> QED
    BY <1>4, <1>6 DEF Knows

\* An agent's step in these terms.
LEMMA ActsProceeds ==
    ASSUME AllSound, NEW t \in Turn, Acts(t), UNCHANGED <<run_id, chatVars>>,
           Fault \/ (faults' = faults /\ StaysWhole(t)),
           Late(t), Knows(t), Stores(t), Tasks(t)
    PROVE  Proceeds(t)
  <1>1. routing[t] # "off"
    BY Itself DEF Acts, Sound, Fits
  <1>2. Whole(t) /\ ClientSide(t)
    BY DEF Whole, ClientSide, Acts, chatVars
  <1> QED
    BY <1>1, <1>2 DEF Proceeds, Acts, chatVars

LEMMA PlanProceeds ==
    ASSUME AllSound, DataOK, Forgetful, NEW t \in Turn, UNCHANGED <<run_id, routing, chatVars, down>>,
           NEW rows, PlanKnowing(t, rows),
           \/ rows = {} /\ (EnableHistory => faults' > 0)
           \/ rows = get_by_user_agent_run(run_id[t], PlannerLimit),
           Fault \/ faults' = faults
    PROVE  Proceeds(t)
  <1>0. UNCHANGED <<routing, chat, down>>
    BY DEF chatVars
  <1>1. /\ Acts(t) /\ StaysWhole(t) /\ orch[t].at = "plan"
        /\ \/ orch'[t].at = "recall" /\ UNCHANGED knew
           \/ orch'[t].at = "tasks" /\ orch'[t].next = 1 /\ knew' = [knew EXCEPT ![t].rows = rows]
        /\ UNCHANGED <<history, memories>>
    BY <1>0, PlanAct
  <1>2. Knows(t)
    <2>1. CASE orch'[t].at = "recall" /\ UNCHANGED knew
      BY <1>1, <2>1, KnowsSame DEF Informed
    <2>2. CASE orch'[t].at = "tasks" /\ knew' = [knew EXCEPT ![t].rows = rows]
      <3>1. knew[t] = Nothing
        BY <1>1 DEF Forgetful, Informed
      <3>2. knew' = [knew EXCEPT ![t] = [rows |-> rows, items |-> {}]]
        <4>1. knew[t] = [rows |-> {}, items |-> {}]
          BY <3>1 DEF Nothing
        <4>2. [knew[t] EXCEPT !.rows = rows] = [rows |-> rows, items |-> {}]
          BY <4>1
        <4>3. knew' = [knew EXCEPT ![t] = [knew[t] EXCEPT !.rows = rows]]
          BY <2>2
        <4> QED
          BY <4>2, <4>3
      <3>3. LimitAt(orch'[t].at) = PlannerLimit /\ orch'[t].at \in Informed
        BY <2>2 DEF LimitAt, Informed
      <3> QED
        BY <1>1, <3>2, <3>3, KnowsFound
    <2> QED
      BY <1>1, <2>1, <2>2
  <1>3. Late(t) /\ Stores(t) /\ Tasks(t)
    BY <1>1 DEF Late, Stores, Tasks
  <1> QED
    BY <1>1, <1>2, <1>3, ActsProceeds

LEMMA RecallProceeds ==
    ASSUME AllSound, DataOK, NEW t \in Turn, UNCHANGED <<run_id, routing, chatVars, down>>,
           NEW rows, NEW items, RecallKnowing(t, rows, items),
           \/ rows = {} /\ (EnableHistory => faults' > 0)
           \/ rows = get_by_user_agent_run(run_id[t], AnswerLimit),
           items \in {{}, search_memory_items(run_id[t])},
           Fault \/ faults' = faults
    PROVE  Proceeds(t)
  <1>0. UNCHANGED <<routing, chat, down>>
    BY DEF chatVars
  <1>1. /\ Acts(t) /\ StaysWhole(t) /\ orch[t].at = "recall" /\ orch'[t].at = "stream"
        /\ knew' = [knew EXCEPT ![t] = [rows |-> rows, items |-> items]]
        /\ UNCHANGED <<history, memories>>
    BY <1>0, RecallAct
  <1>2. Knows(t)
    <2>1. LimitAt(orch'[t].at) = AnswerLimit /\ orch'[t].at \in Informed
      BY <1>1 DEF LimitAt, Informed
    <2> QED
      BY <1>1, <2>1, KnowsFound
  <1>3. Late(t) /\ Stores(t) /\ Tasks(t)
    BY <1>1 DEF Late, Stores, Tasks
  <1> QED
    BY <1>1, <1>2, <1>3, ActsProceeds

LEMMA RememberProceeds ==
    ASSUME AllSound, DataOK, NEW t \in Turn, UNCHANGED <<run_id, routing, chatVars, down>>,
           NEW stores \in BOOLEAN, Remember(t, stores), Fault \/ faults' = faults
    PROVE  Proceeds(t)
  <1>0. UNCHANGED <<routing, chat, down, up, knew>> /\ orch[t].at = "remember"
        /\ orch' = [orch EXCEPT ![t].at = "done"]
    BY DEF Remember, At, chatVars
  <1>1. Acts(t) /\ StaysWhole(t) /\ orch'[t].at = "done" /\ orch'[t].text = orch[t].text /\ up'[t] = up[t]
    BY <1>0, LateAct
  <1>2. Knows(t)
    BY <1>0, <1>1, KnowsSame DEF Informed
  <1>3. Stores(t)
    BY <1>0, <1>1 DEF Remember, Stores, Remembers
  <1>4. Late(t) /\ Tasks(t)
    BY <1>0, <1>1 DEF Late, Tasks
  <1> QED
    BY <1>1, <1>2, <1>3, <1>4, ActsProceeds

LEMMA AddProceeds ==
    ASSUME AllSound, DataOK, NEW t \in Turn, UNCHANGED <<run_id, routing, chatVars, down, faults>>,
           add_history(t)
    PROVE  Proceeds(t)
  <1>0. UNCHANGED <<routing, chat, down, up, knew>> /\ orch[t].at = "store"
        /\ orch' = [orch EXCEPT ![t].at = "remember"]
    BY DEF add_history, At, chatVars
  <1>1. Acts(t) /\ StaysWhole(t) /\ orch'[t].at = "remember" /\ orch'[t].text = orch[t].text /\ up'[t] = up[t]
    BY <1>0, LateAct
  <1>2. Knows(t)
    BY <1>0, <1>1, KnowsSame DEF Informed
  <1>3. Stores(t)
    BY <1>0, <1>1, OrchestratorAssumption DEF add_history, Stores, Adds
  <1>4. Late(t) /\ Tasks(t)
    BY <1>0, <1>1 DEF Late, Tasks
  <1> QED
    BY <1>1, <1>2, <1>3, <1>4, ActsProceeds

LEMMA AbortProceeds ==
    ASSUME AllSound, DataOK, NEW t \in Turn, UNCHANGED <<run_id, routing, chatVars, down, history, memories>>,
           Abort(t), orch[t].at \in Working \union {"store"}, Fault
    PROVE  Proceeds(t)
  <1>0. UNCHANGED <<routing, chat, down>>
    BY DEF chatVars
  <1>1. Acts(t) /\ orch'[t].at = "done" /\ knew' = [knew EXCEPT ![t] = Nothing]
    BY <1>0, AbortAct
  <1>2. Knows(t)
    BY <1>1, KnowsNothing DEF Informed
  <1>3. Late(t) /\ Stores(t) /\ Tasks(t)
    BY <1>1 DEF Late, Stores, Tasks, Working
  <1> QED
    BY <1>1, <1>2, <1>3, ActsProceeds

LEMMA OrchestratorProceeds ==
    ASSUME AllSound, DataOK, Forgetful, NEW t \in Turn,
           OrchestratorStep(t), UNCHANGED <<faults, routingVars, chatVars>>
    PROVE  Proceeds(t)
  <1>0. UNCHANGED <<run_id, routing, chatVars, down, faults>> /\ UNCHANGED <<routing, chat, down>>
    BY DEF OrchestratorStep, routingVars, chatVars
  <1>1. CASE list_agent_cards(t)
    <2>1. /\ Acts(t) /\ StaysWhole(t) /\ orch[t].at = "cards"
          /\ orch'[t].at \in {"plan", "done", "recall"} /\ UNCHANGED <<knew, history, memories>>
      BY <1>0, <1>1, CardsAct
    <2>2. Knows(t)
      BY <2>1, KnowsSame DEF Informed
    <2>3. Late(t) /\ Stores(t) /\ Tasks(t)
      BY <2>1 DEF Late, Stores, Tasks
    <2> QED
      BY <1>0, <2>1, <2>2, <2>3, ActsProceeds
  <1>2. CASE make_plan(t)
    <2>1. PlanKnowing(t, planner_get_history(t))
      BY <1>2 DEF make_plan
    <2>2. \/ planner_get_history(t) = {} /\ ~ EnableHistory
          \/ planner_get_history(t) = get_by_user_agent_run(run_id[t], PlannerLimit)
      BY DEF planner_get_history, search_history_records
    <2> QED
      BY <1>0, <2>1, <2>2, PlanProceeds
  <1>3. CASE a2a_tasks(t)
    <2>1. /\ Acts(t) /\ StaysWhole(t) /\ orch[t].at = "tasks"
          /\ \/ orch'[t].at = "tasks" /\ UNCHANGED knew
             \/ orch'[t].at \in {"cards", "recall"} /\ knew' = [knew EXCEPT ![t] = Nothing]
          /\ UNCHANGED <<history, memories>>
          /\ \E status : RanTask(orch[t], orch'[t], status)
      BY <1>0, <1>3, TasksAct
    <2>2. Knows(t)
      BY <2>1, KnowsSame, KnowsNothing DEF Informed
    <2>3. Late(t) /\ Stores(t) /\ Tasks(t)
      BY <2>1 DEF Late, Stores, Tasks
    <2> QED
      BY <1>0, <2>1, <2>2, <2>3, ActsProceeds
  <1>4. CASE recall(t)
    <2>1. RecallKnowing(t, get_history(t), get_memory(t)) /\ get_memory(t) = search_memory_items(run_id[t])
      BY <1>4 DEF recall, get_memory
    <2>2. \/ get_history(t) = {} /\ ~ EnableHistory
          \/ get_history(t) = get_by_user_agent_run(run_id[t], AnswerLimit)
      BY DEF get_history, search_history_records
    <2> QED
      BY <1>0, <2>1, <2>2, RecallProceeds
  <1>5. CASE stream(t)
    <2>1. /\ Acts(t) /\ StaysWhole(t) /\ orch[t].at = "stream"
          /\ \/ orch'[t].at = "stream" /\ UNCHANGED knew
             \/ orch'[t].at = "store" /\ knew' = [knew EXCEPT ![t] = Nothing]
          /\ UNCHANGED <<history, memories>>
      BY <1>0, <1>5, StreamAct
    <2>2. Knows(t)
      BY <2>1, KnowsSame, KnowsNothing DEF Informed
    <2>3. Late(t) /\ Stores(t) /\ Tasks(t)
      BY <2>1 DEF Late, Stores, Tasks
    <2> QED
      BY <1>0, <2>1, <2>2, <2>3, ActsProceeds
  <1>6. CASE add_history(t)
    BY <1>0, <1>6, AddProceeds
  <1>7. CASE add_memory(t)
    BY <1>0, <1>7, RememberProceeds DEF add_memory
  <1> QED
    BY <1>1, <1>2, <1>3, <1>4, <1>5, <1>6, <1>7 DEF OrchestratorStep

LEMMA FaultProceeds ==
    ASSUME AllSound, DataOK, Forgetful, NEW t \in Turn, AgentFault(t)
    PROVE  Proceeds(t)
  <1>0. Fault /\ (EnableHistory => faults' > 0)
    BY DEF AgentFault, Fault, DataOK
  <1>1. CASE /\ Raise(t) \/ HistoryRefused(t)
             /\ UNCHANGED <<routingVars, chatVars>>
    <2>1. Abort(t) /\ orch[t].at \in Working \union {"store"} /\ UNCHANGED <<run_id, history, memories>>
      BY <1>1 DEF Raise, HistoryRefused, Working
    <2> QED
      BY <1>0, <1>1, <2>1, AbortProceeds DEF routingVars
  <1>2. CASE HistoryMasked(t) /\ UNCHANGED <<routingVars, chatVars>>
    <2>1. FailedSearch = {} /\ get_memory(t) = search_memory_items(run_id[t]) /\ UNCHANGED run_id
      BY <1>2 DEF FailedSearch, get_memory, HistoryMasked
    <2>2. PlanKnowing(t, {}) \/ RecallKnowing(t, {}, search_memory_items(run_id[t]))
      BY <1>2, <2>1 DEF HistoryMasked
    <2> QED
      BY <1>0, <1>2, <2>1, <2>2, PlanProceeds, RecallProceeds DEF routingVars
  <1>3. CASE MemoriesMasked(t) /\ UNCHANGED <<routingVars, chatVars>>
    <2>1. RecallKnowing(t, get_history(t), {}) /\ UNCHANGED run_id
      BY <1>3 DEF MemoriesMasked
    <2>2. \/ get_history(t) = {} /\ ~ EnableHistory
          \/ get_history(t) = get_by_user_agent_run(run_id[t], AnswerLimit)
      BY DEF get_history, search_history_records
    <2> QED
      BY <1>0, <1>3, <2>1, <2>2, RecallProceeds DEF routingVars
  <1>4. CASE MemoryMasked(t) /\ UNCHANGED <<routingVars, chatVars>>
    BY <1>0, <1>4, RememberProceeds DEF routingVars, MemoryMasked
  <1>5. CASE RoutingRaise(t) /\ UNCHANGED chatVars
    <2>0. UNCHANGED chat /\ UNCHANGED <<run_id, knew, history, memories>>
      BY <1>5 DEF RoutingRaise, chatVars
    <2>1. /\ AllSound' /\ Elsewhere(t) /\ routing[t] # "off" /\ routing'[t] # "off"
          /\ chat'[t] = chat[t] /\ up'[t].end = up[t].end /\ orch'[t] = orch[t]
      BY <1>5, <2>0, RoutingFault
    <2>2. Knows(t)
      BY <2>0, <2>1, KnowsSame
    <2>3. Whole(t) /\ ClientSide(t) /\ Late(t) /\ Stores(t) /\ Tasks(t)
      BY <1>0, <1>5, <2>0, <2>1 DEF Whole, ClientSide, Late, Stores, Tasks, chatVars
    <2> QED
      BY <1>5, <2>0, <2>1, <2>2, <2>3 DEF Proceeds, chatVars
  <1> QED
    BY <1>1, <1>2, <1>3, <1>4, <1>5 DEF AgentFault

LEMMA LinkProceeds ==
    ASSUME AllSound, DataOK, NEW t \in Turn, LinkBreaks(t)
    PROVE  Proceeds(t)
  <1>0. Fault /\ UNCHANGED <<orch, run_id, knew, history, memories, routing, chatVars>>
    BY DEF LinkBreaks
  <1>1. /\ AllSound' /\ Elsewhere(t) /\ routing[t] # "off" /\ routing'[t] # "off"
        /\ chat'[t] = chat[t] /\ orch'[t] = orch[t]
        /\ up'[t].end = up[t].end \/ up[t].end = "open"
    BY LinkFault
  <1>2. Knows(t)
    BY <1>0, <1>1, KnowsSame
  <1>3. orch[t].at \in {"remember", "done"} => up[t].end # "open"
    BY Itself DEF Sound, Fits
  <1>4. Late(t)
    BY <1>1, <1>3 DEF Late
  <1>5. Whole(t) /\ ClientSide(t) /\ Stores(t) /\ Tasks(t)
    BY <1>0, <1>1 DEF Whole, ClientSide, Stores, Tasks, chatVars
  <1> QED
    BY <1>0, <1>1, <1>2, <1>4, <1>5 DEF Proceeds, chatVars

LEMMA RoutingProceeds ==
    ASSUME AllSound, DataOK, NEW t \in Turn, RoutingStep(t), UNCHANGED <<faults, chatVars>>
    PROVE  Proceeds(t)
  <1>0. /\ UNCHANGED chat /\ UNCHANGED <<run_id, knew, history, memories, faults, chatVars>>
        /\ get_plan(t) \/ relay(t) \/ finish(t)
    BY DEF RoutingStep, chatVars
  <1>1. /\ AllSound' /\ Elsewhere(t) /\ routing[t] # "off" /\ routing'[t] # "off"
        /\ chat'[t] = chat[t] /\ up'[t].end = up[t].end
        /\ orch'[t] = orch[t] \/ (orch[t].at = "off" /\ orch'[t].at = "cards" /\ up'[t] = up[t])
        /\ down'[t].end \in {"closed", "broken"} =>
             down[t].end \in {"closed", "broken"} \/ up[t].end \in {"closed", "broken"}
    BY <1>0, RoutingAct
  <1>2. Knows(t)
    BY <1>0, <1>1, KnowsSame DEF Informed
  <1>3. Whole(t) /\ ClientSide(t)
    BY <1>0, <1>1 DEF Whole, StaysWhole, ClientSide, chatVars
  <1>4. Late(t) /\ Stores(t) /\ Tasks(t)
    BY <1>0, <1>1 DEF Late, Stores, Tasks
  <1> QED
    BY <1>0, <1>1, <1>2, <1>3, <1>4 DEF Proceeds, chatVars

LEMMA ChatProceeds ==
    ASSUME AllSound, DataOK, NEW t \in Turn, ChatStep(t) \/ ClientLeft(t)
    PROVE  Proceeds(t)
  <1>0. /\ UNCHANGED <<run_id, knew, history, memories, client, runs, stored>>
        /\ (UNCHANGED faults \/ (Fault /\ ClientLeft(t))) /\ (ClientLeft(t) => Fault)
    BY DEF ChatStep, ClientLeft, convertStreamResponse, handleStreaming, handleNonStreaming,
           orchestratorVars, routingVars, Fault
  <1>1. /\ AllSound' /\ Elsewhere(t) /\ routing'[t] = routing[t] /\ orch'[t] = orch[t] /\ up'[t] = up[t]
        /\ down'[t].end = down[t].end /\ chat[t].end \notin {"not asked", "error"}
        /\ \/ chat'[t].end = chat[t].end
           \/ chat[t].end = "waiting" /\ client # "whole" /\ chat'[t].end = "stop"
           \/ chat[t].end = "waiting" /\ client # "whole" /\ chat'[t].end = "left" /\ ClientLeft(t)
           \/ chat[t].end = "waiting" /\ chat'[t].end = "stop" /\ handleNonStreaming(t) /\ named' = run_id[t]
        /\ named' = named \/ (named' = run_id[t] /\ chat'[t].end = "stop")
    BY ChatSound
  <1>2. routing[t] # "off"
    BY <1>1, Itself DEF Sound, Fits
  <1>3. Knows(t)
    BY <1>0, <1>1, KnowsSame
  <1>4. Whole(t)
    BY <1>0, <1>1 DEF Whole, StaysWhole
  <1>5. ClientSide(t)
    BY <1>1 DEF ClientSide
  <1>6. Late(t) /\ Stores(t) /\ Tasks(t)
    BY <1>0, <1>1 DEF Late, Stores, Tasks
  <1> QED
    BY <1>0, <1>1, <1>2, <1>3, <1>4, <1>5, <1>6, ZenonT(60) DEF Proceeds

\* Every step is a question asked, one refused, or a step of one asked before.
LEMMA Steps ==
    ASSUME AllSound, DataOK, Forgetful, Next
    PROVE  \E t \in Turn : ChatStreaming(t) \/ ChatRefused(t) \/ Proceeds(t)
  BY OrchestratorProceeds, RoutingProceeds, ChatProceeds, FaultProceeds, LinkProceeds DEF Next, AgentStep

(***************************************************************************)
(* The parts of the invariant that relate turns                            *)
(***************************************************************************)

LEMMA Counts ==
    ASSUME DataOK
    PROVE  /\ runs \in Nat /\ runs <= Turns /\ Turns \in Nat
           /\ faults \in Nat /\ faults <= MaxFaults /\ MaxFaults \in Nat
           /\ \A t \in Turn : t \in Nat /\ 1 <= t /\ t <= Turns
  <1>1. Turns \in Nat /\ MaxFaults \in Nat
    BY Consts, ConversationAssumption
  <1>2. runs \in 0 .. Turns /\ faults \in 0 .. MaxFaults
    BY DEF DataOK
  <1> QED
    BY <1>1, <1>2 DEF Turn

\* The request of a turn asks, or is refused: what changes is its own.
LEMMA AskingFrame ==
    ASSUME AllSound, DataOK, TurnOrder, NEW t \in Turn, ChatStreaming(t) \/ ChatRefused(t)
    PROVE  /\ UNCHANGED <<knew, history, memories, client, named>>
           /\ \A s \in Turn : orch'[s] = orch[s] /\ up'[s] = up[s] /\ down'[s] = down[s]
           /\ \A s \in Turn \ {t} : chat'[s] = chat[s] /\ routing'[s] = routing[s] /\ run_id'[s] = run_id[s]
                                    /\ stored'[s] = stored[s]
           /\ routing[t] = "off" /\ orch[t].at = "off" /\ chat[t].end = "not asked"
           /\ chat'[t].end \in {"waiting", "error"} /\ AllSound' /\ Elsewhere(t)
           /\ runs' \in 0 .. Turns /\ runs <= runs' /\ runs' <= t /\ run_id' \in [Turn -> 0 .. runs']
           /\ faults' \in 0 .. MaxFaults /\ faults <= faults'
  <1>1. /\ UNCHANGED <<knew, history, memories, client, named, orch, up, down>> /\ chat[t].end = "not asked"
        /\ faults' = faults \/ Fault
    BY DEF ChatStreaming, ChatRefused, MayAsk, routingVars
  <1>2. /\ AllSound' /\ Elsewhere(t) /\ routing[t] = "off"
        /\ chat'[t].end \in {"waiting", "error"}
    BY AskingSound
  <1>3. orch[t].at = "off"
    BY <1>2, Itself DEF Sound, Fits
  <1>4. runs \in Nat /\ runs <= t - 1 /\ t \in Nat /\ t <= Turns /\ Turns \in Nat
    BY <1>1, Counts DEF TurnOrder
  <1>5. PICK id \in 0 .. runs + 1 : id = GetOrCreateRun(named)
    BY <1>4 DEF GetOrCreateRun
  <1>6. \/ UNCHANGED <<runs, run_id>>
        \/ run_id' = [run_id EXCEPT ![t] = id] /\ runs' = IF id > runs THEN id ELSE runs
    <2>1. run_id' = [run_id EXCEPT ![t] = GetOrCreateRun(named)] => run_id'[t] = id
      BY <1>5 DEF DataOK
    <2> QED
      BY <1>5, <2>1 DEF ChatStreaming, ChatRefused
  <1>7. runs' \in 0 .. Turns /\ runs <= runs' /\ runs' <= t /\ run_id' \in [Turn -> 0 .. runs']
    <2>1. CASE UNCHANGED <<runs, run_id>>
      BY <1>4, <2>1 DEF DataOK
    <2>2. CASE run_id' = [run_id EXCEPT ![t] = id] /\ runs' = IF id > runs THEN id ELSE runs
      <3>1. runs' \in Nat /\ runs <= runs' /\ runs' <= t /\ id \in 0 .. runs' /\ 0 .. runs \subseteq 0 .. runs'
        BY <1>4, <2>2
      <3>2. run_id' \in [Turn -> 0 .. runs']
        BY <2>2, <3>1 DEF DataOK
      <3> QED
        BY <1>4, <3>1, <3>2
    <2> QED
      BY <1>6, <2>1, <2>2
  <1>8. \A s \in Turn \ {t} : run_id'[s] = run_id[s] /\ stored'[s] = stored[s]
    BY <1>6 DEF DataOK, ChatStreaming, ChatRefused
  <1>9. faults' \in 0 .. MaxFaults /\ faults <= faults'
    <2>1. faults' = faults \/ (faults < MaxFaults /\ faults' = faults + 1)
      BY <1>1 DEF Fault
    <2>2. faults \in Nat /\ faults <= MaxFaults /\ MaxFaults \in Nat
      BY Counts
    <2> QED
      BY <2>1, <2>2
  <1> QED
    BY <1>1, <1>2, <1>3, <1>7, <1>8, <1>9 DEF Elsewhere

\* Who has stored something has been asked.
LEMMA StoredAsked ==
    ASSUME AllSound, HistoryOfWholeAnswers, NEW s \in Turn, s \in StoredTurns
    PROVE  /\ orch[s].at \in {"remember", "done"} /\ routing[s] # "off"
           /\ chat[s].end \notin {"not asked", "error"} /\ up[s].end # "closed"
  <1>1. PICK i \in DOMAIN history : history[i].turn = s
    BY DEF StoredTurns
  <1>2. orch[s].at \in {"remember", "done"} /\ up[s].end # "closed"
    BY <1>1 DEF HistoryOfWholeAnswers
  <1> QED
    BY <1>2, Itself DEF Sound, Fits

LEMMA RowAdded ==
    ASSUME DataOK, NEW t \in Turn, NEW run \in 0 .. Turns, NEW text \in Nat,
           create_history_record(run, t, text)
    PROVE  /\ Len(history) \in Nat /\ Len(history') = Len(history) + 1
           /\ DOMAIN history = 1 .. Len(history) /\ DOMAIN history' = 1 .. Len(history) + 1
           /\ \A i \in DOMAIN history : history'[i] = history[i]
           /\ history'[Len(history) + 1] = [run |-> run, turn |-> t, text |-> text]
           /\ history' \in Seq(Row) /\ UNCHANGED memories
  <1>1. PICK row \in Row : row = [run |-> run, turn |-> t, text |-> text]
    BY DEF Row
  <1>2. history \in Seq(Row)
    BY DEF DataOK, HistoryTypeOK, Row
  <1>3. history' = Append(history, row) /\ UNCHANGED memories
    BY <1>1 DEF create_history_record, create
  <1> QED
    BY <1>1, <1>2, <1>3, AppendProperties

LEMMA RunTyped ==
    ASSUME AllSound, DataOK, NEW t \in Turn
    PROVE  run_id[t] \in 0 .. runs /\ run_id[t] \in 0 .. Turns /\ orch[t].text \in Nat /\ orch[t].sent \in Nat
  <1>1. orch[t] \in Agent
    BY Itself
  <1>2. orch[t].text \in 0 .. MaxText /\ orch[t].sent \in Nat
    BY <1>1, AgentParts
  <1>3. run_id[t] \in 0 .. runs /\ run_id[t] \in 0 .. Turns
    BY Consts DEF DataOK
  <1> QED
    BY <1>2, <1>3, Consts

LEMMA HistoryTyped ==
    ASSUME AllSound, DataOK, HistoryOfWholeAnswers, NEW t \in Turn, Stores(t)
    PROVE  HistoryTypeOK(0 .. Turns, Turn)'
  <1>0. run_id[t] \in 0 .. Turns /\ orch[t].text \in Nat
    BY RunTyped
  <1>1. CASE UNCHANGED <<history, memories>>
    BY <1>1 DEF DataOK, HistoryTypeOK
  <1>2. CASE Adds(t)
    <2>1. create_history_record(run_id[t], t, orch[t].text) /\ orch[t].at = "store"
      BY <1>2 DEF Adds
    <2>2. \A i \in DOMAIN history : history[i].turn # t
      BY <2>1 DEF HistoryOfWholeAnswers
    <2>3. /\ Len(history) \in Nat /\ DOMAIN history = 1 .. Len(history)
          /\ DOMAIN history' = 1 .. Len(history) + 1
          /\ \A i \in DOMAIN history : history'[i] = history[i]
          /\ history'[Len(history) + 1] = [run |-> run_id[t], turn |-> t, text |-> orch[t].text]
          /\ history' \in Seq(Row) /\ UNCHANGED memories
      BY <1>0, <2>1, RowAdded
    <2>4. history'[Len(history) + 1].turn = t
      BY <2>3
    <2>5. \A i \in DOMAIN history' : i \in DOMAIN history \/ i = Len(history) + 1
      BY <2>3
    <2>6. \A i, j \in DOMAIN history : history[i].turn = history[j].turn => i = j
      BY DEF DataOK, HistoryTypeOK
    <2>7. \A i, j \in DOMAIN history' : history'[i].turn = history'[j].turn => i = j
      BY <2>2, <2>3, <2>4, <2>5, <2>6
    <2> QED
      BY <2>3, <2>7 DEF DataOK, HistoryTypeOK, Row
  <1>3. CASE Remembers(t)
    <2>1. /\ memories' = memories \union {[run |-> run_id[t], turn |-> t]} /\ UNCHANGED history
      BY <1>3 DEF Remembers, add_memory_item
    <2>2. [run |-> run_id[t], turn |-> t] \in [run : 0 .. Turns, turn : Turn]
      BY <1>0
    <2> QED
      BY <2>1, <2>2 DEF DataOK, HistoryTypeOK
  <1> QED
    BY <1>1, <1>2, <1>3 DEF Stores

LEMMA DataKept ==
    ASSUME AllSound, DataOK, TurnOrder, HistoryOfWholeAnswers, NEW t \in Turn,
           ChatStreaming(t) \/ ChatRefused(t) \/ Proceeds(t)
    PROVE  DataOK'
  <1>1. CASE ChatStreaming(t)
    <2>1. StoredTurns \subseteq Turn /\ StoredTurns \subseteq 1 .. t - 1
      <3>1. StoredTurns \subseteq Turn
        <4>1. history \in Seq(Row) /\ \A row \in Row : row.turn \in Turn
          BY DEF DataOK, HistoryTypeOK, Row
        <4>2. \A i \in DOMAIN history : history[i] \in Row
          BY <4>1
        <4> QED
          BY <4>1, <4>2 DEF StoredTurns
      <3>2. ASSUME NEW s \in StoredTurns PROVE s \in 1 .. t - 1
        <4>1. s \in Turn /\ chat[s].end # "not asked" /\ chat[t].end = "not asked"
          BY <1>1, <3>1, StoredAsked DEF ChatStreaming, MayAsk
        <4>2. ~ Ended(t) /\ s # t
          BY <4>1 DEF Ended
        <4>3. ~ (t < s)
          BY <4>1, <4>2 DEF TurnOrder
        <4>4. s \in Nat /\ t \in Nat /\ 1 <= s
          BY <4>1, Counts
        <4> QED
          BY <4>2, <4>3, <4>4
      <3> QED
        BY <3>1, <3>2
    <2>2. stored' = [stored EXCEPT ![t] = StoredTurns]
      BY <1>1 DEF ChatStreaming, StoredTurns
    <2>3. stored' \in [Turn -> SUBSET Turn] /\ \A s \in Turn : stored'[s] \subseteq 1 .. s - 1
      BY <2>1, <2>2 DEF DataOK
    <2>4. /\ UNCHANGED <<knew, history, memories, client, named>> /\ runs' \in 0 .. Turns /\ runs <= runs'
          /\ run_id' \in [Turn -> 0 .. runs'] /\ faults' \in 0 .. MaxFaults
      BY <1>1, AskingFrame
    <2>5. runs \in Nat /\ 1 .. runs \subseteq 1 .. runs'
      BY <2>4, Consts DEF DataOK
    <2> QED
      BY <2>3, <2>4, <2>5 DEF DataOK, HistoryTypeOK
  <1>2. CASE ChatRefused(t)
    <2>1. /\ UNCHANGED <<knew, history, memories, client, named>> /\ runs' \in 0 .. Turns /\ runs <= runs'
          /\ run_id' \in [Turn -> 0 .. runs'] /\ faults' \in 0 .. MaxFaults
      BY <1>2, AskingFrame
    <2>2. UNCHANGED stored
      BY <1>2 DEF ChatRefused
    <2>3. runs \in Nat /\ 1 .. runs \subseteq 1 .. runs'
      BY <2>1, Consts DEF DataOK
    <2> QED
      BY <2>1, <2>2, <2>3 DEF DataOK, HistoryTypeOK
  <1>3. CASE Proceeds(t)
    <2>1. HistoryTypeOK(0 .. Turns, Turn)'
      BY <1>3, HistoryTyped DEF Proceeds
    <2>2. knew' \in [Turn -> Known]
      BY <1>3 DEF Proceeds, Knows
    <2>3. faults' \in 0 .. MaxFaults
      BY <1>3, Counts DEF Proceeds, Whole, Fault
    <2>4. named' \in {NoRun, OwnRun} \union 1 .. runs
      <3>1. named' \in {named, run_id[t]} /\ run_id[t] \in 0 .. runs
        BY <1>3, RunTyped DEF Proceeds, ClientSide
      <3> QED
        BY <3>1 DEF DataOK, NoRun
    <2> QED
      BY <1>3, <2>1, <2>2, <2>3, <2>4 DEF DataOK, Proceeds, Known
  <1> QED
    BY <1>1, <1>2, <1>3

LEMMA FaultsKept ==
    ASSUME AllSound, DataOK, FaultsInv, TurnOrder, NEW t \in Turn,
           ChatStreaming(t) \/ ChatRefused(t) \/ Proceeds(t)
    PROVE  FaultsInv' /\ (faults > 0 => faults' > 0)
  <1>0. faults \in Nat
    BY Counts
  <1>1. CASE ChatStreaming(t) \/ ChatRefused(t)
    <2>1. /\ \A s \in Turn : up'[s] = up[s] /\ down'[s] = down[s]
          /\ \A s \in Turn \ {t} : chat'[s] = chat[s]
          /\ chat'[t].end \in {"waiting", "error"} /\ faults' \in 0 .. MaxFaults /\ faults <= faults'
      BY <1>1, AskingFrame
    <2>2. faults > 0 => faults' > 0
      BY <1>0, <2>1, Counts
    <2>3. \A s \in Turn : chat'[s].end = "left" => chat[s].end = "left"
      BY <2>1
    <2> QED
      BY <2>1, <2>2, <2>3 DEF FaultsInv
  <1>2. CASE Proceeds(t) /\ Fault
    <2>1. faults' > 0
      BY <1>0, <1>2 DEF Fault
    <2> QED
      BY <2>1 DEF FaultsInv
  <1>3. CASE Proceeds(t) /\ ~ Fault
    <2>1. faults' = faults /\ StaysWhole(t)
          /\ (down'[t].end \in {"closed", "broken"} =>
                down[t].end \in {"closed", "broken"} \/ up[t].end \in {"closed", "broken"})
          /\ (chat'[t].end = "left" => chat[t].end = "left")
      BY <1>3 DEF Proceeds, Whole
    <2>2. ASSUME NEW s \in Turn, \/ up'[s].end \in {"closed", "broken"} \/ down'[s].end \in {"closed", "broken"}
                                 \/ chat'[s].end = "left"
          PROVE  faults > 0
      <3>1. CASE s = t
        BY <2>1, <2>2, <3>1 DEF FaultsInv, StaysWhole
      <3>2. CASE s # t
        BY <1>3, <2>2, <3>2 DEF FaultsInv, Proceeds, Elsewhere
      <3> QED
        BY <3>1, <3>2
    <2> QED
      BY <2>1, <2>2 DEF FaultsInv
  <1> QED
    BY <1>1, <1>2, <1>3

LEMMA OrderKept ==
    ASSUME AllSound, DataOK, TurnOrder, NEW t \in Turn,
           ChatStreaming(t) \/ ChatRefused(t) \/ Proceeds(t)
    PROVE  TurnOrder'
  <1>1. CASE ChatStreaming(t) \/ ChatRefused(t)
    <2>1. /\ \A s \in Turn \ {t} : chat'[s] = chat[s]
          /\ chat[t].end = "not asked" /\ chat'[t].end \in {"waiting", "error"}
          /\ runs' \in 0 .. Turns /\ runs <= runs' /\ runs' <= t
      BY <1>1, AskingFrame
    <2>2. \A s \in 1 .. t - 1 : Ended(s)
      BY <1>1 DEF ChatStreaming, ChatRefused, MayAsk
    <2>3. ~ Ended(t)
      BY <2>1 DEF Ended
    <2>4. ASSUME NEW s \in Turn, NEW u \in Turn, s < u, chat'[u].end # "not asked" PROVE Ended(s)'
      <3>1. s \in Nat /\ u \in Nat /\ t \in Nat /\ 1 <= s
        BY Counts
      <3>2. u # t => chat[u].end # "not asked"
        BY <2>1, <2>4
      <3>3. Ended(s)
        <4>1. CASE u = t
          <5>0. s < t
            BY <2>4, <4>1
          <5>1. s \in 1 .. t - 1
            BY <3>1, <5>0
          <5> QED
            BY <2>2, <5>1
        <4>2. CASE u # t
          BY <2>4, <3>2, <4>2 DEF TurnOrder
        <4> QED
          BY <4>1, <4>2
      <3>4. s # t
        BY <2>3, <3>3
      <3> QED
        BY <2>1, <3>3, <3>4 DEF Ended
    <2>5. ASSUME NEW u \in Turn, chat'[u].end = "not asked" PROVE runs' <= u - 1
      <3>1. u # t /\ chat[u].end = "not asked"
        BY <2>1, <2>5
      <3>3. u \in Nat /\ t \in Nat /\ u # t
        BY <3>1, Counts
      <3>4. ~ (u < t)
        <4>1. u < t => u \in 1 .. t - 1
          BY <3>3, Counts
        <4> QED
          BY <2>2, <3>1, <4>1 DEF Ended
      <3>5. runs' \in Nat /\ runs' <= t
        <4>1. runs' \in 0 .. Turns /\ runs' <= t
          BY <2>1
        <4>2. Turns \in Nat
          BY Consts
        <4> QED
          BY <4>1, <4>2
      <3>6. t <= u - 1
        BY <3>3, <3>4
      <3> QED
        BY <3>3, <3>5, <3>6
    <2> QED
      BY <2>4, <2>5 DEF TurnOrder
  <1>2. CASE Proceeds(t)
    <2>1. chat[t].end # "not asked"
      BY <1>2, Itself DEF Proceeds, Sound, Fits
    <2>2. runs' = runs /\ \A s \in Turn : /\ Ended(s) => Ended(s)'
                                          /\ chat'[s].end = "not asked" <=> chat[s].end = "not asked"
      BY <1>2, <2>1 DEF Proceeds, Elsewhere, ClientSide, Ended
    <2> QED
      BY <2>2 DEF TurnOrder
  <1> QED
    BY <1>1, <1>2

LEMMA SessionKept ==
    ASSUME AllSound, DataOK, TurnOrder, SessionInv, NEW t \in Turn,
           ChatStreaming(t) \/ ChatRefused(t) \/ Proceeds(t)
    PROVE  SessionInv'
  <1> SUFFICES ASSUME client' = "whole"
               PROVE  /\ \A s, u \in Turn : routing'[s] # "off" /\ routing'[u] # "off" => run_id'[s] = run_id'[u]
                      /\ \A s \in Turn : routing'[s] # "off" =>
                           run_id'[s] \in 1 .. runs' /\ (Ended(s)' => named' = run_id'[s])
    BY DEF SessionInv
  <1>1. CASE ChatStreaming(t)
    <2>1. /\ UNCHANGED <<client, named>> /\ AllSound' /\ chat[t].end = "not asked"
          /\ \A s \in Turn \ {t} : chat'[s] = chat[s] /\ routing'[s] = routing[s] /\ run_id'[s] = run_id[s]
          /\ runs \in Nat /\ runs <= runs' /\ ~ Ended(t)'
      <3>1. chat'[t].end = "waiting"
        BY <1>1, AskingSound
      <3> QED
        BY <1>1, <3>1, AskingFrame, Counts DEF Ended
    <2>2. client = "whole" /\ run_id'[t] = GetOrCreateRun(named) /\ runs' = IF run_id'[t] > runs THEN run_id'[t] ELSE runs
      BY <1>1, <2>1 DEF ChatStreaming, DataOK
    <2>3. run_id'[t] \in 1 .. runs' /\ (named \in 1 .. runs => run_id'[t] = named)
      <3>1. CASE named \in 1 .. runs
        <4>1. run_id'[t] = named /\ runs' = runs
          <5>1. run_id'[t] = named
            BY <2>2, <3>1 DEF GetOrCreateRun
          <5>2. ~ (named > runs)
            <6>1. runs \in Nat
              BY Counts
            <6> QED
              BY <3>1, <6>1
          <5> QED
            BY <2>2, <5>1, <5>2
        <4> QED
          BY <3>1, <4>1
      <3>2. CASE named \notin 1 .. runs
        <4>1. run_id'[t] = runs + 1
          BY <2>2, <3>2 DEF GetOrCreateRun
        <4>2. runs' = runs + 1 /\ runs + 1 \in 1 .. runs + 1
          <5>1. runs \in Nat
            BY Counts
          <5>2. runs + 1 > runs /\ runs + 1 \in 1 .. runs + 1
            BY <5>1
          <5> QED
            BY <2>2, <4>1, <5>2
        <4> QED
          BY <3>2, <4>1, <4>2
      <3> QED
        BY <3>1, <3>2
    <2>4. ASSUME NEW s \in Turn \ {t}, routing[s] # "off"
          PROVE  run_id[s] \in 1 .. runs /\ named = run_id[s]
      <3>1. chat[s].end # "not asked" /\ s # t /\ s \in Nat /\ t \in Nat /\ 1 <= s /\ 1 <= t
        BY <2>4, Itself, Counts DEF Sound, Fits
      <3>2. ~ (t < s)
        BY <2>1, <3>1 DEF TurnOrder, Ended
      <3>3. s \in 1 .. t - 1
        <4>1. s \in Nat /\ t \in Nat /\ 1 <= s
          BY <3>1
        <4>2. s # t
          BY <3>1
        <4>3. s < t
          BY <3>2, <4>1, <4>2
        <4> QED
          BY <4>1, <4>3
      <3>4. Ended(s)
        BY <1>1, <3>3 DEF ChatStreaming, MayAsk
      <3> QED
        BY <2>2, <2>4, <3>4 DEF SessionInv
    <2>5. \A s \in Turn \ {t} : routing[s] # "off" => run_id'[s] = run_id'[t]
      BY <2>1, <2>3, <2>4
    <2>6. \A s \in Turn : routing'[s] # "off" => run_id'[s] = run_id'[t]
      BY <2>1, <2>5
    <2>7. ASSUME NEW s \in Turn, routing'[s] # "off", Ended(s)' PROVE named' = run_id'[s]
      <3>1. s # t /\ routing[s] # "off"
        BY <2>1, <2>7
      <3> QED
        BY <2>1, <2>4, <3>1
    <2> QED
      BY <2>3, <2>6, <2>7
  <1>2. CASE ChatRefused(t)
    <2>1. /\ UNCHANGED <<client, named>> /\ runs' \in 0 .. Turns /\ runs \in Nat /\ runs <= runs'
          /\ \A s \in Turn \ {t} : chat'[s] = chat[s] /\ routing'[s] = routing[s] /\ run_id'[s] = run_id[s]
          /\ routing'[t] = "off"
      BY <1>2, AskingFrame, AskingSound, Counts, ZenonT(60)
    <2>2. 1 .. runs \subseteq 1 .. runs' /\ client = "whole"
      BY <2>1, Counts
    <2>3. ASSUME NEW s \in Turn, routing'[s] # "off"
          PROVE  /\ s # t /\ routing[s] # "off" /\ run_id'[s] = run_id[s] /\ chat'[s] = chat[s]
      BY <2>1, <2>3
    <2>4. ASSUME NEW s \in Turn, routing'[s] # "off"
          PROVE  run_id'[s] \in 1 .. runs' /\ (Ended(s)' => named' = run_id'[s])
      BY <2>1, <2>2, <2>3, <2>4 DEF SessionInv, Ended
    <2>5. ASSUME NEW s \in Turn, NEW u \in Turn, routing'[s] # "off", routing'[u] # "off"
          PROVE  run_id'[s] = run_id'[u]
      BY <2>2, <2>3, <2>5 DEF SessionInv
    <2> QED
      BY <2>4, <2>5
  <1>3. CASE Proceeds(t)
    <2>1. client = "whole" /\ UNCHANGED <<run_id, runs>> /\ routing[t] # "off" /\ routing'[t] # "off"
      BY <1>3 DEF Proceeds
    <2>2. \A s \in Turn : routing'[s] # "off" <=> routing[s] # "off"
      BY <1>3 DEF Proceeds, Elsewhere
    <2>3. ASSUME NEW s \in Turn, routing[s] # "off", Ended(s)' PROVE named' = run_id[s]
      <3>1. run_id[s] = run_id[t]
        BY <2>1, <2>3 DEF SessionInv
      <3>2. named' = named \/ named' = run_id[t]
        BY <1>3 DEF Proceeds, ClientSide
      <3>3. Ended(s) \/ named' = run_id[t]
        <4>1. CASE s = t
          BY <1>3, <2>1, <2>3, <4>1 DEF Proceeds, ClientSide, Ended
        <4>2. CASE s # t
          BY <1>3, <2>3, <4>2 DEF Proceeds, Elsewhere, Ended
        <4> QED
          BY <4>1, <4>2
      <3> QED
        BY <2>1, <2>3, <3>1, <3>2, <3>3 DEF SessionInv
    <2>4. \A s \in Turn : routing[s] # "off" => run_id[s] \in 1 .. runs
      BY <2>1 DEF SessionInv
    <2>5. \A s, u \in Turn : routing[s] # "off" /\ routing[u] # "off" => run_id[s] = run_id[u]
      BY <2>1 DEF SessionInv
    <2> QED
      BY <2>1, <2>2, <2>3, <2>4, <2>5
  <1> QED
    BY <1>1, <1>2, <1>3

\* An agent that still works on a turn the client has the end of: something broke.
LEMMA EndedEarly ==
    ASSUME AllSound, FaultsInv, NEW t \in Turn, Ended(t), orch[t].at \in Working
    PROVE  faults > 0
  <1>1. Sound(routing[t], chat[t], orch[t], up[t], down[t]) /\ down[t].end \in Ends
    BY Itself DEF Wire
  <1>2. CASE chat[t].end = "error"
    BY <1>1, <1>2 DEF Sound, Fits, Working
  <1>3. CASE chat[t].end = "left"
    BY <1>3 DEF FaultsInv
  <1>4. CASE chat[t].end = "stop"
    <2>1. down[t].end # "open"
      BY <1>1, <1>4 DEF Sound, Fits
    <2>2. down[t].end # "complete"
      BY <1>1, <1>4 DEF Sound, InOrder, UnderWay, Working
    <2>3. down[t].end \in {"closed", "broken"}
      BY <1>1, <2>1, <2>2 DEF Ends
    <2> QED
      BY <2>3 DEF FaultsInv
  <1> QED
    BY <1>2, <1>3, <1>4 DEF Ended

\* Rows and memories are added to, and kept.
LEMMA Grown ==
    ASSUME AllSound, DataOK, NEW t \in Turn, Stores(t)
    PROVE  /\ \A i \in DOMAIN history : i \in DOMAIN history' /\ history'[i] = history[i]
           /\ \/ history' = history
              \/ Adds(t) /\ \A i \in DOMAIN history' :
                   i \in DOMAIN history \/ history'[i] = [run |-> run_id[t], turn |-> t, text |-> orch[t].text]
           /\ Adds(t) => \E i \in DOMAIN history' : history'[i].turn = t
           /\ memories \subseteq memories'
           /\ memories' = memories \/ (Remembers(t) /\ memories' = memories \union {[run |-> run_id[t], turn |-> t]})
           /\ StoredTurns \subseteq StoredTurns'
  <1>1. CASE UNCHANGED <<history, memories>> /\ ~ Adds(t)
    BY <1>1 DEF StoredTurns
  <1>2. CASE Adds(t)
    <2>1. create_history_record(run_id[t], t, orch[t].text)
      BY <1>2 DEF Adds
    <2>2. /\ Len(history) \in Nat /\ DOMAIN history = 1 .. Len(history)
          /\ DOMAIN history' = 1 .. Len(history) + 1
          /\ \A i \in DOMAIN history : history'[i] = history[i]
          /\ history'[Len(history) + 1] = [run |-> run_id[t], turn |-> t, text |-> orch[t].text]
          /\ UNCHANGED memories
      BY <2>1, RunTyped, RowAdded
    <2>3. \A i \in DOMAIN history' : i \in DOMAIN history \/ i = Len(history) + 1
      BY <2>2
    <2>4. \A i \in DOMAIN history : i \in DOMAIN history'
      BY <2>2
    <2>5. Len(history) + 1 \in DOMAIN history' /\ history'[Len(history) + 1].turn = t
      BY <2>2
    <2>6. StoredTurns \subseteq StoredTurns'
      BY <2>2, <2>4 DEF StoredTurns
    <2> QED
      BY <1>2, <2>2, <2>3, <2>4, <2>5, <2>6
  <1>3. CASE Remembers(t)
    <2>1. memories' = memories \union {[run |-> run_id[t], turn |-> t]} /\ UNCHANGED history /\ ~ Adds(t)
      BY <1>3 DEF Remembers, add_memory_item, Adds
    <2> QED
      BY <1>3, <2>1 DEF StoredTurns
  <1> QED
    BY <1>1, <1>2, <1>3 DEF Stores

LEMMA RowsWhole ==
    ASSUME AllSound, DataOK, HistoryOfWholeAnswers, NEW t \in Turn, Proceeds(t), NEW i \in DOMAIN history'
    PROVE  LET s == history'[i].turn
           IN  /\ up'[s].end # "closed" /\ orch'[s].at \in {"remember", "done"}
               /\ history'[i].text = orch'[s].text /\ history'[i].run = run_id'[s]
  <1>0. UNCHANGED run_id /\ Elsewhere(t) /\ Late(t) /\ Stores(t)
    BY DEF Proceeds
  <1>1. CASE i \in DOMAIN history
    <2>1. PICK s \in Turn : s = history[i].turn
      <3>1. history[i] \in Row
        BY <1>1, Found
      <3> QED
        BY <3>1 DEF Row
    <2>2. history'[i] = history[i]
      BY <1>0, <1>1, Grown
    <2>3. /\ up[s].end # "closed" /\ orch[s].at \in {"remember", "done"}
          /\ history[i].text = orch[s].text /\ history[i].run = run_id[s]
      BY <1>1, <2>1 DEF HistoryOfWholeAnswers
    <2>4. /\ up'[s].end # "closed" /\ orch'[s].at \in {"remember", "done"} /\ orch'[s].text = orch[s].text
      BY <1>0, <2>3 DEF Late, Elsewhere
    <2> QED
      BY <1>0, <2>1, <2>2, <2>3, <2>4
  <1>2. CASE i \notin DOMAIN history
    <2>1. Adds(t) /\ history'[i] = [run |-> run_id[t], turn |-> t, text |-> orch[t].text]
      BY <1>0, <1>2, Grown
    <2>2. history'[i].run = run_id[t] /\ history'[i].turn = t /\ history'[i].text = orch[t].text
      BY <2>1
    <2>3. up[t].end # "closed" /\ orch'[t].at = "remember" /\ orch'[t].text = orch[t].text /\ up'[t] = up[t]
      BY <2>1, Itself DEF Adds, Sound, Fits
    <2> QED
      BY <1>0, <2>2, <2>3
  <1> QED
    BY <1>1, <1>2

\* What an agent looks up is of other turns, and of later ones only after a fault.
LEMMA LookedUp ==
    ASSUME AllSound, DataOK, FaultsInv, TurnOrder, MemoryInv, HistoryOfWholeAnswers,
           NEW t \in Turn, orch[t].at \in {"plan", "recall"}, NEW limit,
           NEW item \in get_by_user_agent_run(run_id[t], limit) \union search_memory_items(run_id[t])
    PROVE  item.run = run_id[t] /\ item.turn # t /\ (item.turn > t => faults > 0)
  <1>1. item.run = run_id[t] /\ item \in {history[i] : i \in DOMAIN history} \union memories
    BY Found
  <1>2. item.turn \in Turn /\ orch[item.turn].at \in {"remember", "done"}
    <2>1. CASE item \in memories
      <3>1. item.turn \in Turn
        BY <2>1 DEF DataOK, HistoryTypeOK
      <3>2. orch[item.turn].at = "done"
        BY <2>1 DEF MemoryInv, At
      <3> QED
        BY <3>1, <3>2
    <2>2. CASE item \in {history[i] : i \in DOMAIN history}
      <3>1. PICK i \in DOMAIN history : item = history[i]
        BY <2>2
      <3>2. history[i] \in Row
        BY <3>1, Found
      <3>3. item.turn \in Turn
        BY <3>1, <3>2 DEF Row
      <3>4. orch[item.turn].at \in {"remember", "done"}
        BY <3>1 DEF HistoryOfWholeAnswers
      <3> QED
        BY <3>3, <3>4
    <2> QED
      BY <1>1, <2>1, <2>2
  <1>3. PICK u \in Turn : u = item.turn /\ orch[u].at \in {"remember", "done"}
    BY <1>2
  <1>4. u # t
    BY <1>3
  <1>5. chat[u].end # "not asked"
    BY <1>3, Itself DEF Sound, Fits
  <1>6. u > t => Ended(t)
    <2>1. u \in Nat /\ t \in Nat
      BY Counts
    <2>2. u > t => t < u
      BY <2>1
    <2> QED
      BY <1>5, <2>2 DEF TurnOrder
  <1>7. orch[t].at \in Working
    BY DEF Working
  <1> QED
    BY <1>1, <1>3, <1>4, <1>6, <1>7, EndedEarly

LEMMA HistoryKept ==
    ASSUME AllSound, DataOK, FaultsInv, TurnOrder, MemoryInv, HistoryOfWholeAnswers, NEW t \in Turn, Proceeds(t),
           faults > 0 => faults' > 0
    PROVE  HistoryOfWholeAnswers'
  <1>0. UNCHANGED run_id /\ Elsewhere(t) /\ Late(t) /\ Stores(t) /\ Knows(t)
    BY DEF Proceeds
  <1>1. ASSUME EnableHistory, NEW item \in memories'
        PROVE  \E i \in DOMAIN history' : history'[i].turn = item.turn /\ history'[i].run = item.run
    <2>1. \E i \in DOMAIN history : history[i].turn = item.turn /\ history[i].run = item.run
      <3>1. CASE item \in memories
        BY <1>1, <3>1 DEF HistoryOfWholeAnswers
      <3>2. CASE item \notin memories
        <4>1. Remembers(t) /\ item = [run |-> run_id[t], turn |-> t]
          BY <1>0, <1>1, <3>2, Grown
        <4>2. t \in StoredTurns /\ item.run = run_id[t] /\ item.turn = t
          BY <1>1, <4>1 DEF Remembers, MemoryInv, At
        <4>3. PICK i \in DOMAIN history : history[i].turn = t
          BY <4>2 DEF StoredTurns
        <4>4. history[i].run = run_id[t]
          BY <4>3 DEF HistoryOfWholeAnswers
        <4> QED
          BY <4>2, <4>3, <4>4
      <3> QED
        BY <3>1, <3>2
    <2> QED
      BY <1>0, <2>1, Grown
  <1>2. ASSUME NEW s \in Turn, NEW item \in knew'[s].items \union knew'[s].rows
        PROVE  item.run = run_id'[s] /\ item.turn # s /\ (item.turn > s => faults' > 0)
    <2>1. item \in knew[s].items \union knew[s].rows =>
            item.run = run_id[s] /\ item.turn # s /\ (item.turn > s => faults > 0)
      BY DEF HistoryOfWholeAnswers
    <2>2. CASE knew'[s] = knew[s]
      BY <1>0, <1>2, <2>1, <2>2
    <2>3. CASE s = t /\ Forgets(t)
      BY <1>2, <2>3 DEF Forgets, Nothing
    <2>4. CASE s = t /\ Informs(t)
      <3>1. PICK limit : knew'[t].rows \subseteq get_by_user_agent_run(run_id[t], limit)
        BY <2>4 DEF Informs
      <3>2. knew'[t].items \subseteq search_memory_items(run_id[t]) /\ orch[t].at \in {"plan", "recall"}
        BY <2>4 DEF Informs
      <3>3. item \in get_by_user_agent_run(run_id[t], limit) \union search_memory_items(run_id[t])
        BY <1>2, <2>4, <3>1, <3>2
      <3>4. item.run = run_id[t] /\ item.turn # t /\ (item.turn > t => faults > 0)
        BY <3>2, <3>3, LookedUp
      <3> QED
        BY <1>0, <2>4, <3>4
    <2> QED
      BY <1>0, <2>2, <2>3, <2>4 DEF Knows, Stays
  <1>3. \A i \in DOMAIN history' :
          LET s == history'[i].turn
          IN  /\ up'[s].end # "closed" /\ orch'[s].at \in {"remember", "done"}
              /\ history'[i].text = orch'[s].text /\ history'[i].run = run_id'[s]
    BY RowsWhole
  <1> QED
    BY <1>1, <1>2, <1>3 DEF HistoryOfWholeAnswers

LEMMA HistoryNotAsked ==
    ASSUME AllSound, DataOK, TurnOrder, MemoryInv, HistoryOfWholeAnswers,
           NEW t \in Turn, ChatStreaming(t) \/ ChatRefused(t), faults > 0 => faults' > 0
    PROVE  HistoryOfWholeAnswers' /\ MemoryInv'
  <1>1. /\ UNCHANGED <<knew, history, memories>>
        /\ \A s \in Turn : orch'[s] = orch[s] /\ up'[s] = up[s]
        /\ \A s \in Turn \ {t} : run_id'[s] = run_id[s] /\ stored'[s] = stored[s]
        /\ orch[t].at = "off"
    BY AskingFrame
  <1>2. knew[t] = Nothing
    BY <1>1 DEF MemoryInv
  <1>3. ASSUME NEW i \in DOMAIN history'
        PROVE  LET s == history'[i].turn
               IN  /\ up'[s].end # "closed" /\ orch'[s].at \in {"remember", "done"}
                   /\ history'[i].text = orch'[s].text /\ history'[i].run = run_id'[s]
    <2>1. history'[i] = history[i] /\ i \in DOMAIN history
      BY <1>1
    <2>2. PICK s \in Turn : s = history[i].turn
      <3>1. history[i] \in Row
        BY <2>1, Found
      <3> QED
        BY <3>1 DEF Row
    <2>3. /\ up[s].end # "closed" /\ orch[s].at \in {"remember", "done"}
          /\ history[i].text = orch[s].text /\ history[i].run = run_id[s]
      BY <2>1, <2>2 DEF HistoryOfWholeAnswers
    <2>4. s # t
      BY <1>1, <2>3
    <2> QED
      BY <1>1, <2>1, <2>2, <2>3, <2>4
  <1>4. ASSUME NEW s \in Turn, NEW item \in knew'[s].items \union knew'[s].rows
        PROVE  item.run = run_id'[s] /\ item.turn # s /\ (item.turn > s => faults' > 0)
    <2>1. s # t
      BY <1>1, <1>2, <1>4 DEF Nothing
    <2> QED
      BY <1>1, <1>4, <2>1 DEF HistoryOfWholeAnswers
  <1>5. EnableHistory => \A item \in memories' : \E i \in DOMAIN history' :
            history'[i].turn = item.turn /\ history'[i].run = item.run
    BY <1>1 DEF HistoryOfWholeAnswers
  <1>6. HistoryOfWholeAnswers'
    BY <1>3, <1>4, <1>5 DEF HistoryOfWholeAnswers
  <1>7. ASSUME NEW item \in memories' PROVE At(item.turn, "done")' /\ item.run = run_id'[item.turn]
    <2>1. item.turn \in Turn /\ orch[item.turn].at = "done" /\ item.run = run_id[item.turn]
      BY <1>1, <1>7 DEF MemoryInv, At, DataOK, HistoryTypeOK
    <2>2. item.turn # t
      BY <1>1, <2>1
    <2> QED
      BY <1>1, <2>1, <2>2 DEF At
  <1>8. StoredTurns' = StoredTurns
    BY <1>1 DEF StoredTurns
  <1>9. stored'[t] \subseteq StoredTurns
    <2>1. CASE ChatStreaming(t)
      BY <2>1 DEF ChatStreaming, StoredTurns, DataOK
    <2>2. CASE ChatRefused(t)
      BY <2>2 DEF ChatRefused, MemoryInv
    <2> QED
      BY <2>1, <2>2
  <1>10. ASSUME NEW s \in Turn
         PROVE  /\ EnableHistory /\ At(s, "remember")' => s \in StoredTurns'
                /\ knew'[s].rows \subseteq {history'[i] : i \in DOMAIN history'} /\ knew'[s].items \subseteq memories'
                /\ orch'[s].at \notin {"tasks", "stream"} => knew'[s] = Nothing
                /\ stored'[s] \subseteq StoredTurns'
    BY <1>1, <1>8, <1>9 DEF MemoryInv, At
  <1>11. MemoryInv'
    BY <1>7, <1>10 DEF MemoryInv
  <1> QED
    BY <1>6, <1>11

LEMMA MemoryKept ==
    ASSUME AllSound, DataOK, MemoryInv, HistoryOfWholeAnswers, NEW t \in Turn, Proceeds(t)
    PROVE  MemoryInv'
  <1>0. UNCHANGED <<run_id, stored>> /\ Elsewhere(t) /\ Late(t) /\ Stores(t) /\ Knows(t)
    BY DEF Proceeds
  <1>1. ASSUME NEW item \in memories' PROVE At(item.turn, "done")' /\ item.run = run_id'[item.turn]
    <2>1. CASE item \in memories
      <3>1. PICK s \in Turn : s = item.turn
        BY <2>1 DEF DataOK, HistoryTypeOK
      <3>2. orch[s].at = "done" /\ item.run = run_id[s]
        BY <2>1, <3>1 DEF MemoryInv, At
      <3>3. orch'[s].at = "done"
        BY <1>0, <3>2 DEF Late, Elsewhere
      <3> QED
        BY <1>0, <3>1, <3>2, <3>3 DEF At
    <2>2. CASE item \notin memories
      <3>1. Remembers(t) /\ item = [run |-> run_id[t], turn |-> t]
        BY <1>0, <1>1, <2>2, Grown
      <3>2. orch'[t].at = "done" /\ item.turn = t /\ item.run = run_id[t]
        BY <3>1 DEF Remembers
      <3> QED
        BY <1>0, <3>2 DEF At
    <2> QED
      BY <2>1, <2>2
  <1>2. StoredTurns \subseteq StoredTurns' /\ memories \subseteq memories'
        /\ {history[i] : i \in DOMAIN history} \subseteq {history'[i] : i \in DOMAIN history'}
    BY <1>0, Grown
  <1>3. ASSUME NEW s \in Turn, EnableHistory, orch'[s].at = "remember" PROVE s \in StoredTurns'
    <2>1. CASE orch[s].at = "remember"
      BY <1>2, <1>3, <2>1 DEF MemoryInv, At
    <2>2. CASE orch[s].at # "remember"
      <3>1. s = t
        BY <1>0, <1>3, <2>2 DEF Elsewhere
      <3>2. Adds(t)
        BY <1>0, <1>3, <2>2, <3>1 DEF Stores, Remembers
      <3>3. \E i \in DOMAIN history' : history'[i].turn = t
        BY <1>0, <3>2, Grown
      <3> QED
        BY <3>1, <3>3 DEF StoredTurns
    <2> QED
      BY <2>1, <2>2
  <1>4. ASSUME NEW s \in Turn
        PROVE  /\ knew'[s].rows \subseteq {history'[i] : i \in DOMAIN history'} /\ knew'[s].items \subseteq memories'
               /\ orch'[s].at \notin {"tasks", "stream"} => knew'[s] = Nothing
    <2>1. CASE knew'[s] = knew[s] /\ (orch'[s].at \in Informed \/ orch[s].at \notin Informed)
      BY <1>2, <2>1 DEF MemoryInv, Informed
    <2>2. CASE s = t /\ Forgets(t)
      BY <2>2 DEF Forgets, Nothing
    <2>3. CASE s = t /\ Informs(t)
      <3>1. PICK limit : knew'[t].rows \subseteq get_by_user_agent_run(run_id[t], limit)
        BY <2>3 DEF Informs
      <3>2. knew'[t].items \subseteq search_memory_items(run_id[t]) /\ orch'[t].at \in Informed
        BY <2>3 DEF Informs
      <3>3. /\ get_by_user_agent_run(run_id[t], limit) \subseteq {history[i] : i \in DOMAIN history}
            /\ search_memory_items(run_id[t]) \subseteq memories
        BY Found
      <3> QED
        BY <1>2, <2>3, <3>1, <3>2, <3>3 DEF Informed
    <2>4. CASE s = t /\ Stays(t)
      <3>1. knew'[s] = knew[s] /\ (orch'[s].at \in Informed \/ orch[s].at \notin Informed)
        BY <2>4 DEF Stays, Informed
      <3> QED
        BY <2>1, <3>1
    <2>5. CASE s # t
      <3>1. knew'[s] = knew[s] /\ orch'[s] = orch[s]
        BY <1>0, <2>5 DEF Knows, Elsewhere
      <3> QED
        BY <2>1, <3>1
    <2> QED
      BY <1>0, <2>2, <2>3, <2>4, <2>5 DEF Knows
  <1>5. \A s \in Turn : stored'[s] \subseteq StoredTurns'
    BY <1>0, <1>2 DEF MemoryInv
  <1> QED
    BY <1>1, <1>3, <1>4, <1>5 DEF MemoryInv, At

LEMMA OwnRows ==
    ASSUME DataOK, NEW run
    PROVE  /\ IsFiniteSet(RowsOf(run)) /\ RowsOf(run) \subseteq 1 .. Len(history) /\ Len(history) \in Nat
           /\ Cardinality(RowsOf(run)) \in Nat
           /\ \A limit : LastOf(RowsOf(run), limit) \subseteq RowsOf(run) /\ IsFiniteSet(LastOf(RowsOf(run), limit))
                         /\ Cardinality(LastOf(RowsOf(run), limit)) \in Nat
  <1>1. history \in Seq(Row)
    BY DEF DataOK, HistoryTypeOK, Row
  <1>2. Len(history) \in Nat /\ DOMAIN history = 1 .. Len(history)
    BY <1>1
  <1>3. RowsOf(run) \subseteq 1 .. Len(history)
    BY <1>2 DEF RowsOf
  <1>4. IsFiniteSet(1 .. Len(history))
    BY <1>2, FS_Interval
  <1>5. IsFiniteSet(RowsOf(run))
    BY <1>3, <1>4, FS_Subset
  <1>6. \A limit : LastOf(RowsOf(run), limit) \subseteq RowsOf(run)
    BY DEF LastOf
  <1>7. \A limit : IsFiniteSet(LastOf(RowsOf(run), limit))
    BY <1>5, <1>6, FS_Subset
  <1> QED
    BY <1>2, <1>3, <1>5, <1>6, <1>7, FS_CardinalityType

\* Of any limit rows a run has that many last ones.
Limited(own, limit) ==
    Cardinality(LastOf(own, limit)) = IF Cardinality(own) < limit THEN Cardinality(own) ELSE limit

LEMMA LimitedOneMore ==
    ASSUME NEW own, IsFiniteSet(own), NEW n \in Nat, own \subseteq 1 .. n, NEW limit \in Nat,
           limit > 0 => Limited(own, limit - 1)
    PROVE  Limited(own \union {n + 1}, limit)
  <1> DEFINE all == own \union {n + 1}
  <1> SUFFICES Limited(all, limit)
    OBVIOUS
  <1>0. n + 1 \notin own
    OBVIOUS
  <1>1. PICK c \in Nat : c = Cardinality(own) /\ Cardinality(all) = c + 1 /\ IsFiniteSet(all)
    BY <1>0, FS_AddElement, FS_CardinalityType
  <1>2. CASE limit = 0
    <2>1. \A i \in all : ~ (Cardinality({j \in all : j > i}) < 0)
      <3> TAKE i \in all
      <3>1. {j \in all : j > i} \subseteq all
        OBVIOUS
      <3>2. Cardinality({j \in all : j > i}) \in Nat
        BY <1>1, <3>1, FS_Subset, FS_CardinalityType
      <3> QED
        BY <3>2
    <2>2. LastOf(all, 0) = {}
      BY <2>1 DEF LastOf
    <2>3. Cardinality(LastOf(all, 0)) = 0
      BY <2>2, FS_EmptySet
    <2> HIDE DEF all
    <2> QED
      BY <1>1, <1>2, <2>3 DEF Limited
  <1>3. CASE limit > 0
    <2> DEFINE last == LastOf(own, limit - 1)
    <2>1. LastOf(all, limit) = last \union {n + 1}
      <3>1. limit \in Nat \ {0}
        BY <1>3
      <3> QED
        BY <3>1, OneRowMore
    <2>2. last \subseteq own
      BY DEF LastOf
    <2>3. IsFiniteSet(last) /\ n + 1 \notin last
      BY <1>0, <2>2, FS_Subset
    <2>4. Cardinality(last) = IF c < limit - 1 THEN c ELSE limit - 1
      BY <1>1, <1>3 DEF Limited
    <2> HIDE DEF last, all
    <2>5. Cardinality(last \union {n + 1}) = Cardinality(last) + 1
      BY <2>3, FS_AddElement
    <2>6. Cardinality(LastOf(all, limit)) = IF c + 1 < limit THEN c + 1 ELSE limit
      BY <1>3, <2>1, <2>4, <2>5
    <2> QED
      BY <1>1, <2>6 DEF Limited
  <1> QED
    BY <1>2, <1>3

LEMMA LimitsKept ==
    ASSUME AllSound, DataOK, LimitsInv, NEW t \in Turn, Stores(t)
    PROVE  LimitsInv'
  <1> DEFINE RowsNow(run) == {i \in DOMAIN history' : history'[i].run = run}
  <1>1. SUFFICES ASSUME NEW run \in 0 .. Turns, NEW limit \in 0 .. PlannerLimit + AnswerLimit
                 PROVE  Limited(RowsNow(run), limit)
    BY DEF LimitsInv, Limited, LastOf, RowsOf
  <1>2. \A l \in 0 .. PlannerLimit + AnswerLimit : Limited(RowsOf(run), l)
    BY DEF LimitsInv, Limited
  <1>3. CASE RowsNow(run) = RowsOf(run)
    BY <1>2, <1>3
  <1>4. CASE Adds(t) /\ run = run_id[t]
    <2>1. create_history_record(run_id[t], t, orch[t].text)
      BY <1>4 DEF Adds
    <2>2. PICK n \in Nat : /\ n = Len(history) /\ DOMAIN history = 1 .. n /\ DOMAIN history' = 1 .. n + 1
                           /\ \A i \in DOMAIN history : history'[i] = history[i]
                           /\ history'[n + 1] = [run |-> run_id[t], turn |-> t, text |-> orch[t].text]
      BY <2>1, RunTyped, RowAdded
    <2>3. history'[n + 1].run = run
      BY <1>4, <2>2
    <2>4. \A i \in DOMAIN history' : i \in DOMAIN history \/ i = n + 1
      BY <2>2
    <2>5. DOMAIN history \subseteq DOMAIN history' /\ n + 1 \in DOMAIN history'
      BY <2>2
    <2>6. RowsNow(run) = RowsOf(run) \union {n + 1}
      BY <2>2, <2>3, <2>4, <2>5 DEF RowsOf
    <2>7. IsFiniteSet(RowsOf(run)) /\ RowsOf(run) \subseteq 1 .. n
      BY <2>2, OwnRows
    <2>8. limit \in Nat /\ (limit > 0 => limit - 1 \in 0 .. PlannerLimit + AnswerLimit)
      BY Consts
    <2> HIDE DEF RowsNow
    <2> QED
      BY <1>2, <2>6, <2>7, <2>8, LimitedOneMore
  <1>5. CASE history' = history
    BY <1>3, <1>5 DEF RowsOf
  <1>6. CASE Adds(t) /\ run # run_id[t]
    <2>1. \A i \in DOMAIN history' :
            i \in DOMAIN history \/ history'[i] = [run |-> run_id[t], turn |-> t, text |-> orch[t].text]
      BY <1>6, Grown DEF Adds, create_history_record, create
    <2>2. \A i \in DOMAIN history : i \in DOMAIN history' /\ history'[i] = history[i]
      BY Grown
    <2>3. \A i \in DOMAIN history' : history'[i].run = run => i \in DOMAIN history
      BY <1>6, <2>1
    <2>4. RowsNow(run) = RowsOf(run)
      BY <2>2, <2>3 DEF RowsOf
    <2> QED
      BY <1>3, <2>4
  <1> QED
    BY <1>4, <1>5, <1>6, Grown

LEMMA ResultsKept ==
    ASSUME AllSound, ResultsInv, NEW t \in Turn, Proceeds(t)
    PROVE  ResultsInv'
  <1> SUFFICES ASSUME NEW s \in Turn, orch'[s].at = "tasks", Distinct(orch'[s].plan)
               PROVE  \A i \in 1 .. orch'[s].next - 1 : orch'[s].tasks_status[i] \in {"complete", "fail"}
    BY DEF ResultsInv, At, Distinct
  <1>0. Tasks(t) /\ Elsewhere(t)
    BY DEF Proceeds
  <1>1. CASE orch'[s] = orch[s]
    BY <1>1 DEF ResultsInv, At, Distinct
  <1>2. CASE s = t /\ orch[t].at # "tasks"
    BY <1>0, <1>2 DEF Tasks
  <1>3. CASE s = t /\ orch[t].at = "tasks" /\ orch'[t] # orch[t]
    <2> DEFINE o == orch[t]
    <2>1. PICK status : RanTask(o, orch'[t], status)
      BY <1>0, <1>3 DEF Tasks
    <2>2. /\ status \in {"complete", "fail"} /\ Distinct(o.plan) /\ orch'[t].next = o.next + 1
          /\ orch'[t].tasks_status = _update_task_status(o, status)
      BY <1>3, <2>1 DEF RanTask
    <2>3. /\ o \in Agent /\ o.next \in 1 .. Len(o.plan) + 1 /\ o.next <= Len(o.plan)
          /\ Len(o.tasks_status) = Len(o.plan)
      BY <1>3, Itself DEF Sensible
    <2>4. o.plan \in Seq(Task) /\ o.tasks_status \in Seq(Statuses) /\ status \in Statuses
      BY <2>2, <2>3, PlanTyped, AgentParts DEF Statuses
    <2>5. Len(o.plan) \in Nat /\ o.next \in 1 .. Len(o.plan) /\ o.next \in 1 .. Len(o.tasks_status)
      BY <2>3, <2>4
    <2>6. orch'[t].tasks_status = [o.tasks_status EXCEPT ![o.next] = status]
      BY <2>2, <2>3, <2>4, <2>5, OwnStatus
    <2>7. \A i \in 1 .. o.next - 1 : o.tasks_status[i] \in {"complete", "fail"}
      BY <1>3, <2>2 DEF ResultsInv, At, Distinct
    <2>8. \A i \in 1 .. Len(o.tasks_status) :
            orch'[t].tasks_status[i] = IF i = o.next THEN status ELSE o.tasks_status[i]
      BY <2>4, <2>6
    <2>9. PICK k \in Nat : k = o.next /\ k <= Len(o.tasks_status) /\ Len(o.tasks_status) \in Nat
      BY <2>3, <2>5
    <2> HIDE DEF o
    <2>10. \A i \in 1 .. k : i \in 1 .. Len(o.tasks_status) /\ (i = k \/ i \in 1 .. k - 1)
      BY <2>9
    <2>11. \A i \in 1 .. k : orch'[t].tasks_status[i] \in {"complete", "fail"}
      BY <2>2, <2>7, <2>8, <2>9, <2>10
    <2>12. orch'[t].next = k + 1
      BY <2>2, <2>9
    <2>13. k + 1 - 1 = k
      BY <2>9
    <2>14. \A i \in 1 .. orch'[t].next - 1 : orch'[t].tasks_status[i] \in {"complete", "fail"}
      BY <2>11, <2>12, <2>13
    <2>15. s = t
      BY <1>3
    <2> QED
      BY <2>14, <2>15
  <1> QED
    BY <1>0, <1>1, <1>2, <1>3 DEF Elsewhere

\* A query of all but failed finds what was stored, or as much that is later.
LEMMA LatestFound ==
    ASSUME AllSound, DataOK, LimitsInv, MemoryInv, HistoryOfWholeAnswers, SessionInv, client = "whole",
           NEW t \in Turn, routing[t] # "off", NEW limit \in {PlannerLimit, AnswerLimit},
           NEW rows, rows = get_by_user_agent_run(run_id[t], limit),
           NEW u \in stored[t], u \notin {row.turn : row \in rows}
    PROVE  /\ Cardinality(rows) = limit
           /\ \A i, j \in DOMAIN history :
                history[i].turn = u /\ history[j].turn \in {row.turn : row \in rows} => i < j
  <1> DEFINE own == RowsOf(run_id[t])
             last == LastOf(own, limit)
             After(i) == {k \in own : k > i}
  <1>0. limit \in Nat /\ limit \in 0 .. PlannerLimit + AnswerLimit /\ run_id[t] \in 0 .. Turns
    BY Consts, RunTyped
  <1>1. /\ IsFiniteSet(own) /\ own \subseteq DOMAIN history /\ DOMAIN history \subseteq Int
        /\ Cardinality(own) \in Nat /\ last \subseteq own /\ IsFiniteSet(last)
    <2>1. history \in Seq(Row)
      BY DEF DataOK, HistoryTypeOK, Row
    <2>2. DOMAIN history \subseteq Int
      BY <2>1
    <2> QED
      BY <2>2, OwnRows, ZenonT(60) DEF RowsOf
  <1>2. rows = {history[i] : i \in last}
    BY DEF get_by_user_agent_run
  <1>3. \A i, j \in DOMAIN history : history[i].turn = history[j].turn => i = j
    BY DEF DataOK, HistoryTypeOK
  <1>4. PICK i \in DOMAIN history : history[i].turn = u
    BY DEF MemoryInv, StoredTurns
  <1>5. history[i].run = run_id[t]
    <2>1. u \in Turn /\ u \in StoredTurns
      BY <1>4 DEF DataOK, StoredTurns
    <2>2. routing[u] # "off"
      BY <2>1, StoredAsked
    <2>3. history[i].run = run_id[u]
      BY <1>4 DEF HistoryOfWholeAnswers
    <2> QED
      BY <2>1, <2>2, <2>3 DEF SessionInv
  <1>6. i \in own /\ i \notin last
    BY <1>2, <1>4, <1>5 DEF RowsOf
  <1>7. \A k \in own : k \in last <=> Cardinality(After(k)) < limit
    BY DEF LastOf
  <1>8. ASSUME NEW k \in Int, NEW j \in Int, j <= k
        PROVE  /\ Cardinality(After(k)) \in Nat /\ Cardinality(After(j)) \in Nat
               /\ Cardinality(After(k)) <= Cardinality(After(j))
               /\ Cardinality(After(k)) <= Cardinality(own)
    <2>1. own \subseteq Int /\ j <= j
      BY <1>1, <1>8
    <2> HIDE DEF own
    <2> QED
      BY <1>1, <1>8, <2>1, Later
  <1>9. Cardinality(last) = IF Cardinality(own) < limit THEN Cardinality(own) ELSE limit
    BY <1>0 DEF LimitsInv
  <1> HIDE DEF own, last, After
  <1>10. i \in Int /\ i <= i
    BY <1>1
  <1>11. ~ (Cardinality(After(i)) < limit) /\ Cardinality(After(i)) \in Nat
         /\ Cardinality(After(i)) <= Cardinality(own)
    BY <1>6, <1>7, <1>8, <1>10
  <1>12. Cardinality(last) = limit
    BY <1>0, <1>1, <1>9, <1>11
  <1>13. Cardinality(rows) = Cardinality(last)
    <2> DEFINE f == [k \in last |-> history[k]]
    <2>1. \A j, k \in last : history[j] = history[k] => j = k
      BY <1>1, <1>3
    <2>2. f \in Bijection(last, rows)
      BY <1>2, <2>1 DEF Bijection, Injection, Surjection, IsInjective
    <2>3. ExistsBijection(last, rows)
      BY <2>2 DEF ExistsBijection
    <2> QED
      BY <1>1, <2>3, FS_Bijection
  <1>14. ASSUME NEW i2 \in DOMAIN history, NEW j \in DOMAIN history,
                history[i2].turn = u, history[j].turn \in {row.turn : row \in rows}
         PROVE  i2 < j
    <2>1. i2 = i
      BY <1>3, <1>4, <1>14
    <2>2. j \in last
      <3>1. PICK k \in last : history[j].turn = history[k].turn
        BY <1>2, <1>14
      <3> QED
        BY <1>1, <1>3, <3>1
    <2>3. Cardinality(After(j)) < limit
      BY <1>1, <1>7, <2>2
    <2>4. j \in Int
      BY <1>1
    <2>5. ~ (j <= i)
      <3> SUFFICES ASSUME j <= i PROVE FALSE
        OBVIOUS
      <3>1. Cardinality(After(i)) <= Cardinality(After(j)) /\ Cardinality(After(j)) \in Nat
        BY <1>8, <1>10, <2>4
      <3> QED
        BY <1>0, <1>11, <2>3, <3>1
    <2> QED
      BY <1>10, <2>1, <2>4, <2>5
  <1> QED
    BY <1>12, <1>13, <1>14

\* What FollowUpSeesStoredAnswers says of one turn.
SeesStored(t, rows, limit) ==
    \/ rows = FailedSearch /\ faults > 0
    \/ \A s \in stored[t] \ {row.turn : row \in rows} :
         /\ Cardinality(rows) = limit
         /\ \A i, j \in DOMAIN history :
              history[i].turn = s /\ history[j].turn \in {row.turn : row \in rows} => i < j

LEMMA FollowUpKept ==
    ASSUME AllSound, DataOK, LimitsInv, MemoryInv, HistoryOfWholeAnswers, SessionInv, FollowUpSeesStoredAnswers,
           NEW t \in Turn, Proceeds(t), faults > 0 => faults' > 0
    PROVE  FollowUpSeesStoredAnswers'
  <1>1. SUFFICES ASSUME NEW s \in Turn, client' = "whole", EnableHistory, orch'[s].at \in Informed
                 PROVE  SeesStored(s, knew[s].rows, LimitAt(orch[s].at))'
    BY DEF FollowUpSeesStoredAnswers, SeesStored, At, LimitAt, Informed
  <1>0. /\ UNCHANGED <<run_id, stored, client>> /\ Elsewhere(t) /\ Stores(t) /\ Knows(t) /\ client = "whole"
        /\ routing[t] # "off"
    BY <1>1 DEF Proceeds
  <1>2. CASE knew'[s] = knew[s] /\ orch'[s].at = orch[s].at
    <2> DEFINE rows == knew[s].rows
               turns == {row.turn : row \in rows}
    <2>1. SeesStored(s, rows, LimitAt(orch[s].at))
      BY <1>0, <1>1, <1>2 DEF FollowUpSeesStoredAnswers, SeesStored, At, LimitAt, Informed
    <2>2. CASE rows = FailedSearch /\ faults > 0
      BY <1>2, <2>2 DEF SeesStored, FailedSearch
    <2>3. CASE ~ (rows = FailedSearch /\ faults > 0)
      <3>1. ASSUME NEW u \in stored[s] \ turns, NEW i \in DOMAIN history', NEW j \in DOMAIN history',
                   history'[i].turn = u, history'[j].turn \in turns
            PROVE  i < j
        <4>1. u \in StoredTurns /\ turns \subseteq StoredTurns
          <5>1. rows \subseteq {history[k] : k \in DOMAIN history}
            BY DEF MemoryInv
          <5> QED
            BY <5>1 DEF MemoryInv, StoredTurns
        <4>2. ASSUME NEW k \in DOMAIN history', history'[k].turn \in StoredTurns
              PROVE  k \in DOMAIN history /\ history'[k] = history[k]
          <5>1. k \in DOMAIN history
            <6>1. SUFFICES ASSUME k \notin DOMAIN history PROVE FALSE
              OBVIOUS
            <6>2. Adds(t) /\ history'[k] = [run |-> run_id[t], turn |-> t, text |-> orch[t].text]
              BY <1>0, <6>1, Grown
            <6>3. orch[t].at = "store" /\ t \in StoredTurns
              BY <4>2, <6>2 DEF Adds
            <6> QED
              BY <6>3, StoredAsked
          <5> QED
            BY <1>0, <5>1, Grown
        <4>3. i \in DOMAIN history /\ history'[i] = history[i] /\ j \in DOMAIN history /\ history'[j] = history[j]
          BY <3>1, <4>1, <4>2
        <4> QED
          BY <2>1, <2>3, <3>1, <4>3 DEF SeesStored
      <3>2. \A u \in stored[s] \ turns : Cardinality(rows) = LimitAt(orch[s].at)
        BY <2>1, <2>3 DEF SeesStored
      <3> QED
        BY <1>0, <1>2, <3>1, <3>2 DEF SeesStored
    <2> QED
      BY <2>2, <2>3
  <1>3. CASE s = t /\ Informs(t)
    <2>0. UNCHANGED history
      BY <1>0, <1>3 DEF Informs, Stores, Adds, Remembers
    <2>1. CASE knew'[t].rows = {} /\ faults' > 0
      BY <1>3, <2>1 DEF SeesStored, FailedSearch
    <2>2. CASE knew'[t].rows = get_by_user_agent_run(run_id[t], LimitAt(orch'[t].at))
      <3>1. PICK rows : rows = knew'[t].rows
        OBVIOUS
      <3>2. PICK limit \in {PlannerLimit, AnswerLimit} : limit = LimitAt(orch'[t].at)
        BY DEF LimitAt
      <3>3. rows = get_by_user_agent_run(run_id[t], limit)
        BY <2>2, <3>1, <3>2
      <3>4. \A u \in stored[t] \ {row.turn : row \in rows} :
              /\ Cardinality(rows) = limit
              /\ \A i, j \in DOMAIN history :
                   history[i].turn = u /\ history[j].turn \in {row.turn : row \in rows} => i < j
        BY <1>0, <3>3, LatestFound
      <3> QED
        BY <1>0, <1>3, <2>0, <3>1, <3>2, <3>4 DEF SeesStored
    <2> QED
      BY <1>1, <1>3, <2>1, <2>2 DEF Informs
  <1>4. CASE s = t /\ Stays(t)
    BY <1>1, <1>2, <1>4 DEF Stays
  <1>5. CASE s = t /\ Forgets(t)
    BY <1>1, <1>5 DEF Forgets
  <1>6. CASE s # t
    BY <1>0, <1>2, <1>6 DEF Knows, Elsewhere
  <1> QED
    BY <1>0, <1>3, <1>4, <1>5, <1>6 DEF Knows

\* A question asked or refused changes nothing of what other turns found.
LEMMA NotAskedKept ==
    ASSUME AllSound, DataOK, TurnOrder, LimitsInv, ResultsInv, FollowUpSeesStoredAnswers,
           NEW t \in Turn, ChatStreaming(t) \/ ChatRefused(t), faults > 0 => faults' > 0
    PROVE  LimitsInv' /\ ResultsInv' /\ FollowUpSeesStoredAnswers'
  <1>1. /\ UNCHANGED <<knew, history, memories, client>>
        /\ \A s \in Turn : orch'[s] = orch[s]
        /\ \A s \in Turn \ {t} : stored'[s] = stored[s]
        /\ orch[t].at = "off"
    BY AskingFrame
  <1>2. LimitsInv'
    BY <1>1 DEF LimitsInv, LastOf, RowsOf
  <1>3. ResultsInv'
    BY <1>1 DEF ResultsInv, At
  <1>4. ASSUME NEW s \in Turn, client' = "whole", EnableHistory, orch'[s].at \in Informed
        PROVE  SeesStored(s, knew[s].rows, LimitAt(orch[s].at))'
    <2>1. s # t
      BY <1>1, <1>4 DEF Informed
    <2>2. SeesStored(s, knew[s].rows, LimitAt(orch[s].at))
      BY <1>1, <1>4 DEF FollowUpSeesStoredAnswers, SeesStored, At, LimitAt, Informed
    <2> QED
      BY <1>1, <2>1, <2>2 DEF SeesStored
  <1>5. FollowUpSeesStoredAnswers'
    BY <1>4 DEF FollowUpSeesStoredAnswers, SeesStored, At, LimitAt, Informed
  <1> QED
    BY <1>2, <1>3, <1>5

(***************************************************************************)
(* The theorems                                                            *)
(***************************************************************************)

LEMMA InitIInv == Init => IInv
  <1> SUFFICES ASSUME Init PROVE IInv
    OBVIOUS
  <1>0. /\ chat = [t \in Turn |-> NotAsked] /\ orch = [t \in Turn |-> Off] /\ up = [t \in Turn |-> Open]
        /\ down = [t \in Turn |-> Open] /\ routing = [t \in Turn |-> "off"] /\ run_id = [t \in Turn |-> 0]
        /\ knew = [t \in Turn |-> Nothing] /\ stored = [t \in Turn |-> {}]
        /\ history = <<>> /\ memories = {} /\ faults = 0 /\ runs = 0 /\ client \in Clients
        /\ named \in {NoRun, OwnRun}
    BY DEF Init, OrchestratorInit, HistoryInit, RoutingInit
  <1>1. NotAsked \in Request /\ Off \in Agent /\ Open \in Wire
    BY Consts, EmptySeq DEF NotAsked, Off, Open, Request, Agent, Wire, Ends
  <1>2. /\ Len(Off.tasks_status) = Len(Off.plan) /\ Off.next \in 1 .. Len(Off.plan) + 1
        /\ Len(Open.events) = 0 /\ Len(NotAsked.out) = 0
    BY EmptySeq DEF Off, Open, NotAsked
  <1>3. TurnType("off", NotAsked, Off, Open, Open)
    BY <1>1, <1>2, ConversationAssumption, OrchestratorAssumption DEF TurnType
  <1>4. Fits("off", NotAsked, Off, Open, Open)
    BY DEF Fits, NotAsked, Off, Open
  <1>5. InOrder("off", NotAsked, Off, Open, Open)
    BY DEF InOrder, UnderWay, Relayed, Ending, NotAsked, Off, Open
  <1>6. AllSound
    BY <1>0, <1>1, <1>3, <1>4, <1>5 DEF AllSound, Sound
  <1>7. DataOK
    BY <1>0, Consts, ConversationAssumption DEF DataOK, HistoryTypeOK, Nothing
  <1>8. TypeOK /\ TurnsInv
    BY <1>6, <1>7, Split
  <1>9. FaultsInv /\ TurnOrder
    <2>1. \A t \in Turn : chat[t].end = "not asked" /\ up[t].end = "open" /\ down[t].end = "open"
      BY <1>0 DEF NotAsked, Open
    <2>2. \A t \in Turn : runs <= t - 1
      BY <1>0, Consts DEF Turn
    <2> QED
      BY <2>1, <2>2 DEF FaultsInv, TurnOrder
  <1>10. ResultsInv /\ MemoryInv /\ HistoryOfWholeAnswers /\ SessionInv /\ FollowUpSeesStoredAnswers
    BY <1>0 DEF ResultsInv, MemoryInv, HistoryOfWholeAnswers, SessionInv, FollowUpSeesStoredAnswers,
                At, Off, Nothing, StoredTurns
  <1>11. LimitsInv
    <2>1. \A run : RowsOf(run) = {}
      BY <1>0 DEF RowsOf
    <2>2. \A limit : LastOf({}, limit) = {}
      BY DEF LastOf
    <2>3. Cardinality({}) = 0
      BY FS_EmptySet
    <2>4. \A limit \in 0 .. PlannerLimit + AnswerLimit : 0 = IF 0 < limit THEN 0 ELSE limit
      BY Consts
    <2> QED
      BY <2>1, <2>2, <2>3, <2>4 DEF LimitsInv
  <1> QED
    BY <1>8, <1>9, <1>10, <1>11 DEF IInv

LEMMA NextIInv == IInv /\ [Next]_vars => IInv'
  <1> SUFFICES ASSUME IInv, [Next]_vars PROVE IInv'
    OBVIOUS
  <1>0. /\ AllSound /\ DataOK /\ FaultsInv /\ TurnOrder /\ ResultsInv /\ MemoryInv
        /\ HistoryOfWholeAnswers /\ LimitsInv /\ SessionInv /\ FollowUpSeesStoredAnswers
    BY Split DEF IInv
  <1>1. CASE UNCHANGED vars
    <2>1. UNCHANGED <<orch, up, run_id, knew, faults, history, memories, routing, down,
                      client, named, runs, chat, stored>>
      BY <1>1 DEF vars, orchestratorVars, routingVars, chatVars
    <2>2. TypeOK' /\ TurnsInv'
      BY <2>1 DEF IInv, TypeOK, TurnsInv, HistoryTypeOK
    <2>3. FaultsInv' /\ TurnOrder' /\ ResultsInv'
      BY <1>0, <2>1 DEF FaultsInv, TurnOrder, ResultsInv, Ended, At
    <2>4. MemoryInv' /\ HistoryOfWholeAnswers'
      BY <1>0, <2>1 DEF MemoryInv, HistoryOfWholeAnswers, StoredTurns, At
    <2>5. LimitsInv' /\ SessionInv' /\ FollowUpSeesStoredAnswers'
      BY <1>0, <2>1 DEF LimitsInv, SessionInv, FollowUpSeesStoredAnswers, LastOf, RowsOf, Ended, At
    <2> QED
      BY <2>2, <2>3, <2>4, <2>5 DEF IInv
  <1>2. CASE Next
    <2>1. Forgetful
      BY <1>0 DEF Forgetful, MemoryInv, Informed
    <2>2. PICK t \in Turn : ChatStreaming(t) \/ ChatRefused(t) \/ Proceeds(t)
      BY <1>0, <1>2, <2>1, Steps
    <2>3. AllSound'
      BY <1>0, <2>2, AskingSound DEF Proceeds
    <2>4. DataOK' /\ FaultsInv' /\ (faults > 0 => faults' > 0) /\ TurnOrder' /\ SessionInv'
      BY <1>0, <2>2, DataKept, FaultsKept, OrderKept, SessionKept
    <2>5. CASE Proceeds(t)
      <3>1. HistoryOfWholeAnswers' /\ MemoryInv' /\ ResultsInv' /\ FollowUpSeesStoredAnswers'
        BY <1>0, <2>4, <2>5, HistoryKept, MemoryKept, ResultsKept, FollowUpKept
      <3>2. LimitsInv'
        BY <1>0, <2>5, LimitsKept DEF Proceeds
      <3> QED
        BY <2>3, <2>4, <3>1, <3>2, SplitPrime DEF IInv
    <2>6. CASE ChatStreaming(t) \/ ChatRefused(t)
      <3>1. HistoryOfWholeAnswers' /\ MemoryInv'
        BY <1>0, <2>4, <2>6, HistoryNotAsked
      <3>2. LimitsInv' /\ ResultsInv' /\ FollowUpSeesStoredAnswers'
        BY <1>0, <2>4, <2>6, NotAskedKept
      <3> QED
        BY <2>3, <2>4, <3>1, <3>2, SplitPrime DEF IInv
    <2> QED
      BY <2>2, <2>5, <2>6
  <1> QED
    BY <1>1, <1>2

\* Turns, streams, runs, history and what was looked up fit together, whatever
\* breaks and however the turns overlap.
THEOREM ConversationInvariant == Spec => []IInv
  <1> QED
    BY InitIInv, NextIInv, PTL DEF Spec

\* A client's answer is the beginning of what the orchestrator published, all of
\* it when the task was completed.
THEOREM AnswersRelayed == Spec => []AnswerRelayed
  <1>1. IInv => AnswerRelayed
    <2> SUFFICES ASSUME IInv, NEW t \in Turn, chat[t].got # <<Apology>>
                 PROVE  /\ \A i \in DOMAIN chat[t].got : chat[t].got[i] = i
                        /\ Len(chat[t].got) <= orch[t].sent
                        /\ chat[t].end = "stop" /\ down[t].end = "complete" => Len(chat[t].got) = orch[t].sent
      BY DEF AnswerRelayed
    <2> DEFINE q == chat[t]
               o == orch[t]
               d == down[t]
    <2>1. /\ AllSound /\ q \in Request /\ o \in Agent /\ Fits(routing[t], q, o, up[t], d)
          /\ InOrder(routing[t], q, o, up[t], d)
      <3>1. AllSound
        BY Split DEF IInv
      <3> QED
        BY <3>1, Itself DEF Sound
    <2>2. q.got \in Seq(Nat) /\ o.sent \in Nat
      BY <2>1, AgentParts DEF Request
    <2>3. PICK n \in Nat : n = Len(q.got) /\ DOMAIN q.got = 1 .. n
      BY <2>2
    <2>4. \A i \in 1 .. n : q.got[i] = Nth(o, i)
      BY <2>1, <2>3 DEF InOrder
    <2>5. CASE o.at # "off"
      <3>1. (\A i \in DOMAIN q.got : q.got[i] = i) /\ Len(q.got) <= o.sent
        BY <2>1, <2>3, <2>4, <2>5 DEF Nth, InOrder
      <3>2. ASSUME q.end = "stop", d.end = "complete" PROVE Len(q.got) = o.sent
        <4>1. q.out = <<>> /\ d.events = <<>>
          BY <2>1, <3>2 DEF Fits
        <4>2. Relayed(q, d) = o.sent
          BY <2>1, <2>5, <3>2 DEF InOrder, UnderWay
        <4>3. Relayed(q, d) = n + 0 - 0 + 0
          BY <2>3, <4>1, EmptySeq DEF Relayed, Ending
        <4> QED
          BY <2>3, <4>2, <4>3
      <3> QED
        BY <3>1, <3>2
    <2>6. CASE o.at = "off"
      <3>1. n <= 1 /\ o.sent = 0
        <4>1. n <= 1
          BY <2>1, <2>3, <2>6 DEF InOrder
        <4>2. o = Off
          BY <2>1, <2>6 DEF Fits
        <4>3. o.sent = 0
          BY <4>2 DEF Off
        <4> QED
          BY <4>1, <4>3
      <3>2. n # 1
        <4> SUFFICES ASSUME n = 1 PROVE FALSE
          OBVIOUS
        <4>1. q.got[1] = Apology
          BY <2>4, <2>6 DEF Nth, Apology
        <4>2. q.got = <<Apology>>
          BY <2>2, <2>3, <4>1
        <4> QED
          BY <4>2
      <3>3. n = 0
        BY <3>1, <3>2
      <3> QED
        BY <2>3, <3>1, <3>3
    <2> QED
      BY <2>5, <2>6
  <1> QED
    BY <1>1, ConversationInvariant, PTL

\* The history holds whole answers of its own runs, memories are of turns in it,
\* and what an agent knows is of other turns.
THEOREM WholeAnswers == Spec => []HistoryOfWholeAnswers
  <1>1. IInv => HistoryOfWholeAnswers
    BY DEF IInv
  <1> QED
    BY <1>1, ConversationInvariant, PTL

\* A follow-up question of a session sees what was stored when it was asked.
THEOREM FollowUps == Spec => []FollowUpSeesStoredAnswers
  <1>1. IInv => FollowUpSeesStoredAnswers
    BY DEF IInv
  <1> QED
    BY <1>1, ConversationInvariant, PTL

\* Of a plan without duplicates, an agent answers only when each of its tasks is
\* complete, or no planning is left.
THEOREM Replanned == Spec => FailuresReplanned
  <1>1. ASSUME IInv, Next, NEW t \in Turn, orch[t].at = "tasks", orch'[t].at = "recall", Distinct(orch[t].plan)
        PROVE  \/ orch'[t].retry_count = MaxLoops
               \/ \A i \in DOMAIN orch'[t].plan : orch'[t].tasks_status[i] = "complete"
    <2> DEFINE o == orch[t]
               o2 == orch'[t]
    <2>1. AllSound /\ DataOK /\ TurnOrder /\ ResultsInv /\ Forgetful
      BY <1>1, Split DEF IInv, Forgetful, MemoryInv, Informed
    <2>2. PICK s \in Turn : ChatStreaming(s) \/ ChatRefused(s) \/ Proceeds(s)
      BY <1>1, <2>1, Steps
    <2>3. Proceeds(s) /\ s = t
      <3>1. ~ (ChatStreaming(s) \/ ChatRefused(s))
        <4> SUFFICES ASSUME ChatStreaming(s) \/ ChatRefused(s) PROVE FALSE
          OBVIOUS
        <4>1. orch'[t] = orch[t]
          BY <2>1, AskingFrame
        <4> QED
          BY <1>1, <4>1
      <3> QED
        BY <1>1, <2>2, <3>1 DEF Proceeds, Elsewhere
    <2>4. PICK status : RanTask(o, o2, status)
      BY <1>1, <2>3 DEF Proceeds, Tasks
    <2>5. /\ status \in {"complete", "fail"} /\ o2.plan = o.plan
          /\ o2.tasks_status = _update_task_status(o, status)
          /\ o2.retry_count = o.retry_count
          /\ (should_retry_planning(o2.tasks_status) => o.retry_count >= MaxLoops)
          /\ (status = "fail" \/ o.next >= Len(o.plan) \/ should_retry_planning(o2.tasks_status))
      BY <1>1, <2>4 DEF RanTask
    <2>6. CASE should_retry_planning(o2.tasks_status)
      <3>1. o.retry_count \in 0 .. MaxLoops /\ MaxLoops \in Nat
        BY <2>1, Itself, AgentParts, Consts
      <3> QED
        BY <2>5, <2>6, <3>1
    <2>7. CASE ~ should_retry_planning(o2.tasks_status)
      <3>1. /\ o \in Agent /\ o.next \in 1 .. Len(o.plan) + 1 /\ o.next <= Len(o.plan)
            /\ Len(o.tasks_status) = Len(o.plan)
        BY <1>1, <2>1, Itself DEF Sensible
      <3>2. o.plan \in Seq(Task) /\ o.tasks_status \in Seq(Statuses) /\ status \in Statuses
        BY <2>5, <3>1, PlanTyped, AgentParts DEF Statuses
      <3>3. PICK n \in Nat : /\ n = Len(o.plan) /\ DOMAIN o.plan = 1 .. n
                             /\ DOMAIN o.tasks_status = 1 .. n /\ o.next \in 1 .. n
        BY <3>1, <3>2
      <3>4. o2.tasks_status = [o.tasks_status EXCEPT ![o.next] = status]
        BY <1>1, <2>5, <3>1, <3>2, <3>3, OwnStatus
      <3>5. /\ DOMAIN o2.tasks_status = 1 .. n /\ o2.tasks_status[o.next] = status
            /\ \A i \in 1 .. n : i # o.next => o2.tasks_status[i] = o.tasks_status[i]
        BY <3>2, <3>3, <3>4
      <3>6. \A i \in 1 .. n : o2.tasks_status[i] # "fail"
        BY <2>7, <3>5 DEF should_retry_planning
      <3>7. status = "complete" /\ o.next = n
        <4>1. status # "fail"
          BY <3>3, <3>5, <3>6
        <4>2. o.next >= n
          BY <2>5, <2>7, <3>3, <4>1
        <4> QED
          BY <2>5, <3>3, <4>1, <4>2
      <3>8. \A i \in 1 .. o.next - 1 : o.tasks_status[i] \in {"complete", "fail"}
        BY <1>1, <2>1 DEF ResultsInv, At, Distinct
      <3>9. \A i \in 1 .. n : i = n \/ i \in 1 .. n - 1
        BY <3>3
      <3>10. \A i \in 1 .. n : o2.tasks_status[i] = "complete"
        <4> TAKE i \in 1 .. n
        <4>1. CASE i = n
          BY <3>5, <3>7, <4>1
        <4>2. CASE i # n
          <5>1. i \in 1 .. o.next - 1
            BY <3>7, <3>9, <4>2
          <5>2. o.tasks_status[i] \in {"complete", "fail"}
            BY <3>8, <5>1
          <5> QED
            BY <3>5, <3>6, <3>7, <4>2, <5>2
        <4> QED
          BY <4>1, <4>2
      <3> QED
        BY <2>5, <3>3, <3>10
    <2> QED
      BY <2>6, <2>7
  <1>2. IInv /\ [Next]_vars =>
          [\A t \in Turn :
             LET o == orch[t]
                 p == orch'[t]
             IN  o.at = "tasks" /\ p.at = "recall" /\ (\A i, j \in DOMAIN o.plan : o.plan[i].id = o.plan[j].id => i = j)
                 => p.retry_count = MaxLoops \/ \A i \in DOMAIN p.plan : p.tasks_status[i] = "complete"]_vars
    BY <1>1 DEF Distinct
  <1> QED
    BY <1>2, ConversationInvariant, PTL DEF Spec, FailuresReplanned

=============================================================================

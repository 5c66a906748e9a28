--------------------------- MODULE MT5DataProofs ---------------------------
(***************************************************************************)
(* Proofs about MT5Data, for any clock of the broker, any ticks, any       *)
(* length of a bar and any bound of the stream's queue.                    *)
(*                                                                         *)
(* OnceInOrder is not inductive: that the next quote is not one handed     *)
(* over before needs that the watermark is the newest time handed over and *)
(* that the pairs handed over at it are all remembered.                    *)
(*                                                                         *)
(* NothingPassedOver needs where a tick that is missing can still be: in   *)
(* the range about to be asked for, in the reply, or later than all that   *)
(* the catch-up reached and the stream has numbered.                       *)
(***************************************************************************)
EXTENDS MT5Data, SequenceTheorems, TLAPS

\* Frames are only ever in hand for a source that streams.
OnlyStreams == (phase \in {"open", "live"} \/ frame # 0) => Streams

\* A source of quotes that has begun has a watermark.
Marked == mark >= 0 \/ (mark = Unset /\ out = <<>> /\ (phase = "off" \/ kind = "bars"))

\* The watermark is past every quote, and holds the pairs of its own time.
UpToMark ==
    \A i \in DOMAIN out :
        out[i].msc <= mark /\ (out[i].msc = mark => out[i].pair \in seen)

\* No bar handed over is later than the last.
UpToLastBar == \A i \in DOMAIN bars : bars[i].opened <= lastBar

IInv == TypeOK /\ OnlyStreams /\ Marked /\ UpToMark /\ UpToLastBar /\ OnceInOrder

BarRows == [opened : Int, ticks : SUBSET Nat]

(* The start is of its types, with nothing handed over.                     *)
LEMMA InvInit == Init => IInv
BY ConstantsAssumption, SMTT(30)
   DEF Init, IInv, TypeOK, OnlyStreams, Marked, UpToMark, UpToLastBar, OnceInOrder, NoRange, Unset

(* What is appended to a sequence comes after what it held.                 *)
LEMMA Appending ==
    ASSUME NEW S, NEW s \in Seq(S), NEW e \in S
    PROVE  /\ Append(s, e) \in Seq(S)
           /\ \A i \in DOMAIN Append(s, e) :
                \/ i \in DOMAIN s /\ Append(s, e)[i] = s[i]
                \/ i = Len(s) + 1 /\ Append(s, e)[i] = e
           /\ \A i \in DOMAIN s : i < Len(s) + 1
           /\ DOMAIN s = 1 .. Len(s) /\ Len(s) \in Nat
OBVIOUS

(* _publish_tick keeps every quote at or before the watermark, and the      *)
(* quotes once and in order.                                                *)
LEMMA PublishKeeps ==
    ASSUME IInv, Streams \/ kind # "bars", phase # "off", NEW tick \in Tick, PublishTick(tick)
    PROVE  /\ mark' \in Int /\ mark' >= 0 /\ seen' \subseteq Pairs /\ out' \in Seq(Tick)
           /\ UpToMark'
           /\ \A i \in DOMAIN out', j \in DOMAIN out' : i < j =>
                out'[i].msc <= out'[j].msc /\ out'[i] # out'[j]
<1> USE DEF IInv, TypeOK
<1>1. mark \in Int /\ mark >= 0
  BY DEF Marked, Streams
<1>2. CASE UNCHANGED published
  BY <1>1, <1>2 DEF published, UpToMark, OnceInOrder
<1>3. CASE /\ Fresh(tick)
           /\ mark' = tick.msc /\ seen' = SeenAt(tick) /\ out' = Append(out, tick)
  <2>1. tick.msc \in Int /\ tick.pair \in Pairs /\ tick.msc >= mark
    BY <1>3 DEF Tick, Fresh
  <2>2. seen' \subseteq Pairs /\ tick.pair \in seen' /\ (tick.msc = mark => seen \subseteq seen')
    BY <1>3, <2>1 DEF SeenAt
  <2>3. /\ out' \in Seq(Tick)
        /\ \A i \in DOMAIN out' :
            \/ i \in DOMAIN out /\ out'[i] = out[i]
            \/ i = Len(out) + 1 /\ out'[i] = tick
        /\ \A i \in DOMAIN out : i < Len(out) + 1
        /\ DOMAIN out = 1 .. Len(out) /\ Len(out) \in Nat
    BY <1>3, Appending
  <2>4. \A i \in DOMAIN out : out[i].msc \in Int /\ out[i].msc <= tick.msc /\ out[i] # tick
    <3> SUFFICES ASSUME NEW i \in DOMAIN out
                 PROVE  out[i].msc \in Int /\ out[i].msc <= tick.msc /\ out[i] # tick
      OBVIOUS
    <3>1. out[i] \in Tick
      BY <2>3
    <3>2. out[i].msc \in Int
      BY <3>1 DEF Tick
    <3>3. out[i].msc <= mark /\ (out[i].msc = mark => out[i].pair \in seen)
      BY DEF UpToMark
    <3>4. out[i] # tick
      <4> SUFFICES ASSUME out[i] = tick PROVE FALSE
        OBVIOUS
      <4>1. tick.msc = mark /\ tick.pair \in seen
        BY <1>1, <2>1, <3>3
      <4> QED BY <4>1, <1>3 DEF Fresh
    <3> QED BY <1>1, <2>1, <3>2, <3>3, <3>4
  <2>5. UpToMark'
    <3> SUFFICES ASSUME NEW i \in DOMAIN out'
                 PROVE  out'[i].msc <= mark' /\ (out'[i].msc = mark' => out'[i].pair \in seen')
      BY DEF UpToMark
    <3>1. CASE i \in DOMAIN out /\ out'[i] = out[i]
      <4>1. out[i].msc <= mark /\ (out[i].msc = mark => out[i].pair \in seen)
        BY <3>1 DEF UpToMark
      <4> QED BY <3>1, <4>1, <1>1, <1>3, <2>1, <2>2, <2>4
    <3>2. CASE out'[i] = tick
      BY <3>2, <1>3, <2>1, <2>2
    <3> QED BY <3>1, <3>2, <2>3
  <2>6. \A i \in DOMAIN out', j \in DOMAIN out' : i < j =>
            out'[i].msc <= out'[j].msc /\ out'[i] # out'[j]
    <3> SUFFICES ASSUME NEW i \in DOMAIN out', NEW j \in DOMAIN out', i < j
                 PROVE  out'[i].msc <= out'[j].msc /\ out'[i] # out'[j]
      OBVIOUS
    <3>1. i \in DOMAIN out /\ out'[i] = out[i]
      <4>1. \A k \in DOMAIN out' : k \in Nat /\ k <= Len(out) + 1
        BY <2>3
      <4> QED BY <4>1, <2>3
    <3>2. CASE j \in DOMAIN out /\ out'[j] = out[j]
      BY <3>1, <3>2 DEF OnceInOrder
    <3>3. CASE out'[j] = tick
      BY <3>1, <3>3, <2>4
    <3> QED BY <3>2, <3>3, <2>3
  <2> QED BY <1>1, <1>3, <2>1, <2>2, <2>3, <2>5, <2>6
<1> QED BY <1>2, <1>3 DEF PublishTick

(* _poll_bars hands over a bar later than every bar before it.              *)
LEMMA BarKeeps ==
    ASSUME IInv, NEW b \in BarRows, PublishBar(b)
    PROVE  /\ lastBar' \in Int /\ bars' \in Seq(BarRows)
           /\ UpToLastBar'
           /\ \A i \in DOMAIN bars', j \in DOMAIN bars' : i < j =>
                bars'[i].opened < bars'[j].opened
<1> USE DEF IInv, TypeOK, BarRows
<1>1. CASE UNCHANGED bar
  BY <1>1 DEF bar, UpToLastBar, OnceInOrder
<1>2. CASE NewBar(b) /\ lastBar' = b.opened /\ bars' = Append(bars, b)
  <2>1. /\ bars' \in Seq(BarRows)
        /\ \A i \in DOMAIN bars' :
            \/ i \in DOMAIN bars /\ bars'[i] = bars[i]
            \/ i = Len(bars) + 1 /\ bars'[i] = b
        /\ \A i \in DOMAIN bars : i < Len(bars) + 1
        /\ DOMAIN bars = 1 .. Len(bars) /\ Len(bars) \in Nat
    BY <1>2, Appending
  <2>2. b.opened \in Int /\ b.opened > lastBar
    BY <1>2, ConstantsAssumption DEF NewBar
  <2>3. \A i \in DOMAIN bars : bars[i].opened \in Int /\ bars[i].opened < b.opened
    <3> SUFFICES ASSUME NEW i \in DOMAIN bars
                 PROVE  bars[i].opened \in Int /\ bars[i].opened < b.opened
      OBVIOUS
    <3>1. bars[i] \in BarRows
      BY <2>1, ElementOfSeq, bars \in Seq(BarRows)
    <3>2. bars[i].opened \in Int /\ bars[i].opened <= lastBar
      BY <3>1 DEF UpToLastBar
    <3> QED BY <2>2, <3>2
  <2>4. UpToLastBar'
    BY <1>2, <2>1, <2>2, <2>3 DEF UpToLastBar
  <2>5. \A i \in DOMAIN bars', j \in DOMAIN bars' : i < j =>
            bars'[i].opened < bars'[j].opened
    <3> SUFFICES ASSUME NEW i \in DOMAIN bars', NEW j \in DOMAIN bars', i < j
                 PROVE  bars'[i].opened < bars'[j].opened
      OBVIOUS
    <3>1. i \in DOMAIN bars /\ bars'[i] = bars[i]
      <4>1. \A k \in DOMAIN bars' : k \in Nat /\ k <= Len(bars) + 1
        BY <2>1
      <4> QED BY <4>1, <2>1
    <3>2. CASE j \in DOMAIN bars /\ bars'[j] = bars[j]
      BY <3>1, <3>2 DEF OnceInOrder
    <3>3. CASE bars'[j] = b
      BY <3>1, <3>3, <2>3
    <3> QED BY <3>2, <3>3, <2>1
  <2> QED BY <1>2, <2>1, <2>2, <2>4, <2>5
<1> QED BY <1>1, <1>2 DEF PublishBar

(* The terminal's new tick is of the types, and what points into its        *)
(* history still does.                                                      *)
LEMMA TradeTypes ==
    ASSUME TypeOK, NEW pair \in Pairs, Trade(pair)
    PROVE  /\ history' \in Seq(Tick) /\ Len(history') = Len(history) + 1
           /\ queue' \in Seq(1 .. Len(history')) /\ queue' = queue
<1>1. [msc |-> clock + Offset, pair |-> pair] \in Tick
  BY ConstantsAssumption DEF Tick, TypeOK
<1>2. history' \in Seq(Tick) /\ Len(history') = Len(history) + 1 /\ Len(history) \in Nat
  BY <1>1 DEF Trade, TypeOK
<1>3. queue' = queue
  BY DEF Trade, link
<1>4. 1 .. Len(history) \subseteq 1 .. Len(history')
  BY <1>2
<1>5. queue \in Seq(1 .. Len(history))
  BY DEF TypeOK
<1>6. queue \in Seq(1 .. Len(history'))
  BY <1>4, <1>5, SeqMonotonic
<1> QED BY <1>2, <1>3, <1>6

(* A frame received keeps the queue in its bound.                           *)
LEMMA ReceivedTypes ==
    ASSUME TypeOK, NEW i \in 1 .. Len(history), Received(i)
    PROVE  queue' \in Seq(1 .. Len(history)) /\ Len(queue') <= Backlog
<1>1. CASE Len(queue) >= Backlog
  <2>1. queue # <<>>
    BY <1>1, ConstantsAssumption DEF TypeOK
  <2>2. Tail(queue) \in Seq(1 .. Len(history)) /\ Len(Tail(queue)) = Len(queue) - 1
    BY <2>1 DEF TypeOK
  <2>3. queue' = Append(Tail(queue), i)
    BY <1>1 DEF Received
  <2>4. queue' \in Seq(1 .. Len(history)) /\ Len(queue') = Len(Tail(queue)) + 1
    BY <2>2, <2>3
  <2>5. Len(queue) \in Nat /\ Len(queue) <= Backlog
    BY DEF TypeOK
  <2> QED BY <2>2, <2>4, <2>5, ConstantsAssumption
<1>2. CASE ~(Len(queue) >= Backlog)
  <2>1. queue' = Append(queue, i)
    BY <1>2 DEF Received
  <2> QED BY <1>2, <2>1, ConstantsAssumption DEF TypeOK
<1> QED BY <1>1, <1>2

(* A reply is of the terminal's ticks, or of bars made of them.             *)
LEMMA ReplyTypes ==
    ASSUME TypeOK
    PROVE  IF kind = "bars" THEN \A row \in Reply : row \in BarRows ELSE Reply \subseteq Tick
<1>1. \A i \in DOMAIN history : i \in Nat /\ history[i] \in Tick
  BY DEF TypeOK
<1>2. CASE kind = "bars"
  <2>1. \A o \in Opens : o \in Int
    <3>1. \A i \in DOMAIN history : history[i].msc \in Int
      BY <1>1 DEF Tick
    <3>2. \A m \in Int : m - (m % BarLength) \in Int
      BY ConstantsAssumption
    <3> QED BY <3>1, <3>2 DEF Opens, Opened
  <2>2. \A o \in Int : BarOf(o) \in BarRows
    BY <1>1 DEF BarOf, BarRows
  <2> QED BY <1>2, <2>1, <2>2 DEF Reply, LastTwoBars
<1>3. CASE kind = "poll"
  BY <1>1, <1>3 DEF Reply, LatestTick
<1>4. CASE kind # "bars" /\ kind # "poll"
  BY <1>1, <1>4 DEF Reply, TicksInRange, InReach
<1> QED BY <1>2, <1>3, <1>4

(* A range is of whole seconds.                                             *)
LEMMA RangeTypes == TypeOK => CatchUp \in [from : Int, until : Int]
<1> SUFFICES ASSUME TypeOK PROVE CatchUp \in [from : Int, until : Int]
  OBVIOUS
<1>1. \A m \in Int : m \div PerSecond \in Int
  BY ConstantsAssumption
<1>2. mark \in Int /\ clock \in Int
  BY DEF TypeOK
<1>3. Second(mark) \in Int /\ Second(clock) \in Int
  BY <1>1, <1>2 DEF Second
<1> QED BY <1>3 DEF CatchUp

(* A step that hands nothing over, of a task that had begun or of one that  *)
(* is stopped, keeps what is known of the quotes and the bars.              *)
LEMMA Quiet ==
    ASSUME IInv, UNCHANGED <<kind, published, bar>>, phase # "off" \/ phase' = "off",
           TypeOK', OnlyStreams'
    PROVE  IInv'
BY DEF IInv, Marked, UpToMark, UpToLastBar, OnceInOrder, published, bar

(* A step that may hand over a quote.                                       *)
LEMMA Quoting ==
    ASSUME IInv, UNCHANGED <<terminal, bar>>, phase \in {"rows", "live"},
           Streams \/ kind # "bars", NEW tick \in Tick, PublishTick(tick),
           queue' \in Seq(1 .. Len(history)), Len(queue') <= Backlog,
           pushed' \in 0 .. Len(history), frame' \in 0 .. Len(history), seq' \in Nat,
           phase' \in {"rows", "live"}, wanted' \in [from : Int, until : Int],
           rows' \subseteq rows, OnlyStreams'
    PROVE  IInv'
<1>1. /\ mark' \in Int /\ mark' >= 0 /\ seen' \subseteq Pairs /\ out' \in Seq(Tick)
      /\ UpToMark'
      /\ \A i \in DOMAIN out', j \in DOMAIN out' : i < j =>
            out'[i].msc <= out'[j].msc /\ out'[i] # out'[j]
  BY PublishKeeps
<1>2. TypeOK'
  BY <1>1 DEF IInv, TypeOK, terminal, bar
<1>3. Marked' /\ UpToLastBar' /\ OnceInOrder'
  BY <1>1 DEF IInv, Marked, UpToLastBar, OnceInOrder, bar
<1> QED BY <1>1, <1>2, <1>3 DEF IInv

(* What the terminal and the stream do.                                     *)
LEMMA OutsideKeeps ==
    ASSUME IInv, Advance \/ (\E pair \in Pairs : Trade(pair)) \/ Push
    PROVE  IInv'
<1> USE DEF IInv
<1>1. CASE Advance
  <2>1. TypeOK' /\ OnlyStreams'
    BY <1>1 DEF Advance, TypeOK, OnlyStreams, Streams, link, published, bar
  <2> QED BY <1>1, <2>1, Quiet DEF Advance
<1>2. ASSUME NEW pair \in Pairs, Trade(pair) PROVE IInv'
  <2>1. /\ history' \in Seq(Tick) /\ Len(history') = Len(history) + 1
        /\ queue' \in Seq(1 .. Len(history')) /\ queue' = queue
    BY <1>2, TradeTypes
  <2>2. Len(history) \in Nat
    BY DEF TypeOK
  <2>3. pushed' \in 0 .. Len(history') /\ frame' \in 0 .. Len(history')
    BY <1>2, <2>1, <2>2 DEF Trade, TypeOK, link
  <2>4. TypeOK' /\ OnlyStreams'
    BY <1>2, <2>1, <2>3 DEF Trade, TypeOK, OnlyStreams, Streams, link, published, bar
  <2> QED BY <1>2, <2>4, Quiet DEF Trade
<1>3. CASE Push
  <2>1. Len(history) \in Nat
    BY DEF TypeOK
  <2>2. pushed' \in 0 .. Len(history)
    BY <1>3, <2>1 DEF Push, TypeOK
  <2>3. queue' \in Seq(1 .. Len(history)) /\ Len(queue') <= Backlog
    <3>1. CASE pushed < Len(history) /\ Received(pushed + 1)
      <4>1. pushed + 1 \in 1 .. Len(history)
        BY <2>1, <3>1 DEF TypeOK
      <4> QED BY <3>1, <4>1, ReceivedTypes
    <3>2. CASE UNCHANGED queue
      BY <3>2 DEF TypeOK
    <3>3. CASE pushed # 0 /\ Received(pushed)
      <4>1. pushed \in 1 .. Len(history)
        BY <2>1, <3>3 DEF TypeOK
      <4> QED BY <3>3, <4>1, ReceivedTypes
    <3> QED BY <1>3, <3>1, <3>2, <3>3 DEF Push
  <2>4. TypeOK' /\ OnlyStreams'
    BY <1>3, <2>2, <2>3 DEF Push, TypeOK, OnlyStreams, Streams, terminal, published, bar
  <2>5. phase # "off" \/ phase' = "off"
    BY <1>3 DEF Push
  <2> QED BY <1>3, <2>4, <2>5, Quiet DEF Push, terminal
<1> QED BY <1>1, <1>2, <1>3

(* A subscription begins with a watermark, and with none but its own.       *)
LEMMA SubscribeKeeps == ASSUME IInv, Subscribe PROVE IInv'
<1> USE DEF IInv
<1>1. kind \in Kinds /\ clock \in Nat /\ mark \in Int
  BY DEF TypeOK
<1>2. CASE kind = "bars" \/ mark # Unset
  <2>1. mark' = mark
    BY <1>2 DEF Subscribe
  <2>2. TypeOK' /\ OnlyStreams'
    BY <2>1 DEF Subscribe, TypeOK, OnlyStreams, Streams, terminal, link, bar
  <2>3. Marked' /\ UpToMark' /\ UpToLastBar' /\ OnceInOrder'
    BY <1>2, <2>1 DEF Subscribe, Marked, UpToMark, UpToLastBar, OnceInOrder, terminal, bar
  <2> QED BY <2>2, <2>3
<1>3. CASE ~(kind = "bars" \/ mark # Unset)
  <2>1. mark' \in Nat
    BY <1>1, <1>3 DEF Subscribe
  <2>2. out = <<>> /\ out' = <<>>
    BY <1>3 DEF Subscribe, Marked, Unset
  <2>3. TypeOK' /\ OnlyStreams'
    BY <2>1 DEF Subscribe, TypeOK, OnlyStreams, Streams, terminal, link, bar
  <2>4. Marked' /\ UpToMark' /\ UpToLastBar' /\ OnceInOrder'
    BY <2>1, <2>2 DEF Subscribe, Marked, UpToMark, UpToLastBar, OnceInOrder, bar
  <2> QED BY <2>3, <2>4
<1> QED BY <1>2, <1>3

(* What the task does without handing anything over.                        *)
LEMMA CallsKeep ==
    ASSUME IInv, Unsubscribe \/ Ask \/ Serve \/ Answered \/ Failed \/ Slept \/ Opening \/ Connect
    PROVE  IInv'
<1> USE DEF IInv
<1>1. CASE Unsubscribe \/ Failed
  <2>1. /\ queue' = <<>> /\ pushed' = 0 /\ wanted' = NoRange /\ rows' = {} /\ frame' = 0
        /\ phase' \in {"off", "sleeping"} /\ UNCHANGED <<terminal, published, seq, bar>>
        /\ phase # "off"
    BY <1>1 DEF Unsubscribe, Failed
  <2>2. Len(history) \in Nat
    BY DEF TypeOK
  <2>3. /\ queue' \in Seq(1 .. Len(history)) /\ Len(queue') <= Backlog
        /\ pushed' \in 0 .. Len(history) /\ frame' \in 0 .. Len(history)
        /\ wanted' \in [from : Int, until : Int]
    BY <2>1, <2>2, ConstantsAssumption DEF NoRange
  <2>4. TypeOK'
    BY <2>1, <2>3 DEF TypeOK, terminal, published, bar
  <2>5. OnlyStreams'
    BY <2>1 DEF OnlyStreams
  <2> QED BY <2>1, <2>4, <2>5, Quiet DEF terminal
<1>2. CASE Ask
  <2>1. wanted' \in [from : Int, until : Int]
    BY <1>2, RangeTypes DEF Ask, NoRange
  <2>2. TypeOK' /\ OnlyStreams'
    BY <1>2, <2>1 DEF Ask, TypeOK, OnlyStreams, Streams, terminal, link, published, bar
  <2> QED BY <1>2, <2>2, Quiet DEF Ask, terminal
<1>3. CASE Serve
  <2>1. TypeOK' /\ OnlyStreams'
    BY <1>3, ReplyTypes
       DEF Serve, TypeOK, OnlyStreams, Streams, BarRows, NoRange, terminal, link, published, bar
  <2> QED BY <1>3, <2>1, Quiet DEF Serve, terminal
<1>4. CASE Answered \/ Slept
  <2>1. TypeOK' /\ OnlyStreams'
    BY <1>4 DEF Answered, Slept, TypeOK, OnlyStreams, Streams, terminal, link, published, bar
  <2> QED BY <1>4, <2>1, Quiet DEF Answered, Slept, terminal
<1>5. CASE Opening
  <2>1. TypeOK' /\ OnlyStreams'
    BY <1>5 DEF Opening, TypeOK, OnlyStreams, Streams, terminal, link, published, bar
  <2> QED BY <1>5, <2>1, Quiet DEF Opening, terminal
<1>6. CASE Connect
  <2>1. pushed' \in 0 .. Len(history)
    BY <1>6 DEF Connect, TypeOK
  <2>2. TypeOK' /\ OnlyStreams'
    BY <1>6, <2>1 DEF Connect, TypeOK, OnlyStreams, Streams, terminal, published, bar
  <2> QED BY <1>6, <2>2, Quiet DEF Connect, terminal
<1> QED BY <1>1, <1>2, <1>3, <1>4, <1>5, <1>6

(* A row of a reply, and the frame whose gap a reply has filled.            *)
LEMMA RowsKeep == ASSUME IInv, TickRow \/ BarRow \/ Refilled PROVE IInv'
<1> USE DEF IInv
<1>1. CASE TickRow
  <2>1. PICK row \in rows : rows' = rows \ {row} /\ PublishTick(row)
    BY <1>1 DEF TickRow
  <2>2. row \in Tick
    BY <1>1, <2>1 DEF TickRow, TypeOK
  <2>3. OnlyStreams'
    BY <1>1 DEF TickRow, OnlyStreams, Streams, terminal
  <2> QED BY <1>1, <2>1, <2>2, <2>3, Quoting DEF TickRow, TypeOK, terminal, link, bar
<1>2. CASE BarRow
  <2>1. PICK row \in rows : rows' = rows \ {row} /\ PublishBar(row)
    BY <1>2 DEF BarRow
  <2>2. row \in BarRows
    BY <1>2, <2>1 DEF BarRow, TypeOK, BarRows
  <2>3. /\ lastBar' \in Int /\ bars' \in Seq(BarRows)
        /\ UpToLastBar'
        /\ \A i \in DOMAIN bars', j \in DOMAIN bars' : i < j =>
                bars'[i].opened < bars'[j].opened
    BY <2>1, <2>2, BarKeeps
  <2>4. TypeOK'
    BY <1>2, <2>1, <2>3 DEF BarRow, TypeOK, BarRows, terminal, link, published
  <2>5. OnlyStreams' /\ Marked' /\ UpToMark' /\ OnceInOrder'
    BY <1>2, <2>3
       DEF BarRow, OnlyStreams, Marked, UpToMark, OnceInOrder, Streams, terminal, published
  <2> QED BY <2>3, <2>4, <2>5
<1>3. CASE Refilled
  <2>1. history[frame] \in Tick
    BY <1>3 DEF Refilled, TypeOK
  <2>2. Streams /\ OnlyStreams'
    BY <1>3 DEF Refilled, OnlyStreams, Streams, terminal
  <2>3. frame' \in 0 .. Len(history)
    BY <1>3 DEF Refilled, TypeOK
  <2> QED BY <1>3, <2>1, <2>2, <2>3, Quoting DEF Refilled, TypeOK, terminal, link, bar
<1> QED BY <1>1, <1>2, <1>3

(* A frame of the stream, handed over or held until its gap is filled.      *)
LEMMA HandleKeeps == ASSUME IInv, Handle PROVE IInv'
<1> USE DEF IInv
<1>1. /\ queue \in Seq(1 .. Len(history)) /\ queue # <<>> /\ Len(history) \in Nat
      /\ queue' = Tail(queue) /\ phase = "live"
  BY DEF Handle, TypeOK
<1>2. /\ Head(queue) \in 1 .. Len(history) /\ queue' \in Seq(1 .. Len(history))
      /\ Len(queue') <= Backlog
  <2>1. Tail(queue) \in Seq(1 .. Len(history)) /\ Len(Tail(queue)) = Len(queue) - 1
    BY <1>1
  <2>2. Len(queue) \in Nat /\ Len(queue) <= Backlog
    BY DEF TypeOK
  <2>3. Head(queue) \in 1 .. Len(history)
    BY <1>1
  <2> QED BY <1>1, <2>1, <2>2, <2>3, ConstantsAssumption
<1>3. seq' \in Nat /\ pushed' \in 0 .. Len(history) /\ rows' = rows /\ Streams
  BY <1>1, <1>2 DEF Handle, TypeOK, OnlyStreams
<1>4. UNCHANGED <<terminal, bar>> /\ OnlyStreams'
  BY <1>3 DEF Handle, OnlyStreams, Streams, terminal
<1>5. CASE /\ Gap(Head(queue)) /\ phase' = "asked" /\ wanted' = CatchUp
           /\ frame' = Head(queue) /\ UNCHANGED published
  <2>1. wanted' \in [from : Int, until : Int] /\ frame' \in 0 .. Len(history)
    BY <1>1, <1>2, <1>5, RangeTypes
  <2>2. TypeOK'
    BY <1>2, <1>3, <1>4, <1>5, <2>1 DEF TypeOK, terminal, published, bar
  <2> QED BY <1>1, <1>4, <1>5, <2>2, Quiet DEF terminal
<1>6. CASE PublishTick(history[Head(queue)]) /\ UNCHANGED <<phase, wanted, frame>>
  <2>1. history[Head(queue)] \in Tick
    BY <1>2 DEF TypeOK
  <2>2. wanted' \in [from : Int, until : Int] /\ frame' \in 0 .. Len(history)
    BY <1>6 DEF TypeOK
  <2> QED BY <1>1, <1>2, <1>3, <1>4, <1>6, <2>1, <2>2, Quoting
<1> QED BY <1>5, <1>6 DEF Handle

(* Every step keeps it.                                                     *)
LEMMA InvNext == IInv /\ [Next]_vars => IInv'
<1> SUFFICES ASSUME IInv, [Next]_vars PROVE IInv'
  OBVIOUS
<1>1. CASE UNCHANGED vars
  BY <1>1 DEF IInv, TypeOK, OnlyStreams, Marked, UpToMark, UpToLastBar, OnceInOrder, Streams,
              vars, terminal, link, published, bar
<1>2. CASE Next
  BY <1>2, OutsideKeeps, SubscribeKeeps, CallsKeep, RowsKeep, HandleKeeps DEF Next
<1> QED BY <1>1, <1>2

(* The inductive invariant of the order in which things are handed over.    *)
THEOREM Inductive == Spec => []IInv
BY InvInit, InvNext, PTL DEF Spec

(* No handler of a poller leaves the types of the model, and the stream's   *)
(* queue stays in its bound.                                                *)
THEOREM TypeCorrect == Spec => []TypeOK
BY Inductive, PTL DEF IInv

(* For any clock of the broker and any overlap of polls, frames, replays    *)
(* and refills, each quote and each bar is handed over once and in order.   *)
THEOREM OnceAndInOrder == Spec => []OnceInOrder
BY Inductive, PTL DEF IInv
---------------------------------------------------------------------------
(* No tick is passed over.                                                  *)

\* The ticks the subscription is for that are still to be handed over.
Missing == {i \in Priced : i \notin unseen /\ i \notin HandedOver}

\* The terminal records in the order of its clock.
Chronicle ==
    /\ clock >= 1
    /\ \A i \in DOMAIN history : history[i].msc <= clock + Offset
    /\ \A i \in DOMAIN history, j \in DOMAIN history : i < j => history[i].msc <= history[j].msc
    /\ covered \subseteq DOMAIN history /\ seq <= Len(history)

\* The watermark is none, or a time that the subscription began with or that
\* a tick has had; the pairs remembered with it were handed over.
Watermarked ==
    /\ (mark = Unset /\ seen = {}) \/ mark >= 1
    /\ since \in Int /\ (mark <= since \/ mark <= clock + Offset)
    /\ \A p \in seen : \E j \in DOMAIN out : out[j] = [msc |-> mark, pair |-> p]

\* A range begins at the watermark, and one that fills a gap reaches the frame.
Ranged ==
    phase = "asked" =>
        /\ wanted.from = Second(mark)
        /\ frame # 0 => \A i \in 1 .. frame : history[i].msc <= wanted.until * PerSecond

\* A tick that is missing is among the rows to come or later than all of them.
InTheReply ==
    phase \in {"served", "rows"} =>
        /\ \A row \in rows : row.msc <= clock + Offset
        /\ frame # 0 => 1 .. frame \subseteq covered
        /\ \A i \in Missing :
            history[i] \in rows \/ (i \notin covered /\ \A row \in rows : row.msc <= history[i].msc)

\* Nothing is missing of what the catch-up reached or the stream has numbered.
InTheStream ==
    /\ phase \in {"open", "live"} => \A i \in Missing : i \notin covered
    /\ phase = "open" => seq = 0
    /\ phase = "live" => \A i \in Missing : i > seq
    /\ frame # 0 => seq = frame /\ phase \in {"asked", "served", "rows"}

NoneMissed == \A i \in Missing : mark <= history[i].msc

Pulls == kind \in {"ticks", "push"}

Complete ==
    /\ Chronicle
    /\ Pulls =>
        Watermarked /\ Ranged /\ InTheReply /\ InTheStream /\ NoneMissed

(* The start: no tick, no watermark and no call.                            *)
LEMMA CompleteInit == Init => Complete
<1> SUFFICES ASSUME Init PROVE Complete
  OBVIOUS
<1>1. clock >= 1 /\ history = <<>> /\ covered = {} /\ seq = 0 /\ seen = {} /\ mark = Unset
      /\ since = Unset /\ phase = "off" /\ frame = 0
  BY ConstantsAssumption DEF Init
<1>2. DOMAIN history = {} /\ Len(history) = 0
  BY <1>1
<1>3. Missing = {}
  BY <1>2 DEF Missing, Priced
<1>4. Chronicle
  BY <1>1, <1>2 DEF Chronicle
<1>5. Watermarked /\ Ranged /\ InTheReply /\ InTheStream /\ NoneMissed
  BY <1>1, <1>3 DEF Watermarked, Ranged, InTheReply, InTheStream, NoneMissed, Unset
<1> QED BY <1>4, <1>5 DEF Complete

(* A tick has a place, a time and a pair.                                   *)
LEMMA HistoryTypes ==
    ASSUME TypeOK
    PROVE  /\ Len(history) \in Nat /\ DOMAIN history = 1 .. Len(history)
           /\ \A i \in DOMAIN history : i \in Nat /\ history[i] \in Tick /\ history[i].msc \in Int
           /\ Missing \subseteq DOMAIN history
<1>1. Len(history) \in Nat /\ DOMAIN history = 1 .. Len(history)
  BY DEF TypeOK
<1>2. \A i \in DOMAIN history : i \in Nat /\ history[i] \in Tick
  BY DEF TypeOK
<1>3. \A i \in DOMAIN history : history[i].msc \in Int
  BY <1>2 DEF Tick
<1> QED BY <1>1, <1>2, <1>3 DEF Missing, Priced

(* The terminal only adds, at the time it is; a catch-up reaches ticks that *)
(* are there, and so does a number of the stream.                           *)
LEMMA ChronicleKeeps == ASSUME IInv, Complete, [Next]_vars PROVE Chronicle'
<1> USE DEF IInv, Complete
<1>1. Len(history) \in Nat /\ DOMAIN history = 1 .. Len(history)
  BY HistoryTypes
<1>2. \A i \in DOMAIN history : i \in Nat /\ history[i].msc \in Int
  BY HistoryTypes
<1>3. /\ clock >= 1 /\ clock \in Nat /\ covered \subseteq DOMAIN history
      /\ seq <= Len(history) /\ seq \in Nat
  BY DEF Chronicle, TypeOK
<1>4. CASE UNCHANGED <<history, covered, seq>> /\ clock' \in Nat /\ clock <= clock'
  <2>1. \A i \in DOMAIN history : history[i].msc <= clock' + Offset
    BY <1>2, <1>3, <1>4, ConstantsAssumption DEF Chronicle
  <2> QED BY <1>3, <1>4, <2>1 DEF Chronicle
<1>5. ASSUME NEW pair \in Pairs, Trade(pair) PROVE Chronicle'
  <2>1. history' \in Seq(Tick) /\ Len(history') = Len(history) + 1
    BY <1>5, TradeTypes
  <2>2. DOMAIN history' = 1 .. Len(history) + 1
    BY <2>1
  <2>3. \A i \in DOMAIN history : history'[i] = history[i]
    BY <1>1, <1>5 DEF Trade, TypeOK
  <2>4. history'[Len(history) + 1].msc = clock + Offset
    BY <1>1, <1>5 DEF Trade, TypeOK
  <2>5. clock' = clock /\ covered' = covered /\ seq' = seq
    BY <1>5 DEF Trade, ghosts
  <2>6. \A i \in DOMAIN history' : i \in DOMAIN history \/ i = Len(history) + 1
    BY <1>1, <2>2
  <2>7. \A i \in DOMAIN history' : history'[i].msc <= clock' + Offset
    BY <1>3, <2>3, <2>4, <2>5, <2>6, ConstantsAssumption DEF Chronicle
  <2>8. ASSUME NEW i \in DOMAIN history', NEW j \in DOMAIN history', i < j
        PROVE  history'[i].msc <= history'[j].msc
    <3>1. i \in DOMAIN history
      BY <1>1, <2>2, <2>8
    <3>2. CASE j \in DOMAIN history
      BY <2>3, <2>8, <3>1, <3>2 DEF Chronicle
    <3>3. CASE j = Len(history) + 1
      BY <2>3, <2>4, <3>1, <3>3 DEF Chronicle
    <3> QED BY <2>6, <3>2, <3>3
  <2>9. covered' \subseteq DOMAIN history' /\ seq' <= Len(history')
    BY <1>1, <1>3, <2>1, <2>2, <2>5
  <2> QED BY <1>3, <2>5, <2>7, <2>8, <2>9 DEF Chronicle
<1>6. CASE Serve
  <2>1. covered' \subseteq DOMAIN history /\ UNCHANGED <<terminal, seq>>
    BY <1>6 DEF Serve, InReach
  <2> QED BY <1>3, <2>1 DEF Chronicle, terminal
<1>7. CASE Opening
  <2>1. seq' = 0 /\ UNCHANGED <<terminal, covered>>
    BY <1>7 DEF Opening, ghosts
  <2> QED BY <1>1, <1>3, <2>1 DEF Chronicle, terminal
<1>8. CASE Handle
  <2>1. queue \in Seq(1 .. Len(history)) /\ queue # <<>>
    BY <1>8 DEF Handle, TypeOK
  <2>2. Head(queue) \in 1 .. Len(history)
    BY <2>1
  <2>3. (seq' = seq \/ seq' = Head(queue)) /\ UNCHANGED <<terminal, covered>>
    BY <1>8 DEF Handle
  <2>4. seq' <= Len(history)
    BY <1>1, <1>3, <2>2, <2>3
  <2> QED BY <1>3, <2>3, <2>4 DEF Chronicle, terminal
<1>9. CASE \/ Push \/ Subscribe \/ Unsubscribe \/ Ask \/ Answered \/ Failed
           \/ TickRow \/ BarRow \/ Slept \/ Refilled \/ Connect \/ UNCHANGED vars
  <2>1. UNCHANGED <<terminal, covered, seq>>
    BY <1>9 DEF Push, Subscribe, Unsubscribe, Ask, Answered, Failed, TickRow, BarRow, Slept,
                Refilled, Connect, vars, ghosts
  <2> QED BY <1>3, <1>4, <2>1 DEF terminal
<1>10. CASE Advance
  <2>1. UNCHANGED <<history, covered, seq>> /\ clock' = clock + 1
    BY <1>10 DEF Advance, ghosts
  <2> QED BY <1>3, <1>4, <2>1
<1> QED BY <1>5, <1>6, <1>7, <1>8, <1>9, <1>10 DEF Next

(* A second holds its milliseconds.                                         *)
LEMMA SecondBounds ==
    ASSUME NEW m \in Nat
    PROVE  /\ Second(m) \in Nat /\ Second(m) * PerSecond <= m
           /\ m < (Second(m) + 1) * PerSecond
<1> DEFINE q == m \div PerSecond
           r == m % PerSecond
<1>1. PerSecond \in Nat \ {0}
  BY ConstantsAssumption
<1>2. q \in Int /\ r \in 0 .. PerSecond - 1 /\ m = PerSecond * q + r
  BY <1>1
<1> HIDE DEF q, r
<1>3. q >= 0
  <2> SUFFICES ASSUME q <= -1 PROVE FALSE
    BY <1>2
  <2>1. PerSecond * q <= -PerSecond
    BY <1>1, <1>2
  <2> QED BY <1>1, <1>2, <2>1
<1>4. (q + 1) * PerSecond = PerSecond * q + PerSecond
  BY <1>1, <1>2
<1>5. q * PerSecond = PerSecond * q
  BY <1>1, <1>2
<1>6. q \in Nat /\ q * PerSecond <= m /\ m < (q + 1) * PerSecond
  BY <1>1, <1>2, <1>3, <1>4, <1>5
<1> QED BY <1>6 DEF Second, q

(* _publish_tick, given a tick that nothing missing is earlier than: the    *)
(* tick is not missing any more, and nothing else becomes so.               *)
LEMMA Published ==
    ASSUME IInv, Complete, Pulls, phase # "off", UNCHANGED <<terminal, since>>,
           unseen \subseteq unseen', NEW tick \in Tick, PublishTick(tick),
           tick.msc <= clock + Offset,
           \A i \in Missing : i \notin unseen' => tick.msc <= history[i].msc
    PROVE  /\ Watermarked' /\ NoneMissed'
           /\ Missing' \subseteq Missing
           /\ \A i \in Missing' : history[i] # tick
<1> USE DEF IInv, Complete
<1>1. mark \in Int /\ mark >= 1
  <2>1. mark \in Int /\ mark # Unset
    BY DEF TypeOK, Marked, Pulls, Unset
  <2> QED BY <2>1 DEF Watermarked
<1>2. tick.msc \in Int /\ tick.pair \in Pairs /\ tick = [msc |-> tick.msc, pair |-> tick.pair]
  BY DEF Tick
<1>3. \A j \in DOMAIN out : j \in DOMAIN out' /\ out'[j] = out[j]
  <2>1. CASE UNCHANGED published
    BY <2>1 DEF published
  <2>2. CASE out' = Append(out, tick)
    BY <2>2 DEF TypeOK
  <2> QED BY <2>1, <2>2 DEF PublishTick
<1>4. history' = history /\ since' = since /\ clock' = clock
  BY DEF terminal
<1>5. Priced' = Priced /\ HandedOver \subseteq HandedOver'
  BY <1>3, <1>4 DEF Priced, HandedOver
<1>6. Missing' \subseteq Missing /\ \A i \in Missing' : i \in Priced /\ i \notin unseen' /\ i \notin HandedOver'
  BY <1>5 DEF Missing
<1>7. \A i \in Missing' : tick.msc <= history[i].msc /\ i \in DOMAIN history /\ history[i].msc \in Int
  BY <1>6, HistoryTypes
<1>8. CASE ~Fresh(tick) /\ UNCHANGED published
  <2>1. mark' = mark /\ seen' = seen /\ out' = out
    BY <1>8 DEF published
  <2>2. Watermarked'
    BY <1>4, <2>1 DEF Watermarked
  <2>3. NoneMissed'
    BY <1>4, <1>6, <2>1 DEF NoneMissed
  <2>4. ASSUME NEW i \in Missing', history[i] = tick PROVE FALSE
    <3>1. tick.pair \notin Unpriced /\ mark <= tick.msc
      BY <1>6, <2>4 DEF Priced, NoneMissed
    <3>2. tick.msc = mark /\ tick.pair \in seen
      BY <1>1, <1>2, <1>8, <3>1 DEF Fresh
    <3>3. \E j \in DOMAIN out : out[j] = history[i]
      BY <1>2, <2>4, <3>2 DEF Watermarked
    <3>4. i \in HandedOver
      BY <1>7, <3>3 DEF HandedOver
    <3> QED BY <1>5, <1>6, <3>4
  <2> QED BY <1>6, <2>2, <2>3, <2>4
<1>9. CASE Fresh(tick) /\ mark' = tick.msc /\ seen' = SeenAt(tick) /\ out' = Append(out, tick)
  <2>1. tick.msc >= mark
    BY <1>9 DEF Fresh
  <2>2. Len(out) + 1 \in DOMAIN out' /\ out'[Len(out) + 1] = tick
    BY <1>9 DEF TypeOK
  <2>3. \A p \in seen' : \E j \in DOMAIN out' : out'[j] = [msc |-> mark', pair |-> p]
    <3> SUFFICES ASSUME NEW p \in seen'
                 PROVE  \E j \in DOMAIN out' : out'[j] = [msc |-> mark', pair |-> p]
      OBVIOUS
    <3>1. CASE p = tick.pair
      BY <1>2, <1>9, <2>2, <3>1
    <3>2. CASE p # tick.pair
      <4>1. p \in seen /\ ~(tick.msc > mark)
        BY <1>9, <3>2 DEF SeenAt
      <4>2. tick.msc = mark
        BY <1>1, <1>2, <2>1, <4>1
      <4>3. PICK j \in DOMAIN out : out[j] = [msc |-> mark, pair |-> p]
        BY <4>1 DEF Watermarked
      <4> QED BY <1>3, <1>9, <4>2, <4>3
    <3> QED BY <3>1, <3>2
  <2>4. mark' >= 1 /\ mark' <= clock' + Offset
    BY <1>1, <1>2, <1>4, <1>9, <2>1
  <2>5. Watermarked'
    BY <2>3, <2>4 DEF Watermarked
  <2>6. NoneMissed'
    BY <1>4, <1>7, <1>9 DEF NoneMissed
  <2>7. \A i \in Missing' : history[i] # tick
    BY <1>4, <1>6, <1>7, <2>2 DEF HandedOver
  <2> QED BY <1>6, <2>5, <2>6, <2>7
<1> QED BY <1>8, <1>9 DEF PublishTick

(* A step that hands nothing over and moves no history leaves missing what  *)
(* was missing.                                                             *)
LEMMA Held ==
    ASSUME IInv, Complete, Pulls, UNCHANGED <<history, published, since, unseen>>,
           clock' \in Int, clock <= clock'
    PROVE  /\ Missing' = Missing /\ Watermarked' /\ NoneMissed'
           /\ mark' = mark /\ history' = history
<1> USE DEF IInv, Complete
<1>1. mark' = mark /\ seen' = seen /\ out' = out /\ history' = history
      /\ since' = since /\ unseen' = unseen
  BY DEF published
<1>2. Missing' = Missing
  BY <1>1 DEF Missing, Priced, HandedOver
<1>3. NoneMissed'
  BY <1>1, <1>2 DEF NoneMissed
<1>4. mark \in Int /\ clock \in Int
  BY DEF TypeOK
<1>5. mark <= since \/ mark <= clock' + Offset
  <2>1. Offset \in Int
    BY ConstantsAssumption
  <2>2. \A c \in Int : clock <= c => (mark <= clock + Offset => mark <= c + Offset)
    BY <1>4, <2>1
  <2>3. mark <= since \/ mark <= clock + Offset
    BY DEF Watermarked
  <2> QED BY <2>2, <2>3
<1>6. Watermarked'
  BY <1>1, <1>5 DEF Watermarked
<1> QED BY <1>1, <1>2, <1>3, <1>6

Kept == Watermarked /\ Ranged /\ InTheReply /\ InTheStream /\ NoneMissed

(* A new tick is not earlier than any other, nor than the watermark if the  *)
(* subscription is for it.                                                  *)
LEMMA TradeMissesNone ==
    ASSUME IInv, Complete, Pulls, NEW pair \in Pairs, Trade(pair)
    PROVE  Kept'
<1> USE DEF IInv, Complete
<1>1. Len(history) \in Nat /\ DOMAIN history = 1 .. Len(history)
  BY HistoryTypes
<1>2. PICK new : new = Len(history) + 1
  OBVIOUS
<1>3. /\ DOMAIN history' = 1 .. new /\ new \in Nat
      /\ \A i \in DOMAIN history : i \in DOMAIN history' /\ history'[i] = history[i]
      /\ history'[new].msc = clock + Offset
      /\ \A i \in DOMAIN history' : i \in DOMAIN history \/ i = new
      /\ new \notin DOMAIN history /\ new > Len(history)
  BY <1>1, <1>2 DEF Trade, TypeOK
<1>4. /\ UNCHANGED <<clock, phase, wanted, rows, frame, mark, seen, seq, out, since, covered, unseen>>
  BY DEF Trade, published, ghosts
<1>5. \A i \in Missing' : i \in Missing \/ i = new
  <2> SUFFICES ASSUME NEW i \in Missing', i \in DOMAIN history PROVE i \in Missing
    BY <1>3 DEF Missing, Priced
  <2>1. history'[i] = history[i]
    BY <1>3
  <2>2. i \in Priced' /\ i \notin unseen' /\ i \notin HandedOver'
    BY DEF Missing
  <2>3. i \in Priced
    BY <1>4, <2>1, <2>2 DEF Priced
  <2>4. i \notin HandedOver
    BY <1>3, <1>4, <2>1, <2>2 DEF HandedOver
  <2> QED BY <1>4, <2>2, <2>3, <2>4 DEF Missing
<1>6. \A i \in Missing : i \in DOMAIN history /\ history'[i] = history[i]
  BY <1>3, HistoryTypes
<1>7. NoneMissed'
  <2> SUFFICES ASSUME NEW i \in Missing' PROVE mark <= history'[i].msc
    BY <1>4 DEF NoneMissed
  <2>1. CASE i \in Missing
    BY <1>6, <2>1 DEF NoneMissed
  <2>2. CASE i = new
    <3>1. since <= clock + Offset
      BY <1>3, <1>4, <2>2 DEF Missing, Priced
    <3>2. mark <= since \/ mark <= clock + Offset
      BY DEF Watermarked
    <3>3. CASE mark <= clock + Offset
      BY <1>3, <2>2, <3>3
    <3>4. CASE mark <= since
      <4>1. since \in Int
        BY DEF Watermarked
      <4> QED BY <1>3, <2>2, <3>1, <3>4, <4>1, ConstantsAssumption DEF TypeOK
    <3> QED BY <3>2, <3>3, <3>4
  <2> QED BY <1>5, <2>1, <2>2
<1>8. Watermarked'
  BY <1>4 DEF Watermarked
<1>9. Ranged'
  <2> SUFFICES ASSUME phase = "asked"
               PROVE  /\ wanted.from = Second(mark)
                      /\ frame # 0 => \A i \in 1 .. frame : history'[i].msc <= wanted.until * PerSecond
    BY <1>4 DEF Ranged
  <2>1. frame \in 0 .. Len(history)
    BY DEF TypeOK
  <2>2. \A i \in 1 .. frame : i \in DOMAIN history
    BY <1>1, <2>1
  <2> QED BY <1>3, <2>2 DEF Ranged
<1>10. InTheReply'
  <2> SUFFICES ASSUME phase \in {"served", "rows"}
               PROVE  /\ \A row \in rows : row.msc <= clock + Offset
                      /\ frame # 0 => 1 .. frame \subseteq covered
                      /\ \A i \in Missing' :
                          \/ history'[i] \in rows
                          \/ i \notin covered /\ \A row \in rows : row.msc <= history'[i].msc
    BY <1>4 DEF InTheReply
  <2>1. \A row \in rows : row.msc <= clock + Offset
    BY DEF InTheReply
  <2>2. frame # 0 => 1 .. frame \subseteq covered
    BY DEF InTheReply
  <2>3. ASSUME NEW i \in Missing'
        PROVE  \/ history'[i] \in rows
               \/ i \notin covered /\ \A row \in rows : row.msc <= history'[i].msc
    <3>1. CASE i \in Missing
      BY <1>6, <3>1 DEF InTheReply
    <3>2. CASE i = new
      <4>1. i \notin covered
        BY <1>3, <3>2 DEF Chronicle
      <4> QED BY <1>3, <2>1, <3>2, <4>1
    <3> QED BY <1>5, <3>1, <3>2
  <2> QED BY <2>1, <2>2, <2>3
<1>11. InTheStream'
  <2>1. new \notin covered /\ new > seq
    <3>1. new \notin covered
      BY <1>3 DEF Chronicle
    <3>2. seq \in Nat /\ seq <= Len(history)
      BY DEF Chronicle, TypeOK
    <3> QED BY <1>1, <1>3, <3>1, <3>2
  <2>2. phase \in {"open", "live"} => \A i \in Missing' : i \notin covered
    BY <1>5, <2>1 DEF InTheStream
  <2>3. phase = "live" => \A i \in Missing' : i > seq
    BY <1>5, <2>1 DEF InTheStream
  <2> QED BY <1>4, <2>2, <2>3 DEF InTheStream
<1> QED BY <1>7, <1>8, <1>9, <1>10, <1>11 DEF Kept

(* The watermark of a new subscription is where it begins.                  *)
LEMMA SubscribeMissesNone == ASSUME IInv, Complete, Pulls, Subscribe PROVE Kept'
<1> USE DEF IInv, Complete
<1>1. /\ phase = "off" /\ phase' = "sleeping" /\ frame' = frame /\ frame = 0
      /\ UNCHANGED <<kind, clock, history, seen, out, unseen>>
  BY DEF Subscribe, InTheStream, terminal
<1>2. Ranged' /\ InTheReply' /\ InTheStream'
  BY <1>1 DEF Ranged, InTheReply, InTheStream
<1>3. CASE mark # Unset
  <2>1. UNCHANGED <<mark, since>>
    BY <1>3 DEF Subscribe
  <2>2. Missing' = Missing
    BY <1>1, <2>1 DEF Missing, Priced, HandedOver
  <2> QED BY <1>1, <1>2, <2>1, <2>2 DEF Kept, Watermarked, NoneMissed
<1>4. CASE mark = Unset
  <2>1. seen' = {}
    BY <1>1, <1>4 DEF Watermarked, Unset
  <2>2. mark' = clock /\ since' = clock
    BY <1>1, <1>4 DEF Subscribe, Pulls, Unset
  <2>3. clock >= 1 /\ clock \in Nat
    BY DEF Chronicle, TypeOK
  <2>4. Watermarked'
    BY <2>1, <2>2, <2>3 DEF Watermarked
  <2>5. NoneMissed'
    BY <2>2 DEF NoneMissed, Missing, Priced
  <2> QED BY <1>2, <2>4, <2>5 DEF Kept
<1> QED BY <1>3, <1>4

(* Steps that only move the clock, the stream or the task.                  *)
LEMMA OthersMissNone ==
    ASSUME IInv, Complete, Pulls,
           Advance \/ Push \/ Unsubscribe \/ Failed \/ Ask \/ Answered \/ Slept \/ Opening \/ Connect
    PROVE  Kept'
<1> USE DEF IInv, Complete
<1>1. clock \in Nat
  BY DEF TypeOK
<1>2. UNCHANGED <<history, published, since, unseen, covered>> /\ clock' \in Int /\ clock <= clock'
  BY <1>1 DEF Advance, Push, Unsubscribe, Failed, Ask, Answered, Slept, Opening, Connect, terminal, ghosts
<1>3. Missing' = Missing /\ Watermarked' /\ NoneMissed' /\ mark' = mark /\ history' = history
  BY <1>2, Held
<1>4. CASE Unsubscribe \/ Failed
  <2>1. phase' \in {"off", "sleeping"} /\ frame' = 0
    BY <1>4 DEF Unsubscribe, Failed
  <2>2. Ranged' /\ InTheReply' /\ InTheStream'
    BY <2>1 DEF Ranged, InTheReply, InTheStream
  <2> QED BY <1>3, <2>2 DEF Kept
<1>5. CASE Ask
  <2>1. phase' = "asked" /\ wanted' = CatchUp /\ frame' = frame /\ frame = 0
    BY <1>5 DEF Ask, Pulls, InTheStream
  <2>2. mark # 0
    BY <1>5 DEF Ask, Watermarked, Unset
  <2>3. CatchUp.from = Second(mark)
    BY <2>2 DEF CatchUp
  <2>4. Ranged'
    BY <1>3, <2>1, <2>3 DEF Ranged
  <2>5. InTheReply' /\ InTheStream'
    BY <2>1 DEF InTheReply, InTheStream
  <2> QED BY <1>3, <2>4, <2>5 DEF Kept
<1>6. CASE Advance \/ Push
  <2>1. UNCHANGED <<phase, wanted, rows, frame, seq>>
    BY <1>6 DEF Advance, Push, published
  <2>2. Ranged' /\ InTheStream'
    BY <1>2, <1>3, <2>1 DEF Ranged, InTheStream
  <2>3. phase \in {"served", "rows"} => \A row \in rows : row.msc <= clock' + Offset
    <3> SUFFICES ASSUME phase \in {"served", "rows"}, NEW row \in rows
                 PROVE  row.msc <= clock' + Offset
      OBVIOUS
    <3>1. row.msc \in Int /\ row.msc <= clock + Offset
      BY DEF TypeOK, Pulls, Tick, InTheReply
    <3>2. Offset \in Int
      BY ConstantsAssumption
    <3>3. \A c \in Int : clock <= c => row.msc <= c + Offset
      BY <1>1, <3>1, <3>2
    <3> QED BY <1>2, <3>3
  <2>4. InTheReply'
    BY <1>2, <1>3, <2>1, <2>3 DEF InTheReply
  <2> QED BY <1>3, <2>2, <2>4 DEF Kept
<1>7. CASE Answered
  <2>1. phase = "served" /\ phase' = "rows" /\ UNCHANGED <<clock, rows, frame, seq>>
    BY <1>7 DEF Answered, terminal
  <2>2. Ranged' /\ InTheStream'
    BY <2>1 DEF Ranged, InTheStream
  <2>3. InTheReply'
    BY <1>2, <1>3, <2>1 DEF InTheReply
  <2> QED BY <1>3, <2>2, <2>3 DEF Kept
<1>8. CASE Slept
  <2>1. phase' = "sleeping" /\ frame' = frame /\ frame = 0
    BY <1>8 DEF Slept, OnlyStreams
  <2>2. Ranged' /\ InTheReply' /\ InTheStream'
    BY <2>1 DEF Ranged, InTheReply, InTheStream
  <2> QED BY <1>3, <2>2 DEF Kept
<1>9. CASE Opening
  <2>1. phase = "rows" /\ rows = {} /\ phase' = "open" /\ frame' = 0 /\ seq' = 0
    BY <1>9 DEF Opening
  <2>2. \A i \in Missing : i \notin covered
    BY <2>1 DEF InTheReply
  <2>3. InTheStream'
    BY <1>2, <1>3, <2>1, <2>2 DEF InTheStream
  <2>4. Ranged' /\ InTheReply'
    BY <2>1 DEF Ranged, InTheReply
  <2> QED BY <1>3, <2>3, <2>4 DEF Kept
<1>10. CASE Connect
  <2>1. phase = "open" /\ phase' = "live" /\ frame' = frame /\ seq' = seq /\ frame = 0
    BY <1>10 DEF Connect, InTheStream
  <2>2. seq = 0
    BY <2>1 DEF InTheStream
  <2>3. \A i \in Missing : i \notin covered /\ i > 0
    BY <2>1, HistoryTypes DEF InTheStream
  <2>4. InTheStream'
    BY <1>2, <1>3, <2>1, <2>2, <2>3 DEF InTheStream
  <2>5. Ranged' /\ InTheReply'
    BY <2>1 DEF Ranged, InTheReply
  <2> QED BY <1>3, <2>4, <2>5 DEF Kept
<1> QED BY <1>4, <1>5, <1>6, <1>7, <1>8, <1>9, <1>10

(* The watermark of a task that has begun is a time.                        *)
LEMMA Begun == ASSUME IInv, Complete, Pulls, phase # "off" PROVE mark \in Nat /\ mark >= 1
<1>1. mark \in Int /\ mark # Unset
  BY DEF IInv, TypeOK, Marked, Pulls, Unset
<1>2. mark >= 1
  BY <1>1 DEF Complete, Watermarked
<1> QED BY <1>1, <1>2

(* A reply holds every missing tick up to the end of its range, for the     *)
(* range begins no later than the watermark.                                *)
LEMMA ServeMissesNone == ASSUME IInv, Complete, Pulls, Serve PROVE Kept'
<1> USE DEF IInv, Complete
<1>1. /\ phase = "asked" /\ phase' = "served" /\ rows' = TicksInRange
      /\ covered' = (IF kind = "push" THEN InReach ELSE {})
      /\ UNCHANGED <<clock, history, published, since, unseen, frame, seq>>
  BY DEF Serve, Reply, Pulls, terminal
<1>2. clock \in Nat
  BY DEF TypeOK
<1>3. Missing' = Missing /\ Watermarked' /\ NoneMissed' /\ history' = history
  BY <1>1, <1>2, Held
<1>4. \A row \in rows' : row.msc <= clock' + Offset
  BY <1>1 DEF TicksInRange, InReach, Chronicle
<1>5. frame # 0 => 1 .. frame \subseteq covered'
  <2> SUFFICES ASSUME frame # 0, NEW i \in 1 .. frame PROVE i \in covered'
    OBVIOUS
  <2>1. kind = "push"
    BY DEF OnlyStreams, Streams, Pulls
  <2>2. i \in DOMAIN history
    BY HistoryTypes DEF TypeOK
  <2>3. history[i].msc <= wanted.until * PerSecond
    BY <1>1 DEF Ranged
  <2> QED BY <1>1, <2>1, <2>2, <2>3 DEF InReach
<1>6. ASSUME NEW i \in Missing
      PROVE  \/ history[i] \in rows'
             \/ i \notin covered' /\ \A row \in rows' : row.msc <= history[i].msc
  <2>1. PICK end : end = wanted.until * PerSecond
    OBVIOUS
  <2>2. end \in Int
    BY <2>1, ConstantsAssumption DEF TypeOK
  <2>3. i \in DOMAIN history /\ history[i].msc \in Int
    BY HistoryTypes
  <2>4. history[i].msc >= wanted.from * PerSecond
    <3>1. mark \in Nat
      BY <1>1, Begun
    <3>2. Second(mark) * PerSecond <= mark /\ Second(mark) \in Nat
      BY <3>1, SecondBounds
    <3>3. PICK start : start = Second(mark) * PerSecond
      OBVIOUS
    <3>4. start \in Int /\ start <= mark
      BY <3>2, <3>3, ConstantsAssumption
    <3>5. mark <= history[i].msc
      BY DEF NoneMissed
    <3>6. start <= history[i].msc
      BY <2>3, <3>1, <3>4, <3>5
    <3>7. wanted.from * PerSecond = start
      BY <1>1, <3>3 DEF Ranged
    <3> QED BY <2>3, <3>4, <3>6, <3>7
  <2>5. CASE history[i].msc <= end
    BY <1>1, <2>1, <2>3, <2>4, <2>5 DEF TicksInRange, InReach
  <2>6. CASE ~(history[i].msc <= end)
    <3>1. i \notin covered'
      BY <1>1, <2>1, <2>6 DEF InReach
    <3>2. \A row \in rows' : row.msc \in Int /\ row.msc <= end
      BY <1>1, <2>1, HistoryTypes DEF TicksInRange, InReach
    <3> QED BY <2>2, <2>3, <2>6, <3>1, <3>2
  <2> QED BY <2>5, <2>6
<1>7. InTheReply'
  BY <1>1, <1>3, <1>4, <1>5, <1>6 DEF InTheReply
<1>8. Ranged' /\ InTheStream'
  BY <1>1 DEF Ranged, InTheStream
<1> QED BY <1>3, <1>7, <1>8 DEF Kept

(* Rows are taken in the order of their times, so none is passed over.      *)
LEMMA RowMissesNone == ASSUME IInv, Complete, Pulls, TickRow \/ BarRow PROVE Kept'
<1> USE DEF IInv, Complete
<1>1. TickRow
  BY DEF BarRow, Pulls
<1>2. PICK row \in rows : /\ \A other \in rows : row.msc <= other.msc
                          /\ rows' = rows \ {row} /\ PublishTick(row)
  BY <1>1 DEF TickRow
<1>3. phase = "rows" /\ UNCHANGED <<terminal, since, covered, unseen, phase, frame, seq>>
  BY <1>1 DEF TickRow, ghosts
<1>4. row \in Tick /\ row.msc <= clock + Offset
  BY <1>2, <1>3 DEF TypeOK, Pulls, InTheReply
<1>5. \A i \in Missing : row.msc <= history[i].msc
  BY <1>2, <1>3 DEF InTheReply
<1>6. /\ Watermarked' /\ NoneMissed'
      /\ Missing' \subseteq Missing
      /\ \A i \in Missing' : history[i] # row
  BY <1>2, <1>3, <1>4, <1>5, Published
<1>7. InTheReply'
  BY <1>2, <1>3, <1>6 DEF InTheReply, terminal
<1>8. Ranged' /\ InTheStream'
  BY <1>3, <1>6 DEF Ranged, InTheStream
<1> QED BY <1>6, <1>7, <1>8 DEF Kept

(* When the reply to a gap has been handed over, so has all before the      *)
(* frame that showed it.                                                    *)
LEMMA RefilledMissesNone == ASSUME IInv, Complete, Pulls, Refilled PROVE Kept'
<1> USE DEF IInv, Complete
<1>1. /\ phase = "rows" /\ rows = {} /\ frame # 0 /\ phase' = "live" /\ frame' = 0
      /\ PublishTick(history[frame]) /\ UNCHANGED <<terminal, since, covered, unseen, seq>>
  BY DEF Refilled, ghosts
<1>2. frame \in Nat /\ frame >= 1 /\ frame \in DOMAIN history /\ seq = frame
  BY <1>1, HistoryTypes DEF TypeOK, InTheStream
<1>3. \A i \in Missing : i \notin covered /\ i > frame
  <2> SUFFICES ASSUME NEW i \in Missing PROVE i \notin covered /\ i > frame
    OBVIOUS
  <2>1. i \notin covered /\ 1 .. frame \subseteq covered
    BY <1>1 DEF InTheReply
  <2>2. i \in Nat /\ i >= 1
    BY HistoryTypes
  <2> QED BY <1>2, <2>1, <2>2
<1>4. \A i \in Missing : history[frame].msc <= history[i].msc
  BY <1>2, <1>3, HistoryTypes DEF Chronicle
<1>5. history[frame] \in Tick /\ history[frame].msc <= clock + Offset
  BY <1>2, HistoryTypes DEF Chronicle
<1>6. /\ Watermarked' /\ NoneMissed'
      /\ Missing' \subseteq Missing
  BY <1>1, <1>4, <1>5, Published
<1>7. InTheStream'
  BY <1>1, <1>2, <1>3, <1>6 DEF InTheStream
<1>8. Ranged' /\ InTheReply'
  BY <1>1 DEF Ranged, InTheReply
<1> QED BY <1>6, <1>7, <1>8 DEF Kept

\* The broker's clock is not ahead of UTC, or no stream refills its gaps.  One
\* millisecond is what the range keeps in hand at the end of a second.
NotAhead == Offset <= 1 \/ "push" \notin Kinds

(* A frame is the next tick, or the first, or shows a gap: then the range   *)
(* asked for reaches it, unless the broker's clock is ahead.                *)
LEMMA HandleMissesNone == ASSUME NotAhead, IInv, Complete, Pulls, Handle PROVE Kept'
<1> USE DEF IInv, Complete
<1>1. PICK j : j = Head(queue)
  OBVIOUS
<1>2. /\ phase = "live" /\ kind = "push" /\ kind \in Kinds /\ frame = 0
      /\ UNCHANGED <<terminal, since, covered>>
      /\ seq' = j
      /\ unseen' = IF seq = 0 THEN unseen \cup ((1 .. j - 1) \ covered) ELSE unseen
  BY <1>1 DEF Handle, OnlyStreams, Streams, Pulls, TypeOK, InTheStream
<1>3. j \in Nat /\ j >= 1 /\ j \in DOMAIN history
  <2>1. queue \in Seq(1 .. Len(history)) /\ queue # <<>>
    BY DEF Handle, TypeOK
  <2>2. Head(queue) \in 1 .. Len(history)
    BY <2>1
  <2> QED BY <1>1, <2>2, HistoryTypes
<1>4. seq \in Nat /\ clock \in Nat
  BY DEF TypeOK
<1>5. CASE Gap(j) /\ phase' = "asked" /\ wanted' = CatchUp /\ frame' = j /\ UNCHANGED published
  <2>1. unseen' = unseen
    BY <1>2, <1>5 DEF Gap
  <2>2. Missing' = Missing /\ Watermarked' /\ NoneMissed' /\ mark' = mark /\ history' = history
    BY <1>2, <1>4, <1>5, <2>1, Held DEF terminal
  <2>3. CatchUp.from = Second(mark) /\ CatchUp.until = Second(clock) + 1
    BY <1>2, Begun DEF CatchUp
  <2>4. \A i \in 1 .. j : history[i].msc <= (Second(clock) + 1) * PerSecond
    <3> SUFFICES ASSUME NEW i \in 1 .. j
                 PROVE  history[i].msc <= (Second(clock) + 1) * PerSecond
      OBVIOUS
    <3>1. i \in DOMAIN history
      BY <1>3, HistoryTypes
    <3>2. history[i].msc \in Int /\ history[i].msc <= clock + Offset
      BY <3>1, HistoryTypes DEF Chronicle
    <3>3. Offset \in Int /\ Offset <= 1
      BY <1>2, ConstantsAssumption DEF NotAhead
    <3>4. PICK end : end = (Second(clock) + 1) * PerSecond
      OBVIOUS
    <3>5. end \in Int /\ clock + 1 <= end
      BY <1>4, <3>4, SecondBounds, ConstantsAssumption
    <3>6. history[i].msc <= end
      BY <1>4, <3>2, <3>3, <3>5
    <3> QED BY <3>4, <3>6
  <2>5. Ranged'
    BY <1>5, <2>2, <2>3, <2>4 DEF Ranged
  <2>6. InTheReply' /\ InTheStream'
    BY <1>2, <1>5 DEF InTheReply, InTheStream
  <2> QED BY <2>2, <2>5, <2>6 DEF Kept
<1>6. CASE ~Gap(j) /\ PublishTick(history[j]) /\ UNCHANGED <<phase, wanted, frame>>
  <2>1. ASSUME NEW i \in Missing, i \notin unseen' PROVE i >= j /\ i \in Nat /\ i \in DOMAIN history
    <3>1. i \in Nat /\ i >= 1 /\ i \in DOMAIN history
      BY HistoryTypes
    <3>2. i \notin covered /\ i > seq
      BY <1>2 DEF InTheStream
    <3>3. CASE seq = 0
      <4>1. i \notin 1 .. j - 1
        BY <1>2, <2>1, <3>2, <3>3
      <4> QED BY <1>3, <3>1, <4>1
    <3>4. CASE seq # 0
      <4>1. j = seq + 1
        BY <1>2, <1>6, <3>4 DEF Gap
      <4> QED BY <1>4, <3>1, <3>2, <4>1
    <3> QED BY <3>3, <3>4
  <2>2. \A i \in Missing : i \notin unseen' => history[j].msc <= history[i].msc
    <3> SUFFICES ASSUME NEW i \in Missing, i \notin unseen'
                 PROVE  history[j].msc <= history[i].msc
      OBVIOUS
    <3>1. i >= j /\ i \in Nat /\ i \in DOMAIN history
      BY <2>1
    <3>2. CASE i = j
      BY <1>3, <3>2, HistoryTypes
    <3>3. CASE j < i
      BY <1>3, <3>1, <3>3 DEF Chronicle
    <3> QED BY <1>3, <3>1, <3>2, <3>3
  <2>3. history[j] \in Tick /\ history[j].msc <= clock + Offset
    BY <1>3, HistoryTypes DEF Chronicle
  <2>4. unseen \subseteq unseen'
    BY <1>2
  <2>5. /\ Watermarked' /\ NoneMissed'
        /\ Missing' \subseteq Missing
        /\ \A i \in Missing' : history[i] # history[j]
    BY <1>2, <1>6, <2>2, <2>3, <2>4, Published
  <2>6. \A i \in Missing' : i \notin covered /\ i > j
    <3> SUFFICES ASSUME NEW i \in Missing' PROVE i \notin covered /\ i > j
      OBVIOUS
    <3>1. i \in Missing /\ i \notin unseen'
      BY <2>5 DEF Missing
    <3>2. i >= j /\ i \in Nat /\ i # j
      BY <2>1, <2>5, <3>1
    <3> QED BY <1>2, <1>3, <3>1, <3>2 DEF InTheStream
  <2>7. InTheStream'
    BY <1>2, <1>6, <2>6 DEF InTheStream
  <2>8. Ranged' /\ InTheReply'
    BY <1>2, <1>6 DEF Ranged, InTheReply
  <2> QED BY <2>5, <2>7, <2>8 DEF Kept
<1> QED BY <1>1, <1>5, <1>6 DEF Handle

(* Every step leaves all that is missing where it can still be found.       *)
LEMMA CompleteNext == NotAhead /\ IInv /\ Complete /\ [Next]_vars => Complete'
<1> SUFFICES ASSUME NotAhead, IInv, Complete, [Next]_vars PROVE Complete'
  OBVIOUS
<1>1. Chronicle'
  BY ChronicleKeeps
<1>2. kind' = kind
  BY DEF Next, Advance, Trade, Push, Subscribe, Unsubscribe, Ask, Serve, Answered, Failed,
         TickRow, BarRow, Slept, Opening, Refilled, Connect, Handle, vars, terminal
<1>3. ASSUME Pulls PROVE Kept'
  <2>1. CASE UNCHANGED vars
    <3>1. clock \in Nat /\ Kept
      BY <1>3 DEF IInv, TypeOK, Complete, Kept
    <3>2. Missing' = Missing
      BY <1>3, <2>1, <3>1, Held DEF vars, terminal, ghosts
    <3> QED BY <2>1, <3>1, <3>2
            DEF Kept, Watermarked, Ranged, InTheReply, InTheStream, NoneMissed, vars, terminal,
                published, ghosts
  <2>2. CASE Next
    BY <1>3, <2>2, TradeMissesNone, SubscribeMissesNone, OthersMissNone, ServeMissesNone,
       RowMissesNone, RefilledMissesNone, HandleMissesNone DEF Next
  <2> QED BY <2>1, <2>2
<1> QED BY <1>1, <1>2, <1>3 DEF Complete, Kept, Pulls

(* Every tick the watermark has gone past has been handed over, but for     *)
(* those between a catch-up and the stream it went before, for a pulling    *)
(* source with any clock of the broker and for a numbered stream with one   *)
(* that is not ahead of UTC.                                                *)
THEOREM NothingIsPassedOver ==
    ASSUME NotAhead
    PROVE  Spec => []NothingPassedOver
<1>1. Init => IInv /\ Complete
  BY InvInit, CompleteInit
<1>2. IInv /\ Complete /\ [Next]_vars => IInv' /\ Complete'
  BY InvNext, CompleteNext
<1>3. IInv /\ Complete => NothingPassedOver
  <2> SUFFICES ASSUME IInv, Complete, Pulls, NEW i \in Passed, i \notin unseen
               PROVE  i \in HandedOver
    BY DEF NothingPassedOver, Pulls
  <2>1. i \in Priced /\ history[i].msc < mark
    BY DEF Passed
  <2>2. i \in Missing => mark <= history[i].msc
    BY DEF Complete, NoneMissed
  <2>3. history[i].msc \in Int /\ mark \in Int
    BY <2>1, HistoryTypes DEF Priced, IInv, TypeOK
  <2> QED BY <2>1, <2>2, <2>3 DEF Missing
<1> QED BY <1>1, <1>2, <1>3, PTL DEF Spec
=============================================================================

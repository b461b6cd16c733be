------------------------- MODULE WorkerStreamProofs -------------------------
(***************************************************************************)
(* The safety of one stream, for any number of payloads and failures.      *)
(***************************************************************************)
EXTENDS WorkerStream, TLAPS

\* Len, as an operator that only the lemmas about sequences expand.
Size(q) == Len(q)

\* q counts on from f.
Counts(q, f) == \A k \in 1 .. Len(q) : q[k] = f + k

\* Payloads that left the stream between the reader's Recv and what is on its way.
Known(t, i, r) == Size(t) + Size(i) + (IF r = "put" THEN 1 ELSE 0)

\* One direction of a stream: t was taken, i is in recvMsgCh, h in the hand of
\* a reader in state r, n on its way and b in sendMsgCh; s payloads were sent.
\* What is lost is lost at the end: once over, or once the reader has ended.
Chain(t, i, h, r, n, b, s, over) ==
  /\ Counts(t, 0) /\ Counts(i, Size(t))
  /\ r = "off" => i = <<>>
  /\ r = "put" => h = Size(t) + Size(i) + 1
  /\ r # "ended" => Counts(n, Known(t, i, r))
  /\ Counts(b, s - Size(b))
  /\ Known(t, i, r) + Size(n) + Size(b) <= s
  /\ ~over /\ r # "ended" => Known(t, i, r) + Size(n) + Size(b) = s

Queue(q) == q \in Seq(Nat)

InOrder(e) ==
  Chain(taken[e], in[e], hand[e], reader[e], net[e], out[Other(e)], sent[Other(e)], Over)

-----------------------------------------------------------------------------
(***************************************************************************)
(* Sequences that count.                                                   *)
(***************************************************************************)
LEMMA Appended ==
  ASSUME NEW q \in Seq(Nat), NEW f \in Nat, NEW x \in Nat, Counts(q, f), x = f + Size(q) + 1
  PROVE  /\ Append(q, x) \in Seq(Nat) /\ Size(Append(q, x)) = Size(q) + 1
         /\ Counts(Append(q, x), f)
<1>0. Len(q) = Size(q) /\ Len(Append(q, x)) = Size(Append(q, x))
  BY DEF Size
<1>1. Append(q, x) \in Seq(Nat) /\ Len(Append(q, x)) = Len(q) + 1
  OBVIOUS
<1>2. \A k \in 1 .. Len(q) : Append(q, x)[k] = q[k]
  OBVIOUS
<1>3. Append(q, x)[Len(q) + 1] = x
  OBVIOUS
<1>4. ASSUME NEW k \in 1 .. Len(Append(q, x)) PROVE Append(q, x)[k] = f + k
  <2>1. CASE k \in 1 .. Len(q)
    BY <1>2, <2>1 DEF Counts
  <2>2. CASE k = Len(q) + 1
    BY <1>0, <1>3, <2>2
  <2>3. QED
    BY <1>1, <2>1, <2>2
<1>5. QED
  BY <1>0, <1>1, <1>4 DEF Counts

LEMMA Taken ==
  ASSUME NEW q \in Seq(Nat), NEW f \in Int, Counts(q, f), q # <<>>
  PROVE  /\ Size(q) \in Nat /\ Size(q) > 0 /\ Head(q) = f + 1 /\ Head(q) \in Nat
         /\ Tail(q) \in Seq(Nat) /\ Size(Tail(q)) = Size(q) - 1 /\ Counts(Tail(q), f + 1)
<1>1. Len(q) \in Nat /\ Len(q) > 0
  OBVIOUS
<1>2. Head(q) = q[1] /\ q[1] = f + 1 /\ q[1] \in Nat
  BY <1>1 DEF Counts
<1>3. Tail(q) \in Seq(Nat) /\ Len(Tail(q)) = Len(q) - 1
  OBVIOUS
<1>4. ASSUME NEW k \in 1 .. Len(Tail(q)) PROVE Tail(q)[k] = (f + 1) + k
  <2>1. Tail(q)[k] = q[k + 1] /\ k + 1 \in 1 .. Len(q)
    BY <1>1, <1>3
  <2>2. QED
    BY <2>1 DEF Counts
<1>5. Counts(Tail(q), f + 1)
  BY <1>4 DEF Counts
<1>6. QED
  BY <1>1, <1>2, <1>3, <1>5 DEF Size

LEMMA CutOff ==
  ASSUME NEW q \in Seq(Nat), NEW f \in Nat, NEW j \in 0 .. Size(q)
  PROVE  /\ SubSeq(q, 1, j) \in Seq(Nat) /\ Size(SubSeq(q, 1, j)) = j
         /\ Counts(q, f) => Counts(SubSeq(q, 1, j), f)
<1>0. j \in 0 .. Len(q)
  BY DEF Size
<1>1. SubSeq(q, 1, j) \in Seq(Nat) /\ Len(SubSeq(q, 1, j)) = j
  BY <1>0
<1>2. \A k \in 1 .. j : SubSeq(q, 1, j)[k] = q[k] /\ k \in 1 .. Len(q)
  BY <1>0
<1>3. Counts(q, f) => Counts(SubSeq(q, 1, j), f)
  BY <1>1, <1>2 DEF Counts
<1>4. QED
  BY <1>1, <1>3 DEF Size

LEMMA Nothing == Size(<<>>) = 0 /\ \A f : Counts(<<>>, f)
  BY DEF Counts, Size

-----------------------------------------------------------------------------
(***************************************************************************)
(* What the operations on a direction do to it.                            *)
(***************************************************************************)
LEMMA Lengths ==
  ASSUME NEW q, Queue(q)
  PROVE  Size(q) \in Nat /\ (q # <<>> <=> Size(q) > 0)
<1>1. Len(q) \in Nat /\ (q # <<>> <=> Len(q) > 0)
  BY DEF Queue
<1>2. QED
  BY <1>1 DEF Size

LEMMA ChainSends ==
  ASSUME NEW t, NEW i, NEW h, NEW r, NEW n, NEW b, NEW s \in Nat, NEW over,
         Queue(b), Size(b) < 1, Known(t, i, r) \in Nat, Size(n) \in Nat, Chain(t, i, h, r, n, b, s, over)
  PROVE  Chain(t, i, h, r, n, Append(b, s + 1), s + 1, over)
<1>1. Size(b) = 0 /\ s - Size(b) = s /\ s + 1 = s + Size(b) + 1 /\ s + 1 \in Nat
  BY Lengths
<1>2. Counts(b, s)
  BY <1>1 DEF Chain
<1>3. Size(Append(b, s + 1)) = 1 /\ Counts(Append(b, s + 1), s)
  <2> DEFINE x == s + 1
  <2>1. x \in Nat /\ x = s + Size(b) + 1
    BY <1>1
  <2> HIDE DEF x
  <2>2. Size(Append(b, x)) = Size(b) + 1 /\ Counts(Append(b, x), s)
    BY <1>2, <2>1, Appended DEF Queue
  <2>3. QED
    BY <1>1, <2>2 DEF x
<1>4. Counts(Append(b, s + 1), (s + 1) - Size(Append(b, s + 1)))
  BY <1>3
<1>5. QED
  BY <1>1, <1>3, <1>4 DEF Chain

LEMMA ChainTransmits ==
  ASSUME NEW t, NEW i, NEW h, NEW r, NEW n, NEW b, NEW s \in Nat, NEW over,
         Queue(b), b # <<>>, Size(b) <= 1, Queue(n), Known(t, i, r) \in Nat, Chain(t, i, h, r, n, b, s, over)
  PROVE  /\ ~over => Chain(t, i, h, r, Append(n, Head(b)), Tail(b), s, over)
         /\ over => Chain(t, i, h, r, n, Tail(b), s, over)
<1>1. Size(b) = 1 /\ Size(n) \in Nat
  <2>1. Size(b) \in Nat /\ Size(b) > 0 /\ Size(n) \in Nat
    BY Lengths
  <2>2. QED
    BY <2>1
<1>2. Counts(b, s - 1) /\ s - 1 \in Int /\ (s - 1) + 1 = s
  BY <1>1 DEF Chain
<1>3. Head(b) = s /\ Size(Tail(b)) = 0 /\ Counts(Tail(b), s)
  BY <1>1, <1>2, Taken DEF Queue
<1>4. Counts(Tail(b), s - Size(Tail(b)))
  BY <1>3
<1>5. over => Chain(t, i, h, r, n, Tail(b), s, over)
  <2>1. Known(t, i, r) + Size(n) + Size(Tail(b)) <= s
    BY <1>1, <1>3 DEF Chain
  <2>2. QED
    BY <1>4, <2>1 DEF Chain
<1>6. ASSUME ~over PROVE Chain(t, i, h, r, Append(n, s), Tail(b), s, over)
  <2>1. r # "ended" => s = Known(t, i, r) + Size(n) + 1
    BY <1>1, <1>6 DEF Chain
  <2>2. r # "ended" => Counts(Append(n, s), Known(t, i, r))
    <3>1. r # "ended" => Counts(n, Known(t, i, r))
      BY DEF Chain
    <3>2. QED
      BY <2>1, <3>1, Appended DEF Queue
  <2>3. Size(Append(n, s)) = Size(n) + 1
    <3>1. Len(Append(n, s)) = Len(n) + 1
      BY DEF Queue
    <3>2. QED
      BY <3>1 DEF Size
  <2>4. Known(t, i, r) + Size(Append(n, s)) + Size(Tail(b)) = Known(t, i, r) + Size(n) + Size(b)
    BY <1>1, <1>3, <2>3
  <2>5. QED
    BY <1>4, <1>6, <2>2, <2>4 DEF Chain
<1>7. QED
  BY <1>3, <1>5, <1>6

LEMMA ChainReceives ==
  ASSUME NEW t, NEW i, NEW h, NEW n, NEW b, NEW s \in Nat, NEW over,
         Queue(n), n # <<>>, Size(t) \in Nat, Size(i) \in Nat, Size(b) \in Nat,
         Chain(t, i, h, "recv", n, b, s, over)
  PROVE  Chain(t, i, Head(n), "put", Tail(n), b, s, over)
<1>1. /\ Known(t, i, "recv") = Size(t) + Size(i) /\ Known(t, i, "put") = Size(t) + Size(i) + 1
  BY DEF Known
<1>2. Counts(n, Size(t) + Size(i))
  BY <1>1 DEF Chain
<1>3. /\ Head(n) = Size(t) + Size(i) + 1 /\ Size(Tail(n)) = Size(n) - 1 /\ Size(n) \in Nat
      /\ Counts(Tail(n), Size(t) + Size(i) + 1)
  BY <1>2, Taken DEF Queue
<1>4. Counts(Tail(n), Known(t, i, "put"))
  BY <1>1, <1>3
<1>5. QED
  BY <1>1, <1>3, <1>4 DEF Chain

LEMMA ChainPasses ==
  ASSUME NEW t, NEW i, NEW h \in Nat, NEW n, NEW b, NEW s \in Nat, NEW over,
         Queue(i), Size(i) < 1, Size(t) \in Nat, Chain(t, i, h, "put", n, b, s, over)
  PROVE  Chain(t, Append(i, h), h, "recv", n, b, s, over)
<1>1. Size(i) \in Nat /\ h = Size(t) + Size(i) + 1 /\ Counts(i, Size(t))
  BY Lengths DEF Chain
<1>2. Counts(Append(i, h), Size(t)) /\ Size(Append(i, h)) = Size(i) + 1
  BY <1>1, Appended DEF Queue
<1>3. Known(t, Append(i, h), "recv") = Known(t, i, "put")
  BY <1>1, <1>2 DEF Known
<1>4. QED
  BY <1>2, <1>3 DEF Chain

LEMMA ChainTakes ==
  ASSUME NEW t, NEW i, NEW h, NEW r, NEW n, NEW b, NEW s \in Nat, NEW over,
         Queue(t), Queue(i), i # <<>>, Chain(t, i, h, r, n, b, s, over)
  PROVE  Chain(Append(t, Head(i)), Tail(i), h, r, n, b, s, over)
<1>1. Size(t) \in Nat /\ Size(i) \in Nat /\ Size(i) > 0 /\ Counts(i, Size(t)) /\ Counts(t, 0)
  BY Lengths DEF Chain
<1>2. /\ Head(i) = Size(t) + 1 /\ Head(i) \in Nat
      /\ Size(Tail(i)) = Size(i) - 1 /\ Counts(Tail(i), Size(t) + 1)
  BY <1>1, Taken DEF Queue
<1>3. Counts(Append(t, Head(i)), 0) /\ Size(Append(t, Head(i))) = Size(t) + 1
  BY <1>1, <1>2, Appended DEF Queue
<1>4. Known(Append(t, Head(i)), Tail(i), r) = Known(t, i, r)
  BY <1>1, <1>2, <1>3 DEF Known
<1>5. r # "off" /\ Size(Append(t, Head(i))) + Size(Tail(i)) + 1 = Size(t) + Size(i) + 1
  BY <1>1, <1>2, <1>3 DEF Chain
<1>6. QED
  BY <1>2, <1>3, <1>4, <1>5 DEF Chain

\* waitForJob takes the first payload itself.
LEMMA ChainStarts ==
  ASSUME NEW t, NEW i, NEW h, NEW n, NEW b, NEW s \in Nat, NEW over,
         Queue(t), Queue(n), n # <<>>, Size(b) \in Nat, Chain(t, i, h, "off", n, b, s, over)
  PROVE  Chain(Append(t, Head(n)), i, h, "recv", Tail(n), b, s, over)
<1>1. Size(t) \in Nat /\ i = <<>> /\ Size(i) = 0 /\ Counts(t, 0)
  BY Nothing, Lengths DEF Chain
<1>2. Known(t, i, "off") = Size(t)
  BY <1>1 DEF Known
<1>3. Counts(n, Size(t))
  BY <1>2 DEF Chain
<1>4. /\ Head(n) = Size(t) + 1 /\ Head(n) \in Nat /\ Size(n) \in Nat
      /\ Size(Tail(n)) = Size(n) - 1 /\ Counts(Tail(n), Size(t) + 1)
  BY <1>1, <1>3, Taken DEF Queue
<1>5. Counts(Append(t, Head(n)), 0) /\ Size(Append(t, Head(n))) = Size(t) + 1
  BY <1>1, <1>4, Appended DEF Queue
<1>6. Known(Append(t, Head(n)), i, "recv") = Size(t) + 1
  BY <1>1, <1>5 DEF Known
<1>7. Counts(i, Size(Append(t, Head(n)))) /\ Counts(Tail(n), Known(Append(t, Head(n)), i, "recv"))
  BY <1>1, <1>4, <1>6, Nothing
<1>8. QED
  BY <1>1, <1>2, <1>4, <1>5, <1>6, <1>7 DEF Chain

\* The reader ends, the stream is over, and a suffix of n is lost.
LEMMA ChainEnds ==
  ASSUME NEW t, NEW i, NEW h, NEW r, NEW n, NEW b, NEW s \in Nat, NEW over,
         Size(t) \in Nat, Size(i) \in Nat, Queue(n), Size(b) \in Nat, Chain(t, i, h, r, n, b, s, over)
  PROVE  /\ Chain(t, i, h, "ended", n, b, s, over)
         /\ Chain(t, i, h, r, n, b, s, TRUE)
         /\ \A j \in 0 .. Size(n) : Chain(t, i, h, r, SubSeq(n, 1, j), b, s, TRUE)
<1>1. Known(t, i, "ended") <= Known(t, i, r) /\ Known(t, i, "ended") \in Nat /\ Known(t, i, r) \in Nat
  BY DEF Known
<1>2. Size(n) \in Nat
  BY Lengths
<1>3. Chain(t, i, h, "ended", n, b, s, over)
  BY <1>1, <1>2 DEF Chain
<1>4. ASSUME NEW j \in 0 .. Size(n) PROVE Chain(t, i, h, r, SubSeq(n, 1, j), b, s, TRUE)
  <2>1. Size(SubSeq(n, 1, j)) = j /\ (Counts(n, Known(t, i, r)) => Counts(SubSeq(n, 1, j), Known(t, i, r)))
    BY <1>1, CutOff DEF Queue
  <2>2. QED
    BY <1>1, <1>2, <2>1 DEF Chain
<1>5. Chain(t, i, h, r, n, b, s, TRUE)
  BY DEF Chain
<1>6. QED
  BY <1>3, <1>4, <1>5

LEMMA ChainWeaker ==
  ASSUME NEW t, NEW i, NEW h, NEW r, NEW n, NEW b, NEW s \in Nat, NEW over, NEW later, over => later,
         NEW x \in {r, "ended"}, Size(t) \in Nat, Size(i) \in Nat, Queue(n), Size(b) \in Nat,
         Chain(t, i, h, r, n, b, s, over)
  PROVE  Chain(t, i, h, x, n, b, s, later)
<1>1. Chain(t, i, h, x, n, b, s, over)
  BY ChainEnds
<1>2. QED
  BY <1>1 DEF Chain

-----------------------------------------------------------------------------
(***************************************************************************)
(* The invariant.                                                          *)
(***************************************************************************)

\* Who knows of a disconnect, and why a reader ended or a context is done.
ToldBooks ==
  /\ loop["master"] \in {"select", "ended"} /\ reader["master"] # "off"
  /\ loop["worker"] = "off" <=> reader["worker"] = "off"
  /\ \A e \in Ends : disc[e] /\ cb[e] => told[e]
  /\ reader["worker"] = "ended" => disc["worker"] \/ ctx["worker"] = "done" \/ closed["worker"]
  /\ ctx["worker"] = "done" =>
       closed["worker"] \/ disc["worker"] \/ loop["worker"] = "failed" \/ told["worker"]
  /\ reader["master"] = "ended" =>
       disc["master"] \/ hand["master"] > Size(taken["master"]) + Size(in["master"])

StreamInv == TypeOK /\ (\A e \in Ends : InOrder(e)) /\ ToldBooks

LEMMA OtherEnd == Other("master") = "worker" /\ Other("worker") = "master"
  BY DEF Other, Ends

LEMMA FunctionIsSeq ==
  ASSUME NEW S, NEW n \in Nat, NEW q \in [1 .. n -> S]
  PROVE  q \in Seq(S) /\ Len(q) = n
  OBVIOUS

LEMMA Widened ==
  ASSUME NEW S, S \subseteq Nat, NEW q, q \in Seq(S)
  PROVE  Queue(q)
<1>1. q \in [1 .. Len(q) -> S] /\ Len(q) \in Nat
  OBVIOUS
<1>2. q \in [1 .. Len(q) -> Nat]
  BY <1>1
<1>3. QED
  BY <1>1, <1>2, FunctionIsSeq DEF Queue

\* A channel of one payload is a short queue.
LEMMA OneBounded ==
  ASSUME NEW S, NEW q
  PROVE  q \in BoundedSeq(S, 1) <=> q \in Seq(S) /\ Size(q) <= 1
<1>1. BoundedSeq(S, 1) = UNION {[1 .. m -> S] : m \in 0 .. 1}
  BY DEF BoundedSeq, SeqOf
<1>2. ASSUME q \in BoundedSeq(S, 1) PROVE q \in Seq(S) /\ Size(q) <= 1
  <2>1. PICK m \in 0 .. 1 : q \in [1 .. m -> S]
    BY <1>1, <1>2
  <2>2. m \in Nat /\ m <= 1
    BY <2>1
  <2>3. q \in Seq(S) /\ Len(q) = m
    BY <2>1, <2>2, FunctionIsSeq
  <2>4. QED
    BY <2>2, <2>3 DEF Size
<1>3. ASSUME q \in Seq(S), Size(q) <= 1 PROVE q \in BoundedSeq(S, 1)
  <2>1. q \in [1 .. Len(q) -> S] /\ Len(q) \in Nat /\ Len(q) <= 1
    BY <1>3 DEF Size
  <2>2. Len(q) \in 0 .. 1
    BY <2>1
  <2>3. QED
    BY <1>1, <2>1, <2>2
<1>4. QED
  BY <1>2, <1>3

\* What the chains need of the types.
LEMMA QueuesTyped ==
  ASSUME TypeOK, NEW e \in Ends
  PROVE  /\ Queue(taken[e]) /\ Queue(in[e]) /\ Queue(net[e]) /\ Queue(out[e])
         /\ Size(taken[e]) \in Nat /\ Size(in[e]) \in Nat /\ Size(net[e]) \in Nat /\ Size(out[e]) \in Nat
         /\ Size(in[e]) <= 1 /\ Size(out[e]) <= 1
         /\ hand[e] \in Nat /\ sent[e] \in Nat /\ e \in Ends /\ Other(e) \in Ends
         /\ Known(taken[e], in[e], reader[e]) \in Nat
<1>1. Payloads \subseteq Nat
  BY StreamAssumption DEF Payloads
<1>2. taken[e] \in Seq(Payloads) /\ in[e] \in Seq(Payloads) /\ net[e] \in Seq(Payloads) /\ out[e] \in Seq(Payloads)
      /\ Size(in[e]) <= 1 /\ Size(out[e]) <= 1
  <2>1. taken[e] \in Seq(Payloads) /\ net[e] \in Seq(Payloads)
    BY DEF TypeOK
  <2>2. in[e] \in BoundedSeq(Payloads, 1) /\ out[e] \in BoundedSeq(Payloads, 1)
    BY DEF TypeOK
  <2>3. in[e] \in Seq(Payloads) /\ Size(in[e]) <= 1
    BY <2>2, OneBounded
  <2>4. out[e] \in Seq(Payloads) /\ Size(out[e]) <= 1
    BY <2>2, OneBounded
  <2>5. QED
    BY <2>1, <2>3, <2>4
<1>3. ASSUME NEW q, q \in Seq(Payloads) PROVE Queue(q)
  BY <1>1, <1>3, Widened
<1>4. Queue(taken[e]) /\ Queue(in[e]) /\ Queue(net[e]) /\ Queue(out[e])
  BY <1>2, <1>3
<1>5. Size(taken[e]) \in Nat /\ Size(in[e]) \in Nat /\ Size(net[e]) \in Nat /\ Size(out[e]) \in Nat
  BY <1>4, Lengths
<1>6. hand[e] \in Nat /\ sent[e] \in Nat
  <2>1. hand \in [Ends -> Payloads \cup {0}] /\ sent \in [Ends -> 0 .. MaxPayloads]
    BY DEF TypeOK
  <2>2. hand[e] \in Payloads \cup {0} /\ sent[e] \in 0 .. MaxPayloads
    BY <2>1
  <2>3. hand[e] \in Nat
    BY <2>2, StreamAssumption DEF Payloads
  <2>4. QED
    BY <2>2, <2>3, StreamAssumption
<1>7. Other(e) \in Ends
  BY OtherEnd DEF Ends
<1>8. Known(taken[e], in[e], reader[e]) \in Nat
  BY <1>5 DEF Known
<1>9. QED
  BY <1>2, <1>4, <1>5, <1>6, <1>7, <1>8

\* A direction that no payload moves in; its reader may end, or the stream.
LEMMA DirectionKept ==
  ASSUME TypeOK, NEW e \in Ends, InOrder(e), Over => Over',
         taken'[e] = taken[e], in'[e] = in[e], hand'[e] = hand[e], reader'[e] \in {reader[e], "ended"},
         net'[e] = net[e], out'[Other(e)] = out[Other(e)], sent'[Other(e)] = sent[Other(e)]
  PROVE  InOrder(e)'
<1>1. Chain(taken[e], in[e], hand[e], reader'[e], net[e], out[Other(e)], sent[Other(e)], Over')
  <2>1. /\ Size(taken[e]) \in Nat /\ Size(in[e]) \in Nat /\ Queue(net[e])
        /\ Size(out[Other(e)]) \in Nat /\ sent[Other(e)] \in Nat
    BY QueuesTyped
  <2>2. QED
    BY <2>1, ChainWeaker DEF InOrder
<1>2. QED
  BY <1>1 DEF InOrder

-----------------------------------------------------------------------------
(***************************************************************************)
(* The channels and the lines, one per end.                                *)
(***************************************************************************)
Box == BoundedSeq(Payloads, 1)

LEMMA SeqTail ==
  ASSUME NEW S, NEW q \in Seq(S), q # <<>>
  PROVE  Head(q) \in S /\ Tail(q) \in Seq(S) /\ Len(Tail(q)) = Len(q) - 1 /\ Len(q) \in Nat
  OBVIOUS

LEMMA SeqAppend ==
  ASSUME NEW S, NEW q \in Seq(S), NEW x \in S
  PROVE  Append(q, x) \in Seq(S) /\ Len(Append(q, x)) = Len(q) + 1 /\ Len(q) \in Nat
  OBVIOUS

LEMMA BoxPut ==
  ASSUME NEW ch \in [Ends -> Box], NEW e \in Ends, NEW x \in Payloads, Len(ch[e]) < 1
  PROVE  /\ Put(ch, e, x) \in [Ends -> Box]
         /\ Put(ch, e, x)[e] = Append(ch[e], x)
         /\ \A f \in Ends \ {e} : Put(ch, e, x)[f] = ch[f]
<1>1. ch[e] \in Seq(Payloads)
  BY OneBounded DEF Box
<1>2. Append(ch[e], x) \in Seq(Payloads) /\ Size(Append(ch[e], x)) <= 1
  BY <1>1, SeqAppend DEF Size
<1>3. Append(ch[e], x) \in Box
  BY <1>2, OneBounded DEF Box
<1>4. QED
  BY <1>3 DEF Put

LEMMA BoxTake ==
  ASSUME NEW ch \in [Ends -> Box], NEW e \in Ends, ch[e] # <<>>
  PROVE  /\ Take(ch, e) \in [Ends -> Box] /\ Head(ch[e]) \in Payloads
         /\ Take(ch, e)[e] = Tail(ch[e])
         /\ \A f \in Ends \ {e} : Take(ch, e)[f] = ch[f]
<1>1. ch[e] \in Seq(Payloads) /\ Size(ch[e]) <= 1
  BY OneBounded DEF Box
<1>2. Head(ch[e]) \in Payloads /\ Tail(ch[e]) \in Seq(Payloads) /\ Size(Tail(ch[e])) <= 1
  BY <1>1, SeqTail DEF Size
<1>3. Tail(ch[e]) \in Box
  BY <1>2, OneBounded DEF Box
<1>4. QED
  BY <1>2, <1>3 DEF Take

LEMMA LinePut ==
  ASSUME NEW ch \in [Ends -> Seq(Payloads)], NEW e \in Ends, NEW x \in Payloads
  PROVE  /\ Put(ch, e, x) \in [Ends -> Seq(Payloads)]
         /\ Put(ch, e, x)[e] = Append(ch[e], x)
         /\ \A f \in Ends \ {e} : Put(ch, e, x)[f] = ch[f]
<1>1. Append(ch[e], x) \in Seq(Payloads)
  <2>1. ch[e] \in Seq(Payloads)
    OBVIOUS
  <2>2. QED
    BY <2>1, SeqAppend
<1>2. QED
  BY <1>1 DEF Put

LEMMA LineTake ==
  ASSUME NEW ch \in [Ends -> Seq(Payloads)], NEW e \in Ends, ch[e] # <<>>
  PROVE  /\ Take(ch, e) \in [Ends -> Seq(Payloads)] /\ Head(ch[e]) \in Payloads
         /\ Take(ch, e)[e] = Tail(ch[e])
         /\ \A f \in Ends \ {e} : Take(ch, e)[f] = ch[f]
<1>1. Head(ch[e]) \in Payloads /\ Tail(ch[e]) \in Seq(Payloads)
  <2>1. ch[e] \in Seq(Payloads)
    OBVIOUS
  <2>2. QED
    BY <2>1, SeqTail
<1>2. QED
  BY <1>1 DEF Take

-----------------------------------------------------------------------------
(***************************************************************************)
(* The types are kept.                                                     *)
(***************************************************************************)
LEMMA HandFull ==
  ASSUME StreamInv, NEW e \in Ends, reader[e] = "put"
  PROVE  hand[e] \in Payloads
<1>1. hand[e] = Size(taken[e]) + Size(in[e]) + 1
  BY DEF StreamInv, InOrder, Chain
<1>2. Size(taken[e]) \in Nat /\ Size(in[e]) \in Nat
  BY QueuesTyped DEF StreamInv
<1>3. hand[e] \in Payloads \cup {0}
  BY DEF StreamInv, TypeOK
<1>4. hand[e] # 0
  BY <1>1, <1>2
<1>5. QED
  BY <1>3, <1>4

LEMMA TypeStep ==
  ASSUME StreamInv, [Next]_vars
  PROVE  TypeOK'
<1> USE DEF Box
<1>0. TypeOK /\ MaxPayloads \in Nat /\ MaxFaults \in Nat
  BY StreamAssumption DEF StreamInv
<1>m. "master" \in Ends /\ "worker" \in Ends
  BY DEF Ends
<1>1. ASSUME ServerSends PROVE TypeOK'
  <2>1. Take(out, "master") \in [Ends -> Box] /\ Head(out["master"]) \in Payloads
    BY <1>0, <1>1, <1>m, BoxTake DEF TypeOK, ServerSends
  <2>2. Put(net, "worker", Head(out["master"])) \in [Ends -> Seq(Payloads)]
    BY <1>0, <1>m, <2>1, LinePut DEF TypeOK
  <2>3. QED
    BY <1>0, <1>1, <2>1, <2>2 DEF TypeOK, ServerSends, ServerEnds, ownerVars, tellVars, connVars
<1>2. CASE ServerStops
  BY <1>0, <1>2 DEF TypeOK, ServerStops, ServerEnds, ownerVars, tellVars, connVars
<1>3. ASSUME NEW e \in Ends, Receives(e) PROVE TypeOK'
  <2>1. Take(net, e) \in [Ends -> Seq(Payloads)] /\ Head(net[e]) \in Payloads
    BY <1>0, <1>3, LineTake DEF TypeOK, Receives
  <2>2. QED
    BY <1>0, <1>3, <2>1 DEF TypeOK, Receives, ownerVars, tellVars, connVars
<1>4. ASSUME NEW e \in Ends, Disconnects(e) PROVE TypeOK'
  BY <1>0, <1>4 DEF TypeOK, Disconnects, HandleDisconnect, ownerVars, connVars
<1>5. ASSUME NEW e \in Ends, PassesOn(e) PROVE TypeOK'
  <2>1. hand[e] \in Payloads
    BY <1>5, HandFull DEF PassesOn
  <2>2. Put(in, e, hand[e]) \in [Ends -> Box]
    BY <1>0, <1>5, <2>1, BoxPut DEF TypeOK, PassesOn
  <2>3. QED
    BY <1>0, <1>5, <2>2 DEF TypeOK, PassesOn, ownerVars, tellVars, connVars
<1>6. ASSUME NEW e \in Ends, GivesUp(e) PROVE TypeOK'
  BY <1>0, <1>6 DEF TypeOK, GivesUp, ownerVars, tellVars, connVars
<1>7. ASSUME MasterRegisters PROVE TypeOK'
  <2>1. SetDisconnectCallback("master")
    BY <1>7 DEF MasterRegisters
  <2>2. cb' \in [Ends -> BOOLEAN]
    BY <1>0, <1>m, <2>1 DEF TypeOK, SetDisconnectCallback
  <2>3. told' \in [Ends -> BOOLEAN] /\ disc' = disc
    BY <1>0, <1>m, <2>1 DEF TypeOK, SetDisconnectCallback
  <2>4. QED
    BY <1>0, <1>7, <2>2, <2>3 DEF TypeOK, MasterRegisters, goVars, connVars
<1>8. ASSUME MasterSends PROVE TypeOK'
  <2>1. sent["master"] + 1 \in Payloads /\ sent' \in [Ends -> 0 .. MaxPayloads] /\ sent'["master"] = sent["master"] + 1
    BY <1>0, <1>8, <1>m DEF TypeOK, MasterSends, Payloads
  <2>2. Put(out, "master", sent'["master"]) \in [Ends -> Box]
    BY <1>0, <1>8, <1>m, <2>1, BoxPut DEF TypeOK, MasterSends
  <2>3. QED
    BY <1>0, <1>8, <2>1, <2>2 DEF TypeOK, MasterSends, goVars, tellVars, connVars
<1>9. CASE MasterCloses
  BY <1>0, <1>9 DEF TypeOK, MasterCloses, goVars, tellVars, connVars
<1>10. ASSUME WorkerGetsJob PROVE TypeOK'
  <2>1. Take(net, "worker") \in [Ends -> Seq(Payloads)] /\ Head(net["worker"]) \in Payloads
    BY <1>0, <1>10, <1>m, LineTake DEF TypeOK, WorkerGetsJob
  <2>2. Put(taken, "worker", Head(net["worker"])) \in [Ends -> Seq(Payloads)]
    BY <1>0, <1>m, <2>1, LinePut DEF TypeOK
  <2>3. QED
    BY <1>0, <1>10, <2>1, <2>2 DEF TypeOK, WorkerGetsJob, tellVars, connVars
<1>11. CASE WorkerGetsNoJob
  BY <1>0, <1>11 DEF TypeOK, WorkerGetsNoJob, tellVars, connVars
<1>12. ASSUME ClientSends PROVE TypeOK'
  <2>1. Take(out, "worker") \in [Ends -> Box] /\ Head(out["worker"]) \in Payloads
    BY <1>0, <1>12, <1>m, BoxTake DEF TypeOK, ClientSends
  <2>2. Put(net, "master", Head(out["worker"])) \in [Ends -> Seq(Payloads)]
    BY <1>0, <1>m, <2>1, LinePut DEF TypeOK
  <2>3. QED
    BY <1>0, <1>12, <2>1, <2>2 DEF TypeOK, ClientSends, goVars, ownerVars, tellVars, connVars
<1>13. ASSUME ClientSendFails PROVE TypeOK'
  <2>1. Take(out, "worker") \in [Ends -> Box]
    BY <1>0, <1>13, <1>m, BoxTake DEF TypeOK, ClientSendFails
  <2>2. faults' \in 0 .. MaxFaults
    BY <1>0, <1>13 DEF TypeOK, ClientSendFails
  <2>3. QED
    BY <1>0, <1>13, <2>1, <2>2 DEF TypeOK, ClientSendFails, ownerVars, tellVars
<1>14. CASE ClientErrorTold
  BY <1>0, <1>14 DEF TypeOK, ClientErrorTold, ownerVars, connVars
<1>15. CASE ClientStops
  BY <1>0, <1>15 DEF TypeOK, ClientStops, ownerVars, tellVars
<1>16. CASE WorkerRegisters
  BY <1>0, <1>16, <1>m DEF TypeOK, WorkerRegisters, SetDisconnectCallback, goVars, connVars
<1>17. ASSUME WorkerSends PROVE TypeOK'
  <2>1. sent["worker"] + 1 \in Payloads /\ sent' \in [Ends -> 0 .. MaxPayloads] /\ sent'["worker"] = sent["worker"] + 1
    BY <1>0, <1>17, <1>m DEF TypeOK, WorkerSends, Payloads
  <2>2. Put(out, "worker", sent'["worker"]) \in [Ends -> Box]
    BY <1>0, <1>17, <1>m, <2>1, BoxPut DEF TypeOK, WorkerSends
  <2>3. QED
    BY <1>0, <1>17, <2>1, <2>2 DEF TypeOK, WorkerSends, goVars, tellVars, connVars
<1>18. CASE WorkerCloses
  BY <1>0, <1>18 DEF TypeOK, WorkerCloses, tellVars, connVars
<1>19. ASSUME NEW e \in Ends, OwnerTakes(e) PROVE TypeOK'
  <2>1. Take(in, e) \in [Ends -> Box] /\ Head(in[e]) \in Payloads
    BY <1>0, <1>19, BoxTake DEF TypeOK, OwnerTakes
  <2>2. Put(taken, e, Head(in[e])) \in [Ends -> Seq(Payloads)]
    BY <1>0, <2>1, LinePut DEF TypeOK
  <2>3. QED
    BY <1>0, <1>19, <2>1, <2>2 DEF TypeOK, OwnerTakes, goVars, tellVars, connVars
<1>20. ASSUME Breaks PROVE TypeOK'
  <2>1. PICK i \in 0 .. Len(net["master"]), j \in 0 .. Len(net["worker"]) :
          net' = [master |-> SubSeq(net["master"], 1, i), worker |-> SubSeq(net["worker"], 1, j)]
    BY <1>20 DEF Breaks
  <2>2. net["master"] \in Seq(Payloads) /\ net["worker"] \in Seq(Payloads)
    BY <1>0, <1>m DEF TypeOK
  <2>3. SubSeq(net["master"], 1, i) \in Seq(Payloads)
    BY <2>2
  <2>4. SubSeq(net["worker"], 1, j) \in Seq(Payloads)
    BY <2>2
  <2>5. net' \in [Ends -> Seq(Payloads)]
    BY <2>1, <2>3, <2>4 DEF Ends
  <2>6. faults' \in 0 .. MaxFaults
    BY <1>0, <1>20 DEF TypeOK, Breaks
  <2>7. QED
    BY <1>0, <1>20, <2>5, <2>6 DEF TypeOK, Breaks, goVars, ownerVars, tellVars
<1>21. CASE UNCHANGED vars
  BY <1>0, <1>21 DEF TypeOK, vars, goVars, ownerVars, tellVars, connVars
<1>22. QED
  BY <1>1, <1>2, <1>3, <1>4, <1>5, <1>6, <1>7, <1>8, <1>9, <1>10, <1>11, <1>12, <1>13, <1>14, <1>15,
     <1>16, <1>17, <1>18, <1>19, <1>20, <1>21, <1>m
  DEF Next, ServerReader, ServerReadFails, ClientReader, ClientReadFails, Finished
-----------------------------------------------------------------------------
(***************************************************************************)
(* The directions are kept: the one that a payload moves in by the lemma   *)
(* on the operation, the other one by DirectionKept.                       *)
(***************************************************************************)
LEMMA MasterTransmits ==
  ASSUME StreamInv, ServerSends
  PROVE  InOrder("worker")'
<1>0. /\ "master" \in Ends /\ "worker" \in Ends /\ "worker" # "master" /\ TypeOK /\ InOrder("worker")
  BY DEF StreamInv, Ends
<1>1. /\ Queue(out["master"]) /\ Size(out["master"]) <= 1 /\ Queue(net["worker"]) /\ sent["master"] \in Nat
      /\ Known(taken["worker"], in["worker"], reader["worker"]) \in Nat
      /\ Size(taken["worker"]) \in Nat /\ Size(in["worker"]) \in Nat
  BY <1>0, QueuesTyped
<1>2. out["master"] # <<>> /\ out' = Take(out, "master") /\ UNCHANGED <<reader, hand, in, taken, sent, conn>>
  BY DEF ServerSends, ownerVars, connVars
<1>3. out'["master"] = Tail(out["master"])
  BY <1>0, <1>2, BoxTake DEF TypeOK, Box
<1>4. Chain(taken["worker"], in["worker"], hand["worker"], reader["worker"], net["worker"], out["master"], sent["master"], Over)
  BY <1>0, OtherEnd DEF InOrder
<1>5. CASE conn = "up"
  <2>1. net' = Put(net, "worker", Head(out["master"])) /\ UNCHANGED loop /\ ~Over
    BY <1>0, <1>5 DEF ServerSends, Over
  <2>2. net'["worker"] = Append(net["worker"], Head(out["master"]))
    <3>1. Head(out["master"]) \in Payloads
      BY <1>0, <1>2, BoxTake DEF TypeOK, Box
    <3>2. net \in [Ends -> Seq(Payloads)]
      BY <1>0 DEF TypeOK
    <3>3. QED
      BY <1>0, <2>1, <3>1, <3>2, LinePut
  <2>3. Chain(taken["worker"], in["worker"], hand["worker"], reader["worker"],
              Append(net["worker"], Head(out["master"])), Tail(out["master"]), sent["master"], Over)
    BY <1>1, <1>2, <1>4, <2>1, ChainTransmits
  <2>4. Over' = Over
    BY <1>2, <2>1 DEF Over
  <2>5. QED
    BY <1>2, <1>3, <2>2, <2>3, <2>4, OtherEnd DEF InOrder
<1>6. CASE conn = "broken"
  <2>1. net' = net /\ Over /\ Over'
    BY <1>2, <1>6 DEF ServerSends, Over
  <2>2. Chain(taken["worker"], in["worker"], hand["worker"], reader["worker"],
              net["worker"], Tail(out["master"]), sent["master"], Over)
    BY <1>1, <1>2, <1>4, <2>1, ChainTransmits
  <2>3. Chain(taken["worker"], in["worker"], hand["worker"], reader["worker"],
              net["worker"], Tail(out["master"]), sent["master"], Over')
    BY <2>1, <2>2 DEF Chain
  <2>4. QED
    BY <1>2, <1>3, <2>1, <2>3, OtherEnd DEF InOrder
<1>7. QED
  BY <1>5, <1>6 DEF ServerSends

LEMMA WorkerTransmits ==
  ASSUME StreamInv, ClientSends \/ ClientSendFails
  PROVE  InOrder("master")'
<1>0. /\ "master" \in Ends /\ "worker" \in Ends /\ "worker" # "master" /\ TypeOK /\ InOrder("master")
  BY DEF StreamInv, Ends
<1>1. /\ Queue(out["worker"]) /\ Size(out["worker"]) <= 1 /\ Queue(net["master"]) /\ sent["worker"] \in Nat
      /\ Known(taken["master"], in["master"], reader["master"]) \in Nat
      /\ Size(taken["master"]) \in Nat /\ Size(in["master"]) \in Nat /\ Size(out["worker"]) \in Nat
  BY <1>0, QueuesTyped
<1>2. out["worker"] # <<>> /\ out' = Take(out, "worker") /\ UNCHANGED <<reader, hand, in, taken, sent>>
  BY DEF ClientSends, ClientSendFails, ownerVars, goVars
<1>3. out'["worker"] = Tail(out["worker"])
  BY <1>0, <1>2, BoxTake DEF TypeOK, Box
<1>4. Chain(taken["master"], in["master"], hand["master"], reader["master"], net["master"], out["worker"], sent["worker"], Over)
  BY <1>0, OtherEnd DEF InOrder
<1>5. CASE ClientSends /\ ~Over
  <2>1. net' = Put(net, "master", Head(out["worker"])) /\ Over' = Over
    BY <1>5 DEF ClientSends, Over, goVars, connVars
  <2>2. net'["master"] = Append(net["master"], Head(out["worker"]))
    <3>1. Head(out["worker"]) \in Payloads
      BY <1>0, <1>2, BoxTake DEF TypeOK, Box
    <3>2. net \in [Ends -> Seq(Payloads)]
      BY <1>0 DEF TypeOK
    <3>3. QED
      BY <1>0, <2>1, <3>1, <3>2, LinePut
  <2>3. Chain(taken["master"], in["master"], hand["master"], reader["master"],
              Append(net["master"], Head(out["worker"])), Tail(out["worker"]), sent["worker"], Over)
    BY <1>1, <1>2, <1>4, <1>5, ChainTransmits
  <2>4. QED
    BY <1>2, <1>3, <2>1, <2>2, <2>3, OtherEnd DEF InOrder
<1>6. CASE (ClientSends /\ Over) \/ ClientSendFails
  <2>1. net' = net /\ Over'
    BY <1>6 DEF ClientSends, ClientSendFails, Over, goVars, connVars
  <2>2. Chain(taken["master"], in["master"], hand["master"], reader["master"],
              net["master"], out["worker"], sent["worker"], TRUE)
    BY <1>1, <1>4, ChainEnds
  <2>3. Chain(taken["master"], in["master"], hand["master"], reader["master"],
              net["master"], Tail(out["worker"]), sent["worker"], TRUE)
    BY <1>1, <1>2, <2>2, ChainTransmits
  <2>4. Chain(taken["master"], in["master"], hand["master"], reader["master"],
              net["master"], Tail(out["worker"]), sent["worker"], Over')
    BY <2>1, <2>3 DEF Chain
  <2>5. QED
    BY <1>2, <1>3, <2>1, <2>4, OtherEnd DEF InOrder
<1>7. QED
  BY <1>5, <1>6

LEMMA OwnerSends ==
  ASSUME StreamInv, NEW e \in Ends, NEW f \in Ends, f = Other(e), e = Other(f),
         (e = "master" /\ MasterSends) \/ (e = "worker" /\ WorkerSends)
  PROVE  InOrder(f)'
<1>0. TypeOK /\ InOrder(f)
  BY DEF StreamInv
<1>1. /\ sent[e] < MaxPayloads /\ Len(out[e]) < 1
      /\ sent' = [sent EXCEPT ![e] = @ + 1] /\ out' = Put(out, e, sent'[e])
      /\ UNCHANGED <<taken, in, hand, reader, net>> /\ Over' = Over
  BY DEF MasterSends, WorkerSends, Over, goVars, connVars
<1>2. /\ Queue(out[e]) /\ sent[e] \in Nat /\ Known(taken[f], in[f], reader[f]) \in Nat /\ Size(net[f]) \in Nat
  BY <1>0, QueuesTyped
<1>3. sent'[e] = sent[e] + 1 /\ sent[e] + 1 \in Payloads
  BY <1>0, <1>1, StreamAssumption DEF TypeOK, Payloads
<1>4. out'[e] = Append(out[e], sent[e] + 1)
  <2>1. out \in [Ends -> Box]
    BY <1>0 DEF TypeOK, Box
  <2>2. QED
    BY <1>1, <1>3, <2>1, BoxPut
<1>5. Chain(taken[f], in[f], hand[f], reader[f], net[f], out[e], sent[e], Over)
  BY <1>0 DEF InOrder
<1>6. Size(out[e]) < 1
  BY <1>1 DEF Size
<1>7. Chain(taken[f], in[f], hand[f], reader[f], net[f], Append(out[e], sent[e] + 1), sent[e] + 1, Over)
  BY <1>2, <1>5, <1>6, ChainSends
<1>8. QED
  BY <1>1, <1>3, <1>4, <1>7 DEF InOrder

\* The reader and the owner of an end, and waitForJob.
LEMMA EndReads ==
  ASSUME StreamInv, NEW e \in Ends,
         \/ Receives(e) \/ PassesOn(e) \/ OwnerTakes(e)
         \/ e = "worker" /\ WorkerGetsJob
  PROVE  InOrder(e)'
<1>0. TypeOK /\ InOrder(e) /\ Other(e) \in Ends
  BY QueuesTyped DEF StreamInv
<1>1. /\ Queue(taken[e]) /\ Queue(in[e]) /\ Queue(net[e])
      /\ Size(taken[e]) \in Nat /\ Size(in[e]) \in Nat /\ Size(net[e]) \in Nat
      /\ hand[e] \in Nat /\ Size(out[Other(e)]) \in Nat /\ sent[Other(e)] \in Nat
  BY <1>0, QueuesTyped
<1>2. Chain(taken[e], in[e], hand[e], reader[e], net[e], out[Other(e)], sent[Other(e)], Over)
  BY <1>0 DEF InOrder
<1>3. /\ in \in [Ends -> Box] /\ net \in [Ends -> Seq(Payloads)] /\ taken \in [Ends -> Seq(Payloads)]
      /\ hand \in [Ends -> Payloads \cup {0}] /\ reader \in [Ends -> {"off", "recv", "put", "ended"}]
  BY <1>0 DEF TypeOK, Box
<1>4. ASSUME Receives(e) PROVE InOrder(e)'
  <2>1. /\ net[e] # <<>> /\ net' = Take(net, e) /\ hand'[e] = Head(net[e]) /\ reader'[e] = "put" /\ reader[e] = "recv"
        /\ UNCHANGED <<taken, in, out, sent>> /\ Over' = Over
    BY <1>3, <1>4 DEF Receives, Over, ownerVars, connVars
  <2>2. net'[e] = Tail(net[e])
    BY <1>3, <2>1, LineTake
  <2>3. Chain(taken[e], in[e], Head(net[e]), "put", Tail(net[e]), out[Other(e)], sent[Other(e)], Over)
    BY <1>1, <1>2, <2>1, ChainReceives
  <2>4. QED
    BY <2>1, <2>2, <2>3 DEF InOrder
<1>5. ASSUME PassesOn(e) PROVE InOrder(e)'
  <2>1. /\ reader[e] = "put" /\ Len(in[e]) < 1 /\ in' = Put(in, e, hand[e]) /\ reader'[e] = "recv"
        /\ UNCHANGED <<taken, hand, net, out, sent>> /\ Over' = Over
    BY <1>3, <1>5 DEF PassesOn, Over, ownerVars, connVars
  <2>2. hand[e] \in Payloads
    BY <2>1, HandFull
  <2>3. in'[e] = Append(in[e], hand[e])
    BY <1>3, <2>1, <2>2, BoxPut
  <2>4. Size(in[e]) < 1
    BY <2>1 DEF Size
  <2>5. Chain(taken[e], Append(in[e], hand[e]), hand[e], "recv", net[e], out[Other(e)], sent[Other(e)], Over)
    BY <1>1, <1>2, <2>1, <2>4, ChainPasses
  <2>6. QED
    BY <2>1, <2>3, <2>5 DEF InOrder
<1>6. ASSUME OwnerTakes(e) PROVE InOrder(e)'
  <2>1. /\ in[e] # <<>> /\ taken' = Put(taken, e, Head(in[e])) /\ in' = Take(in, e)
        /\ UNCHANGED <<hand, reader, net, out, sent>> /\ Over' = Over
    BY <1>6 DEF OwnerTakes, Over, goVars, connVars
  <2>2. in'[e] = Tail(in[e]) /\ Head(in[e]) \in Payloads
    BY <1>3, <2>1, BoxTake
  <2>3. taken'[e] = Append(taken[e], Head(in[e]))
    BY <1>3, <2>1, <2>2, LinePut
  <2>4. Chain(Append(taken[e], Head(in[e])), Tail(in[e]), hand[e], reader[e], net[e], out[Other(e)], sent[Other(e)], Over)
    BY <1>1, <1>2, <2>1, ChainTakes
  <2>5. QED
    BY <2>1, <2>2, <2>3, <2>4 DEF InOrder
<1>7. ASSUME e = "worker", WorkerGetsJob PROVE InOrder(e)'
  <2>1. /\ net[e] # <<>> /\ net' = Take(net, e) /\ taken' = Put(taken, e, Head(net[e])) /\ reader'[e] = "recv"
        /\ loop[e] = "off" /\ UNCHANGED <<hand, in, out, sent>>
    BY <1>3, <1>7 DEF WorkerGetsJob
  <2>2. Over' = Over
    BY <1>0, <1>7 DEF WorkerGetsJob, Over, connVars, TypeOK, Ends
  <2>3. net'[e] = Tail(net[e]) /\ Head(net[e]) \in Payloads
    BY <1>3, <2>1, LineTake
  <2>4. taken'[e] = Append(taken[e], Head(net[e]))
    BY <1>3, <2>1, <2>3, LinePut
  <2>5. reader[e] = "off"
    BY <1>7, <2>1 DEF StreamInv, ToldBooks
  <2>6. Chain(Append(taken[e], Head(net[e])), in[e], hand[e], "recv", Tail(net[e]), out[Other(e)], sent[Other(e)], Over)
    BY <1>1, <1>2, <2>1, <2>5, ChainStarts
  <2>7. QED
    BY <2>1, <2>2, <2>3, <2>4, <2>6 DEF InOrder
<1>8. QED
  BY <1>4, <1>5, <1>6, <1>7

LEMMA LineBreaks ==
  ASSUME StreamInv, Breaks, NEW e \in Ends
  PROVE  InOrder(e)'
<1>0. TypeOK /\ InOrder(e) /\ Other(e) \in Ends
  BY QueuesTyped DEF StreamInv
<1>1. /\ Queue(net[e]) /\ Size(taken[e]) \in Nat /\ Size(in[e]) \in Nat
      /\ Size(out[Other(e)]) \in Nat /\ sent[Other(e)] \in Nat
  BY <1>0, QueuesTyped
<1>2. PICK j \in 0 .. Size(net[e]) : net'[e] = SubSeq(net[e], 1, j)
  <2>1. PICK k \in 0 .. Len(net["master"]), l \in 0 .. Len(net["worker"]) :
          net' = [master |-> SubSeq(net["master"], 1, k), worker |-> SubSeq(net["worker"], 1, l)]
    BY DEF Breaks
  <2>2. CASE e = "master"
    BY <2>1, <2>2 DEF Size
  <2>3. CASE e = "worker"
    BY <2>1, <2>3 DEF Size
  <2>4. QED
    BY <2>2, <2>3 DEF Ends
<1>3. Chain(taken[e], in[e], hand[e], reader[e], net[e], out[Other(e)], sent[Other(e)], Over)
  BY <1>0 DEF InOrder
<1>4. Chain(taken[e], in[e], hand[e], reader[e], SubSeq(net[e], 1, j), out[Other(e)], sent[Other(e)], TRUE)
  BY <1>1, <1>3, ChainEnds
<1>5. Over' /\ UNCHANGED <<taken, in, hand, reader, out, sent>>
  BY DEF Breaks, Over, goVars, ownerVars
<1>6. Chain(taken[e], in[e], hand[e], reader[e], SubSeq(net[e], 1, j), out[Other(e)], sent[Other(e)], Over')
  BY <1>4, <1>5 DEF Chain
<1>7. QED
  BY <1>2, <1>5, <1>6 DEF InOrder

\* Where no payload moves, DirectionKept is enough.
LEMMA OrderStep ==
  ASSUME StreamInv, [Next]_vars, NEW e \in Ends
  PROVE  InOrder(e)'
<1>0. /\ TypeOK /\ InOrder(e) /\ "master" \in Ends /\ "worker" \in Ends /\ e \in {"master", "worker"}
      /\ Other("master") = "worker" /\ Other("worker") = "master" /\ Other(e) \in Ends /\ Other(e) # e
  BY OtherEnd DEF StreamInv, Ends
<1>t. /\ in \in [Ends -> Box] /\ out \in [Ends -> Box] /\ net \in [Ends -> Seq(Payloads)] /\ taken \in [Ends -> Seq(Payloads)]
      /\ hand \in [Ends -> Payloads \cup {0}] /\ reader \in [Ends -> {"off", "recv", "put", "ended"}]
      /\ sent \in [Ends -> 0 .. MaxPayloads] /\ loop \in [Ends -> {"off", "select", "failed", "ended"}]
  BY <1>0 DEF TypeOK, Box
<1>1. ASSUME ServerSends PROVE InOrder(e)'
  <2>1. CASE e = "worker"
    BY <1>1, <2>1, MasterTransmits
  <2>2. CASE e = "master"
    <3>1. /\ out'["worker"] = out["worker"]
          /\ net'["master"] = net["master"]
      <4>1. out["master"] # <<>> /\ out' = Take(out, "master")
        BY <1>1 DEF ServerSends
      <4>2. Head(out["master"]) \in Payloads /\ out'["worker"] = out["worker"]
        BY <1>0, <1>t, <4>1, BoxTake
      <4>3. net' = net \/ net' = Put(net, "worker", Head(out["master"]))
        BY <1>1 DEF ServerSends
      <4>4. QED
        BY <1>0, <1>t, <4>2, <4>3 DEF Put
    <3>2. UNCHANGED <<taken, in, hand, reader, sent>> /\ (Over => Over')
      BY <1>1, <1>t DEF ServerSends, ServerEnds, Over, ownerVars, connVars
    <3>3. QED
      BY <1>0, <2>2, <3>1, <3>2, DirectionKept
  <2>3. QED
    BY <1>0, <2>1, <2>2
<1>2. ASSUME ServerStops PROVE InOrder(e)'
  <2>1. UNCHANGED <<taken, in, hand, reader, net, out, sent>> /\ (Over => Over')
    BY <1>2, <1>t DEF ServerStops, ServerEnds, Over, ownerVars, connVars
  <2>2. QED
    BY <1>0, <2>1, DirectionKept
<1>3. ASSUME NEW f \in Ends, Receives(f) \/ PassesOn(f) \/ OwnerTakes(f) PROVE InOrder(e)'
  <2>1. CASE e = f
    BY <1>3, <2>1, EndReads
  <2>2. CASE e # f
    <3>1. UNCHANGED <<out, sent>> /\ Over' = Over
      BY <1>3 DEF Receives, PassesOn, OwnerTakes, Over, ownerVars, goVars, connVars
    <3>2. taken'[e] = taken[e] /\ in'[e] = in[e] /\ hand'[e] = hand[e] /\ reader'[e] = reader[e] /\ net'[e] = net[e]
      BY <1>3, <1>t, <2>2 DEF Receives, PassesOn, OwnerTakes, Put, Take, ownerVars, goVars, connVars
    <3>3. QED
      BY <1>0, <3>1, <3>2, DirectionKept
  <2>3. QED
    BY <2>1, <2>2
<1>4. ASSUME NEW f \in Ends, Disconnects(f) \/ GivesUp(f) PROVE InOrder(e)'
  <2>1. /\ UNCHANGED <<taken, in, hand, net, out, sent>> /\ Over' = Over
        /\ reader'[e] \in {reader[e], "ended"}
    BY <1>4, <1>t DEF Disconnects, GivesUp, Over, ownerVars, connVars
  <2>2. QED
    BY <1>0, <2>1, DirectionKept
<1>5. ASSUME MasterRegisters \/ MasterCloses \/ WorkerRegisters \/ WorkerCloses PROVE InOrder(e)'
  <2>1. UNCHANGED <<taken, in, hand, reader, net, out, sent>> /\ Over' = Over
    BY <1>5 DEF MasterRegisters, MasterCloses, WorkerRegisters, WorkerCloses, Over, goVars, connVars
  <2>2. QED
    BY <1>0, <2>1, DirectionKept
<1>6. ASSUME MasterSends \/ WorkerSends PROVE InOrder(e)'
  <2>1. PICK f \in Ends : (f = "master" /\ MasterSends) \/ (f = "worker" /\ WorkerSends)
    BY <1>0, <1>6
  <2>2. CASE e = Other(f)
    BY <1>0, <2>1, <2>2, OwnerSends
  <2>3. CASE e = f
    <3>1. UNCHANGED <<taken, in, hand, reader, net>> /\ Over' = Over
      BY <2>1 DEF MasterSends, WorkerSends, Over, goVars, connVars
    <3>2. out'[Other(e)] = out[Other(e)] /\ sent'[Other(e)] = sent[Other(e)]
      BY <1>0, <1>t, <2>1, <2>3 DEF MasterSends, WorkerSends, Put
    <3>3. QED
      BY <1>0, <3>1, <3>2, DirectionKept
  <2>4. QED
    BY <1>0, <2>2, <2>3 DEF Ends
<1>7. ASSUME WorkerGetsJob PROVE InOrder(e)'
  <2>1. CASE e = "worker"
    BY <1>7, <2>1, EndReads
  <2>2. CASE e = "master"
    <3>1. UNCHANGED <<hand, in, out, sent>> /\ Over' = Over
      BY <1>t, <1>7, <1>0 DEF WorkerGetsJob, Over, connVars
    <3>2. taken'[e] = taken[e] /\ reader'[e] = reader[e] /\ net'[e] = net[e]
      BY <1>t, <1>7, <1>0, <2>2 DEF WorkerGetsJob, Put, Take
    <3>3. QED
      BY <1>0, <3>1, <3>2, DirectionKept
  <2>3. QED
    BY <1>0, <2>1, <2>2
<1>8. ASSUME WorkerGetsNoJob \/ ClientErrorTold \/ ClientStops PROVE InOrder(e)'
  <2>1. /\ UNCHANGED <<taken, in, hand, net, out, sent>> /\ (Over => Over')
        /\ reader'[e] \in {reader[e], "ended"}
    BY <1>0, <1>8, <1>t DEF WorkerGetsNoJob, ClientErrorTold, ClientStops, Over, ownerVars, connVars
  <2>2. QED
    BY <1>0, <2>1, DirectionKept
<1>9. ASSUME ClientSends \/ ClientSendFails PROVE InOrder(e)'
  <2>1. CASE e = "master"
    BY <1>9, <2>1, WorkerTransmits
  <2>2. CASE e = "worker"
    <3>1. out'["master"] = out["master"] /\ net'["worker"] = net["worker"]
      <4>1. out["worker"] # <<>> /\ out' = Take(out, "worker")
        BY <1>9 DEF ClientSends, ClientSendFails
      <4>2. Head(out["worker"]) \in Payloads /\ out'["master"] = out["master"]
        BY <1>0, <1>t, <4>1, BoxTake
      <4>3. net' = net \/ net' = Put(net, "master", Head(out["worker"]))
        BY <1>9 DEF ClientSends, ClientSendFails
      <4>4. QED
        BY <1>0, <1>t, <4>2, <4>3 DEF Put
    <3>2. UNCHANGED <<taken, in, hand, reader, sent>> /\ (Over => Over')
      BY <1>9 DEF ClientSends, ClientSendFails, Over, ownerVars, goVars, connVars
    <3>3. QED
      BY <1>0, <2>2, <3>1, <3>2, DirectionKept
  <2>3. QED
    BY <1>0, <2>1, <2>2
<1>10. CASE Breaks
  BY <1>10, LineBreaks
<1>11. ASSUME UNCHANGED vars PROVE InOrder(e)'
  <2>1. UNCHANGED <<taken, in, hand, reader, net, out, sent>> /\ Over' = Over
    BY <1>11 DEF vars, goVars, ownerVars, connVars, Over
  <2>2. QED
    BY <1>0, <2>1, DirectionKept
<1>12. QED
  BY <1>0, <1>1, <1>2, <1>3, <1>4, <1>5, <1>6, <1>7, <1>8, <1>9, <1>10, <1>11
  DEF Next, ServerReader, ServerReadFails, ClientReader, ClientReadFails, Finished

-----------------------------------------------------------------------------
(***************************************************************************)
(* The books on disconnects are kept.                                      *)
(***************************************************************************)

\* A reader that gave up holds a payload that nobody will get.
LEMMA HandLost ==
  ASSUME StreamInv, reader["master"] = "put"
  PROVE  hand["master"] > Size(taken["master"]) + Size(in["master"])
<1>0. "master" \in Ends
  BY DEF Ends
<1>1. hand["master"] = Size(taken["master"]) + Size(in["master"]) + 1
  BY <1>0 DEF StreamInv, InOrder, Chain
<1>2. Size(taken["master"]) \in Nat /\ Size(in["master"]) \in Nat
  BY <1>0, QueuesTyped DEF StreamInv
<1>3. QED
  BY <1>1, <1>2

\* The part of the books on the master's reader, where it alone moves payloads.
GaveUp ==
  reader["master"] = "ended" =>
    disc["master"] \/ hand["master"] > Size(taken["master"]) + Size(in["master"])

\* Taking a payload moves it from recvMsgCh to the owner.
LEMMA TakingKeepsTheSum ==
  ASSUME StreamInv, OwnerTakes("master")
  PROVE  Size(taken'["master"]) + Size(in'["master"]) = Size(taken["master"]) + Size(in["master"])
<1>0. "master" \in Ends /\ TypeOK
  BY DEF StreamInv, Ends
<1>1. taken["master"] \in Seq(Payloads) /\ in["master"] \in Seq(Payloads) /\ in["master"] # <<>>
  <2>1. in["master"] \in BoundedSeq(Payloads, 1) /\ taken["master"] \in Seq(Payloads)
    BY <1>0 DEF TypeOK
  <2>2. in["master"] \in Seq(Payloads)
    BY <2>1, OneBounded
  <2>3. QED
    BY <2>1, <2>2 DEF OwnerTakes
<1>2. /\ Head(in["master"]) \in Payloads
      /\ Len(Tail(in["master"])) = Len(in["master"]) - 1 /\ Len(in["master"]) \in Nat
  BY <1>1, SeqTail
<1>3. /\ Len(Append(taken["master"], Head(in["master"]))) = Len(taken["master"]) + 1
      /\ Len(taken["master"]) \in Nat
  BY <1>1, <1>2, SeqAppend
<1>4. taken'["master"] = Append(taken["master"], Head(in["master"])) /\ in'["master"] = Tail(in["master"])
  BY <1>0 DEF OwnerTakes, Put, Take, TypeOK
<1>5. Size(taken'["master"]) = Size(taken["master"]) + 1 /\ Size(taken["master"]) \in Nat
  BY <1>3, <1>4 DEF Size
<1>6. Size(in'["master"]) = Size(in["master"]) - 1 /\ Size(in["master"]) \in Nat
  BY <1>2, <1>4 DEF Size
<1>7. QED
  BY <1>5, <1>6

LEMMA GaveUpStep ==
  ASSUME StreamInv, [Next]_vars
  PROVE  GaveUp'
<1>0. /\ TypeOK /\ GaveUp /\ "master" \in Ends /\ "worker" \in Ends
  BY DEF StreamInv, ToldBooks, GaveUp, Ends
<1>t. /\ in \in [Ends -> Box] /\ taken \in [Ends -> Seq(Payloads)] /\ disc \in [Ends -> BOOLEAN]
      /\ hand \in [Ends -> Payloads \cup {0}] /\ reader \in [Ends -> {"off", "recv", "put", "ended"}]
  BY <1>0 DEF TypeOK, Box
<1>1. ASSUME /\ taken'["master"] = taken["master"] /\ in'["master"] = in["master"] /\ hand'["master"] = hand["master"]
             /\ reader'["master"] = reader["master"] \/ reader'["master"] # "ended"
             /\ disc["master"] => disc'["master"]
      PROVE  GaveUp'
  BY <1>0, <1>1 DEF GaveUp
<1>2. ASSUME Receives("master") \/ PassesOn("master") PROVE GaveUp'
  BY <1>t, <1>0, <1>2 DEF GaveUp, Receives, PassesOn
<1>3. ASSUME NEW f \in Ends, f # "master", Receives(f) \/ PassesOn(f) \/ OwnerTakes(f) \/ Disconnects(f) \/ GivesUp(f)
      PROVE  GaveUp'
  <2>1. /\ taken'["master"] = taken["master"] /\ in'["master"] = in["master"] /\ hand'["master"] = hand["master"]
        /\ reader'["master"] = reader["master"] /\ (disc["master"] => disc'["master"])
    BY <1>t, <1>0, <1>3
    DEF Receives, PassesOn, OwnerTakes, Disconnects, GivesUp, HandleDisconnect, Put, Take, ownerVars, goVars, tellVars
  <2>2. QED
    BY <1>1, <2>1
<1>4. ASSUME OwnerTakes("master") PROVE GaveUp'
  <2>1. UNCHANGED <<hand, reader, disc>>
    BY <1>4 DEF OwnerTakes, goVars, tellVars
  <2>2. QED
    BY <1>0, <1>4, <2>1, TakingKeepsTheSum DEF GaveUp
<1>5. ASSUME Disconnects("master") PROVE GaveUp'
  BY <1>t, <1>0, <1>5 DEF GaveUp, Disconnects, HandleDisconnect
<1>6. ASSUME GivesUp("master") PROVE GaveUp'
  <2>1. hand["master"] > Size(taken["master"]) + Size(in["master"])
    BY <1>6, HandLost DEF GivesUp
  <2>2. UNCHANGED <<hand, taken, in>>
    BY <1>6 DEF GivesUp, ownerVars
  <2>3. QED
    BY <2>1, <2>2 DEF GaveUp
<1>7. ASSUME \/ ServerSends \/ ServerStops \/ MasterRegisters \/ MasterSends \/ MasterCloses
             \/ ClientSends \/ ClientSendFails \/ ClientErrorTold \/ ClientStops
             \/ WorkerRegisters \/ WorkerSends \/ WorkerCloses \/ Breaks \/ UNCHANGED vars
      PROVE  GaveUp'
  <2>1. UNCHANGED <<taken, in, hand, reader>> /\ (disc["master"] => disc'["master"])
    BY <1>7 DEF ServerSends, ServerStops, MasterRegisters, MasterSends, MasterCloses, ClientSends, ClientSendFails,
      ClientErrorTold, ClientStops, WorkerRegisters, WorkerSends, WorkerCloses, Breaks, SetDisconnectCallback,
      vars, ownerVars, goVars, tellVars
  <2>2. QED
    BY <1>1, <2>1
<1>8. ASSUME WorkerGetsJob \/ WorkerGetsNoJob PROVE GaveUp'
  <2>1. /\ taken'["master"] = taken["master"] /\ reader'["master"] = reader["master"]
        /\ UNCHANGED <<in, hand, disc>>
    BY <1>t, <1>0, <1>8 DEF WorkerGetsJob, WorkerGetsNoJob, Put, tellVars
  <2>2. QED
    BY <1>1, <2>1
<1>9. QED
  BY <1>0, <1>2, <1>3, <1>4, <1>5, <1>6, <1>7, <1>8
  DEF Next, ServerReader, ServerReadFails, ClientReader, ClientReadFails, Finished

LEMMA ToldStep ==
  ASSUME StreamInv, [Next]_vars
  PROVE  ToldBooks'
<1>0. /\ TypeOK /\ ToldBooks /\ "master" \in Ends /\ "worker" \in Ends /\ Ends = {"master", "worker"}
  BY DEF StreamInv, Ends
<1>g. GaveUp'
  BY GaveUpStep
<1>t. /\ reader \in [Ends -> {"off", "recv", "put", "ended"}] /\ loop \in [Ends -> {"off", "select", "failed", "ended"}]
      /\ disc \in [Ends -> BOOLEAN] /\ closed \in [Ends -> BOOLEAN] /\ ctx \in [Ends -> {"live", "done"}]
      /\ cb \in [Ends -> BOOLEAN] /\ told \in [Ends -> BOOLEAN]
  BY <1>0 DEF TypeOK
<1> DEFINE Started == /\ loop["master"] \in {"select", "ended"} /\ reader["master"] # "off"
                      /\ loop["worker"] = "off" <=> reader["worker"] = "off"
           Registered == \A e \in Ends : disc[e] /\ cb[e] => told[e]
           Ended == reader["worker"] = "ended" => disc["worker"] \/ ctx["worker"] = "done" \/ closed["worker"]
           Cancelled == ctx["worker"] = "done" =>
                          closed["worker"] \/ disc["worker"] \/ loop["worker"] = "failed" \/ told["worker"]
<1>b. Started /\ Registered /\ Ended /\ Cancelled
  BY <1>0 DEF ToldBooks
<1>1. CASE ServerSends \/ ServerStops
  <2>1. UNCHANGED <<reader, disc, cb, told, closed>> /\ loop'["worker"] = loop["worker"] /\ ctx'["worker"] = ctx["worker"]
        /\ loop'["master"] \in {loop["master"], "ended"}
    BY <1>0, <1>t, <1>1 DEF ServerSends, ServerStops, ServerEnds, ownerVars, tellVars
  <2>2. QED
    BY <1>g, <1>b, <2>1 DEF ToldBooks, GaveUp
<1>2. ASSUME NEW f \in Ends, Receives(f) \/ PassesOn(f) \/ GivesUp(f) PROVE ToldBooks'
  <2>1. UNCHANGED <<loop, disc, cb, told, closed, ctx>>
    BY <1>2 DEF Receives, PassesOn, GivesUp, ownerVars, tellVars
  <2>2. Started'
    BY <1>0, <1>t, <1>b, <1>2, <2>1 DEF Receives, PassesOn, GivesUp
  <2>3. Ended'
    BY <1>0, <1>t, <1>b, <1>2, <2>1 DEF Receives, PassesOn, GivesUp
  <2>4. QED
    BY <1>g, <1>b, <2>1, <2>2, <2>3 DEF ToldBooks, GaveUp
<1>3. ASSUME NEW f \in Ends, Disconnects(f) PROVE ToldBooks'
  <2>1. /\ UNCHANGED <<loop, cb, closed>> /\ reader[f] = "recv" /\ reader' = [reader EXCEPT ![f] = "ended"]
        /\ ctx' = [ctx EXCEPT ![f] = "done"] /\ disc' = [disc EXCEPT ![f] = TRUE]
        /\ told' = [told EXCEPT ![f] = @ \/ cb[f]]
    BY <1>3 DEF Disconnects, HandleDisconnect, ownerVars
  <2>2. Started'
    BY <1>0, <1>t, <1>b, <2>1
  <2>3. Registered'
    <3>1. ASSUME NEW e \in Ends, disc'[e], cb'[e] PROVE told'[e]
      BY <1>t, <1>b, <2>1, <3>1
    <3>2. QED
      BY <3>1
  <2>4. Ended' /\ Cancelled'
    BY <1>0, <1>t, <1>b, <2>1
  <2>5. QED
    BY <1>g, <2>2, <2>3, <2>4 DEF ToldBooks, GaveUp
<1>4. CASE MasterRegisters \/ WorkerRegisters
  <2>1. PICK f \in Ends : SetDisconnectCallback(f)
    BY <1>0, <1>4 DEF MasterRegisters, WorkerRegisters
  <2>2. UNCHANGED <<loop, reader, ctx, closed, disc>>
    BY <1>4, <2>1 DEF MasterRegisters, WorkerRegisters, SetDisconnectCallback, goVars
  <2>3. Registered'
    <3>1. ASSUME NEW e \in Ends, disc'[e], cb'[e] PROVE told'[e]
      BY <1>t, <1>b, <2>1, <2>2, <3>1 DEF SetDisconnectCallback
    <3>2. QED
      BY <3>1
  <2>4. Cancelled'
    BY <1>0, <1>t, <1>b, <2>1, <2>2 DEF SetDisconnectCallback
  <2>5. QED
    BY <1>g, <1>b, <2>2, <2>3, <2>4 DEF ToldBooks, GaveUp
<1>5. ASSUME MasterSends \/ WorkerSends \/ ClientSends \/ Breaks \/ UNCHANGED vars \/ \E e \in Ends : OwnerTakes(e)
      PROVE  ToldBooks'
  <2>1. UNCHANGED <<loop, reader, ctx, closed, disc, cb, told>>
    BY <1>5 DEF MasterSends, WorkerSends, ClientSends, Breaks, OwnerTakes, vars, goVars, ownerVars, tellVars
  <2>2. QED
    BY <1>g, <1>b, <2>1 DEF ToldBooks, GaveUp
<1>6. CASE MasterCloses \/ WorkerCloses
  <2>1. /\ UNCHANGED <<loop, reader, disc, cb, told>>
        /\ \/ closed' = [closed EXCEPT !["master"] = TRUE] /\ ctx' = ctx
           \/ closed' = [closed EXCEPT !["worker"] = TRUE]
    BY <1>6 DEF MasterCloses, WorkerCloses, goVars, tellVars
  <2>2. Ended' /\ Cancelled'
    BY <1>0, <1>t, <1>b, <2>1
  <2>3. QED
    BY <1>g, <1>b, <2>1, <2>2 DEF ToldBooks, GaveUp
<1>7. CASE WorkerGetsJob \/ WorkerGetsNoJob
  <2>1. /\ UNCHANGED <<disc, cb, told, ctx>> /\ loop'["master"] = loop["master"] /\ reader'["master"] = reader["master"]
        /\ \/ loop'["worker"] = "select" /\ reader'["worker"] = "recv" /\ closed' = closed
           \/ loop'["worker"] = "ended" /\ reader'["worker"] = "ended" /\ closed'["worker"]
        /\ loop["worker"] = "off" /\ (closed["worker"] => closed'["worker"])
    BY <1>0, <1>t, <1>7 DEF WorkerGetsJob, WorkerGetsNoJob, tellVars
  <2>2. Started' /\ Ended' /\ Cancelled'
    BY <1>b, <2>1
  <2>3. QED
    BY <1>g, <1>b, <2>1, <2>2 DEF ToldBooks, GaveUp
<1>8. CASE ClientSendFails \/ ClientErrorTold \/ ClientStops
  <2>1. /\ UNCHANGED <<disc, cb, reader, closed>> /\ loop'["master"] = loop["master"]
        /\ \/ loop'["worker"] = "failed" /\ told' = told
           \/ loop'["worker"] = "ended" /\ told' = [told EXCEPT !["worker"] = TRUE] /\ ctx' = ctx
           \/ loop'["worker"] = "ended" /\ UNCHANGED <<told, ctx>> /\ loop["worker"] = "select"
        /\ loop["worker"] # "off" /\ (ctx["worker"] = "done" => ctx'["worker"] = "done")
    BY <1>0, <1>t, <1>8 DEF ClientSendFails, ClientErrorTold, ClientStops, ownerVars, tellVars
  <2>2. Registered'
    BY <1>t, <1>b, <2>1
  <2>3. Started' /\ Ended' /\ Cancelled'
    BY <1>0, <1>t, <1>b, <2>1
  <2>4. QED
    BY <1>g, <2>2, <2>3 DEF ToldBooks, GaveUp
<1>9. QED
  BY <1>0, <1>1, <1>2, <1>3, <1>4, <1>5, <1>6, <1>7, <1>8
  DEF Next, ServerReader, ServerReadFails, ClientReader, ClientReadFails, Finished

-----------------------------------------------------------------------------
LEMMA StreamStarts == Init => StreamInv
<1> SUFFICES ASSUME Init PROVE StreamInv
  OBVIOUS
<1>0. MaxPayloads \in Nat /\ MaxFaults \in Nat /\ "master" \in Ends /\ "worker" \in Ends
  BY StreamAssumption DEF Ends
<1>1. TypeOK
  <2>1. <<>> \in Seq(Payloads) /\ Size(<<>>) <= 1
    BY Nothing
  <2>2. <<>> \in BoundedSeq(Payloads, 1)
    BY <2>1, OneBounded
  <2>3. out \in [Ends -> Box] /\ in \in [Ends -> Box]
    BY <2>2 DEF Init, Box
  <2>4. net \in [Ends -> Seq(Payloads)] /\ taken \in [Ends -> Seq(Payloads)]
    BY <2>1 DEF Init
  <2>5. loop \in [Ends -> {"off", "select", "failed", "ended"}] /\ reader \in [Ends -> {"off", "recv", "put", "ended"}]
    BY DEF Init, Ends
  <2>6. /\ hand \in [Ends -> Payloads \cup {0}] /\ ctx \in [Ends -> {"live", "done"}]
        /\ closed \in [Ends -> BOOLEAN] /\ disc \in [Ends -> BOOLEAN] /\ told \in [Ends -> BOOLEAN]
    BY DEF Init
  <2>7. cb \in [Ends -> BOOLEAN]
    BY <1>0 DEF Init
  <2>8. sent \in [Ends -> 0 .. MaxPayloads] /\ faults \in 0 .. MaxFaults
    BY <1>0 DEF Init
  <2>9. conn \in {"up", "broken"} /\ half \in BOOLEAN
    BY DEF Init
  <2>10. QED
    BY <2>3, <2>4, <2>5, <2>6, <2>7, <2>8, <2>9 DEF TypeOK, Box
<1>2. ASSUME NEW e \in Ends PROVE InOrder(e)
  <2>1. Other(e) \in Ends
    BY <1>1, QueuesTyped
  <2>2. taken[e] = <<>> /\ in[e] = <<>> /\ net[e] = <<>> /\ out[Other(e)] = <<>> /\ sent[Other(e)] = 0 /\ hand[e] = 0
        /\ reader[e] \in {"off", "recv"} /\ reader[e] # "put"
    BY <2>1 DEF Init, Ends
  <2>3. Known(<<>>, <<>>, reader[e]) = 0
    BY <2>2, Nothing DEF Known
  <2>4. 0 - 0 = 0 /\ 0 + 0 + 0 = 0 /\ 0 <= 0
    OBVIOUS
  <2>5. Chain(<<>>, <<>>, 0, reader[e], <<>>, <<>>, 0, Over)
    BY <2>2, <2>3, <2>4, Nothing DEF Chain
  <2>6. QED
    BY <2>2, <2>5 DEF InOrder
<1>3. ToldBooks
  BY <1>0 DEF ToldBooks, Init
<1>4. QED
  BY <1>1, <1>2, <1>3 DEF StreamInv

\* The order of payloads, who is told of a disconnect, and why.
THEOREM StreamInvariant == Spec => []StreamInv
<1>1. ASSUME StreamInv, [Next]_vars PROVE StreamInv'
  BY <1>1, TypeStep, OrderStep, ToldStep DEF StreamInv
<1>2. QED
  BY StreamStarts, <1>1, PTL DEF Spec

\* The channels of a stream hold at most one payload, and every variable its type.
THEOREM TypeCorrect == Spec => []TypeOK
<1>1. StreamInv => TypeOK
  BY DEF StreamInv
<1>2. QED
  BY <1>1, StreamInvariant, PTL

\* What an owner has taken is the beginning of what the other one has sent, in
\* order, whichever goroutine stops first and wherever the connection breaks
\* (stream.go:83, stream.go:188).
THEOREM InOrderTaken == Spec => []PayloadsInOrder
<1>1. StreamInv => PayloadsInOrder
  <2> SUFFICES ASSUME StreamInv, NEW e \in Ends
               PROVE  Len(taken[e]) <= sent[Other(e)] /\ \A i \in DOMAIN taken[e] : taken[e][i] = i
    BY DEF PayloadsInOrder
  <2>1. /\ Queue(taken[e]) /\ Size(taken[e]) \in Nat /\ Size(in[e]) \in Nat /\ Size(net[e]) \in Nat
        /\ Other(e) \in Ends
    BY QueuesTyped DEF StreamInv
  <2>2. Size(out[Other(e)]) \in Nat /\ sent[Other(e)] \in Nat
    BY <2>1, QueuesTyped DEF StreamInv
  <2>3. /\ Counts(taken[e], 0)
        /\ Known(taken[e], in[e], reader[e]) + Size(net[e]) + Size(out[Other(e)]) <= sent[Other(e)]
    BY DEF StreamInv, InOrder, Chain
  <2>4. Known(taken[e], in[e], reader[e]) \in Nat /\ Size(taken[e]) <= Known(taken[e], in[e], reader[e])
    BY <2>1 DEF Known
  <2>5. Size(taken[e]) <= sent[Other(e)]
    BY <2>1, <2>2, <2>3, <2>4
  <2>6. \A i \in DOMAIN taken[e] : taken[e][i] = i
    <3>1. DOMAIN taken[e] = 1 .. Len(taken[e])
      BY <2>1 DEF Queue
    <3>2. QED
      BY <2>3, <3>1 DEF Counts
  <2>7. QED
    BY <2>5, <2>6 DEF Size
<1>2. QED
  BY <1>1, StreamInvariant, PTL

\* A coordinator that registered and did not close an end whose goroutines are
\* gone has been told, even if it registered late; at the master, unless the reader gave up
\* with a payload that it could not pass on (stream.go:84).
THEOREM DisconnectTold == Spec => []ToldUnlessBlocked
<1>1. StreamInv => ToldUnlessBlocked
  <2> SUFFICES ASSUME StreamInv PROVE ToldUnlessBlocked
    OBVIOUS
  <2>0. TypeOK /\ ToldBooks /\ "master" \in Ends /\ "worker" \in Ends
    BY DEF StreamInv, Ends
  <2>1. ASSUME Lost("worker"), cb["worker"] PROVE told["worker"]
    <3>1. disc["worker"] \/ told["worker"]
      BY <2>0, <2>1 DEF ToldBooks, Lost
    <3>2. QED
      BY <2>0, <2>1, <3>1 DEF ToldBooks
  <2>2. ASSUME Lost("master"), cb["master"]
        PROVE  told["master"] \/ hand["master"] > Len(taken["master"]) + Len(in["master"])
    BY <2>0, <2>2 DEF ToldBooks, Lost, Size
  <2>3. QED
    BY <2>1, <2>2 DEF ToldUnlessBlocked
<1>2. QED
  BY <1>1, StreamInvariant, PTL
=============================================================================

------------------------- MODULE ReportBatchProofs -------------------------
(***************************************************************************)
(* ReportBatch loses, repeats and garbles no report, never keeps reports   *)
(* that nobody will flush nor more than the limit, and falls back to the   *)
(* base dictionary for good, for every dictionary, every set of reports,   *)
(* every limit and any number of calls.                                    *)
(***************************************************************************)
EXTENDS ReportBatch, SequenceTheorems, DataTheorems

IsSeq(s) == \E S : s \in Seq(S)

\* What the control flow relies on, beside the properties themselves.
Control ==
  /\ top \in Nat
  /\ options.max_batch_entries \in Nat
  /\ armed \in BOOLEAN /\ firing \in BOOLEAN
  /\ IsSeq(batch.entries) /\ IsSeq(counts)

Inv == Control /\ BatchIsTimed /\ BatchBelowLimit

-----------------------------------------------------------------------------
(* Sequences and batches *)

\* Appending keeps a sequence a sequence, one longer.
LEMMA AppendIsSeq ==
  ASSUME NEW s, IsSeq(s), NEW e
  PROVE  IsSeq(Append(s, e)) /\ Len(Append(s, e)) = Len(s) + 1 /\ Len(s) \in Nat
<1>1. PICK S : s \in Seq(S)
  BY DEF IsSeq
<1>2. s \in Seq(S \cup {e}) /\ e \in S \cup {e}
  BY <1>1
<1>3. Append(s, e) \in Seq(S \cup {e}) /\ Len(Append(s, e)) = Len(s) + 1
  BY <1>2, AppendProperties
<1>4. Len(s) \in Nat
  BY <1>1
<1> QED BY <1>3, <1>4 DEF IsSeq

\* Add appends one entry if the delta is possible and none otherwise; it keeps the
\* announced dictionary.
LEMMA AddEffect ==
  ASSUME NEW b, IsSeq(b.entries), NEW a, NEW view, NEW r \in Add(b, a, view)
  PROVE  /\ IsSeq(r.batch.entries)
         /\ r.ok => Len(r.batch.entries) = Len(b.entries) + 1
         /\ r.batch.gwc = b.gwc
<1>1. PICK new : r = CompressByDict(b, a, view, new)
  BY DEF Add
<1>2. r.batch.gwc = b.gwc
  BY <1>1 DEF CompressByDict
<1>3. \E e : r.batch.entries = IF r.ok THEN Append(b.entries, e) ELSE b.entries
  BY <1>1 DEF CompressByDict
<1>4. PICK e : r.batch.entries = IF r.ok THEN Append(b.entries, e) ELSE b.entries
  BY <1>3
<1>5. IsSeq(Append(b.entries, e)) /\ Len(Append(b.entries, e)) = Len(b.entries) + 1
  BY AppendIsSeq
<1> QED BY <1>2, <1>4, <1>5

\* The first entry of a batch is always possible: nothing was sent before it.
LEMMA FreshAdd ==
  ASSUME NEW n, NEW a, NEW view, NEW r \in Add(CreateBatchCompressor(n), a, view)
  PROVE  /\ r.ok /\ IsSeq(r.batch.entries) /\ Len(r.batch.entries) = 1
         /\ r.batch.gwc = n
<1> DEFINE b == CreateBatchCompressor(n)
<1>1. b.entries = <<>> /\ b.prev = <<>> /\ b.gwc = n
  BY DEF CreateBatchCompressor
<1>2. IsSeq(b.entries) /\ Len(b.entries) = 0
  <2>1. <<>> \in Seq({}) /\ Len(<<>>) = 0
    OBVIOUS
  <2> QED BY <1>1, <2>1 DEF IsSeq
<1>3. r.ok
  <2>1. PICK new : r = CompressByDict(b, a, view, new)
    BY DEF Add
  <2>2. \E indexes : r.ok = DeltaOk(b, indexes)
    BY <2>1 DEF CompressByDict
  <2>3. PICK indexes : r.ok = DeltaOk(b, indexes)
    BY <2>2
  <2>4. DOMAIN b.prev = {}
    BY <1>1
  <2>5. DeltaOk(b, indexes)
    BY <2>4 DEF DeltaOk
  <2> QED BY <2>3, <2>5
<1> HIDE DEF b
<1>4. r \in Add(b, a, view)
  BY DEF b
<1>5. /\ IsSeq(r.batch.entries)
      /\ r.ok => Len(r.batch.entries) = Len(b.entries) + 1
      /\ r.batch.gwc = b.gwc
  BY <1>2, <1>4, AddEffect, Zenon
<1>6. Len(r.batch.entries) = Len(b.entries) + 1
  BY <1>3, <1>5
<1>7. Len(r.batch.entries) = 1
  BY <1>2, <1>6
<1> QED BY <1>1, <1>3, <1>5, <1>7, Zenon

-----------------------------------------------------------------------------
(* Steps that keep the invariant *)

\* The sequences of requests a step may send.
LEMMA Flushed ==
  ASSUME NEW b, NEW c
  PROVE  /\ IsSeq(<<b>>) /\ IsSeq(Append(<<>>, b)) /\ IsSeq(Append(<<c>>, b)) /\ IsSeq(<<>>)
         /\ Len(<<b>>) = 1 /\ Len(Append(<<>>, b)) = 1 /\ Len(Append(<<c>>, b)) = 2
         /\ Len(<<>>) = 0
         /\ <<b>>[1] = b /\ Append(<<>>, b)[1] = b
         /\ Append(<<c>>, b)[1] = c /\ Append(<<c>>, b)[2] = b
<1>1. /\ <<b>> \in Seq({b, c}) /\ Append(<<>>, b) \in Seq({b, c})
      /\ Append(<<c>>, b) \in Seq({b, c}) /\ <<>> \in Seq({b, c})
  OBVIOUS
<1>2. IsSeq(<<b>>) /\ IsSeq(Append(<<>>, b)) /\ IsSeq(Append(<<c>>, b)) /\ IsSeq(<<>>)
  BY <1>1 DEF IsSeq
<1> QED BY <1>2

\* Send adds the word counts of the requests to counts.
LEMMA SendCounts ==
  ASSUME IsSeq(counts), NEW bs, IsSeq(bs), Send(bs)
  PROVE  /\ IsSeq(counts') /\ Len(counts) \in Nat /\ Len(bs) \in Nat
         /\ Len(counts') = Len(counts) + Len(bs)
         /\ \A i \in 1..Len(bs) : counts'[Len(counts) + i] = bs[i].gwc
<1> DEFINE g == [i \in 1..Len(bs) |-> bs[i].gwc]
           G == {bs[i].gwc : i \in 1..Len(bs)}
<1>1. PICK S : counts \in Seq(S)
  BY DEF IsSeq
<1>2. PICK B : bs \in Seq(B)
  BY DEF IsSeq
<1>3. Len(bs) \in Nat /\ Len(counts) \in Nat
  BY <1>1, <1>2
<1>4. g \in Seq(G) /\ Len(g) = Len(bs)
  BY <1>3
<1>5. counts' = counts \o g
  BY DEF Send
<1>6. counts \in Seq(S \cup G) /\ g \in Seq(S \cup G)
  BY <1>1, <1>4
<1>7. /\ counts \o g \in Seq(S \cup G)
      /\ Len(counts \o g) = Len(counts) + Len(g)
      /\ \A i \in 1..Len(counts) + Len(g) :
           (counts \o g)[i] = IF i <= Len(counts) THEN counts[i] ELSE g[i - Len(counts)]
  BY <1>6, ConcatProperties
<1>8. ASSUME NEW i \in 1..Len(bs)
      PROVE  counts'[Len(counts) + i] = bs[i].gwc
  <2>1. Len(counts) + i \in 1..Len(counts) + Len(g) /\ ~(Len(counts) + i <= Len(counts))
        /\ Len(counts) + i - Len(counts) = i
    BY <1>3, <1>4
  <2>2. counts'[Len(counts) + i] = g[i]
    BY <1>5, <1>7, <2>1
  <2> QED BY <2>2
<1>9. IsSeq(counts')
  BY <1>5, <1>7 DEF IsSeq
<1> QED BY <1>3, <1>4, <1>5, <1>7, <1>8, <1>9

\* An empty batch compressor has no entries.
LEMMA FreshEntries ==
  ASSUME NEW n
  PROVE  IsSeq(CreateBatchCompressor(n).entries)
<1>1. <<>> \in Seq({})
  OBVIOUS
<1> QED BY <1>1 DEF CreateBatchCompressor, IsSeq

\* The constructor's state satisfies the invariant.
LEMMA InitInv == Init => Inv
<1> SUFFICES ASSUME Init PROVE Inv
  OBVIOUS
<1>1. top \in Nat
  BY CompressorAssumption DEF Init
<1>2. options.max_batch_entries \in Nat
  BY ReportAssumption DEF Init
<1>3. IsSeq(batch.entries) /\ IsSeq(counts)
  BY FreshEntries, Flushed DEF Init
<1> QED BY <1>1, <1>2, <1>3 DEF Init, Inv, Control, BatchIsTimed, BatchBelowLimit

\* The end of Report: b has the new entry.  If the batch stays open then b is timed
\* already or starts the timer.
LEMMA FinishStep ==
  ASSUME Inv, NEW b, IsSeq(b.entries), Len(b.entries) \in Nat \ {0},
         NEW bs, FinishReport(b, bs),
         options.timer /\ alive => StartsTimer(b) \/ (armed /\ bs = <<>>) \/ firing,
         top' \in Nat, IsSeq(counts)', UNCHANGED <<options, firing, alive>>
  PROVE  Inv'
<1>1. CASE BatchFull(b)
  <2>1. open' = FALSE /\ armed' = FALSE /\ batch' = CreateBatchCompressor(0)
    BY <1>1 DEF FinishReport, Close
  <2>2. IsSeq(batch'.entries)
    BY <2>1, FreshEntries
  <2> QED BY <2>1, <2>2 DEF Inv, Control, BatchIsTimed, BatchBelowLimit, IsSeq
<1>2. CASE ~BatchFull(b)
  <2>1. /\ open' = TRUE /\ batch' = b
        /\ armed' = (StartsTimer(b) \/ (armed /\ bs = <<>>))
    BY <1>2 DEF FinishReport
  <2>2. armed' \in BOOLEAN
    BY <2>1
  <2>3. Control'
    BY <2>1, <2>2 DEF Inv, Control, IsSeq
  <2>4. BatchIsTimed'
    BY <2>1 DEF BatchIsTimed
  <2>5. BatchBelowLimit'
    <3>1. Len(b.entries) < options.max_batch_entries /\ options' = options
      BY <1>2 DEF BatchFull, Inv, Control
    <3> QED BY <2>1, <3>1 DEF BatchBelowLimit, Inv, Control
  <2> QED BY <2>3, <2>4, <2>5 DEF Inv
<1> QED BY <1>1, <1>2

\* Report, however the dictionary moves during it: a batch that was open is timed
\* and has entries already, a fresh one starts the timer with its first.
LEMMA ReportWithStep ==
  ASSUME Inv, NEW a, NEW v1, NEW t2, NEW v2, ReportWith(a, v1, t2, v2),
         top' \in Nat, UNCHANGED <<options, firing, alive>>
  PROVE  Inv'
<1> DEFINE b0 == IF open THEN batch ELSE CreateBatchCompressor(top)
<1>1. PICK r \in Add(b0, a, v1) :
        \/ r.ok /\ FinishReport(r.batch, <<>>)
        \/ ~r.ok /\ \E s \in Add(CreateBatchCompressor(t2), a, v2) :
                      FinishReport(s.batch, <<r.batch>>)
  BY DEF ReportWith
<1>2. IsSeq(b0.entries)
  BY FreshEntries DEF Inv, Control
<1>3. /\ IsSeq(r.batch.entries)
      /\ r.ok => Len(r.batch.entries) = Len(b0.entries) + 1
  <2> HIDE DEF b0
  <2> QED BY <1>2, AddEffect
<1>4. CASE r.ok /\ FinishReport(r.batch, <<>>)
  <2>1. IsSeq(counts)'
    <3>1. Send(<<>>) \/ Send(Append(<<>>, r.batch))
      BY <1>4 DEF FinishReport
    <3>2. IsSeq(counts) /\ IsSeq(<<>>) /\ IsSeq(Append(<<>>, r.batch))
      BY Flushed DEF Inv, Control
    <3>3. IsSeq(counts')
      BY <3>1, <3>2, SendCounts
    <3> QED BY <3>3 DEF IsSeq
  <2>2. CASE open
    <3>1. Len(b0.entries) \in Nat \ {0}
      BY <2>2 DEF Inv, Control, BatchBelowLimit
    <3>2. Len(r.batch.entries) \in Nat \ {0}
      BY <3>1, <1>3, <1>4
    <3>3. options.timer /\ alive => armed \/ firing
      BY <2>2 DEF Inv, BatchIsTimed
    <3> QED BY <1>3, <1>4, <2>1, <3>2, <3>3, FinishStep
  <2>3. CASE ~open
    <3>1. r \in Add(CreateBatchCompressor(top), a, v1)
      BY <2>3
    <3>2. Len(r.batch.entries) = 1
      BY <3>1, FreshAdd
    <3>3. options.timer => StartsTimer(r.batch)
      BY <3>2 DEF StartsTimer
    <3>4. Len(r.batch.entries) \in Nat \ {0}
      BY <3>2
    <3> QED BY <1>3, <1>4, <2>1, <3>3, <3>4, FinishStep
  <2> QED BY <2>2, <2>3
<1>5. ASSUME NEW s \in Add(CreateBatchCompressor(t2), a, v2),
             FinishReport(s.batch, <<r.batch>>)
      PROVE  Inv'
  <2>1. IsSeq(counts)'
    <3>1. Send(<<r.batch>>) \/ Send(Append(<<r.batch>>, s.batch))
      BY <1>5 DEF FinishReport
    <3>2. IsSeq(counts) /\ IsSeq(<<r.batch>>) /\ IsSeq(Append(<<r.batch>>, s.batch))
      BY Flushed DEF Inv, Control
    <3>3. IsSeq(counts')
      BY <3>1, <3>2, SendCounts
    <3> QED BY <3>3 DEF IsSeq
  <2>2. IsSeq(s.batch.entries) /\ Len(s.batch.entries) = 1
    BY FreshAdd
  <2>3. options.timer => StartsTimer(s.batch)
    BY <2>2 DEF StartsTimer
  <2>4. Len(s.batch.entries) \in Nat \ {0}
    BY <2>2
  <2> QED BY <1>5, <2>1, <2>2, <2>3, <2>4, FinishStep
<1> QED BY <1>1, <1>4, <1>5

\* Flush and the destructor leave no batch behind.
LEMMA FlushStep ==
  ASSUME Inv, FlushWithLock, UNCHANGED <<options, top>>, firing' \in BOOLEAN
  PROVE  Inv'
<1>1. CASE open
  <2>1. /\ open' = FALSE /\ armed' = FALSE /\ batch' = CreateBatchCompressor(0)
        /\ Send(<<batch>>)
    BY <1>1 DEF FlushWithLock, Close
  <2>2. IsSeq(counts')
    BY <2>1, Flushed, SendCounts DEF Inv, Control
  <2>3. IsSeq(batch'.entries)
    BY <2>1, FreshEntries
  <2> QED BY <2>1, <2>2, <2>3 DEF Inv, Control, BatchIsTimed, BatchBelowLimit, IsSeq
<1>2. CASE ~open
  <2>1. UNCHANGED <<open, batch, armed, counts>>
    BY <1>2 DEF FlushWithLock
  <2> QED BY <1>2, <2>1 DEF Inv, Control, BatchIsTimed, BatchBelowLimit, IsSeq
<1> QED BY <1>1, <1>2

\* Lowering the dictionary keeps top a number and never raises it.
LEMMA ShrinkType == top \in Nat => ShrinkToBase(top) \in Nat /\ ShrinkToBase(top) <= top
  BY CompressorAssumption DEF ShrinkToBase

\* Every step keeps the invariant.
LEMMA NextInv == Inv /\ [Next]_vars => Inv'
<1> SUFFICES ASSUME Inv, [Next]_vars PROVE Inv'
  OBVIOUS
<1>1. ASSUME NEW a \in Reports, Report(a) PROVE Inv'
  <2>1. top' \in Nat /\ UNCHANGED <<options, firing, alive>>
    BY <1>1 DEF Report, Inv, Control
  <2>2. ReportWith(a, SameView(a, top), top, SameView(a, top))
    BY <1>1 DEF Report
  <2> QED BY <2>1, <2>2, ReportWithStep
<1>2. ASSUME NEW a \in Reports, ReportShrinking(a) PROVE Inv'
  <2>1. top' \in Nat /\ UNCHANGED <<options, firing, alive>>
    BY <1>2, ShrinkType DEF ReportShrinking, Inv, Control
  <2>2. \E v1, t2, v2 : ReportWith(a, v1, t2, v2)
    BY <1>2 DEF ReportShrinking
  <2> QED BY <2>1, <2>2, ReportWithStep
<1>3. CASE TimerFires
  BY <1>3 DEF TimerFires, Inv, Control, BatchIsTimed, BatchBelowLimit, IsSeq
<1>4. CASE Flush
  BY <1>4, FlushStep DEF Flush
<1>5. CASE Destroy
  BY <1>5, FlushStep DEF Destroy, Inv, Control
<1>6. ASSUME NEW d \in BOOLEAN, OnReportDone(d) PROVE Inv'
  BY <1>6, ShrinkType DEF OnReportDone, Inv, Control, BatchIsTimed, BatchBelowLimit, IsSeq
<1>7. CASE UNCHANGED vars
  BY <1>7 DEF vars, Inv, Control, BatchIsTimed, BatchBelowLimit, IsSeq
<1> QED BY <1>1, <1>2, <1>3, <1>4, <1>5, <1>6, <1>7 DEF Next

\* No report waits without a timer, and no batch waits at its limit, for every
\* dictionary, set of reports and limit (ReportBatch::Report, FlushWithLock).
THEOREM BatchSafe == Spec => [](BatchIsTimed /\ BatchBelowLimit)
<1>1. Inv => BatchIsTimed /\ BatchBelowLimit
  BY DEF Inv
<1> QED BY <1>1, InitInv, NextInv, PTL DEF Spec

-----------------------------------------------------------------------------
(* The dictionary falls back *)

LowRequests == \A i \in Len(counts)+1..Len(counts') : counts'[i] <= BaseSize
LowBatch == open => batch.gwc <= BaseSize

\* Sending requests that announce at most the base dictionary.
LEMMA SendLow ==
  ASSUME Inv, NEW bs, IsSeq(bs), Send(bs), \A k \in 1..Len(bs) : bs[k].gwc <= BaseSize
  PROVE  LowRequests
<1>1. /\ Len(counts) \in Nat /\ Len(bs) \in Nat
      /\ Len(counts') = Len(counts) + Len(bs)
      /\ \A i \in 1..Len(bs) : counts'[Len(counts) + i] = bs[i].gwc
  BY SendCounts DEF Inv, Control
<1>2. ASSUME NEW i \in Len(counts)+1..Len(counts')
      PROVE  counts'[i] <= BaseSize
  <2>1. i - Len(counts) \in 1..Len(bs) /\ Len(counts) + (i - Len(counts)) = i
    BY <1>1
  <2>2. counts'[i] = bs[i - Len(counts)].gwc
    BY <1>1, <2>1
  <2> QED BY <2>1, <2>2
<1> QED BY <1>2 DEF LowRequests

\* A step that sends nothing announces nothing.
LEMMA SendNothingLow ==
  ASSUME Inv, counts' = counts
  PROVE  LowRequests
<1>1. Len(counts) \in Nat
  <2>1. PICK S : counts \in Seq(S)
    BY DEF Inv, Control, IsSeq
  <2> QED BY <2>1
<1> QED BY <1>1 DEF LowRequests

\* The end of Report sends, or keeps open, only batches that were created on the
\* base dictionary.
LEMMA FinishLow ==
  ASSUME Inv, NEW b, b.gwc <= BaseSize, NEW c, c.gwc <= BaseSize,
         NEW bs \in {<<>>, <<c>>}, FinishReport(b, bs)
  PROVE  LowRequests /\ LowBatch'
<1>1. CASE BatchFull(b)
  <2>1. open' = FALSE /\ Send(Append(bs, b))
    BY <1>1 DEF FinishReport, Close
  <2>2. IsSeq(Append(bs, b)) /\ \A k \in 1..Len(Append(bs, b)) : Append(bs, b)[k].gwc <= BaseSize
    <3>1. CASE bs = <<>>
      <4>1. /\ IsSeq(Append(<<>>, b)) /\ Len(Append(<<>>, b)) = 1
            /\ Append(<<>>, b)[1] = b
        BY Flushed
      <4> QED BY <3>1, <4>1
    <3>2. CASE bs = <<c>>
      <4>1. /\ IsSeq(Append(<<c>>, b)) /\ Len(Append(<<c>>, b)) = 2
            /\ Append(<<c>>, b)[1] = c /\ Append(<<c>>, b)[2] = b
        BY Flushed
      <4> QED BY <3>2, <4>1
    <3> QED BY <3>1, <3>2
  <2>3. LowRequests
    BY <2>1, <2>2, SendLow
  <2> QED BY <2>1, <2>3 DEF LowBatch
<1>2. CASE ~BatchFull(b)
  <2>1. batch' = b /\ Send(bs)
    BY <1>2 DEF FinishReport
  <2>2. IsSeq(bs) /\ \A k \in 1..Len(bs) : bs[k].gwc <= BaseSize
    <3>1. IsSeq(<<>>) /\ Len(<<>>) = 0 /\ IsSeq(<<c>>) /\ Len(<<c>>) = 1 /\ <<c>>[1] = c
      BY Flushed
    <3>2. CASE bs = <<>>
      BY <3>1, <3>2
    <3>3. CASE bs = <<c>>
      BY <3>1, <3>3
    <3> QED BY <3>2, <3>3
  <2>3. LowRequests
    BY <2>1, <2>2, SendLow
  <2> QED BY <2>1, <2>3 DEF LowBatch
<1> QED BY <1>1, <1>2

\* Report on the base dictionary creates its batches there.
LEMMA ReportWithLow ==
  ASSUME Inv, top <= BaseSize, LowBatch,
         NEW a, NEW v1, NEW t2, t2 <= BaseSize, NEW v2, ReportWith(a, v1, t2, v2)
  PROVE  LowRequests /\ LowBatch'
<1> DEFINE b0 == IF open THEN batch ELSE CreateBatchCompressor(top)
<1>1. PICK r \in Add(b0, a, v1) :
        \/ r.ok /\ FinishReport(r.batch, <<>>)
        \/ ~r.ok /\ \E s \in Add(CreateBatchCompressor(t2), a, v2) :
                      FinishReport(s.batch, <<r.batch>>)
  BY DEF ReportWith
<1>2. IsSeq(b0.entries)
  BY FreshEntries DEF Inv, Control
<1>3. b0.gwc <= BaseSize
  <2>1. CreateBatchCompressor(top).gwc = top
    BY DEF CreateBatchCompressor
  <2> QED BY <2>1 DEF LowBatch
<1>4. r.batch.gwc <= BaseSize
  <2> HIDE DEF b0
  <2>1. r.batch.gwc = b0.gwc
    BY <1>2, AddEffect
  <2> QED BY <1>3, <2>1
<1>5. CASE r.ok /\ FinishReport(r.batch, <<>>)
  BY <1>4, <1>5, FinishLow
<1>6. ASSUME NEW s \in Add(CreateBatchCompressor(t2), a, v2),
             FinishReport(s.batch, <<r.batch>>)
      PROVE  LowRequests /\ LowBatch'
  <2>1. s.batch.gwc = t2
    BY FreshAdd
  <2> QED BY <1>4, <1>6, <2>1, FinishLow
<1> QED BY <1>1, <1>5, <1>6

\* FlushWithLock sends at most the open batch.
LEMMA FlushLow ==
  ASSUME Inv, LowBatch, FlushWithLock
  PROVE  LowRequests /\ LowBatch'
<1>1. CASE open
  <2>1. open' = FALSE /\ Send(<<batch>>) /\ batch.gwc <= BaseSize
    BY <1>1 DEF FlushWithLock, Close, LowBatch
  <2>2. IsSeq(<<batch>>) /\ Len(<<batch>>) = 1 /\ <<batch>>[1] = batch
    BY Flushed
  <2>3. LowRequests
    BY <2>1, <2>2, SendLow
  <2> QED BY <2>1, <2>3 DEF LowBatch
<1>2. CASE ~open
  <2>1. open' = open /\ counts' = counts
    BY <1>2 DEF FlushWithLock
  <2> QED BY <1>2, <2>1, SendNothingLow DEF LowBatch
<1> QED BY <1>1, <1>2

\* Once the dictionary is lowered and the batch that was open then is gone, every
\* request announces at most the base dictionary, for good
\* (GlobalDictionary::ShrinkToBase, BatchCompressorImpl).
THEOREM StaysOnBase == Spec => FallsBackToBase
<1>1. ASSUME Inv, [Next]_vars, top <= BaseSize, ~open \/ batch.gwc <= BaseSize
      PROVE  LowRequests /\ LowBatch'
  <2>0. LowBatch
    BY <1>1 DEF LowBatch
  <2>1. ShrinkToBase(top) = top
    BY <1>1, CompressorAssumption DEF Inv, Control, ShrinkToBase
  <2>2. ASSUME NEW a \in Reports, Report(a) PROVE LowRequests /\ LowBatch'
    BY <1>1, <2>0, <2>2, ReportWithLow DEF Report
  <2>3. ASSUME NEW a \in Reports, ReportShrinking(a) PROVE LowRequests /\ LowBatch'
    <3>1. \E v1, v2, t2 : t2 <= BaseSize /\ ReportWith(a, v1, t2, v2)
      BY <1>1, <2>1, <2>3 DEF ReportShrinking
    <3> QED BY <1>1, <2>0, <3>1, ReportWithLow
  <2>4. CASE TimerFires
    <3>1. counts' = counts /\ open' = open /\ batch' = batch
      BY <2>4 DEF TimerFires
    <3> QED BY <1>1, <2>0, <3>1, SendNothingLow DEF LowBatch
  <2>5. CASE Flush \/ Destroy
    BY <1>1, <2>0, <2>5, FlushLow DEF Flush, Destroy
  <2>6. ASSUME NEW d \in BOOLEAN, OnReportDone(d) PROVE LowRequests /\ LowBatch'
    <3>1. counts' = counts /\ open' = open /\ batch' = batch
      BY <2>6 DEF OnReportDone
    <3> QED BY <1>1, <2>0, <3>1, SendNothingLow DEF LowBatch
  <2>7. CASE UNCHANGED vars
    <3>1. counts' = counts /\ open' = open /\ batch' = batch
      BY <2>7 DEF vars
    <3> QED BY <1>1, <2>0, <3>1, SendNothingLow DEF LowBatch
  <2> QED BY <1>1, <2>2, <2>3, <2>4, <2>5, <2>6, <2>7 DEF Next
<1>2. Inv /\ [Next]_vars =>
        [top <= BaseSize /\ (~open \/ batch.gwc <= BaseSize) =>
           /\ \A i \in Len(counts)+1..Len(counts') : counts'[i] <= BaseSize
           /\ open' => batch'.gwc <= BaseSize]_vars
  BY <1>1 DEF LowRequests, LowBatch
<1> QED BY <1>2, InitInv, NextInv, PTL DEF Spec, FallsBackToBase

-----------------------------------------------------------------------------
(* What a batch says: words and indexes *)

\* The indexes that the word lists of batch b have.
Valid(b) == -Len(b.words)..b.gwc-1

WordLists(b) ==
  /\ b.gwc \in Nat /\ b.gwc <= Len(Dict)
  /\ b.words \in Seq(STRING)
  /\ \A i, j \in 1..Len(b.words) : b.words[i] = b.words[j] => i = j

\* A word of the global dictionary has one place there, below the top it was found under.
LEMMA GlobalWord ==
  ASSUME NEW w, NEW t \in Int, InGlobal(w, t)
  PROVE  /\ GlobalIndex(w) \in 0..t-1 /\ GlobalIndex(w) < Len(Dict)
         /\ Dict[GlobalIndex(w) + 1] = w
<1>1. PICK i \in 1..Len(Dict) : Dict[i] = w /\ i <= t
  BY DEF InGlobal
<1> DEFINE j == CHOOSE x \in 1..Len(Dict) : Dict[x] = w
<1>2. j \in 1..Len(Dict) /\ Dict[j] = w
  BY <1>1
<1>3. GlobalIndex(w) = j - 1
  BY DEF GlobalIndex
<1> HIDE DEF j
<1>4. j = i
  BY <1>1, <1>2, CompressorAssumption
<1>5. Len(Dict) \in Nat
  BY CompressorAssumption
<1>6. j - 1 \in 0..t-1 /\ j - 1 < Len(Dict) /\ (j - 1) + 1 = j
  BY <1>1, <1>4, <1>5
<1> QED BY <1>2, <1>3, <1>6

\* An index handed out under a top that the batch announces is read back as its
\* word (MessageDictionary::GetIndex).
LEMMA IndexedWord ==
  ASSUME NEW b, WordLists(b), NEW w, NEW t \in Int, t <= b.gwc,
         InGlobal(w, t) \/ Contains(b.words, w)
  PROVE  /\ GetIndex(w, t, b.words) \in Valid(b)
         /\ WordAt(b, GetIndex(w, t, b.words)) = w
<1>0. Len(b.words) \in Nat /\ b.gwc \in Nat /\ b.gwc <= Len(Dict)
  BY DEF WordLists
<1>1. CASE InGlobal(w, t)
  <2> DEFINE g == GlobalIndex(w)
  <2>1. g \in 0..t-1 /\ g < Len(Dict) /\ Dict[g + 1] = w
    BY <1>1, GlobalWord
  <2>2. GetIndex(w, t, b.words) = g
    BY <1>1 DEF GetIndex
  <2> HIDE DEF g
  <2>3. g \in 0..b.gwc-1 /\ g \in -Len(b.words)..b.gwc-1
    BY <1>0, <2>1
  <2>4. WordAt(b, g) = w
    BY <2>1, <2>3 DEF WordAt
  <2> QED BY <2>2, <2>3, <2>4 DEF Valid
<1>2. CASE ~InGlobal(w, t)
  <2> DEFINE j == CHOOSE i \in 1..Len(b.words) : b.words[i] = w
             m == -((j - 1) + 1)
  <2>1. j \in 1..Len(b.words) /\ b.words[j] = w
    BY <1>2 DEF Contains
  <2>2. GetIndex(w, t, b.words) = m
    BY <1>2 DEF GetIndex, MessageDictIndex
  <2> HIDE DEF j
  <2>3. m \in -Len(b.words)..b.gwc-1 /\ m \notin 0..b.gwc-1 /\ -m = j
    BY <1>0, <2>1
  <2> HIDE DEF m
  <2>4. WordAt(b, m) = w
    BY <2>1, <2>3 DEF WordAt
  <2> QED BY <2>2, <2>3, <2>4 DEF Valid
<1> QED BY <1>1, <1>2

\* c has the word lists of b, with more message words.
Extends(c, b) ==
  /\ c.gwc = b.gwc /\ Len(c.words) >= Len(b.words)
  /\ \A i \in 1..Len(b.words) : c.words[i] = b.words[i]

\* What has an index keeps it: message words are only appended.
LEMMA MoreWords ==
  ASSUME NEW b, NEW c, WordLists(b), WordLists(c), Extends(c, b)
  PROVE  /\ Valid(b) \subseteq Valid(c)
         /\ \A i \in Valid(b) : WordAt(c, i) = WordAt(b, i)
         /\ \A w, t : InGlobal(w, t) \/ Contains(b.words, w) =>
              GetIndex(w, t, c.words) = GetIndex(w, t, b.words)
<1> DEFINE m == Len(b.words)
           n == Len(c.words)
<1>1. m \in Nat /\ n \in Nat /\ n >= m /\ b.gwc \in Nat
  BY DEF WordLists, Extends
<1>2. Valid(b) \subseteq Valid(c)
  BY <1>1 DEF Valid, Extends
<1>3. ASSUME NEW i \in Valid(b) PROVE WordAt(c, i) = WordAt(b, i)
  <2>1. CASE i \in 0..b.gwc-1
    <3>1. -i \notin 1..m /\ -i \notin 1..n
      BY <1>1, <2>1
    <3> QED BY <2>1, <3>1 DEF WordAt, Extends
  <2>2. CASE i \notin 0..b.gwc-1
    <3>1. -i \in 1..m /\ -i \in 1..n
      BY <1>1, <1>3, <2>2 DEF Valid
    <3> QED BY <2>2, <3>1 DEF WordAt, Extends
  <2> QED BY <2>1, <2>2
<1>4. ASSUME NEW w, NEW t, InGlobal(w, t) \/ Contains(b.words, w)
      PROVE  GetIndex(w, t, c.words) = GetIndex(w, t, b.words)
  <2>1. CASE InGlobal(w, t)
    BY <2>1 DEF GetIndex
  <2>2. CASE ~InGlobal(w, t)
    <3> DEFINE i == CHOOSE k \in 1..m : b.words[k] = w
               j == CHOOSE k \in 1..n : c.words[k] = w
    <3>0. /\ GetIndex(w, t, b.words) = MessageDictIndex(i - 1)
          /\ GetIndex(w, t, c.words) = MessageDictIndex(j - 1)
      BY <2>2 DEF GetIndex
    <3>1. i \in 1..m /\ b.words[i] = w
      BY <1>4, <2>2 DEF Contains
    <3> HIDE DEF i
    <3>2. i \in 1..n /\ c.words[i] = w
      BY <1>1, <3>1 DEF Extends
    <3>3. j \in 1..n /\ c.words[j] = w
      BY <3>2
    <3> HIDE DEF j
    <3>4. i = j
      BY <3>2, <3>3 DEF WordLists
    <3> QED BY <3>0, <3>4
  <2> QED BY <2>1, <2>2
<1> QED BY <1>2, <1>3, <1>4

\* The attributes of a report.
LEMMA ReportShape ==
  ASSUME NEW a \in Reports
  PROVE  /\ a = [n \in DOMAIN a |-> a[n]]
         /\ IsFiniteSet(DOMAIN a) /\ DOMAIN a \subseteq STRING
         /\ \A n \in DOMAIN a :
              /\ a[n].words \in Seq(STRING)
              /\ a[n] = [raw |-> a[n].raw, words |-> a[n].words]
<1> DEFINE v(n) == [raw |-> a[n].raw, words |-> a[n].words]
<1>1. /\ a = [n \in DOMAIN a |-> v(n)]
      /\ IsFiniteSet(DOMAIN a) /\ DOMAIN a \subseteq STRING
      /\ \A n \in DOMAIN a : a[n].words \in Seq(STRING)
  BY ReportAssumption
<1> HIDE DEF v
<1>2. \A n \in DOMAIN a : a[n] = v(n)
  BY <1>1, Zenon
<1>3. a = [n \in DOMAIN a |-> a[n]]
  BY <1>1, <1>2
<1> QED BY <1>1, <1>2, <1>3 DEF v

\* The image of a finite set is finite.
LEMMA FiniteImage ==
  ASSUME NEW S, IsFiniteSet(S), NEW f
  PROVE  IsFiniteSet({f[x] : x \in S})
<1> DEFINE g == [x \in S |-> f[x]]
<1>1. g \in Surjection(S, {f[x] : x \in S})
  BY DEF Surjection
<1> QED BY <1>1, FS_Surjection

\* A report needs finitely many words.
LEMMA FinitelyManyWords ==
  ASSUME NEW b, NEW a \in Reports, NEW view
  PROVE  IsFiniteSet(NewWords(b, a, view))
<1>1. IsFiniteSet(Lookups(a))
  <2> DEFINE f == [n \in DOMAIN a |-> {n} \X (0..Len(a[n].words))]
             U == {f[n] : n \in DOMAIN a}
  <2>1. ASSUME NEW n \in DOMAIN a PROVE IsFiniteSet(f[n])
    <3> DEFINE L == Len(a[n].words)
    <3>1. L \in Nat
      BY ReportShape
    <3>2. f[n] = {n} \X (0..L)
      OBVIOUS
    <3> HIDE DEF L, f
    <3>3. IsFiniteSet({n})
      BY FS_Singleton, Zenon
    <3>4. IsFiniteSet(0..L)
      BY <3>1, FS_Interval
    <3>5. IsFiniteSet({n} \X (0..L))
      BY <3>3, <3>4, FS_Product, Zenon
    <3> QED BY <3>2, <3>5
  <2>2. Lookups(a) = UNION U
    BY DEF Lookups
  <2> HIDE DEF f
  <2>3. IsFiniteSet(U)
    BY ReportShape, FiniteImage
  <2> QED BY <2>1, <2>2, <2>3, FS_UNION
<1>2. IsFiniteSet({WordOf(a, l) : l \in Lookups(a)})
  <2> DEFINE f == [l \in Lookups(a) |-> WordOf(a, l)]
  <2>1. {WordOf(a, l) : l \in Lookups(a)} = {f[l] : l \in Lookups(a)}
    OBVIOUS
  <2> HIDE DEF f
  <2> QED BY <1>1, <2>1, FiniteImage
<1>3. NewWords(b, a, view) \subseteq {WordOf(a, l) : l \in Lookups(a)}
  BY DEF NewWords
<1> QED BY <1>2, <1>3, FS_Subset

\* The words of a lookup are words.
LEMMA WordOfType ==
  ASSUME NEW a \in Reports, NEW l \in Lookups(a)
  PROVE  WordOf(a, l) \in STRING
<1>1. PICK n \in DOMAIN a : l \in {n} \X (0..Len(a[n].words))
  BY DEF Lookups
<1>2. n \in STRING /\ a[n].words \in Seq(STRING)
  BY ReportShape
<1>3. l[1] = n /\ l[2] \in 0..Len(a[n].words)
  BY <1>1
<1>4. CASE l[2] = 0
  BY <1>2, <1>3, <1>4 DEF WordOf
<1>5. CASE l[2] # 0
  <2>1. l[2] \in 1..Len(a[n].words)
    BY <1>2, <1>3, <1>5
  <2> QED BY <1>2, <1>3, <1>5, <2>1 DEF WordOf
<1> QED BY <1>4, <1>5

\* The message words that a report adds: distinct, none there before, and all that
\* are wanted.
LEMMA NewWordsSeq ==
  ASSUME NEW b, NEW a \in Reports, NEW view, NEW new \in SetToSeqs(NewWords(b, a, view))
  PROVE  /\ new \in Seq(STRING)
         /\ \A i, j \in 1..Len(new) : new[i] = new[j] => i = j
         /\ \A i \in 1..Len(new) : ~Contains(b.words, new[i]) \/ b.words \notin Seq(STRING)
         /\ \A w \in NewWords(b, a, view) : Contains(new, w)
<1> DEFINE W == NewWords(b, a, view)
           c == Cardinality(W)
<1>1. IsFiniteSet(W)
  BY FinitelyManyWords
<1>2. W \subseteq STRING
  BY WordOfType DEF NewWords
<1>3. \A w \in W : b.words \in Seq(STRING) => ~Contains(b.words, w)
  <2>1. \A w \in W : w \notin ToSet(b.words)
    BY DEF NewWords
  <2> QED BY <2>1 DEF ToSet, Contains
<1>4. new \in [1..c -> W] /\ \A i, j \in 1..c : i # j => new[i] # new[j]
  BY DEF SetToSeqs
<1> HIDE DEF W
<1>5. c \in Nat
  BY <1>1, FS_CardinalityType
<1> HIDE DEF c
<1>6. new \in Seq(STRING) /\ Len(new) = c
  <2>1. new \in [1..c -> STRING]
    BY <1>2, <1>4
  <2>2. new \in Seq(STRING)
    BY <1>5, <2>1
  <2>3. DOMAIN new = 1..c
    BY <2>1
  <2> QED BY <1>5, <2>2, <2>3, LenProperties
<1>7. new \in Injection(1..c, W)
  BY <1>4 DEF Injection, IsInjective
<1>8. IsFiniteSet(1..c) /\ Cardinality(1..c) = c
  BY <1>5, FS_Interval
<1>9. new \in Surjection(1..c, W)
  BY <1>1, <1>7, <1>8, FS_Injection DEF c
<1>10. \A w \in W : Contains(new, w)
  BY <1>6, <1>9 DEF Surjection, Contains
<1>11. \A i \in 1..Len(new) : new[i] \in W
  BY <1>4, <1>6
<1> QED BY <1>3, <1>4, <1>6, <1>10, <1>11 DEF W

\* The word lists after a report's new words.
LEMMA WordsAppended ==
  ASSUME NEW b, WordLists(b), NEW a \in Reports, NEW view,
         NEW new \in SetToSeqs(NewWords(b, a, view)),
         NEW c, c.gwc = b.gwc, c.words = b.words \o new
  PROVE  /\ WordLists(c) /\ Extends(c, b)
         /\ \A w \in NewWords(b, a, view) : Contains(c.words, w)
         /\ \A w : Contains(b.words, w) => Contains(c.words, w)
<1> DEFINE m == Len(b.words)
           n == Len(new)
<1>1. /\ new \in Seq(STRING)
      /\ \A i, j \in 1..n : new[i] = new[j] => i = j
      /\ \A w \in NewWords(b, a, view) : Contains(new, w)
  BY NewWordsSeq
<1>2. b.words \in Seq(STRING) /\ \A i, j \in 1..m : b.words[i] = b.words[j] => i = j
  BY DEF WordLists
<1>3. \A i \in 1..n, j \in 1..m : b.words[j] # new[i]
  BY <1>2, NewWordsSeq DEF Contains
<1>4. m \in Nat /\ n \in Nat
  BY <1>1, <1>2
<1>5. /\ c.words \in Seq(STRING) /\ Len(c.words) = m + n
      /\ \A i \in 1..m : c.words[i] = b.words[i]
      /\ \A i \in 1..n : c.words[m + i] = new[i]
  <2>1. /\ c.words \in Seq(STRING) /\ Len(c.words) = m + n
        /\ \A i \in 1..m + n : c.words[i] = IF i <= m THEN b.words[i] ELSE new[i - m]
    BY <1>1, <1>2, ConcatProperties
  <2>2. ASSUME NEW i \in 1..n PROVE c.words[m + i] = new[i]
    <3>1. m + i \in 1..m + n /\ ~(m + i <= m) /\ (m + i) - m = i
      BY <1>4
    <3> QED BY <2>1, <3>1
  <2> QED BY <1>4, <2>1, <2>2
<1>6. ASSUME NEW i \in 1..m + n, i \notin 1..m
      PROVE  \E k \in 1..n : i = m + k
  <2>1. i - m \in 1..n /\ i = m + (i - m)
    BY <1>4, <1>6
  <2> QED BY <2>1
<1> HIDE DEF m, n
<1>7. ASSUME NEW i \in 1..m + n, NEW j \in 1..m + n, c.words[i] = c.words[j]
      PROVE  i = j
  <2>1. CASE i \in 1..m /\ j \in 1..m
    BY <1>2, <1>5, <1>7, <2>1
  <2>2. CASE i \in 1..m /\ j \notin 1..m
    <3>1. PICK k \in 1..n : j = m + k
      BY <1>6, <2>2
    <3>2. c.words[i] = b.words[i] /\ c.words[j] = new[k]
      BY <1>5, <2>2, <3>1
    <3> QED BY <1>3, <1>7, <2>2, <3>2
  <2>3. CASE i \notin 1..m /\ j \in 1..m
    <3>1. PICK k \in 1..n : i = m + k
      BY <1>6, <2>3
    <3>2. c.words[j] = b.words[j] /\ c.words[i] = new[k]
      BY <1>5, <2>3, <3>1
    <3> QED BY <1>3, <1>7, <2>3, <3>2
  <2>4. CASE i \notin 1..m /\ j \notin 1..m
    <3>1. PICK k \in 1..n : i = m + k
      BY <1>6, <2>4
    <3>2. PICK l \in 1..n : j = m + l
      BY <1>6, <2>4
    <3>3. c.words[i] = new[k] /\ c.words[j] = new[l]
      BY <1>5, <3>1, <3>2
    <3>4. k = l
      BY <1>1, <1>7, <3>3
    <3> QED BY <3>1, <3>2, <3>4
  <2> QED BY <2>1, <2>2, <2>3, <2>4
<1>8. WordLists(c)
  BY <1>5, <1>7 DEF WordLists
<1>9. Extends(c, b)
  BY <1>4, <1>5 DEF Extends, m
<1>10. ASSUME NEW w, Contains(b.words, w) \/ Contains(new, w) PROVE Contains(c.words, w)
  <2>1. CASE Contains(b.words, w)
    <3>1. PICK i \in 1..m : b.words[i] = w
      BY <2>1 DEF Contains, m
    <3>2. i \in 1..m + n /\ c.words[i] = w
      BY <1>4, <1>5, <3>1
    <3> QED BY <1>5, <3>2 DEF Contains
  <2>2. CASE Contains(new, w)
    <3>1. PICK i \in 1..n : new[i] = w
      BY <2>2 DEF Contains, n
    <3>2. c.words[m + i] = w
      BY <1>5, <3>1
    <3>3. m + i \in 1..m + n
      BY <1>4
    <3> QED BY <1>5, <3>2, <3>3 DEF Contains
  <2> QED BY <1>10, <2>1, <2>2
<1> QED BY <1>1, <1>8, <1>9, <1>10

-----------------------------------------------------------------------------
(* What a batch says: entries *)

\* The indexes that the entries up to the k-th use for names.
Idx(b, k) == UNION {DOMAIN b.entries[j] : j \in 1..k}

\* Entry j is the last one up to the k-th that gives index i a value.
Latest(b, k, i, j) ==
  /\ j \in 1..k /\ i \in DOMAIN b.entries[j]
  /\ \A m \in j+1..k : i \notin DOMAIN b.entries[m]

\* There is one such entry.
LEMMA LatestIsOne ==
  ASSUME NEW b, NEW k \in Nat, NEW i \in Idx(b, k)
  PROVE  /\ \E j : Latest(b, k, i, j)
         /\ \A j, l : Latest(b, k, i, j) /\ Latest(b, k, i, l) => j = l
<1> DEFINE D(j) == i \in DOMAIN b.entries[j]
<1>1. \E j \in 1..k : D(j)
  BY DEF Idx
<1>2. \A j : Latest(b, k, i, j) <=> j \in 1..k /\ D(j) /\ \A m \in j+1..k : ~D(m)
  BY DEF Latest
<1> HIDE DEF D
<1>3. \E j \in 1..k : D(j) /\ \A m \in j+1..k : ~D(m)
  <2> DEFINE T == {n \in Nat : k - n \in 1..k /\ D(k - n)}
  <2>1. T # {}
    <3>1. PICK j \in 1..k : D(j)
      BY <1>1
    <3>2. k - j \in Nat /\ k - (k - j) = j
      OBVIOUS
    <3>3. k - j \in T
      BY <3>1, <3>2
    <3> QED BY <3>3
  <2>2. PICK n \in T : \A l \in T : n <= l
    <3>1. T \subseteq Nat
      OBVIOUS
    <3> HIDE DEF T
    <3> QED BY <2>1, <3>1, LeastNat
  <2>3. ASSUME NEW m \in (k - n)+1..k PROVE ~D(m)
    <3>1. k - m \in Nat /\ k - (k - m) = m /\ m \in 1..k /\ ~(n <= k - m)
      OBVIOUS
    <3>2. k - m \notin T
      BY <2>2, <3>1
    <3> QED BY <3>1, <3>2
  <2> QED BY <2>2, <2>3
<1>4. ASSUME NEW j \in 1..k, NEW l \in 1..k, D(j), D(l),
             \A m \in j+1..k : ~D(m), \A m \in l+1..k : ~D(m)
      PROVE  j = l
  <2>1. l \notin j+1..k /\ j \notin l+1..k
    BY <1>4
  <2> QED BY <2>1
<1> QED BY <1>2, <1>3, <1>4

\* What the k-th entry says, by index, when no two of its indexes stand for one word.
LEMMA DecodeEntryAt ==
  ASSUME NEW b, NEW k \in Nat,
         \A i, l \in Idx(b, k) : WordAt(b, i) = WordAt(b, l) => i = l
  PROVE  LET d == DecodeEntry(b, k)
         IN /\ DOMAIN d = {WordAt(b, i) : i \in Idx(b, k)}
            /\ d = [w \in DOMAIN d |-> d[w]]
            /\ \A i \in Idx(b, k) : \A j :
                 Latest(b, k, i, j) => d[WordAt(b, i)] = DecodeValue(b, b.entries[j][i])
<1> DEFINE I == Idx(b, k)
           d == DecodeEntry(b, k)
           at(w) == CHOOSE i \in I : WordAt(b, i) = w
           last(i) == CHOOSE j \in 1..k : /\ i \in DOMAIN b.entries[j]
                                          /\ \A m \in j+1..k : i \notin DOMAIN b.entries[m]
           v(w) == DecodeValue(b, b.entries[last(at(w))][at(w)])
<1>1. d = [w \in {WordAt(b, i) : i \in I} |-> v(w)]
  BY DEF DecodeEntry, Idx
<1>2. ASSUME NEW i \in I PROVE at(WordAt(b, i)) = i
  <2> HIDE DEF I
  <2>1. at(WordAt(b, i)) \in I /\ WordAt(b, at(WordAt(b, i))) = WordAt(b, i)
    OBVIOUS
  <2> HIDE DEF at
  <2> QED BY <2>1 DEF I
<1>3. ASSUME NEW i \in I, NEW j, Latest(b, k, i, j) PROVE last(i) = j
  <2>1. Latest(b, k, i, last(i))
    BY <1>3 DEF Latest
  <2> HIDE DEF last
  <2> QED BY <1>3, <2>1, LatestIsOne
<1> HIDE DEF I, at, last, d
<1>4. ASSUME NEW i \in I, NEW j, Latest(b, k, i, j)
      PROVE  d[WordAt(b, i)] = DecodeValue(b, b.entries[j][i])
  <2>1. last(i) = j /\ at(WordAt(b, i)) = i
    BY <1>2, <1>3, <1>4
  <2>2. d[WordAt(b, i)] = v(WordAt(b, i))
    <3> HIDE DEF v
    <3> QED BY <1>1
  <2> QED BY <2>1, <2>2
<1>5. DOMAIN d = {WordAt(b, i) : i \in I} /\ d = [w \in DOMAIN d |-> d[w]]
  <2> HIDE DEF v
  <2> QED BY <1>1
<1> QED BY <1>4, <1>5 DEF I, d

\* Entry e only uses indexes that b has a word for.
EntryOK(b, e) ==
  \A i \in DOMAIN e : /\ i \in Valid(b)
                      /\ \A p \in DOMAIN e[i].idx : e[i].idx[p] \in Valid(b)

\* A batch under construction.  prev_map_ has exactly the indexes that occur in the
\* entries, each stands for a word of its own, and its value is the one that the
\* latest of these entries spells.
GoodBatch(b) ==
  /\ WordLists(b) /\ IsSeq(b.entries)
  /\ \A k \in 1..Len(b.entries) : EntryOK(b, b.entries[k])
  /\ DOMAIN b.prev = Idx(b, Len(b.entries))
  /\ \A i, j \in DOMAIN b.prev : WordAt(b, i) = WordAt(b, j) => i = j
  /\ \A i \in DOMAIN b.prev : \A j :
       Latest(b, Len(b.entries), i, j) => DecodeValue(b, b.entries[j][i]) = b.prev[i]

\* An entry's values say the same after more words.
LEMMA ValueKept ==
  ASSUME NEW b, NEW c, WordLists(b), WordLists(c), Extends(c, b),
         NEW e, \A p \in DOMAIN e.idx : e.idx[p] \in Valid(b)
  PROVE  DecodeValue(c, e) = DecodeValue(b, e)
<1>1. \A i \in Valid(b) : WordAt(c, i) = WordAt(b, i)
  BY MoreWords, Zenon
<1>2. \A p \in DOMAIN e.idx : WordAt(c, e.idx[p]) = WordAt(b, e.idx[p])
  BY <1>1
<1> DEFINE f(x) == [p \in DOMAIN e.idx |-> WordAt(x, e.idx[p])]
<1>3. f(c) = f(b)
  BY <1>2
<1> HIDE DEF f
<1>4. DecodeValue(c, e) = [raw |-> e.raw, words |-> f(c)]
      /\ DecodeValue(b, e) = [raw |-> e.raw, words |-> f(b)]
  BY DEF DecodeValue, f
<1> QED BY <1>3, <1>4

\* Indexes up to the k-th entry are indexes of the batch.
LEMMA IdxGrows ==
  ASSUME NEW b, NEW n \in Nat, NEW k \in 0..n
  PROVE  Idx(b, k) \subseteq Idx(b, n)
<1>1. 1..k \subseteq 1..n
  OBVIOUS
<1> QED BY <1>1 DEF Idx

\* The entries that are there say the same after more words and more entries.
LEMMA EntriesKept ==
  ASSUME NEW b, GoodBatch(b), NEW c, WordLists(c), Extends(c, b),
         NEW k \in 1..Len(b.entries),
         \A j \in 1..k : c.entries[j] = b.entries[j]
  PROVE  DecodeEntry(c, k) = DecodeEntry(b, k)
<1> DEFINE I == Idx(b, k)
<1>0. k \in Nat /\ Len(b.entries) \in Nat /\ k \in 0..Len(b.entries)
  <2>1. Len(b.entries) \in Nat
    BY DEF GoodBatch, IsSeq
  <2> QED BY <2>1
<1>1. I \subseteq DOMAIN b.prev
  BY <1>0, IdxGrows DEF GoodBatch
<1>2. WordLists(b)
  BY DEF GoodBatch
<1>3. \A i \in Valid(b) : WordAt(c, i) = WordAt(b, i)
  BY <1>2, MoreWords, Zenon
<1>4. \A j \in 1..k : EntryOK(b, b.entries[j])
  BY <1>0 DEF GoodBatch
<1>5. I \subseteq Valid(b)
  BY <1>4 DEF Idx, EntryOK
<1>6. Idx(c, k) = I
  BY DEF Idx
<1>7. \A i, l \in I : WordAt(b, i) = WordAt(b, l) => i = l
  BY <1>1 DEF GoodBatch
<1>8. \A i, l \in Idx(c, k) : WordAt(c, i) = WordAt(c, l) => i = l
  BY <1>3, <1>5, <1>6, <1>7
<1>9. \A i, j : Latest(c, k, i, j) <=> Latest(b, k, i, j)
  <2>1. ASSUME NEW j \in 1..k PROVE j+1..k \subseteq 1..k
    BY <1>0
  <2>2. \A j \in 1..k : \A m \in j+1..k : c.entries[m] = b.entries[m]
    BY <2>1
  <2> QED BY <2>2 DEF Latest
<1> DEFINE d == DecodeEntry(b, k)
           e == DecodeEntry(c, k)
<1>10. /\ DOMAIN d = {WordAt(b, i) : i \in I} /\ d = [w \in DOMAIN d |-> d[w]]
       /\ \A i \in I : \A j : Latest(b, k, i, j) =>
                            d[WordAt(b, i)] = DecodeValue(b, b.entries[j][i])
  BY <1>0, <1>7, DecodeEntryAt
<1>11. /\ DOMAIN e = {WordAt(c, i) : i \in I} /\ e = [w \in DOMAIN e |-> e[w]]
       /\ \A i \in I : \A j : Latest(c, k, i, j) =>
                            e[WordAt(c, i)] = DecodeValue(c, c.entries[j][i])
  BY <1>0, <1>6, <1>8, DecodeEntryAt
<1> HIDE DEF I, d, e
<1>12. DOMAIN d = DOMAIN e
  <2>1. {WordAt(c, i) : i \in I} = {WordAt(b, i) : i \in I}
    BY <1>3, <1>5
  <2> QED BY <1>10, <1>11, <2>1
<1>13. ASSUME NEW i \in I PROVE d[WordAt(b, i)] = e[WordAt(b, i)]
  <2>1. PICK j : Latest(b, k, i, j)
    BY <1>0, LatestIsOne DEF I
  <2>2. j \in 1..k /\ i \in DOMAIN b.entries[j]
    BY <2>1 DEF Latest
  <2>3. DecodeValue(c, b.entries[j][i]) = DecodeValue(b, b.entries[j][i])
    <3>1. \A p \in DOMAIN b.entries[j][i].idx : b.entries[j][i].idx[p] \in Valid(b)
      BY <1>4, <2>2 DEF EntryOK
    <3> QED BY <1>2, <3>1, ValueKept
  <2>4. d[WordAt(b, i)] = DecodeValue(b, b.entries[j][i])
    BY <1>10, <2>1
  <2>5. e[WordAt(c, i)] = DecodeValue(c, b.entries[j][i])
    BY <1>9, <1>11, <2>1, <2>2
  <2>6. WordAt(c, i) = WordAt(b, i)
    BY <1>3, <1>5
  <2> QED BY <2>3, <2>4, <2>5, <2>6
<1>14. \A w \in DOMAIN d : d[w] = e[w]
  BY <1>10, <1>13
<1> QED BY <1>10, <1>11, <1>12, <1>14 DEF d, e

-----------------------------------------------------------------------------
(* What a batch says: Add *)

\* No lookup of a saw a larger dictionary than the batch announces.
ViewBelow(a, view, n) == \A l \in Lookups(a) : view[l] \in Int /\ view[l] <= n

\* Every word that is looked up is a global one or has its place in the message.
LEMMA LookedUp ==
  ASSUME NEW b, WordLists(b), NEW a \in Reports, NEW view,
         NEW new \in SetToSeqs(NewWords(b, a, view)),
         NEW c, c.gwc = b.gwc, c.words = b.words \o new,
         NEW l \in Lookups(a), l[2] = 0 \/ l[1] \in Changed(b, a, view)
  PROVE  InGlobal(WordOf(a, l), view[l]) \/ Contains(c.words, WordOf(a, l))
<1> DEFINE w == WordOf(a, l)
<1>1. /\ \A v \in NewWords(b, a, view) : Contains(c.words, v)
      /\ \A v : Contains(b.words, v) => Contains(c.words, v)
  BY WordsAppended
<1>2. InGlobal(w, view[l]) \/ w \in NewWords(b, a, view) \/ w \in ToSet(b.words)
  BY DEF NewWords
<1>3. w \in ToSet(b.words) => Contains(b.words, w)
  <2>1. DOMAIN b.words = 1..Len(b.words)
    BY DEF WordLists
  <2> QED BY <2>1 DEF ToSet, Contains
<1> QED BY <1>1, <1>2, <1>3

\* The lookups of a report.
LEMMA LookupsOf ==
  ASSUME NEW a \in Reports, NEW n \in DOMAIN a
  PROVE  /\ <<n, 0>> \in Lookups(a) /\ WordOf(a, <<n, 0>>) = n
         /\ \A p \in 1..Len(a[n].words) :
              /\ <<n, p>> \in Lookups(a) /\ <<n, p>>[1] = n
              /\ WordOf(a, <<n, p>>) = a[n].words[p]
<1>1. Len(a[n].words) \in Nat
  BY ReportShape
<1>2. \A p \in 0..Len(a[n].words) : <<n, p>> \in Lookups(a)
  BY DEF Lookups
<1>3. 0 \in 0..Len(a[n].words) /\ 1..Len(a[n].words) \subseteq 0..Len(a[n].words)
  BY <1>1
<1>4. \A p \in 1..Len(a[n].words) : p # 0
  OBVIOUS
<1> QED BY <1>2, <1>3, <1>4 DEF WordOf

\* What the compressed attributes r of a look like: ix are the indexes of the names.
Compressed(b, a, view, r, ix) ==
  LET c == r.batch
  IN /\ WordLists(c) /\ Extends(c, b)
     /\ \A n \in DOMAIN a : ix[n] \in Valid(c) /\ WordAt(c, ix[n]) = n
     /\ DOMAIN c.prev = {ix[n] : n \in DOMAIN a}
     /\ \A n \in DOMAIN a : c.prev[ix[n]] = a[n]
     /\ r.ok = (DOMAIN b.prev \subseteq {ix[n] : n \in DOMAIN a})
     /\ \E e : /\ c.entries = IF r.ok THEN Append(b.entries, e) ELSE b.entries
               /\ DOMAIN e = {ix[n] : n \in Changed(b, a, view)}
               /\ \A n \in Changed(b, a, view) :
                    /\ \A p \in DOMAIN e[ix[n]].idx : e[ix[n]].idx[p] \in Valid(c)
                    /\ DecodeValue(c, e[ix[n]]) = a[n]
     /\ \A n \in DOMAIN a \ Changed(b, a, view) :
          ix[n] \in DOMAIN b.prev /\ b.prev[ix[n]] = a[n]

\* CompressByDict encodes every name and every changed value so that they decode to
\* what they were, and leaves out what the previous entries have set.
LEMMA CompressDoes ==
  ASSUME NEW b, WordLists(b), NEW a \in Reports, NEW view, ViewBelow(a, view, b.gwc),
         NEW new \in SetToSeqs(NewWords(b, a, view)),
         NEW r, r = CompressByDict(b, a, view, new)
  PROVE  \E ix : Compressed(b, a, view, r, ix)
<1> DEFINE c == r.batch
           ws == b.words \o new
           ch == Changed(b, a, view)
           ix == [n \in DOMAIN a |-> GetIndex(n, view[<<n, 0>>], ws)]
           name(i) == CHOOSE n \in DOMAIN a : ix[n] = i
           value(n) == [raw |-> a[n].raw,
                        idx |-> [p \in 1..Len(a[n].words) |->
                                   GetIndex(a[n].words[p], view[<<n, p>>], ws)]]
           e == [i \in {ix[n] : n \in ch} |-> value(name(i))]
<1>1. c.gwc = b.gwc /\ c.words = ws
  BY DEF CompressByDict
<1>2. /\ r.ok = DeltaOk(b, {ix[n] : n \in DOMAIN a})
      /\ c.prev = [i \in {ix[n] : n \in DOMAIN a} |-> a[name(i)]]
      /\ c.entries = IF r.ok THEN Append(b.entries, e) ELSE b.entries
  BY DEF CompressByDict
<1>3. WordLists(c) /\ Extends(c, b)
  <2> HIDE DEF c
  <2> QED BY <1>1, WordsAppended
<1>4. ch \subseteq DOMAIN a
  BY DEF Changed
<1>5. ASSUME NEW l \in Lookups(a), l[2] = 0 \/ l[1] \in ch
      PROVE  /\ GetIndex(WordOf(a, l), view[l], c.words) \in Valid(c)
             /\ WordAt(c, GetIndex(WordOf(a, l), view[l], c.words)) = WordOf(a, l)
  <2>1. view[l] \in Int /\ view[l] <= c.gwc
    BY <1>1 DEF ViewBelow
  <2> HIDE DEF c
  <2>2. InGlobal(WordOf(a, l), view[l]) \/ Contains(c.words, WordOf(a, l))
    BY <1>1, <1>5, LookedUp
  <2> QED BY <1>3, <2>1, <2>2, IndexedWord
<1> HIDE DEF c, ch, ws
<1>6. ASSUME NEW n \in DOMAIN a PROVE ix[n] \in Valid(c) /\ WordAt(c, ix[n]) = n
  <2>1. <<n, 0>> \in Lookups(a) /\ WordOf(a, <<n, 0>>) = n /\ <<n, 0>>[2] = 0
    BY LookupsOf
  <2>2. /\ GetIndex(n, view[<<n, 0>>], c.words) \in Valid(c)
        /\ WordAt(c, GetIndex(n, view[<<n, 0>>], c.words)) = n
    BY <1>5, <2>1
  <2> QED BY <1>1, <2>2
<1>7. ASSUME NEW n \in ch, NEW p \in 1..Len(a[n].words)
      PROVE  /\ value(n).idx[p] \in Valid(c) /\ WordAt(c, value(n).idx[p]) = a[n].words[p]
  <2>1. <<n, p>> \in Lookups(a) /\ WordOf(a, <<n, p>>) = a[n].words[p] /\ <<n, p>>[1] = n
    BY <1>4, LookupsOf
  <2>2. /\ GetIndex(a[n].words[p], view[<<n, p>>], c.words) \in Valid(c)
        /\ WordAt(c, GetIndex(a[n].words[p], view[<<n, p>>], c.words)) = a[n].words[p]
    BY <1>5, <2>1
  <2> QED BY <1>1, <2>2
<1>8. \A n \in ch : DOMAIN value(n).idx = 1..Len(a[n].words) /\ value(n).raw = a[n].raw
  OBVIOUS
<1>9. ASSUME NEW n \in DOMAIN a \ ch PROVE ix[n] \in DOMAIN b.prev /\ b.prev[ix[n]] = a[n]
  <2>1. PICK i \in NameIndex(b, a, view, n) : SameAsPrev(b, i, a[n])
    BY <1>9 DEF ch, Changed
  <2>2. /\ InGlobal(n, view[<<n, 0>>]) \/ Contains(b.words, n)
        /\ i = GetIndex(n, view[<<n, 0>>], b.words)
    BY <2>1 DEF NameIndex
  <2>3. GetIndex(n, view[<<n, 0>>], c.words) = i
    BY <1>3, <2>2, MoreWords
  <2> QED BY <1>1, <2>1, <2>3 DEF SameAsPrev
<1> HIDE DEF ix, value
<1>10. ASSUME NEW n \in DOMAIN a PROVE name(ix[n]) = n
  <2>1. name(ix[n]) \in DOMAIN a /\ ix[name(ix[n])] = ix[n]
    OBVIOUS
  <2> HIDE DEF name
  <2>2. WordAt(c, ix[name(ix[n])]) = name(ix[n]) /\ WordAt(c, ix[n]) = n
    BY <1>6, <2>1
  <2> QED BY <2>1, <2>2
<1> HIDE DEF name
<1>11. \A n \in DOMAIN a : c.prev[ix[n]] = a[n]
  BY <1>2, <1>10
<1>12. DOMAIN c.prev = {ix[n] : n \in DOMAIN a}
  BY <1>2
<1>13. DOMAIN e = {ix[n] : n \in ch} /\ \A n \in ch : e[ix[n]] = value(n)
  BY <1>4, <1>10
<1>14. ASSUME NEW n \in ch PROVE DecodeValue(c, value(n)) = a[n]
  <2>1. a[n].words \in Seq(STRING) /\ a[n] = [raw |-> a[n].raw, words |-> a[n].words]
    BY <1>4, ReportShape
  <2>2. [p \in DOMAIN value(n).idx |-> WordAt(c, value(n).idx[p])] = a[n].words
    <3>1. DOMAIN a[n].words = 1..Len(a[n].words)
          /\ a[n].words = [p \in DOMAIN a[n].words |-> a[n].words[p]]
      BY <2>1
    <3> QED BY <1>7, <1>8, <3>1
  <2> QED BY <1>8, <2>1, <2>2 DEF DecodeValue
<1>15. \A n \in ch : /\ \A p \in DOMAIN e[ix[n]].idx : e[ix[n]].idx[p] \in Valid(c)
                     /\ DecodeValue(c, e[ix[n]]) = a[n]
  BY <1>7, <1>8, <1>13, <1>14
<1>16. r.ok = (DOMAIN b.prev \subseteq {ix[n] : n \in DOMAIN a})
  BY <1>2 DEF DeltaOk
<1> HIDE DEF e
<1>17. Compressed(b, a, view, r, ix)
  BY <1>2, <1>3, <1>6, <1>9, <1>11, <1>12, <1>13, <1>15, <1>16 DEF Compressed, c, ch
<1> QED BY <1>17

\* An entry that does not go on top of what the receiver has is not added; one that
\* does is decoded to the attributes reported, and leaves the batch good for more.
LEMMA AddDecodes ==
  ASSUME NEW b, GoodBatch(b), DecodeBatch(b) \in Seq(Reports),
         NEW a \in Reports, NEW view, ViewBelow(a, view, b.gwc), NEW r \in Add(b, a, view)
  PROVE  /\ r.batch.gwc = b.gwc
         /\ r.ok => GoodBatch(r.batch) /\ DecodeBatch(r.batch) = Append(DecodeBatch(b), a)
         /\ ~r.ok => DecodeBatch(r.batch) = DecodeBatch(b)
<1> DEFINE c == r.batch
           ch == Changed(b, a, view)
           k == Len(b.entries)
<1>1. PICK ix : Compressed(b, a, view, r, ix)
  <2>1. PICK new \in SetToSeqs(NewWords(b, a, view)) : r = CompressByDict(b, a, view, new)
    BY DEF Add
  <2> QED BY <2>1, CompressDoes DEF GoodBatch
<1>2. WordLists(c) /\ Extends(c, b) /\ WordLists(b)
  BY <1>1 DEF Compressed, GoodBatch
<1>3. \A n \in DOMAIN a : ix[n] \in Valid(c) /\ WordAt(c, ix[n]) = n
  BY <1>1 DEF Compressed
<1>4. PICK e : /\ c.entries = IF r.ok THEN Append(b.entries, e) ELSE b.entries
               /\ DOMAIN e = {ix[n] : n \in ch}
               /\ \A n \in ch :
                    /\ \A p \in DOMAIN e[ix[n]].idx : e[ix[n]].idx[p] \in Valid(c)
                    /\ DecodeValue(c, e[ix[n]]) = a[n]
  BY <1>1 DEF Compressed
<1>5. ch \subseteq DOMAIN a
  BY DEF Changed
<1>6. /\ \A n \in DOMAIN a : c.prev[ix[n]] = a[n]
      /\ DOMAIN c.prev = {ix[n] : n \in DOMAIN a}
      /\ r.ok = (DOMAIN b.prev \subseteq {ix[n] : n \in DOMAIN a})
      /\ \A n \in DOMAIN a \ ch : ix[n] \in DOMAIN b.prev /\ b.prev[ix[n]] = a[n]
  BY <1>1 DEF Compressed
<1>7. k \in Nat /\ IsSeq(b.entries)
  BY DEF GoodBatch, IsSeq
<1>8. /\ \A j \in 1..k : EntryOK(b, b.entries[j])
      /\ DOMAIN b.prev = Idx(b, k)
      /\ \A i \in DOMAIN b.prev : \A j :
           Latest(b, k, i, j) => DecodeValue(b, b.entries[j][i]) = b.prev[i]
  BY DEF GoodBatch
<1>9. Valid(b) \subseteq Valid(c)
  BY <1>2, MoreWords, Zenon
<1>10. c.gwc = b.gwc
  BY <1>2 DEF Extends
<1>11. Len(DecodeBatch(b)) = k
  BY <1>7 DEF DecodeBatch
<1> HIDE DEF c, ch, k
<1>12. ASSUME NEW j \in 1..k, \A m \in 1..j : c.entries[m] = b.entries[m]
       PROVE  DecodeEntry(c, j) = DecodeEntry(b, j)
  BY <1>2, <1>12, EntriesKept DEF k
<1>13. CASE ~r.ok
  <2>1. c.entries = b.entries
    BY <1>4, <1>13
  <2>2. \A j \in 1..k : DecodeEntry(c, j) = DecodeEntry(b, j)
    BY <1>12, <2>1
  <2>3. DecodeBatch(c) = DecodeBatch(b)
    BY <2>1, <2>2 DEF DecodeBatch, k
  <2> QED BY <1>10, <1>13, <2>3 DEF c
<1>14. CASE r.ok
  <2>1. /\ IsSeq(c.entries) /\ Len(c.entries) = k + 1
        /\ c.entries[k + 1] = e
        /\ \A j \in 1..k : c.entries[j] = b.entries[j]
    <3>1. PICK S : b.entries \in Seq(S)
      BY <1>7 DEF IsSeq
    <3>2. b.entries \in Seq(S \cup {e}) /\ e \in S \cup {e}
      BY <3>1
    <3>3. c.entries = Append(b.entries, e)
      BY <1>4, <1>14
    <3>4. /\ c.entries \in Seq(S \cup {e}) /\ Len(c.entries) = k + 1
          /\ c.entries[k + 1] = e
          /\ \A j \in 1..k : c.entries[j] = b.entries[j]
      BY <3>2, <3>3, AppendProperties DEF k
    <3> QED BY <3>4 DEF IsSeq
  <2>2. \A j \in 1..k : \A m \in 1..j : c.entries[m] = b.entries[m]
    <3>1. \A j \in 1..k : \A m \in 1..j : m \in 1..k
      BY <1>7
    <3> QED BY <2>1, <3>1
  <2>3. Idx(c, k + 1) = Idx(b, k) \cup DOMAIN e
    <3>1. 1..k+1 = 1..k \cup {k + 1}
      BY <1>7
    <3> QED BY <2>1, <3>1 DEF Idx
  <2>4. Idx(c, k + 1) = DOMAIN c.prev
    <3>1. DOMAIN e \subseteq DOMAIN c.prev
      BY <1>4, <1>5, <1>6
    <3>2. DOMAIN b.prev \subseteq DOMAIN c.prev
      BY <1>6, <1>14
    <3>3. \A n \in DOMAIN a : ix[n] \in DOMAIN b.prev \/ ix[n] \in DOMAIN e
      BY <1>4, <1>6
    <3>4. \A i \in DOMAIN c.prev : i \in DOMAIN b.prev \/ i \in DOMAIN e
      BY <1>6, <3>3
    <3> QED BY <1>8, <2>3, <3>1, <3>2, <3>4
  <2>5. \A i, j \in DOMAIN c.prev : WordAt(c, i) = WordAt(c, j) => i = j
    BY <1>3, <1>6
  <2>6. ASSUME NEW n \in DOMAIN a, NEW j, Latest(c, k + 1, ix[n], j)
        PROVE  DecodeValue(c, c.entries[j][ix[n]]) = a[n]
    <3>1. /\ j \in 1..k+1 /\ ix[n] \in DOMAIN c.entries[j]
          /\ \A m \in j+1..k+1 : ix[n] \notin DOMAIN c.entries[m]
      BY <2>6 DEF Latest
    <3>2. CASE n \in ch
      <4>1. ix[n] \in DOMAIN c.entries[k + 1]
        BY <1>4, <2>1, <3>2
      <4>2. j = k + 1
        <5>1. j # k + 1 => k + 1 \in j+1..k+1
          BY <1>7, <3>1
        <5> QED BY <3>1, <4>1, <5>1
      <4> QED BY <1>4, <2>1, <3>2, <4>2
    <3>3. CASE n \notin ch
      <4>1. ix[n] \notin DOMAIN e
        <5>1. \A m \in ch : ix[m] = ix[n] => m = n
          BY <1>3, <1>5
        <5> QED BY <1>4, <3>3, <5>1
      <4>2. j # k + 1
        BY <2>1, <3>1, <4>1
      <4>3. j \in 1..k /\ j+1..k \subseteq j+1..k+1 /\ j+1..k \subseteq 1..k
        BY <1>7, <3>1, <4>2
      <4>4. c.entries[j] = b.entries[j] /\ \A m \in j+1..k : c.entries[m] = b.entries[m]
        BY <2>1, <4>3
      <4>5. Latest(b, k, ix[n], j)
        BY <3>1, <4>3, <4>4 DEF Latest
      <4>6. DecodeValue(b, b.entries[j][ix[n]]) = a[n]
        BY <1>6, <1>8, <3>3, <4>5
      <4>7. \A p \in DOMAIN b.entries[j][ix[n]].idx : b.entries[j][ix[n]].idx[p] \in Valid(b)
        BY <1>8, <3>1, <4>3, <4>4 DEF EntryOK
      <4>8. DecodeValue(c, b.entries[j][ix[n]]) = DecodeValue(b, b.entries[j][ix[n]])
        BY <1>2, <4>7, ValueKept
      <4> QED BY <4>4, <4>6, <4>8
    <3> QED BY <3>2, <3>3
  <2>7. \A j \in 1..k+1 : EntryOK(c, c.entries[j])
    <3>1. EntryOK(c, e)
      BY <1>3, <1>4, <1>5 DEF EntryOK
    <3>2. \A j \in 1..k : EntryOK(c, c.entries[j])
      BY <1>8, <1>9, <2>1 DEF EntryOK
    <3>3. \A j \in 1..k+1 : j \in 1..k \/ j = k + 1
      BY <1>7
    <3> QED BY <2>1, <3>1, <3>2, <3>3
  <2>8. GoodBatch(c)
    <3>1. \A i \in DOMAIN c.prev : \A j :
            Latest(c, k + 1, i, j) => DecodeValue(c, c.entries[j][i]) = c.prev[i]
      BY <1>6, <2>6
    <3> QED BY <1>2, <2>1, <2>4, <2>5, <2>7, <3>1 DEF GoodBatch
  <2>9. DecodeEntry(c, k + 1) = a
    <3> DEFINE d == DecodeEntry(c, k + 1)
    <3>0. k + 1 \in Nat
      BY <1>7
    <3>1. /\ DOMAIN d = {WordAt(c, i) : i \in Idx(c, k + 1)}
          /\ d = [w \in DOMAIN d |-> d[w]]
          /\ \A i \in Idx(c, k + 1) : \A j :
               Latest(c, k + 1, i, j) => d[WordAt(c, i)] = DecodeValue(c, c.entries[j][i])
      <4>1. \A i, l \in Idx(c, k + 1) : WordAt(c, i) = WordAt(c, l) => i = l
        BY <2>4, <2>5
      <4> QED BY <3>0, <4>1, DecodeEntryAt
    <3> HIDE DEF d
    <3>2. DOMAIN d = DOMAIN a
      <4>1. \A i \in Idx(c, k + 1) : \E n \in DOMAIN a : i = ix[n]
        BY <1>6, <2>4
      <4>2. \A n \in DOMAIN a : ix[n] \in Idx(c, k + 1)
        BY <1>6, <2>4
      <4>3. DOMAIN d = {WordAt(c, i) : i \in Idx(c, k + 1)}
        BY <3>1
      <4>4. \A w \in DOMAIN d : w \in DOMAIN a
        BY <1>3, <4>1, <4>3
      <4>5. \A n \in DOMAIN a : n \in DOMAIN d
        BY <1>3, <4>2, <4>3
      <4> QED BY <4>4, <4>5
    <3>3. ASSUME NEW n \in DOMAIN a PROVE d[n] = a[n]
      <4>1. ix[n] \in Idx(c, k + 1)
        BY <1>6, <2>4
      <4>2. PICK j : Latest(c, k + 1, ix[n], j)
        BY <3>0, <4>1, LatestIsOne
      <4>3. d[WordAt(c, ix[n])] = DecodeValue(c, c.entries[j][ix[n]])
        BY <3>1, <4>1, <4>2
      <4> QED BY <1>3, <2>6, <4>2, <4>3
    <3>4. a = [n \in DOMAIN a |-> a[n]]
      BY ReportShape
    <3> QED BY <3>1, <3>2, <3>3, <3>4 DEF d
  <2>10. DecodeBatch(c) = Append(DecodeBatch(b), a)
    <3> DEFINE x == DecodeBatch(b)
               y == Append(x, a)
               z == DecodeBatch(c)
    <3>1. z = [j \in 1..k+1 |-> DecodeEntry(c, j)]
      BY <2>1 DEF DecodeBatch
    <3>2. x = [j \in 1..k |-> DecodeEntry(b, j)]
      BY DEF DecodeBatch, k
    <3> HIDE DEF x, z
    <3>3. x \in Seq(Reports) /\ Len(x) = k
      BY <1>11 DEF x
    <3>4. /\ y \in Seq(Reports) /\ Len(y) = k + 1 /\ y[k + 1] = a
          /\ \A j \in 1..k : y[j] = x[j]
      BY <3>3, AppendProperties
    <3> HIDE DEF y
    <3>5. ASSUME NEW j \in 1..k+1 PROVE z[j] = y[j]
      <4>1. CASE j = k + 1
        BY <2>9, <3>1, <3>4, <4>1
      <4>2. CASE j # k + 1
        <5>1. j \in 1..k
          BY <1>7, <4>2
        <5>2. DecodeEntry(c, j) = DecodeEntry(b, j)
          BY <1>12, <2>2, <5>1
        <5> QED BY <3>1, <3>2, <3>4, <5>1, <5>2
      <4> QED BY <4>1, <4>2
    <3>6. DOMAIN y = 1..k+1 /\ y = [j \in DOMAIN y |-> y[j]]
      BY <3>4
    <3>7. z = y
      BY <3>1, <3>5, <3>6
    <3> QED BY <3>7 DEF x, y, z
  <2> QED BY <1>10, <1>14, <2>8, <2>10 DEF c
<1> QED BY <1>13, <1>14

-----------------------------------------------------------------------------
(* Nothing is lost *)

\* The attributes of one and of two batches, one after the other.
LEMMA Flatten ==
  ASSUME NEW f, f = [i \in 1..Len(f) |-> f[i]]
  PROVE  /\ Len(f) = 0 => FlattenSeq(f) = f
         /\ Len(f) = 1 => FlattenSeq(f) = f[1]
         /\ Len(f) = 2 => FlattenSeq(f) = f[1] \o f[2]
<1> DEFINE flat == CHOOSE g : g = [i \in 1..Len(f) |-> IF i = 1 THEN f[i] ELSE g[i - 1] \o f[i]]
<1>1. Len(f) # 0 => FlattenSeq(f) = flat[Len(f)]
  BY DEF FlattenSeq
<1>2. Len(f) = 0 => FlattenSeq(f) = f
  BY DEF FlattenSeq
<1>3. CASE Len(f) = 1
  <2> DEFINE h == [i \in 1..1 |-> f[1]]
  <2>1. h = [i \in 1..Len(f) |-> IF i = 1 THEN f[i] ELSE h[i - 1] \o f[i]]
    BY <1>3
  <2>2. flat = [i \in 1..Len(f) |-> IF i = 1 THEN f[i] ELSE flat[i - 1] \o f[i]]
    <3> HIDE DEF h
    <3> QED BY <2>1, Zenon
  <2> HIDE DEF flat
  <2>3. flat[1] = f[1]
    BY <1>3, <2>2
  <2> QED BY <1>1, <1>3, <2>3
<1>4. CASE Len(f) = 2
  <2> DEFINE h == [i \in 1..2 |-> IF i = 1 THEN f[1] ELSE f[1] \o f[2]]
  <2>1. h = [i \in 1..Len(f) |-> IF i = 1 THEN f[i] ELSE h[i - 1] \o f[i]]
    <3>1. h[1] = f[1] /\ 1..Len(f) = {1, 2} /\ 1..2 = {1, 2}
      BY <1>4
    <3>2. 2 \in 1..2 /\ 2 - 1 = 1 /\ 2 # 1
      OBVIOUS
    <3>3. h[2] = f[1] \o f[2]
      BY <3>2, Zenon
    <3> QED BY <3>1, <3>2, <3>3
  <2>2. flat = [i \in 1..Len(f) |-> IF i = 1 THEN f[i] ELSE flat[i - 1] \o f[i]]
    <3> HIDE DEF h
    <3> QED BY <2>1, Zenon
  <2> HIDE DEF flat
  <2>3. flat[1] = f[1]
    BY <1>4, <2>2
  <2>4. flat[2] = flat[1] \o f[2]
    <3>1. 2 \in 1..Len(f) /\ 2 # 1 /\ 2 - 1 = 1
      BY <1>4
    <3>2. flat[2] = IF 2 = 1 THEN f[2] ELSE flat[2 - 1] \o f[2]
      BY <2>2, <3>1
    <3> QED BY <3>1, <3>2
  <2> QED BY <1>1, <1>4, <2>3, <2>4
<1> QED BY <1>2, <1>3, <1>4

\* What Send makes of no, one or two requests.
LEMMA SendDecoded ==
  ASSUME received \in Seq(Reports), NEW b, NEW c,
         DecodeBatch(b) \in Seq(Reports), DecodeBatch(c) \in Seq(Reports)
  PROVE  /\ Send(<<>>) => received' = received
         /\ Send(<<b>>) => received' = received \o DecodeBatch(b)
         /\ Send(Append(<<>>, b)) => received' = received \o DecodeBatch(b)
         /\ Send(Append(<<c>>, b)) => received' = received \o (DecodeBatch(c) \o DecodeBatch(b))
<1> DEFINE F(bs) == [i \in 1..Len(bs) |-> DecodeBatch(bs[i])]
<1>1. ASSUME NEW bs, Send(bs) PROVE received' = received \o FlattenSeq(F(bs))
  BY <1>1 DEF Send
<1>2. ASSUME NEW bs, Len(bs) \in Nat
      PROVE  /\ Len(F(bs)) = Len(bs) /\ F(bs) = [i \in 1..Len(F(bs)) |-> F(bs)[i]]
             /\ \A i \in 1..Len(bs) : F(bs)[i] = DecodeBatch(bs[i])
  BY <1>2
<1> HIDE DEF F
<1>3. ASSUME Send(<<>>) PROVE received' = received
  <2>1. Len(<<>>) = 0
    BY Flushed
  <2>2. Len(F(<<>>)) = 0 /\ F(<<>>) = [i \in 1..Len(F(<<>>)) |-> F(<<>>)[i]]
    BY <1>2, <2>1
  <2>3. FlattenSeq(F(<<>>)) = F(<<>>)
    BY <2>2, Flatten
  <2>4. F(<<>>) = <<>>
    BY <2>2
  <2> QED BY <1>1, <1>3, <2>3, <2>4, ConcatEmptySeq
<1>4. ASSUME NEW bs, Len(bs) = 1, bs[1] = b, Send(bs)
      PROVE  received' = received \o DecodeBatch(b)
  <2>1. /\ Len(F(bs)) = 1 /\ F(bs) = [i \in 1..Len(F(bs)) |-> F(bs)[i]]
        /\ F(bs)[1] = DecodeBatch(b)
    <3>1. Len(bs) \in Nat /\ 1 \in 1..Len(bs)
      BY <1>4
    <3> QED BY <1>2, <1>4, <3>1
  <2>2. FlattenSeq(F(bs)) = DecodeBatch(b)
    BY <2>1, Flatten
  <2> QED BY <1>1, <1>4, <2>2
<1>5. ASSUME NEW bs, Len(bs) = 2, bs[1] = c, bs[2] = b, Send(bs)
      PROVE  received' = received \o (DecodeBatch(c) \o DecodeBatch(b))
  <2>1. /\ Len(F(bs)) = 2 /\ F(bs) = [i \in 1..Len(F(bs)) |-> F(bs)[i]]
        /\ F(bs)[1] = DecodeBatch(c) /\ F(bs)[2] = DecodeBatch(b)
    <3>1. Len(bs) \in Nat /\ 1 \in 1..Len(bs) /\ 2 \in 1..Len(bs)
      BY <1>5
    <3> QED BY <1>2, <1>5, <3>1
  <2>2. FlattenSeq(F(bs)) = DecodeBatch(c) \o DecodeBatch(b)
    BY <2>1, Flatten
  <2> QED BY <1>1, <1>5, <2>2
<1>6. /\ Len(<<b>>) = 1 /\ Len(Append(<<>>, b)) = 1 /\ Len(Append(<<c>>, b)) = 2
      /\ <<b>>[1] = b /\ Append(<<>>, b)[1] = b
      /\ Append(<<c>>, b)[1] = c /\ Append(<<c>>, b)[2] = b
  BY Flushed
<1> QED BY <1>3, <1>4, <1>5, <1>6

\* The reports that wait in the batch.
Pending == IF open THEN DecodeBatch(batch) ELSE <<>>

\* The inductive invariant behind NothingLostInBatch: the open batch is good for
\* more, announces whatever the next report may find in the dictionary, and
\* together with what was sent it says what was reported.
LogInv ==
  /\ top \in Nat /\ top <= Len(Dict)
  /\ reported \in Seq(Reports) /\ received \in Seq(Reports) /\ Pending \in Seq(Reports)
  /\ reported = received \o Pending
  /\ open => GoodBatch(batch) /\ top <= batch.gwc

\* What a step may do to the two logs.
LogStep ==
  /\ \E x \in Seq(Reports) : received' = received \o x
  /\ \/ reported' = reported
     \/ \E a \in Reports : Len(reported) < MaxReports /\ reported' = Append(reported, a)

\* A new batch is good and says nothing yet.
LEMMA FreshBatch ==
  ASSUME NEW n \in Nat, n <= Len(Dict)
  PROVE  LET b == CreateBatchCompressor(n)
         IN b.gwc = n /\ GoodBatch(b) /\ DecodeBatch(b) = <<>>
<1> DEFINE b == CreateBatchCompressor(n)
<1>1. b.gwc = n /\ b.words = <<>> /\ b.prev = <<>> /\ b.entries = <<>>
  BY DEF CreateBatchCompressor
<1> HIDE DEF b
<1>2. <<>> \in Seq(STRING) /\ Len(<<>>) = 0 /\ DOMAIN <<>> = {} /\ IsSeq(<<>>)
  <2>1. <<>> \in Seq(STRING) /\ Len(<<>>) = 0
    BY EmptySeq
  <2>2. DOMAIN <<>> = {}
    OBVIOUS
  <2> QED BY <2>1, <2>2 DEF IsSeq
<1>3. 1..0 = {}
  OBVIOUS
<1>4. WordLists(b)
  BY <1>1, <1>2, <1>3 DEF WordLists
<1>5. Idx(b, 0) = {}
  BY <1>3 DEF Idx
<1>6. GoodBatch(b)
  BY <1>1, <1>2, <1>3, <1>4, <1>5 DEF GoodBatch
<1>7. DecodeBatch(b) = <<>>
  <2>1. DecodeBatch(b) = [k \in {} |-> DecodeEntry(b, k)]
    BY <1>1, <1>2, <1>3 DEF DecodeBatch
  <2> QED BY <2>1
<1> QED BY <1>1, <1>6, <1>7 DEF b

\* Logs are put together in any grouping.
LEMMA LogsAssociative ==
  \A s, t, u \in Seq(Reports) : (s \o t) \o u = s \o (t \o u)
BY ConcatAssociative

\* The end of Report: bs is sent and says d, b has the new report.
LEMMA FinishLog ==
  ASSUME LogInv, NEW b, GoodBatch(b), DecodeBatch(b) \in Seq(Reports), NEW d \in Seq(Reports),
         NEW c, NEW bs, (bs = <<>> /\ d = <<>>) \/ (bs = <<c>> /\ DecodeBatch(c) = d),
         FinishReport(b, bs), top' \in Nat, top' <= b.gwc,
         reported' \in Seq(Reports), reported' = received \o (d \o DecodeBatch(b))
  PROVE  LogInv' /\ \E x \in Seq(Reports) : received' = received \o x
<1> DEFINE e == DecodeBatch(b)
<1>1. received \in Seq(Reports) /\ e \in Seq(Reports)
  BY DEF LogInv
<1>2. d \o e \in Seq(Reports)
  BY <1>1, ConcatProperties
<1>3. top' <= Len(Dict)
  <2>1. b.gwc \in Nat /\ b.gwc <= Len(Dict) /\ Len(Dict) \in Nat
    BY CompressorAssumption DEF GoodBatch, WordLists
  <2> QED BY <2>1
<1>4. <<>> \in Seq(Reports)
  BY EmptySeq
<1> HIDE DEF e
<1>5. CASE BatchFull(b)
  <2>1. ~open' /\ Send(Append(bs, b))
    BY <1>5 DEF FinishReport, Close
  <2>2. received' = received \o (d \o e)
    <3>1. CASE bs = <<>> /\ d = <<>>
      <4>1. received' = received \o e
        BY <1>1, <2>1, <3>1, SendDecoded DEF e
      <4>2. d \o e = e
        BY <1>1, <3>1, ConcatEmptySeq
      <4> QED BY <4>1, <4>2
    <3>2. CASE bs = <<c>> /\ DecodeBatch(c) = d
      BY <1>1, <2>1, <3>2, SendDecoded DEF e
    <3> QED BY <3>1, <3>2
  <2>3. received' \in Seq(Reports)
    BY <1>1, <1>2, <2>2, ConcatProperties
  <2>4. Pending' = <<>>
    BY <2>1 DEF Pending
  <2>5. reported' = received' \o Pending'
    BY <2>2, <2>3, <2>4, ConcatEmptySeq DEF e
  <2> QED BY <1>2, <1>3, <1>4, <2>1, <2>2, <2>3, <2>4, <2>5 DEF LogInv
<1>6. CASE ~BatchFull(b)
  <2>1. open' /\ batch' = b /\ Send(bs)
    BY <1>6 DEF FinishReport
  <2>2. received' = received \o d
    <3>1. CASE bs = <<>> /\ d = <<>>
      <4>1. received' = received
        BY <1>1, <2>1, <3>1, SendDecoded DEF e
      <4> QED BY <1>1, <3>1, <4>1, ConcatEmptySeq
    <3>2. CASE bs = <<c>> /\ DecodeBatch(c) = d
      BY <1>1, <2>1, <3>2, SendDecoded DEF e
    <3> QED BY <3>1, <3>2
  <2>3. received' \in Seq(Reports)
    BY <1>1, <2>2, ConcatProperties
  <2>4. Pending' = e
    BY <2>1 DEF Pending, e
  <2>5. reported' = received' \o Pending'
    <3>1. (received \o d) \o e = received \o (d \o e)
      BY <1>1, LogsAssociative
    <3> QED BY <2>2, <2>4, <3>1 DEF e
  <2>6. GoodBatch(batch)' /\ top' <= batch'.gwc
    BY <2>1
  <2> QED BY <1>1, <1>3, <2>1, <2>2, <2>3, <2>4, <2>5, <2>6 DEF LogInv
<1> QED BY <1>5, <1>6

\* A Report in which no lookup of the first batch finds more than top and none of a
\* second batch more than that batch announces.
LEMMA ReportWithLog ==
  ASSUME LogInv, NEW a \in Reports, NEW v1, NEW t2 \in Nat, t2 <= top, NEW v2,
         ViewBelow(a, v1, top), ViewBelow(a, v2, t2),
         ReportWith(a, v1, t2, v2), top' \in Nat, top' <= t2
  PROVE  LogInv' /\ LogStep
<1> DEFINE b0 == IF open THEN batch ELSE CreateBatchCompressor(top)
<1>0. top \in Nat /\ top <= Len(Dict) /\ Len(Dict) \in Nat
  BY CompressorAssumption DEF LogInv
<1>1. GoodBatch(b0) /\ DecodeBatch(b0) = Pending /\ top <= b0.gwc /\ b0.gwc \in Nat
  <2>1. GoodBatch(b0) /\ DecodeBatch(b0) = Pending /\ top <= b0.gwc
    <3>1. CASE open
      BY <3>1 DEF LogInv, Pending
    <3>2. CASE ~open
      <4>1. b0 = CreateBatchCompressor(top) /\ Pending = <<>>
        BY <3>2 DEF Pending
      <4> HIDE DEF b0
      <4>2. b0.gwc = top /\ GoodBatch(b0) /\ DecodeBatch(b0) = <<>>
        BY <1>0, <4>1, FreshBatch
      <4> QED BY <1>0, <4>1, <4>2
    <3> QED BY <3>1, <3>2
  <2> HIDE DEF b0
  <2> QED BY <2>1 DEF GoodBatch, WordLists
<1>2. reported' = Append(reported, a) /\ Len(reported) < MaxReports
  BY DEF ReportWith
<1>3. PICK r \in Add(b0, a, v1) :
        \/ r.ok /\ FinishReport(r.batch, <<>>)
        \/ ~r.ok /\ \E s \in Add(CreateBatchCompressor(t2), a, v2) :
                      FinishReport(s.batch, <<r.batch>>)
  BY DEF ReportWith
<1> HIDE DEF b0
<1>4. /\ reported \in Seq(Reports) /\ received \in Seq(Reports) /\ Pending \in Seq(Reports)
      /\ reported = received \o Pending
  BY DEF LogInv
<1>5. /\ r.batch.gwc = b0.gwc
      /\ r.ok => GoodBatch(r.batch) /\ DecodeBatch(r.batch) = Append(Pending, a)
      /\ ~r.ok => DecodeBatch(r.batch) = Pending
  <2>1. ViewBelow(a, v1, b0.gwc)
    BY <1>0, <1>1 DEF ViewBelow
  <2>2. DecodeBatch(b0) \in Seq(Reports)
    BY <1>1, <1>4
  <2> QED BY <1>1, <2>1, <2>2, AddDecodes
<1>6. <<>> \in Seq(Reports) /\ <<a>> \in Seq(Reports) /\ Append(<<>>, a) = <<a>>
      /\ Append(Pending, a) \in Seq(Reports) /\ Append(Pending, a) = Pending \o <<a>>
      /\ reported' \in Seq(Reports) /\ Append(reported, a) = reported \o <<a>>
  <2>1. Append(Pending, a) \in Seq(Reports) /\ reported' \in Seq(Reports)
    BY <1>2, <1>4, AppendProperties
  <2>2. Append(Pending, a) = Pending \o <<a>> /\ Append(reported, a) = reported \o <<a>>
    BY <1>4, AppendIsConcat
  <2> QED BY <2>1, <2>2
<1>7. reported' = received \o (Pending \o <<a>>)
  BY <1>2, <1>4, <1>6, ConcatAssociative
<1>8. CASE r.ok /\ FinishReport(r.batch, <<>>)
  <2>1. reported' = received \o (<<>> \o DecodeBatch(r.batch))
    BY <1>5, <1>6, <1>7, <1>8, ConcatEmptySeq
  <2>2. top' <= r.batch.gwc
    BY <1>0, <1>1, <1>5
  <2>3. DecodeBatch(r.batch) \in Seq(Reports)
    BY <1>5, <1>6, <1>8
  <2>4. LogInv' /\ \E x \in Seq(Reports) : received' = received \o x
    BY <1>5, <1>6, <1>8, <2>1, <2>2, <2>3, FinishLog
  <2> QED BY <1>2, <2>4 DEF LogStep
<1>9. ASSUME ~r.ok, NEW s \in Add(CreateBatchCompressor(t2), a, v2),
             FinishReport(s.batch, <<r.batch>>)
      PROVE  LogInv' /\ LogStep
  <2>1. /\ s.ok /\ s.batch.gwc = t2 /\ GoodBatch(s.batch)
        /\ DecodeBatch(s.batch) = <<a>>
    <3> DEFINE f == CreateBatchCompressor(t2)
    <3>1. f.gwc = t2 /\ GoodBatch(f) /\ DecodeBatch(f) = <<>>
      <4>1. t2 <= Len(Dict)
        BY <1>0
      <4> QED BY <4>1, FreshBatch
    <3>2. s.ok
      BY FreshAdd
    <3>3. s \in Add(f, a, v2)
      OBVIOUS
    <3> HIDE DEF f
    <3>4. ViewBelow(a, v2, f.gwc) /\ DecodeBatch(f) \in Seq(Reports)
      BY <1>6, <3>1
    <3>5. /\ s.batch.gwc = f.gwc
          /\ s.ok => GoodBatch(s.batch) /\ DecodeBatch(s.batch) = Append(DecodeBatch(f), a)
      <4>1. GoodBatch(f) /\ ViewBelow(a, v2, f.gwc) /\ a \in Reports
        BY <3>1, <3>4
      <4> QED BY <3>3, <3>4, <4>1, AddDecodes
    <3> QED BY <1>6, <3>1, <3>2, <3>5
  <2>2. reported' = received \o (Pending \o DecodeBatch(s.batch))
    BY <1>7, <2>1
  <2>3. DecodeBatch(r.batch) = Pending
    BY <1>5, <1>9
  <2>4. LogInv' /\ \E x \in Seq(Reports) : received' = received \o x
    BY <1>4, <1>6, <1>9, <2>1, <2>2, <2>3, FinishLog
  <2> QED BY <1>2, <2>4 DEF LogStep
<1> QED BY <1>3, <1>8, <1>9

\* A step that leaves the batch and the logs alone.
LEMMA QuietLog ==
  ASSUME LogInv, UNCHANGED <<open, batch, reported, received>>, top' \in Nat, top' <= top
  PROVE  LogInv' /\ LogStep
<1>1. Pending' = Pending
  BY DEF Pending
<1>2. received' = received \o <<>> /\ <<>> \in Seq(Reports)
  BY EmptySeq, ConcatEmptySeq DEF LogInv
<1>3. top' <= Len(Dict) /\ (open => GoodBatch(batch)' /\ top' <= batch.gwc)
  <2>1. Len(Dict) \in Nat
    BY CompressorAssumption
  <2>2. open => batch.gwc \in Nat
    BY DEF LogInv, GoodBatch, WordLists
  <2>3. top' <= Len(Dict) /\ (open => top' <= batch.gwc)
    BY <2>1, <2>2 DEF LogInv
  <2>4. open => GoodBatch(batch)'
    BY DEF LogInv
  <2> QED BY <2>3, <2>4
<1> QED BY <1>1, <1>2, <1>3 DEF LogInv, LogStep

\* FlushWithLock sends what waits.
LEMMA FlushLog ==
  ASSUME LogInv, FlushWithLock, UNCHANGED <<top, reported>>
  PROVE  LogInv' /\ LogStep
<1>1. CASE open
  <2>1. ~open' /\ Send(<<batch>>)
    BY <1>1 DEF FlushWithLock, Close
  <2>2. /\ received \in Seq(Reports) /\ Pending \in Seq(Reports)
        /\ Pending = DecodeBatch(batch)
    BY <1>1 DEF LogInv, Pending
  <2>3. received' = received \o Pending
    BY <2>1, <2>2, SendDecoded
  <2>4. received' \in Seq(Reports)
    BY <2>2, <2>3, ConcatProperties
  <2>5. Pending' = <<>> /\ <<>> \in Seq(Reports)
    BY <2>1, EmptySeq DEF Pending
  <2>6. reported' = received' \o Pending'
    <3>1. received' \o <<>> = received'
      BY <2>4, ConcatEmptySeq
    <3>2. reported' = received'
      BY <2>3 DEF LogInv
    <3> QED BY <2>5, <3>1, <3>2
  <2> QED BY <2>1, <2>2, <2>3, <2>4, <2>5, <2>6 DEF LogInv, LogStep
<1>2. CASE ~open
  <2>1. UNCHANGED <<open, batch, received>>
    BY <1>2 DEF FlushWithLock
  <2> QED BY <2>1, QuietLog DEF LogInv
<1> QED BY <1>1, <1>2

\* What the lookups of a Report may see is never above top, and what they see when
\* the dictionary has been lowered not above the base.
LEMMA Views ==
  ASSUME NEW a \in Reports, NEW t \in Nat
  PROVE  /\ ShrinkToBase(t) \in Nat /\ ShrinkToBase(t) <= t
         /\ ViewBelow(a, SameView(a, t), t)
         /\ \A view \in RacingViews(a, t) : ViewBelow(a, view, t)
<1>1. ShrinkToBase(t) \in Nat /\ ShrinkToBase(t) <= t
  BY CompressorAssumption DEF ShrinkToBase
<1>2. ViewBelow(a, SameView(a, t), t)
  BY DEF ViewBelow, SameView
<1>3. ASSUME NEW view \in RacingViews(a, t) PROVE ViewBelow(a, view, t)
  <2>1. \A l \in Lookups(a) : view[l] \in {t, ShrinkToBase(t)}
    BY DEF RacingViews
  <2> QED BY <1>1, <2>1 DEF ViewBelow
<1> QED BY <1>1, <1>2, <1>3

\* Nothing was reported, nothing sent.
LEMMA InitLog == Init => LogInv
<1> SUFFICES ASSUME Init PROVE LogInv
  OBVIOUS
<1>1. ~open /\ reported = <<>> /\ received = <<>> /\ Pending = <<>>
  BY DEF Init, Pending
<1>2. <<>> \in Seq(Reports) /\ <<>> = <<>> \o <<>>
  BY EmptySeq, ConcatEmptySeq
<1>3. top \in Nat /\ top <= Len(Dict)
  BY CompressorAssumption DEF Init
<1> QED BY <1>1, <1>2, <1>3 DEF LogInv

\* Every step keeps the invariant and adds to the logs at their ends only.
LEMMA NextLog == LogInv /\ [Next]_vars => LogInv' /\ LogStep
<1> SUFFICES ASSUME LogInv, [Next]_vars PROVE LogInv' /\ LogStep
  OBVIOUS
<1>0. top \in Nat /\ ShrinkToBase(top) \in Nat /\ ShrinkToBase(top) <= top
  BY ShrinkType DEF LogInv
<1>1. ASSUME NEW a \in Reports, Report(a) PROVE LogInv' /\ LogStep
  <2>1. ReportWith(a, SameView(a, top), top, SameView(a, top)) /\ top' = top
    BY <1>1 DEF Report
  <2>2. ViewBelow(a, SameView(a, top), top) /\ top <= top
    BY <1>0, Views
  <2> QED BY <1>0, <2>1, <2>2, ReportWithLog
<1>2. ASSUME NEW a \in Reports, ReportShrinking(a) PROVE LogInv' /\ LogStep
  <2> DEFINE low == ShrinkToBase(top)
  <2>1. top' = low
    BY <1>2 DEF ReportShrinking
  <2>2. CASE \E view \in RacingViews(a, top) : ReportWith(a, view, low, SameView(a, low))
    <3>1. PICK view \in RacingViews(a, top) : ReportWith(a, view, low, SameView(a, low))
      BY <2>2
    <3>2. ViewBelow(a, view, top)
      BY <1>0, Views
    <3>3. ViewBelow(a, SameView(a, low), low) /\ low <= low
      BY <1>0, Views
    <3> HIDE DEF low
    <3> QED BY <1>0, <2>1, <3>1, <3>2, <3>3, ReportWithLog DEF low
  <2>3. CASE \E view \in RacingViews(a, top) : ReportWith(a, SameView(a, top), top, view)
    <3>1. PICK view \in RacingViews(a, top) : ReportWith(a, SameView(a, top), top, view)
      BY <2>3
    <3>2. ViewBelow(a, view, top) /\ ViewBelow(a, SameView(a, top), top) /\ top <= top
      BY <1>0, Views
    <3> QED BY <1>0, <2>1, <3>1, <3>2, ReportWithLog
  <2> QED BY <1>2, <2>2, <2>3 DEF ReportShrinking
<1>3. CASE TimerFires
  BY <1>0, <1>3, QuietLog DEF TimerFires
<1>4. CASE Flush \/ Destroy
  BY <1>4, FlushLog DEF Flush, Destroy
<1>5. ASSUME NEW d \in BOOLEAN, OnReportDone(d) PROVE LogInv' /\ LogStep
  BY <1>0, <1>5, QuietLog DEF OnReportDone
<1>6. CASE UNCHANGED vars
  BY <1>0, <1>6, QuietLog DEF vars
<1> QED BY <1>1, <1>2, <1>3, <1>4, <1>5, <1>6 DEF Next

\* What was sent and what waits in the batch, decoded, is what was reported, in
\* order, for every dictionary, every set of reports, every order of the new words
\* and a dictionary lowered at any lookup (CompressByDict, DeltaUpdate, Report).
THEOREM NothingLost == Spec => []NothingLostInBatch
<1>1. LogInv => NothingLostInBatch
  BY DEF LogInv, NothingLostInBatch, Pending
<1> QED BY <1>1, InitLog, NextLog, PTL DEF Spec

\* Growing at the end, received stays a beginning of what was reported: that is the
\* step of the abstract log.
LEMMA LogStepIsLogNext ==
  ASSUME LogInv', LogStep, LogInv
  PROVE  [Log!Next]_<<reported, received>>
<1>1. /\ reported' \in Seq(Reports) /\ received' \in Seq(Reports) /\ Pending' \in Seq(Reports)
      /\ reported' = received' \o Pending' /\ received \in Seq(Reports)
  BY DEF LogInv
<1>2. PICK x \in Seq(Reports) : received' = received \o x
  BY DEF LogStep
<1> DEFINE n == Len(received')
           p == Pending'
           q == reported'
           s == received'
<1>3. Len(s) = Len(received) + Len(x) /\ Len(x) \in Nat /\ Len(received) \in Nat
  BY <1>1, <1>2, ConcatProperties
<1>4. Len(q) = Len(s) + Len(p) /\ Len(p) \in Nat /\ Len(s) \in Nat
  BY <1>1, ConcatProperties
<1>5. n \in Len(received)..Len(reported')
  BY <1>3, <1>4
<1>6. received' = SubSeq(reported', 1, n)
  <2> HIDE DEF p, q, s
  <2>1. q \in Seq(Reports) /\ s \in Seq(Reports) /\ p \in Seq(Reports) /\ q = s \o p
    BY <1>1 DEF p, q, s
  <2> DEFINE m == Len(s)
             t == SubSeq(q, 1, m)
  <2>2. m \in Nat /\ m <= Len(q)
    BY <1>4
  <2>3. ASSUME NEW i \in 1..m PROVE q[i] = s[i] /\ q[i] \in Reports
    <3>1. i \in 1..Len(s) + Len(p) /\ i <= Len(s)
      BY <1>4
    <3>2. q[i] = s[i]
      BY <2>1, <3>1, ConcatProperties
    <3> QED BY <2>1, <3>2
  <2> HIDE DEF m
  <2>4. /\ t \in Seq(Reports)
        /\ Len(t) = IF 1 <= m THEN m - 1 + 1 ELSE 0
        /\ \A i \in 1..m - 1 + 1 : t[i] = q[1 + i - 1]
    <3>1. 1 \in Int /\ m \in Int
      BY <2>2
    <3> QED BY <2>3, <3>1, SubSeqProperties
  <2> HIDE DEF t
  <2>5. Len(t) = m
    BY <2>2, <2>4
  <2>6. ASSUME NEW i \in 1..m PROVE t[i] = s[i]
    <3>1. i \in 1..m - 1 + 1 /\ 1 + i - 1 = i
      BY <2>2
    <3> QED BY <2>3, <2>4, <3>1
  <2>7. t = s
    BY <2>1, <2>4, <2>5, <2>6, SeqEqual DEF m
  <2> QED BY <2>7 DEF t, m, q, s
<1>7. Log!CatchUp
  BY <1>5, <1>6 DEF Log!CatchUp
<1>8. CASE reported' = reported
  BY <1>7, <1>8 DEF Log!Next, Log!Deliver
<1>9. CASE \E a \in Reports : Len(reported) < MaxReports /\ reported' = Append(reported, a)
  BY <1>7, <1>9 DEF Log!Next, Log!Report
<1> QED BY <1>8, <1>9 DEF LogStep

\* To its transport, ReportBatch is the log of the reports: each arrives once, in
\* the order of the calls, whatever the batching (ReportBatch implements ReportLog).
THEOREM BatchImplementsLog == Spec => LogSpec
<1>1. Init => Log!Init
  BY DEF Init, Log!Init
<1>2. LogInv /\ [Next]_vars => [Log!Next]_(Log!vars)
  BY NextLog, LogStepIsLogNext DEF Log!vars
<1> QED BY <1>1, <1>2, InitLog, NextLog, PTL DEF Spec, LogSpec, Log!Spec

-----------------------------------------------------------------------------
(* Types *)

\* A batch that is not open is a new one; requests outstanding were sent.
ShapeInv ==
  /\ options \in [max_batch_entries : BatchLimits, timer : BOOLEAN]
  /\ open \in BOOLEAN /\ armed \in BOOLEAN /\ firing \in BOOLEAN /\ alive \in BOOLEAN
  /\ ~open => batch = CreateBatchCompressor(0)
  /\ inflight \in 0..Len(counts)

\* What sending does to the shape: requests are only added.
Sends ==
  /\ Len(counts) \in Nat /\ Len(counts') \in Nat /\ Len(counts) <= Len(counts')
  /\ open' \in BOOLEAN /\ armed' \in BOOLEAN
  /\ ~open' => batch' = CreateBatchCompressor(0)

\* Report sends, and opens or closes the batch.
LEMMA ReportSends ==
  ASSUME Inv, NEW a, NEW v1, NEW t2, NEW v2, ReportWith(a, v1, t2, v2)
  PROVE  Sends
<1>1. ASSUME NEW b, NEW bs, IsSeq(bs), IsSeq(Append(bs, b)), FinishReport(b, bs)
      PROVE  Sends
  <2>1. Send(bs) \/ Send(Append(bs, b))
    BY <1>1 DEF FinishReport
  <2>2. Len(counts) \in Nat /\ Len(counts') \in Nat /\ Len(counts) <= Len(counts')
    <3>1. ASSUME NEW x, IsSeq(x), Send(x)
          PROVE  Len(counts) \in Nat /\ Len(counts') \in Nat /\ Len(counts) <= Len(counts')
      <4>1. Len(counts) \in Nat /\ Len(x) \in Nat /\ Len(counts') = Len(counts) + Len(x)
        BY <3>1, SendCounts DEF Inv, Control
      <4> QED BY <4>1
    <3> QED BY <1>1, <2>1, <3>1
  <2>3. open' \in BOOLEAN /\ armed' \in BOOLEAN /\ (~open' => batch' = CreateBatchCompressor(0))
    <3>1. CASE BatchFull(b)
      BY <1>1, <3>1 DEF FinishReport, Close
    <3>2. CASE ~BatchFull(b)
      <4>1. open' = TRUE /\ armed' = (StartsTimer(b) \/ (armed /\ bs = <<>>))
        BY <1>1, <3>2 DEF FinishReport
      <4> QED BY <4>1
    <3> QED BY <3>1, <3>2
  <2> QED BY <2>2, <2>3 DEF Sends
<1>2. \E b, c : FinishReport(b, <<>>) \/ FinishReport(b, <<c>>)
  BY DEF ReportWith
<1>3. PICK b, c : FinishReport(b, <<>>) \/ FinishReport(b, <<c>>)
  BY <1>2
<1>4. IsSeq(<<>>) /\ IsSeq(<<c>>) /\ IsSeq(Append(<<>>, b)) /\ IsSeq(Append(<<c>>, b))
  <2>1. IsSeq(<<c>>)
    BY Flushed
  <2> QED BY <2>1, Flushed
<1> QED BY <1>1, <1>3, <1>4

\* So does FlushWithLock.
LEMMA FlushSends ==
  ASSUME Inv, ShapeInv, FlushWithLock
  PROVE  Sends
<1>1. CASE open
  <2>1. /\ open' = FALSE /\ armed' = FALSE /\ batch' = CreateBatchCompressor(0)
        /\ Send(<<batch>>)
    BY <1>1 DEF FlushWithLock, Close
  <2>2. IsSeq(<<batch>>)
    BY Flushed
  <2>3. /\ Len(counts) \in Nat /\ Len(<<batch>>) \in Nat
        /\ Len(counts') = Len(counts) + Len(<<batch>>)
    BY <2>1, <2>2, SendCounts DEF Inv, Control
  <2>4. Len(counts') \in Nat /\ Len(counts) <= Len(counts')
    BY <2>3
  <2> QED BY <2>1, <2>3, <2>4 DEF Sends
<1>2. CASE ~open
  <2>1. UNCHANGED <<open, batch, armed, counts>>
    BY <1>2 DEF FlushWithLock
  <2>2. Len(counts) \in Nat
    BY DEF Inv, Control, IsSeq
  <2> QED BY <1>2, <2>1, <2>2 DEF Sends, ShapeInv
<1> QED BY <1>1, <1>2

\* Every step keeps the shape.
LEMMA NextShape == Inv /\ ShapeInv /\ [Next]_vars => ShapeInv'
<1> SUFFICES ASSUME Inv, ShapeInv, [Next]_vars PROVE ShapeInv'
  OBVIOUS
<1>0. Len(counts) \in Nat
  BY DEF Inv, Control, IsSeq
<1>1. ASSUME NEW a \in Reports, Report(a) PROVE ShapeInv'
  <2>1. Sends
    BY <1>1, ReportSends DEF Report
  <2>2. inflight' = inflight + Len(counts') - Len(counts) /\ UNCHANGED <<options, firing, alive>>
    BY <1>1 DEF Report, Outstanding
  <2>3. inflight' \in 0..Len(counts')
    BY <2>1, <2>2 DEF Sends, ShapeInv
  <2> QED BY <2>1, <2>2, <2>3 DEF Sends, ShapeInv
<1>2. ASSUME NEW a \in Reports, ReportShrinking(a) PROVE ShapeInv'
  <2>1. \E v1, t2, v2 : ReportWith(a, v1, t2, v2)
    BY <1>2 DEF ReportShrinking
  <2>2. Sends
    BY <2>1, ReportSends
  <2>3. /\ inflight > 0 /\ inflight' = (inflight + Len(counts') - Len(counts)) - 1
        /\ UNCHANGED <<options, firing, alive>>
    BY <1>2 DEF ReportShrinking, Outstanding
  <2>4. inflight' \in 0..Len(counts')
    BY <2>2, <2>3 DEF Sends, ShapeInv
  <2> QED BY <2>2, <2>3, <2>4 DEF Sends, ShapeInv
<1>3. CASE TimerFires
  BY <1>3 DEF TimerFires, ShapeInv
<1>4. CASE Flush \/ Destroy
  <2>1. Sends
    BY <1>4, FlushSends DEF Flush, Destroy
  <2>2. inflight' = inflight + Len(counts') - Len(counts) /\ options' = options
    BY <1>4 DEF Flush, Destroy, Outstanding
  <2>3. inflight' \in 0..Len(counts')
    BY <2>1, <2>2 DEF Sends, ShapeInv
  <2>4. firing' \in BOOLEAN /\ alive' \in BOOLEAN
    BY <1>4 DEF Flush, Destroy, ShapeInv
  <2> QED BY <2>1, <2>2, <2>3, <2>4 DEF Sends, ShapeInv
<1>5. ASSUME NEW d \in BOOLEAN, OnReportDone(d) PROVE ShapeInv'
  <2>1. inflight' \in 0..Len(counts)
    BY <1>0, <1>5 DEF OnReportDone, ShapeInv
  <2> QED BY <1>5, <2>1 DEF OnReportDone, ShapeInv
<1>6. CASE UNCHANGED vars
  BY <1>6 DEF vars, ShapeInv
<1> QED BY <1>1, <1>2, <1>3, <1>4, <1>5, <1>6 DEF Next

\* The types, and that no entry of the batch uses an index that the receiver has no
\* word for: neither one above the announced global_word_count nor one beyond the
\* message's words (MessageDictionary::GetIndex).
THEOREM TypesHold == Spec => []TypeOK
<1>1. Init => ShapeInv
  <2> SUFFICES ASSUME Init PROVE ShapeInv
    OBVIOUS
  <2>1. Len(counts) = 0 /\ inflight = 0
    BY EmptySeq DEF Init
  <2>2. inflight \in 0..Len(counts)
    BY <2>1
  <2> QED BY <2>2, Zenon DEF Init, ShapeInv
<1>2. LogInv /\ ShapeInv => TypeOK
  <2> SUFFICES ASSUME LogInv, ShapeInv PROVE TypeOK
    OBVIOUS
  <2>1. GoodBatch(batch)
    <3>1. 0 \in Nat /\ 0 <= Len(Dict)
      BY CompressorAssumption
    <3>2. GoodBatch(CreateBatchCompressor(0))
      BY <3>1, FreshBatch
    <3> QED BY <3>2 DEF LogInv, ShapeInv
  <2>2. batch.gwc \in Nat /\ batch.words \in Seq(STRING)
    BY <2>1 DEF GoodBatch, WordLists
  <2>3. \A k \in 1..Len(batch.entries) :
          DOMAIN batch.entries[k] \subseteq -Len(batch.words)..batch.gwc-1
    BY <2>1 DEF GoodBatch, EntryOK, Valid
  <2> QED BY <2>2, <2>3 DEF TypeOK, LogInv, ShapeInv
<1> QED BY <1>1, <1>2, InitInv, NextInv, InitLog, NextLog, NextShape, PTL DEF Spec

\* No batch waits at its limit: a flush is due at once when the limit is reached
\* (ReportBatch::Report, max_batch_entries).
THEOREM BelowLimit == Spec => []BatchBelowLimit
<1>1. Inv => BatchBelowLimit
  BY DEF Inv
<1> QED BY <1>1, InitInv, NextInv, PTL DEF Spec
=============================================================================

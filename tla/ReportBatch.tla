---------------------------- MODULE ReportBatch ----------------------------
(***************************************************************************)
(* src/report_batch.cc: reports of any thread are added to a batch under   *)
(* mutex_; the batch is flushed when it is full, when a report cannot be   *)
(* sent as a delta, when the timer fires and by the destructor.  The       *)
(* transport's callback may lower the global dictionary, and does so       *)
(* without mutex_: ReportShrinking interleaves it with a Report.           *)
(***************************************************************************)
EXTENDS AttributeCompressor

CONSTANTS
  Reports,       \* the attribute sets callers report
  BatchLimits,   \* values of ReportOptions::max_batch_entries
  MaxReports     \* bound: calls of Report in a behaviour

ASSUME ReportAssumption ==
  /\ BatchLimits \subseteq Nat
  /\ MaxReports \in Nat
  /\ \A a \in Reports :
       /\ a = [n \in DOMAIN a |-> [raw |-> a[n].raw, words |-> a[n].words]]
       /\ IsFiniteSet(DOMAIN a) /\ DOMAIN a \subseteq STRING
       /\ \A n \in DOMAIN a : a[n].words \in Seq(STRING)

VARIABLES
  options,    \* max_batch_entries, and whether timer_create_ is set
  top,        \* compressor_'s top_index_
  open,       \* batch_compressor_ is not null
  batch,      \* *batch_compressor_
  armed,      \* timer_ is pending
  firing,     \* the timer's callback waits for mutex_
  inflight,   \* requests whose transport callback has not run
  alive,      \* the destructor has not run
  reported,   \* history: arguments of Report, in order
  received,   \* history: what the transport got, decoded
  counts      \* history: global_word_count of the requests sent

vars == <<options, top, open, batch, armed, firing, inflight, alive, reported,
          received, counts>>

Init ==
  /\ options \in [max_batch_entries : BatchLimits, timer : BOOLEAN]
  /\ top = Len(Dict)
  /\ open = FALSE /\ batch = CreateBatchCompressor(0)
  /\ armed = FALSE /\ firing = FALSE
  /\ inflight = 0 /\ alive = TRUE
  /\ reported = <<>> /\ received = <<>> /\ counts = <<>>

-----------------------------------------------------------------------------
(* FlushWithLock *)

\* The requests of a step, oldest first, handed to the transport.
Send(bs) ==
  /\ received' = received \o FlattenSeq([i \in 1..Len(bs) |-> DecodeBatch(bs[i])])
  /\ counts' = counts \o [i \in 1..Len(bs) |-> bs[i].gwc]

Close == open' = FALSE /\ batch' = CreateBatchCompressor(0)

FlushWithLock ==
  IF open
  THEN Close /\ armed' = FALSE /\ Send(<<batch>>)
  ELSE UNCHANGED <<open, batch, armed, received, counts>>

-----------------------------------------------------------------------------
(* Report *)

\* Mutant: the timer is started by the second report of a batch.
StartsTimerLate(b) == Len(b.entries) = 2 /\ options.timer

StartsTimer(b) == Len(b.entries) = 1 /\ options.timer

\* Mutant: "size() > max_batch_entries".
BatchFullLate(b) == Len(b.entries) > options.max_batch_entries

BatchFull(b) == Len(b.entries) >= options.max_batch_entries

\* Ends a Report: b is the batch with the new entry, bs what was flushed for it.
FinishReport(b, bs) ==
  IF BatchFull(b)
  THEN Close /\ armed' = FALSE /\ Send(Append(bs, b))
  ELSE /\ open' = TRUE /\ batch' = b /\ Send(bs)
       /\ armed' = (StartsTimer(b) \/ (armed /\ bs = <<>>))

\* Report(a) when the first Add reads the dictionary through view1 and a second
\* batch, if one is needed, is created at top2 and reads it through view2.
ReportWith(a, view1, top2, view2) ==
  /\ alive /\ Len(reported) < MaxReports
  /\ reported' = Append(reported, a)
  /\ \E r \in Add(IF open THEN batch ELSE CreateBatchCompressor(top), a, view1) :
       \/ r.ok /\ FinishReport(r.batch, <<>>)
       \/ /\ ~r.ok
          /\ \E s \in Add(CreateBatchCompressor(top2), a, view2) :
               FinishReport(s.batch, <<r.batch>>)

\* Requests outstanding, with the ones this step sends.
Outstanding == inflight + Len(counts') - Len(counts)

Report(a) ==
  /\ ReportWith(a, SameView(a, top), top, SameView(a, top))
  /\ inflight' = Outstanding
  /\ UNCHANGED <<options, top, firing, alive>>

\* Report(a) while the callback of an earlier request lowers the dictionary:
\* during the first Add, or during the second.
ReportShrinking(a) ==
  LET low == ShrinkToBase(top)
  IN /\ inflight > 0
     /\ \/ \E view \in RacingViews(a, top) : ReportWith(a, view, low, SameView(a, low))
        \/ \E view \in RacingViews(a, top) : ReportWith(a, SameView(a, top), top, view)
     /\ inflight' = Outstanding - 1
     /\ top' = low
     /\ UNCHANGED <<options, firing, alive>>

-----------------------------------------------------------------------------
(* Timer, transport callback, destructor *)

\* The timer (external) runs out; its callback still has to take mutex_.
TimerFires ==
  /\ alive /\ armed
  /\ armed' = FALSE /\ firing' = TRUE
  /\ UNCHANGED <<options, top, open, batch, inflight, alive, reported, received, counts>>

\* Flush, as the timer's callback.
Flush ==
  /\ alive /\ firing
  /\ firing' = FALSE
  /\ FlushWithLock
  /\ inflight' = Outstanding
  /\ UNCHANGED <<options, top, alive, reported>>

\* The transport's callback; a failure other than InvalidDictionaryStatus is
\* only logged.
OnReportDone(invalidDictionary) ==
  /\ alive /\ inflight > 0
  /\ inflight' = inflight - 1
  /\ top' = IF invalidDictionary THEN ShrinkToBase(top) ELSE top
  /\ UNCHANGED <<options, open, batch, armed, firing, alive, reported, received, counts>>

\* ~ReportBatch flushes; the owner does not destroy it under a running callback.
Destroy ==
  /\ alive /\ ~firing
  /\ alive' = FALSE
  /\ FlushWithLock
  /\ inflight' = Outstanding
  /\ UNCHANGED <<options, top, firing, reported>>

Next ==
  \/ \E a \in Reports : Report(a) \/ ReportShrinking(a)
  \/ TimerFires \/ Flush \/ Destroy
  \/ \E invalidDictionary \in BOOLEAN : OnReportDone(invalidDictionary)

\* A pending timer fires and a thread waiting for mutex_ gets it.
Fairness == WF_vars(TimerFires) /\ WF_vars(Flush)

Spec == Init /\ [][Next]_vars /\ Fairness

-----------------------------------------------------------------------------
(* Properties *)

\* Types; the entries of the batch only use indexes that its word lists have
\* (MessageDictionary::GetIndex under the global_word_count set at creation).
TypeOK ==
  /\ options \in [max_batch_entries : BatchLimits, timer : BOOLEAN]
  /\ top \in Nat /\ top <= Len(Dict)
  /\ open \in BOOLEAN /\ armed \in BOOLEAN /\ firing \in BOOLEAN /\ alive \in BOOLEAN
  /\ inflight \in 0..Len(counts)
  /\ batch.gwc \in Nat /\ batch.words \in Seq(STRING)
  /\ \A k \in 1..Len(batch.entries) :
       DOMAIN batch.entries[k] \subseteq -Len(batch.words)..batch.gwc-1

\* Decoding what was sent, then what is in the batch, gives back every reported
\* attribute set in the order of the Report calls: the message dictionary, the
\* delta against the previous entry and a dictionary lowered in the middle of a
\* batch or of an Add never change what a report says (CompressByDict, Report).
NothingLostInBatch ==
  reported = received \o (IF open THEN DecodeBatch(batch) ELSE <<>>)

\* The batching is invisible: the transport sees the log of reports.
Log == INSTANCE ReportLog
LogSpec == Log!Spec

\* A non-empty batch always has somebody to flush it: the timer is pending or
\* its callback waits for mutex_, however reports, size flushes, late timer
\* callbacks and Timer::Stop interleave (Report, FlushWithLock).
BatchIsTimed == open /\ options.timer /\ alive => armed \/ firing

\* After ShrinkToBase at most the batch already open still announces a larger
\* dictionary; every request begun later keeps to the base version
\* (attribute_compressor.cc:31, "If any dictionary error, global dictionary will
\* fall back to this version").
FallsBackToBase ==
  [][top <= BaseSize /\ (~open \/ batch.gwc <= BaseSize) =>
       /\ \A i \in Len(counts)+1..Len(counts') : counts'[i] <= BaseSize
       /\ open' => batch'.gwc <= BaseSize]_vars

\* A batch is never kept at its limit: with max_batch_entries reached it goes
\* out in the same call, so at most max_batch_entries - 1 reports wait.
BatchBelowLimit == open => Len(batch.entries) \in 1..options.max_batch_entries-1

\* options.h:62, max_batch_time_ms: a report only stays in the buffer until the
\* timer: with a timer every report reaches the transport.
EveryReportSent ==
  \A n \in 1..MaxReports :
    options.timer /\ Len(reported) >= n ~> Len(received) >= n
=============================================================================

------------------------------ MODULE SLAProofs ------------------------------
(***************************************************************************)
(* Proofs about SLA.tla, for any statuses, rules, instants and edits, and  *)
(* for any decimals the float64 conversions lose a minute of.              *)
(*                                                                         *)
(* The invariant says where the stored rows come from: they are the        *)
(* results of a task whose events had happened by the instant it was       *)
(* measured at, an instant not after the present.  All the rest is about   *)
(* results, not about steps: a result depends on the instant through the   *)
(* elapsed minutes only, these never fall while the clock goes on, and the *)
(* status and the texts follow them.                                       *)
(***************************************************************************)
EXTENDS SLA, WellFoundedInduction, TLAPS

-----------------------------------------------------------------------------
(***************************************************************************)
(* NUMBERS                                                                 *)
(***************************************************************************)

\* Every set of natural numbers has a least member; the least counterexample of
\* a statement is refuted from the numbers before it.
LEMMA LeastExists ==
  ASSUME NEW S, S \subseteq Nat, S # {}
  PROVE  \E m \in S : \A n \in S : m <= n
<1>1. PICK m \in S : \A n \in S : << n, m >> \notin {pair \in Nat \X Nat : pair[1] < pair[2]}
  BY NatLessThanWellFounded, WFMin DEF OpToRel
<1>2. \A n \in S : n \in Nat /\ m \in Nat /\ ~(n < m)
  BY <1>1
<1>3. \A n \in S : m <= n
  BY <1>2
<1> QED
  BY <1>3

LEMMA MinFacts ==
  ASSUME NEW S, S \subseteq Nat, S # {}
  PROVE  Min(S) \in S /\ \A n \in S : Min(S) <= n
BY LeastExists DEF Min

LEMMA MaxFacts ==
  ASSUME NEW S, NEW k \in Nat, S \subseteq 1..k, S # {}
  PROVE  Max(S) \in S /\ \A n \in S : n <= Max(S)
<1> DEFINE T == {k - n : n \in S}
<1>1. T \subseteq Nat /\ T # {}
  <2>1. PICK n \in S : TRUE
    OBVIOUS
  <2> QED
    BY <2>1
<1>2. PICK i \in T : \A j \in T : i <= j
  <2> HIDE DEF T
  <2> QED
    BY <1>1, LeastExists
<1>3. PICK m \in S : i = k - m
  BY <1>2
<1>4. \A n \in S : m >= n
  <2> TAKE n \in S
  <2>1. m \in 1..k /\ n \in 1..k
    OBVIOUS
  <2>2. k - m <= k - n
    BY <1>2, <1>3
  <2> QED
    BY <2>1, <2>2
<1>5. \A n \in S : n \in Int
  OBVIOUS
<1>6. Max(S) \in S /\ \A n \in S : Max(S) >= n
  BY <1>4 DEF Max
<1> QED
  BY <1>5, <1>6

-----------------------------------------------------------------------------
(***************************************************************************)
(* THE INDUCTIVE INVARIANT                                                 *)
(***************************************************************************)

Entry == [field : {"status", "assignee"}, to : Statuses, at : Nat]

Task == [stub : BOOLEAN, status : Statuses, updated : Nat \cup {None}, log : Seq(Entry)]

\* What is said in a task's file had happened by that instant.
Past(t, at) ==
  /\ t.updated # None => t.updated <= at
  /\ \A i \in DOMAIN t.log : t.log[i].at <= at

FileInv == now \in Instants /\ task \in Task /\ Past(task, now)

CallInv ==
  \/ call = NoCall
  \/ call.phase = "parsed" /\ call.task \in Task /\ Past(call.task, now)
  \/ /\ call.phase = "measured" /\ call.task \in Task
     /\ call.at \in Instants /\ call.at <= now /\ Past(call.task, call.at)
     /\ call.results = Results(call.task, call.at)

StoredInv ==
  /\ stored.task \in Task
  /\ \/ stored.at = None /\ stored.rows = {}
     \/ /\ stored.at \in Instants /\ stored.at <= now /\ Past(stored.task, stored.at)
        /\ stored.rows = {Row(result) : result \in Results(stored.task, stored.at)}

IInv == FileInv /\ CallInv /\ StoredInv

-----------------------------------------------------------------------------
(***************************************************************************)
(* DURATIONS                                                               *)
(***************************************************************************)

\* What is read from a text has the sign of the text.
LEMMA ReadSign ==
  ASSUME NEW text \in Text
  PROVE  /\ MinutesOf(text) \in Int
         /\ text.neg => MinutesOf(text) <= 0
         /\ ~text.neg => MinutesOf(text) >= 0
<1> DEFINE tenths == text.tenths
           unit == text.unit
           whole == (tenths * MinutesPer(unit)) \div 10
           lost == IF << tenths, unit >> \in Short THEN 1 ELSE 0
<1>1. tenths \in Nat /\ unit \in Units /\ text.neg \in BOOLEAN
  BY DEF Text
<1>2. << tenths, unit >> \in Short => tenths # 0
  <2>1. ASSUME << tenths, unit >> \in Short PROVE tenths % 10 # 0
    BY <2>1, DurationsAssumption
  <2> QED
    BY <2>1
<1>3. MinutesPer(unit) \in {60, 480, 2400, 9600}
  BY <1>1 DEF MinutesPer
<1>4. whole \in Nat /\ (tenths # 0 => whole >= 1)
  <2>1. CASE MinutesPer(unit) = 60
    BY <1>1, <2>1
  <2>2. CASE MinutesPer(unit) = 480
    BY <1>1, <2>2
  <2>3. CASE MinutesPer(unit) = 2400
    BY <1>1, <2>3
  <2>4. CASE MinutesPer(unit) = 9600
    BY <1>1, <2>4
  <2> QED
    BY <1>3, <2>1, <2>2, <2>3, <2>4
<1>5. MinutesOf(text) = Signed(text.neg, whole - lost)
  BY DEF MinutesOf
<1> HIDE DEF whole, tenths
<1>6. whole - lost \in Nat
  BY <1>2, <1>4
<1> HIDE DEF lost
<1> QED
  BY <1>1, <1>5, <1>6 DEF Signed

\* A duration that has been written and read again has kept its sign.
LEMMA SignKept ==
  ASSUME NEW d \in Int
  PROVE  /\ MinutesOf(TextOf(d)) \in Int
         /\ d < 0 => MinutesOf(TextOf(d)) <= 0
         /\ d >= 0 => MinutesOf(TextOf(d)) >= 0
<1> DEFINE mins == IF d < 0 THEN -d ELSE d
<1>1. mins \in Nat
  OBVIOUS
<1>2. \A unit \in Units : mins \div MinutesPer(unit) \in Nat
  <2> SUFFICES ASSUME NEW unit \in Units PROVE mins \div MinutesPer(unit) \in Nat
    OBVIOUS
  <2>1. MinutesPer(unit) \in {60, 480, 2400, 9600}
    BY DEF MinutesPer
  <2> HIDE DEF mins
  <2>2. CASE MinutesPer(unit) = 60
    BY <1>1, <2>2
  <2>3. CASE MinutesPer(unit) = 480
    BY <1>1, <2>3
  <2>4. CASE MinutesPer(unit) = 2400
    BY <1>1, <2>4
  <2>5. CASE MinutesPer(unit) = 9600
    BY <1>1, <2>5
  <2> QED
    BY <2>1, <2>2, <2>3, <2>4, <2>5
<1>3. Tenths(mins) \in Nat
  <2> HIDE DEF mins
  <2>1. mins \div 6 \in Nat
    BY <1>1
  <2> QED
    BY <2>1 DEF Tenths
<1>4. WholeUnit(mins) \in Units \cup {""}
  BY DEF WholeUnit, Units
<1>5. TextOf(d) = IF d = 0 THEN [neg |-> FALSE, tenths |-> 0, unit |-> "h"]
                  ELSE IF WholeUnit(mins) = "" THEN [neg |-> d < 0, tenths |-> Tenths(mins), unit |-> "h"]
                  ELSE [neg |-> d < 0, tenths |-> 10 * (mins \div MinutesPer(WholeUnit(mins))),
                        unit |-> WholeUnit(mins)]
  BY DEF TextOf
<1> HIDE DEF mins
<1>6. "h" \in Units
  BY DEF Units
<1>7. \A b \in BOOLEAN, n \in Nat, unit \in Units :
        LET text == [neg |-> b, tenths |-> n, unit |-> unit]
        IN text \in Text /\ text.neg = b
  BY DEF Text
<1>8. \E n \in Nat, unit \in Units : TextOf(d) = [neg |-> d < 0, tenths |-> n, unit |-> unit]
  <2>1. CASE d = 0
    <3>1. (d < 0) = FALSE
      BY <2>1
    <3> QED
      BY <1>5, <1>6, <2>1, <3>1
  <2>2. CASE d # 0 /\ WholeUnit(mins) = ""
    BY <1>3, <1>5, <1>6, <2>2
  <2>3. CASE d # 0 /\ WholeUnit(mins) # ""
    <3>1. WholeUnit(mins) \in Units
      BY <1>4, <2>3
    <3>2. 10 * (mins \div MinutesPer(WholeUnit(mins))) \in Nat
      BY <1>2, <3>1
    <3> QED
      BY <1>5, <2>3, <3>1, <3>2
  <2> QED
    BY <2>1, <2>2, <2>3
<1>9. (d < 0) \in BOOLEAN
  OBVIOUS
<1>10. TextOf(d) \in Text /\ TextOf(d).neg = (d < 0)
  BY <1>7, <1>8, <1>9
<1>11. d >= 0 => ~(d < 0)
  OBVIOUS
<1> QED
  BY <1>10, <1>11, ReadSign

-----------------------------------------------------------------------------
(***************************************************************************)
(* ELAPSED TIME                                                            *)
(***************************************************************************)

\* At most a minute is lost.
LEMMA ElapsedBounds ==
  ASSUME NEW s \in Nat
  PROVE  /\ Elapsed(s) \in Nat /\ Elapsed(s) <= s \div 60 /\ s \div 60 <= Elapsed(s) + 1
         /\ s \div 60 \in Nat
<1>1. s \div 60 \in Nat
  OBVIOUS
<1>2. s \in ShortElapsed => s \div 60 >= 1
  BY SLAAssumption
<1>3. Elapsed(s) = s \div 60 - (IF s \in ShortElapsed THEN 1 ELSE 0)
  BY DEF Elapsed, Signed
<1> QED
  BY <1>1, <1>2, <1>3

\* Though minutes are lost now and then, time never runs backwards.
LEMMA ElapsedMonotone ==
  ASSUME NEW s \in Nat, NEW t \in Nat, s <= t
  PROVE  Elapsed(s) <= Elapsed(t)
<1>1. CASE s = t
  BY <1>1, ElapsedBounds
<1>2. CASE s < t /\ t \notin ShortElapsed
  <2>1. Elapsed(t) = t \div 60
    BY <1>2 DEF Elapsed, Signed
  <2>2. s \div 60 <= t \div 60
    BY <1>2
  <2> QED
    BY <2>1, <2>2, ElapsedBounds
<1>3. CASE s < t /\ t \in ShortElapsed
  <2>1. t % 60 = 0
    BY <1>3, SLAAssumption
  <2>2. s \div 60 <= t \div 60 - 1
    BY <1>3, <2>1
  <2> QED
    BY <2>2, ElapsedBounds
<1> QED
  BY <1>1, <1>2, <1>3

-----------------------------------------------------------------------------
(***************************************************************************)
(* EVENTS AND RESULTS                                                      *)
(***************************************************************************)

LEMMA InstantFacts ==
  \A i \in Instants : i \in Nat /\ i # None
  BY SLAAssumption

\* The entry into a status that is found is the last one of the log.
LEMMA LastEventFacts ==
  ASSUME NEW log \in Seq(Entry), NEW status
  PROVE  /\ LastEvent(log, status) = None <=> EventsInto(log, status) = {}
         /\ EventsInto(log, status) # {} =>
              \E i \in EventsInto(log, status) :
                LastEvent(log, status) = log[i].at /\ \A j \in EventsInto(log, status) : j <= i
<1> DEFINE places == EventsInto(log, status)
<1>1. places \subseteq 1..Len(log) /\ Len(log) \in Nat
  BY DEF EventsInto
<1>2. \A i \in places : log[i].at # None
  <2>1. \A i \in places : log[i] \in Entry
    BY <1>1
  <2>2. \A e \in Entry : e.at \in Int
    BY DEF Entry
  <2> QED
    BY <2>1, <2>2, SLAAssumption
<1>3. CASE places = {}
  BY <1>3 DEF LastEvent
<1>4. CASE places # {}
  <2>1. Max(places) \in places /\ \A j \in places : j <= Max(places)
    BY <1>1, <1>4, MaxFacts
  <2>2. LastEvent(log, status) = log[Max(places)].at
    BY <1>4 DEF LastEvent
  <2> QED
    BY <1>2, <1>4, <2>1, <2>2
<1> QED
  BY <1>3, <1>4

\* What is measured began in the past, and was completed in the past if at all.
LEMMA EventsPast ==
  ASSUME NEW t \in Task, NEW at \in Instants, Past(t, at), NEW rule \in Measuring(t, at)
  PROVE  /\ StartOf(t, rule) \in Nat /\ StartOf(t, rule) <= at
         /\ StopOf(t, rule) # None => StopOf(t, rule) \in Nat /\ StopOf(t, rule) <= at
<1>1. t.log \in Seq(Entry) /\ t.updated \in Nat \cup {None}
  BY DEF Task
<1>2. \A i \in DOMAIN t.log : t.log[i].at \in Nat /\ t.log[i].at <= at
  <2>1. \A i \in DOMAIN t.log : t.log[i] \in Entry
    BY <1>1
  <2>2. \A e \in Entry : e.at \in Nat
    BY DEF Entry
  <2> QED
    BY <2>1, <2>2 DEF Past
<1>3. ASSUME NEW status, LastEvent(t.log, status) # None
      PROVE  LastEvent(t.log, status) \in Nat /\ LastEvent(t.log, status) <= at
  <2>1. PICK i \in EventsInto(t.log, status) : LastEvent(t.log, status) = t.log[i].at
    BY <1>1, <1>3, LastEventFacts
  <2> QED
    BY <1>2, <2>1 DEF EventsInto
<1>4. StartOf(t, rule) # None
  BY DEF Measuring
<1>5. CASE LastEvent(t.log, StatusOf[rule.start]) = None /\ t.status = StatusOf[rule.start]
  <2>1. StartOf(t, rule) = t.updated
    BY <1>5 DEF StartOf
  <2> QED
    BY <1>1, <1>3, <1>4, <2>1 DEF StopOf, Past
<1>6. CASE ~(LastEvent(t.log, StatusOf[rule.start]) = None /\ t.status = StatusOf[rule.start])
  <2>1. StartOf(t, rule) = LastEvent(t.log, StatusOf[rule.start])
    BY <1>6 DEF StartOf
  <2> QED
    BY <1>3, <1>4, <2>1 DEF StopOf
<1> QED
  BY <1>3, <1>5, <1>6 DEF StopOf

\* The seconds that count.
Span(t, rule, at) == Reference(StartOf(t, rule), StopOf(t, rule), at) - StartOf(t, rule)

\* They are not negative, and grow with the clock unless the SLA is complete.
LEMMA SpanFacts ==
  ASSUME NEW t \in Task, NEW at \in Instants, Past(t, at), NEW rule \in Measuring(t, at)
  PROVE  /\ Span(t, rule, at) \in Nat
         /\ \A later \in Instants : at <= later =>
              Span(t, rule, later) \in Nat /\ Span(t, rule, at) <= Span(t, rule, later)
         /\ StopOf(t, rule) # None /\ StopOf(t, rule) > StartOf(t, rule) =>
              \A later \in Instants : Span(t, rule, later) = Span(t, rule, at)
<1> DEFINE start == StartOf(t, rule)
           stop == StopOf(t, rule)
<1>1. /\ start \in Nat /\ start <= at /\ at \in Nat
      /\ stop # None => stop \in Nat
  BY EventsPast, InstantFacts
<1>2. \A i \in Instants : i \in Nat
  BY InstantFacts
<1>3. \A i : Span(t, rule, i) = Reference(start, stop, i) - start
  BY DEF Span
<1> HIDE DEF start, stop
<1>4. CASE stop # None /\ stop > start
  <2>1. \A i : Reference(start, stop, i) = stop
    BY <1>4 DEF Reference
  <2> QED
    BY <1>1, <1>3, <1>4, <2>1
<1>5. CASE ~(stop # None /\ stop > start)
  <2>1. \A i : Reference(start, stop, i) = i
    BY <1>5 DEF Reference
  <2> QED
    BY <1>1, <1>2, <1>3, <1>5, <2>1 DEF start, stop
<1> QED
  BY <1>4, <1>5

LEMMA RowFacts ==
  ASSUME NEW t, NEW rule, NEW at, NEW r, r = Row(Result(t, rule, at))
  PROVE  /\ r.rule = rule.id
         /\ r.start = StartOf(t, rule) /\ r.stop = StopOf(t, rule)
         /\ r.status = Status(Elapsed(Span(t, rule, at)), rule)
         /\ r.elapsed = TextOf(Elapsed(Span(t, rule, at)))
         /\ r.remaining = TextOf(rule.target - Elapsed(Span(t, rule, at)))
  BY DEF Row, Result, Span

\* A result depends on the instant by way of the elapsed seconds only.
LEMMA SameSpan ==
  ASSUME NEW t, NEW rule, NEW at, NEW later, Span(t, rule, at) = Span(t, rule, later)
  PROVE  Result(t, rule, at) = Result(t, rule, later)
  BY DEF Result, Span

\* Every stored row is the result of one rule, measured when Index ran.
LEMMA StoredRows ==
  ASSUME IInv, NEW r \in stored.rows
  PROVE  /\ stored.task \in Task /\ stored.at \in Instants /\ stored.at <= now
         /\ stored.at \in Nat /\ now \in Instants
         /\ Past(stored.task, stored.at)
         /\ \E rule \in Measuring(stored.task, stored.at) :
              /\ rule \in Rules /\ r = Row(Result(stored.task, rule, stored.at))
              /\ r.rule = rule.id
              /\ \A other \in Rules : other.id = r.rule => other = rule
<1>1. /\ stored.task \in Task /\ stored.at \in Instants /\ stored.at <= now
      /\ Past(stored.task, stored.at) /\ now \in Instants
      /\ stored.rows = {Row(result) : result \in Results(stored.task, stored.at)}
  BY DEF IInv, StoredInv, FileInv
<1>2. PICK rule \in Measuring(stored.task, stored.at) : r = Row(Result(stored.task, rule, stored.at))
  BY <1>1 DEF Results
<1>3. rule \in Rules /\ r.rule = rule.id
  BY <1>2, RowFacts DEF Measuring
<1>4. \A other \in Rules : other.id = r.rule => other = rule
  BY <1>3, SLAAssumption
<1> QED
  BY <1>1, <1>2, <1>3, <1>4, InstantFacts

-----------------------------------------------------------------------------
(***************************************************************************)
(* THE STEPS                                                               *)
(***************************************************************************)

\* Whether an entry joins the log at its end or at its front.
LEMMA LogGrows ==
  ASSUME NEW t \in Task, NEW at \in Nat, Past(t, at), NEW e \in Entry, e.at <= at,
         NEW log \in {t.log \o << e >>, << e >> \o t.log}
  PROVE  log \in Seq(Entry) /\ \A i \in DOMAIN log : log[i].at <= at
<1>1. t.log \in Seq(Entry) /\ \A i \in 1..Len(t.log) : t.log[i].at <= at
  BY DEF Task, Past
<1>2. log \in Seq(Entry) /\ DOMAIN log = 1..Len(log)
  <2>1. << e >> \in Seq(Entry)
    OBVIOUS
  <2>2. t.log \o << e >> \in Seq(Entry) /\ << e >> \o t.log \in Seq(Entry)
    BY <1>1, <2>1
  <2>3. log \in Seq(Entry)
    BY <2>2
  <2> QED
    BY <2>3
<1>3. ASSUME NEW i \in 1..Len(log) PROVE log[i] = e \/ \E j \in 1..Len(t.log) : log[i] = t.log[j]
  <2>1. CASE log = t.log \o << e >>
    <3>1. i = Len(t.log) + 1 => log[i] = e
      BY <1>1, <2>1
    <3>2. i # Len(t.log) + 1 => i \in 1..Len(t.log) /\ log[i] = t.log[i]
      BY <1>1, <2>1
    <3> QED
      BY <3>1, <3>2
  <2>2. CASE log = << e >> \o t.log
    <3>1. i = 1 => log[i] = e
      BY <1>1, <2>2
    <3>2. i # 1 => i - 1 \in 1..Len(t.log) /\ log[i] = t.log[i - 1]
      BY <1>1, <2>2
    <3> QED
      BY <3>1, <3>2
  <2> QED
    BY <2>1, <2>2
<1> QED
  BY <1>1, <1>2, <1>3

LEMMA PastLater ==
  ASSUME NEW t \in Task, NEW at \in Nat, Past(t, at), NEW later \in Nat, at <= later
  PROVE  Past(t, later)
<1>1. t.updated \in Nat \cup {None} /\ \A i \in DOMAIN t.log : t.log[i] \in Entry
  BY DEF Task
<1>2. \A e \in Entry : e.at \in Nat
  BY DEF Entry
<1> QED
  BY <1>1, <1>2 DEF Past

LEMMA InitOK ==
  ASSUME Init
  PROVE  IInv
<1>1. now \in Instants
  BY MinFacts, SLAAssumption DEF Init
<1>2. PICK s \in Statuses : task = [stub |-> FALSE, status |-> s, updated |-> None, log |-> << >>]
  BY DEF Init
<1>3. task \in Task /\ Past(task, now)
  BY <1>2 DEF Task, Past
<1> QED
  BY <1>1, <1>3 DEF Init, IInv, FileInv, CallInv, StoredInv

LEMMA TickOK ==
  ASSUME IInv, Tick
  PROVE  IInv'
<1>1. now' \in Instants /\ now' > now /\ UNCHANGED << task, edits, call, stored >>
  <2>1. {i \in Instants : i > now} \subseteq Nat /\ {i \in Instants : i > now} # {}
    BY SLAAssumption DEF Tick
  <2>2. now' \in {i \in Instants : i > now}
    BY <2>1, MinFacts DEF Tick
  <2> QED
    BY <2>2 DEF Tick
<1>2. now \in Nat /\ now' \in Nat /\ now <= now' /\ \A i \in Instants : i \in Nat
  BY <1>1, InstantFacts DEF IInv, FileInv
<1>3. FileInv'
  BY <1>1, <1>2, PastLater DEF IInv, FileInv
<1>4. \A i \in Instants : i <= now => i <= now'
  BY <1>2
<1>5. CallInv'
  <2>1. CASE call.phase = "parsed" /\ call.task \in Task /\ Past(call.task, now)
    <3>1. Past(call.task, now')
      BY <1>2, <2>1, PastLater
    <3> QED
      BY <1>1, <2>1, <3>1 DEF CallInv
  <2>2. CASE call = NoCall
    BY <1>1, <2>2 DEF CallInv
  <2>3. CASE /\ call.phase = "measured" /\ call.task \in Task
             /\ call.at \in Instants /\ call.at <= now /\ Past(call.task, call.at)
             /\ call.results = Results(call.task, call.at)
    BY <1>1, <1>4, <2>3 DEF CallInv
  <2> QED
    BY <2>1, <2>2, <2>3 DEF IInv, CallInv
<1>6. StoredInv'
  <2>1. stored.at \in Instants /\ stored.at <= now => stored.at <= now'
    BY <1>4
  <2> QED
    BY <1>1, <2>1 DEF IInv, StoredInv
<1> QED
  BY <1>3, <1>5, <1>6, <1>5 DEF IInv

\* The call and the table know nothing of an edit.
LEMMA EditOK ==
  ASSUME IInv, NEW t \in Task, Past(t, now), Edit(t)
  PROVE  IInv'
<1>1. FileInv'
  BY DEF IInv, FileInv, Edit
<1>2. CallInv'
  BY DEF IInv, CallInv, Edit
<1>3. StoredInv'
  BY DEF IInv, StoredInv, Edit
<1> QED
  BY <1>1, <1>2, <1>3 DEF IInv

LEMMA FileNow ==
  ASSUME IInv
  PROVE  /\ now \in Nat /\ now \in Instants /\ task \in Task /\ Past(task, now)
         /\ task.stub \in BOOLEAN /\ task.status \in Statuses
         /\ task.updated \in Nat \cup {None} /\ task.log \in Seq(Entry)
  BY InstantFacts DEF IInv, FileInv, Task

LEMMA SetStatusOK ==
  ASSUME IInv, NEW s \in Statuses, SetStatus(s)
  PROVE  IInv'
<1>1. ASSUME NEW log \in {task.log \o << Into(s, now) >>, << Into(s, now) >> \o task.log},
             Edit([task EXCEPT !.status = s, !.log = log, !.updated = now])
      PROVE  IInv'
  <2>1. Into(s, now) \in Entry /\ Into(s, now).at = now
    BY FileNow DEF Into, Entry
  <2>2. log \in Seq(Entry) /\ \A i \in DOMAIN log : log[i].at <= now
    <3>1. now <= now
      BY FileNow
    <3> QED
      BY <2>1, <3>1, FileNow, LogGrows
  <2> DEFINE t == [task EXCEPT !.status = s, !.log = log, !.updated = now]
  <2>3. t \in Task /\ t.updated = now /\ t.log = log
    BY <2>2, FileNow DEF Task
  <2>4. Past(t, now)
    BY <2>2, <2>3, FileNow DEF Past
  <2> QED
    BY <1>1, <2>3, <2>4, EditOK
<1>2. ASSUME Edit([task EXCEPT !.status = s])
      PROVE  IInv'
  <2> DEFINE t == [task EXCEPT !.status = s]
  <2>1. t \in Task /\ t.updated = task.updated /\ t.log = task.log
    BY FileNow DEF Task
  <2>2. Past(t, now)
    BY <2>1, FileNow DEF Past
  <2> QED
    BY <1>2, <2>1, <2>2, EditOK
<1> QED
  BY <1>1, <1>2 DEF SetStatus

\* An entry of the past, or of another field, joins the log.
LEMMA AppendOK ==
  ASSUME IInv, NEW e \in Entry, e.at <= now, Edit([task EXCEPT !.log = @ \o << e >>])
  PROVE  IInv'
<1> DEFINE log == task.log \o << e >>
           t == [task EXCEPT !.log = log]
<1>1. log \in Seq(Entry) /\ \A i \in DOMAIN log : log[i].at <= now
  BY FileNow, LogGrows
<1>2. t \in Task /\ t.updated = task.updated /\ t.log = log
  BY <1>1, FileNow DEF Task
<1>3. Past(t, now)
  BY <1>1, <1>2, FileNow DEF Past
<1>4. Edit(t)
  OBVIOUS
<1> QED
  BY <1>2, <1>3, <1>4, EditOK

LEMMA EnterPastOK ==
  ASSUME IInv, NEW s \in Statuses, NEW at \in Instants, EnterPast(s, at)
  PROVE  IInv'
<1>1. Into(s, at) \in Entry /\ Into(s, at).at = at
  BY InstantFacts DEF Into, Entry
<1>2. at <= now
  BY InstantFacts, FileNow DEF EnterPast
<1> QED
  BY <1>1, <1>2, AppendOK DEF EnterPast

LEMMA SetFieldOK ==
  ASSUME IInv, SetField
  PROVE  IInv'
<1>1. PICK s \in Statuses :
        Edit([task EXCEPT !.log = @ \o << [field |-> "assignee", to |-> s, at |-> now] >>])
  BY DEF SetField
<1> DEFINE e == [field |-> "assignee", to |-> s, at |-> now]
<1>2. e \in Entry /\ e.at <= now
  BY FileNow DEF Entry
<1> HIDE DEF e
<1>3. Edit([task EXCEPT !.log = @ \o << e >>])
  BY <1>1 DEF e
<1> QED
  BY <1>2, <1>3, AppendOK

LEMMA RedirectOK ==
  ASSUME IInv, Redirect
  PROVE  IInv'
<1> DEFINE t == [task EXCEPT !.stub = TRUE]
<1>1. t \in Task /\ t.updated = task.updated /\ t.log = task.log
  BY FileNow DEF Task
<1>2. Past(t, now) /\ Edit(t)
  BY <1>1, FileNow DEF Past, Redirect
<1> QED
  BY <1>1, <1>2, EditOK

\* Index measures what it has read, and stores what it has measured.
LEMMA CallOK ==
  ASSUME IInv, Read \/ Evaluate \/ Write \/ Fail
  PROVE  IInv'
<1>1. CASE Read
  <2>1. CallInv'
    BY <1>1, FileNow DEF Read, CallInv
  <2> QED
    BY <1>1, <2>1 DEF IInv, FileInv, StoredInv, Read
<1>2. CASE Evaluate
  <2>1. call.task \in Task /\ Past(call.task, now)
    BY <1>2 DEF Evaluate, IInv, CallInv, NoCall
  <2>2. now <= now
    BY FileNow
  <2>3. CallInv'
    BY <1>2, <2>1, <2>2, FileNow DEF Evaluate, CallInv
  <2> QED
    BY <1>2, <2>3 DEF IInv, FileInv, StoredInv, Evaluate
<1>3. CASE Write
  <2>1. /\ call.task \in Task /\ call.at \in Instants /\ call.at <= now /\ Past(call.task, call.at)
        /\ call.results = Results(call.task, call.at)
    BY <1>3 DEF Write, IInv, CallInv, NoCall
  <2>2. StoredInv'
    BY <1>3, <2>1 DEF Write, StoredInv
  <2> QED
    BY <1>3, <2>2 DEF IInv, FileInv, CallInv, Write
<1>4. CASE Fail
  BY <1>4 DEF IInv, FileInv, CallInv, StoredInv, Fail
<1> QED
  BY <1>1, <1>2, <1>3, <1>4

LEMMA NextOK ==
  ASSUME IInv, [Next]_vars
  PROVE  IInv'
<1>1. CASE UNCHANGED vars
  BY <1>1 DEF IInv, FileInv, CallInv, StoredInv, vars
<1> QED
  BY <1>1, TickOK, SetStatusOK, EnterPastOK, SetFieldOK, RedirectOK, CallOK DEF Next

\* Every stored row is a result of events of the past, and goes back to the
\* task that Index read (engine.go:109-128).
THEOREM RowsAreMeasured == Spec => []IInv
<1>1. Init => IInv
  BY InitOK
<1>2. IInv /\ [Next]_vars => IInv'
  BY NextOK
<1> QED
  BY <1>1, <1>2, PTL DEF Spec

-----------------------------------------------------------------------------
(***************************************************************************)
(* WHAT IS STORED                                                          *)
(***************************************************************************)

\* More time never makes a better status.
LEMMA StatusFollows ==
  ASSUME NEW rule \in Rules, NEW m \in Nat, NEW n \in Nat, m <= n
  PROVE  Grade(Status(m, rule)) <= Grade(Status(n, rule))
<1>1. rule.target \in Int /\ (rule.warn # None => rule.warn \in Int)
  BY SLAAssumption
<1>2. \A k : Grade(Status(k, rule)) =
               IF k > rule.target THEN 2 ELSE IF rule.warn # None /\ k > rule.warn THEN 1 ELSE 0
  BY DEF Grade, Status
<1> QED
  BY <1>1, <1>2

\* A stored status is never worse than the true one, and that of a completed
\* SLA is the true one (engine.go:119-121, sla.go:74-82).
THEOREM StaleNoWorse == Spec => []StaleIsNoWorse
<1>1. ASSUME IInv, Current, NEW r \in stored.rows, NEW f \in Fresh, r.rule = f.rule
      PROVE  /\ Grade(r.status) <= Grade(f.status)
             /\ r.start = f.start
             /\ r.stop # None /\ r.stop > r.start => f = r
  <2>1. PICK rule \in Measuring(stored.task, stored.at) :
          /\ rule \in Rules /\ r = Row(Result(stored.task, rule, stored.at))
          /\ r.rule = rule.id
          /\ \A other \in Rules : other.id = r.rule => other = rule
    BY <1>1, StoredRows
  <2>2. PICK other \in Measuring(task, now) : f = Row(Result(task, other, now))
    BY DEF Fresh, Results
  <2>3. other = rule
    BY <1>1, <2>1, <2>2, RowFacts DEF Measuring
  <2>4. stored.task = task
    BY <1>1 DEF Current
  <2>5. /\ task \in Task /\ stored.at \in Instants /\ stored.at <= now /\ now \in Instants
        /\ Past(task, stored.at) /\ rule \in Measuring(task, stored.at)
    BY <1>1, <2>1, <2>4, StoredRows
  <2>6. /\ Span(task, rule, stored.at) \in Nat /\ Span(task, rule, now) \in Nat
        /\ Span(task, rule, stored.at) <= Span(task, rule, now)
        /\ StopOf(task, rule) # None /\ StopOf(task, rule) > StartOf(task, rule) =>
             Span(task, rule, now) = Span(task, rule, stored.at)
    BY <2>5, SpanFacts
  <2>7. /\ r.start = StartOf(task, rule) /\ f.start = StartOf(task, rule)
        /\ r.stop = StopOf(task, rule)
        /\ r.status = Status(Elapsed(Span(task, rule, stored.at)), rule)
        /\ f.status = Status(Elapsed(Span(task, rule, now)), rule)
    BY <2>1, <2>2, <2>3, <2>4, RowFacts
  <2>8. Grade(r.status) <= Grade(f.status)
    <3>1. /\ Elapsed(Span(task, rule, stored.at)) \in Nat
          /\ Elapsed(Span(task, rule, now)) \in Nat
      BY <2>6, ElapsedBounds
    <3>2. Elapsed(Span(task, rule, stored.at)) <= Elapsed(Span(task, rule, now))
      BY <2>6, ElapsedMonotone
    <3> QED
      BY <2>1, <2>7, <3>1, <3>2, StatusFollows
  <2>9. ASSUME r.stop # None, r.stop > r.start PROVE f = r
    BY <2>1, <2>2, <2>3, <2>4, <2>6, <2>7, <2>9, SameSpan
  <2> QED
    BY <2>7, <2>8, <2>9
<1>2. IInv => StaleIsNoWorse
  BY <1>1 DEF StaleIsNoWorse
<1> QED
  BY <1>2, RowsAreMeasured, PTL

\* The last of the events is the most recent when the log is in the order of
\* time (sla.go:112-114).
THEOREM OrderedLogRecent == Spec => []OrderedLogMostRecent
<1>1. ASSUME NEW t \in Task, Chronological(t.log), NEW status, NEW at \in EventTimes(t.log, status)
      PROVE  LastEvent(t.log, status) # None /\ at <= LastEvent(t.log, status)
  <2>1. t.log \in Seq(Entry)
    BY DEF Task
  <2>2. PICK j \in EventsInto(t.log, status) : at = t.log[j].at
    BY DEF EventTimes
  <2>3. PICK i \in EventsInto(t.log, status) :
          LastEvent(t.log, status) = t.log[i].at /\ j <= i
    BY <2>1, <2>2, LastEventFacts
  <2>4. LastEvent(t.log, status) # None
    BY <2>1, <2>2, LastEventFacts
  <2>5. i \in 1..Len(t.log) /\ j \in 1..Len(t.log) /\ t.log[i] \in Entry /\ t.log[j] \in Entry
    BY <2>1 DEF EventsInto
  <2>6. t.log[j].at <= t.log[i].at
    <3>1. \A e \in Entry : e.at \in Nat
      BY DEF Entry
    <3>2. CASE j = i
      BY <2>5, <3>1, <3>2
    <3>3. CASE j < i
      BY <1>1, <2>1, <2>5, <3>3 DEF Chronological
    <3> QED
      BY <2>3, <2>5, <3>2, <3>3
  <2> QED
    BY <2>2, <2>3, <2>4, <2>6
<1>2. ASSUME IInv, Chronological(stored.task.log), NEW r \in stored.rows
      PROVE  MostRecent(stored.task, r)
  <2> SUFFICES ASSUME NEW rule \in Rules, rule.id = r.rule
               PROVE  /\ \A at \in EventTimes(stored.task.log, StatusOf[rule.start]) : at <= r.start
                      /\ \A at \in EventTimes(stored.task.log, StatusOf[rule.stop]) :
                           r.stop # None /\ at <= r.stop
    BY DEF MostRecent
  <2>1. rule \in Measuring(stored.task, stored.at) /\ r = Row(Result(stored.task, rule, stored.at))
    BY <1>2, StoredRows
  <2>2. r.start = StartOf(stored.task, rule) /\ r.stop = StopOf(stored.task, rule)
    BY <2>1, RowFacts
  <2>3. stored.task \in Task
    BY <1>2, StoredRows
  <2>4. ASSUME NEW at \in EventTimes(stored.task.log, StatusOf[rule.start])
        PROVE  at <= r.start
    BY <1>1, <1>2, <2>2, <2>3 DEF StartOf
  <2>5. ASSUME NEW at \in EventTimes(stored.task.log, StatusOf[rule.stop])
        PROVE  r.stop # None /\ at <= r.stop
    BY <1>1, <1>2, <2>2, <2>3 DEF StopOf
  <2> QED
    BY <2>4, <2>5
<1>3. IInv => OrderedLogMostRecent
  BY <1>2 DEF OrderedLogMostRecent
<1> QED
  BY <1>3, RowsAreMeasured, PTL

\* Rows and the seconds behind them.
LEMMA MeasuredRow ==
  ASSUME IInv, NEW r \in stored.rows
  PROVE  \E rule \in Rules :
           /\ \A other \in Rules : other.id = r.rule => other = rule
           /\ r.rule = rule.id
           /\ Running(r) \in Nat /\ Elapsed(Running(r)) \in Nat
           /\ r.status = Status(Elapsed(Running(r)), rule)
           /\ r.elapsed = TextOf(Elapsed(Running(r)))
           /\ r.remaining = TextOf(rule.target - Elapsed(Running(r)))
<1>1. PICK rule \in Measuring(stored.task, stored.at) :
        /\ rule \in Rules /\ r = Row(Result(stored.task, rule, stored.at))
        /\ r.rule = rule.id
        /\ \A other \in Rules : other.id = r.rule => other = rule
  BY StoredRows
<1>2. Span(stored.task, rule, stored.at) \in Nat
  BY StoredRows, SpanFacts
<1>3. Running(r) = Span(stored.task, rule, stored.at)
  BY <1>1, RowFacts DEF Running, Span, Reference
<1>4. Elapsed(Running(r)) \in Nat
  BY <1>2, <1>3, ElapsedBounds
<1> QED
  BY <1>1, <1>2, <1>3, <1>4, RowFacts

\* No SLA of events of the past has a negative elapsed time (sla.go:77-84).
THEOREM NeverNegativeTime == Spec => []NeverNegative
<1>1. IInv => NeverNegative
  BY MeasuredRow, SignKept DEF NeverNegative
<1> QED
  BY <1>1, RowsAreMeasured, PTL

\* The status fits the remaining time beside it, whatever the conversions do to
\* its digits (duration.go:86-111, sla.go:90-92).
THEOREM StatusAndRemaining == Spec => []StatusFitsRemaining
<1>1. ASSUME IInv, NEW r \in stored.rows
      PROVE  IF r.status = "breached" THEN MinutesOf(r.remaining) <= 0
             ELSE MinutesOf(r.remaining) >= 0
  <2>1. PICK rule \in Rules :
          /\ Elapsed(Running(r)) \in Nat
          /\ r.status = Status(Elapsed(Running(r)), rule)
          /\ r.remaining = TextOf(rule.target - Elapsed(Running(r)))
    BY <1>1, MeasuredRow
  <2> DEFINE d == rule.target - Elapsed(Running(r))
  <2>2. d \in Int /\ (d < 0 <=> Elapsed(Running(r)) > rule.target) /\ (d < 0 \/ d >= 0)
    BY <2>1, SLAAssumption
  <2>3. r.status = "breached" <=> Elapsed(Running(r)) > rule.target
    BY <2>1 DEF Status
  <2> HIDE DEF d
  <2>4. /\ d < 0 => MinutesOf(TextOf(d)) <= 0
        /\ d >= 0 => MinutesOf(TextOf(d)) >= 0
    BY <2>2, SignKept
  <2>5. r.remaining = TextOf(d)
    BY <2>1 DEF d
  <2> QED
    BY <2>2, <2>3, <2>4, <2>5
<1>2. IInv => StatusFitsRemaining
  BY <1>1 DEF StatusFitsRemaining
<1> QED
  BY <1>2, RowsAreMeasured, PTL

\* Breaches are reported neither early nor more than two minutes late
\* (sla.go:84-92).
THEOREM BreachesInTime == Spec => []BreachesOnTime
<1>1. ASSUME IInv, NEW r \in stored.rows, NEW rule \in Rules, rule.id = r.rule
      PROVE  /\ r.status = "breached" => Running(r) >= 60 * (rule.target + 1)
             /\ Running(r) >= 60 * (rule.target + 2) => r.status = "breached"
  <2> DEFINE s == Running(r)
             e == Elapsed(s)
  <2>1. s \in Nat /\ r.status = Status(e, rule)
    BY <1>1, MeasuredRow
  <2>2. rule.target \in Int
    BY SLAAssumption
  <2>3. r.status = "breached" <=> e > rule.target
    BY <2>1 DEF Status
  <2>4. e \in Nat /\ e <= s \div 60 /\ s \div 60 <= e + 1 /\ s \div 60 \in Nat
    BY <2>1, ElapsedBounds
  <2> HIDE DEF s, e
  <2>5. e > rule.target => s >= 60 * (rule.target + 1)
    <3>1. e > rule.target => s \div 60 >= rule.target + 1
      BY <2>2, <2>4
    <3> QED
      BY <2>1, <2>2, <2>4, <3>1
  <2>6. s >= 60 * (rule.target + 2) => e > rule.target
    <3>1. s >= 60 * (rule.target + 2) => s \div 60 >= rule.target + 2
      BY <2>1, <2>2
    <3> QED
      BY <2>2, <2>4, <3>1
  <2> QED
    BY <2>3, <2>5, <2>6 DEF s
<1>2. IInv => BreachesOnTime
  BY <1>1 DEF BreachesOnTime
<1> QED
  BY <1>2, RowsAreMeasured, PTL

=============================================================================

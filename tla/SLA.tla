-------------------------------- MODULE SLA --------------------------------
(***************************************************************************)
(* engine/sla.go and model/sla.go: what Index measures and Query compares. *)
(*                                                                         *)
(* Index parses the files, reads the clock once, measures every task       *)
(* against every rule (evaluateSLA) and stores the results; they stay in   *)
(* the database, while the clock goes on and people edit the task, until   *)
(* the next Index.  A task is measured from the last entry of its change   *)
(* log into the start status to the last one into the stop status, or to   *)
(* the moment of Index when there is none after the start.                 *)
(*                                                                         *)
(* The tasks do not influence one another, so there is one.  The clock     *)
(* counts seconds and takes the values Instants.  What a rule's query      *)
(* selects is a set of statuses (a predicate on the task) and a set of     *)
(* instants (a relative date); Comparison.tla evaluates queries.           *)
(***************************************************************************)
EXTENDS Durations, Sequences, FiniteSets, FiniteSetsExt

CONSTANTS Statuses,      \* the values of a task's status
          Rules,         \* [id, parses, selects, during, target, warn, start, stop]
          StatusOf,      \* StatusOf[e]: the event e without its "status:"
          Instants,      \* the seconds at which something happens
          ShortElapsed,  \* seconds, whole minutes, that lose one as a float64
          MaxEdits,      \* bound on the changes of the task's file
          None           \* no event, no threshold

ASSUME SLAAssumption ==
  /\ Instants \subseteq Nat /\ Instants # {}
  /\ None \notin Int /\ MaxEdits \in Nat
  /\ \A s \in ShortElapsed : s \in Nat \ {0} /\ s % 60 = 0
  /\ \A r \in Rules : /\ r.target \in Int /\ r.warn \in Int \cup {None}
                      /\ r.selects \subseteq Statuses /\ r.during \subseteq Instants
                      /\ r.start \in DOMAIN StatusOf /\ r.stop \in DOMAIN StatusOf
  \* The primary key of sla_rules: no repository with two of one id is stored.
  /\ \A r, q \in Rules : r.id = q.id => r = q

VARIABLES now,     \* the clock
          task,    \* the task's file: [stub, status, updated, log]
          edits,   \* the number of changes of it
          call,    \* the Index in progress: [phase, task, at, results]
          stored   \* the table sla_results, and what it was measured from

vars == << now, task, edits, call, stored >>

-----------------------------------------------------------------------------
(***************************************************************************)
(* MEASURING                                                               *)
(***************************************************************************)

IsEvent(entry, status) == entry.field = "status" /\ entry.to = status

\* The entries of the log into a status, by their place.
EventsInto(log, status) == {i \in DOMAIN log : IsEvent(log[i], status)}

\* Faulty variant: the first entry into the status is kept.
FirstEvent(log, status) ==
  LET places == EventsInto(log, status)
  IN IF places = {} THEN None ELSE log[Min(places)].at

\* findSLAEvents: each entry overwrites the one found before it.
LastEvent(log, status) ==
  LET places == EventsInto(log, status)
  IN IF places = {} THEN None ELSE log[Max(places)].at

StartOf(t, rule) ==
  LET logged == LastEvent(t.log, StatusOf[rule.start])
  IN IF logged = None /\ t.status = StatusOf[rule.start] THEN t.updated ELSE logged

StopOf(t, rule) == LastEvent(t.log, StatusOf[rule.stop])

\* Faulty variant: the stop counts even when it precedes the start.
ReferenceUnordered(start, stop, at) == IF stop # None THEN stop ELSE at

\* Until when the elapsed time is counted.
Reference(start, stop, at) == IF stop # None /\ stop > start THEN stop ELSE at

\* Hours() / 8 * 480 as float64, cut off towards zero: minutes.
Elapsed(seconds) ==
  LET size == IF seconds < 0 THEN -seconds ELSE seconds
  IN Signed(seconds < 0, size \div 60 - (IF size \in ShortElapsed THEN 1 ELSE 0))

\* Faulty variants: the target itself is a breach; the comparison is reversed.
StatusAtTarget(elapsed, rule) ==
  IF elapsed >= rule.target THEN "breached"
  ELSE IF rule.warn # None /\ elapsed > rule.warn THEN "at_risk" ELSE "ok"

StatusReversed(elapsed, rule) ==
  IF rule.target > elapsed THEN "breached"
  ELSE IF rule.warn # None /\ elapsed > rule.warn THEN "at_risk" ELSE "ok"

\* EvaluateSLAStatus
Status(elapsed, rule) ==
  IF elapsed > rule.target THEN "breached"
  ELSE IF rule.warn # None /\ elapsed > rule.warn THEN "at_risk" ELSE "ok"

\* computeTaskSLA, for a task whose start event has occurred.
Result(t, rule, at) ==
  LET start == StartOf(t, rule)
      stop == StopOf(t, rule)
      elapsed == Elapsed(Reference(start, stop, at) - start)
  IN [rule |-> rule.id, status |-> Status(elapsed, rule), start |-> start, stop |-> stop,
      target |-> rule.target, elapsed |-> elapsed, remaining |-> rule.target - elapsed]

\* The rules that measure a task: evaluateSLA passes over the others.
Measuring(t, at) ==
  {rule \in Rules : /\ rule.parses
                    /\ ~t.stub /\ t.status \in rule.selects /\ at \in rule.during
                    /\ StartOf(t, rule) # None}

\* evaluateSLA
Results(t, at) == {Result(t, rule, at) : rule \in Measuring(t, at)}

\* WriteRepository stores the durations as texts.
Row(result) ==
  [result EXCEPT !.target = TextOf(@), !.elapsed = TextOf(@), !.remaining = TextOf(@)]

-----------------------------------------------------------------------------
(***************************************************************************)
(* STEPS                                                                   *)
(***************************************************************************)

NoCall == [phase |-> "idle"]

Init ==
  /\ now = Min(Instants)
  /\ task \in {[stub |-> FALSE, status |-> s, updated |-> None, log |-> << >>] : s \in Statuses}
  /\ edits = 0
  /\ call = NoCall
  /\ stored = [task |-> task, at |-> None, rows |-> {}]

Tick ==
  /\ \E later \in Instants : later > now /\ now' = Min({i \in Instants : i > now})
  /\ UNCHANGED << task, edits, call, stored >>

\* People edit the file: they set the status, with an entry at the end or at
\* the front of the log or with none; they enter a change of the past; they
\* change something else; they replace the task by a redirect.
Edit(t) ==
  /\ edits < MaxEdits
  /\ task' = t
  /\ edits' = edits + 1
  /\ UNCHANGED << now, call, stored >>

Into(status, at) == [field |-> "status", to |-> status, at |-> at]

SetStatus(s) ==
  \/ \E log \in {task.log \o << Into(s, now) >>, << Into(s, now) >> \o task.log} :
       Edit([task EXCEPT !.status = s, !.log = log, !.updated = now])
  \/ Edit([task EXCEPT !.status = s])

EnterPast(s, at) ==
  /\ at < now
  /\ Edit([task EXCEPT !.log = @ \o << Into(s, at) >>])

\* The new value is a person's name, and may be any text at all.
SetField ==
  \E s \in {StatusOf[rule.start] : rule \in Rules} \cap Statuses :
    Edit([task EXCEPT !.log = @ \o << [field |-> "assignee", to |-> s, at |-> now] >>])

Redirect == ~task.stub /\ Edit([task EXCEPT !.stub = TRUE])

\* Index: scan and parse; evaluateSLA; WriteRepository, or an error or the end
\* of the process before it.
Read ==
  /\ call = NoCall
  /\ call' = [phase |-> "parsed", task |-> task]
  /\ UNCHANGED << now, task, edits, stored >>

Evaluate ==
  /\ call.phase = "parsed"
  /\ call' = [phase |-> "measured", task |-> call.task, at |-> now,
              results |-> Results(call.task, now)]
  /\ UNCHANGED << now, task, edits, stored >>

Write ==
  /\ call.phase = "measured"
  /\ call' = NoCall
  /\ stored' = [task |-> call.task, at |-> call.at,
                rows |-> {Row(result) : result \in call.results}]
  /\ UNCHANGED << now, task, edits >>

Fail ==
  /\ call # NoCall
  /\ call' = NoCall
  /\ UNCHANGED << now, task, edits, stored >>

Next ==
  \/ Tick
  \/ \E s \in Statuses :
       \/ SetStatus(s)
       \/ \E at \in Instants : EnterPast(s, at)
  \/ SetField
  \/ Redirect
  \/ Read
  \/ Evaluate
  \/ Write
  \/ Fail

Spec == Init /\ [][Next]_vars

-----------------------------------------------------------------------------
(***************************************************************************)
(* PROPERTIES                                                              *)
(***************************************************************************)

\* The stored table was measured from the file as it is.
Current == stored.at # None /\ stored.task = task

\* What an Index of this moment would store.
Fresh == {Row(result) : result \in Results(task, now)}

Grade(status) == IF status = "ok" THEN 0 ELSE IF status = "at_risk" THEN 1 ELSE 2

\* While the file stays as it was, the stored status of an SLA is never worse
\* than the true one, however long ago Index ran (engine.go:119-121): a query
\* for sla.status = "breached" may miss a breach, and invents none.  An SLA that
\* has been completed does not change at all (sla.go:74-82).
StaleIsNoWorse ==
  Current => \A r \in stored.rows, f \in Fresh :
               r.rule = f.rule =>
                 /\ Grade(r.status) <= Grade(f.status)
                 /\ r.start = f.start
                 /\ r.stop # None /\ r.stop > r.start => f = r

\* The log is in the order of time.
Chronological(log) == \A i, j \in DOMAIN log : i < j => log[i].at <= log[j].at

EventTimes(log, status) == {log[i].at : i \in EventsInto(log, status)}

\* The start and the stop of r are the most recent events of its rule.
MostRecent(t, r) ==
  \A rule \in Rules : rule.id = r.rule =>
    /\ \A at \in EventTimes(t.log, StatusOf[rule.start]) : at <= r.start
    /\ \A at \in EventTimes(t.log, StatusOf[rule.stop]) : r.stop # None /\ at <= r.stop

\* "The most recent cycle is used" (sla.go:112-114) when entries are in the
\* order of time, whatever else was logged, undone or done again.
OrderedLogMostRecent ==
  Chronological(stored.task.log) => \A r \in stored.rows : MostRecent(stored.task, r)

\* Although a task may be reopened after it was completed, be completed before
\* it was started, or have a log in any order, no SLA of events of the past
\* has a negative elapsed time (sla.go:77-84).
NeverNegative == \A r \in stored.rows : r.start <= stored.at => MinutesOf(r.elapsed) >= 0

\* The status that is stored fits the remaining time stored beside it, though
\* one is taken from exact minutes and the other is rounded to a tenth of an
\* hour with a sign of its own (duration.go:86-111, sla.go:90-92).
StatusFitsRemaining ==
  \A r \in stored.rows :
    IF r.status = "breached" THEN MinutesOf(r.remaining) <= 0 ELSE MinutesOf(r.remaining) >= 0

\* The seconds an SLA had been running when it was stored.
Running(r) == (IF r.stop # None /\ r.stop > r.start THEN r.stop ELSE stored.at) - r.start

\* No breach is reported before the target has passed by a full minute, and
\* two full minutes past it every breach is, though the minutes are rounded
\* through a float64 (sla.go:84-92).
BreachesOnTime ==
  \A r \in stored.rows, rule \in Rules : rule.id = r.rule =>
    /\ r.status = "breached" => Running(r) >= 60 * (rule.target + 1)
    /\ Running(r) >= 60 * (rule.target + 2) => r.status = "breached"

=============================================================================

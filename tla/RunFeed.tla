-------------------------------- MODULE RunFeed --------------------------------
(***************************************************************************)
(* How a run gets from the classify route to the people who wait for it:   *)
(* the route stamps and records it (ui/lib/stats.ts, ui/lib/runs.ts), the  *)
(* convert workers and the watchdog move its row on, and the Monitor, the  *)
(* Documents page and the wizard's second step poll /api/stats.  What      *)
(* workers and watchdog do to a row is Convert: any of the moves of        *)
(* RunLifecycle, which ConvertPipeline implements, with the PDF left out.  *)
(***************************************************************************)
EXTENDS Integers, FiniteSets

CONSTANTS
  Docs,        \* documents, one classify request each
  Default,     \* those uploaded to DEFAULT_WORKSPACE_ID, the only one polled
  Office,      \* those of category "convert"
  Pages,       \* open pages
  Limit,       \* rows that queryRecentRuns asks for
  MaxFlights,  \* bound: polls of a page under way at once
  MaxFaults    \* bound: database and network errors

ASSUME FeedAssumption ==
  /\ IsFiniteSet(Docs) /\ Default \subseteq Docs /\ Office \subseteq Docs
  /\ {Limit, MaxFlights} \subseteq Nat \ {0} /\ MaxFaults \in Nat

VARIABLES
  status,     \* Docs -> convertStatus of the row, "absent" without one
  open,       \* Docs -> is the classify request still running
  ts,         \* Docs -> runTs, 0 before the route takes it
  put,        \* Docs -> what has become of the Put of recordRun
  dispatch,   \* Docs -> the convertStatus the dispatch outcome stands for
  told,       \* documents whose "ok" has reached the browser
  kind,       \* Pages -> the wizard's second step, or Monitor and Documents
  shown,      \* Pages -> rows on display
  flights,    \* Pages -> slots -> the answer to a poll, on its way
  faults      \* errors so far

rows  == <<status, open>>
route == <<ts, put, dispatch, told>>
pages == <<kind, shown, flights>>
vars  == <<rows, route, pages, faults>>

Statuses == {"absent", "none", "queued", "converting", "done", "failed"}
Slots    == 1..MaxFlights
Snapshot == [Docs -> Statuses]
NoAnswer == <<>>
Nothing  == [d \in Docs |-> "absent"]

TypeOK ==
  /\ status    \in Snapshot
  /\ open      \in [Docs -> BOOLEAN]
  /\ ts        \in [Docs -> 0..Cardinality(Docs)]
  /\ put       \in [Docs -> {"due", "landed", "lost", "expired"}]
  /\ dispatch  \in [Docs -> {"none", "queued", "failed"}]
  /\ told      \subseteq Docs
  /\ kind      \in [Pages -> {"wizard", "monitor"}]
  /\ shown     \in [Pages -> Snapshot]
  /\ flights   \in [Pages -> [Slots -> Snapshot \cup {NoAnswer}]]
  /\ faults    \in 0..MaxFaults

Init ==
  /\ status    = Nothing
  /\ open      = [d \in Docs |-> TRUE]
  /\ ts        = [d \in Docs |-> 0]
  /\ put       = [d \in Docs |-> "due"]
  /\ dispatch  = [d \in Docs |-> "none"]
  /\ told      = {}
  /\ kind      \in [Pages -> {"wizard", "monitor"}]
  /\ shown     = [p \in Pages |-> Nothing]
  /\ flights   = [p \in Pages |-> [i \in Slots |-> NoAnswer]]
  /\ faults    = 0

Fault == faults < MaxFaults /\ faults' = faults + 1
Present(d) == status[d] # "absent"

(***************************************************************************)
(* The classify route                                                      *)
(***************************************************************************)
Outcomes(d) == IF d \in Office THEN {"none", "queued", "failed"} ELSE {"none"}

\* Slip: a request may be stamped anew.
StampAgain(d) ==
  /\ open[d]
  /\ ts' = [ts EXCEPT ![d] = 1 + Cardinality({e \in Docs : ts[e] > 0}) + ts[d]]
  /\ \E s \in Outcomes(d) : dispatch' = [dispatch EXCEPT ![d] = s]
  /\ UNCHANGED <<rows, put, told, pages, faults>>

\* The document is classified, or not; runTs is taken, and the document then
\* dispatched.  recordSuccess turns the outcome into a convertStatus.
Stamp(d) ==
  /\ open[d] /\ ts[d] = 0
  /\ ts' = [ts EXCEPT ![d] = 1 + Cardinality({e \in Docs : ts[e] > 0})]
  /\ \E s \in Outcomes(d) : dispatch' = [dispatch EXCEPT ![d] = s]
  /\ UNCHANGED <<rows, put, told, pages, faults>>

PutRow(d) == status' = [status EXCEPT ![d] = dispatch[d]]

\* recordRun, whose errors are logged and swallowed.
Record(d) ==
  /\ open[d] /\ ts[d] > 0 /\ put[d] = "due"
  /\ \/ PutRow(d) /\ put' = [put EXCEPT ![d] = "landed"] /\ UNCHANGED faults
     \/ /\ Fault /\ put' = [put EXCEPT ![d] = "lost"]
        /\ PutRow(d) \/ UNCHANGED status
  /\ UNCHANGED <<open, ts, dispatch, told, pages>>

\* The Put lands, its answer is lost, and the SDK will put the item again,
\* over whatever a worker has made of the row by then.
RecordAnswerLost(d) ==
  /\ open[d] /\ ts[d] > 0 /\ put[d] = "due" /\ Fault
  /\ PutRow(d)
  /\ UNCHANGED <<open, route, pages>>

\* Slip: the route answers without awaiting recordRun.
AnswerEarly(d) ==
  /\ open[d] /\ ts[d] > 0
  /\ open' = [open EXCEPT ![d] = FALSE]
  /\ \/ told' = told \cup {d} /\ UNCHANGED faults
     \/ Fault /\ UNCHANGED told
  /\ UNCHANGED <<status, ts, put, dispatch, pages>>

\* The answer, which may get lost; the wizard lists what it was told of.
Answer(d) ==
  /\ open[d] /\ put[d] # "due"
  /\ open' = [open EXCEPT ![d] = FALSE]
  /\ \/ told' = told \cup {d} /\ UNCHANGED faults
     \/ Fault /\ UNCHANGED told
  /\ UNCHANGED <<status, ts, put, dispatch, pages>>

(***************************************************************************)
(* The row's further life                                                  *)
(***************************************************************************)
\* What workers and watchdog do to a row, in any order that overlapping and
\* repeated deliveries make possible.  The claim need not be one the route
\* knows of: the answer to its dispatch may be lost, or it is sent by hand.
Convert(d) ==
  /\ d \in Office /\ Present(d)
  /\ \E s \in {"converting", "done", "failed"} : status' = [status EXCEPT ![d] = s]
  /\ UNCHANGED <<open, route, pages, faults>>

\* DynamoDB's TTL.
Expire(d) ==
  /\ ~open[d] /\ Present(d)
  /\ status' = [status EXCEPT ![d] = "absent"]
  /\ put' = [put EXCEPT ![d] = "expired"]
  /\ UNCHANGED <<open, ts, dispatch, told, pages, faults>>

(***************************************************************************)
(* The pages                                                               *)
(***************************************************************************)
\* queryRecentRuns: a consistent read of the newest Limit rows.
Newer(d)  == {e \in Default : Present(e) /\ ts[e] > ts[d]}
Recent    == {d \in Default : Present(d) /\ Cardinality(Newer(d)) < Limit}
RecentRow == [d \in Docs |-> IF d \in Recent THEN status[d] ELSE "absent"]

Free(p) == {i \in Slots : flights[p][i] = NoAnswer}

\* Slip: rows none of which is under way are taken to be final.
PollWhileConverting(p) ==
  /\ \E i \in Free(p) :
       flights' = [flights EXCEPT ![p][i] =
                     IF shown[p] = Nothing \/ \E d \in Docs : shown[p][d] \in {"queued", "converting"}
                     THEN RecentRow ELSE shown[p]]
  /\ UNCHANGED <<rows, route, kind, shown, faults>>

\* A timer runs out: polls do not wait for each other, and may be answered in
\* any order.  A query that fails is answered by an empty list.
Poll(p) ==
  /\ \E i \in Free(p) :
       /\ \A j \in Free(p) : i <= j
       /\ \/ flights' = [flights EXCEPT ![p][i] = RecentRow] /\ UNCHANGED faults
          \/ flights' = [flights EXCEPT ![p][i] = Nothing] /\ Fault
  /\ UNCHANGED <<rows, route, kind, shown>>

\* The wizard keeps the rows of its batch.
Kept(p, s) == IF kind[p] = "wizard"
              THEN [d \in Docs |-> IF d \in told THEN s[d] ELSE "absent"]
              ELSE s

InFlight(s) == \E d \in Docs : s[d] \in {"queued", "converting"}

\* The wizard polls at a new pace whenever conversions begin or end, and then
\* ignores the polls under way.
Shows(p, i) ==
  /\ flights[p][i] # NoAnswer
  /\ LET s == Kept(p, flights[p][i]) IN
       /\ shown' = [shown EXCEPT ![p] = s]
       /\ flights' = IF kind[p] = "wizard" /\ InFlight(s) # InFlight(shown[p])
                     THEN [flights EXCEPT ![p] = [j \in Slots |-> NoAnswer]]
                     ELSE [flights EXCEPT ![p][i] = NoAnswer]
  /\ UNCHANGED <<rows, route, kind, faults>>

\* "swallow - keep last snapshot"
PollLost(p, i) ==
  /\ flights[p][i] # NoAnswer /\ Fault
  /\ flights' = [flights EXCEPT ![p][i] = NoAnswer]
  /\ UNCHANGED <<rows, route, kind, shown>>

\* "View in Documents": the page starts with nothing and hears no more of the
\* wizard's polls.
ViewInDocuments(p) ==
  /\ kind[p] = "wizard" /\ kind' = [kind EXCEPT ![p] = "monitor"]
  /\ shown' = [shown EXCEPT ![p] = Nothing]
  /\ flights' = [flights EXCEPT ![p] = [i \in Slots |-> NoAnswer]]
  /\ UNCHANGED <<rows, route, faults>>

\* A wizard that has no row of a document goes by its dispatch.
View(p, d) ==
  IF kind[p] = "wizard" /\ d \in told /\ shown[p][d] = "absent"
  THEN dispatch[d] ELSE shown[p][d]

Classify(d) == Stamp(d) \/ Record(d) \/ RecordAnswerLost(d) \/ Answer(d)
Work(d)     == Convert(d) \/ Expire(d)

Next ==
  \/ \E d \in Docs : Classify(d) \/ Work(d)
  \/ \E p \in Pages : \/ Poll(p) \/ ViewInDocuments(p)
                      \/ \E i \in Slots : Shows(p, i) \/ PollLost(p, i)

Spec == Init /\ [][Next]_vars

\* Pages poll for ever, and every poll is answered or fails.
FairSpec ==
  /\ Spec
  /\ \A p \in Pages : /\ WF_vars(Poll(p))
                      /\ \A i \in Slots : WF_vars(Shows(p, i))

(***************************************************************************)
(* Properties                                                              *)
(***************************************************************************)
\* "A row written during a classify is visible to the immediately-following
\* dashboard refresh": a document the browser was told of is among the recent
\* ones of its workspace, unless its Put failed, its time is up, or as many
\* rows as fit are newer.
ToldIsListed ==
  \A d \in told \cap Default :
    d \in Recent \/ put[d] \in {"lost", "expired"} \/ Cardinality(Newer(d)) >= Limit

\* Answers overtaking each other, lost polls and empty lists pass: a conversion
\* that is over is shown to be in the end, and stays so.
PagesCatchUp ==
  \A p \in Pages, d \in Default, s \in {"done", "failed"} :
    <>[](d \in Recent /\ status[d] = s /\ (kind[p] = "monitor" \/ d \in told))
      => <>[](View(p, d) = s)
==============================================================================

---------------------------- MODULE RunLifecycle ----------------------------
(***************************************************************************)
(* What the readers of a run row (Recent table, runs/[documentId],         *)
(* progress) may rely on, with the queue, the workers and the watchdog     *)
(* abstracted away: rows appear, and get a status the route chose, only    *)
(* while the classify request is open; then a row moves freely among       *)
(* converting, done and failed.  As long as one worker at a time is busy   *)
(* with a document, "done" says that its PDF is whole, and stays so: the   *)
(* object is written to again only after the row has left "done".          *)
(***************************************************************************)
CONSTANT Docs

VARIABLES
  status,     \* Docs -> convertStatus of the row, "absent" without a row
  open,       \* Docs -> is the classify request still running
  pdf,        \* Docs -> is the PDF there, and whole
  contended   \* documents that two workers have been busy with at one time

vars == <<status, open, pdf, contended>>

Init ==
  /\ status = [d \in Docs |-> "absent"]
  /\ open \in [Docs -> BOOLEAN]
  /\ pdf = [d \in Docs |-> FALSE]
  /\ contended = {}

\* The request records the run, and perhaps ends.
Record(d) ==
  /\ open[d]
  /\ \E s \in {"none", "queued", "failed"} : status' = [status EXCEPT ![d] = s]
  /\ \/ UNCHANGED open
     \/ open' = [open EXCEPT ![d] = FALSE]
  /\ UNCHANGED <<pdf, contended>>

Close(d) ==
  /\ open[d]
  /\ open' = [open EXCEPT ![d] = FALSE]
  /\ UNCHANGED <<status, pdf, contended>>

\* A conversion starts, again or for the first time, or ends either way.
Convert(d, s) ==
  /\ status[d] # "absent"
  /\ s = "done" => pdf[d] \/ d \in contended
  /\ status' = [status EXCEPT ![d] = s]
  /\ UNCHANGED <<open, pdf, contended>>

Publish(d) ==
  /\ pdf' = [pdf EXCEPT ![d] = TRUE]
  /\ UNCHANGED <<status, open, contended>>

\* A call given up in mid-stream truncates the object.
Truncate(d) ==
  /\ status[d] = "done" => d \in contended
  /\ pdf' = [pdf EXCEPT ![d] = FALSE]
  /\ UNCHANGED <<status, open, contended>>

\* The queue hands the document to a second worker.
Contend(d) ==
  /\ contended' = contended \union {d}
  /\ UNCHANGED <<status, open, pdf>>

Remove(d) ==
  /\ ~open[d] /\ status[d] # "absent"
  /\ status' = [status EXCEPT ![d] = "absent"]
  /\ UNCHANGED <<open, pdf, contended>>

Next == \E d \in Docs :
  \/ Record(d) \/ Close(d) \/ Publish(d) \/ Truncate(d) \/ Contend(d) \/ Remove(d)
  \/ \E s \in {"converting", "done", "failed"} : Convert(d, s)

Spec == Init /\ [][Next]_vars
=============================================================================

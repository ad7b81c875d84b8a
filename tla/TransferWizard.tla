---------------------------- MODULE TransferWizard ----------------------------
(***************************************************************************)
(* The Document Transfer page (ui/components/wizard/TransferWizard.tsx).   *)
(* Step 1 collects files and sends them one after the other to the         *)
(* classify route; step 2 shows how they fare.  Each click on Classify     *)
(* starts a loop over the list as it was at that moment, and a loop goes   *)
(* on whatever happens to the list or to the page.  A file is known by its *)
(* number in the order in which files were added.                          *)
(***************************************************************************)
EXTENDS Integers, FiniteSets

CONSTANTS
  NumFiles,   \* bound: files added
  MaxClicks,  \* bound: clicks on Classify
  MaxFaults   \* bound: answers that do not reach the page

ASSUME WizardAssumption == {NumFiles, MaxClicks, MaxFaults} \subseteq Nat

VARIABLES
  status,     \* Files -> how the list shows a file, if it does
  step,       \* the page's step
  loop,       \* Loops -> what each click has still to send, and how its request fares
  clicks,     \* clicks so far
  behind,     \* Files -> requests the server goes on with though nobody listens
  documents,  \* Files -> documents the server has made of a file
  lost,       \* Files -> answers about a file that have not reached the page
  stray,      \* was a file taken away from a loop since all loops last rested
  doubtful,   \* files sent while that was so
  faults      \* faults so far

vars == <<status, step, loop, clicks, behind, documents, lost, stray, doubtful, faults>>
server  == <<behind, documents, lost, faults>>

Files == 1..NumFiles
Loops == 1..MaxClicks
NoFile == 0

\* Of a file still to come, in the list, and taken from it.
DocStatus == {"new", "pending", "uploading", "classifying", "done", "error", "removed"}

\* A request's stages: the body is sent, the server works, it has an answer.
Loop == [todo : SUBSET Files, doc : Files \cup {NoFile},
         at   : {"off", "uploading", "classifying", "ok", "refused"}]

TypeOK ==
  /\ status    \in [Files -> DocStatus]
  /\ step      \in {1, 2}
  /\ loop      \in [Loops -> Loop]
  /\ clicks    \in 0..MaxClicks
  /\ behind    \in [Files -> Nat]
  /\ documents \in [Files -> Nat]
  /\ lost      \in [Files -> Nat]
  /\ stray     \in BOOLEAN
  /\ doubtful  \subseteq Files
  /\ faults    \in 0..MaxFaults

Off     == [todo |-> {}, doc |-> NoFile, at |-> "off"]
Nowhere == [f \in Files |-> 0]

Init ==
  /\ status    = [f \in Files |-> "new"]
  /\ step      = 1
  /\ loop      = [l \in Loops |-> Off]
  /\ clicks    = 0
  /\ behind    = Nowhere
  /\ documents = Nowhere
  /\ lost      = Nowhere
  /\ stray     = FALSE
  /\ doubtful  = {}
  /\ faults    = 0

Active(l) == loop[l].at # "off"
Listed    == {f \in Files : status[f] \notin {"new", "removed"}}
\* Slip: documents that are done are sent again.
UnsentOrDone == {f \in Files : status[f] \in {"pending", "error", "done"}}
Unsent    == {f \in Files : status[f] \in {"pending", "error"}}
AnyDone   == \E f \in Files : status[f] = "done"
\* Slip: a request whose body has been sent no longer holds the buttons back.
BusyUploading == \E f \in Files : status[f] = "uploading"
Busy      == \E f \in Files : status[f] \in {"uploading", "classifying"}

\* update: a file that is no longer listed stays so.
Updated(shown, f, s) ==
  IF shown[f] = "removed" THEN shown ELSE [shown EXCEPT ![f] = s]

Fault == faults < MaxFaults /\ faults' = faults + 1

(***************************************************************************)
(* The list                                                                *)
(***************************************************************************)
AddFile ==
  /\ step = 1
  /\ \E f \in Files : /\ status[f] = "new"
                      /\ \A g \in Files : status[g] = "new" => f <= g
                      /\ status' = [status EXCEPT ![f] = "pending"]
  /\ UNCHANGED <<step, loop, clicks, stray, doubtful, server>>

Holders(f) == {l \in Loops : Active(l) /\ f \in loop[l].todo \cup {loop[l].doc}}

\* The list offers it for files that are pending, done or in error.
RemoveDoc(f) ==
  /\ step = 1 /\ status[f] \in {"pending", "done", "error"}
  /\ status' = [status EXCEPT ![f] = "removed"]
  /\ stray' = (stray \/ Holders(f) # {})
  /\ UNCHANGED <<step, loop, clicks, doubtful, server>>

(***************************************************************************)
(* A loop                                                                  *)
(***************************************************************************)
\* l sends the first file of todo, or rests; shown is the list until then.
Sends(l, todo, shown) ==
  IF todo = {}
  THEN /\ loop' = [loop EXCEPT ![l] = Off]
       /\ status' = shown
       /\ stray' = (stray /\ \E m \in Loops \ {l} : Active(m))
       /\ UNCHANGED doubtful
  ELSE \E f \in todo :
       /\ \A g \in todo : f <= g
       /\ loop' = [loop EXCEPT ![l] =
                     [todo |-> todo \ {f}, doc |-> f, at |-> "uploading"]]
       /\ status' = Updated(shown, f, "uploading")
       /\ doubtful' = IF stray THEN doubtful \cup {f} ELSE doubtful
       /\ UNCHANGED stray

\* The button is disabled while a listed file is under way.
ClassifyAll ==
  /\ step = 1 /\ ~Busy /\ Unsent # {}
  /\ clicks < MaxClicks /\ clicks' = clicks + 1
  /\ Sends(clicks', Unsent, status)
  /\ UNCHANGED <<step, server>>

Reaches(l, s) == loop' = [loop EXCEPT ![l].at = s]

\* upload.onloadend
Uploaded(l) ==
  /\ loop[l].at = "uploading" /\ Reaches(l, "classifying")
  /\ status' = Updated(status, loop[l].doc, "classifying")
  /\ UNCHANGED <<step, clicks, stray, doubtful, server>>

\* The classify route has classified and recorded the document, ...
Classified(l) ==
  /\ loop[l].at = "classifying" /\ Reaches(l, "ok")
  /\ documents' = [documents EXCEPT ![loop[l].doc] = @ + 1]
  /\ UNCHANGED <<status, step, clicks, stray, doubtful, behind, lost, faults>>

\* ... or answers 400, 413, 422, 500 or 502.
Refused(l) ==
  /\ loop[l].at \in {"uploading", "classifying"} /\ Reaches(l, "refused")
  /\ UNCHANGED <<status, step, clicks, stray, doubtful, server>>

\* xhr.onload
Answered(l) ==
  /\ \/ /\ loop[l].at = "ok"
        /\ Sends(l, loop[l].todo, Updated(status, loop[l].doc, "done"))
     \/ /\ loop[l].at = "refused"
        /\ Sends(l, loop[l].todo, Updated(status, loop[l].doc, "error"))
  /\ UNCHANGED <<step, clicks, server>>

\* Slip: the promise of a broken request is never settled.
NetworkErrorUnheard(l) ==
  /\ Active(l) /\ Fault
  /\ lost' = [lost EXCEPT ![loop[l].doc] = @ + 1]
  /\ loop' = [loop EXCEPT ![l] = Off]
  /\ UNCHANGED <<status, step, clicks, stray, doubtful, behind, documents>>

\* xhr.onerror, or an answer that is not JSON.  The server goes on with a
\* request it has received.
NetworkError(l) ==
  /\ Active(l) /\ Fault
  /\ lost' = [lost EXCEPT ![loop[l].doc] = @ + 1]
  /\ \/ UNCHANGED behind
     \/ loop[l].at = "classifying" /\ behind' = [behind EXCEPT ![loop[l].doc] = @ + 1]
  /\ Sends(l, loop[l].todo, Updated(status, loop[l].doc, "error"))
  /\ UNCHANGED <<step, clicks, documents>>

\* Slip: a request the server no longer works on ends once more.
GoesOnTwice(f) ==
  /\ behind' = [behind EXCEPT ![f] = @ - 1]
  /\ documents' = [documents EXCEPT ![f] = @ + 1]
  /\ UNCHANGED <<status, step, loop, clicks, lost, stray, doubtful, faults>>

GoesOn(f) ==
  /\ behind[f] > 0 /\ behind' = [behind EXCEPT ![f] = @ - 1]
  /\ \/ documents' = [documents EXCEPT ![f] = @ + 1]
     \/ UNCHANGED documents
  /\ UNCHANGED <<status, step, loop, clicks, lost, stray, doubtful, faults>>

(***************************************************************************)
(* The page                                                                *)
(***************************************************************************)
NextStep ==
  /\ step = 1 /\ AnyDone /\ ~Busy
  /\ step' = 2
  /\ UNCHANGED <<status, loop, clicks, stray, doubtful, server>>

PreviousStep ==
  /\ step = 2 /\ step' = 1
  /\ UNCHANGED <<status, loop, clicks, stray, doubtful, server>>

Emptied == [f \in Files |-> IF f \in Listed THEN "removed" ELSE status[f]]

\* A link leads away within the application, and another back to an empty
\* list: the loops go on.
Leave ==
  /\ Listed # {}
  /\ status' = Emptied /\ step' = 1
  /\ stray' = (stray \/ \E l \in Loops : Active(l))
  /\ UNCHANGED <<loop, clicks, doubtful, server>>

\* The browser loads the page anew, which ends them.
Reload ==
  /\ Listed # {} \/ \E l \in Loops : Active(l)
  /\ status' = Emptied /\ step' = 1 /\ stray' = FALSE
  /\ loop' = [l \in Loops |-> Off]
  /\ \E go \in SUBSET {l \in Loops : loop[l].at = "classifying"} :
       behind' = [f \in Files |->
                    behind[f] + Cardinality({l \in go : loop[l].doc = f})]
  /\ UNCHANGED <<clicks, documents, lost, doubtful, faults>>

Progress(l) == Uploaded(l) \/ Classified(l) \/ Refused(l) \/ Answered(l)

Next ==
  \/ AddFile \/ ClassifyAll \/ NextStep \/ PreviousStep \/ Leave \/ Reload
  \/ \E f \in Files : RemoveDoc(f) \/ GoesOn(f)
  \/ \E l \in Loops : Progress(l) \/ NetworkError(l)

Spec == Init /\ [][Next]_vars

\* A request has no timeout: the server answers, or the connection breaks.
FairSpec == Spec /\ \A l \in Loops : WF_vars(Progress(l))

(***************************************************************************)
(* Properties                                                              *)
(***************************************************************************)
\* "Sequential - ... avoids hammering the in-process classifier": one request
\* at a time, and none behind step 2, as long as the user has taken nothing
\* away from a loop under way.
OneAtATime ==
  ~stray => /\ \A l, m \in Loops : Active(l) /\ Active(m) => l = m
            /\ step = 2 => \A l \in Loops : ~Active(l)

\* Trying again what failed, and classifying what came later, makes no second
\* document of a file, unless an answer about it was lost or it was sent by a
\* loop gone astray; and a file shown as done has one.
OneDocument ==
  \A f \in Files :
    /\ f \notin doubtful => documents[f] <= 1 + lost[f]
    /\ status[f] = "done" => documents[f] > 0

\* The list shows a file as under way, and so holds back both buttons, only while
\* a loop has it in hand, strays included: no way a request can end, and nothing
\* the user does meanwhile, leaves the page waiting for no one.
BusyIsTrue ==
  \A f \in Files : status[f] \in {"uploading", "classifying"}
    => \E l \in Loops : Active(l) /\ loop[l].doc = f

InHand(f) ==
  \/ status[f] \in {"uploading", "classifying"}
  \/ status[f] = "pending" /\ Holders(f) # {}

\* Whatever is under way, or waits for its turn, is told how it ended or is
\* taken from the list: no loop stops half-way, strays included.
BatchEnds == \A f \in Files : InHand(f) ~> ~InHand(f)
==============================================================================

------------------------- MODULE TransferWizard_proofs -------------------------
(***************************************************************************)
(* Proofs about TransferWizard, for any number of files, clicks and lost   *)
(* answers.  Calm says what holds while the user leaves the loops alone;   *)
(* Counted, which needs it, says how many documents a file may have and    *)
(* when it has one to spare.                                               *)
(***************************************************************************)
EXTENDS TransferWizard, FiniteSetTheorems, TLAPS

On(l, f) == Active(l) /\ loop[l].doc = f

\* What a loop has in hand and still to send.
Shape ==
  /\ \A l \in Loops : Active(l) => loop[l].doc \in Files /\ loop[l].doc \notin loop[l].todo
  /\ \A l \in Loops, f \in Files :
       Active(l) /\ f \in loop[l].todo \cup {loop[l].doc} => status[f] # "new"
  /\ \A l \in Loops : l > clicks => ~Active(l)

Alone(l) == \A m \in Loops : Active(m) => m = l

\* Left alone there is one loop, which holds the page and the buttons back,
\* and what it has still to send is unsent.
Calm ==
  ~stray => \A l \in Loops : Active(l) =>
    /\ Alone(l)
    /\ step = 1
    /\ status[loop[l].doc] \in {"uploading", "classifying"}
    /\ \A f \in loop[l].todo : status[f] \in {"pending", "error"}

\* The one document that needs no lost answer to account for it is made.
Spent(f) ==
  \/ status[f] \in {"done", "removed"} /\ \A l \in Loops : ~On(l, f)
  \/ \E l \in Loops : On(l, f) /\ loop[l].at = "ok"

CountedAt(f) ==
  /\ \A l, m \in Loops : On(l, f) /\ On(m, f) => l = m
  /\ documents[f] + behind[f] <= lost[f] + 1
  /\ Spent(f) \/ documents[f] + behind[f] <= lost[f]

Counted == \A f \in Files : f \notin doubtful => CountedAt(f)

\* A good answer, and what is shown of it, is about a document.
Made ==
  /\ \A f \in Files : status[f] = "done" => documents[f] > 0
  /\ \A l \in Loops : loop[l].at = "ok" => documents[loop[l].doc] > 0

IInv == TypeOK /\ Shape /\ Calm /\ Counted /\ Made

LEMMA InitInv == Init => IInv
<1> SUFFICES ASSUME Init PROVE IInv
  OBVIOUS
<1>1. NumFiles \in Nat /\ MaxClicks \in Nat /\ MaxFaults \in Nat
  BY WizardAssumption
<1>2. TypeOK
  <2>1. loop \in [Loops -> Loop]
    BY DEF Init, Off, Loop
  <2>2. status \in [Files -> DocStatus]
    BY DEF Init, DocStatus
  <2>3. /\ behind \in [Files -> Nat] /\ documents \in [Files -> Nat] /\ lost \in [Files -> Nat]
    BY DEF Init, Nowhere
  <2>4. clicks \in 0..MaxClicks /\ faults \in 0..MaxFaults
    <3>1. clicks = 0 /\ faults = 0
      BY DEF Init
    <3> QED
      BY <1>1, <3>1
  <2>5. step \in {1, 2} /\ stray \in BOOLEAN /\ doubtful \subseteq Files
    BY DEF Init
  <2> QED
    BY <2>1, <2>2, <2>3, <2>4, <2>5 DEF TypeOK
<1>3. \A l \in Loops : ~Active(l)
  BY DEF Init, Off, Active
<1>4. Shape /\ Calm
  BY <1>3 DEF Shape, Calm
<1>5. Counted
  BY <1>3 DEF Init, Nowhere, Counted, CountedAt, On
<1>6. Made
  BY DEF Init, Off, Made
<1> QED
  BY <1>2, <1>4, <1>5, <1>6 DEF IInv

(***************************************************************************)
(* Lists and loops                                                         *)
(***************************************************************************)
LEMMA UpdatedList ==
  ASSUME NEW shown \in [Files -> DocStatus], NEW f \in Files, NEW s \in DocStatus
  PROVE  /\ Updated(shown, f, s) \in [Files -> DocStatus]
         /\ \A e \in Files \ {f} : Updated(shown, f, s)[e] = shown[e]
         /\ Updated(shown, f, s)[f] = IF shown[f] = "removed" THEN "removed" ELSE s
BY DEF Updated

LEMMA LoopFields ==
  ASSUME TypeOK, NEW l \in Loops
  PROVE  /\ loop[l] \in Loop
         /\ loop[l].todo \subseteq Files
         /\ loop[l].doc \in Files \cup {NoFile}
         /\ loop[l].at \in {"off", "uploading", "classifying", "ok", "refused"}
<1>1. loop[l] \in Loop
  BY DEF TypeOK
<1> QED
  BY <1>1 DEF Loop

\* What l has next, of todo: nothing, or f.
Rests(l) == loop' = [loop EXCEPT ![l] = Off]

Takes(l, f, todo) ==
  loop' = [loop EXCEPT ![l] = [todo |-> todo \ {f}, doc |-> f, at |-> "uploading"]]

LEMMA SendsTwoWays ==
  ASSUME TypeOK, NEW l \in Loops, NEW todo \in SUBSET Files,
         NEW shown \in [Files -> DocStatus], Sends(l, todo, shown)
  PROVE  \/ /\ todo = {} /\ Rests(l) /\ status' = shown /\ UNCHANGED doubtful
            /\ stray' = (stray /\ \E m \in Loops \ {l} : Active(m))
         \/ \E f \in todo :
              /\ Takes(l, f, todo) /\ status' = Updated(shown, f, "uploading")
              /\ doubtful' = (IF stray THEN doubtful \cup {f} ELSE doubtful)
              /\ UNCHANGED stray
<1>1. CASE todo = {}
  BY <1>1 DEF Sends, Rests
<1>2. CASE todo # {}
  BY <1>2 DEF Sends, Takes
<1> QED
  BY <1>1, <1>2

\* The loops afterwards, one by one.
LEMMA LoopsAfter ==
  ASSUME TypeOK, NEW l \in Loops
  PROVE  /\ Rests(l) => /\ loop' \in [Loops -> Loop]
                        /\ loop'[l].at = "off"
                        /\ \A m \in Loops \ {l} : loop'[m] = loop[m]
         /\ \A todo \in SUBSET Files, f \in Files : Takes(l, f, todo) =>
              /\ loop' \in [Loops -> Loop]
              /\ loop'[l].todo = todo \ {f}
              /\ loop'[l].doc = f
              /\ loop'[l].at = "uploading"
              /\ \A m \in Loops \ {l} : loop'[m] = loop[m]
<1>1. Off \in Loop /\ Off.at = "off"
  BY DEF Off, Loop
<1>2. ASSUME NEW todo \in SUBSET Files, NEW f \in Files, Takes(l, f, todo)
      PROVE  /\ loop' \in [Loops -> Loop]
             /\ loop'[l].todo = todo \ {f}
             /\ loop'[l].doc = f
             /\ loop'[l].at = "uploading"
             /\ \A m \in Loops \ {l} : loop'[m] = loop[m]
  <2> DEFINE new == [todo |-> todo \ {f}, doc |-> f, at |-> "uploading"]
  <2>1. new \in Loop /\ new.todo = todo \ {f} /\ new.doc = f /\ new.at = "uploading"
    BY DEF Loop
  <2>2. loop' = [loop EXCEPT ![l] = new]
    BY <1>2 DEF Takes
  <2> HIDE DEF new
  <2> QED
    BY <2>1, <2>2 DEF TypeOK
<1> QED
  BY <1>1, <1>2 DEF Rests, TypeOK

LEMMA ReachesLoop ==
  ASSUME TypeOK, NEW l \in Loops, NEW s \in {"classifying", "ok", "refused"}, Reaches(l, s)
  PROVE  /\ loop' \in [Loops -> Loop]
         /\ loop'[l].todo = loop[l].todo /\ loop'[l].doc = loop[l].doc /\ loop'[l].at = s
         /\ \A m \in Loops \ {l} : loop'[m] = loop[m]
BY LoopFields DEF Reaches, TypeOK, Loop

(***************************************************************************)
(* Sends: what a loop must find for the invariant to survive it            *)
(***************************************************************************)
\* shown is the list l leaves behind, todo what it has to send.
Ready(l, todo, shown) ==
  /\ todo \subseteq Files /\ shown \in [Files -> DocStatus]
  /\ \A f \in Files : shown[f] = "new" <=> status[f] = "new"
  /\ \A f \in todo : shown[f] # "new" /\ ~On(l, f)
  /\ ~stray => Alone(l) /\ step = 1 /\ \A f \in todo : shown[f] \in {"pending", "error"}

LEMMA SendsTypes ==
  ASSUME TypeOK, NEW l \in Loops, NEW todo, NEW shown,
         Ready(l, todo, shown), Sends(l, todo, shown)
  PROVE  /\ status' \in [Files -> DocStatus] /\ loop' \in [Loops -> Loop]
         /\ stray' \in BOOLEAN /\ doubtful' \subseteq Files
<1>0. todo \in SUBSET Files /\ shown \in [Files -> DocStatus]
  BY DEF Ready
<1>1. CASE todo = {}
  <2>1. Rests(l) /\ status' = shown /\ doubtful' = doubtful /\ stray' \in BOOLEAN
    BY <1>1 DEF Sends, Rests
  <2> QED
    BY <1>0, <2>1, LoopsAfter DEF TypeOK
<1>2. CASE todo # {}
  <2>1. PICK f \in todo : /\ Takes(l, f, todo) /\ status' = Updated(shown, f, "uploading")
                          /\ doubtful' = (IF stray THEN doubtful \cup {f} ELSE doubtful)
                          /\ UNCHANGED stray
    BY <1>0, <1>2, SendsTwoWays
  <2>2. status' \in [Files -> DocStatus]
    BY <1>0, <2>1, UpdatedList DEF DocStatus
  <2>3. loop' \in [Loops -> Loop]
    BY <1>0, <2>1, LoopsAfter
  <2> QED
    BY <1>0, <2>1, <2>2, <2>3 DEF TypeOK
<1> QED
  BY <1>1, <1>2

LEMMA SendsShape ==
  ASSUME TypeOK, Shape, NEW l \in Loops, NEW todo, NEW shown,
         Ready(l, todo, shown), Sends(l, todo, shown),
         clicks' \in Nat, clicks' >= clicks, l <= clicks'
  PROVE  Shape'
<1>0. /\ todo \in SUBSET Files /\ shown \in [Files -> DocStatus]
      /\ \A f \in Files : shown[f] = "new" <=> status[f] = "new"
      /\ \A f \in todo : shown[f] # "new"
      /\ clicks \in Nat
  BY DEF Ready, TypeOK
<1>1. CASE todo = {}
  <2>1. Rests(l) /\ status' = shown
    BY <1>1 DEF Sends, Rests
  <2>2. loop'[l].at = "off" /\ \A m \in Loops \ {l} : loop'[m] = loop[m]
    BY <2>1, LoopsAfter
  <2> QED
    BY <1>0, <2>1, <2>2 DEF Shape, Active, Loops
<1>2. CASE todo # {}
  <2>1. PICK f \in todo : Takes(l, f, todo) /\ status' = Updated(shown, f, "uploading")
    BY <1>0, <1>2, SendsTwoWays
  <2>2. \A e \in Files : status'[e] = "new" => status[e] = "new" /\ e # f
    BY <1>0, <2>1, UpdatedList DEF DocStatus
  <2>3. /\ loop'[l].todo = todo \ {f} /\ loop'[l].doc = f
        /\ \A m \in Loops \ {l} : loop'[m] = loop[m]
    BY <1>0, <2>1, LoopsAfter
  <2> QED
    BY <1>0, <2>1, <2>2, <2>3 DEF Shape, Active, Loops
<1> QED
  BY <1>1, <1>2

LEMMA SendsCalm ==
  ASSUME TypeOK, NEW l \in Loops, NEW todo, NEW shown,
         Ready(l, todo, shown), Sends(l, todo, shown), UNCHANGED step
  PROVE  Calm'
<1>0. todo \in SUBSET Files /\ shown \in [Files -> DocStatus]
  BY DEF Ready
<1>1. CASE todo = {}
  <2>1. /\ Rests(l) /\ stray' = (stray /\ \E m \in Loops \ {l} : Active(m))
    BY <1>1 DEF Sends, Rests
  <2>2. loop'[l].at = "off" /\ \A m \in Loops \ {l} : loop'[m] = loop[m]
    BY <2>1, LoopsAfter
  <2>3. ~stray' => \A m \in Loops : ~Active(m)'
    BY <2>1, <2>2 DEF Ready, Alone, Active
  <2> QED
    BY <2>3 DEF Calm
<1>2. CASE todo # {}
  <2>1. PICK f \in todo : /\ Takes(l, f, todo) /\ status' = Updated(shown, f, "uploading")
                          /\ UNCHANGED stray
    BY <1>0, <1>2, SendsTwoWays
  <2>2. /\ loop'[l].todo = todo \ {f} /\ loop'[l].doc = f
        /\ \A m \in Loops \ {l} : loop'[m] = loop[m]
    BY <1>0, <2>1, LoopsAfter
  <2>3. /\ \A e \in Files \ {f} : status'[e] = shown[e]
        /\ shown[f] # "removed" => status'[f] = "uploading"
    BY <1>0, <2>1, UpdatedList DEF DocStatus
  <2>4. CASE stray
    BY <2>1, <2>4 DEF Calm
  <2>5. CASE ~stray
    <3>1. Alone(l) /\ step = 1 /\ \A e \in todo : shown[e] \in {"pending", "error"}
      BY <2>5 DEF Ready
    <3>2. \A m \in Loops : Active(m)' => m = l
      BY <2>2, <3>1 DEF Alone, Active
    <3>3. status'[f] = "uploading" /\ \A e \in todo \ {f} : status'[e] \in {"pending", "error"}
      BY <1>0, <2>3, <3>1
    <3> QED
      BY <2>2, <3>1, <3>2, <3>3 DEF Calm, Alone
  <2> QED
    BY <2>4, <2>5
<1> QED
  BY <1>1, <1>2

\* l has settled what it had in hand, and nothing else has moved.
Accounts(l, shown) ==
  /\ UNCHANGED documents
  /\ \A e \in Files : ~On(l, e) => /\ shown[e] = status[e]
                                   /\ lost'[e] = lost[e] /\ behind'[e] = behind[e]
  /\ \A e \in Files : On(l, e) /\ e \notin doubtful =>
       /\ documents[e] + behind'[e] <= lost'[e] + 1
       /\ shown[e] \in {"done", "removed"} \/ documents[e] + behind'[e] <= lost'[e]

LEMMA SendsCounted ==
  ASSUME TypeOK, Counted, NEW l \in Loops, NEW todo, NEW shown,
         Ready(l, todo, shown), Sends(l, todo, shown), Accounts(l, shown)
  PROVE  Counted'
<1>0. todo \in SUBSET Files /\ shown \in [Files -> DocStatus]
  BY DEF Ready
\* A file that l does not take up.
<1>a. ASSUME NEW e \in Files, e \notin doubtful, status'[e] = shown[e],
             ~On(l, e)', \A m \in Loops \ {l} : loop'[m] = loop[m]
      PROVE  CountedAt(e)'
  <2>0. CountedAt(e)
    BY <1>a DEF Counted
  <2>1. \A m \in Loops : On(m, e)' <=> m # l /\ On(m, e)
    BY <1>a DEF On, Active
  <2>2. CASE On(l, e)
    <3>1. \A m \in Loops : ~On(m, e)'
      BY <2>0, <2>1, <2>2 DEF CountedAt
    <3> QED
      BY <1>a, <2>2, <3>1 DEF Accounts, CountedAt, Spent
  <2>3. CASE ~On(l, e)
    <3>1. /\ status'[e] = status[e] /\ lost'[e] = lost[e] /\ behind'[e] = behind[e]
          /\ documents'[e] = documents[e]
      BY <1>a, <2>3 DEF Accounts
    <3>2. \A m \in Loops : On(m, e)' <=> On(m, e)
      BY <2>1, <2>3
    <3>3. Spent(e) => Spent(e)'
      BY <1>a, <2>3, <3>1, <3>2 DEF Spent
    <3> QED
      BY <2>0, <3>1, <3>2, <3>3 DEF CountedAt
  <2> QED
    BY <2>2, <2>3
<1>1. CASE todo = {}
  <2>1. Rests(l) /\ status' = shown /\ doubtful' = doubtful
    BY <1>1 DEF Sends, Rests
  <2>2. loop'[l].at = "off" /\ \A m \in Loops \ {l} : loop'[m] = loop[m]
    BY <2>1, LoopsAfter
  <2> QED
    BY <1>a, <2>1, <2>2 DEF Counted, On, Active
<1>2. CASE todo # {}
  <2>1. PICK f \in todo : /\ Takes(l, f, todo) /\ status' = Updated(shown, f, "uploading")
                          /\ doubtful' = (IF stray THEN doubtful \cup {f} ELSE doubtful)
    BY <1>0, <1>2, SendsTwoWays
  <2>2. /\ loop'[l].doc = f /\ loop'[l].at = "uploading"
        /\ \A m \in Loops \ {l} : loop'[m] = loop[m]
    BY <1>0, <2>1, LoopsAfter
  <2>3. \A e \in Files \ {f} : status'[e] = shown[e]
    BY <1>0, <2>1, UpdatedList DEF DocStatus
  <2>4. ASSUME NEW e \in Files, e \notin doubtful', e # f
        PROVE  CountedAt(e)'
    BY <1>a, <2>1, <2>2, <2>3, <2>4 DEF On
  <2>5. ASSUME f \notin doubtful'
        PROVE  CountedAt(f)'
    <3>1. ~stray /\ f \notin doubtful
      BY <2>1, <2>5
    <3>2. /\ Alone(l) /\ ~On(l, f) /\ shown[f] \in {"pending", "error"} /\ f \in Files
      BY <1>0, <3>1 DEF Ready
    <3>3. /\ status[f] \in {"pending", "error"} /\ lost'[f] = lost[f] /\ behind'[f] = behind[f]
          /\ documents'[f] = documents[f]
      BY <3>2 DEF Accounts
    <3>4. \A m \in Loops : ~On(m, f)
      BY <3>2 DEF Alone, On
    <3>5. documents[f] + behind[f] <= lost[f]
      BY <3>1, <3>2, <3>3, <3>4 DEF Counted, CountedAt, Spent
    <3>6. \A m \in Loops : On(m, f)' => m = l
      BY <2>2, <3>4 DEF On, Active
    <3>7. lost[f] \in Nat /\ documents[f] \in Nat /\ behind[f] \in Nat
      BY <3>2 DEF TypeOK
    <3>8. documents[f] + behind[f] <= lost[f] + 1
      BY <3>5, <3>7
    <3> QED
      BY <3>3, <3>5, <3>6, <3>8 DEF CountedAt
  <2> QED
    BY <2>4, <2>5 DEF Counted
<1> QED
  BY <1>1, <1>2

LEMMA SendsMade ==
  ASSUME TypeOK, Made, NEW l \in Loops, NEW todo, NEW shown,
         Ready(l, todo, shown), Sends(l, todo, shown), UNCHANGED documents,
         \A f \in Files : shown[f] = "done" => documents[f] > 0
  PROVE  Made'
<1>0. todo \in SUBSET Files /\ shown \in [Files -> DocStatus]
  BY DEF Ready
<1>1. CASE todo = {}
  <2>1. Rests(l) /\ status' = shown
    BY <1>1 DEF Sends, Rests
  <2>2. loop'[l].at = "off" /\ \A m \in Loops \ {l} : loop'[m] = loop[m]
    BY <2>1, LoopsAfter
  <2> QED
    BY <2>1, <2>2 DEF Made
<1>2. CASE todo # {}
  <2>1. PICK f \in todo : Takes(l, f, todo) /\ status' = Updated(shown, f, "uploading")
    BY <1>0, <1>2, SendsTwoWays
  <2>2. loop'[l].at = "uploading" /\ \A m \in Loops \ {l} : loop'[m] = loop[m]
    BY <1>0, <2>1, LoopsAfter
  <2>3. \A e \in Files : status'[e] = "done" => shown[e] = "done"
    BY <1>0, <2>1, UpdatedList DEF DocStatus
  <2> QED
    BY <2>2, <2>3 DEF Made
<1> QED
  BY <1>1, <1>2

LEMMA SendsInv ==
  ASSUME IInv, NEW l \in Loops, NEW todo, NEW shown,
         Ready(l, todo, shown), Sends(l, todo, shown), Accounts(l, shown),
         clicks' \in 0..MaxClicks, clicks' >= clicks, l <= clicks', UNCHANGED step,
         lost' \in [Files -> Nat], behind' \in [Files -> Nat], faults' \in 0..MaxFaults,
         \A f \in Files : shown[f] = "done" => documents[f] > 0
  PROVE  IInv'
<1>0. TypeOK /\ Shape /\ Calm /\ Counted /\ Made /\ UNCHANGED documents
  BY DEF IInv, Accounts
<1>1. TypeOK'
  BY <1>0, SendsTypes DEF TypeOK
<1>2. Shape'
  BY <1>0, SendsShape
<1>3. Calm'
  BY <1>0, SendsCalm
<1>4. Counted'
  BY <1>0, SendsCounted
<1>5. Made'
  BY <1>0, SendsMade
<1> QED
  BY <1>1, <1>2, <1>3, <1>4, <1>5 DEF IInv

(***************************************************************************)
(* The steps that send                                                     *)
(***************************************************************************)
LEMMA ClassifyAllStep ==
  ASSUME IInv, ClassifyAll
  PROVE  IInv'
<1>0. TypeOK /\ Shape /\ Calm /\ Counted /\ Made
  BY DEF IInv
<1>1. /\ clicks' = clicks + 1 /\ clicks' \in Loops /\ clicks' \in 0..MaxClicks
      /\ clicks' >= clicks /\ clicks' > clicks
  BY <1>0, WizardAssumption DEF ClassifyAll, TypeOK, Loops
<1>2. Sends(clicks', Unsent, status)
  BY DEF ClassifyAll
<1>3. \A f \in Files : ~On(clicks', f)
  BY <1>0, <1>1 DEF Shape, On
<1>4. ~stray => \A m \in Loops : ~Active(m)
  <2> SUFFICES ASSUME ~stray, NEW m \in Loops, Active(m) PROVE FALSE
    OBVIOUS
  <2>1. loop[m].doc \in Files /\ status[loop[m].doc] \in {"uploading", "classifying"}
    BY <1>0 DEF Shape, Calm
  <2> QED
    BY <2>1 DEF ClassifyAll, Busy
<1>5. Ready(clicks', Unsent, status)
  BY <1>0, <1>3, <1>4 DEF Ready, Unsent, Alone, ClassifyAll, TypeOK
<1>6. Accounts(clicks', status)
  BY <1>3 DEF Accounts, ClassifyAll, server
<1>7. /\ UNCHANGED step /\ lost' \in [Files -> Nat] /\ behind' \in [Files -> Nat]
      /\ faults' \in 0..MaxFaults /\ \A f \in Files : status[f] = "done" => documents[f] > 0
  BY <1>0 DEF ClassifyAll, server, TypeOK, Made
<1> QED
  BY <1>1, <1>2, <1>5, <1>6, <1>7, SendsInv

\* A loop goes on, having shown of the file in hand that it is in state s.
LEMMA GoesOnReady ==
  ASSUME IInv, NEW l \in Loops, Active(l), NEW s \in {"done", "error"}
  PROVE  /\ loop[l].doc \in Files
         /\ Ready(l, loop[l].todo, Updated(status, loop[l].doc, s))
         /\ l <= clicks
         /\ \A e \in Files : ~On(l, e) => Updated(status, loop[l].doc, s)[e] = status[e]
<1> DEFINE d == loop[l].doc
           shown == Updated(status, d, s)
<1>0. TypeOK /\ Shape /\ Calm
  BY DEF IInv
<1>1. d \in Files /\ d \notin loop[l].todo /\ l <= clicks
  BY <1>0 DEF Shape, TypeOK, Loops
<1>2. status \in [Files -> DocStatus] /\ loop[l].todo \subseteq Files
  BY <1>0, LoopFields DEF TypeOK
<1>3. /\ shown \in [Files -> DocStatus]
      /\ \A e \in Files \ {d} : shown[e] = status[e]
      /\ shown[d] = IF status[d] = "removed" THEN "removed" ELSE s
  BY <1>1, <1>2, UpdatedList DEF DocStatus
<1> HIDE DEF shown
<1>4. \A f \in Files : shown[f] = "new" <=> status[f] = "new"
  BY <1>0, <1>1, <1>3 DEF Shape
<1>5. \A f \in loop[l].todo : f \in Files /\ f # d /\ shown[f] = status[f]
  BY <1>1, <1>2, <1>3
<1>6. \A f \in loop[l].todo : shown[f] # "new" /\ ~On(l, f)
  BY <1>0, <1>5 DEF Shape, On
<1>7. ~stray => Alone(l) /\ step = 1 /\ \A f \in loop[l].todo : shown[f] \in {"pending", "error"}
  BY <1>0, <1>5 DEF Calm
<1>8. Ready(l, loop[l].todo, shown)
  BY <1>2, <1>3, <1>4, <1>6, <1>7 DEF Ready
<1>9. \A e \in Files : ~On(l, e) => shown[e] = status[e]
  BY <1>3 DEF On
<1> QED
  BY <1>1, <1>8, <1>9 DEF shown

LEMMA AnsweredStep ==
  ASSUME IInv, NEW l \in Loops, Answered(l)
  PROVE  IInv'
<1>0. TypeOK /\ Shape /\ Calm /\ Counted /\ Made
  BY DEF IInv
<1>1. Active(l)
  BY DEF Answered, Active
<1>2. /\ UNCHANGED <<step, clicks, behind, documents, lost, faults>>
      /\ clicks' \in 0..MaxClicks /\ clicks' >= clicks
      /\ lost' \in [Files -> Nat] /\ behind' \in [Files -> Nat] /\ faults' \in 0..MaxFaults
  BY <1>0 DEF Answered, server, TypeOK
<1> DEFINE d == loop[l].doc
<1>3. d \in Files /\ status \in [Files -> DocStatus]
  BY <1>0, <1>1 DEF Shape, TypeOK
<1>4. ASSUME NEW s \in {"done", "error"}, loop[l].at = (IF s = "done" THEN "ok" ELSE "refused"),
             Sends(l, loop[l].todo, Updated(status, d, s))
      PROVE  IInv'
  <2> DEFINE shown == Updated(status, d, s)
  <2>1. Ready(l, loop[l].todo, shown) /\ l <= clicks
        /\ \A e \in Files : ~On(l, e) => shown[e] = status[e]
    BY <1>1, GoesOnReady
  <2>2. shown[d] = (IF status[d] = "removed" THEN "removed" ELSE s)
    BY <1>3, UpdatedList DEF DocStatus
  <2>3. \A e \in Files \ {d} : shown[e] = status[e]
    BY <1>3, UpdatedList DEF DocStatus
  <2> HIDE DEF shown
  <2>4. \A e \in Files : On(l, e) /\ e \notin doubtful =>
          /\ documents[e] + behind[e] <= lost[e] + 1
          /\ shown[e] \in {"done", "removed"} \/ documents[e] + behind[e] <= lost[e]
    <3> SUFFICES ASSUME NEW e \in Files, On(l, e), e \notin doubtful
                 PROVE  /\ documents[e] + behind[e] <= lost[e] + 1
                        /\ shown[e] \in {"done", "removed"} \/ documents[e] + behind[e] <= lost[e]
      OBVIOUS
    <3>1. CountedAt(e) /\ e = d
      BY <1>0 DEF Counted, On
    <3>2. CASE s = "done"
      BY <2>2, <3>1, <3>2 DEF CountedAt
    <3>3. CASE s = "error"
      <4>1. ~Spent(e)
        BY <1>4, <3>1, <3>3 DEF Spent, CountedAt
      <4> QED
        BY <3>1, <4>1 DEF CountedAt
    <3> QED
      BY <3>2, <3>3
  <2>5. Accounts(l, shown)
    BY <1>2, <2>1, <2>4 DEF Accounts
  <2>6. \A f \in Files : shown[f] = "done" => documents[f] > 0
    BY <1>0, <1>4, <2>2, <2>3 DEF Made
  <2>7. Sends(l, loop[l].todo, shown)
    BY <1>4 DEF shown
  <2> QED
    BY <1>2, <2>1, <2>5, <2>6, <2>7, SendsInv
<1> QED
  BY <1>4 DEF Answered

LEMMA NetworkErrorStep ==
  ASSUME IInv, NEW l \in Loops, NetworkError(l)
  PROVE  IInv'
<1>0. TypeOK /\ Shape /\ Calm /\ Counted /\ Made
  BY DEF IInv
<1> DEFINE d == loop[l].doc
           shown == Updated(status, d, "error")
<1>1. /\ Active(l) /\ Sends(l, loop[l].todo, shown) /\ UNCHANGED <<step, clicks, documents>>
      /\ lost' = [lost EXCEPT ![d] = lost[d] + 1]
      /\ \/ UNCHANGED behind
         \/ loop[l].at = "classifying" /\ behind' = [behind EXCEPT ![d] = behind[d] + 1]
  BY <1>0 DEF NetworkError, TypeOK
<1>2. d \in Files /\ status \in [Files -> DocStatus]
  BY <1>0, <1>1 DEF Shape, TypeOK
<1>3. /\ Ready(l, loop[l].todo, shown) /\ l <= clicks
      /\ \A e \in Files : ~On(l, e) => shown[e] = status[e]
  BY <1>1, GoesOnReady
<1>4. /\ shown[d] = (IF status[d] = "removed" THEN "removed" ELSE "error")
      /\ \A e \in Files \ {d} : shown[e] = status[e]
  BY <1>2, UpdatedList DEF DocStatus
<1> HIDE DEF shown
<1>5. /\ lost' \in [Files -> Nat] /\ behind' \in [Files -> Nat]
      /\ clicks' \in 0..MaxClicks /\ clicks' >= clicks /\ faults' \in 0..MaxFaults
  <2>1. faults' \in 0..MaxFaults
    BY <1>0, WizardAssumption DEF NetworkError, Fault, TypeOK
  <2>2. lost' \in [Files -> Nat] /\ behind' \in [Files -> Nat]
    BY <1>0, <1>1, <1>2 DEF TypeOK
  <2> QED
    BY <1>0, <1>1, <2>1, <2>2 DEF TypeOK
<1>6. \A e \in Files : On(l, e) /\ e \notin doubtful => documents[e] + behind'[e] <= lost'[e]
  <2> SUFFICES ASSUME NEW e \in Files, On(l, e), e \notin doubtful
               PROVE  documents[e] + behind'[e] <= lost'[e]
    OBVIOUS
  <2>1. CountedAt(e) /\ e = d
    BY <1>0 DEF Counted, On
  <2>2. documents[e] \in Nat /\ behind[e] \in Nat /\ lost[e] \in Nat /\ lost'[e] = lost[e] + 1
    BY <1>0, <1>1, <2>1 DEF TypeOK
  <2>3. CASE UNCHANGED behind
    BY <2>1, <2>2, <2>3 DEF CountedAt
  <2>4. CASE loop[l].at = "classifying" /\ behind' = [behind EXCEPT ![d] = behind[d] + 1]
    <3>1. documents[e] + behind[e] <= lost[e]
      BY <2>1, <2>4 DEF CountedAt, Spent
    <3>2. behind'[e] = behind[e] + 1
      BY <1>0, <2>1, <2>4 DEF TypeOK
    <3> QED
      BY <2>2, <3>1, <3>2
  <2> QED
    BY <1>1, <2>3, <2>4
<1>7. \A e \in Files : ~On(l, e) => lost'[e] = lost[e] /\ behind'[e] = behind[e]
  BY <1>0, <1>1 DEF On, TypeOK
<1>8. Accounts(l, shown)
  <2>1. \A e \in Files : documents[e] \in Nat /\ behind'[e] \in Nat /\ lost'[e] \in Nat
    BY <1>0, <1>5 DEF TypeOK
  <2>2. \A e \in Files : documents[e] + behind'[e] <= lost'[e]
                         => documents[e] + behind'[e] <= lost'[e] + 1
    BY <2>1
  <2> QED
    BY <1>1, <1>3, <1>6, <1>7, <2>2 DEF Accounts
<1>9. \A f \in Files : shown[f] = "done" => documents[f] > 0
  BY <1>0, <1>4 DEF Made
<1> QED
  BY <1>1, <1>3, <1>5, <1>8, <1>9, SendsInv

(***************************************************************************)
(* The other steps                                                         *)
(***************************************************************************)
\* Where loops, counters and doubts stay, the list may move as long as it
\* brings nothing back.
LEMMA ListStep ==
  ASSUME IInv, UNCHANGED <<loop, clicks, doubtful, server>>,
         status' \in [Files -> DocStatus], step' \in {1, 2}, stray' \in BOOLEAN,
         \A f \in Files : /\ status'[f] = "done" => status[f] = "done"
                          /\ status'[f] = "new" => status[f] = "new"
                          /\ status[f] \in {"done", "removed"} => status'[f] \in {"done", "removed"},
         ~stray' => ~stray /\ \A l \in Loops : Active(l) =>
           /\ step' = step
           /\ \A f \in loop[l].todo \cup {loop[l].doc} : status'[f] = status[f]
  PROVE  IInv'
<1>0. TypeOK /\ Shape /\ Calm /\ Counted /\ Made
  BY DEF IInv
<1>a. \A l \in Loops, f \in Files : (Active(l)' <=> Active(l)) /\ (On(l, f)' <=> On(l, f))
  BY DEF Active, On
<1>b. \A l \in Loops : Alone(l)' <=> Alone(l)
  BY DEF Alone, Active
<1>1. TypeOK'
  BY <1>0 DEF TypeOK, server
<1>2. Shape'
  <2> SUFFICES ASSUME NEW l \in Loops, NEW f \in Files,
                      Active(l), f \in loop[l].todo \cup {loop[l].doc}
               PROVE  status'[f] # "new"
    BY <1>0 DEF Shape, Active
  <2> QED
    BY <1>0 DEF Shape
<1>3. Calm'
  <2> SUFFICES ASSUME ~stray', NEW l \in Loops, Active(l)
               PROVE  /\ Alone(l)
                      /\ step' = 1
                      /\ status'[loop[l].doc] \in {"uploading", "classifying"}
                      /\ \A f \in loop[l].todo : status'[f] \in {"pending", "error"}
    BY <1>b DEF Calm, Active
  <2> QED
    BY <1>0 DEF Calm
<1>4. Counted'
  <2> SUFFICES ASSUME NEW f \in Files, f \notin doubtful PROVE CountedAt(f)'
    BY DEF Counted
  <2>1. Spent(f) => Spent(f)'
    BY <1>a DEF Spent
  <2> QED
    BY <1>0, <1>a, <2>1 DEF Counted, CountedAt, server
<1>5. Made'
  BY <1>0 DEF Made, server
<1> QED
  BY <1>1, <1>2, <1>3, <1>4, <1>5 DEF IInv

LEMMA PageStep ==
  ASSUME IInv, AddFile \/ NextStep \/ PreviousStep \/ Leave \/ \E f \in Files : RemoveDoc(f)
  PROVE  IInv'
<1>0. TypeOK /\ Shape /\ Calm
  BY DEF IInv
<1>t. status \in [Files -> DocStatus] /\ step \in {1, 2} /\ stray \in BOOLEAN
  BY <1>0 DEF TypeOK
<1>a. \A l \in Loops, f \in Files :
        Active(l) /\ f \in loop[l].todo \cup {loop[l].doc} => status[f] # "new"
  BY <1>0 DEF Shape
<1>b. \A l \in Loops : Active(l) => loop[l].todo \cup {loop[l].doc} \subseteq Files
  BY <1>0, LoopFields DEF Shape
<1>1. CASE AddFile
  <2>1. PICK f \in Files : status[f] = "new" /\ status' = [status EXCEPT ![f] = "pending"]
    BY <1>1 DEF AddFile
  <2>2. status' \in [Files -> DocStatus]
    BY <1>t, <2>1 DEF DocStatus
  <2>3. \A l \in Loops : Active(l) =>
          \A e \in loop[l].todo \cup {loop[l].doc} : status'[e] = status[e]
    BY <1>t, <1>a, <1>b, <2>1
  <2>4. UNCHANGED <<step, loop, clicks, stray, doubtful, server>>
    BY <1>1 DEF AddFile
  <2> QED
    BY <1>t, <2>1, <2>2, <2>3, <2>4, ListStep
<1>2. CASE NextStep
  <2>1. ~stray => \A l \in Loops : ~Active(l)
    BY <1>0, <1>2 DEF NextStep, Busy, Calm, Shape
  <2> QED
    BY <1>t, <1>2, <2>1, ListStep DEF NextStep
<1>3. CASE PreviousStep
  <2>1. ~stray => \A l \in Loops : ~Active(l)
    BY <1>0, <1>3 DEF PreviousStep, Calm
  <2> QED
    BY <1>t, <1>3, <2>1, ListStep DEF PreviousStep
<1>4. CASE Leave
  <2>1. status' \in [Files -> DocStatus] /\ \A f \in Files :
          status'[f] = IF status[f] \in {"new", "removed"} THEN status[f] ELSE "removed"
    BY <1>t, <1>4 DEF Leave, Emptied, Listed, DocStatus
  <2>2. /\ step' = 1 /\ stray' = (stray \/ \E l \in Loops : Active(l))
        /\ UNCHANGED <<loop, clicks, doubtful, server>>
    BY <1>4 DEF Leave
  <2> QED
    BY <1>t, <2>1, <2>2, ListStep
<1>5. ASSUME NEW f \in Files, RemoveDoc(f)
      PROVE  IInv'
  <2>1. /\ status' = [status EXCEPT ![f] = "removed"] /\ status[f] # "new"
        /\ stray' = (stray \/ Holders(f) # {})
        /\ UNCHANGED <<step, loop, clicks, doubtful, server>>
    BY <1>5 DEF RemoveDoc
  <2>2. status' \in [Files -> DocStatus]
    BY <1>t, <2>1 DEF DocStatus
  <2>3. ~stray' => ~stray /\ \A l \in Loops : Active(l) =>
          \A e \in loop[l].todo \cup {loop[l].doc} : status'[e] = status[e]
    BY <1>t, <1>b, <2>1 DEF Holders
  <2> QED
    BY <1>t, <2>1, <2>2, <2>3, ListStep
<1> QED
  BY <1>1, <1>2, <1>3, <1>4, <1>5

\* A request moves on while its loop waits.
LEMMA UploadedStep ==
  ASSUME IInv, NEW l \in Loops, Uploaded(l)
  PROVE  IInv'
<1>0. TypeOK /\ Shape /\ Calm /\ Counted /\ Made
  BY DEF IInv
<1> DEFINE d == loop[l].doc
<1>1. /\ Active(l) /\ loop[l].at = "uploading" /\ status' = Updated(status, d, "classifying")
      /\ UNCHANGED <<step, clicks, stray, doubtful, server>>
  BY DEF Uploaded, Active
<1>2. /\ loop' \in [Loops -> Loop]
      /\ loop'[l].todo = loop[l].todo /\ loop'[l].doc = d /\ loop'[l].at = "classifying"
      /\ \A m \in Loops \ {l} : loop'[m] = loop[m]
  BY <1>0, ReachesLoop DEF Uploaded
<1>3. d \in Files /\ d \notin loop[l].todo /\ status \in [Files -> DocStatus]
  BY <1>0, <1>1 DEF Shape, TypeOK
<1>4. /\ status' \in [Files -> DocStatus]
      /\ \A e \in Files \ {d} : status'[e] = status[e]
      /\ status'[d] = IF status[d] = "removed" THEN "removed" ELSE "classifying"
  BY <1>1, <1>3, UpdatedList DEF DocStatus
<1>5. \A m \in Loops, f \in Files : (Active(m)' <=> Active(m)) /\ (On(m, f)' <=> On(m, f))
  BY <1>1, <1>2 DEF Active, On
<1>6. TypeOK'
  BY <1>0, <1>1, <1>2, <1>4 DEF TypeOK, server
<1>7. Shape'
  BY <1>0, <1>1, <1>2, <1>4, <1>5 DEF Shape
<1>8. Calm'
  <2>1. CASE stray
    BY <1>1, <2>1 DEF Calm
  <2>2. CASE ~stray
    <3>1. /\ Alone(l) /\ step = 1 /\ status[d] \in {"uploading", "classifying"}
          /\ \A f \in loop[l].todo : status[f] \in {"pending", "error"}
      BY <1>0, <1>1, <2>2 DEF Calm
    <3>2. loop[l].todo \subseteq Files
      BY <1>0, LoopFields
    <3>3. /\ status'[d] = "classifying"
          /\ \A f \in loop[l].todo : status'[f] \in {"pending", "error"}
      BY <1>3, <1>4, <3>1, <3>2
    <3>4. \A m \in Loops : Active(m)' => m = l
      BY <1>2, <3>1 DEF Alone, Active
    <3> QED
      BY <1>1, <1>2, <3>1, <3>3, <3>4 DEF Calm, Alone
  <2> QED
    BY <2>1, <2>2
<1>9. Counted'
  <2> SUFFICES ASSUME NEW f \in Files, f \notin doubtful PROVE CountedAt(f)'
    BY <1>1 DEF Counted
  <2>1. CountedAt(f)
    BY <1>0 DEF Counted
  <2>2. Spent(f) => Spent(f)'
    <3>1. CASE f = d
      BY <1>1, <2>1, <3>1 DEF Spent, CountedAt, On
    <3>2. CASE f # d
      BY <1>2, <1>4, <1>5, <3>2 DEF Spent, On
    <3> QED
      BY <3>1, <3>2
  <2> QED
    BY <1>1, <1>5, <2>1, <2>2 DEF CountedAt, server
<1>10. Made'
  BY <1>0, <1>1, <1>2, <1>4 DEF Made, server
<1> QED
  BY <1>6, <1>7, <1>8, <1>9, <1>10 DEF IInv

LEMMA ClassifiedStep ==
  ASSUME IInv, NEW l \in Loops, Classified(l)
  PROVE  IInv'
<1>0. TypeOK /\ Shape /\ Calm /\ Counted /\ Made
  BY DEF IInv
<1> DEFINE d == loop[l].doc
<1>1. /\ Active(l) /\ loop[l].at = "classifying"
      /\ documents' = [documents EXCEPT ![d] = documents[d] + 1]
      /\ UNCHANGED <<status, step, clicks, stray, doubtful, behind, lost, faults>>
  BY <1>0 DEF Classified, Active, TypeOK
<1>2. /\ loop' \in [Loops -> Loop]
      /\ loop'[l].todo = loop[l].todo /\ loop'[l].doc = d /\ loop'[l].at = "ok"
      /\ \A m \in Loops \ {l} : loop'[m] = loop[m]
  BY <1>0, ReachesLoop DEF Classified
<1>3. d \in Files
  BY <1>0, <1>1 DEF Shape
<1>4. /\ documents' \in [Files -> Nat] /\ documents'[d] = documents[d] + 1
      /\ \A f \in Files \ {d} : documents'[f] = documents[f]
  BY <1>0, <1>1, <1>3 DEF TypeOK
<1>5. \A m \in Loops, f \in Files : (Active(m)' <=> Active(m)) /\ (On(m, f)' <=> On(m, f))
  BY <1>1, <1>2 DEF Active, On
<1>6. TypeOK'
  BY <1>0, <1>1, <1>2, <1>4 DEF TypeOK
<1>7. Shape'
  BY <1>0, <1>1, <1>2, <1>5 DEF Shape
<1>8. Calm'
  <2>1. CASE stray
    BY <1>1, <2>1 DEF Calm
  <2>2. CASE ~stray
    <3>1. /\ Alone(l) /\ step = 1 /\ status[loop[l].doc] \in {"uploading", "classifying"}
          /\ \A f \in loop[l].todo : status[f] \in {"pending", "error"}
      BY <1>0, <1>1, <2>2 DEF Calm
    <3>2. \A m \in Loops : Active(m)' => m = l
      BY <1>2, <3>1 DEF Alone, Active
    <3> QED
      BY <1>1, <1>2, <3>1, <3>2 DEF Calm, Alone
  <2> QED
    BY <2>1, <2>2
<1>9. Counted'
  <2> SUFFICES ASSUME NEW f \in Files, f \notin doubtful PROVE CountedAt(f)'
    BY <1>1 DEF Counted
  <2>1. CountedAt(f)
    BY <1>0 DEF Counted
  <2>2. CASE f = d
    <3>1. documents[f] + behind[f] <= lost[f]
      BY <1>1, <2>1, <2>2 DEF CountedAt, Spent, On
    <3>2. documents[f] \in Nat /\ behind[f] \in Nat /\ lost[f] \in Nat
      BY <1>0 DEF TypeOK
    <3>3. documents'[f] + behind'[f] <= lost'[f] + 1
      BY <1>1, <1>4, <2>2, <3>1, <3>2
    <3>4. Spent(f)'
      BY <1>1, <1>2, <1>5, <2>2 DEF Spent, On
    <3> QED
      BY <1>5, <2>1, <3>3, <3>4 DEF CountedAt
  <2>3. CASE f # d
    <3>1. Spent(f) => Spent(f)'
      BY <1>1, <1>2, <1>5, <2>3 DEF Spent, On
    <3> QED
      BY <1>1, <1>4, <1>5, <2>1, <2>3, <3>1 DEF CountedAt
  <2> QED
    BY <2>2, <2>3
<1>10. Made'
  <2>1. \A f \in Files : documents[f] > 0 => documents'[f] > 0
    BY <1>0, <1>4 DEF TypeOK
  <2>2. documents'[d] > 0
    BY <1>0, <1>3, <1>4 DEF TypeOK
  <2>3. \A m \in Loops : loop[m].at = "ok" => loop[m].doc \in Files
    BY <1>0 DEF Shape, Active
  <2> QED
    BY <1>0, <1>1, <1>2, <2>1, <2>2, <2>3 DEF Made
<1> QED
  BY <1>6, <1>7, <1>8, <1>9, <1>10 DEF IInv

LEMMA RefusedStep ==
  ASSUME IInv, NEW l \in Loops, Refused(l)
  PROVE  IInv'
<1>0. TypeOK /\ Shape /\ Calm /\ Counted /\ Made
  BY DEF IInv
<1>1. /\ Active(l) /\ loop[l].at \in {"uploading", "classifying"}
      /\ UNCHANGED <<status, step, clicks, stray, doubtful, server>>
  BY DEF Refused, Active
<1>2. /\ loop' \in [Loops -> Loop]
      /\ loop'[l].todo = loop[l].todo /\ loop'[l].doc = loop[l].doc /\ loop'[l].at = "refused"
      /\ \A m \in Loops \ {l} : loop'[m] = loop[m]
  BY <1>0, ReachesLoop DEF Refused
<1>5. \A m \in Loops, f \in Files : (Active(m)' <=> Active(m)) /\ (On(m, f)' <=> On(m, f))
  BY <1>1, <1>2 DEF Active, On
<1>6. TypeOK'
  BY <1>0, <1>1, <1>2 DEF TypeOK, server
<1>7. Shape'
  BY <1>0, <1>1, <1>2, <1>5 DEF Shape
<1>8. Calm'
  <2>1. CASE stray
    BY <1>1, <2>1 DEF Calm
  <2>2. CASE ~stray
    <3>1. /\ Alone(l) /\ step = 1 /\ status[loop[l].doc] \in {"uploading", "classifying"}
          /\ \A f \in loop[l].todo : status[f] \in {"pending", "error"}
      BY <1>0, <1>1, <2>2 DEF Calm
    <3>2. \A m \in Loops : Active(m)' => m = l
      BY <1>2, <3>1 DEF Alone, Active
    <3> QED
      BY <1>1, <1>2, <3>1, <3>2 DEF Calm, Alone
  <2> QED
    BY <2>1, <2>2
<1>9. Counted'
  <2> SUFFICES ASSUME NEW f \in Files, f \notin doubtful PROVE CountedAt(f)'
    BY <1>1 DEF Counted
  <2>1. Spent(f) => Spent(f)'
    BY <1>1, <1>2, <1>5 DEF Spent
  <2> QED
    BY <1>0, <1>1, <1>5, <2>1 DEF Counted, CountedAt, server
<1>10. Made'
  BY <1>0, <1>1, <1>2 DEF Made, server
<1> QED
  BY <1>6, <1>7, <1>8, <1>9, <1>10 DEF IInv

LEMMA GoesOnStep ==
  ASSUME IInv, NEW f \in Files, GoesOn(f)
  PROVE  IInv'
<1>0. TypeOK /\ Shape /\ Calm /\ Counted /\ Made
  BY DEF IInv
<1>1. /\ behind[f] > 0 /\ behind' = [behind EXCEPT ![f] = behind[f] - 1]
      /\ \/ documents' = [documents EXCEPT ![f] = documents[f] + 1]
         \/ UNCHANGED documents
      /\ UNCHANGED <<status, step, loop, clicks, lost, stray, doubtful, faults>>
  BY <1>0 DEF GoesOn, TypeOK
<1>2. behind' \in [Files -> Nat] /\ documents' \in [Files -> Nat]
  BY <1>0, <1>1 DEF TypeOK
<1>3. \A e \in Files : /\ documents'[e] + behind'[e] <= documents[e] + behind[e]
                       /\ documents[e] > 0 => documents'[e] > 0
  BY <1>0, <1>1 DEF TypeOK
<1>4. TypeOK'
  BY <1>0, <1>1, <1>2 DEF TypeOK
<1>5. Shape' /\ Calm'
  BY <1>0, <1>1 DEF Shape, Calm, Active, Alone
<1>6. Counted'
  <2> SUFFICES ASSUME NEW e \in Files, e \notin doubtful PROVE CountedAt(e)'
    BY <1>1 DEF Counted
  <2>1. CountedAt(e)
    BY <1>0 DEF Counted
  <2>2. \A m \in Loops : On(m, e)' = On(m, e)
    BY <1>1 DEF On, Active
  <2>3. Spent(e)' = Spent(e)
    BY <1>1, <2>2 DEF Spent
  <2>4. /\ documents[e] \in Nat /\ behind[e] \in Nat /\ lost[e] \in Nat
        /\ documents'[e] \in Nat /\ behind'[e] \in Nat
    BY <1>0, <1>2 DEF TypeOK
  <2>5. documents'[e] + behind'[e] <= lost[e] + 1
    BY <1>3, <2>1, <2>4 DEF CountedAt
  <2>6. documents[e] + behind[e] <= lost[e] => documents'[e] + behind'[e] <= lost[e]
    BY <1>3, <2>4
  <2> QED
    BY <1>1, <2>1, <2>2, <2>3, <2>5, <2>6 DEF CountedAt
<1>7. Made'
  <2>1. \A m \in Loops : loop[m].at = "ok" => loop[m].doc \in Files
    BY <1>0 DEF Shape, Active
  <2> QED
    BY <1>0, <1>1, <1>3, <2>1 DEF Made
<1> QED
  BY <1>4, <1>5, <1>6, <1>7 DEF IInv

\* Of the requests that a reload leaves behind, at most one is about a file
\* that no stray loop has sent.
LEMMA ReloadStep ==
  ASSUME IInv, Reload
  PROVE  IInv'
<1>0. TypeOK /\ Shape /\ Calm /\ Counted /\ Made
  BY DEF IInv
<1>1. /\ status' = Emptied /\ step' = 1 /\ stray' = FALSE
      /\ loop' = [l \in Loops |-> Off]
      /\ UNCHANGED <<clicks, documents, lost, doubtful, faults>>
  BY DEF Reload
<1> DEFINE Left(go, f) == {l \in go : loop[l].doc = f}
<1>2. PICK go \in SUBSET {l \in Loops : loop[l].at = "classifying"} :
        behind' = [f \in Files |-> behind[f] + Cardinality(Left(go, f))]
  BY DEF Reload
<1>3. \A f \in Files : IsFiniteSet(Left(go, f)) /\ Cardinality(Left(go, f)) \in Nat
  <2> SUFFICES ASSUME NEW f \in Files
               PROVE  IsFiniteSet(Left(go, f)) /\ Cardinality(Left(go, f)) \in Nat
    OBVIOUS
  <2>1. IsFiniteSet(Loops)
    BY WizardAssumption, FS_Interval DEF Loops
  <2>2. Left(go, f) \subseteq Loops
    OBVIOUS
  <2> HIDE DEF Left
  <2> QED
    BY <2>1, <2>2, FS_Subset, FS_CardinalityType
<1>4. /\ status' \in [Files -> DocStatus]
      /\ \A f \in Files :
           status'[f] = IF status[f] \in {"new", "removed"} THEN status[f] ELSE "removed"
  BY <1>0, <1>1 DEF Emptied, Listed, TypeOK, DocStatus
<1>5. loop' \in [Loops -> Loop] /\ \A l \in Loops : loop'[l].at = "off"
  BY <1>1 DEF Off, Loop
<1>6. TypeOK'
  <2>1. behind' \in [Files -> Nat]
    <3> HIDE DEF Left
    <3> QED
      BY <1>0, <1>2, <1>3 DEF TypeOK
  <2> QED
    BY <1>0, <1>1, <1>4, <1>5, <2>1 DEF TypeOK
<1>7. Shape' /\ Calm'
  BY <1>5 DEF Shape, Calm, Active
<1>8. Counted'
  <2> SUFFICES ASSUME NEW f \in Files, f \notin doubtful PROVE CountedAt(f)'
    BY <1>1 DEF Counted
  <2>1. CountedAt(f)
    BY <1>0 DEF Counted
  <2>2. \A l \in Loops : ~On(l, f)'
    BY <1>5 DEF On, Active
  <2>3. documents[f] \in Nat /\ behind[f] \in Nat /\ lost[f] \in Nat
    BY <1>0 DEF TypeOK
  <2>4. behind'[f] = behind[f] + Cardinality(Left(go, f))
    BY <1>2
  <2>5. CASE Left(go, f) = {}
    <3>1. behind'[f] = behind[f]
      BY <2>3, <2>4, <2>5, FS_EmptySet
    <3>2. Spent(f) => Spent(f)'
      <4>1. \A l \in Loops : On(l, f) => status[f] # "new"
        BY <1>0 DEF Shape, On
      <4> QED
        BY <1>4, <2>2, <4>1 DEF Spent
    <3> QED
      BY <1>1, <2>1, <2>2, <3>1, <3>2 DEF CountedAt
  <2>6. CASE Left(go, f) # {}
    <3>1. PICK l \in Left(go, f) : TRUE
      BY <2>6
    <3>2. l \in Loops /\ loop[l].at = "classifying" /\ On(l, f)
      BY <3>1 DEF On, Active
    <3>3. Left(go, f) = {l}
      <4>1. \A m \in Left(go, f) : m \in Loops /\ On(m, f)
        BY DEF On, Active
      <4> QED
        BY <2>1, <3>1, <3>2, <4>1 DEF CountedAt
    <3>4. Cardinality(Left(go, f)) = 1
      BY <3>3, FS_Singleton
    <3>5. documents[f] + behind[f] <= lost[f]
      BY <2>1, <3>2 DEF CountedAt, Spent
    <3>6. documents'[f] + behind'[f] <= lost'[f] + 1
      <4> HIDE DEF Left
      <4> QED
        BY <1>1, <2>3, <2>4, <3>4, <3>5
    <3>7. Spent(f)'
      <4>1. status[f] # "new"
        BY <1>0, <3>2 DEF Shape, On
      <4> QED
        BY <1>4, <2>2, <4>1 DEF Spent
    <3> QED
      BY <2>2, <3>6, <3>7 DEF CountedAt
  <2> QED
    BY <2>5, <2>6
<1>9. Made'
  BY <1>0, <1>1, <1>4, <1>5 DEF Made
<1> QED
  BY <1>6, <1>7, <1>8, <1>9 DEF IInv

(***************************************************************************)
(* The theorems                                                            *)
(***************************************************************************)
LEMMA StutterStep ==
  ASSUME IInv, UNCHANGED vars
  PROVE  IInv'
BY DEF IInv, TypeOK, Shape, Calm, Counted, CountedAt, Spent, Made, On, Alone, Active, vars

LEMMA NextInv == IInv /\ [Next]_vars => IInv'
<1> SUFFICES ASSUME IInv, [Next]_vars PROVE IInv'
  OBVIOUS
<1>1. ASSUME NEW l \in Loops, Progress(l)
      PROVE  IInv'
  BY <1>1, UploadedStep, ClassifiedStep, RefusedStep, AnsweredStep DEF Progress
<1>2. ASSUME NEW l \in Loops, NetworkError(l)
      PROVE  IInv'
  BY <1>2, NetworkErrorStep
<1>3. ASSUME NEW f \in Files, RemoveDoc(f) \/ GoesOn(f)
      PROVE  IInv'
  BY <1>3, PageStep, GoesOnStep
<1>4. CASE AddFile \/ NextStep \/ PreviousStep \/ Leave
  BY <1>4, PageStep
<1> QED
  BY <1>1, <1>2, <1>3, <1>4, ClassifyAllStep, ReloadStep, StutterStep DEF Next

LEMMA Invariance == Spec => []IInv
BY InitInv, NextInv, PTL DEF Spec

\* Every variable keeps its type.
THEOREM TypeCorrect == Spec => []TypeOK
<1>1. IInv => TypeOK
  BY DEF IInv
<1> QED
  BY <1>1, Invariance, PTL

\* The loops send one file at a time, and none while the page shows its second
\* step, unless the user has taken something away from one of them.
THEOREM SentOneAtATime == Spec => []OneAtATime
<1>1. IInv => OneAtATime
  <2> SUFFICES ASSUME IInv, ~stray PROVE OneAtATime
    BY DEF OneAtATime
  <2>1. \A l \in Loops : Active(l) => Alone(l) /\ step = 1
    BY DEF IInv, Calm
  <2> QED
    BY <2>1 DEF OneAtATime, Alone
<1> QED
  BY <1>1, Invariance, PTL

\* A file gets one document, and one more for every answer about it that was
\* lost, unless a loop gone astray sent it; what is shown as done has one.
THEOREM OneDocumentEach == Spec => []OneDocument
<1>1. IInv => OneDocument
  <2> SUFFICES ASSUME IInv, NEW f \in Files
               PROVE  /\ f \notin doubtful => documents[f] <= 1 + lost[f]
                      /\ status[f] = "done" => documents[f] > 0
    BY DEF OneDocument
  <2>1. documents[f] \in Nat /\ behind[f] \in Nat /\ lost[f] \in Nat
    BY DEF IInv, TypeOK
  <2>2. f \notin doubtful => documents[f] + behind[f] <= lost[f] + 1
    BY DEF IInv, Counted, CountedAt
  <2>3. status[f] = "done" => documents[f] > 0
    BY DEF IInv, Made
  <2> QED
    BY <2>1, <2>2, <2>3
<1> QED
  BY <1>1, Invariance, PTL

(***************************************************************************)
(* What is shown as under way                                              *)
(***************************************************************************)
UnderWay(s) == s \in {"uploading", "classifying"}

\* A loop that takes up a file or rests leaves no other file without its loop.
LEMMA SendsBusy ==
  ASSUME TypeOK, NEW l \in Loops, NEW todo \in SUBSET Files,
         NEW shown \in [Files -> DocStatus], Sends(l, todo, shown),
         \A e \in Files : UnderWay(shown[e]) => \E m \in Loops \ {l} : On(m, e)
  PROVE  BusyIsTrue'
<1>1. ASSUME \A m \in Loops \ {l} : loop'[m] = loop[m], NEW e \in Files, UnderWay(shown[e])
      PROVE  \E m \in Loops : On(m, e)'
  <2>1. PICK m \in Loops \ {l} : On(m, e)
    BY <1>1
  <2> QED
    BY <1>1, <2>1 DEF On, Active
<1>2. CASE todo = {}
  <2>1. Rests(l) /\ status' = shown
    BY <1>2 DEF Sends, Rests
  <2>2. \A m \in Loops \ {l} : loop'[m] = loop[m]
    BY <2>1, LoopsAfter
  <2> QED
    BY <1>1, <2>1, <2>2 DEF BusyIsTrue, On, UnderWay
<1>3. CASE todo # {}
  <2>1. PICK f \in todo : Takes(l, f, todo) /\ status' = Updated(shown, f, "uploading")
    BY <1>3, SendsTwoWays
  <2>2. /\ loop'[l].doc = f /\ loop'[l].at = "uploading"
        /\ \A m \in Loops \ {l} : loop'[m] = loop[m]
    BY <2>1, LoopsAfter
  <2>3. \A e \in Files \ {f} : status'[e] = shown[e]
    BY <2>1, UpdatedList DEF DocStatus
  <2>4. On(l, f)'
    BY <2>2 DEF On, Active
  <2>5. ASSUME NEW e \in Files, UnderWay(status'[e]) PROVE \E m \in Loops : On(m, e)'
    <3>1. CASE e = f
      BY <2>4, <3>1
    <3>2. CASE e # f
      BY <1>1, <2>2, <2>3, <2>5, <3>2
    <3> QED
      BY <3>1, <3>2
  <2> QED
    BY <2>5 DEF BusyIsTrue, On, UnderWay
<1> QED
  BY <1>2, <1>3

\* An answer, or the lack of one, settles the file it is about.
LEMMA SettledBusy ==
  ASSUME IInv, BusyIsTrue, NEW l \in Loops, Active(l), NEW s \in {"done", "error"},
         Sends(l, loop[l].todo, Updated(status, loop[l].doc, s))
  PROVE  BusyIsTrue'
<1> DEFINE d == loop[l].doc
           shown == Updated(status, d, s)
<1>1. /\ TypeOK /\ d \in Files /\ status \in [Files -> DocStatus]
      /\ loop[l].todo \in SUBSET Files
  BY LoopFields DEF IInv, Shape, TypeOK
<1>2. /\ shown \in [Files -> DocStatus]
      /\ \A e \in Files \ {d} : shown[e] = status[e]
      /\ shown[d] = IF status[d] = "removed" THEN "removed" ELSE s
  BY <1>1, UpdatedList DEF DocStatus
<1>3. Sends(l, loop[l].todo, shown)
  OBVIOUS
<1> HIDE DEF shown
<1>4. ASSUME NEW e \in Files, UnderWay(shown[e]) PROVE \E m \in Loops \ {l} : On(m, e)
  <2>1. e # d /\ UnderWay(status[e])
    BY <1>2, <1>4 DEF UnderWay
  <2>2. PICK m \in Loops : On(m, e)
    BY <2>1 DEF BusyIsTrue, On, UnderWay
  <2> QED
    BY <2>1, <2>2 DEF On
<1> QED
  BY <1>1, <1>2, <1>3, <1>4, SendsBusy

LEMMA StepBusy == IInv /\ BusyIsTrue /\ [Next]_vars => BusyIsTrue'
<1> SUFFICES ASSUME IInv, BusyIsTrue, [Next]_vars PROVE BusyIsTrue'
  OBVIOUS
<1>0. TypeOK /\ status \in [Files -> DocStatus] /\ \A e \in Files : UnderWay(status[e])
        => \E m \in Loops : On(m, e)
  BY DEF IInv, TypeOK, BusyIsTrue, On, UnderWay
\* The list moves and starts nothing, or a request moves and keeps its file.
<1>a. ASSUME \A m \in Loops, e \in Files : On(m, e) => On(m, e)',
             \A e \in Files : UnderWay(status'[e]) => \E m \in Loops : On(m, e)
      PROVE  BusyIsTrue'
  BY <1>a DEF BusyIsTrue, On, UnderWay
<1>1. CASE ClassifyAll
  <2>1. clicks' \in Loops
    BY <1>0, <1>1, WizardAssumption DEF ClassifyAll, TypeOK, Loops
  <2>2. Sends(clicks', Unsent, status) /\ \A e \in Files : ~UnderWay(status[e])
    BY <1>1 DEF ClassifyAll, Busy, UnderWay
  <2> QED
    BY <1>0, <2>1, <2>2, SendsBusy DEF Unsent
<1>2. ASSUME NEW l \in Loops, Answered(l) PROVE BusyIsTrue'
  <2>1. Active(l)
    BY <1>2 DEF Answered, Active
  <2>2. CASE Sends(l, loop[l].todo, Updated(status, loop[l].doc, "done"))
    BY <2>1, <2>2, SettledBusy
  <2>3. CASE Sends(l, loop[l].todo, Updated(status, loop[l].doc, "error"))
    BY <2>1, <2>3, SettledBusy
  <2> QED
    BY <1>2, <2>2, <2>3 DEF Answered
<1>3. ASSUME NEW l \in Loops, NetworkError(l) PROVE BusyIsTrue'
  BY <1>3, SettledBusy DEF NetworkError
<1>4. ASSUME NEW l \in Loops, Uploaded(l) PROVE BusyIsTrue'
  <2>1. /\ Active(l) /\ loop[l].doc \in Files
        /\ status' = Updated(status, loop[l].doc, "classifying")
    BY <1>4 DEF Uploaded, Active, IInv, Shape
  <2>2. \A m \in Loops : loop'[m].doc = loop[m].doc /\ (Active(m) => Active(m)')
    BY <1>0, <1>4, ReachesLoop DEF Uploaded, Active
  <2>3. \A e \in Files \ {loop[l].doc} : status'[e] = status[e]
    BY <1>0, <2>1, UpdatedList DEF DocStatus
  <2> QED
    BY <1>0, <1>a, <2>1, <2>2, <2>3 DEF On
<1>5. ASSUME NEW l \in Loops, Classified(l) \/ Refused(l) PROVE BusyIsTrue'
  <2>1. \A m \in Loops : loop'[m].doc = loop[m].doc /\ (Active(m) => Active(m)')
    BY <1>0, <1>5, ReachesLoop DEF Classified, Refused, Active
  <2>2. status' = status
    BY <1>5 DEF Classified, Refused
  <2> QED
    BY <1>0, <1>a, <2>1, <2>2 DEF On
<1>6. CASE AddFile \/ \E f \in Files : RemoveDoc(f)
  <2>1. loop' = loop
    BY <1>6 DEF AddFile, RemoveDoc
  <2>2. PICK f \in Files : status' = [status EXCEPT ![f] = "pending"]
                           \/ status' = [status EXCEPT ![f] = "removed"]
    BY <1>6 DEF AddFile, RemoveDoc
  <2>3. \A e \in Files : UnderWay(status'[e]) => UnderWay(status[e])
    BY <1>0, <2>2 DEF UnderWay
  <2> QED
    BY <1>0, <1>a, <2>1, <2>3 DEF On, Active
<1>7. CASE Leave \/ Reload
  <2>1. \A e \in Files : ~UnderWay(status'[e])
    BY <1>0, <1>7 DEF Leave, Reload, Emptied, Listed, UnderWay, DocStatus
  <2> QED
    BY <2>1 DEF BusyIsTrue, UnderWay
<1>8. CASE NextStep \/ PreviousStep \/ (\E f \in Files : GoesOn(f)) \/ UNCHANGED vars
  <2>1. status' = status /\ loop' = loop
    BY <1>8 DEF NextStep, PreviousStep, GoesOn, vars
  <2> QED
    BY <1>0, <1>a, <2>1 DEF On, Active
<1> QED
  BY <1>1, <1>2, <1>3, <1>4, <1>5, <1>6, <1>7, <1>8 DEF Next, Progress

\* What the list shows as under way, a loop has in hand.
THEOREM BusyIsTrueAlways == Spec => []BusyIsTrue
<1>1. Init => BusyIsTrue
  BY DEF Init, BusyIsTrue
<1> QED
  BY <1>1, StepBusy, Invariance, PTL DEF Spec
=============================================================================

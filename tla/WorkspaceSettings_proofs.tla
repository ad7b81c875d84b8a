------------------------ MODULE WorkspaceSettings_proofs ------------------------
(***************************************************************************)
(* Proofs about WorkspaceSettings, for any number of processes, pages,     *)
(* tables, queues, policies, faults and restarts.  While LocalStack keeps  *)
(* its state nothing that exists goes away: what an attempt has found or   *)
(* created is there when it settles, which is all Sound says.              *)
(***************************************************************************)
EXTENDS WorkspaceSettings, TLAPS

\* What attempts under way, and those that succeeded, have made sure of.
Sound ==
  \A p \in Procs : fresh[p] =>
    /\ memo[p] = "running" =>
         \A r \in Resources : call[p][r] = "there" => r \in store
    /\ memo[p] = "settled" => store = Resources /\ row # None

\* A save on its way carries a policy.
Bodies ==
  \A c \in Pages :
    page[c].at \in {"waiting", "admitted"} /\ page[c].op = "save" =>
      page[c].body \in Policies

IInv == TypeOK /\ Sound /\ Bodies /\ SeedsAreCounted

LEMMA Small ==
  /\ Blank \in Page
  /\ \A a \in {"ok", "failed"}, at \in {"idle", "reload"} :
       Ended(a, at) \in Page /\ Ended(a, at).at = at
BY DEF Blank, Ended, Page, Rows

LEMMA InitInv == Init => IInv
<1> SUFFICES ASSUME Init PROVE IInv
  OBVIOUS
<1>1. TypeOK
  <2>1. NoCalls \in [Resources -> Stages]
    BY DEF NoCalls, Stages
  <2> QED
    BY <2>1, Small, SettingsAssumption DEF Init, TypeOK, Rows
<1>2. Sound
  BY <1>1 DEF Init, Sound, TypeOK
<1>3. Bodies
  BY DEF Init, Bodies, Blank
<1>4. SeedsAreCounted
  BY DEF Init, SeedsAreCounted
<1> QED
  BY <1>1, <1>2, <1>3, <1>4 DEF IInv

(***************************************************************************)
(* What steps have in common                                               *)
(***************************************************************************)
LEMMA FaultType ==
  ASSUME TypeOK, NEW p \in Procs, Fault(p)
  PROVE  faults' \in [Procs -> Nat] /\ faults' = [faults EXCEPT ![p] = faults[p] + 1]
BY DEF TypeOK, Fault

\* A row written by the seeding, or none.
LEMMA SeededType ==
  ASSUME TypeOK, NEW p \in Procs, Seeded(p)
  PROVE  row' = Defaults /\ row' # None /\ row' \in Rows /\ seeds' \in [Procs -> Nat]
BY SettingsAssumption DEF TypeOK, Seeded, Rows

\* The pages stay pages, and no save on its way appears.
Quiet == page' \in [Pages -> Page] /\ Bodies'

LEMMA QuietAfterEnd ==
  ASSUME TypeOK, Bodies, NEW S \in SUBSET Pages,
         NEW a \in {"ok", "failed"}, NEW at \in {"idle", "reload"},
         page' = [c \in Pages |-> IF c \in S THEN Ended(a, at) ELSE page[c]]
  PROVE  Quiet
<1>1. page' \in [Pages -> Page]
  BY Small DEF TypeOK
<1>2. Bodies'
  BY Small DEF Bodies
<1> QED
  BY <1>1, <1>2 DEF Quiet

LEMMA QuietIfUnchanged ==
  ASSUME TypeOK, Bodies, UNCHANGED page
  PROVE  Quiet
BY DEF TypeOK, Bodies, Quiet

LEMMA FailedStep ==
  ASSUME TypeOK, Bodies, NEW p \in Procs, NEW S \in SUBSET Pending(p), Failed(p, S)
  PROVE  /\ memo' = [memo EXCEPT ![p] = "unset"]
         /\ call' \in [Procs -> [Resources -> Stages]]
         /\ \A q \in Procs \ {p} : call'[q] = call[q]
         /\ late' \in [Procs -> SUBSET (Resources \X {"check", "create"})]
         /\ Quiet
<1>1. NoCalls \in [Resources -> Stages]
  BY DEF NoCalls, Stages
<1>2. {<<r, call[p][r]>> : r \in S} \subseteq Resources \X {"check", "create"}
  BY DEF Pending
<1>3. late' \in [Procs -> SUBSET (Resources \X {"check", "create"})]
  BY <1>2 DEF Failed, TypeOK
<1>4. Quiet
  <2>1. page' = [c \in Pages |-> IF c \in {c_1 \in Pages : Waiting(c_1, p)}
                                 THEN Ended("failed", "idle") ELSE page[c]]
    BY DEF Failed, WaitersRejected
  <2> DEFINE W == {c_1 \in Pages : Waiting(c_1, p)}
  <2>2. W \in SUBSET Pages
    OBVIOUS
  <2> HIDE DEF W
  <2> QED
    BY <2>1, <2>2, QuietAfterEnd DEF W
<1>5. call' \in [Procs -> [Resources -> Stages]] /\ \A q \in Procs \ {p} : call'[q] = call[q]
  BY <1>1 DEF Failed, TypeOK
<1> QED
  BY <1>3, <1>4, <1>5 DEF Failed

(***************************************************************************)
(* Four facts from which IInv follows: what a step may do to the shared    *)
(* state, to the attempts, to the counters and to the pages.               *)
(***************************************************************************)
TypeRest ==
  /\ store'  \subseteq Resources
  /\ row'    \in Rows
  /\ memo'   \in [Procs -> {"unset", "running", "settled"}]
  /\ call'   \in [Procs -> [Resources -> Stages]]
  /\ late'   \in [Procs -> SUBSET (Resources \X {"check", "create"})]
  /\ fresh'  \in [Procs -> BOOLEAN]
  /\ seeds'  \in [Procs -> Nat]
  /\ faults' \in [Procs -> Nat]
  /\ kills'  \in [Procs -> Nat]
  /\ wipes'  \in 0..MaxWipes

LEMMA Conclude ==
  ASSUME TypeRest, Quiet, Sound', SeedsAreCounted'
  PROVE  IInv'
BY DEF TypeRest, Quiet, IInv, TypeOK

\* Nothing that exists goes away, and a row stays a row.
Grows == store \subseteq store' /\ (row # None => row' # None)

\* Process p alone may have changed its mind, and not into anything that has
\* to be sound.
LEMMA SoundIfGrows ==
  ASSUME TypeOK, Sound, Grows, store' \subseteq Resources, NEW p \in Procs, UNCHANGED fresh,
         \A q \in Procs \ {p} : memo'[q] = memo[q] /\ call'[q] = call[q],
         memo'[p] = "running" =>
           /\ memo[p] = "running"
           /\ \A r \in Resources : call'[p][r] = "there" => r \in store' \/ call[p][r] = "there",
         memo'[p] = "settled" /\ fresh[p] =>
           memo[p] = "settled" \/ (store' = Resources /\ row' # None)
  PROVE  Sound'
<1> SUFFICES ASSUME NEW q \in Procs, fresh[q]
             PROVE  /\ memo'[q] = "running" =>
                         \A r \in Resources : call'[q][r] = "there" => r \in store'
                    /\ memo'[q] = "settled" => store' = Resources /\ row' # None
  BY DEF Sound
<1>1. /\ memo[q] = "running" =>
           \A r \in Resources : call[q][r] = "there" => r \in store'
      /\ memo[q] = "settled" => store' = Resources /\ row' # None
  BY DEF Sound, Grows
<1> QED
  BY <1>1

\* Where only pages and rows move, the processes are as they were.
LEMMA SeedsIfUnchanged ==
  ASSUME SeedsAreCounted, UNCHANGED <<memo, seeds, faults, kills>>
  PROVE  SeedsAreCounted'
BY DEF SeedsAreCounted

\* One process spends a fault, a restart or its settling on a seeding.
LEMMA SeedsIfSpent ==
  ASSUME TypeOK, SeedsAreCounted, NEW p \in Procs, TypeRest,
         \A q \in Procs \ {p} : /\ memo'[q] = memo[q] /\ seeds'[q] = seeds[q]
                                /\ faults'[q] >= faults[q] /\ kills'[q] >= kills[q],
         seeds'[p] <= (IF memo'[p] = "settled" THEN 1 ELSE 0) + kills'[p] + faults'[p]
  PROVE  SeedsAreCounted'
<1> SUFFICES ASSUME NEW q \in Procs, q # p
             PROVE  seeds'[q] <= (IF memo'[q] = "settled" THEN 1 ELSE 0) + kills'[q] + faults'[q]
  BY DEF SeedsAreCounted
<1>1. seeds[q] <= (IF memo[q] = "settled" THEN 1 ELSE 0) + kills[q] + faults[q]
  BY DEF SeedsAreCounted
<1>2. /\ seeds[q] \in Nat /\ kills[q] \in Nat /\ faults[q] \in Nat
      /\ seeds'[q] \in Nat /\ kills'[q] \in Nat /\ faults'[q] \in Nat
  BY DEF TypeOK, TypeRest
<1>3. /\ memo'[q] = memo[q] /\ seeds'[q] = seeds[q]
      /\ faults'[q] >= faults[q] /\ kills'[q] >= kills[q]
  OBVIOUS
<1> QED
  BY <1>1, <1>2, <1>3

\* The numbers of process p, for the two cases that matter.
LEMMA Counts ==
  ASSUME TypeOK, SeedsAreCounted, NEW p \in Procs
  PROVE  /\ seeds[p] \in Nat /\ kills[p] \in Nat /\ faults[p] \in Nat
         /\ seeds[p] <= 1 + kills[p] + faults[p]
         /\ memo[p] # "settled" => seeds[p] <= kills[p] + faults[p]
<1>1. seeds[p] \in Nat /\ kills[p] \in Nat /\ faults[p] \in Nat
  BY DEF TypeOK
<1>2. seeds[p] <= (IF memo[p] = "settled" THEN 1 ELSE 0) + kills[p] + faults[p]
  BY DEF SeedsAreCounted
<1>3. CASE memo[p] = "settled"
  BY <1>1, <1>2, <1>3
<1>4. CASE memo[p] # "settled"
  BY <1>1, <1>2, <1>4
<1> QED
  BY <1>1, <1>3, <1>4

(***************************************************************************)
(* Provisioning                                                            *)
(***************************************************************************)
LEMMA CheckStep ==
  ASSUME IInv, NEW p \in Procs, NEW r \in Resources, Check(p, r)
  PROVE  IInv'
<1> USE DEF Check
<1>0. TypeOK /\ Sound /\ Bodies /\ SeedsAreCounted
  BY DEF IInv
<1>1. \/ UNCHANGED faults
      \/ faults' \in [Procs -> Nat] /\ faults' = [faults EXCEPT ![p] = faults[p] + 1]
  BY <1>0, FaultType
<1>2. PICK s \in Stages : /\ call' = [call EXCEPT ![p][r] = s]
                          /\ s = "there" => r \in store
  BY DEF Stages
<1>3. TypeRest
  BY <1>0, <1>1, <1>2 DEF TypeOK, TypeRest
<1>4. Quiet
  BY <1>0, QuietIfUnchanged
<1>5. Sound'
  BY <1>0, <1>2, SoundIfGrows DEF Grows, TypeOK
<1>6. SeedsAreCounted'
  <2>1. seeds[p] <= (IF memo[p] = "settled" THEN 1 ELSE 0) + kills[p] + faults[p]
    BY <1>0 DEF SeedsAreCounted
  <2>2. faults'[p] \in Nat /\ faults'[p] >= faults[p] /\ UNCHANGED <<memo, seeds, kills>>
    BY <1>0, <1>1 DEF TypeOK
  <2>3. \A q \in Procs \ {p} : faults'[q] = faults[q]
    BY <1>0, <1>1 DEF TypeOK
  <2>4. \A q \in Procs \ {p} : faults'[q] >= faults[q] /\ kills[q] >= kills[q]
    BY <1>0, <2>3 DEF TypeOK
  <2>5. seeds[p] <= (IF memo[p] = "settled" THEN 1 ELSE 0) + kills[p] + faults'[p]
    BY <1>0, <2>1, <2>2 DEF TypeOK
  <2> QED
    BY <1>0, <1>3, <2>2, <2>4, <2>5, SeedsIfSpent
<1> QED
  BY <1>3, <1>4, <1>5, <1>6, Conclude

LEMMA CreateStep ==
  ASSUME IInv, NEW p \in Procs, NEW r \in Resources, Create(p, r)
  PROVE  IInv'
<1> USE DEF Create, budgets
<1>0. TypeOK /\ Sound /\ Bodies /\ SeedsAreCounted
  BY DEF IInv
<1>1. TypeRest
  BY <1>0 DEF TypeOK, TypeRest, Stages
<1>2. Quiet
  BY <1>0, QuietIfUnchanged
<1>3. Sound'
  BY <1>0, <1>1, SoundIfGrows DEF Grows, TypeOK, TypeRest
<1>4. SeedsAreCounted'
  BY <1>0, SeedsIfUnchanged
<1> QED
  BY <1>1, <1>2, <1>3, <1>4, Conclude

LEMMA CallFailsStep ==
  ASSUME IInv, NEW p \in Procs, NEW r \in Resources, CallFails(p, r)
  PROVE  IInv'
<1>0. TypeOK /\ Sound /\ Bodies /\ SeedsAreCounted
  BY DEF IInv
<1>1. Failed(p, Pending(p) \ {r}) /\ Fault(p) /\ UNCHANGED <<row, fresh, seeds, kills, wipes>>
  BY DEF CallFails
<1>2. /\ memo' = [memo EXCEPT ![p] = "unset"]
      /\ call' \in [Procs -> [Resources -> Stages]]
      /\ \A q \in Procs \ {p} : call'[q] = call[q]
      /\ late' \in [Procs -> SUBSET (Resources \X {"check", "create"})]
      /\ Quiet
  BY <1>0, <1>1, FailedStep
<1>3. faults' \in [Procs -> Nat] /\ faults' = [faults EXCEPT ![p] = faults[p] + 1]
  BY <1>0, <1>1, FaultType
<1>4. store' \subseteq Resources /\ Grows
  BY <1>0 DEF CallFails, TypeOK, Grows
<1>5. TypeRest
  BY <1>0, <1>1, <1>2, <1>3, <1>4 DEF TypeOK, TypeRest
<1>6. Sound'
  <2>1. memo'[p] = "unset" /\ \A q \in Procs \ {p} : memo'[q] = memo[q]
    BY <1>0, <1>2 DEF TypeOK
  <2> QED
    BY <1>0, <1>1, <1>2, <1>4, <2>1, SoundIfGrows
<1>7. SeedsAreCounted'
  <2>1. seeds[p] <= kills[p] + faults[p] + 1 /\ faults'[p] = faults[p] + 1
    BY <1>0, <1>3, Counts DEF TypeOK
  <2>2. seeds'[p] <= 0 + kills'[p] + faults'[p]
    BY <1>0, <1>1, <2>1 DEF TypeOK
  <2>3. memo'[p] # "settled" /\ \A q \in Procs \ {p} : memo'[q] = memo[q]
    BY <1>0, <1>2 DEF TypeOK
  <2>4. \A q \in Procs \ {p} : faults'[q] >= faults[q] /\ kills'[q] >= kills[q]
    BY <1>0, <1>1, <1>3 DEF TypeOK
  <2> QED
    BY <1>0, <1>1, <1>5, <2>2, <2>3, <2>4, SeedsIfSpent
<1> QED
  BY <1>2, <1>5, <1>6, <1>7, Conclude

\* With everything there, an attempt that LocalStack did not interrupt has all
\* it needs.
LEMMA AllThereMeansAll ==
  ASSUME TypeOK, Sound, NEW p \in Procs, AllThere(p), fresh[p]
  PROVE  store = Resources /\ ConfigTable \in store
BY SettingsAssumption DEF TypeOK, Sound, AllThere, Resources

LEMMA SeedStep ==
  ASSUME IInv, NEW p \in Procs, Seed(p)
  PROVE  IInv'
<1>0. TypeOK /\ Sound /\ Bodies /\ SeedsAreCounted
  BY DEF IInv
<1>1. /\ AllThere(p) /\ Seeded(p) /\ memo' = [memo EXCEPT ![p] = "settled"]
      /\ UNCHANGED <<store, call, late, fresh, page, faults, kills, wipes>>
  BY DEF Seed, budgets
<1>2. row' # None /\ row' \in Rows /\ seeds' \in [Procs -> Nat]
  BY <1>0, <1>1, SeededType
<1>3. TypeRest
  BY <1>0, <1>1, <1>2 DEF TypeOK, TypeRest
<1>4. Quiet
  BY <1>0, <1>1, QuietIfUnchanged
<1>5. Sound'
  <2>1. memo'[p] = "settled" /\ \A q \in Procs \ {p} : memo'[q] = memo[q]
    BY <1>0, <1>1 DEF TypeOK
  <2>2. fresh[p] => store = Resources
    BY <1>0, <1>1, AllThereMeansAll
  <2> QED
    BY <1>0, <1>1, <1>2, <1>3, <2>1, <2>2, SoundIfGrows DEF Grows, TypeRest
<1>6. SeedsAreCounted'
  <2>1. memo[p] # "settled"
    BY <1>1 DEF AllThere
  <2>2. seeds[p] <= kills[p] + faults[p] /\ seeds'[p] = seeds[p] + 1
    BY <1>0, <1>1, <2>1, Counts DEF Seeded, TypeOK
  <2>3. seeds'[p] <= 1 + kills'[p] + faults'[p] /\ memo'[p] = "settled"
    BY <1>0, <1>1, <2>2 DEF TypeOK
  <2>4. \A q \in Procs \ {p} : /\ memo'[q] = memo[q] /\ seeds'[q] = seeds[q]
                               /\ faults'[q] >= faults[q] /\ kills'[q] >= kills[q]
    BY <1>0, <1>1 DEF TypeOK, Seeded
  <2> QED
    BY <1>0, <1>3, <2>3, <2>4, SeedsIfSpent
<1> QED
  BY <1>3, <1>4, <1>5, <1>6, Conclude

LEMMA SeedFailsStep ==
  ASSUME IInv, NEW p \in Procs, SeedFails(p)
  PROVE  IInv'
<1>0. TypeOK /\ Sound /\ Bodies /\ SeedsAreCounted
  BY DEF IInv
<1>1. Failed(p, {}) /\ AllThere(p) /\ UNCHANGED <<store, fresh, kills, wipes>>
  BY DEF SeedFails
<1>2. /\ memo' = [memo EXCEPT ![p] = "unset"]
      /\ call' \in [Procs -> [Resources -> Stages]]
      /\ \A q \in Procs \ {p} : call'[q] = call[q]
      /\ late' \in [Procs -> SUBSET (Resources \X {"check", "create"})]
      /\ Quiet
  BY <1>0, <1>1, FailedStep
<1>3. \/ UNCHANGED <<row, seeds, faults>>
      \/ Fault(p) /\ UNCHANGED <<row, seeds>>
      \/ Fault(p) /\ Seeded(p)
  BY DEF SeedFails
<1>4. /\ faults' \in [Procs -> Nat]
      /\ UNCHANGED faults \/ faults' = [faults EXCEPT ![p] = faults[p] + 1]
  BY <1>0, <1>3, FaultType DEF TypeOK
<1>5. /\ row' \in Rows /\ (row # None => row' # None)
      /\ seeds' \in [Procs -> Nat]
  BY <1>0, <1>3, SeededType DEF TypeOK
<1>6. TypeRest
  BY <1>0, <1>1, <1>2, <1>4, <1>5 DEF TypeOK, TypeRest
<1>7. memo'[p] = "unset" /\ \A q \in Procs \ {p} : memo'[q] = memo[q]
  BY <1>0, <1>2 DEF TypeOK
<1>8. Sound'
  BY <1>0, <1>1, <1>2, <1>5, <1>6, <1>7, SoundIfGrows DEF Grows, TypeRest
<1>9. SeedsAreCounted'
  <2>1. memo[p] # "settled"
    BY <1>1 DEF AllThere
  <2>2. seeds[p] <= kills[p] + faults[p]
    BY <1>0, <2>1, Counts
  <2>3. \/ seeds'[p] = seeds[p] /\ faults'[p] = faults[p]
        \/ seeds'[p] = seeds[p] /\ faults'[p] = faults[p] + 1
        \/ seeds'[p] = seeds[p] + 1 /\ faults'[p] = faults[p] + 1
    BY <1>0, <1>3, FaultType DEF TypeOK, Seeded
  <2>4. seeds'[p] <= 0 + kills'[p] + faults'[p]
    BY <1>0, <1>1, <2>2, <2>3 DEF TypeOK
  <2>5. \A q \in Procs \ {p} : seeds'[q] = seeds[q] /\ faults'[q] = faults[q]
    BY <1>0, <1>3, <1>4 DEF TypeOK, Seeded
  <2>6. \A q \in Procs \ {p} : faults'[q] >= faults[q] /\ kills'[q] >= kills[q]
    BY <1>0, <1>1, <2>5 DEF TypeOK
  <2> QED
    BY <1>0, <1>6, <1>7, <2>4, <2>5, <2>6, SeedsIfSpent
<1> QED
  BY <1>2, <1>6, <1>8, <1>9, Conclude

LEMMA LateCallStep ==
  ASSUME IInv, NEW p \in Procs, LateCall(p)
  PROVE  IInv'
<1>0. TypeOK /\ Sound /\ Bodies /\ SeedsAreCounted
  BY DEF IInv
<1>1. UNCHANGED <<row, memo, call, fresh, seeds, page, faults, kills, wipes>>
  BY DEF LateCall, budgets
<1>2. store' \subseteq Resources /\ store \subseteq store'
  BY <1>0 DEF LateCall, TypeOK
<1>3. late' \in [Procs -> SUBSET (Resources \X {"check", "create"})]
  BY <1>0 DEF LateCall, TypeOK
<1>4. TypeRest
  BY <1>0, <1>1, <1>2, <1>3 DEF TypeOK, TypeRest
<1>5. Quiet
  BY <1>0, <1>1, QuietIfUnchanged
<1>6. Sound'
  BY <1>0, <1>1, <1>2, SoundIfGrows DEF Grows
<1>7. SeedsAreCounted'
  BY <1>0, <1>1, SeedsIfUnchanged
<1> QED
  BY <1>4, <1>5, <1>6, <1>7, Conclude

(***************************************************************************)
(* Requests                                                                *)
(***************************************************************************)
LEMMA ArrivesStep ==
  ASSUME IInv, NEW c \in Pages, NEW o \in Ops, NEW b \in Rows, NEW p \in Procs,
         o = "save" => b \in Policies, Arrives(c, o, b, p)
  PROVE  IInv'
<1>0. TypeOK /\ Sound /\ Bodies /\ SeedsAreCounted
  BY DEF IInv
<1>1. UNCHANGED <<store, row, late, seeds, faults, kills, wipes>>
  BY DEF Arrives, budgets
<1>2. Quiet
  <2> DEFINE new == [at |-> "waiting", op |-> o, on |-> p, body |-> b, answer |-> "none"]
  <2>1. new \in Page /\ new.op = o /\ new.body = b
    BY DEF Page
  <2>2. page' = [page EXCEPT ![c] = new]
    BY DEF Arrives
  <2> HIDE DEF new
  <2>5. page' \in [Pages -> Page]
    BY <1>0, <2>1, <2>2 DEF TypeOK
  <2>6. \A e \in Pages : page'[e] = page[e] \/ page'[e].op # "save" \/ page'[e].body \in Policies
    BY <1>0, <2>1, <2>2 DEF TypeOK
  <2>7. Bodies'
    BY <1>0, <2>6 DEF Bodies
  <2> QED
    BY <2>5, <2>7 DEF Quiet
<1>3. CASE memo[p] = "unset"
  <2>1. Begun(p)
    BY <1>3 DEF Arrives
  <2>2. [r \in Resources |-> FirstStage(r)] \in [Resources -> Stages]
    BY DEF FirstStage, Stages
  <2>3. TypeRest
    BY <1>0, <1>1, <2>1, <2>2 DEF Begun, TypeOK, TypeRest
  <2>4. Sound'
    <3>1. \A q \in Procs \ {p} : /\ memo'[q] = memo[q] /\ call'[q] = call[q]
                                 /\ fresh'[q] = fresh[q]
      BY <1>0, <2>1 DEF Begun, TypeOK
    <3>2. memo'[p] = "running" /\ \A r \in Resources : call'[p][r] # "there"
      BY <1>0, <2>1 DEF Begun, TypeOK, FirstStage
    <3> QED
      BY <1>0, <1>1, <3>1, <3>2 DEF Sound
  <2>5. SeedsAreCounted'
    <3>1. \A q \in Procs : memo'[q] = "settled" <=> memo[q] = "settled"
      BY <1>0, <1>3, <2>1 DEF Begun, TypeOK
    <3> QED
      BY <1>0, <1>1, <3>1 DEF SeedsAreCounted
  <2> QED
    BY <1>2, <2>3, <2>4, <2>5, Conclude
<1>4. CASE memo[p] # "unset"
  <2>1. UNCHANGED <<memo, call, fresh>>
    BY <1>4 DEF Arrives
  <2>2. TypeRest
    BY <1>0, <1>1, <2>1 DEF TypeOK, TypeRest
  <2>3. Sound'
    BY <1>0, <1>1, <2>1 DEF Sound
  <2>4. SeedsAreCounted'
    BY <1>0, <1>1, <2>1, SeedsIfUnchanged
  <2> QED
    BY <1>2, <2>2, <2>3, <2>4, Conclude
<1> QED
  BY <1>3, <1>4

\* What Admit, an answer or a broken request leaves of the four parts.
LEMMA ServeRest ==
  ASSUME IInv, UNCHANGED <<store, memo, call, late, fresh, seeds, kills, wipes>>,
         Quiet, row' \in Rows, row # None => row' # None,
         \/ UNCHANGED faults
         \/ \E p \in Procs : Fault(p)
  PROVE  IInv'
<1>0. TypeOK /\ Sound /\ Bodies /\ SeedsAreCounted
  BY DEF IInv
<1>1. faults' \in [Procs -> Nat] /\ \A q \in Procs : faults'[q] >= faults[q]
  BY <1>0, FaultType DEF TypeOK
<1>2. TypeRest
  BY <1>0, <1>1 DEF TypeOK, TypeRest
<1>3. Sound'
  BY <1>0 DEF Sound
<1>4. SeedsAreCounted'
  <2> SUFFICES ASSUME NEW q \in Procs
               PROVE  seeds[q] <= (IF memo[q] = "settled" THEN 1 ELSE 0) + kills[q] + faults'[q]
    BY DEF SeedsAreCounted
  <2>1. seeds[q] <= (IF memo[q] = "settled" THEN 1 ELSE 0) + kills[q] + faults[q]
    BY <1>0 DEF SeedsAreCounted
  <2>2. /\ seeds[q] \in Nat /\ kills[q] \in Nat /\ faults[q] \in Nat /\ faults'[q] \in Nat
        /\ faults'[q] >= faults[q]
    BY <1>0, <1>1 DEF TypeOK
  <2> QED
    BY <2>1, <2>2
<1> QED
  BY <1>2, <1>3, <1>4, Conclude

LEMMA AnsweredQuiet ==
  ASSUME TypeOK, Bodies, NEW c \in Pages, NEW a \in {"ok", "failed"},
         NEW at \in {"idle", "reload"}, Answered(c, a, at)
  PROVE  Quiet
<1>1. page' = [e \in Pages |-> IF e \in {c} THEN Ended(a, at) ELSE page[e]]
  BY DEF Answered, TypeOK
<1> QED
  BY <1>1, QuietAfterEnd

LEMMA ServeStep ==
  ASSUME IInv, NEW c \in Pages, Serve(c)
  PROVE  IInv'
<1>0. TypeOK /\ Bodies
  BY DEF IInv
<1>a. row \in Rows
  BY <1>0 DEF TypeOK
<1>1. CASE Admit(c)
  <2>1. page' \in [Pages -> Page]
    BY <1>0, <1>1 DEF Admit, TypeOK, Page
  <2>2. Bodies'
    BY <1>0, <1>1 DEF Admit, TypeOK, Page, Bodies
  <2> QED
    BY <1>1, <1>a, <2>1, <2>2, ServeRest DEF Admit, Quiet, provisioning, budgets
<1>2. CASE Classified(c)
  <2>1. Quiet
    BY <1>0, <1>2, AnsweredQuiet DEF Classified
  <2> QED
    BY <1>2, <1>a, <2>1, ServeRest DEF Classified, provisioning, budgets
<1>3. CASE Loaded(c)
  <2>1. Quiet
    BY <1>0, <1>3, AnsweredQuiet DEF Loaded
  <2> QED
    BY <1>3, <1>a, <2>1, ServeRest DEF Loaded, provisioning, budgets
<1>4. CASE Saved(c)
  <2>1. Quiet
    BY <1>0, <1>4, AnsweredQuiet DEF Saved
  <2>2. page[c].body \in Policies
    BY <1>0, <1>4 DEF Saved, Bodies
  <2>3. row' \in Rows /\ (row # None => row' # None)
    BY <1>4, <1>a, <2>2, SettingsAssumption DEF Saved, Rows
  <2> QED
    BY <1>4, <2>1, <2>3, ServeRest DEF Saved, provisioning, budgets
<1>5. CASE RequestFails(c)
  <2>1. Quiet
    BY <1>0, <1>5, AnsweredQuiet DEF RequestFails
  <2>2. row' = row \/ row' \in Policies
    <3>1. page[c].op = "save" => page[c].body \in Policies
      BY <1>0, <1>5 DEF RequestFails, Bodies
    <3> QED
      BY <1>5, <3>1 DEF RequestFails
  <2>3. row' \in Rows /\ (row # None => row' # None)
    BY <1>a, <2>2, SettingsAssumption DEF Rows
  <2>4. UNCHANGED faults \/ \E p \in Procs : Fault(p)
    <3>1. page[c].on \in Procs \cup {None} /\ Fault(page[c].on)
      BY <1>0, <1>5 DEF RequestFails, TypeOK, Page
    <3>2. CASE page[c].on \in Procs
      BY <3>1, <3>2
    <3>3. CASE page[c].on \notin Procs
      BY <3>1, <3>3, <1>0 DEF Fault, TypeOK
    <3> QED
      BY <3>2, <3>3
  <2> QED
    BY <1>5, <2>1, <2>3, <2>4, ServeRest DEF RequestFails, provisioning
<1> QED
  BY <1>1, <1>2, <1>3, <1>4, <1>5 DEF Serve

(***************************************************************************)
(* Restarts                                                                *)
(***************************************************************************)
LEMMA WipeStep ==
  ASSUME IInv, WipeLocalStack
  PROVE  IInv'
<1>0. TypeOK /\ Sound /\ Bodies /\ SeedsAreCounted
  BY DEF IInv
<1>1. TypeRest
  <2>1. wipes' \in 0..MaxWipes
    BY <1>0, SettingsAssumption DEF WipeLocalStack, TypeOK
  <2> QED
    BY <1>0, <2>1 DEF WipeLocalStack, TypeOK, TypeRest, Rows
<1>2. Quiet
  BY <1>0, QuietIfUnchanged DEF WipeLocalStack
<1>3. Sound'
  BY <1>0 DEF WipeLocalStack, Sound
<1>4. SeedsAreCounted'
  BY <1>0, SeedsIfUnchanged DEF WipeLocalStack
<1> QED
  BY <1>1, <1>2, <1>3, <1>4, Conclude

LEMMA KillStep ==
  ASSUME IInv, NEW p \in Procs, KillProcess(p)
  PROVE  IInv'
<1>0. TypeOK /\ Sound /\ Bodies /\ SeedsAreCounted
  BY DEF IInv
<1>1. /\ kills' = [kills EXCEPT ![p] = kills[p] + 1]
      /\ memo' = [memo EXCEPT ![p] = "unset"]
      /\ call' = [call EXCEPT ![p] = NoCalls]
      /\ fresh' = [fresh EXCEPT ![p] = FALSE]
      /\ UNCHANGED <<store, faults, wipes>>
      /\ UNCHANGED <<row, seeds>> \/ (AllThere(p) /\ Seeded(p))
  BY <1>0 DEF KillProcess, TypeOK
<1>2. /\ row' \in Rows /\ (row # None => row' # None)
      /\ seeds' \in [Procs -> Nat]
  BY <1>0, <1>1, SeededType DEF TypeOK
<1>3. late' \in [Procs -> SUBSET (Resources \X {"check", "create"})]
  <2>1. AllCalls(p) \subseteq Resources \X {"check", "create"}
    BY <1>0 DEF AllCalls, Pending, TypeOK
  <2> QED
    BY <1>0, <2>1 DEF KillProcess, TypeOK
<1>4. TypeRest
  <2>1. NoCalls \in [Resources -> Stages]
    BY DEF NoCalls, Stages
  <2>2. kills' \in [Procs -> Nat]
    BY <1>0, <1>1 DEF TypeOK
  <2>3. call' \in [Procs -> [Resources -> Stages]]
    BY <1>0, <1>1, <2>1 DEF TypeOK
  <2>4. /\ memo' \in [Procs -> {"unset", "running", "settled"}]
        /\ fresh' \in [Procs -> BOOLEAN]
    BY <1>0, <1>1 DEF TypeOK
  <2> QED
    BY <1>0, <1>1, <1>2, <1>3, <2>2, <2>3, <2>4 DEF TypeOK, TypeRest
<1>5. Quiet
  <2> DEFINE W == {c \in Pages : page[c].on = p /\ page[c].at \in {"waiting", "admitted"}}
  <2>1. page' = [c \in Pages |-> IF c \in W THEN Ended("failed", "idle") ELSE page[c]]
    BY DEF KillProcess
  <2>2. W \in SUBSET Pages
    OBVIOUS
  <2> HIDE DEF W
  <2> QED
    BY <1>0, <2>1, <2>2, QuietAfterEnd
<1>6. \A q \in Procs \ {p} : /\ memo'[q] = memo[q] /\ call'[q] = call[q]
                             /\ fresh'[q] = fresh[q] /\ kills'[q] = kills[q]
                             /\ seeds'[q] = seeds[q]
  BY <1>0, <1>1 DEF TypeOK, Seeded
<1>7. Sound'
  <2>1. ~fresh'[p]
    BY <1>0, <1>1 DEF TypeOK
  <2> QED
    BY <1>0, <1>1, <1>2, <1>6, <2>1 DEF Sound
<1>8. SeedsAreCounted'
  <2>1. \/ seeds'[p] = seeds[p] /\ seeds[p] <= 1 + kills[p] + faults[p]
        \/ seeds'[p] = seeds[p] + 1 /\ seeds[p] <= kills[p] + faults[p]
    BY <1>0, <1>1, Counts DEF Seeded, AllThere, TypeOK
  <2>2. kills'[p] = kills[p] + 1 /\ faults'[p] = faults[p] /\ memo'[p] # "settled"
    BY <1>0, <1>1 DEF TypeOK
  <2>3. seeds'[p] <= 0 + kills'[p] + faults'[p]
    BY <1>0, <2>1, <2>2 DEF TypeOK
  <2>4. \A q \in Procs \ {p} : faults'[q] >= faults[q] /\ kills'[q] >= kills[q]
    BY <1>0, <1>1, <1>6 DEF TypeOK
  <2> QED
    BY <1>0, <1>4, <1>6, <2>2, <2>3, <2>4, SeedsIfSpent
<1> QED
  BY <1>4, <1>5, <1>7, <1>8, Conclude

(***************************************************************************)
(* The theorems                                                            *)
(***************************************************************************)
LEMMA StutterStep ==
  ASSUME IInv, UNCHANGED vars
  PROVE  IInv'
BY DEF IInv, TypeOK, Sound, Bodies, SeedsAreCounted, vars

LEMMA NextInv == IInv /\ [Next]_vars => IInv'
<1> SUFFICES ASSUME IInv, [Next]_vars PROVE IInv'
  OBVIOUS
<1>1. ASSUME NEW p \in Procs, Provision(p) \/ LateCall(p) \/ KillProcess(p)
      PROVE  IInv'
  BY <1>1, CheckStep, CreateStep, SeedStep, SeedFailsStep, LateCallStep, KillStep DEF Provision
<1>2. ASSUME NEW p \in Procs, NEW r \in Resources, CallFails(p, r)
      PROVE  IInv'
  BY <1>2, CallFailsStep
<1>3. ASSUME NEW c \in Pages, Serve(c)
      PROVE  IInv'
  BY <1>3, ServeStep
<1>4. ASSUME NEW c \in Pages, NEW p \in Procs, Classify(c, p) \/ Load(c, p)
      PROVE  IInv'
  BY <1>4, ArrivesStep DEF Classify, Load, Ops, Rows
<1>5. ASSUME NEW c \in Pages, NEW b \in Policies, NEW p \in Procs, Save(c, b, p)
      PROVE  IInv'
  BY <1>5, ArrivesStep DEF Save, Ops, Rows
<1> QED
  BY <1>1, <1>2, <1>3, <1>4, <1>5, WipeStep, StutterStep DEF Next

LEMMA Invariance == Spec => []IInv
BY InitInv, NextInv, PTL DEF Spec

\* Every variable keeps its type.
THEOREM TypeCorrect == Spec => []TypeOK
<1>1. IInv => TypeOK
  BY DEF IInv
<1> QED
  BY <1>1, Invariance, PTL

\* A process that has provisioned, under a LocalStack that kept its state
\* since, relies on nothing that is not there.
THEOREM SettledMeansProvisioned == Spec => []SettledIsProvisioned
<1>1. IInv => SettledIsProvisioned
  BY DEF IInv, Sound, SettledIsProvisioned
<1> QED
  BY <1>1, Invariance, PTL

\* The default workspace is reset once per life of a process and per failed
\* call, never more.
THEOREM SeedsAreFew == Spec => []SeedsAreCounted
<1>1. IInv => SeedsAreCounted
  BY DEF IInv
<1> QED
  BY <1>1, Invariance, PTL

\* An attempt fails only by a failed call, a restart of its process, or a
\* restart of LocalStack.
THEOREM FailuresHaveCauses == Spec => FailsForACause
<1> DEFINE Cause(p) == faults'[p] > faults[p] \/ kills'[p] > kills[p] \/ ~fresh[p]
<1>1. ASSUME IInv, Next, NEW p \in Procs, memo[p] = "running", memo'[p] = "unset"
      PROVE  Cause(p)
  <2>0. TypeOK /\ Sound
    BY <1>1 DEF IInv
  <2>1. ASSUME NEW q \in Procs, NEW r \in Resources, CallFails(q, r)
        PROVE  Cause(p)
    BY <2>0, <2>1, <1>1, FaultType DEF CallFails, Failed, TypeOK
  <2>2. ASSUME NEW q \in Procs, SeedFails(q)
        PROVE  Cause(p)
    <3>1. q = p /\ AllThere(p)
      BY <2>0, <2>2, <1>1 DEF SeedFails, Failed, TypeOK
    <3>2. CASE ConfigTable \notin store
      BY <2>0, <3>1, <3>2, AllThereMeansAll
    <3>3. CASE Fault(p)
      BY <2>0, <3>3, FaultType DEF TypeOK
    <3> QED
      BY <2>2, <3>1, <3>2, <3>3 DEF SeedFails
  <2>3. ASSUME NEW q \in Procs, KillProcess(q)
        PROVE  Cause(p)
    BY <2>0, <2>3, <1>1 DEF KillProcess, TypeOK
  <2>4. ASSUME NEW q \in Procs, NEW r \in Resources, Check(q, r) \/ Create(q, r)
        PROVE  FALSE
    BY <2>4, <1>1 DEF Check, Create
  <2>5. ASSUME NEW q \in Procs, Seed(q) \/ LateCall(q)
        PROVE  FALSE
    BY <2>0, <2>5, <1>1 DEF Seed, LateCall, TypeOK
  <2>6. ASSUME NEW c \in Pages, Serve(c)
        PROVE  FALSE
    BY <2>6, <1>1 DEF Serve, Admit, Classified, Loaded, Saved, RequestFails, provisioning
  <2>7. ASSUME NEW c, NEW o, NEW b, NEW q \in Procs, Arrives(c, o, b, q)
        PROVE  FALSE
    BY <2>0, <2>7, <1>1 DEF Arrives, Begun, TypeOK
  <2>8. CASE WipeLocalStack
    BY <2>8, <1>1 DEF WipeLocalStack
  <2> QED
    BY <1>1, <2>1, <2>2, <2>3, <2>4, <2>5, <2>6, <2>7, <2>8
       DEF Next, Provision, Classify, Load, Save
<1>2. IInv /\ [Next]_vars =>
        [\A p \in Procs :
           memo[p] = "running" /\ memo'[p] = "unset" =>
             faults'[p] > faults[p] \/ kills'[p] > kills[p] \/ ~fresh[p]]_vars
  BY <1>1
<1> QED
  BY <1>2, Invariance, PTL DEF Spec, FailsForACause

(***************************************************************************)
(* The requests and their process                                          *)
(***************************************************************************)
\* A request waits for an attempt, and is served by a process that has provisioned.
AttendedAt(c) ==
  /\ page[c].at = "waiting"  => page[c].on \in Procs /\ memo[page[c].on] # "unset"
  /\ page[c].at = "admitted" => page[c].on \in Procs /\ memo[page[c].on] = "settled"
  /\ page[c].at \in {"waiting", "admitted"} => page[c].answer = "none"

Attended == \A c \in Pages : AttendedAt(c)

\* Calls that are heard belong to an attempt under way, which has made them all.
Heard ==
  \A p \in Procs : /\ Pending(p) # {} => memo[p] = "running"
                   /\ memo[p] = "running" => \A r \in Resources : call[p][r] # "idle"

LEMMA HeardStep == TypeOK /\ Heard /\ [Next]_vars => Heard'
<1> SUFFICES ASSUME TypeOK, Heard, [Next]_vars PROVE Heard'
  OBVIOUS
<1>a. ASSUME NEW p \in Procs,
             \A q \in Procs \ {p} : memo'[q] = memo[q] /\ call'[q] = call[q],
             \/ memo'[p] = "running" /\ \A r \in Resources : call'[p][r] # "idle"
             \/ memo'[p] # "running" /\ \A r \in Resources : call'[p][r] \in {"idle", "there"}
             \/ memo'[p] = memo[p] /\ call'[p] = call[p]
      PROVE  Heard'
  <2>1. \A q \in Procs \ {p} : Pending(q)' = Pending(q)
    BY <1>a DEF Pending
  <2>2. \A r \in Resources : call'[p][r] \in {"idle", "there"} => r \notin Pending(p)'
    BY DEF Pending
  <2>3. Pending(p)' \subseteq Resources
    BY DEF Pending
  <2>4. memo'[p] = memo[p] /\ call'[p] = call[p] => Pending(p)' = Pending(p)
    BY DEF Pending
  <2> QED
    BY <1>a, <2>1, <2>2, <2>3, <2>4 DEF Heard
<1>1. ASSUME NEW p \in Procs, NEW r \in Resources, Check(p, r) \/ Create(p, r)
      PROVE  Heard'
  <2>1. r \in Pending(p) /\ memo' = memo
    BY <1>1 DEF Check, Create, Pending
  <2>2. memo'[p] = "running" /\ \A s \in Resources : call[p][s] # "idle"
    BY <2>1 DEF Heard
  <2>3. \A q \in Procs \ {p} : memo'[q] = memo[q] /\ call'[q] = call[q]
    BY <1>1, <2>1 DEF Check, Create, TypeOK
  <2>4. PICK to \in {"create", "there"} : call' = [call EXCEPT ![p][r] = to]
    BY <1>1 DEF Check, Create
  <2>5. \A s \in Resources : call'[p][s] # "idle"
    BY <2>2, <2>4 DEF TypeOK
  <2> QED
    BY <1>a, <2>2, <2>3, <2>5
<1>2. ASSUME NEW p \in Procs, NEW S, Failed(p, S) PROVE Heard'
  BY <1>2, <1>a DEF Failed, NoCalls, TypeOK
<1>3. ASSUME NEW p \in Procs, Seed(p) PROVE Heard'
  <2>1. call' = call /\ \A r \in Resources : call[p][r] = "there"
    BY <1>3 DEF Seed, AllThere
  <2>2. memo'[p] = "settled" /\ \A q \in Procs \ {p} : memo'[q] = memo[q]
    BY <1>3 DEF Seed, TypeOK
  <2> QED
    BY <1>a, <2>1, <2>2
<1>4. ASSUME NEW p \in Procs, KillProcess(p) PROVE Heard'
  BY <1>4, <1>a DEF KillProcess, NoCalls, TypeOK
<1>5. ASSUME NEW c, NEW o, NEW b, NEW p \in Procs, Arrives(c, o, b, p) PROVE Heard'
  <2>1. CASE memo[p] = "unset"
    <3>1. memo'[p] = "running" /\ \A q \in Procs \ {p} : memo'[q] = memo[q] /\ call'[q] = call[q]
      BY <1>5, <2>1 DEF Arrives, Begun, TypeOK
    <3>2. \A r \in Resources : call'[p][r] # "idle"
      BY <1>5, <2>1 DEF Arrives, Begun, FirstStage, TypeOK
    <3> QED
      BY <1>a, <3>1, <3>2
  <2>2. CASE memo[p] # "unset"
    BY <1>5, <1>a, <2>2 DEF Arrives
  <2> QED
    BY <2>1, <2>2
<1>6. ASSUME UNCHANGED <<memo, call>> PROVE Heard'
  BY <1>6 DEF Heard, Pending
<1>7. ASSUME NEW p \in Procs, Provision(p) \/ LateCall(p) \/ KillProcess(p)
                              \/ \E r \in Resources : CallFails(p, r)
      PROVE  Heard'
  <2>1. ASSUME NEW r \in Resources, CallFails(p, r) PROVE Heard'
    BY <2>1, <1>2 DEF CallFails
  <2>2. CASE SeedFails(p)
    BY <2>2, <1>2 DEF SeedFails
  <2>3. CASE LateCall(p)
    BY <2>3, <1>6 DEF LateCall
  <2> QED
    BY <1>7, <1>1, <1>3, <1>4, <2>1, <2>2, <2>3 DEF Provision
<1>8. ASSUME NEW c \in Pages, \/ Serve(c)
                              \/ \E p \in Procs : Classify(c, p) \/ Load(c, p)
                              \/ \E b \in Policies, p \in Procs : Save(c, b, p)
      PROVE  Heard'
  <2>1. CASE Serve(c)
    BY <2>1, <1>6
       DEF Serve, Admit, Classified, Loaded, Saved, RequestFails, provisioning
  <2> QED
    BY <1>8, <1>5, <2>1 DEF Classify, Load, Save
<1>9. CASE WipeLocalStack \/ UNCHANGED vars
  BY <1>9, <1>6 DEF WipeLocalStack, vars
<1> QED
  BY <1>7, <1>8, <1>9 DEF Next

\* A request stays, moves on within its process, or ends; an attempt goes on.
LEMMA AttendedStays ==
  ASSUME Attended,
         \A p \in Procs : memo[p] # "unset" => memo'[p] # "unset",
         \A p \in Procs : memo[p] = "settled" => memo'[p] = "settled",
         \A c \in Pages : \/ page'[c] = page[c]
                          \/ page'[c].at \notin {"waiting", "admitted"}
  PROVE  Attended'
<1> SUFFICES ASSUME NEW c \in Pages PROVE AttendedAt(c)'
  BY DEF Attended
<1>1. CASE page'[c] = page[c]
  BY <1>1 DEF Attended, AttendedAt
<1>2. CASE page'[c].at \notin {"waiting", "admitted"}
  BY <1>2 DEF AttendedAt
<1> QED
  BY <1>1, <1>2

\* An attempt that ends takes its requests with it.
LEMMA AttendedWithout ==
  ASSUME Attended, NEW p \in Procs,
         \A q \in Procs \ {p} : memo'[q] = memo[q],
         \A c \in Pages :
           \/ page'[c].at \notin {"waiting", "admitted"}
           \/ /\ page'[c] = page[c]
              /\ page[c].at \in {"waiting", "admitted"} => page[c].on # p
  PROVE  Attended'
<1> SUFFICES ASSUME NEW c \in Pages PROVE AttendedAt(c)'
  BY DEF Attended
<1>1. CASE page'[c].at \notin {"waiting", "admitted"}
  BY <1>1 DEF AttendedAt
<1>2. CASE page'[c] = page[c] /\ page'[c].at \in {"waiting", "admitted"}
  <2>1. /\ page[c].on \in Procs \ {p}
        /\ page[c].at = "waiting" => memo[page[c].on] # "unset"
        /\ page[c].at = "admitted" => memo[page[c].on] = "settled"
        /\ page[c].answer = "none"
    BY <1>2 DEF Attended, AttendedAt
  <2> QED
    BY <1>2, <2>1 DEF AttendedAt
<1> QED
  BY <1>1, <1>2

LEMMA FailedAttended ==
  ASSUME TypeOK, Attended, NEW p \in Procs, NEW S, Failed(p, S), memo[p] = "running"
  PROVE  Attended'
<1>1. \A q \in Procs \ {p} : memo'[q] = memo[q]
  BY DEF Failed, TypeOK
<1>2. ASSUME NEW c \in Pages
      PROVE  \/ page'[c].at \notin {"waiting", "admitted"}
             \/ /\ page'[c] = page[c]
                /\ page[c].at \in {"waiting", "admitted"} => page[c].on # p
  <2>1. page'[c] = IF Waiting(c, p) THEN Ended("failed", "idle") ELSE page[c]
    BY DEF Failed, WaitersRejected
  <2>2. Ended("failed", "idle").at = "idle"
    BY Small
  <2>3. page[c].at = "admitted" => page[c].on # p
    BY DEF Attended, AttendedAt
  <2> QED
    BY <2>1, <2>2, <2>3 DEF Waiting
<1> QED
  BY <1>1, <1>2, AttendedWithout

LEMMA ProvisionAttended ==
  ASSUME TypeOK, Attended, Heard, NEW p \in Procs,
         Provision(p) \/ LateCall(p) \/ KillProcess(p) \/ \E r \in Resources : CallFails(p, r)
  PROVE  Attended'
<1>1. ASSUME NEW r \in Resources, Check(p, r) \/ Create(p, r) PROVE Attended'
  BY <1>1, AttendedStays DEF Check, Create
<1>2. CASE Seed(p)
  <2>1. \A q \in Procs : memo'[q] = memo[q] \/ memo'[q] = "settled"
    BY <1>2 DEF Seed, TypeOK
  <2> QED
    BY <1>2, <2>1, AttendedStays DEF Seed
<1>3. CASE SeedFails(p)
  BY <1>3, FailedAttended DEF SeedFails, AllThere
<1>4. ASSUME NEW r \in Resources, CallFails(p, r) PROVE Attended'
  <2>1. Failed(p, Pending(p) \ {r}) /\ r \in Pending(p)
    BY <1>4 DEF CallFails
  <2>2. memo[p] = "running"
    BY <2>1 DEF Heard
  <2> QED
    BY <2>1, <2>2, FailedAttended
<1>5. CASE LateCall(p)
  BY <1>5, AttendedStays DEF LateCall
<1>6. CASE KillProcess(p)
  <2>1. \A q \in Procs \ {p} : memo'[q] = memo[q]
    BY <1>6 DEF KillProcess, TypeOK
  <2>2. \A c \in Pages : page'[c] =
          IF page[c].on = p /\ page[c].at \in {"waiting", "admitted"}
          THEN Ended("failed", "idle") ELSE page[c]
    BY <1>6 DEF KillProcess
  <2>3. Ended("failed", "idle").at = "idle"
    BY Small
  <2> QED
    BY <2>1, <2>2, <2>3, AttendedWithout
<1> QED
  BY <1>1, <1>2, <1>3, <1>4, <1>5, <1>6 DEF Provision
LEMMA ArrivesAttended ==
  ASSUME TypeOK, Attended, NEW c \in Pages, NEW o, NEW b, NEW p \in Procs, Arrives(c, o, b, p)
  PROVE  Attended'
<1>1. /\ page'[c].at = "waiting" /\ page'[c].on = p /\ page'[c].answer = "none"
      /\ \A d \in Pages \ {c} : page'[d] = page[d]
  BY DEF Arrives, TypeOK
<1>2. /\ memo'[p] # "unset"
      /\ \A q \in Procs : memo[q] # "unset" => memo'[q] = memo[q]
  BY DEF Arrives, Begun, TypeOK
<1>3. ASSUME NEW d \in Pages PROVE AttendedAt(d)'
  <2>1. CASE d = c
    BY <1>1, <1>2, <2>1 DEF AttendedAt
  <2>2. CASE d # c
    <3>1. /\ page[d].at = "waiting" => page[d].on \in Procs /\ memo[page[d].on] # "unset"
          /\ page[d].at = "admitted" => page[d].on \in Procs /\ memo[page[d].on] = "settled"
          /\ page[d].at \in {"waiting", "admitted"} => page[d].answer = "none"
      BY DEF Attended, AttendedAt
    <3> QED
      BY <1>1, <1>2, <2>2, <3>1 DEF AttendedAt
  <2> QED
    BY <2>1, <2>2
<1> QED
  BY <1>3 DEF Attended

LEMMA ServeAttended ==
  ASSUME TypeOK, Attended, NEW c \in Pages, Serve(c)
  PROVE  Attended'
<1>1. memo' = memo /\ \A d \in Pages \ {c} : page'[d] = page[d]
  BY DEF Serve, Admit, Classified, Loaded, Saved, RequestFails, Answered, provisioning, TypeOK
<1>2. AttendedAt(c)'
  <2>1. CASE Admit(c)
    <3>1. /\ page'[c].at = "admitted" /\ page'[c].on = page[c].on
          /\ page'[c].answer = page[c].answer
      BY <2>1 DEF Admit, TypeOK, Page
    <3>2. page[c].on \in Procs /\ memo[page[c].on] = "settled" /\ page[c].answer = "none"
      BY <2>1 DEF Admit, Attended, AttendedAt
    <3> QED
      BY <1>1, <3>1, <3>2 DEF AttendedAt
  <2>2. CASE Classified(c) \/ Loaded(c) \/ Saved(c) \/ RequestFails(c)
    <3>1. PICK a \in {"ok", "failed"}, at \in {"idle", "reload"} : page'[c] = Ended(a, at)
      BY <2>2 DEF Classified, Loaded, Saved, RequestFails, Answered, TypeOK
    <3> QED
      BY <3>1, Small DEF AttendedAt
  <2> QED
    BY <2>1, <2>2 DEF Serve
<1> QED
  BY <1>1, <1>2 DEF Attended, AttendedAt

LEMMA NextAttended == TypeOK /\ Attended /\ Heard /\ [Next]_vars => Attended'
<1> SUFFICES ASSUME TypeOK, Attended, Heard, [Next]_vars PROVE Attended'
  OBVIOUS
<1>1. ASSUME NEW c \in Pages, NEW p \in Procs, NEW b \in Policies,
             Classify(c, p) \/ Load(c, p) \/ Save(c, b, p)
      PROVE  Attended'
  BY <1>1, ArrivesAttended DEF Classify, Load, Save
<1>2. CASE WipeLocalStack \/ UNCHANGED vars
  BY <1>2 DEF WipeLocalStack, vars, Attended, AttendedAt
<1>3. \E b : b \in Policies
  BY SettingsAssumption
<1> QED
  BY <1>1, <1>2, <1>3, ProvisionAttended, ServeAttended DEF Next

LEMMA RequestsAttended == Spec => [](Attended /\ Heard)
<1>1. Init => Attended /\ Heard
  BY DEF Init, Attended, AttendedAt, Blank, Heard, Pending, NoCalls
<1>2. TypeOK /\ Attended /\ Heard /\ [Next]_vars => (Attended /\ Heard)'
  BY NextAttended, HeardStep
<1> QED
  BY <1>1, <1>2, TypeCorrect, PTL DEF Spec

\* Nobody waits for a promise that will not be settled.
THEOREM WaitersAreHeardAlways == Spec => []WaitersAreHeard
<1>1. TypeOK /\ Attended /\ Heard => WaitersAreHeard
  <2> SUFFICES ASSUME TypeOK, Attended, Heard, NEW c \in Pages, NEW p \in Procs, Waiting(c, p)
               PROVE  \/ memo[p] = "settled"
                      \/ memo[p] = "running" /\ \A r \in Resources : call[p][r] # "idle"
    BY DEF WaitersAreHeard
  <2>1. memo[p] # "unset"
    BY DEF Waiting, Attended, AttendedAt
  <2> QED
    BY <2>1 DEF Heard, TypeOK
<1> QED
  BY <1>1, RequestsAttended, TypeCorrect, PTL

\* A request fails only by a failed call of its process, a restart of its
\* process, or a restart of LocalStack.
THEOREM RequestFailuresHaveCauses == Spec => RequestsFailForACause
<1> DEFINE Cause(p) == faults'[p] > faults[p] \/ kills'[p] > kills[p] \/ ~fresh[p]
           Fails(c, p) == /\ page[c].at \in {"waiting", "admitted"} /\ page[c].on = p
                          /\ page'[c].answer = "failed"
<1>1. ASSUME IInv, Attended, Heard, Next, NEW c \in Pages, NEW p \in Procs, Fails(c, p)
      PROVE  Cause(p)
  <2>0. /\ TypeOK /\ Sound /\ page[c].answer = "none" /\ page'[c] # page[c]
        /\ page[c].at = "admitted" => memo[p] = "settled"
    BY <1>1 DEF IInv, Attended, AttendedAt
  \* The attempt it waits for fails.
  <2>1. ASSUME NEW q \in Procs, NEW S, Failed(q, S) PROVE q = p
    BY <2>0, <2>1, <1>1 DEF Failed, WaitersRejected, Waiting
  <2>2. ASSUME NEW q \in Procs, NEW r \in Resources, CallFails(q, r)
        PROVE  Cause(p)
    <3>1. q = p /\ Fault(p)
      BY <2>1, <2>2 DEF CallFails
    <3> QED
      BY <2>0, <3>1, FaultType DEF TypeOK
  <2>3. ASSUME NEW q \in Procs, SeedFails(q)
        PROVE  Cause(p)
    <3>1. q = p /\ AllThere(p)
      BY <2>1, <2>3 DEF SeedFails
    <3>2. CASE ConfigTable \notin store
      BY <2>0, <3>1, <3>2, AllThereMeansAll
    <3>3. CASE Fault(p)
      BY <2>0, <3>3, FaultType DEF TypeOK
    <3> QED
      BY <2>3, <3>1, <3>2, <3>3 DEF SeedFails
  <2>4. ASSUME NEW q \in Procs, KillProcess(q)
        PROVE  Cause(p)
    BY <2>0, <2>4, <1>1 DEF KillProcess, TypeOK
  \* It is being served.
  <2>5. ASSUME NEW d \in Pages, Serve(d)
        PROVE  Cause(p)
    <3>1. d = c
      BY <2>0, <2>5
         DEF Serve, Admit, Classified, Loaded, Saved, RequestFails, Answered, TypeOK
    <3>2. CASE Admit(c)
      BY <2>0, <3>2, <1>1 DEF Admit, TypeOK, Page
    <3>3. CASE RequestFails(c)
      <4>1. Fault(p)
        BY <1>1, <3>3 DEF RequestFails
      <4> QED
        BY <2>0, <4>1, FaultType DEF TypeOK
    <3>4. CASE Classified(c) \/ Loaded(c) \/ Saved(c)
      <4>1. memo[p] = "settled"
        BY <2>0, <3>4 DEF Classified, Loaded, Saved
      <4>2. fresh[p] => store = Resources /\ row # None /\ ConfigTable \in store
        BY <2>0, <4>1, SettingsAssumption DEF Sound, Resources
      <4>3. Ended("ok", "idle").answer = "ok" /\ Ended("ok", "reload").answer = "ok"
        BY DEF Ended, Blank
      <4>4. fresh[p] => page'[c].answer = "ok"
        BY <2>0, <3>4, <4>2, <4>3
           DEF Classified, Loaded, Saved, Answered, Resources, TypeOK
      <4> QED
        BY <1>1, <4>4
    <3> QED
      BY <2>5, <3>1, <3>2, <3>3, <3>4 DEF Serve
  <2>6. ASSUME NEW d \in Pages, NEW o, NEW b, NEW q \in Procs, Arrives(d, o, b, q)
        PROVE  FALSE
    <3>1. page'[d].answer = "none" /\ \A e \in Pages \ {d} : page'[e] = page[e]
      BY <2>0, <2>6 DEF Arrives, TypeOK
    <3> QED
      BY <1>1, <2>0, <3>1
  <2>7. ASSUME UNCHANGED page PROVE FALSE
    BY <2>0, <2>7
  <2>8. ASSUME NEW q \in Procs, Provision(q) \/ LateCall(q) PROVE Cause(p)
    BY <2>3, <2>7, <2>8 DEF Provision, Check, Create, Seed, LateCall
  <2>9. ASSUME NEW d \in Pages, NEW q \in Procs, NEW b,
               Classify(d, q) \/ Load(d, q) \/ Save(d, b, q)
        PROVE  FALSE
    BY <2>6, <2>9 DEF Classify, Load, Save
  <2>10. CASE WipeLocalStack
    BY <2>7, <2>10 DEF WipeLocalStack
  <2> QED
    BY <1>1, <2>2, <2>4, <2>5, <2>8, <2>9, <2>10 DEF Next
<1>2. IInv /\ Attended /\ Heard /\ [Next]_vars =>
        [\A c \in Pages, p \in Procs :
           /\ page[c].at \in {"waiting", "admitted"} /\ page[c].on = p
           /\ page'[c].answer = "failed"
           => faults'[p] > faults[p] \/ kills'[p] > kills[p] \/ ~fresh[p]]_vars
  BY <1>1
<1> QED
  BY <1>2, Invariance, RequestsAttended, PTL DEF Spec, RequestsFailForACause
==============================================================================

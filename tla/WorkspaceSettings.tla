--------------------------- MODULE WorkspaceSettings ---------------------------
(***************************************************************************)
(* Where the UI gets its resources and its policy from in LocalStack mode: *)
(* every request that needs them first awaits ensureResourcesProvisioned   *)
(* (ui/lib/classifier.ts), which creates bucket, tables and queues in      *)
(* parallel, seeds the default workspace, and remembers its own promise.   *)
(* The row of that workspace is then read and written whole by the         *)
(* workspaces route, on behalf of the Admin Config page and of the seeding *)
(* form.  LocalStack keeps nothing across a restart of its own, a UI       *)
(* process nothing across one of its own.                                  *)
(***************************************************************************)
EXTENDS Integers, FiniteSets

CONSTANTS
  Procs,        \* UI processes behind one address
  Pages,        \* browser pages, each with one request under way at most
  Bucket,       \* the bucket,
  ConfigTable,  \* the workspace-config table,
  Tables,       \* all tables (ConfigTable among them),
  Queues,       \* and the queues that have to exist
  Policies,     \* contents of the default workspace's row
  Defaults,     \* DEFAULT_WORKSPACE_CONFIG
  None,         \* nothing: no row, no body, no process
  MaxFaults,    \* bounds: calls of each process that fail or lose their answer,
  MaxKills,     \* restarts of each process,
  MaxWipes      \* and LocalStack restarts

Resources == {Bucket} \cup Tables \cup Queues

ASSUME SettingsAssumption ==
  /\ ConfigTable \in Tables
  /\ Defaults \in Policies /\ None \notin Policies
  /\ {MaxFaults, MaxKills} \subseteq [Procs -> Nat] /\ MaxWipes \in Nat

VARIABLES
  store,   \* resources that exist
  row,     \* the default workspace's row
  memo,    \* Procs -> provisioningPromise
  call,    \* Procs -> Resources -> how far the attempt under way has come
  late,    \* Procs -> calls a failed attempt has left running
  fresh,   \* Procs -> has LocalStack kept its state since the attempt began
  seeds,   \* Procs -> seeding puts carried out
  page,    \* Pages -> what the page waits for, and what it shows
  faults,  \* Procs -> failed calls so far
  kills,   \* Procs -> restarts so far
  wipes    \* LocalStack restarts so far

vars == <<store, row, memo, call, late, fresh, seeds, page, faults, kills, wipes>>
provisioning == <<memo, call, late, fresh, seeds>>
budgets == <<faults, kills, wipes>>

Rows   == Policies \cup {None}
Stages == {"idle", "check", "create", "there"}
Ops    == {"classify", "load", "save"}

Page == [at     : {"idle", "waiting", "admitted", "reload"},
         op     : Ops \cup {None},
         on     : Procs \cup {None},
         body   : Rows,      \* what a save carries
         answer : {"none", "ok", "failed"}]

TypeOK ==
  /\ store  \subseteq Resources
  /\ row    \in Rows
  /\ memo   \in [Procs -> {"unset", "running", "settled"}]
  /\ call   \in [Procs -> [Resources -> Stages]]
  /\ late   \in [Procs -> SUBSET (Resources \X {"check", "create"})]
  /\ fresh  \in [Procs -> BOOLEAN]
  /\ seeds  \in [Procs -> Nat]
  /\ page   \in [Pages -> Page]
  /\ faults \in [Procs -> Nat]
  /\ kills  \in [Procs -> Nat]
  /\ wipes  \in 0..MaxWipes

NoCalls  == [r \in Resources |-> "idle"]
Blank    == [at |-> "idle", op |-> None, on |-> None, body |-> None,
             answer |-> "none"]

\* LocalStack may have been running for long, or be brand new.
Init ==
  /\ \/ store = {} /\ row = None
     \/ store = Resources /\ row \in Policies
  /\ memo   = [p \in Procs |-> "unset"]
  /\ call   = [p \in Procs |-> NoCalls]
  /\ late   = [p \in Procs |-> {}]
  /\ fresh  = [p \in Procs |-> FALSE]
  /\ seeds  = [p \in Procs |-> 0]
  /\ page   = [c \in Pages |-> Blank]
  /\ faults = [p \in Procs |-> 0]
  /\ kills  = [p \in Procs |-> 0]
  /\ wipes  = 0

Fault(p) == faults[p] < MaxFaults[p] /\ faults' = [faults EXCEPT ![p] = @ + 1]

(***************************************************************************)
(* ensureResourcesProvisioned                                              *)
(***************************************************************************)
\* Bucket and tables are looked up first, queues are created straight away.
FirstStage(r) == IF r \in Queues THEN "create" ELSE "check"

Begun(p) ==
  /\ memo'  = [memo EXCEPT ![p] = "running"]
  /\ call'  = [call EXCEPT ![p] = [r \in Resources |-> FirstStage(r)]]
  /\ fresh' = [fresh EXCEPT ![p] = TRUE]

Waiting(c, p) == page[c].at = "waiting" /\ page[c].on = p

\* What is left of a request once it has answer a.
Ended(a, at) == [Blank EXCEPT !.at = at, !.answer = a]

\* Whoever waits on p's promise gets its error.
WaitersRejected(p) ==
  page' = [c \in Pages |-> IF Waiting(c, p)
                           THEN Ended("failed", "idle")
                           ELSE page[c]]

\* Slip: the failed promise is kept, and whoever comes next waits on it.
FailedForGood(p, S) ==
  /\ call' = [call EXCEPT ![p] = NoCalls]
  /\ late' = [late EXCEPT ![p] = @ \cup {<<r, call[p][r]>> : r \in S}]
  /\ WaitersRejected(p)
  /\ UNCHANGED memo

\* The attempt fails and is forgotten; its other calls S go on by themselves.
Failed(p, S) ==
  /\ memo' = [memo EXCEPT ![p] = "unset"]
  /\ call' = [call EXCEPT ![p] = NoCalls]
  /\ late' = [late EXCEPT ![p] = @ \cup {<<r, call[p][r]>> : r \in S}]
  /\ WaitersRejected(p)

\* Slip: finished calls count as well.
Started(p) == {r \in Resources : call[p][r] # "idle"}

Pending(p) == {r \in Resources : call[p][r] \in {"check", "create"}}

\* HeadBucket or DescribeTable; any error of HeadBucket counts as "missing".
Check(p, r) ==
  /\ call[p][r] = "check"
  /\ \/ /\ call' = [call EXCEPT ![p][r] = IF r \in store THEN "there" ELSE "create"]
        /\ UNCHANGED faults
     \/ /\ r = Bucket /\ Fault(p)
        /\ call' = [call EXCEPT ![p][r] = "create"]
  /\ UNCHANGED <<store, row, memo, late, fresh, seeds, page, kills, wipes>>

\* Slip: the resource being there already is an error like any other.
CreateNew(p, r) ==
  /\ call[p][r] = "create"
  /\ IF r \in store
     THEN Failed(p, Pending(p) \ {r}) /\ UNCHANGED store
     ELSE /\ store' = store \cup {r}
          /\ call' = [call EXCEPT ![p][r] = "there"]
          /\ UNCHANGED <<memo, late, page>>
  /\ UNCHANGED <<row, fresh, seeds, budgets>>

\* Another attempt may have created the resource since: its
\* BucketAlreadyExists, ResourceInUse or QueueAlreadyExists is fine.
Create(p, r) ==
  /\ call[p][r] = "create"
  /\ store' = store \cup {r}
  /\ call' = [call EXCEPT ![p][r] = "there"]
  /\ UNCHANGED <<row, memo, late, fresh, seeds, page, budgets>>

CallFails(p, r) ==
  /\ r \in Pending(p) /\ Fault(p)
  /\ \/ UNCHANGED store
     \/ call[p][r] = "create" /\ store' = store \cup {r}
  /\ r = Bucket => call[p][r] = "create"
  /\ Failed(p, Pending(p) \ {r})
  /\ UNCHANGED <<row, fresh, seeds, kills, wipes>>

\* Slip: the seeding waits for bucket and tables only.
TablesThere(p) ==
  memo[p] = "running" /\ \A r \in Resources \ Queues : call[p][r] = "there"

AllThere(p) == memo[p] = "running" /\ \A r \in Resources : call[p][r] = "there"

Seeded(p) ==
  /\ row' = Defaults
  /\ seeds' = [seeds EXCEPT ![p] = @ + 1]

\* Slip: the promise is not kept.
SeedForgotten(p) ==
  /\ AllThere(p) /\ ConfigTable \in store
  /\ Seeded(p)
  /\ memo' = [memo EXCEPT ![p] = "unset"]
  /\ UNCHANGED <<store, call, late, fresh, page, budgets>>

\* ensureDefaultWorkspaceSeeded: an unconditional put.
Seed(p) ==
  /\ AllThere(p) /\ ConfigTable \in store
  /\ Seeded(p)
  /\ memo' = [memo EXCEPT ![p] = "settled"]
  /\ UNCHANGED <<store, call, late, fresh, page, budgets>>

SeedFails(p) ==
  /\ AllThere(p)
  /\ \/ /\ ConfigTable \notin store          \* LocalStack has lost the table
        /\ UNCHANGED <<row, seeds, faults>>
     \/ /\ Fault(p)
        /\ \/ UNCHANGED <<row, seeds>>
           \/ ConfigTable \in store /\ Seeded(p)
  /\ Failed(p, {})
  /\ UNCHANGED <<store, fresh, kills, wipes>>

\* What failed attempts have left running goes on, unheard: a look-up leads to
\* a creation or to nothing, a creation takes effect or not.  Equal calls of
\* two attempts are one element here, which may therefore outlive its effect.
LateCall(p) ==
  /\ \E r \in Resources, stage \in {"check", "create"} :
       /\ <<r, stage>> \in late[p]
       /\ \/ /\ late' = [late EXCEPT ![p] = @ \ {<<r, stage>>}]
             /\ UNCHANGED store
          \/ /\ stage = "check" /\ r \notin store
             /\ late' = [late EXCEPT ![p] = @ \cup {<<r, "create">>}]
             /\ UNCHANGED store
          \/ /\ stage = "create"
             /\ store' = store \cup {r}
             /\ UNCHANGED late
  /\ UNCHANGED <<row, memo, call, fresh, seeds, page, budgets>>

(***************************************************************************)
(* Requests and the pages that send them                                   *)
(***************************************************************************)
\* A request comes to p; the first one starts the provisioning.
Arrives(c, o, b, p) ==
  /\ page' = [page EXCEPT ![c] = [at |-> "waiting", op |-> o, on |-> p, body |-> b,
                                  answer |-> "none"]]
  /\ IF memo[p] = "unset" THEN Begun(p) ELSE UNCHANGED <<memo, call, fresh>>
  /\ UNCHANGED <<store, row, late, seeds, budgets>>

\* An upload (POST /api/classify).
Classify(c, p) == page[c].at = "idle" /\ Arrives(c, "classify", None, p)

\* Admin Config is opened or its workspace picked (GET /api/workspaces), or it
\* refreshes what it shows after a save.
Load(c, p) == page[c].at \in {"idle", "reload"} /\ Arrives(c, "load", None, p)

\* Admin Config posts its draft, the seeding form what is in its fields: both
\* can be edited at any time, so that any policy may be sent.
Save(c, b, p) ==
  /\ page[c].at = "idle" /\ b \in Policies
  /\ Arrives(c, "save", b, p)

Admit(c) ==
  /\ page[c].at = "waiting" /\ memo[page[c].on] = "settled"
  /\ page' = [page EXCEPT ![c].at = "admitted"]
  /\ UNCHANGED <<store, row, provisioning, budgets>>

Answered(c, a, at) == page' = [page EXCEPT ![c] = Ended(a, at)]

\* The upload goes to the bucket, the classification reads the row and writes
\* to the tables: without all of them the request fails.
Classified(c) ==
  /\ page[c].at = "admitted" /\ page[c].op = "classify"
  /\ Answered(c, IF {Bucket} \cup Tables \subseteq store /\ row # None
                         THEN "ok" ELSE "failed", "idle")
  /\ UNCHANGED <<store, row, provisioning, budgets>>

Loaded(c) ==
  /\ page[c].at = "admitted" /\ page[c].op = "load"
  /\ Answered(c, IF ConfigTable \in store THEN "ok" ELSE "failed", "idle")
  /\ UNCHANGED <<store, row, provisioning, budgets>>

\* The row is put whole and without a condition; the page then loads again.
Saved(c) ==
  /\ page[c].at = "admitted" /\ page[c].op = "save"
  /\ IF ConfigTable \in store
     THEN /\ row' = page[c].body
          /\ Answered(c, "ok", "reload")
     ELSE /\ Answered(c, "failed", "idle")
          /\ UNCHANGED row
  /\ UNCHANGED <<store, provisioning, budgets>>

\* The operation of an admitted request fails, or its answer is lost.
RequestFails(c) ==
  /\ page[c].at = "admitted" /\ Fault(page[c].on)
  /\ \/ UNCHANGED row
     \/ page[c].op = "save" /\ ConfigTable \in store /\ row' = page[c].body
  /\ Answered(c, "failed", "idle")
  /\ UNCHANGED <<store, provisioning, kills, wipes>>

(***************************************************************************)
(* Restarts                                                                *)
(***************************************************************************)
WipeLocalStack ==
  /\ wipes < MaxWipes /\ wipes' = wipes + 1
  /\ store' = {} /\ row' = None
  /\ fresh' = [p \in Procs |-> FALSE]
  /\ UNCHANGED <<memo, call, late, seeds, page, faults, kills>>

\* Every call of p that LocalStack has still to answer.
AllCalls(p) == late[p] \cup {<<r, call[p][r]>> : r \in Pending(p)}

\* A creation that is on its way arrives all the same, and the seeding may.
KillProcess(p) ==
  /\ kills[p] < MaxKills[p] /\ kills' = [kills EXCEPT ![p] = @ + 1]
  /\ memo' = [memo EXCEPT ![p] = "unset"]
  /\ call' = [call EXCEPT ![p] = NoCalls]
  /\ late' = [late EXCEPT ![p] = {l \in AllCalls(p) : l[2] = "create"}]
  /\ fresh' = [fresh EXCEPT ![p] = FALSE]
  /\ page' = [c \in Pages |->
       IF page[c].on = p /\ page[c].at \in {"waiting", "admitted"}
       THEN Ended("failed", "idle")
       ELSE page[c]]
  /\ \/ UNCHANGED <<row, seeds>>
     \/ AllThere(p) /\ ConfigTable \in store /\ Seeded(p)
  /\ UNCHANGED <<store, faults, wipes>>

Provision(p) ==
  \/ \E r \in Resources : Check(p, r) \/ Create(p, r)
  \/ Seed(p) \/ SeedFails(p)

Serve(c) == Admit(c) \/ Classified(c) \/ Loaded(c) \/ Saved(c) \/ RequestFails(c)

Next ==
  \/ \E p \in Procs : \/ Provision(p) \/ LateCall(p) \/ KillProcess(p)
                      \/ \E r \in Resources : CallFails(p, r)
  \/ \E c \in Pages : \/ Serve(c)
                      \/ \E p \in Procs : Classify(c, p) \/ Load(c, p)
                      \/ \E b \in Policies, p \in Procs : Save(c, b, p)
  \/ WipeLocalStack

Spec == Init /\ [][Next]_vars

\* Calls are answered or fail, and pages that were refused try again: users do.
FairSpec ==
  /\ Spec
  /\ \A p \in Procs : WF_vars(Provision(p))
  /\ \A c \in Pages : WF_vars(Serve(c))
  /\ \A c \in Pages : WF_vars(page[c].answer = "failed" /\ \E p \in Procs : Classify(c, p))

(***************************************************************************)
(* Properties                                                              *)
(***************************************************************************)
\* A process that takes its provisioning for done is right as long as
\* LocalStack has kept its state since that attempt began: every resource
\* exists and the default workspace has a row, whatever other processes,
\* failed attempts and their late calls did meanwhile.
SettledIsProvisioned ==
  \A p \in Procs : memo[p] = "settled" /\ fresh[p] =>
    store = Resources /\ row # None

\* The unconditional put of the defaults takes the admin's settings back only
\* when a process starts anew or an attempt of its failed: once per life of
\* the process and per failed call, never once per request, which would undo
\* every save.
SeedsAreCounted ==
  \A p \in Procs :
    seeds[p] <= (IF memo[p] = "settled" THEN 1 ELSE 0) + kills[p] + faults[p]

\* An attempt fails only because a call of its own did, or because LocalStack
\* restarted under it: that others create the same resources at the same time,
\* or left half of them behind, is no reason.
FailsForACause ==
  [][\A p \in Procs :
       memo[p] = "running" /\ memo'[p] = "unset" =>
         faults'[p] > faults[p] \/ kills'[p] > kills[p] \/ ~fresh[p]]_vars

\* Who waits for a process waits for something: its attempt is under way and each
\* of its calls is on its way or answered, or it has succeeded.  The memo is set
\* before the first await and cleared together with the rejection, so that no
\* request is left with a promise that nobody settles.
WaitersAreHeard ==
  \A c \in Pages, p \in Procs : Waiting(c, p) =>
    \/ memo[p] = "settled"
    \/ memo[p] = "running" /\ \A r \in Resources : call[p][r] # "idle"

\* A request fails only by a failed call of the process it came to, a restart
\* of that process, or a restart of LocalStack since its attempt began: not
\* because it came early, late, or between the attempts of others.
RequestsFailForACause ==
  [][\A c \in Pages, p \in Procs :
       /\ page[c].at \in {"waiting", "admitted"} /\ page[c].on = p
       /\ page'[c].answer = "failed"
       => faults'[p] > faults[p] \/ kills'[p] > kills[p] \/ ~fresh[p]]_vars

Stale(p) == memo[p] = "settled" /\ ~fresh[p]

\* "Reset on failure so the next request retries": who keeps asking is served
\* in the end, unless some process trusts a provisioning that a LocalStack
\* restart has undone; that one never provisions again.
RetriesSucceed ==
  <>[](\A p \in Procs : ~Stale(p)) =>
    \A c \in Pages : (page[c].at = "waiting" ~> page[c].answer = "ok")
==============================================================================

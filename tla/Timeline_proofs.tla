-------------------------- MODULE Timeline_proofs --------------------------
(***************************************************************************)
(* Theorems about the timeline and the reads built on it, for every clock, *)
(* every number of instants, every window and every as-of timestamp.       *)
(***************************************************************************)
EXTENDS Timeline, FiniteSetTheorems, WellFoundedInduction, TLAPS

(* What the writers keep true of the table on storage: data belongs to an   *)
(* instant that went inflight; what is archived is older than everything    *)
(* active; a file group is replaced only once it is committed, and is gone  *)
(* before the commit that replaced it is archived; the archiver never       *)
(* leaves the active timeline without a commit.                             *)
StorageInv ==
    /\ clock \in 0 .. MaxClock
    /\ instants \in [Times -> Instant]
    /\ data \subseteq Times
    /\ \A t \in Times : instants[t].state # "none" => t <= clock
    /\ \A t \in data :
         instants[t].state \in {"inflight", "completed", "archived"}
    /\ \A t \in Times :
         instants[t].state \in {"completed", "archived"} =>
             0 < instants[t].completion /\ instants[t].completion <= clock
    /\ \A t, s \in Times :
         instants[t].state = "archived" /\
         instants[s].state \in PendingStates \cup {"completed"} => t < s
    /\ \A t \in Times :
         instants[t].state = "archived" => instants[t].replaces \cap data = {}
    /\ \A t \in Times : \A r \in instants[t].replaces :
         instants[r].state \in {"completed", "archived"}
    /\ \A t \in Times :
         instants[t].action # "replacecommit" => instants[t].replaces = {}
    /\ InState({"archived"}) # {} => Completed # {}

(* A commit's place in an incremental window. *)
Effective(t) == IF Layout = 2 THEN instants[t].completion ELSE t

(* The loaded timeline against the truth when it was loaded: below the      *)
(* archival boundary are the archived commits and instants that never will  *)
(* have data, and whatever completes later completes after every loaded     *)
(* commit.                                                                  *)
LoadedInv ==
    /\ completed_commits = committedThen \ archivedThen
    /\ committedThen \subseteq Committed
    /\ archivedThen \subseteq committedThen \cap InState({"archived"})
    /\ pending_instants \subseteq pendingThen
    /\ pendingThen \subseteq Times
    /\ pendingThen \cap committedThen = {}
    /\ \A t \in committedThen \cup pendingThen : t <= clock
    /\ earliest_active_instant \in 0 .. clock
    /\ earliest_active_instant = NoInstant => committedThen = {}
    /\ \A t \in archivedThen : t < earliest_active_instant
    /\ Actions \cap TableServices = {} =>
         \A t \in Times :
           t < earliest_active_instant =>
             \/ t \in archivedThen
             \/ instants[t].state \in {"none", "rolledback"}
    /\ \A t \in Completed \ completed_commits : \A u \in completed_commits :
         instants[u].completion < instants[t].completion

(* The read in progress: what it has computed from the loaded timeline, and *)
(* from metadata it read, is what it would compute now.                     *)
QueryInv ==
    /\ pc \in {"closed", "open", "groups", "view", "list"}
    /\ pc \in {"closed", "open"} => query = NoQuery
    /\ query \in [kind : {"none", "snapshot", "poll", "window"},
                  start : Nat, end : Nat, from : Nat, to : Nat,
                  admitted : SUBSET completed_commits,
                  touched : SUBSET completed_commits,
                  excluding : SUBSET Times]
    /\ query.kind \in {"poll", "window"} =>
         /\ query.admitted = CommitsInRange(query.start, query.end)
         /\ query.admitted \subseteq RangeCommits
         /\ pc \in {"view", "list"} =>
              query.touched = RangeCommits \ ReplacedBy(RangeCommits)
    /\ pc = "list" => query.excluding = ReplacedBy(ReplaceCommits)
    /\ query.kind = "poll" =>
         /\ query.start = checkpoint
         /\ \A t \in completed_commits : Effective(t) <= query.end
         /\ \E t \in completed_commits : query.end = Effective(t)

(* The consumer: what it was given and is still active is loaded, at or     *)
(* before its checkpoint.                                                   *)
ConsumerInv ==
    /\ checkpoint \in 0 .. clock
    /\ delivered \subseteq Committed
    /\ delivered \cap Completed \subseteq completed_commits
    /\ \A t \in delivered \cap completed_commits : Effective(t) <= checkpoint
    /\ NothingBehindCheckpoint

IndInv == StorageInv /\ LoadedInv /\ QueryInv /\ ConsumerInv

-----------------------------------------------------------------------------
(* Least and greatest elements. *)

(* A non-empty set of naturals has the minimum MinOf picks. *)
LEMMA MinOfProps ==
    ASSUME NEW S \in SUBSET Nat, S # {}
    PROVE  MinOf(S) \in S /\ \A y \in S : MinOf(S) <= y
<1>1. \E x \in S : \A y \in S : ~ (<<y, x>> \in OpToRel(<, Nat))
  BY NatLessThanWellFounded, WFMin
<1>2. \A x, y \in Nat : <<y, x>> \in OpToRel(<, Nat) <=> y < x
  BY DEF OpToRel
<1>3. PICK x \in S : \A y \in S : ~ (<<y, x>> \in OpToRel(<, Nat))
  BY <1>1
<1>4. \A y \in S : ~ (y < x) /\ x \in Nat /\ y \in Nat
  BY <1>2, <1>3
<1>5. \A y \in S : x <= y
  BY <1>4
<1> QED BY <1>5 DEF MinOf

(* A non-empty bounded set of naturals has the maximum MaxOf picks. *)
LEMMA MaxOfProps ==
    ASSUME NEW S \in SUBSET Nat, S # {}, NEW n \in Nat, \A x \in S : x <= n
    PROVE  MaxOf(S) \in S /\ \A y \in S : y <= MaxOf(S)
<1> DEFINE D == {n - x : x \in S}
<1>1. D \in SUBSET Nat /\ D # {}
  <2>1. \A x \in S : n - x \in Nat
    OBVIOUS
  <2>2. \A d \in D : d \in Nat
    BY <2>1
  <2> QED BY <2>2
<1>2. PICK d \in D : \A e \in D : d <= e
  BY <1>1, MinOfProps
<1>3. PICK m \in S : d = n - m
  OBVIOUS
<1>4. ASSUME NEW y \in S PROVE y <= m
  <2>1. n - y \in D /\ y \in Nat /\ m \in Nat
    OBVIOUS
  <2>2. n - m <= n - y
    BY <1>2, <1>3, <2>1
  <2> QED BY <2>1, <2>2
<1> QED BY <1>4 DEF MaxOf

-----------------------------------------------------------------------------
(* The writers. *)

(* What a step of the writers leaves of the past: commits stay committed    *)
(* with the completion time and the replaced file groups they have,         *)
(* archived ones stay archived, an instant that never got data or lost it   *)
(* stays without, and what completes does so at a fresh timestamp.          *)
Progress ==
    /\ clock <= clock'
    /\ \A t \in Times :
         instants[t].state \in {"completed", "archived"} =>
           /\ instants'[t].state \in {"completed", "archived"}
           /\ instants'[t].completion = instants[t].completion
           /\ instants'[t].replaces = instants[t].replaces
           /\ instants'[t].action = instants[t].action
    /\ \A t \in Times :
         instants[t].state = "archived" => instants'[t].state = "archived"
    /\ \A t \in Times :
         instants'[t].state = "completed" =>
           \/ instants[t].state = "completed"
           \/ /\ instants[t].state = "inflight"
              /\ instants'[t].completion = clock + 1
    /\ \A t \in Times :
         instants[t].state \in {"none", "rolledback"} /\ t <= clock =>
           instants'[t].state = instants[t].state
    /\ \A t \in data' : t \in data \/ instants'[t].state = "inflight"

StorageStep == StorageInv' /\ Progress

(* The record of an instant with fields replaced, written out. *)
LEMMA OneField ==
    ASSUME NEW r \in Instant, NEW c
    PROVE  [r EXCEPT !.state = c] =
             [action |-> r.action, state |-> c,
              completion |-> r.completion, replaces |-> r.replaces]
BY DEF Instant

(* With its state and its replaced file groups changed. *)
LEMMA StateAndReplaces ==
    ASSUME NEW r \in Instant, NEW c, NEW d
    PROVE  [r EXCEPT !.state = c, !.replaces = d] =
             [action |-> r.action, state |-> c,
              completion |-> r.completion, replaces |-> d]
<1> DEFINE q == [action |-> r.action, state |-> c,
                completion |-> r.completion, replaces |-> r.replaces]
<1>1. [r EXCEPT !.state = c] = q
  BY OneField
<1>2. [q EXCEPT !.replaces = d] =
        [action |-> r.action, state |-> c,
         completion |-> r.completion, replaces |-> d]
  OBVIOUS
<1>3. [r EXCEPT !.state = c, !.replaces = d] =
        [[r EXCEPT !.state = c] EXCEPT !.replaces = d]
  BY DEF Instant
<1> HIDE DEF q
<1> QED BY <1>1, <1>2, <1>3

(* With its state and its completion time changed. *)
LEMMA StateAndCompletion ==
    ASSUME NEW r \in Instant, NEW c, NEW d
    PROVE  [r EXCEPT !.state = c, !.completion = d] =
             [action |-> r.action, state |-> c,
              completion |-> d, replaces |-> r.replaces]
<1> DEFINE q == [action |-> r.action, state |-> c,
                completion |-> r.completion, replaces |-> r.replaces]
<1>1. [r EXCEPT !.state = c] = q
  BY OneField
<1>2. [q EXCEPT !.completion = d] =
        [action |-> r.action, state |-> c,
         completion |-> d, replaces |-> r.replaces]
  OBVIOUS
<1>3. [r EXCEPT !.state = c, !.completion = d] =
        [[r EXCEPT !.state = c] EXCEPT !.completion = d]
  BY DEF Instant
<1> HIDE DEF q
<1> QED BY <1>1, <1>2, <1>3

(* The record of a new instant. *)
LEMMA NewInstant ==
    ASSUME NEW a
    PROVE  [Unused EXCEPT !.action = a, !.state = "requested"] =
             [action |-> a, state |-> "requested",
              completion |-> 0, replaces |-> {}]
<1> DEFINE q == [action |-> a, state |-> "none",
                completion |-> 0, replaces |-> {}]
<1>1. [Unused EXCEPT !.action = a] = q
  BY DEF Unused
<1>2. [q EXCEPT !.state = "requested"] =
        [action |-> a, state |-> "requested",
         completion |-> 0, replaces |-> {}]
  OBVIOUS
<1>3. [Unused EXCEPT !.action = a, !.state = "requested"] =
        [[Unused EXCEPT !.action = a] EXCEPT !.state = "requested"]
  BY DEF Unused
<1> HIDE DEF q
<1> QED BY <1>1, <1>2, <1>3

(* A writer's step changes one instant, n, to the record r. *)
Changed(n, r) ==
    /\ instants' \in [Times -> Instant]
    /\ instants'[n] = r
    /\ \A t \in Times \ {n} : instants'[t] = instants[t]

(* A function update seen instant by instant. *)
LEMMA ChangedOne ==
    ASSUME NEW n \in Times, NEW r \in Instant,
           instants \in [Times -> Instant],
           instants' = [t \in Times |-> IF t = n THEN r ELSE instants[t]]
    PROVE  Changed(n, r)
BY DEF Changed

(* A request adds an instant later than every other. *)
LEMMA RequestStep ==
    ASSUME StorageInv, NEW a \in Actions, Request(a)
    PROVE  StorageStep
<1> DEFINE n == clock + 1
<1>1. n \in Times /\ clock' = n /\ data' = data /\ clock \in Nat
  BY TimelineAssumption DEF StorageInv, Request, Times
<1> DEFINE new == [action |-> a, state |-> "requested",
                  completion |-> 0, replaces |-> {}]
<1>2. Changed(n, new)
  <2>1. new \in Instant
    BY TimelineAssumption DEF Instant
  <2>2. [Unused EXCEPT !.action = a, !.state = "requested"] = new
    BY NewInstant
  <2>3. instants' = [instants EXCEPT ![n] = new]
    BY <2>2, Zenon DEF Request
  <2> HIDE DEF new
  <2>4. instants' = [t \in Times |-> IF t = n THEN new ELSE instants[t]]
    BY <1>1, <2>3 DEF StorageInv
  <2> QED BY <1>1, <2>1, <2>4, ChangedOne DEF StorageInv
<1>3. instants[n].state = "none"
  BY <1>1 DEF StorageInv
<1>4. Progress
  BY <1>1, <1>2, <1>3 DEF Changed, Progress, StorageInv
<1>5. n \notin data
  BY <1>3 DEF StorageInv
<1>6. /\ clock' \in 0 .. MaxClock
      /\ data' \subseteq Times
      /\ \A t \in Times : instants'[t].state # "none" => t <= clock'
  BY <1>1, <1>2 DEF Changed, StorageInv, Times
<1>7. \A t \in data' :
        instants'[t].state \in {"inflight", "completed", "archived"}
  BY <1>1, <1>2, <1>5 DEF Changed, StorageInv
<1>8. \A t \in Times :
        instants'[t].state \in {"completed", "archived"} =>
          0 < instants'[t].completion /\ instants'[t].completion <= clock'
  BY <1>1, <1>2 DEF Changed, StorageInv, Instant
<1>9. \A t, s \in Times :
        instants'[t].state = "archived" /\
        instants'[s].state \in PendingStates \cup {"completed"} => t < s
  BY <1>1, <1>2 DEF Changed, StorageInv, Times
<1>10. /\ \A t \in Times :
            instants'[t].state = "archived" =>
              instants'[t].replaces \cap data' = {}
       /\ \A t \in Times : \A r \in instants'[t].replaces :
            instants'[r].state \in {"completed", "archived"}
       /\ \A t \in Times :
            instants'[t].action # "replacecommit" => instants'[t].replaces = {}
  BY <1>1, <1>2, <1>3 DEF Changed, StorageInv, Instant
<1>11. InState({"archived"})' # {} => Completed' # {}
  BY <1>1, <1>2, <1>3 DEF Changed, StorageInv, InState, Completed
<1> QED BY <1>2, <1>4, <1>6, <1>7, <1>8, <1>9, <1>10, <1>11
           DEF Changed, StorageStep, StorageInv

(* Data appears for a requested instant; what it replaces is committed. *)
LEMMA WriteDataStep ==
    ASSUME StorageInv, NEW n \in Times, WriteData(n)
    PROVE  StorageStep
<1>1. PICK R : /\ R \in IF instants[n].action = "replacecommit"
                        THEN {{r} : r \in Replaceable(n)} ELSE {{}}
               /\ instants' = [instants EXCEPT ![n].state = "inflight",
                                               ![n].replaces = R]
  BY DEF WriteData
<1>2. /\ R \subseteq Completed
      /\ instants[n].action # "replacecommit" => R = {}
  BY <1>1 DEF Replaceable
<1>3. /\ instants[n].state = "requested" /\ instants[n] \in Instant
      /\ data' = data \cup {n} /\ clock' = clock /\ clock \in Nat
  BY DEF WriteData, StorageInv
<1> DEFINE new == [action |-> instants[n].action, state |-> "inflight",
                  completion |-> instants[n].completion, replaces |-> R]
<1>4. Changed(n, new)
  <2>1. new \in Instant
    BY <1>2, <1>3 DEF Instant, Completed, InState
  <2>2. [instants[n] EXCEPT !.state = "inflight", !.replaces = R] = new
    BY <1>3, StateAndReplaces
  <2>3. instants' = [t \in Times |-> IF t = n
                       THEN [instants[n] EXCEPT !.state = "inflight",
                                                !.replaces = R]
                       ELSE instants[t]]
    BY <1>1 DEF StorageInv
  <2> HIDE DEF new
  <2> QED BY <2>1, <2>2, <2>3, ChangedOne DEF StorageInv
<1>5. Progress
  BY <1>3, <1>4 DEF Progress, StorageInv, Changed
<1>6. /\ clock' \in 0 .. MaxClock
      /\ data' \subseteq Times
      /\ \A t \in Times : instants'[t].state # "none" => t <= clock'
      /\ \A t \in data' :
           instants'[t].state \in {"inflight", "completed", "archived"}
  BY <1>3, <1>4 DEF StorageInv, Changed
<1>7. \A t \in Times :
        instants'[t].state \in {"completed", "archived"} =>
          0 < instants'[t].completion /\ instants'[t].completion <= clock'
  BY <1>3, <1>4 DEF StorageInv, Changed
<1>8. \A t, s \in Times :
        instants'[t].state = "archived" /\
        instants'[s].state \in PendingStates \cup {"completed"} => t < s
  BY <1>3, <1>4 DEF StorageInv, Changed, PendingStates
<1>9. \A t \in Times : \A r \in instants'[t].replaces :
        instants'[r].state \in {"completed", "archived"}
  BY <1>2, <1>3, <1>4 DEF StorageInv, Changed, Completed, InState, Instant
<1>10. \A t \in Times :
         instants'[t].state = "archived" =>
           instants'[t].replaces \cap data' = {}
  BY <1>3, <1>4 DEF StorageInv, Changed
<1>11. \A t \in Times :
         instants'[t].action # "replacecommit" => instants'[t].replaces = {}
  BY <1>2, <1>3, <1>4 DEF StorageInv, Changed
<1>12. InState({"archived"})' # {} => Completed' # {}
  BY <1>3, <1>4 DEF StorageInv, Changed, InState, Completed
<1> QED BY <1>4, <1>5, <1>6, <1>7, <1>8, <1>9, <1>10, <1>11, <1>12
           DEF Changed, StorageStep, StorageInv

(* A completion takes a timestamp later than every other. *)
LEMMA CompleteStep ==
    ASSUME StorageInv, NEW n \in Times, Complete(n)
    PROVE  StorageStep
<1>1. /\ instants[n].state = "inflight" /\ instants[n] \in Instant
      /\ data' = data /\ clock' = clock + 1 /\ clock \in Nat
      /\ clock + 1 \in 0 .. MaxClock
  BY TimelineAssumption DEF Complete, StorageInv
<1> DEFINE new == [action |-> instants[n].action, state |-> "completed",
                  completion |-> clock + 1,
                  replaces |-> instants[n].replaces]
<1>2. Changed(n, new)
  <2>1. new \in Instant
    BY <1>1 DEF Instant
  <2>2. [instants[n] EXCEPT !.state = "completed", !.completion = clock + 1]
          = new
    BY <1>1, StateAndCompletion
  <2>3. instants' = [t \in Times |-> IF t = n
                       THEN [instants[n] EXCEPT !.state = "completed",
                                                !.completion = clock + 1]
                       ELSE instants[t]]
    BY DEF StorageInv, Complete
  <2> HIDE DEF new
  <2> QED BY <2>1, <2>2, <2>3, ChangedOne DEF StorageInv
<1>3. Progress
  BY <1>1, <1>2 DEF Progress, StorageInv, Changed
<1>4. /\ clock' \in 0 .. MaxClock
      /\ data' \subseteq Times
      /\ \A t \in Times : instants'[t].state # "none" => t <= clock'
      /\ \A t \in data' :
           instants'[t].state \in {"inflight", "completed", "archived"}
  BY <1>1, <1>2 DEF StorageInv, Changed, Times
<1>5. \A t \in Times :
        instants'[t].state \in {"completed", "archived"} =>
          0 < instants'[t].completion /\ instants'[t].completion <= clock'
  BY <1>1, <1>2 DEF StorageInv, Changed, Instant
<1>6. \A t, s \in Times :
        instants'[t].state = "archived" /\
        instants'[s].state \in PendingStates \cup {"completed"} => t < s
  BY <1>1, <1>2 DEF StorageInv, Changed, PendingStates
<1>7. /\ \A t \in Times : \A r \in instants'[t].replaces :
           instants'[r].state \in {"completed", "archived"}
      /\ \A t \in Times :
           instants'[t].action # "replacecommit" => instants'[t].replaces = {}
  BY <1>1, <1>2 DEF StorageInv, Changed, Instant
<1>8. \A t \in Times :
        instants'[t].state = "archived" =>
          instants'[t].replaces \cap data' = {}
  BY <1>1, <1>2 DEF StorageInv, Changed
<1>9. InState({"archived"})' # {} => Completed' # {}
  BY <1>1, <1>2 DEF StorageInv, Changed, InState, Completed
<1> QED BY <1>2, <1>3, <1>4, <1>5, <1>6, <1>7, <1>8, <1>9
           DEF Changed, StorageStep, StorageInv

(* A rollback removes data of an instant that is not committed. *)
LEMMA RollbackDataStep ==
    ASSUME StorageInv, NEW n \in Times, RollbackData(n)
    PROVE  StorageStep
<1>1. /\ instants[n].state \in {"requested", "inflight"}
      /\ instants[n] \in Instant
      /\ data' = data \ {n} /\ clock' = clock /\ clock \in Nat
  BY DEF RollbackData, StorageInv
<1> DEFINE new == [action |-> instants[n].action, state |-> "rollingback",
                  completion |-> instants[n].completion, replaces |-> {}]
<1>2. Changed(n, new)
  <2>1. new \in Instant
    BY <1>1 DEF Instant
  <2>2. [instants[n] EXCEPT !.state = "rollingback", !.replaces = {}] = new
    BY <1>1, StateAndReplaces
  <2>3. instants' = [t \in Times |-> IF t = n
                       THEN [instants[n] EXCEPT !.state = "rollingback",
                                                !.replaces = {}]
                       ELSE instants[t]]
    BY DEF StorageInv, RollbackData
  <2> HIDE DEF new
  <2> QED BY <2>1, <2>2, <2>3, ChangedOne DEF StorageInv
<1>3. Progress
  BY <1>1, <1>2 DEF Progress, StorageInv, Changed
<1>4. /\ clock' \in 0 .. MaxClock
      /\ data' \subseteq Times
      /\ \A t \in Times : instants'[t].state # "none" => t <= clock'
      /\ \A t \in data' :
           instants'[t].state \in {"inflight", "completed", "archived"}
  BY <1>1, <1>2 DEF StorageInv, Changed
<1>5. \A t \in Times :
        instants'[t].state \in {"completed", "archived"} =>
          0 < instants'[t].completion /\ instants'[t].completion <= clock'
  BY <1>1, <1>2 DEF StorageInv, Changed
<1>6. \A t, s \in Times :
        instants'[t].state = "archived" /\
        instants'[s].state \in PendingStates \cup {"completed"} => t < s
  BY <1>1, <1>2 DEF StorageInv, Changed, PendingStates
<1>7. /\ \A t \in Times : \A r \in instants'[t].replaces :
           instants'[r].state \in {"completed", "archived"}
      /\ \A t \in Times :
           instants'[t].action # "replacecommit" => instants'[t].replaces = {}
  BY <1>1, <1>2 DEF StorageInv, Changed, Instant
<1>8. \A t \in Times :
        instants'[t].state = "archived" =>
          instants'[t].replaces \cap data' = {}
  BY <1>1, <1>2 DEF StorageInv, Changed
<1>9. InState({"archived"})' # {} => Completed' # {}
  BY <1>1, <1>2 DEF StorageInv, Changed, InState, Completed
<1> QED BY <1>2, <1>3, <1>4, <1>5, <1>6, <1>7, <1>8, <1>9
           DEF Changed, StorageStep, StorageInv

(* The timeline files of a rolled-back write go last. *)
LEMMA RollbackInstantStep ==
    ASSUME StorageInv, NEW n \in Times, RollbackInstant(n)
    PROVE  StorageStep
<1>1. /\ instants[n].state = "rollingback" /\ instants[n] \in Instant
      /\ data' = data /\ clock' = clock /\ clock \in Nat
  BY DEF RollbackInstant, StorageInv
<1> DEFINE new == [action |-> instants[n].action, state |-> "rolledback",
                  completion |-> instants[n].completion,
                  replaces |-> instants[n].replaces]
<1>2. Changed(n, new)
  <2>1. new \in Instant
    BY <1>1 DEF Instant
  <2>2. [instants[n] EXCEPT !.state = "rolledback"] = new
    BY <1>1, OneField
  <2>3. instants' = [t \in Times |-> IF t = n
                       THEN [instants[n] EXCEPT !.state = "rolledback"]
                       ELSE instants[t]]
    BY DEF StorageInv, RollbackInstant
  <2> HIDE DEF new
  <2> QED BY <2>1, <2>2, <2>3, ChangedOne DEF StorageInv
<1>3. Progress
  BY <1>1, <1>2 DEF Progress, StorageInv, Changed
<1>4. /\ clock' \in 0 .. MaxClock
      /\ data' \subseteq Times
      /\ \A t \in Times : instants'[t].state # "none" => t <= clock'
      /\ \A t \in data' :
           instants'[t].state \in {"inflight", "completed", "archived"}
  BY <1>1, <1>2 DEF StorageInv, Changed
<1>5. \A t \in Times :
        instants'[t].state \in {"completed", "archived"} =>
          0 < instants'[t].completion /\ instants'[t].completion <= clock'
  BY <1>1, <1>2 DEF StorageInv, Changed
<1>6. \A t, s \in Times :
        instants'[t].state = "archived" /\
        instants'[s].state \in PendingStates \cup {"completed"} => t < s
  BY <1>1, <1>2 DEF StorageInv, Changed, PendingStates
<1>7. /\ \A t \in Times : \A r \in instants'[t].replaces :
           instants'[r].state \in {"completed", "archived"}
      /\ \A t \in Times :
           instants'[t].action # "replacecommit" => instants'[t].replaces = {}
  BY <1>1, <1>2 DEF StorageInv, Changed, Instant
<1>8. \A t \in Times :
        instants'[t].state = "archived" =>
          instants'[t].replaces \cap data' = {}
  BY <1>1, <1>2 DEF StorageInv, Changed
<1>9. InState({"archived"})' # {} => Completed' # {}
  BY <1>1, <1>2 DEF StorageInv, Changed, InState, Completed
<1> QED BY <1>2, <1>3, <1>4, <1>5, <1>6, <1>7, <1>8, <1>9
           DEF Changed, StorageStep, StorageInv

(* The cleaner changes no instant. *)
LEMMA CleanStep ==
    ASSUME StorageInv, NEW n \in Times, Clean(n)
    PROVE  StorageStep
<1>1. /\ data' = data \ {n} /\ clock' = clock /\ clock \in Nat
      /\ instants' = instants
  BY DEF Clean, StorageInv
<1>2. Progress
  BY <1>1 DEF Progress, StorageInv, Instant
<1> QED BY <1>1, <1>2 DEF StorageStep, StorageInv, InState, Completed

(* The archiver leaves at least one completed commit, since it keeps        *)
(* KeepCommits of them, and takes the oldest active instant.                *)
LEMMA ArchiveStep ==
    ASSUME StorageInv, NEW n \in Times, Archive(n)
    PROVE  StorageStep
<1>1. /\ instants[n].state = "completed" /\ instants[n] \in Instant
      /\ data' = data /\ clock' = clock /\ clock \in Nat
      /\ instants[n].replaces \cap data = {}
      /\ \A s \in Times :
           instants[s].state \in PendingStates \cup {"completed"} => n <= s
  BY DEF Archive, StorageInv, Completed, InState, Pending
<1> DEFINE new == [action |-> instants[n].action, state |-> "archived",
                  completion |-> instants[n].completion,
                  replaces |-> instants[n].replaces]
<1>2. Changed(n, new)
  <2>1. new \in Instant
    BY <1>1 DEF Instant
  <2>2. [instants[n] EXCEPT !.state = "archived"] = new
    BY <1>1, OneField
  <2>3. instants' = [t \in Times |-> IF t = n
                       THEN [instants[n] EXCEPT !.state = "archived"]
                       ELSE instants[t]]
    BY DEF StorageInv, Archive
  <2> HIDE DEF new
  <2> QED BY <2>1, <2>2, <2>3, ChangedOne DEF StorageInv
<1>3. Progress
  BY <1>1, <1>2 DEF Progress, StorageInv, Changed
<1>4. /\ clock' \in 0 .. MaxClock
      /\ data' \subseteq Times
      /\ \A t \in Times : instants'[t].state # "none" => t <= clock'
      /\ \A t \in data' :
           instants'[t].state \in {"inflight", "completed", "archived"}
  BY <1>1, <1>2 DEF StorageInv, Changed
<1>5. \A t \in Times :
        instants'[t].state \in {"completed", "archived"} =>
          0 < instants'[t].completion /\ instants'[t].completion <= clock'
  BY <1>1, <1>2 DEF StorageInv, Changed
<1>6. \A t, s \in Times :
        instants'[t].state = "archived" /\
        instants'[s].state \in PendingStates \cup {"completed"} => t < s
  BY <1>1, <1>2 DEF StorageInv, Changed, PendingStates, Times
<1>7. /\ \A t \in Times : \A r \in instants'[t].replaces :
           instants'[r].state \in {"completed", "archived"}
      /\ \A t \in Times :
           instants'[t].action # "replacecommit" => instants'[t].replaces = {}
  BY <1>1, <1>2 DEF StorageInv, Changed, Instant
<1>8. \A t \in Times :
        instants'[t].state = "archived" =>
          instants'[t].replaces \cap data' = {}
  BY <1>1, <1>2 DEF StorageInv, Changed
<1>9. Completed' # {}
  <2>1. Cardinality(Completed) > KeepCommits
    BY DEF Archive
  <2>2. Completed # {n}
    <3>1. Cardinality({n}) = 1
      BY FS_Singleton
    <3> QED BY <2>1, <3>1, TimelineAssumption
  <2>3. n \in Completed
    BY DEF Archive
  <2>4. PICK m \in Completed : m # n
    BY <2>2, <2>3
  <2> QED BY <1>2, <2>4 DEF Changed, Completed, InState
<1> QED BY <1>2, <1>3, <1>4, <1>5, <1>6, <1>7, <1>8, <1>9
           DEF Changed, StorageStep, StorageInv

(* Every step of the writers, and that it leaves the reader alone. *)
LEMMA WriterStep ==
    ASSUME StorageInv, Writer
    PROVE  /\ StorageStep
           /\ UNCHANGED <<loadedVars, pc, query, consumerVars, historyVars>>
<1>1. UNCHANGED <<loadedVars, pc, query, consumerVars, historyVars>>
  BY DEF Writer, Request, WriteData, Complete, RollbackData, RollbackInstant,
         Clean, Archive
<1>2. StorageStep
  BY RequestStep, WriteDataStep, CompleteStep, RollbackDataStep,
     RollbackInstantStep, CleanStep, ArchiveStep DEF Writer
<1> QED BY <1>1, <1>2

-----------------------------------------------------------------------------
(* The writers move while a timeline is loaded and a read is under way. *)

(* What was loaded stays true of the table as it was then. *)
LEMMA LoadedKept ==
    ASSUME StorageInv, LoadedInv, StorageStep,
           UNCHANGED <<loadedVars, historyVars>>
    PROVE  LoadedInv'
<1> USE DEF loadedVars, historyVars
<1>1. /\ completed_commits' = committedThen' \ archivedThen'
      /\ pending_instants' \subseteq pendingThen'
      /\ pendingThen' \subseteq Times
      /\ pendingThen' \cap committedThen' = {}
      /\ earliest_active_instant' = NoInstant => committedThen' = {}
      /\ \A t \in archivedThen' : t < earliest_active_instant'
  BY DEF LoadedInv
<1>2. /\ clock \in Nat /\ clock' \in Nat /\ clock <= clock'
      /\ committedThen \subseteq Times
  BY DEF StorageInv, StorageStep, Progress, LoadedInv, Committed, InState
<1>3. /\ earliest_active_instant' \in 0 .. clock'
      /\ \A t \in committedThen' \cup pendingThen' : t <= clock'
  BY <1>2 DEF LoadedInv, Times
<1>4. committedThen' \subseteq Committed'
  BY DEF LoadedInv, StorageStep, Progress, Committed, InState
<1>5. archivedThen' \subseteq committedThen' \cap InState({"archived"})'
  BY DEF LoadedInv, StorageStep, Progress, InState
<1>6. ASSUME Actions \cap TableServices = {}, NEW t \in Times,
             t < earliest_active_instant'
      PROVE  \/ t \in archivedThen'
             \/ instants'[t].state \in {"none", "rolledback"}
  <2>1. t <= clock
    BY <1>2, <1>6 DEF LoadedInv, Times
  <2>2. t \in archivedThen \/ instants[t].state \in {"none", "rolledback"}
    BY <1>6 DEF LoadedInv
  <2> QED BY <2>1, <2>2 DEF StorageStep, Progress
<1>7. ASSUME NEW t \in Completed' \ completed_commits',
             NEW u \in completed_commits'
      PROVE  instants'[u].completion < instants'[t].completion
  <2>1. /\ u \in Times /\ u \in completed_commits
        /\ instants[u].state \in {"completed", "archived"}
        /\ instants'[u].completion = instants[u].completion
        /\ instants[u].completion \in Nat /\ instants[u].completion <= clock
    BY DEF LoadedInv, Committed, InState, StorageStep, Progress, StorageInv,
           Instant
  <2>2. t \in Times /\ t \notin completed_commits
        /\ instants'[t].state = "completed"
    BY DEF Completed, InState
  <2>3. CASE instants[t].state = "completed"
    <3>1. t \in Completed \ completed_commits
      BY <2>2, <2>3 DEF Completed, InState
    <3>2. instants'[t].completion = instants[t].completion
      BY <2>2, <2>3 DEF StorageStep, Progress
    <3> QED BY <2>1, <3>1, <3>2 DEF LoadedInv
  <2>4. CASE instants'[t].completion = clock + 1
    BY <1>2, <2>1, <2>4
  <2> QED BY <2>2, <2>3, <2>4 DEF StorageStep, Progress
<1> QED BY <1>1, <1>3, <1>4, <1>5, <1>6, <1>7 DEF LoadedInv

(* A commit keeps its place in an incremental window. *)
LEMMA EffectiveKept ==
    ASSUME StorageInv, LoadedInv, Progress
    PROVE  \A t \in committedThen :
             /\ t \in Times
             /\ instants'[t].completion = instants[t].completion
             /\ instants'[t].action = instants[t].action
             /\ Effective(t)' = Effective(t)
BY DEF LoadedInv, Committed, InState, Progress, Effective

(* A query under way stays what its commits say. *)
LEMMA QueryKept ==
    ASSUME StorageInv, LoadedInv, QueryInv, StorageStep,
           UNCHANGED <<loadedVars, pc, query, consumerVars>>
    PROVE  QueryInv'
<1> USE DEF loadedVars, consumerVars
<1>1. completed_commits \subseteq committedThen
  BY DEF LoadedInv
<1>2. CommitsInRange(query.start, query.end)' =
        CommitsInRange(query.start, query.end)
  BY <1>1, EffectiveKept DEF CommitsInRange, SelectByCompletionTime,
     SelectByRequestedTime, StorageStep
<1>3. RangeCommits' = RangeCommits
  BY DEF RangeCommits, SelectByRequestedTime
<1>4. ReplaceCommits' = ReplaceCommits
  BY <1>1, EffectiveKept DEF ReplaceCommits, StorageStep
<1>5. ReplacedBy(RangeCommits)' = ReplacedBy(RangeCommits)
  <2>1. RangeCommits \in SUBSET Committed
    BY <1>1 DEF RangeCommits, SelectByRequestedTime, LoadedInv
  <2>2. \A t \in RangeCommits : instants'[t].replaces = instants[t].replaces
    BY <2>1 DEF StorageStep, Progress, Committed, InState
  <2> QED BY <1>3, <2>2 DEF ReplacedBy
<1>6. ReplacedBy(ReplaceCommits)' = ReplacedBy(ReplaceCommits)
  <2>1. ReplaceCommits \in SUBSET Committed
    BY <1>1 DEF ReplaceCommits, LoadedInv
  <2>2. \A t \in ReplaceCommits : instants'[t].replaces = instants[t].replaces
    BY <2>1 DEF StorageStep, Progress, Committed, InState
  <2> QED BY <1>4, <2>2 DEF ReplacedBy
<1>7. \A t \in completed_commits : Effective(t)' = Effective(t)
  BY <1>1, EffectiveKept DEF StorageStep
<1> QED BY <1>2, <1>3, <1>4, <1>5, <1>6, <1>7 DEF QueryInv

(* Nothing completes at or before the checkpoint. *)
LEMMA ConsumerKept ==
    ASSUME StorageInv, LoadedInv, ConsumerInv, StorageStep,
           UNCHANGED <<loadedVars, consumerVars>>
    PROVE  ConsumerInv'
<1> USE DEF loadedVars, consumerVars
<1>1. /\ clock \in Nat /\ clock' \in Nat /\ clock <= clock'
  BY DEF StorageInv, StorageStep, Progress
<1>2. checkpoint' \in 0 .. clock'
  BY <1>1 DEF ConsumerInv
<1>3. delivered' \subseteq Committed'
  BY DEF ConsumerInv, StorageStep, Progress, Committed, InState
<1>4. delivered' \cap Completed' \subseteq completed_commits'
  BY DEF ConsumerInv, StorageStep, Progress, Committed, Completed, InState
<1>5. \A t \in delivered' \cap completed_commits' :
        Effective(t)' <= checkpoint'
  BY EffectiveKept DEF ConsumerInv, LoadedInv, StorageStep
<1>6. ASSUME Layout = 2, NEW t \in Completed' \cap data',
             instants'[t].completion <= checkpoint'
      PROVE  t \in delivered' \cup ReplacedBy(Committed)'
  <2>1. /\ t \in Times /\ t \in data /\ instants[t].state = "completed"
        /\ instants'[t].completion = instants[t].completion
    BY <1>1, <1>6 DEF Completed, InState, StorageStep, Progress, ConsumerInv
  <2>2. t \in delivered \cup ReplacedBy(Committed)
    BY <1>6, <2>1 DEF ConsumerInv, NothingBehindCheckpoint, Completed, InState
  <2>3. ReplacedBy(Committed) \subseteq ReplacedBy(Committed)'
    BY DEF StorageStep, Progress, Committed, InState, ReplacedBy
  <2> QED BY <2>2, <2>3
<1>7. NothingBehindCheckpoint'
  BY <1>6 DEF NothingBehindCheckpoint
<1> QED BY <1>2, <1>3, <1>4, <1>5, <1>7 DEF ConsumerInv

-----------------------------------------------------------------------------
(* The reader. *)

(* The archival boundary is the oldest listed instant. *)
LEMMA EarliestProps ==
    ASSUME StorageInv
    PROVE  /\ EarliestActive = NoInstant <=> ListedActive = {}
           /\ EarliestActive # NoInstant => EarliestActive \in ListedActive
           /\ ListedActive # {} => \A t \in ListedActive : EarliestActive <= t
           /\ ListedActive \subseteq Times
<1>1. ListedActive \subseteq Times /\ ListedActive \in SUBSET Nat
  BY DEF ListedActive, ListedPending, ListedCompleted, Pending, Completed,
         InState, Times
<1>2. CASE ListedActive = {}
  BY <1>1, <1>2 DEF EarliestActive, NoInstant
<1>3. CASE ListedActive # {}
  <2>1. /\ MinOf(ListedActive) \in ListedActive
        /\ \A t \in ListedActive : MinOf(ListedActive) <= t
    BY <1>1, <1>3, MinOfProps
  <2> QED BY <1>1, <1>3, <2>1 DEF EarliestActive, NoInstant, Times
<1> QED BY <1>2, <1>3

(* A fresh listing satisfies what is claimed of a loaded timeline. *)
LEMMA OpenLoaded ==
    ASSUME IndInv, Open
    PROVE  LoadedInv'
<1>1. /\ completed_commits' = Completed /\ pending_instants' = NotCompleted
      /\ earliest_active_instant' = EarliestActive
      /\ committedThen' = Committed /\ archivedThen' = InState({"archived"})
      /\ pendingThen' = Pending /\ UNCHANGED <<clock, instants, data>>
  BY DEF Open, ListedCompleted, storageVars
<1>2. \A S : InState(S)' = InState(S)
  BY <1>1 DEF InState
<1>3. Committed' = Committed /\ Completed' = Completed
  BY <1>2 DEF Committed, Completed
<1>4. Completed = Committed \ InState({"archived"})
  BY DEF Completed, Committed, InState
<1>5. NotCompleted \subseteq Pending /\ Pending \cap Committed = {}
  BY DEF NotCompleted, ListedPending, ListedCompleted, Pending, Committed,
         Completed, InState, PendingStates
<1>6. \A t \in Committed \cup Pending : t \in Times /\ t <= clock
  BY DEF IndInv, StorageInv, Committed, Pending, InState, PendingStates
<1>7. ListedActive \subseteq Completed \cup Pending
  BY DEF ListedActive, ListedPending, ListedCompleted
<1>8. EarliestActive \in 0 .. clock
  BY <1>4, <1>6, <1>7, EarliestProps DEF IndInv, StorageInv, Times, NoInstant
<1>9. ASSUME EarliestActive = NoInstant PROVE Committed = {}
  <2>1. Completed = {}
    BY <1>9, EarliestProps DEF IndInv, ListedActive, ListedCompleted
  <2> QED BY <1>4, <2>1 DEF IndInv, StorageInv
<1>10. ASSUME NEW t \in InState({"archived"}) PROVE t < EarliestActive
  <2>1. Completed # {}
    BY DEF IndInv, StorageInv
  <2>2. EarliestActive \in Pending \cup Completed
    BY <1>7, <2>1, EarliestProps DEF IndInv, ListedActive, ListedCompleted
  <2> QED BY <2>2 DEF IndInv, StorageInv, Pending, Completed, InState
<1>11. ASSUME Actions \cap TableServices = {}, NEW t \in Times,
              t < EarliestActive
       PROVE  \/ t \in InState({"archived"})
              \/ instants[t].state \in {"none", "rolledback"}
  <2>1. instants[t] \in Instant
    BY DEF IndInv, StorageInv
  <2>2. instants[t].action \notin TableServices
    BY <1>11, <2>1 DEF Instant, TableServices
  <2>3. t \notin Pending \cup Completed
    <3>1. SUFFICES ASSUME t \in Pending \cup Completed PROVE FALSE
      OBVIOUS
    <3>2. t \in ListedActive
      BY <2>2, <3>1 DEF ListedActive, ListedPending
    <3> QED BY <1>8, <1>11, <3>2, EarliestProps DEF IndInv, Times, StorageInv
  <2> QED BY <2>1, <2>3
          DEF Instant, Pending, Completed, InState, PendingStates
<1>12. archivedThen' \subseteq committedThen' \cap InState({"archived"})'
  BY <1>1, <1>2 DEF Committed, InState
<1>13. completed_commits' = committedThen' \ archivedThen'
  BY <1>1, <1>4
<1>14. pendingThen' \subseteq Times /\ committedThen' \subseteq Times
  BY <1>1, <1>6
<1>15. Completed' \ completed_commits' = {}
  BY <1>1, <1>3
<1>16. Actions \cap TableServices = {} =>
         \A t \in Times : t < earliest_active_instant' =>
           t \in archivedThen' \/ instants'[t].state \in {"none", "rolledback"}
  BY <1>1, <1>11
<1>17. /\ committedThen' \subseteq Committed'
       /\ pending_instants' \subseteq pendingThen'
       /\ pendingThen' \cap committedThen' = {}
       /\ \A t \in committedThen' \cup pendingThen' : t <= clock'
       /\ earliest_active_instant' \in 0 .. clock'
       /\ earliest_active_instant' = NoInstant => committedThen' = {}
       /\ \A t \in archivedThen' : t < earliest_active_instant'
  BY <1>1, <1>3, <1>5, <1>6, <1>8, <1>9, <1>10
<1> QED BY <1>12, <1>13, <1>14, <1>15, <1>16, <1>17 DEF LoadedInv

(* Opening the table keeps the invariant. *)
LEMMA OpenStep ==
    ASSUME IndInv, Open
    PROVE  IndInv'
<1>1. UNCHANGED <<clock, instants, data>>
  BY DEF Open, storageVars
<1>2. StorageInv'
  BY <1>1 DEF IndInv, StorageInv, InState, Completed
<1>3. pc' = "open" /\ query' = NoQuery /\ completed_commits' = Completed
  BY DEF Open, IndInv, QueryInv, ListedCompleted
<1>4. QueryInv'
  BY <1>3 DEF QueryInv, NoQuery
<1>5. Completed' = Completed /\ Committed' = Committed
      /\ UNCHANGED consumerVars
  BY <1>1 DEF Completed, Committed, InState, Open
<1>6. ConsumerInv'
  <2>1. \A t \in delivered \cap Completed : Effective(t) <= checkpoint
    BY DEF IndInv, ConsumerInv
  <2>2. \A t : Effective(t)' = Effective(t)
    BY <1>1 DEF Effective
  <2>3. NothingBehindCheckpoint'
    BY <1>1, <1>5 DEF NothingBehindCheckpoint, IndInv, ConsumerInv,
       consumerVars, ReplacedBy
  <2> QED BY <1>1, <1>3, <1>5, <2>1, <2>2, <2>3
          DEF ConsumerInv, IndInv, consumerVars
<1> QED BY <1>2, <1>4, <1>6, OpenLoaded DEF IndInv

(* The record of a snapshot query, written out. *)
LEMMA SnapshotRecord ==
    ASSUME NEW z
    PROVE  [NoQuery EXCEPT !.kind = "snapshot", !.to = z] =
             [kind |-> "snapshot", start |-> 0, end |-> 0,
              from |-> 0, to |-> z, admitted |-> {},
              touched |-> {}, excluding |-> {}]
<1> DEFINE q == [kind |-> "snapshot", start |-> 0, end |-> 0,
                from |-> 0, to |-> 0, admitted |-> {},
                touched |-> {}, excluding |-> {}]
<1>1. [NoQuery EXCEPT !.kind = "snapshot"] = q
  BY DEF NoQuery
<1>2. [q EXCEPT !.to = z] =
        [kind |-> "snapshot", start |-> 0, end |-> 0,
         from |-> 0, to |-> z, admitted |-> {},
         touched |-> {}, excluding |-> {}]
  OBVIOUS
<1>3. [NoQuery EXCEPT !.kind = "snapshot", !.to = z] =
        [[NoQuery EXCEPT !.kind = "snapshot"] EXCEPT !.to = z]
  OBVIOUS
<1> HIDE DEF q
<1> QED BY <1>1, <1>2, <1>3

(* A step of a read leaves the table and the loaded timeline alone. *)
LEMMA ReaderFrame ==
    ASSUME IndInv, UNCHANGED <<storageVars, loadedVars, historyVars>>
    PROVE  /\ StorageInv' /\ LoadedInv'
           /\ UNCHANGED consumerVars => ConsumerInv'
<1> USE DEF storageVars, loadedVars, historyVars, consumerVars
<1>1. StorageInv'
  BY DEF IndInv, StorageInv, InState, Completed
<1>2. LoadedInv'
  BY DEF IndInv, LoadedInv, InState, Completed, Committed
<1>3. UNCHANGED consumerVars => ConsumerInv'
  BY DEF IndInv, ConsumerInv, InState, Completed, Committed, Effective,
         NothingBehindCheckpoint, ReplacedBy
<1> QED BY <1>1, <1>2, <1>3

(* The loaded commits are instants up to the clock. *)
LEMMA LoadedCommits ==
    ASSUME IndInv
    PROVE  /\ completed_commits \subseteq Committed
           /\ completed_commits \subseteq Times
           /\ completed_commits \in SUBSET Nat
           /\ clock \in Nat
           /\ \A t \in completed_commits : t <= clock
           /\ \A t \in completed_commits :
                /\ instants[t].completion \in Nat
                /\ 0 < instants[t].completion
                /\ instants[t].completion <= clock
<1>1. completed_commits \subseteq Committed
  BY DEF IndInv, LoadedInv
<1>2. completed_commits \subseteq Times /\ completed_commits \in SUBSET Nat
      /\ clock \in Nat
  BY <1>1, TimelineAssumption DEF Committed, InState, Times, IndInv, StorageInv
<1>3. \A t \in completed_commits : t <= clock
  BY DEF IndInv, LoadedInv
<1>4. \A t \in completed_commits :
        /\ instants[t].completion \in Nat
        /\ 0 < instants[t].completion /\ instants[t].completion <= clock
  BY <1>1 DEF IndInv, StorageInv, Instant, Committed, InState
<1> QED BY <1>1, <1>2, <1>3, <1>4

(* The latest loaded commit, by requested and by effective time. *)
LEMMA LatestProps ==
    ASSUME IndInv, completed_commits # {}
    PROVE  /\ LatestCommit \in completed_commits
           /\ LatestCompletion \in Nat /\ LatestCompletion <= clock
           /\ \A t \in completed_commits : Effective(t) <= LatestCompletion
           /\ \E t \in completed_commits : LatestCompletion = Effective(t)
<1>1. /\ MaxOf(completed_commits) \in completed_commits
      /\ \A t \in completed_commits : t <= MaxOf(completed_commits)
  BY LoadedCommits, MaxOfProps
<1> DEFINE C == {instants[t].completion : t \in completed_commits}
<1>2. C \in SUBSET Nat /\ C # {} /\ \A c \in C : c <= clock
  BY LoadedCommits
<1>3. MaxOf(C) \in C /\ \A c \in C : c <= MaxOf(C)
  BY <1>2, LoadedCommits, MaxOfProps
<1>4. CASE Layout = 2
  BY <1>1, <1>2, <1>3, <1>4 DEF LatestCommit, LatestCompletion, Effective
<1>5. CASE Layout # 2
  BY <1>1, <1>5, LoadedCommits DEF LatestCommit, LatestCompletion, Effective
<1> QED BY <1>4, <1>5

(* A snapshot starts. *)
LEMMA SnapshotStep ==
    ASSUME IndInv, Snapshot
    PROVE  IndInv'
<1>1. PICK ts \in Nat : StartSnapshot(ts)
  <2>1. CASE \E ts \in AsOf : StartSnapshot(ts)
    BY <2>1, TimelineAssumption
  <2>2. CASE completed_commits # {} /\ StartSnapshot(LatestCommit)
    BY <2>2, LatestProps, LoadedCommits
  <2> QED BY <2>1, <2>2 DEF Snapshot
<1>2. /\ pc' = "view"
      /\ query' = [kind |-> "snapshot", start |-> 0, end |-> 0,
                   from |-> 0, to |-> ts, admitted |-> {},
                   touched |-> {}, excluding |-> {}]
      /\ UNCHANGED <<storageVars, loadedVars, consumerVars, historyVars>>
  BY <1>1, SnapshotRecord DEF StartSnapshot
<1>3. QueryInv'
  BY <1>2 DEF QueryInv
<1> QED BY <1>2, <1>3, ReaderFrame DEF IndInv

(* The translation to requested-time bounds keeps every admitted commit. *)
LEMMA WindowBounds ==
    ASSUME NEW A \in SUBSET Nat, NEW n \in Nat,
           \A t \in A : 0 < t /\ t <= n,
           NEW start \in Nat, NEW end \in Nat
    PROVE  /\ WindowFrom(start, A) \in Nat /\ WindowTo(end, A) \in Nat
           /\ \A t \in A : WindowFrom(start, A) < t /\ t <= WindowTo(end, A)
<1>1. CASE A = {}
  BY <1>1 DEF WindowFrom, WindowTo
<1>2. CASE A # {}
  <2>1. MinOf(A) \in A /\ \A t \in A : MinOf(A) <= t
    BY <1>2, MinOfProps
  <2>2. MaxOf(A) \in A /\ \A t \in A : t <= MaxOf(A)
    BY <1>2, MaxOfProps
  <2>3. MinOf(A) \in Nat /\ 0 < MinOf(A) /\ MaxOf(A) \in Nat
    BY <2>1, <2>2
  <2>4. WindowFrom(start, A) = MinOf(A) - 1 /\ WindowTo(end, A) = MaxOf(A)
    <3>1. \A x \in Nat : 0 < x => Sub1(x) = x - 1
      BY DEF Sub1
    <3>2. InstantTimeMinusOne(MinOf(A)) = MinOf(A) - 1
      BY <2>3, <3>1 DEF InstantTimeMinusOne
    <3> QED BY <1>2, <3>2 DEF WindowFrom, WindowTo
  <2> QED BY <2>1, <2>2, <2>3, <2>4
<1> QED BY <1>1, <1>2

(* The record of an incremental query, written out. *)
LEMMA StartIncrementalRecord ==
    ASSUME NEW kind, NEW start, NEW end, StartIncremental(kind, start, end)
    PROVE  LET A == CommitsInRange(start, end)
           IN  query' = [kind |-> kind, start |-> start, end |-> end,
                         from |-> WindowFrom(start, A),
                         to |-> WindowTo(end, A),
                         admitted |-> A, touched |-> {}, excluding |-> {}]
<1> DEFINE A == CommitsInRange(start, end)
           f == WindowFrom(start, A)
           z == WindowTo(end, A)
<1>1. query' = [NoQuery EXCEPT !.kind = kind, !.start = start, !.end = end,
                              !.admitted = A, !.from = f, !.to = z]
  BY Zenon DEF StartIncremental
<1> HIDE DEF A, f, z
<1> DEFINE q1 == [kind |-> kind, start |-> 0, end |-> 0,
                   from |-> 0, to |-> 0, admitted |-> {},
                   touched |-> {}, excluding |-> {}]
<1> DEFINE q2 == [kind |-> kind, start |-> start, end |-> 0,
                   from |-> 0, to |-> 0, admitted |-> {},
                   touched |-> {}, excluding |-> {}]
<1> DEFINE q3 == [kind |-> kind, start |-> start, end |-> end,
                   from |-> 0, to |-> 0, admitted |-> {},
                   touched |-> {}, excluding |-> {}]
<1> DEFINE q4 == [kind |-> kind, start |-> start, end |-> end,
                   from |-> 0, to |-> 0, admitted |-> A,
                   touched |-> {}, excluding |-> {}]
<1> DEFINE q5 == [kind |-> kind, start |-> start, end |-> end,
                   from |-> f, to |-> 0, admitted |-> A,
                   touched |-> {}, excluding |-> {}]
<1>2. [NoQuery EXCEPT !.kind = kind] = q1
  BY DEF NoQuery
<1>3. [q1 EXCEPT !.start = start] = q2
  OBVIOUS
<1>4. [q2 EXCEPT !.end = end] = q3
  OBVIOUS
<1>5. [q3 EXCEPT !.admitted = A] = q4
  OBVIOUS
<1>6. [q4 EXCEPT !.from = f] = q5
  OBVIOUS
<1>7. [q5 EXCEPT !.to = z] =
        [kind |-> kind, start |-> start, end |-> end,
         from |-> f, to |-> z, admitted |-> A,
         touched |-> {}, excluding |-> {}]
  OBVIOUS
<1>8. [NoQuery EXCEPT !.kind = kind, !.start = start, !.end = end,
                      !.admitted = A, !.from = f, !.to = z] =
        [[[[[[NoQuery EXCEPT !.kind = kind] EXCEPT !.start = start]
               EXCEPT !.end = end] EXCEPT !.admitted = A]
             EXCEPT !.from = f] EXCEPT !.to = z]
  OBVIOUS
<1> HIDE DEF q1, q2, q3, q4, q5
<1>9. query' = [kind |-> kind, start |-> start, end |-> end,
                from |-> f, to |-> z,
                admitted |-> A, touched |-> {}, excluding |-> {}]
  BY <1>1, <1>2, <1>3, <1>4, <1>5, <1>6, <1>7, <1>8, Zenon
<1> QED BY <1>9, Zenon DEF A, f, z

(* An incremental read starts, with any bounds. *)
LEMMA StartIncrementalStep ==
    ASSUME IndInv, NEW kind \in {"poll", "window"},
           NEW start \in Nat, NEW end \in Nat,
           StartIncremental(kind, start, end),
           kind = "poll" =>
             /\ start = checkpoint
             /\ \A t \in completed_commits : Effective(t) <= end
             /\ \E t \in completed_commits : end = Effective(t)
    PROVE  IndInv'
<1> DEFINE A == CommitsInRange(start, end)
<1>1. A \subseteq completed_commits
  BY DEF CommitsInRange, SelectByCompletionTime, SelectByRequestedTime
<1>2. /\ WindowFrom(start, A) \in Nat /\ WindowTo(end, A) \in Nat
      /\ \A t \in A : WindowFrom(start, A) < t /\ t <= WindowTo(end, A)
  <2>1. A \in SUBSET Nat /\ \A t \in A : 0 < t /\ t <= clock
    BY <1>1, LoadedCommits DEF Times
  <2> QED BY <2>1, LoadedCommits, WindowBounds
<1>3. /\ pc' = "groups"
      /\ query' = [kind |-> kind, start |-> start, end |-> end,
                   from |-> WindowFrom(start, A), to |-> WindowTo(end, A),
                   admitted |-> A, touched |-> {}, excluding |-> {}]
      /\ UNCHANGED <<storageVars, loadedVars, consumerVars, historyVars>>
  BY StartIncrementalRecord DEF StartIncremental
<1>4. CommitsInRange(query.start, query.end)' = A
  BY <1>3 DEF CommitsInRange, SelectByCompletionTime, SelectByRequestedTime,
     storageVars, loadedVars
<1>5. A \subseteq RangeCommits'
  BY <1>1, <1>2, <1>3 DEF RangeCommits, SelectByRequestedTime, loadedVars
<1>6. \A t : Effective(t)' = Effective(t)
  BY <1>3 DEF Effective, storageVars
<1> HIDE DEF A
<1>7. QueryInv'
  BY <1>1, <1>2, <1>3, <1>4, <1>5, <1>6
     DEF QueryInv, loadedVars, consumerVars
<1> QED BY <1>3, <1>7, ReaderFrame DEF IndInv

(* A poll starts at the checkpoint and ends at the latest completion. *)
LEMMA PollStep ==
    ASSUME IndInv, Poll
    PROVE  IndInv'
<1>1. /\ StartIncremental("poll", checkpoint, LatestCompletion)
      /\ checkpoint \in Nat
  BY DEF Poll, IndInv, ConsumerInv
<1> QED BY <1>1, LatestProps, StartIncrementalStep DEF Poll

(* A read of an explicit window starts. *)
LEMMA ReadWindowStep ==
    ASSUME IndInv, ReadWindow
    PROVE  IndInv'
<1>1. PICK w \in Windows : StartIncremental("window", w.start, w.end)
  BY DEF ReadWindow
<1>2. w.start \in Nat /\ w.end \in Nat
  BY TimelineAssumption
<1> QED BY <1>1, <1>2, StartIncrementalStep

(* The fields of a query record that a read goes on with. *)
LEMMA QueryFields ==
    ASSUME NEW q, NEW C,
           q \in [kind : {"none", "snapshot", "poll", "window"},
                  start : Nat, end : Nat, from : Nat, to : Nat,
                  admitted : SUBSET C, touched : SUBSET C,
                  excluding : SUBSET Times],
           NEW t, NEW x
    PROVE  /\ [q EXCEPT !.touched = t] =
                [kind |-> q.kind, start |-> q.start, end |-> q.end,
                 from |-> q.from, to |-> q.to, admitted |-> q.admitted,
                 touched |-> t, excluding |-> q.excluding]
           /\ [q EXCEPT !.excluding = x] =
                [kind |-> q.kind, start |-> q.start, end |-> q.end,
                 from |-> q.from, to |-> q.to, admitted |-> q.admitted,
                 touched |-> q.touched, excluding |-> x]
OBVIOUS

(* The file groups of the window are looked up. *)
LEMMA TouchGroupsStep ==
    ASSUME IndInv, TouchGroups
    PROVE  IndInv'
<1> DEFINE T == RangeCommits \ ReplacedBy(RangeCommits)
<1>1. /\ pc' = "view"
      /\ query' = [kind |-> query.kind, start |-> query.start,
                   end |-> query.end, from |-> query.from, to |-> query.to,
                   admitted |-> query.admitted, touched |-> T,
                   excluding |-> query.excluding]
      /\ UNCHANGED <<storageVars, loadedVars, consumerVars, historyVars>>
  <2>1. query' = [query EXCEPT !.touched = T]
    BY DEF TouchGroups
  <2>2. pc' = "view" /\
        UNCHANGED <<storageVars, loadedVars, consumerVars, historyVars>>
    BY DEF TouchGroups
  <2> HIDE DEF T
  <2>3. [query EXCEPT !.touched = T] =
          [kind |-> query.kind, start |-> query.start, end |-> query.end,
           from |-> query.from, to |-> query.to,
           admitted |-> query.admitted, touched |-> T,
           excluding |-> query.excluding]
    BY QueryFields DEF IndInv, QueryInv
  <2> QED BY <2>1, <2>2, <2>3, Zenon
<1>2. T \subseteq completed_commits
  BY DEF RangeCommits, SelectByRequestedTime
<1>3. /\ RangeCommits' = RangeCommits
      /\ CommitsInRange(query.start, query.end)' =
           CommitsInRange(query.start, query.end)
      /\ \A t : Effective(t)' = Effective(t)
  BY <1>1 DEF RangeCommits, CommitsInRange, SelectByCompletionTime,
     SelectByRequestedTime, Effective, storageVars, loadedVars
<1>4. (RangeCommits \ ReplacedBy(RangeCommits))' = T
  BY <1>1, <1>3 DEF ReplacedBy, storageVars
<1> HIDE DEF T
<1>5. QueryInv'
  BY <1>1, <1>2, <1>3, <1>4 DEF IndInv, QueryInv, loadedVars, consumerVars
<1> QED BY <1>1, <1>5, ReaderFrame DEF IndInv

(* The replaced file groups are looked up. *)
LEMMA BuildViewStep ==
    ASSUME IndInv, BuildView
    PROVE  IndInv'
<1> DEFINE X == ReplacedBy(ReplaceCommits)
<1>1. /\ pc = "view" /\ pc' = "list"
      /\ query' = [kind |-> query.kind, start |-> query.start,
                   end |-> query.end, from |-> query.from, to |-> query.to,
                   admitted |-> query.admitted, touched |-> query.touched,
                   excluding |-> X]
      /\ UNCHANGED <<storageVars, loadedVars, consumerVars, historyVars>>
  <2>1. query' = [query EXCEPT !.excluding = X]
    BY DEF BuildView
  <2>2. pc = "view" /\ pc' = "list" /\
        UNCHANGED <<storageVars, loadedVars, consumerVars, historyVars>>
    BY DEF BuildView
  <2> HIDE DEF X
  <2>3. [query EXCEPT !.excluding = X] =
          [kind |-> query.kind, start |-> query.start, end |-> query.end,
           from |-> query.from, to |-> query.to,
           admitted |-> query.admitted, touched |-> query.touched,
           excluding |-> X]
    BY QueryFields DEF IndInv, QueryInv
  <2> QED BY <2>1, <2>2, <2>3, Zenon
<1>2. X \subseteq Times
  BY LoadedCommits DEF ReplaceCommits, ReplacedBy, IndInv, StorageInv, Instant
<1>3. /\ RangeCommits' = RangeCommits
      /\ CommitsInRange(query.start, query.end)' =
           CommitsInRange(query.start, query.end)
      /\ \A t : Effective(t)' = Effective(t)
      /\ ReplaceCommits' = ReplaceCommits
  BY <1>1 DEF RangeCommits, CommitsInRange, SelectByCompletionTime,
     SelectByRequestedTime, Effective, ReplaceCommits, storageVars, loadedVars
<1>4. /\ ReplacedBy(RangeCommits)' = ReplacedBy(RangeCommits)
      /\ ReplacedBy(ReplaceCommits)' = X
  BY <1>1, <1>3 DEF ReplacedBy, storageVars
<1> HIDE DEF X
<1>5. QueryInv'
  BY <1>1, <1>2, <1>3, <1>4 DEF IndInv, QueryInv, loadedVars, consumerVars
<1> QED BY <1>1, <1>5, ReaderFrame DEF IndInv

(* A read that is over leaves nothing behind. *)
LEMMA NoQueryInv ==
    ASSUME pc' = "open", query' = NoQuery
    PROVE  QueryInv'
BY DEF QueryInv, NoQuery

(* A read whose metadata was archived fails. *)
LEMMA ReadFailsStep ==
    ASSUME IndInv, ReadFails
    PROVE  IndInv'
BY NoQueryInv, ReaderFrame DEF ReadFails, IndInv

-----------------------------------------------------------------------------
(* What the invariant says of the rows a read returns. *)

(* An incremental read returns the commits of its window, whatever the      *)
(* writers did since the timeline was loaded.                               *)
LEMMA WindowRows ==
    ASSUME IndInv, pc = "list", query.kind \in {"poll", "window"}
    PROVE  LET Asked == {t \in committedThen \ archivedThen :
                           /\ query.start < Effective(t)
                           /\ Effective(t) <= query.end}
           IN  /\ Rows \subseteq Asked
               /\ (Asked \cap data) \ ReplacedBy(committedThen) \subseteq Rows
<1> DEFINE Asked == {t \in committedThen \ archivedThen :
                       query.start < Effective(t) /\ Effective(t) <= query.end}
<1>1. query.admitted = Asked
  BY DEF IndInv, QueryInv, LoadedInv, CommitsInRange, SelectByCompletionTime,
         SelectByRequestedTime, Effective
<1>2. Rows \subseteq query.admitted
  BY DEF Rows
<1>3. ASSUME NEW t \in (Asked \cap data) \ ReplacedBy(committedThen)
      PROVE  t \in Rows
  <2>1. /\ t \in query.admitted /\ t \in RangeCommits
        /\ t \in completed_commits
    BY <1>1 DEF IndInv, QueryInv, LoadedInv
  <2>2. RangeCommits \cup ReplaceCommits \subseteq committedThen
    BY DEF RangeCommits, ReplaceCommits, SelectByRequestedTime, IndInv,
           LoadedInv
  <2>3. t \notin ReplacedBy(RangeCommits) /\ t \notin ReplacedBy(ReplaceCommits)
    BY <2>2 DEF ReplacedBy
  <2>4. t \in query.touched /\ t \notin query.excluding
    BY <2>1, <2>3 DEF IndInv, QueryInv
  <2>5. t <= query.to
    BY <2>1 DEF RangeCommits, SelectByRequestedTime
  <2>6. t \in SliceFiles
    BY <2>1, <2>4, <2>5 DEF SliceFiles, IsCommitted
  <2> QED BY <2>1, <2>4, <2>6 DEF Rows
<1> QED BY <1>1, <1>2, <1>3

(* The invariant gives the rows of an incremental read. *)
LEMMA InvWindow == IndInv => WindowExact
<1> SUFFICES ASSUME IndInv, pc = "list", query.kind \in {"poll", "window"}
             PROVE  WindowExact
  BY DEF WindowExact
<1> QED BY WindowRows DEF WindowExact, Effective

(* An instant with data is one the loaded timeline calls committed exactly  *)
(* when it was committed then.                                              *)
LEMMA CommittedRight ==
    ASSUME IndInv, Actions \cap TableServices = {}, NEW t \in data
    PROVE  IsCommitted(t) <=> t \in committedThen
<1>1. /\ t \in Times
      /\ instants[t].state \in {"inflight", "completed", "archived"}
  BY DEF IndInv, StorageInv
<1>2. ASSUME IsCommitted(t) PROVE t \in committedThen
  <2>1. CASE t \in completed_commits
    BY <2>1 DEF IndInv, LoadedInv
  <2>2. CASE t < earliest_active_instant
    BY <1>1, <2>2 DEF IndInv, LoadedInv
  <2> QED BY <1>2, <2>1, <2>2 DEF IsCommitted
<1>3. ASSUME t \in committedThen PROVE IsCommitted(t)
  <2>1. CASE t \in archivedThen
    BY <1>3, <2>1 DEF IndInv, LoadedInv, IsCommitted
  <2>2. CASE t \notin archivedThen
    BY <1>3, <2>2 DEF IndInv, LoadedInv, IsCommitted
  <2> QED BY <2>1, <2>2
<1> QED BY <1>2, <1>3

(* The invariant gives the rows of a snapshot. *)
LEMMA InvSnapshot ==
    IndInv /\ Actions \cap TableServices = {} => SnapshotExact
<1> SUFFICES ASSUME IndInv, Actions \cap TableServices = {},
                    pc = "list", query.kind = "snapshot"
             PROVE  LET Seen == {t \in committedThen : t <= query.to}
                    IN  Rows = (data \cap Seen) \ ReplacedBy(Seen)
  BY DEF SnapshotExact
<1> DEFINE Seen == {t \in committedThen : t <= query.to}
<1>1. Rows = {t \in data \ query.excluding : t <= query.to /\ IsCommitted(t)}
  BY DEF Rows, SliceFiles
<1>2. query.excluding = ReplacedBy(ReplaceCommits)
  BY DEF IndInv, QueryInv
<1>3. ReplaceCommits \subseteq Seen
  BY DEF ReplaceCommits, IndInv, LoadedInv
<1>4. ASSUME NEW t \in data, t \in ReplacedBy(Seen)
      PROVE  t \in ReplacedBy(ReplaceCommits)
  <2>1. PICK c \in Seen : t \in instants[c].replaces
    BY <1>4 DEF ReplacedBy
  <2>2. c \in Times
    BY DEF IndInv, LoadedInv, Committed, InState
  <2>3. instants[c].state # "archived"
    BY <2>1, <2>2 DEF IndInv, StorageInv
  <2>4. c \in completed_commits
    BY <2>3 DEF IndInv, LoadedInv, InState
  <2>5. instants[c].action = "replacecommit"
    BY <2>1, <2>2 DEF IndInv, StorageInv
  <2>6. c \in ReplaceCommits
    BY <2>4, <2>5 DEF ReplaceCommits
  <2> QED BY <2>1, <2>6 DEF ReplacedBy
<1>5. ReplacedBy(ReplaceCommits) \subseteq ReplacedBy(Seen)
  BY <1>3 DEF ReplacedBy
<1>6. \A t \in data : IsCommitted(t) <=> t \in committedThen
  BY CommittedRight
<1> HIDE DEF Seen
<1>7. \A t \in data :
        t \notin query.excluding <=> t \notin ReplacedBy(Seen)
  BY <1>2, <1>4, <1>5
<1>8. \A t : t \in Rows <=> t \in (data \cap Seen) \ ReplacedBy(Seen)
  BY <1>1, <1>6, <1>7 DEF Seen
<1> QED BY <1>8 DEF Seen

(* The invariant gives what the gate admits. *)
LEMMA InvGate ==
    IndInv /\ Actions \cap TableServices = {} => GateExact
<1> SUFFICES ASSUME IndInv, Actions \cap TableServices = {},
                    GateInputs.armed, completed_commits # {}, NEW t \in data
             PROVE  GateAdmits(GateInputs, t) <=> t \in committedThen
  BY DEF GateExact
<1>1. t \in committedThen => t \notin pending_instants
  BY DEF IndInv, LoadedInv
<1>2. GateAdmits(GateInputs, t) <=> IsCommitted(t) /\ t \notin pending_instants
  BY DEF GateAdmits, GateInputs, IsCommitted
<1> QED BY <1>1, <1>2, CommittedRight

(* The invariant keeps polls apart. *)
LEMMA InvTwice == IndInv => NoCommitTwice
<1> SUFFICES ASSUME IndInv, pc = "list", query.kind = "poll",
                    NEW t \in Rows \cap delivered
             PROVE  FALSE
  BY DEF NoCommitTwice
<1>1. /\ t \in committedThen \ archivedThen
      /\ query.start < Effective(t)
  BY WindowRows
<1>2. t \in completed_commits /\ query.start = checkpoint
  BY <1>1 DEF IndInv, LoadedInv, QueryInv
<1>3. Effective(t) <= checkpoint
  BY <1>2 DEF IndInv, ConsumerInv
<1>4. Effective(t) \in Nat /\ checkpoint \in Nat
  BY <1>2, LoadedCommits DEF Effective, IndInv, ConsumerInv
<1> QED BY <1>1, <1>2, <1>3, <1>4

(* The invariant gives the types. *)
LEMMA InvType == IndInv => TypeOK
<1> SUFFICES ASSUME IndInv PROVE TypeOK
  OBVIOUS
<1>1. completed_commits \subseteq 1 .. clock
  BY LoadedCommits DEF Times
<1>2. pending_instants \subseteq 1 .. clock
  BY LoadedCommits DEF IndInv, LoadedInv, Times
<1>3. /\ delivered \subseteq Times /\ committedThen \subseteq Times
      /\ archivedThen \subseteq Times /\ pendingThen \subseteq Times
  BY DEF IndInv, LoadedInv, ConsumerInv, Committed, InState
<1> QED BY <1>1, <1>2, <1>3
        DEF TypeOK, IndInv, StorageInv, LoadedInv, QueryInv, ConsumerInv

(* A read returns; a poll moves the checkpoint. *)
LEMMA ListFilesStep ==
    ASSUME IndInv, ListFiles
    PROVE  IndInv'
<1>1. /\ pc = "list" /\ pc' = "open" /\ query' = NoQuery
      /\ UNCHANGED <<storageVars, loadedVars, historyVars>>
  BY DEF ListFiles
<1>2. StorageInv' /\ LoadedInv' /\ QueryInv'
  BY <1>1, NoQueryInv, ReaderFrame
<1>3. CASE query.kind # "poll"
  BY <1>1, <1>2, <1>3, ReaderFrame DEF ListFiles, IndInv
<1>4. CASE query.kind = "poll"
  <2>1. checkpoint' = query.end /\ delivered' = delivered \cup Rows
    BY <1>4 DEF ListFiles
  <2> DEFINE Asked == {t \in committedThen \ archivedThen :
                         /\ query.start < Effective(t)
                         /\ Effective(t) <= query.end}
  <2>2. /\ Rows \subseteq Asked
        /\ (Asked \cap data) \ ReplacedBy(committedThen) \subseteq Rows
    BY <1>1, <1>4, WindowRows
  <2>3. Rows \subseteq completed_commits
    BY <2>2 DEF IndInv, LoadedInv
  <2>4. /\ query.start = checkpoint /\ query.end \in Nat
        /\ \A t \in completed_commits : Effective(t) <= query.end
        /\ \E t \in completed_commits : query.end = Effective(t)
    BY <1>4 DEF IndInv, QueryInv
  <2>5. checkpoint' \in 0 .. clock'
    BY <1>1, <2>1, <2>4, LoadedCommits DEF Effective, storageVars
  <2>6. /\ Committed' = Committed /\ Completed' = Completed
        /\ completed_commits' = completed_commits
        /\ \A t : Effective(t)' = Effective(t)
        /\ data' = data /\ instants' = instants
        /\ ReplacedBy(Committed)' = ReplacedBy(Committed)
    BY <1>1 DEF Committed, Completed, InState, Effective, storageVars,
       loadedVars, ReplacedBy
  <2>7. /\ delivered' \subseteq Committed'
        /\ delivered' \cap Completed' \subseteq completed_commits'
        /\ \A t \in delivered' \cap completed_commits' :
             Effective(t)' <= checkpoint'
    BY <2>1, <2>3, <2>4, <2>6, LoadedCommits DEF IndInv, ConsumerInv
  <2>8. ASSUME Layout = 2, NEW t \in Completed \cap data,
               instants[t].completion <= query.end
        PROVE  t \in delivered \cup Rows \cup ReplacedBy(Committed)
    <3>1. PICK u \in completed_commits : query.end = instants[u].completion
      BY <2>4, <2>8 DEF Effective
    <3>2. instants[t].completion \in Nat /\ instants[u].completion \in Nat
      BY LoadedCommits DEF Completed, InState, IndInv, StorageInv, Instant
    <3>3. t \in completed_commits
      BY <2>8, <3>1, <3>2 DEF IndInv, LoadedInv
    <3>4. CASE instants[t].completion <= checkpoint
      BY <2>8, <3>4 DEF IndInv, ConsumerInv, NothingBehindCheckpoint
    <3>5. CASE ~ (instants[t].completion <= checkpoint)
      <4>1. t \in Asked
        BY <2>4, <2>8, <3>2, <3>3, <3>5
           DEF Effective, IndInv, LoadedInv, ConsumerInv
      <4>2. ReplacedBy(committedThen) \subseteq ReplacedBy(Committed)
        BY DEF ReplacedBy, IndInv, LoadedInv
      <4> QED BY <2>2, <2>8, <4>1, <4>2
    <3> QED BY <3>4, <3>5
  <2>9. NothingBehindCheckpoint'
    BY <2>1, <2>6, <2>8 DEF NothingBehindCheckpoint
  <2> QED BY <1>2, <2>5, <2>7, <2>9 DEF IndInv, ConsumerInv
<1> QED BY <1>3, <1>4

-----------------------------------------------------------------------------
(* The invariant, and what follows from it. *)

(* The invariant holds of an empty table. *)
LEMMA InvInit == Init => IndInv
<1> SUFFICES ASSUME Init PROVE IndInv
  OBVIOUS
<1>1. Unused \in Instant
  BY TimelineAssumption DEF Unused, Instant
<1>2. /\ instants \in [Times -> Instant]
      /\ \A t \in Times : instants[t] = Unused
  BY <1>1 DEF Init
<1>3. /\ \A t \in Times : /\ instants[t].state = "none"
                          /\ instants[t].replaces = {}
  BY <1>2 DEF Unused
<1>4. Completed = {} /\ Committed = {} /\ InState({"archived"}) = {}
  BY <1>3 DEF Completed, Committed, InState
<1>5. StorageInv
  BY <1>2, <1>3, <1>4, TimelineAssumption DEF StorageInv, Init
<1>6. LoadedInv
  <2>1. /\ completed_commits = {} /\ pending_instants = {}
        /\ committedThen = {} /\ archivedThen = {} /\ pendingThen = {}
        /\ earliest_active_instant = 0 /\ clock = 0
    BY DEF Init, NoInstant
  <2>2. \A t \in Times : ~ (t < earliest_active_instant)
    BY <2>1 DEF Times
  <2> QED BY <2>1, <2>2, <1>4 DEF LoadedInv, NoInstant
<1>7. QueryInv
  BY DEF QueryInv, Init, NoQuery
<1>8. ConsumerInv
  BY <1>4 DEF ConsumerInv, Init, NothingBehindCheckpoint
<1> QED BY <1>5, <1>6, <1>7, <1>8 DEF IndInv

(* Every step keeps the invariant. *)
LEMMA InvStep == IndInv /\ [Next]_vars => IndInv'
<1> SUFFICES ASSUME IndInv, [Next]_vars PROVE IndInv'
  OBVIOUS
<1>1. CASE Writer
  <2>1. StorageInv /\ LoadedInv /\ QueryInv /\ ConsumerInv
    BY DEF IndInv
  <2>2. StorageStep /\
        UNCHANGED <<loadedVars, pc, query, consumerVars, historyVars>>
    BY <1>1, <2>1, WriterStep
  <2> QED BY <2>1, <2>2, LoadedKept, QueryKept, ConsumerKept
          DEF IndInv, StorageStep
<1>2. CASE Reader
  BY <1>2, OpenStep, SnapshotStep, PollStep, ReadWindowStep, TouchGroupsStep,
     BuildViewStep, ListFilesStep, ReadFailsStep DEF Reader
<1>3. CASE UNCHANGED vars
  BY <1>3, ReaderFrame DEF vars, IndInv, QueryInv, storageVars, loadedVars,
     consumerVars, CommitsInRange, SelectByCompletionTime,
     SelectByRequestedTime, RangeCommits, ReplaceCommits, ReplacedBy, Effective
<1> QED BY <1>1, <1>2, <1>3 DEF Next

(* The invariant holds in every reachable state. *)
LEMMA InvAlways == Spec => []IndInv
BY InvInit, InvStep, PTL DEF Spec

(* Types, for every bound on the clock and every set of windows: no bound   *)
(* of a window wraps below zero, and a checkpoint never passes the clock.   *)
THEOREM TypeCorrect == Spec => []TypeOK
BY InvAlways, InvType, PTL

(* Where no table service writes to the table, a snapshot read returns      *)
(* exactly what was committed when the table was opened                     *)
(* (TimelineView::is_committed, create_view_as_of).                         *)
THEOREM SnapshotTheorem ==
    ASSUME Actions \cap TableServices = {}
    PROVE  Spec => []SnapshotExact
<1>1. IndInv => SnapshotExact
  BY InvSnapshot
<1> QED BY <1>1, InvAlways, PTL

(* Under the same condition the completion gate admits exactly what was     *)
(* committed then (Timeline::completion_gate_inputs).                       *)
THEOREM GateTheorem ==
    ASSUME Actions \cap TableServices = {}
    PROVE  Spec => []GateExact
<1>1. IndInv => GateExact
  BY InvGate
<1> QED BY <1>1, InvAlways, PTL

(* Whoever writes, an incremental read returns the commits of its window    *)
(* (Table::resolve_incremental_window).                                     *)
THEOREM WindowTheorem == Spec => []WindowExact
BY InvAlways, InvWindow, PTL

(* No poll returns a commit an earlier poll returned.                       *)
THEOREM NoCommitTwiceTheorem == Spec => []NoCommitTwice
BY InvAlways, InvTwice, PTL

(* On layout 2 no active commit falls behind the checkpoint unseen          *)
(* (TimelineSelector::select_by_completion_time).                           *)
THEOREM NothingBehindTheorem == Spec => []NothingBehindCheckpoint
<1>1. IndInv => NothingBehindCheckpoint
  BY DEF IndInv, ConsumerInv
<1> QED BY <1>1, InvAlways, PTL
=============================================================================

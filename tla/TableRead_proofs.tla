-------------------------- MODULE TableRead_proofs --------------------------
(***************************************************************************)
(* Theorems about concurrent reads of one table, for every number of       *)
(* readers, partitions and file groups, every request and every budget.    *)
(***************************************************************************)
EXTENDS TableRead, FiniteLemmas

Labels == {"metadata", "estimator", "list", "load", "collect", "read",
           "stream", "done", "failed", "cancelled"}

(* The states before a read collects its slices. *)
Loading == {"metadata", "estimator", "list", "load"}

TypeInv ==
    /\ pc \in [Readers -> Labels]
    /\ request \in [Readers -> Requests]
    /\ view \in [Partitions -> SUBSET Groups]
    /\ \A p \in Partitions : view[p] \subseteq GroupsIn(p)
    /\ toLoad \in [Readers -> SUBSET Partitions]
    /\ toCollect \in [Readers -> SUBSET Partitions]
    /\ slices \in [Readers -> Seq(Groups)]
    /\ read \in [Readers -> Seq(Groups)]
    /\ running \in [Readers -> SUBSET Groups]
    /\ finished \in [Readers -> SUBSET Groups]

(* The groups of p that r may not miss. *)
Needs(r, p) ==
    {g \in GroupsIn(p) \cap Visible(r) :
        request[r].baseOnly => g \in request[r].matching}

(* What a read holds as it goes: nothing before it collects, and then a     *)
(* slice for each group of the partitions it has done with.                 *)
SliceInv(r) ==
    /\ toLoad[r] \subseteq request[r].parts
    /\ toCollect[r] \subseteq request[r].parts
    /\ IsInjective(slices[r])
    /\ ToSet(slices[r]) \subseteq Asked(r)
    /\ pc[r] \in Loading => slices[r] = << >>
    /\ pc[r] = "collect" =>
         \A g \in ToSet(slices[r]) : PartitionOf[g] \notin toCollect[r]

(* What it has read is where the collected slices begin, and what is in     *)
(* flight is of the chunk that comes next.                                  *)
ReadInv(r) ==
    /\ Len(read[r]) <= Len(slices[r])
    /\ \A k \in 1 .. Len(read[r]) : read[r][k] = slices[r][k]
    /\ pc[r] \in Loading \cup {"collect"} => read[r] = << >>
    /\ pc[r] # "read" => running[r] = {}
    /\ running[r] # {} =>
         Rest(r) # << >> /\ running[r] \subseteq ToSet(Chunk(r))
    /\ pc[r] = "done" => read[r] = slices[r]

(* What it needs is in the shared view from when it loads a partition until *)
(* it collects from it, and in its slices from then on.                     *)
NeedsInv(r) ==
    /\ pc[r] = "load" =>
         \A p \in request[r].parts \ toLoad[r] : Needs(r, p) \subseteq view[p]
    /\ pc[r] = "collect" =>
         /\ \A p \in request[r].parts : Needs(r, p) \subseteq view[p]
         /\ \A p \in request[r].parts \ toCollect[r] :
              Needs(r, p) \subseteq ToSet(slices[r])
    /\ pc[r] \in {"read", "stream", "done"} =>
         \A p \in request[r].parts : Needs(r, p) \subseteq ToSet(slices[r])

ReaderInv(r) ==
    /\ SliceInv(r)
    /\ ReadInv(r)
    /\ Undisturbed(r) => NeedsInv(r)

IndInv == TypeInv /\ \A r \in Readers : ReaderInv(r)

-----------------------------------------------------------------------------
(* What the requests and the operators are. *)

(* A request keeps its types. *)
LEMMA RequestProps ==
    ASSUME TypeInv, NEW r \in Readers
    PROVE  /\ request[r] \in Requests
           /\ request[r].parts \subseteq Partitions
           /\ request[r].sliced \subseteq Groups
           /\ Visible(r) \subseteq Groups
           /\ request[r].matching \subseteq Groups
           /\ request[r].unsized \subseteq Groups
           /\ request[r].baseOnly \in BOOLEAN
           /\ request[r].stream \in BOOLEAN
BY TableReadAssumption DEF TypeInv, Visible

(* What a slice is estimated at. *)
LEMMA EstimateType ==
    ASSUME TypeInv, NEW r \in Readers, NEW g \in Groups
    PROVE  EstimatedBytes(r, g) \in Nat
<1>1. LogBytes[g] \in Nat /\ WorkingSet \in Nat /\ LogExpansion \in Nat
  BY TableReadAssumption
<1>2. SliceLogBytes(r, g) \in Nat
  BY <1>1 DEF SliceLogBytes
<1> QED BY <1>1, <1>2 DEF EstimatedBytes

(* The largest estimate stands for all. *)
LEMMA PerSliceProps ==
    ASSUME TypeInv, NEW r \in Readers, slices[r] # << >>
    PROVE  /\ PerSlice(r) \in Nat
           /\ \A g \in ToSet(slices[r]) : EstimatedBytes(r, g) <= PerSlice(r)
<1> DEFINE S == ToSet(slices[r])
           f == [g \in S |-> EstimatedBytes(r, g)]
           M == {EstimatedBytes(r, g) : g \in S}
<1>1. slices[r] \in Seq(Groups)
  BY DEF TypeInv
<1>2. IsFiniteSet(S) /\ S # {} /\ S \subseteq Groups
  <2>1. IsFiniteSet(S)
    BY <1>1, ElementsCount
  <2>2. /\ 1 \in DOMAIN slices[r]
        /\ \A k \in DOMAIN slices[r] : slices[r][k] \in Groups
    BY <1>1
  <2> QED BY <2>1, <2>2 DEF ToSet
<1>3. f \in [S -> Nat]
  BY <1>2, EstimateType
<1>4. PICK x \in S : \A y \in S : f[y] <= f[x]
  <2> HIDE DEF f, S
  <2> QED BY <1>2, <1>3, GreatestValue
<1>5. /\ EstimatedBytes(r, x) \in M /\ EstimatedBytes(r, x) \in Nat
      /\ \A y \in S : /\ EstimatedBytes(r, y) \in Nat
                      /\ EstimatedBytes(r, y) <= EstimatedBytes(r, x)
  BY <1>2, <1>4, EstimateType
<1>6. \A m \in M : m \in Nat /\ EstimatedBytes(r, x) >= m
  BY <1>5
<1>7. PerSlice(r) \in M /\ \A m \in M : PerSlice(r) >= m
  BY <1>5, <1>6 DEF PerSlice, Max
<1>8. PerSlice(r) \in Nat
  BY <1>6, <1>7
<1>9. \A g \in S : EstimatedBytes(r, g) \in M
  OBVIOUS
<1> QED BY <1>5, <1>7, <1>8, <1>9

(* A quotient times its divisor stays within the dividend. *)
LEMMA DivBound ==
    ASSUME NEW b \in Nat, NEW p \in Nat \ {0}
    PROVE  b \div p \in Nat /\ (b \div p) * p <= b
OBVIOUS

(* A larger factor gives a larger product. *)
LEMMA TimesMonotone ==
    ASSUME NEW a \in Nat, NEW b \in Nat, NEW c \in Nat, a <= b
    PROVE  a * c <= b * c /\ c * a <= c * b
OBVIOUS

(* How many slices may be in flight, and that together they fit. *)
LEMMA InFlightProps ==
    ASSUME TypeInv, NEW r \in Readers, slices[r] # << >>
    PROVE  /\ SlicesInFlight(r) \in Nat \ {0}
           /\ SlicesInFlight(r) <= AtLeastOne(Ceiling)
           /\ HasBudget /\ SlicesInFlight(r) > 1 =>
                /\ ToSet(slices[r]) \cap Unsized(r) = {}
                /\ SlicesInFlight(r) * PerSlice(r) <= Budget
<1>1. /\ Budget \in Nat /\ Ceiling \in Nat /\ HasBudget \in BOOLEAN
  BY TableReadAssumption
<1>2. AtLeastOne(Ceiling) \in Nat \ {0}
  BY <1>1 DEF AtLeastOne
<1>3. CASE ~HasBudget
  BY <1>2, <1>3 DEF SlicesInFlight
<1>4. CASE HasBudget /\ ToSet(slices[r]) \cap Unsized(r) # {}
  BY <1>2, <1>4 DEF SlicesInFlight
<1>5. CASE HasBudget /\ ToSet(slices[r]) \cap Unsized(r) = {}
  <2> DEFINE P == PerSlice(r)
             Q == Budget \div AtLeastOne(P)
             n == SlicesInFlight(r)
  <2>1. P \in Nat
    BY PerSliceProps
  <2>2. AtLeastOne(P) \in Nat \ {0} /\ P <= AtLeastOne(P)
    BY <2>1 DEF AtLeastOne
  <2>3. Q \in Nat /\ Q * AtLeastOne(P) <= Budget
    BY <1>1, <2>2, DivBound
  <2>4. n = Least(AtLeastOne(Q), AtLeastOne(Ceiling))
    BY <1>5 DEF SlicesInFlight
  <2> HIDE DEF n, P, Q
  <2>5. n \in Nat \ {0} /\ n <= AtLeastOne(Ceiling) /\ (n > 1 => n <= Q)
    <3>1. /\ AtLeastOne(Q) \in Nat \ {0}
          /\ AtLeastOne(Q) > 1 => AtLeastOne(Q) = Q
      BY <2>3 DEF AtLeastOne
    <3>2. n \in {AtLeastOne(Q), AtLeastOne(Ceiling)} /\ n <= AtLeastOne(Q)
          /\ n <= AtLeastOne(Ceiling)
      BY <1>2, <2>4, <3>1 DEF Least
    <3> QED BY <1>2, <2>3, <3>1, <3>2
  <2>6. ASSUME n > 1 PROVE n * P <= Budget
    <3>1. n * P <= Q * P
      BY <2>1, <2>3, <2>5, <2>6, TimesMonotone
    <3>2. Q * P <= Q * AtLeastOne(P)
      BY <2>1, <2>2, <2>3, TimesMonotone
    <3>3. n * P \in Nat /\ Q * P \in Nat /\ Q * AtLeastOne(P) \in Nat
      BY <2>1, <2>2, <2>3, <2>5
    <3> QED BY <1>1, <2>3, <3>1, <3>2, <3>3
  <2> QED BY <1>5, <2>5, <2>6 DEF n, P
<1> QED BY <1>1, <1>3, <1>4, <1>5

(* What is left of a sequence after its first n elements. *)
LEMMA TailProps ==
    ASSUME NEW S, NEW t \in Seq(S), NEW n \in Nat, n <= Len(t)
    PROVE  /\ SubSeq(t, n + 1, Len(t)) \in Seq(S)
           /\ Len(SubSeq(t, n + 1, Len(t))) = Len(t) - n
           /\ \A k \in 1 .. Len(t) - n :
                SubSeq(t, n + 1, Len(t))[k] = t[n + k]
<1>1. Len(t) \in Nat /\ \A k \in 1 .. Len(t) : t[k] \in S
  OBVIOUS
<1>2. Len(SubSeq(t, n + 1, Len(t))) = Len(t) - n
  BY <1>1
<1>3. \A k \in 1 .. Len(t) - n : SubSeq(t, n + 1, Len(t))[k] = t[n + k]
  BY <1>1
<1>4. SubSeq(t, n + 1, Len(t)) \in Seq(S)
  BY <1>1
<1> QED BY <1>2, <1>3, <1>4

(* The slices still to read, and the next chunk of them. *)
LEMMA RestProps ==
    ASSUME TypeInv, NEW r \in Readers, Len(read[r]) <= Len(slices[r])
    PROVE  /\ Len(read[r]) \in Nat /\ Len(slices[r]) \in Nat
           /\ Rest(r) \in Seq(Groups)
           /\ Len(Rest(r)) = Len(slices[r]) - Len(read[r])
           /\ Rest(r) # << >> <=> Len(read[r]) < Len(slices[r])
           /\ \A k \in 1 .. Len(Rest(r)) :
                Rest(r)[k] = slices[r][Len(read[r]) + k]
<1>1. slices[r] \in Seq(Groups) /\ read[r] \in Seq(Groups)
  BY DEF TypeInv
<1>2. Len(read[r]) \in Nat /\ Len(slices[r]) \in Nat
  BY <1>1
<1>3. /\ Rest(r) \in Seq(Groups)
      /\ Len(Rest(r)) = Len(slices[r]) - Len(read[r])
      /\ \A k \in 1 .. Len(slices[r]) - Len(read[r]) :
           Rest(r)[k] = slices[r][Len(read[r]) + k]
  BY <1>1, <1>2, TailProps DEF Rest
<1>4. Rest(r) = << >> <=> Len(Rest(r)) = 0
  BY <1>3
<1> QED BY <1>2, <1>3, <1>4

(* The next chunk is what comes next of the slices, and not too long. *)
LEMMA ChunkProps ==
    ASSUME TypeInv, NEW r \in Readers, Len(read[r]) <= Len(slices[r]),
           Rest(r) # << >>
    PROVE  /\ Chunk(r) \in Seq(Groups)
           /\ Len(Chunk(r)) <= SlicesInFlight(r)
           /\ Len(read[r]) + Len(Chunk(r)) <= Len(slices[r])
           /\ \A k \in 1 .. Len(Chunk(r)) :
                Chunk(r)[k] = slices[r][Len(read[r]) + k]
<1>1. /\ Len(read[r]) \in Nat /\ Len(slices[r]) \in Nat
      /\ Rest(r) \in Seq(Groups) /\ Len(Rest(r)) \in Nat
      /\ Len(Rest(r)) = Len(slices[r]) - Len(read[r])
      /\ \A k \in 1 .. Len(Rest(r)) :
           Rest(r)[k] = slices[r][Len(read[r]) + k]
  BY RestProps
<1>2. slices[r] # << >>
  BY <1>1, RestProps
<1> DEFINE m == Least(SlicesInFlight(r), Len(Rest(r)))
<1>3. m \in Nat /\ m <= Len(Rest(r)) /\ m <= SlicesInFlight(r)
  <2>1. SlicesInFlight(r) \in Nat
    BY <1>2, InFlightProps
  <2>2. \A a, b \in Nat :
          Least(a, b) \in Nat /\ Least(a, b) <= a /\ Least(a, b) <= b
    BY DEF Least
  <2> QED BY <1>1, <2>1, <2>2
<1> HIDE DEF m
<1>4. Chunk(r) = SubSeq(Rest(r), 1, m)
  BY DEF Chunk, m
<1>5. /\ Chunk(r) \in Seq(Groups) /\ Len(Chunk(r)) = m
      /\ \A k \in 1 .. m : Chunk(r)[k] = Rest(r)[k]
  BY <1>1, <1>3, <1>4
<1>6. Len(read[r]) + m <= Len(slices[r])
  BY <1>1, <1>3
<1>7. \A k \in 1 .. m : Chunk(r)[k] = slices[r][Len(read[r]) + k]
  <2>1. \A k \in 1 .. m : k \in 1 .. Len(Rest(r))
    BY <1>1, <1>3
  <2> QED BY <1>1, <1>5, <2>1
<1> QED BY <1>3, <1>5, <1>6, <1>7

-----------------------------------------------------------------------------
(* Steps. *)

(* What r holds itself. *)
Own(r) == <<pc[r], toLoad[r], toCollect[r], slices[r], read[r], running[r]>>

(* A change of the view that takes nothing away that an undisturbed read    *)
(* needs.                                                                   *)
ViewKept ==
    \A s \in Readers : Undisturbed(s) =>
        \A p \in request[s].parts :
            Needs(s, p) \subseteq view[p] => Needs(s, p) \subseteq view'[p]

(* A read that does not move keeps its invariant. *)
LEMMA OwnKept ==
    ASSUME IndInv, NEW s \in Readers, request' = request, UNCHANGED Own(s),
           ViewKept
    PROVE  ReaderInv(s)'
<1>1. /\ pc'[s] = pc[s] /\ toLoad'[s] = toLoad[s]
      /\ toCollect'[s] = toCollect[s] /\ slices'[s] = slices[s]
      /\ read'[s] = read[s] /\ running'[s] = running[s]
  BY DEF Own
<1>2. SliceInv(s)'
  BY <1>1 DEF IndInv, ReaderInv, SliceInv, Asked, Visible
<1>3. Rest(s)' = Rest(s) /\ Chunk(s)' = Chunk(s)
  BY <1>1 DEF Rest, Chunk, SlicesInFlight, PerSlice, EstimatedBytes,
     SliceLogBytes, Unsized
<1>4. ReadInv(s)'
  BY <1>1, <1>3 DEF IndInv, ReaderInv, ReadInv
<1>5. Undisturbed(s)' <=> Undisturbed(s)
  BY DEF Undisturbed, Needed, MayPrune, Asked, Visible
<1>6. ASSUME Undisturbed(s) PROVE NeedsInv(s)'
  <2>1. \A p : Needs(s, p)' = Needs(s, p)
    BY DEF Needs, Visible
  <2>2. NeedsInv(s)
    BY <1>6 DEF IndInv, ReaderInv
  <2>3. \A p \in request[s].parts :
          Needs(s, p) \subseteq view[p] => Needs(s, p) \subseteq view'[p]
    BY <1>6 DEF ViewKept
  <2> QED BY <1>1, <2>1, <2>2, <2>3 DEF NeedsInv
<1> QED BY <1>2, <1>4, <1>5, <1>6 DEF ReaderInv

(* One reader moves. *)
LEMMA OneMoves ==
    ASSUME IndInv, NEW r \in Readers, request' = request, TypeInv',
           \A s \in Readers \ {r} : UNCHANGED Own(s), ViewKept,
           ReaderInv(r)'
    PROVE  IndInv'
BY OwnKept DEF IndInv

(* A step that leaves the view alone. *)
LEMMA ViewSame == view' = view => ViewKept
BY DEF ViewKept

(* The shared cells: a read moves on towards its listing. *)
LEMMA CellStep ==
    ASSUME IndInv, NEW r \in Readers,
           pc[r] \in Loading,
           \/ pc' = pc
           \/ \E l \in {"estimator", "list"} : Goto(r, l),
           UNCHANGED <<request, view, toLoad, toCollect, slices, read, running,
                       finished>>
    PROVE  IndInv'
<1>1. TypeInv'
  BY DEF IndInv, TypeInv, Goto, Labels, GroupsIn
<1>2. \A s \in Readers \ {r} : UNCHANGED Own(s)
  BY DEF Own, Goto, IndInv, TypeInv
<1>3. pc'[r] = pc[r] \/ pc'[r] \in {"estimator", "list"}
  BY DEF Goto, IndInv, TypeInv
<1>4. CASE pc'[r] = pc[r]
  BY <1>1, <1>2, <1>4, ViewSame, OwnKept, OneMoves DEF Own
<1>5. CASE pc'[r] \in {"estimator", "list"}
  <2>1. SliceInv(r)'
    BY <1>5 DEF IndInv, ReaderInv, SliceInv, Asked, Visible, Loading
  <2>2. running[r] = {} /\ read[r] = << >>
    BY DEF IndInv, ReaderInv, ReadInv, Loading
  <2>3. ReadInv(r)'
    BY <1>5, <2>2 DEF IndInv, ReaderInv, ReadInv, Loading
  <2>4. NeedsInv(r)'
    BY <1>5 DEF NeedsInv
  <2> QED BY <1>1, <1>2, <2>1, <2>3, <2>4, ViewSame, OneMoves DEF ReaderInv
<1> QED BY <1>3, <1>4, <1>5

(* Filling, using or giving up a cell changes nothing the reads collect. *)
LEMMA CellSteps ==
    ASSUME IndInv, NEW r \in Readers,
           \/ \E c \in Cells : \/ StartFilling(r, c) \/ Fill(r, c)
                              \/ UseCell(r, c) \/ FillFails(r, c)
           \/ NoSample(r)
    PROVE  IndInv'
<1>1. CASE NoSample(r)
  <2>1. /\ pc[r] \in Loading /\ Goto(r, "list")
        /\ UNCHANGED <<request, view, toLoad, toCollect, slices, read,
                       running, finished>>
    BY <1>1 DEF NoSample, Loading, table
  <2> QED BY <2>1, CellStep
<1>2. ASSUME NEW c \in Cells, \/ StartFilling(r, c) \/ Fill(r, c)
                              \/ UseCell(r, c) \/ FillFails(r, c)
      PROVE  IndInv'
  <2>1. /\ pc[r] \in Loading
        /\ UNCHANGED <<request, view, toLoad, toCollect, slices, read,
                       running, finished>>
    BY <1>2 DEF StartFilling, Fill, UseCell, FillFails, Loading, table, Cells
  <2>2. After(c) \in {"estimator", "list"}
    BY DEF After
  <2>3. pc' = pc \/ Goto(r, After(c))
    BY <1>2 DEF StartFilling, Fill, UseCell, FillFails
  <2> QED BY <2>1, <2>2, <2>3, CellStep
<1> QED BY <1>1, <1>2

(* A read that lists has everything still to load. *)
LEMMA ListStep ==
    ASSUME IndInv, NEW r \in Readers, List(r)
    PROVE  IndInv'
<1>1. /\ pc[r] = "list" /\ pc' = [pc EXCEPT ![r] = "load"]
      /\ toLoad' = [toLoad EXCEPT ![r] = request[r].parts]
      /\ UNCHANGED <<request, view, toCollect, slices, read, running, finished>>
  BY DEF List, Goto, table
<1>2. pc'[r] = "load" /\ toLoad'[r] = request[r].parts
  BY <1>1 DEF IndInv, TypeInv
<1>3. TypeInv'
  BY <1>1, RequestProps DEF IndInv, TypeInv, Labels, GroupsIn
<1>4. \A s \in Readers \ {r} : UNCHANGED Own(s)
  BY <1>1 DEF Own, IndInv, TypeInv
<1>5. SliceInv(r)'
  BY <1>1, <1>2 DEF IndInv, ReaderInv, SliceInv, Asked, Visible, Loading
<1>6. running[r] = {} /\ read[r] = << >>
  BY <1>1 DEF IndInv, ReaderInv, ReadInv, Loading
<1>7. ReadInv(r)'
  BY <1>1, <1>2, <1>6 DEF IndInv, ReaderInv, ReadInv, Loading
<1>8. NeedsInv(r)'
  BY <1>1, <1>2 DEF NeedsInv
<1> QED BY <1>1, <1>3, <1>4, <1>5, <1>7, <1>8, ViewSame, OneMoves
        DEF ReaderInv

(* A load drops nothing an undisturbed read needs: what the loading read    *)
(* drops is its own, or may be pruned and so is not needed by the other.    *)
LEMMA LoadPartitionStep ==
    ASSUME IndInv, NEW r \in Readers, LoadPartition(r)
    PROVE  IndInv'
<1>1. PICK p \in toLoad[r], U \in SUBSET Groups :
        /\ view' = [view EXCEPT ![p] = Retained(r, p, U)]
        /\ toLoad' = [toLoad EXCEPT ![r] = toLoad[r] \ {p}]
  BY DEF LoadPartition
<1>2. /\ pc[r] = "load"
      /\ UNCHANGED <<pc, request, toCollect, slices, read, running, finished>>
  BY DEF LoadPartition
<1>3. p \in request[r].parts /\ p \in Partitions
  BY RequestProps DEF IndInv, ReaderInv, SliceInv
<1>4. /\ toLoad'[r] = toLoad[r] \ {p}
      /\ view'[p] = Retained(r, p, U)
      /\ \A q \in Partitions \ {p} : view'[q] = view[q]
  BY <1>1, <1>3 DEF IndInv, TypeInv
<1>5. Retained(r, p, U) \subseteq GroupsIn(p) /\ GroupsIn(p) \subseteq Groups
  BY DEF Retained, GroupsIn
<1>6. TypeInv'
  BY <1>1, <1>2, <1>3, <1>4, <1>5 DEF IndInv, TypeInv, GroupsIn
<1>7. \A s \in Readers \ {r} : UNCHANGED Own(s)
  BY <1>1, <1>2 DEF Own, IndInv, TypeInv
<1>8. ASSUME NEW s \in Readers, Undisturbed(s), p \in request[s].parts
      PROVE  Needs(s, p) \subseteq Retained(r, p, U)
  <2>1. SUFFICES ASSUME NEW g \in Needs(s, p), request[r].baseOnly,
                        g \in request[r].sliced
                 PROVE  g \in request[r].matching
    BY DEF Needs, Retained, Prunes
  <2>2. CASE s = r
    BY <2>1, <2>2 DEF Needs
  <2>3. CASE s # r
    <3>1. g \in Needed(s)
      BY <1>8, <2>1 DEF Needed, Asked, Needs, GroupsIn
    <3>2. g \in request[r].matching \/ g \in MayPrune(r)
      BY <1>3, <2>1 DEF MayPrune, Needs, GroupsIn
    <3> QED BY <1>8, <2>3, <3>1, <3>2 DEF Undisturbed
  <2> QED BY <2>2, <2>3
<1>9. ViewKept
  <2> SUFFICES ASSUME NEW s \in Readers, Undisturbed(s),
                      NEW q \in request[s].parts, Needs(s, q) \subseteq view[q]
               PROVE  Needs(s, q) \subseteq view'[q]
    BY DEF ViewKept
  <2>1. q \in Partitions
    BY RequestProps DEF IndInv
  <2> QED BY <1>4, <1>8, <2>1
<1>10. SliceInv(r)'
  BY <1>2, <1>4 DEF IndInv, ReaderInv, SliceInv, Asked, Visible
<1>11. running[r] = {} /\ read[r] = << >>
  BY <1>2 DEF IndInv, ReaderInv, ReadInv, Loading
<1>12. ReadInv(r)'
  BY <1>2, <1>11 DEF IndInv, ReaderInv, ReadInv
<1>13. ASSUME Undisturbed(r)' PROVE NeedsInv(r)'
  <2>1. Undisturbed(r)
    BY <1>2, <1>13 DEF Undisturbed, Needed, MayPrune, Asked, Visible
  <2>2. \A q : Needs(r, q)' = Needs(r, q)
    BY <1>2 DEF Needs, Visible
  <2>3. ASSUME NEW q \in request[r].parts \ (toLoad[r] \ {p})
        PROVE  Needs(r, q) \subseteq view'[q]
    <3>1. CASE q = p
      BY <1>4, <1>8, <2>1, <3>1
    <3>2. CASE q # p
      <4>1. Needs(r, q) \subseteq view[q]
        BY <1>2, <2>1, <2>3, <3>2 DEF IndInv, ReaderInv, NeedsInv
      <4> QED BY <1>9, <2>1, <4>1 DEF ViewKept
    <3> QED BY <3>1, <3>2
  <2> QED BY <1>2, <1>4, <2>2, <2>3 DEF NeedsInv
<1> QED BY <1>2, <1>6, <1>7, <1>9, <1>10, <1>12, <1>13, OneMoves
        DEF ReaderInv

(* Once all is loaded, all is in the view. *)
LEMMA StartCollectingStep ==
    ASSUME IndInv, NEW r \in Readers, StartCollecting(r)
    PROVE  IndInv'
<1>1. /\ pc[r] = "load" /\ pc' = [pc EXCEPT ![r] = "collect"]
      /\ toLoad[r] = {}
      /\ toCollect' = [toCollect EXCEPT ![r] = request[r].parts]
      /\ UNCHANGED <<request, view, toLoad, slices, read, running, finished>>
  BY DEF StartCollecting, Goto, table
<1>2. pc'[r] = "collect" /\ toCollect'[r] = request[r].parts
  BY <1>1 DEF IndInv, TypeInv
<1>3. TypeInv'
  BY <1>1, RequestProps DEF IndInv, TypeInv, Labels, GroupsIn
<1>4. \A s \in Readers \ {r} : UNCHANGED Own(s)
  BY <1>1 DEF Own, IndInv, TypeInv
<1>5. slices[r] = << >> /\ ToSet(slices[r]) = {}
  BY <1>1 DEF IndInv, ReaderInv, SliceInv, Loading, ToSet
<1>6. SliceInv(r)'
  BY <1>1, <1>2, <1>5 DEF IndInv, ReaderInv, SliceInv, Asked, Visible, Loading
<1>7. running[r] = {} /\ read[r] = << >>
  BY <1>1 DEF IndInv, ReaderInv, ReadInv, Loading
<1>8. ReadInv(r)'
  BY <1>1, <1>2, <1>7 DEF IndInv, ReaderInv, ReadInv, Loading
<1>9. ASSUME Undisturbed(r)' PROVE NeedsInv(r)'
  <2>1. Undisturbed(r)
    BY <1>1, <1>9 DEF Undisturbed, Needed, MayPrune, Asked, Visible
  <2>2. \A q : Needs(r, q)' = Needs(r, q)
    BY <1>1 DEF Needs, Visible
  <2>3. \A p \in request[r].parts : Needs(r, p) \subseteq view[p]
    BY <1>1, <2>1 DEF IndInv, ReaderInv, NeedsInv
  <2> QED BY <1>1, <1>2, <2>2, <2>3 DEF NeedsInv
<1> QED BY <1>1, <1>3, <1>4, <1>6, <1>8, <1>9, ViewSame, OneMoves
        DEF ReaderInv

(* A partition's slices are appended, each once: no other partition has     *)
(* them.                                                                    *)
LEMMA CollectPartitionStep ==
    ASSUME IndInv, NEW r \in Readers, CollectPartition(r)
    PROVE  IndInv'
<1>1. PICK p \in toCollect[r] :
        /\ slices' = [slices EXCEPT ![r] =
               slices[r] \o SetToSeq(view[p] \cap Visible(r))]
        /\ toCollect' = [toCollect EXCEPT ![r] = toCollect[r] \ {p}]
  BY DEF CollectPartition
<1>2. /\ pc[r] = "collect"
      /\ UNCHANGED <<pc, request, view, toLoad, read, running, finished>>
  BY DEF CollectPartition, table
<1> DEFINE V == view[p] \cap Visible(r)
           t == SetToSeq(V)
<1>3. p \in request[r].parts /\ p \in Partitions
  BY RequestProps DEF IndInv, ReaderInv, SliceInv
<1>4. V \subseteq GroupsIn(p) /\ V \subseteq Groups /\ V \subseteq Asked(r)
  BY <1>3, RequestProps DEF IndInv, TypeInv, GroupsIn, Asked
<1>5. IsFiniteSet(V)
  BY <1>4, TableReadAssumption, FS_Subset
<1> HIDE DEF V
<1>6. t \in Seq(V) /\ ToSet(t) = V /\ IsInjective(t)
  BY <1>5, SetToSeqProps
<1>7. t \in Seq(Groups)
  BY <1>4, <1>6
<1> HIDE DEF t
<1>8. slices[r] \in Seq(Groups) /\ slices'[r] = slices[r] \o t
      /\ toCollect'[r] = toCollect[r] \ {p}
  BY <1>1 DEF IndInv, TypeInv, t, V
<1>9. ToSet(slices[r]) \cap ToSet(t) = {}
  <2>1. \A g \in ToSet(slices[r]) : PartitionOf[g] \notin toCollect[r]
    BY <1>2 DEF IndInv, ReaderInv, SliceInv
  <2>2. \A g \in V : PartitionOf[g] = p
    BY <1>4 DEF GroupsIn
  <2> QED BY <1>6, <2>1, <2>2
<1>10. /\ ToSet(slices'[r]) = ToSet(slices[r]) \cup V
       /\ IsInjective(slices'[r])
  <2>1. IsInjective(slices[r])
    BY DEF IndInv, ReaderInv, SliceInv
  <2> QED BY <1>6, <1>7, <1>8, <1>9, <2>1, ConcatSet
<1>11. slices'[r] \in Seq(Groups)
  BY <1>7, <1>8
<1>12. TypeInv'
  BY <1>1, <1>2, <1>8, <1>11 DEF IndInv, TypeInv, GroupsIn, t, V
<1>13. \A s \in Readers \ {r} : UNCHANGED Own(s)
  BY <1>1, <1>2 DEF Own, IndInv, TypeInv
<1>14. SliceInv(r)'
  <2>1. \A g \in ToSet(slices'[r]) : PartitionOf[g] \notin toCollect'[r]
    BY <1>2, <1>4, <1>8, <1>10 DEF IndInv, ReaderInv, SliceInv, GroupsIn
  <2>2. ToSet(slices'[r]) \subseteq Asked(r) /\ Asked(r)' = Asked(r)
    BY <1>2, <1>4, <1>10 DEF IndInv, ReaderInv, SliceInv, Asked, Visible
  <2> QED BY <1>2, <1>8, <1>10, <2>1, <2>2
          DEF IndInv, ReaderInv, SliceInv, Loading
<1>15. running[r] = {} /\ read[r] = << >>
  BY <1>2 DEF IndInv, ReaderInv, ReadInv
<1>16. ReadInv(r)'
  BY <1>2, <1>11, <1>15 DEF IndInv, ReaderInv, ReadInv
<1>17. ASSUME Undisturbed(r)' PROVE NeedsInv(r)'
  <2>1. Undisturbed(r)
    BY <1>2, <1>17 DEF Undisturbed, Needed, MayPrune, Asked, Visible
  <2>2. \A q : Needs(r, q)' = Needs(r, q)
    BY <1>2 DEF Needs, Visible
  <2>3. /\ \A q \in request[r].parts : Needs(r, q) \subseteq view[q]
        /\ \A q \in request[r].parts \ toCollect[r] :
             Needs(r, q) \subseteq ToSet(slices[r])
    BY <1>2, <2>1 DEF IndInv, ReaderInv, NeedsInv
  <2>4. Needs(r, p) \subseteq V
    BY <1>3, <2>3 DEF V, Needs
  <2> QED BY <1>2, <1>8, <1>10, <2>2, <2>3, <2>4 DEF NeedsInv
<1> QED BY <1>2, <1>12, <1>13, <1>14, <1>16, <1>17, ViewSame, OneMoves
        DEF ReaderInv

(* A read that goes on to read its slices, or ends, with its slices kept. *)
LEMMA StartReadingStep ==
    ASSUME IndInv, NEW r \in Readers, StartReading(r)
    PROVE  IndInv'
<1> DEFINE l == IF request[r].stream THEN "stream" ELSE "read"
<1>1. /\ pc[r] = "collect" /\ toCollect[r] = {}
      /\ pc' = [pc EXCEPT ![r] = l]
      /\ UNCHANGED <<request, view, toLoad, toCollect, slices, read, running,
                     finished>>
  BY DEF StartReading, Goto, table
<1>2. l \in {"read", "stream"}
  OBVIOUS
<1> HIDE DEF l
<1>3. pc'[r] = l
  BY <1>1 DEF IndInv, TypeInv
<1>4. TypeInv'
  BY <1>1, <1>2 DEF IndInv, TypeInv, Labels, GroupsIn
<1>5. \A s \in Readers \ {r} : UNCHANGED Own(s)
  BY <1>1 DEF Own, IndInv, TypeInv
<1>6. SliceInv(r)'
  BY <1>1, <1>2, <1>3 DEF IndInv, ReaderInv, SliceInv, Asked, Visible, Loading
<1>7. running[r] = {} /\ read[r] = << >>
  BY <1>1 DEF IndInv, ReaderInv, ReadInv
<1>8. ReadInv(r)'
  BY <1>1, <1>2, <1>3, <1>7 DEF IndInv, ReaderInv, ReadInv, Loading
<1>9. ASSUME Undisturbed(r)' PROVE NeedsInv(r)'
  <2>1. Undisturbed(r)
    BY <1>1, <1>9 DEF Undisturbed, Needed, MayPrune, Asked, Visible
  <2>2. \A q : Needs(r, q)' = Needs(r, q)
    BY <1>1 DEF Needs, Visible
  <2> QED BY <1>1, <1>2, <1>3, <2>1, <2>2
          DEF IndInv, ReaderInv, NeedsInv
<1> QED BY <1>1, <1>4, <1>5, <1>6, <1>8, <1>9, ViewSame, OneMoves
        DEF ReaderInv

(* Once a read has its slices they stay, and with them what it needs. *)
LEMMA NeedsStay ==
    ASSUME IndInv, NEW r \in Readers, request' = request,
           slices'[r] = slices[r], pc[r] \in {"read", "stream"},
           pc'[r] \in {"read", "stream", "done", "failed", "cancelled"},
           toLoad'[r] = toLoad[r], toCollect'[r] = toCollect[r]
    PROVE  SliceInv(r)' /\ (Undisturbed(r)' => NeedsInv(r)')
<1>1. SliceInv(r)'
  BY DEF IndInv, ReaderInv, SliceInv, Asked, Visible, Loading
<1>2. Undisturbed(r)' <=> Undisturbed(r)
  BY DEF Undisturbed, Needed, MayPrune, Asked, Visible
<1>3. \A q : Needs(r, q)' = Needs(r, q)
  BY DEF Needs, Visible
<1> QED BY <1>1, <1>2, <1>3 DEF IndInv, ReaderInv, NeedsInv

(* A chunk in flight is of the slices that come next. *)
LEMMA StartChunkStep ==
    ASSUME IndInv, NEW r \in Readers, StartChunk(r)
    PROVE  IndInv'
<1>1. /\ pc[r] = "read" /\ Rest(r) # << >>
      /\ running' = [running EXCEPT ![r] = ToSet(Chunk(r))]
      /\ UNCHANGED <<pc, request, view, toLoad, toCollect, slices, read,
                     finished>>
  BY DEF StartChunk, table
<1>2. Len(read[r]) <= Len(slices[r])
  BY DEF IndInv, ReaderInv, ReadInv
<1>3. Chunk(r) \in Seq(Groups)
  BY <1>1, <1>2, ChunkProps DEF IndInv
<1>4. ToSet(Chunk(r)) \subseteq Groups
  BY <1>3 DEF ToSet
<1>5. running'[r] = ToSet(Chunk(r))
  BY <1>1 DEF IndInv, TypeInv
<1>6. TypeInv'
  BY <1>1, <1>4 DEF IndInv, TypeInv, GroupsIn
<1>7. \A s \in Readers \ {r} : UNCHANGED Own(s)
  BY <1>1 DEF Own, IndInv, TypeInv
<1>8. Rest(r)' = Rest(r) /\ Chunk(r)' = Chunk(r)
  BY <1>1 DEF Rest, Chunk, SlicesInFlight, PerSlice, EstimatedBytes,
     SliceLogBytes, Unsized
<1>9. ReadInv(r)'
  BY <1>1, <1>5, <1>8 DEF IndInv, ReaderInv, ReadInv, Loading
<1> QED BY <1>1, <1>6, <1>7, <1>9, NeedsStay, ViewSame, OneMoves
        DEF ReaderInv

(* A slice of the chunk is done; the last of them hands the chunk over. *)
LEMMA SliceDoneStep ==
    ASSUME IndInv, NEW r \in Readers, SliceDone(r)
    PROVE  IndInv'
<1>1. PICK g \in running[r] :
        LET left == running[r] \ {g}
        IN  /\ running' = [running EXCEPT ![r] = left]
            /\ finished' = [finished EXCEPT ![r] =
                   IF left = {} THEN {} ELSE finished[r] \cup {g}]
            /\ read' = IF left = {}
                       THEN [read EXCEPT ![r] = read[r] \o Chunk(r)] ELSE read
  BY DEF SliceDone
<1>2. /\ pc[r] = "read"
      /\ UNCHANGED <<pc, request, view, toLoad, toCollect, slices>>
  BY DEF SliceDone, table
<1>3. /\ Rest(r) # << >> /\ running[r] \subseteq ToSet(Chunk(r))
      /\ Len(read[r]) <= Len(slices[r])
      /\ \A k \in 1 .. Len(read[r]) : read[r][k] = slices[r][k]
  BY DEF IndInv, ReaderInv, ReadInv
<1>4. /\ Chunk(r) \in Seq(Groups)
      /\ Len(read[r]) + Len(Chunk(r)) <= Len(slices[r])
      /\ \A k \in 1 .. Len(Chunk(r)) :
           Chunk(r)[k] = slices[r][Len(read[r]) + k]
  BY <1>3, ChunkProps DEF IndInv
<1>5. /\ read[r] \in Seq(Groups) /\ g \in Groups
      /\ running[r] \subseteq Groups
  BY DEF IndInv, TypeInv
<1> DEFINE left == running[r] \ {g}
<1>6. /\ running'[r] = left
      /\ read'[r] = IF left = {} THEN read[r] \o Chunk(r) ELSE read[r]
  BY <1>1 DEF IndInv, TypeInv
<1>7. read'[r] \in Seq(Groups)
  BY <1>4, <1>5, <1>6
<1>8. TypeInv'
  <2>1. running' \in [Readers -> SUBSET Groups]
    BY <1>1 DEF IndInv, TypeInv
  <2>2. finished' \in [Readers -> SUBSET Groups]
    BY <1>1, <1>5 DEF IndInv, TypeInv
  <2>3. read' \in [Readers -> Seq(Groups)]
    <3>1. CASE left = {}
      BY <1>1, <1>4, <1>5, <3>1 DEF IndInv, TypeInv
    <3>2. CASE left # {}
      BY <1>1, <3>2 DEF IndInv, TypeInv
    <3> QED BY <3>1, <3>2
  <2> QED BY <1>2, <2>1, <2>2, <2>3 DEF IndInv, TypeInv, GroupsIn
<1>9. \A s \in Readers \ {r} : UNCHANGED Own(s)
  BY <1>1, <1>2 DEF Own, IndInv, TypeInv
<1>10. CASE left = {}
  <2>1. read'[r] = read[r] \o Chunk(r) /\ running'[r] = {}
    BY <1>6, <1>10
  <2>2. /\ Len(read'[r]) = Len(read[r]) + Len(Chunk(r))
        /\ \A k \in 1 .. Len(read'[r]) :
             read'[r][k] = IF k <= Len(read[r]) THEN read[r][k]
                           ELSE Chunk(r)[k - Len(read[r])]
    BY <1>4, <1>5, <2>1
  <2>3. \A k \in 1 .. Len(read'[r]) : read'[r][k] = slices[r][k]
    <3> SUFFICES ASSUME NEW k \in 1 .. Len(read'[r])
                 PROVE  read'[r][k] = slices[r][k]
      OBVIOUS
    <3>1. Len(read[r]) \in Nat /\ Len(Chunk(r)) \in Nat
      BY <1>4, <1>5
    <3>2. CASE k <= Len(read[r])
      BY <1>3, <2>2, <3>1, <3>2
    <3>3. CASE ~ (k <= Len(read[r]))
      <4>1. k - Len(read[r]) \in 1 .. Len(Chunk(r))
            /\ Len(read[r]) + (k - Len(read[r])) = k
        BY <2>2, <3>1, <3>3
      <4> QED BY <1>4, <2>2, <3>3, <4>1
    <3> QED BY <3>2, <3>3
  <2>4. ReadInv(r)'
    BY <1>2, <1>4, <2>1, <2>2, <2>3 DEF ReadInv, Loading
  <2> QED BY <1>2, <1>8, <1>9, <2>4, NeedsStay, ViewSame, OneMoves
          DEF ReaderInv
<1>11. CASE left # {}
  <2>1. read'[r] = read[r] /\ running'[r] = left
    BY <1>6, <1>11
  <2>2. Rest(r)' = Rest(r) /\ Chunk(r)' = Chunk(r)
    BY <1>2, <2>1 DEF Rest, Chunk, SlicesInFlight, PerSlice, EstimatedBytes,
       SliceLogBytes, Unsized
  <2>3. ReadInv(r)'
    BY <1>2, <1>3, <2>1, <2>2 DEF ReadInv, Loading
  <2> QED BY <1>2, <1>8, <1>9, <2>3, NeedsStay, ViewSame, OneMoves
          DEF ReaderInv
<1> QED BY <1>10, <1>11

(* A read ends early: its slices and what it read stay, nothing is in       *)
(* flight.                                                                  *)
LEMMA EndStep ==
    ASSUME IndInv, NEW r \in Readers,
           NEW l \in {"failed", "cancelled"}, Goto(r, l),
           \/ running' = [running EXCEPT ![r] = {}]
           \/ running' = running /\ pc[r] # "read",
           finished' = finished \/ finished' = [finished EXCEPT ![r] = {}],
           UNCHANGED <<request, view, toLoad, toCollect, slices, read>>
    PROVE  IndInv'
<1>1. pc'[r] = l
  BY DEF Goto, IndInv, TypeInv
<1>2. running'[r] = {}
  BY DEF IndInv, TypeInv, ReaderInv, ReadInv
<1>3. TypeInv'
  BY DEF Goto, IndInv, TypeInv, Labels, GroupsIn
<1>4. \A s \in Readers \ {r} : UNCHANGED Own(s)
  BY DEF Own, Goto, IndInv, TypeInv
<1>5. SliceInv(r)'
  BY <1>1 DEF IndInv, ReaderInv, SliceInv, Asked, Visible, Loading
<1>6. ReadInv(r)'
  BY <1>1, <1>2 DEF IndInv, ReaderInv, ReadInv, Loading
<1>7. NeedsInv(r)'
  BY <1>1 DEF NeedsInv
<1> QED BY <1>3, <1>4, <1>5, <1>6, <1>7, ViewSame, OneMoves DEF ReaderInv

(* The first slice to fail ends the read. *)
LEMMA SliceFailsStep ==
    ASSUME IndInv, NEW r \in Readers, SliceFails(r)
    PROVE  IndInv'
BY EndStep DEF SliceFails, table

(* An error while listing ends the read. *)
LEMMA ListingFailsStep ==
    ASSUME IndInv, NEW r \in Readers, ListingFails(r)
    PROVE  IndInv'
BY EndStep DEF ListingFails, table

(* A dropped read keeps nothing in flight. *)
LEMMA CancelStep ==
    ASSUME IndInv, NEW r \in Readers, Cancel(r)
    PROVE  IndInv'
BY EndStep DEF Cancel, table

(* A read that has read all its slices ends with all of them. *)
LEMMA DoneStep ==
    ASSUME IndInv, NEW r \in Readers, ReadEnds(r) \/ StreamEnds(r)
    PROVE  IndInv'
<1>1. /\ pc[r] \in {"read", "stream"} /\ Rest(r) = << >>
      /\ pc' = [pc EXCEPT ![r] = "done"]
      /\ UNCHANGED <<request, view, toLoad, toCollect, slices, read, running,
                     finished>>
  BY DEF ReadEnds, StreamEnds, Goto, table
<1>2. running[r] = {}
  BY DEF ReadEnds, StreamEnds, IndInv, ReaderInv, ReadInv
<1>3. pc'[r] = "done"
  BY <1>1 DEF IndInv, TypeInv
<1>4. TypeInv'
  BY <1>1 DEF IndInv, TypeInv, Labels, GroupsIn
<1>5. \A s \in Readers \ {r} : UNCHANGED Own(s)
  BY <1>1 DEF Own, IndInv, TypeInv
<1>6. read[r] = slices[r]
  <2>1. /\ Len(read[r]) <= Len(slices[r])
        /\ \A k \in 1 .. Len(read[r]) : read[r][k] = slices[r][k]
        /\ read[r] \in Seq(Groups) /\ slices[r] \in Seq(Groups)
    BY DEF IndInv, ReaderInv, ReadInv, TypeInv
  <2>2. Len(read[r]) = Len(slices[r])
    BY <1>1, <2>1, RestProps DEF IndInv
  <2> QED BY <2>1, <2>2
<1>7. ReadInv(r)'
  BY <1>1, <1>2, <1>3, <1>6 DEF IndInv, ReaderInv, ReadInv, Loading
<1> QED BY <1>1, <1>3, <1>4, <1>5, <1>7, NeedsStay, ViewSame, OneMoves
        DEF ReaderInv

(* A stream hands out the slice that comes next. *)
LEMMA StreamNextStep ==
    ASSUME IndInv, NEW r \in Readers, StreamNext(r)
    PROVE  IndInv'
<1>1. /\ pc[r] = "stream" /\ Rest(r) # << >>
      /\ read' = [read EXCEPT ![r] = Append(read[r], Head(Rest(r)))]
      /\ UNCHANGED <<pc, request, view, toLoad, toCollect, slices, running>>
  BY DEF StreamNext, table
<1>2. /\ Len(read[r]) <= Len(slices[r]) /\ running[r] = {}
      /\ \A k \in 1 .. Len(read[r]) : read[r][k] = slices[r][k]
      /\ read[r] \in Seq(Groups)
  BY <1>1 DEF IndInv, ReaderInv, ReadInv, TypeInv
<1>3. /\ Len(read[r]) \in Nat /\ Len(slices[r]) \in Nat
      /\ Rest(r) \in Seq(Groups) /\ Len(read[r]) < Len(slices[r])
      /\ Head(Rest(r)) = slices[r][Len(read[r]) + 1]
      /\ Head(Rest(r)) \in Groups
  BY <1>1, <1>2, RestProps DEF IndInv
<1> DEFINE h == Head(Rest(r))
<1> HIDE DEF h
<1>4. read'[r] = Append(read[r], h)
  BY <1>1 DEF IndInv, TypeInv, h
<1>5. TypeInv'
  <2>1. read' \in [Readers -> Seq(Groups)]
    BY <1>1, <1>2, <1>3 DEF IndInv, TypeInv
  <2>2. finished' \in [Readers -> SUBSET Groups]
    BY <1>3 DEF StreamNext, IndInv, TypeInv
  <2> QED BY <1>1, <2>1, <2>2 DEF IndInv, TypeInv, GroupsIn
<1>6. \A s \in Readers \ {r} : UNCHANGED Own(s)
  BY <1>1 DEF Own, IndInv, TypeInv
<1>7. /\ Len(read'[r]) = Len(read[r]) + 1
      /\ \A k \in 1 .. Len(read'[r]) : read'[r][k] = slices[r][k]
  BY <1>2, <1>3, <1>4 DEF h
<1>8. ReadInv(r)'
  BY <1>1, <1>2, <1>3, <1>7 DEF ReadInv, Loading
<1> QED BY <1>1, <1>5, <1>6, <1>8, NeedsStay, ViewSame, OneMoves
        DEF ReaderInv

-----------------------------------------------------------------------------
(* The invariant. *)

(* It holds at first: no read has anything. *)
LEMMA InvInit == Init => IndInv
<1> SUFFICES ASSUME Init PROVE IndInv
  OBVIOUS
<1>1. TypeInv
  BY DEF Init, TypeInv, Labels, GroupsIn
<1>2. ASSUME NEW r \in Readers PROVE ReaderInv(r)
  <2>1. /\ pc[r] = "metadata" /\ toLoad[r] = {} /\ toCollect[r] = {}
        /\ slices[r] = << >> /\ read[r] = << >> /\ running[r] = {}
    BY <1>2 DEF Init
  <2>2. ToSet(<< >>) = {} /\ IsInjective(<< >>)
    BY DEF ToSet, IsInjective
  <2>3. SliceInv(r)
    BY <2>1, <2>2 DEF SliceInv
  <2>4. ReadInv(r)
    BY <2>1 DEF ReadInv
  <2>5. NeedsInv(r)
    BY <2>1 DEF NeedsInv
  <2> QED BY <2>3, <2>4, <2>5 DEF ReaderInv
<1> QED BY <1>1, <1>2 DEF IndInv

(* Every step keeps it. *)
LEMMA InvStep == IndInv /\ [Next]_vars => IndInv'
<1> SUFFICES ASSUME IndInv, [Next]_vars PROVE IndInv'
  OBVIOUS
<1>1. ASSUME NEW r \in Readers, Step(r) PROVE IndInv'
  BY <1>1, CellSteps, ListStep, LoadPartitionStep, StartCollectingStep,
     CollectPartitionStep, StartReadingStep, StartChunkStep, SliceDoneStep,
     DoneStep, StreamNextStep DEF Step
<1>2. ASSUME NEW r \in Readers, Trouble(r) PROVE IndInv'
  BY <1>2, CellSteps, SliceFailsStep, ListingFailsStep, CancelStep
     DEF Trouble
<1>3. CASE UNCHANGED vars
  <2>1. TypeInv' /\ request' = request /\ view' = view
    BY <1>3 DEF vars, IndInv, TypeInv
  <2>2. \A s \in Readers : UNCHANGED Own(s)
    BY <1>3 DEF vars, Own
  <2> QED BY <2>1, <2>2, ViewSame, OwnKept DEF IndInv
<1> QED BY <1>1, <1>2, <1>3 DEF Next, AllEnded

(* So it holds in every reachable state. *)
LEMMA InvAlways == Spec => []IndInv
BY InvInit, InvStep, PTL DEF Spec

-----------------------------------------------------------------------------
(* What it says of the slices, the result and the budget. *)

(* What an undisturbed read was asked for is what it collected. *)
LEMMA InvSlices == IndInv => SlicesAsAsked
<1> SUFFICES ASSUME IndInv, NEW r \in Readers, Undisturbed(r),
                    pc[r] \in {"read", "stream", "done"}
             PROVE  /\ ToSet(slices[r]) \subseteq Asked(r)
                    /\ Needed(r) \subseteq ToSet(slices[r])
  BY DEF SlicesAsAsked, Complete
<1>1. ToSet(slices[r]) \subseteq Asked(r)
  BY DEF IndInv, ReaderInv, SliceInv
<1>2. \A p \in request[r].parts : Needs(r, p) \subseteq ToSet(slices[r])
  BY DEF IndInv, ReaderInv, NeedsInv
<1>3. ASSUME NEW g \in Needed(r)
      PROVE  g \in ToSet(slices[r])
  <2>1. /\ g \in Visible(r) /\ PartitionOf[g] \in request[r].parts
        /\ request[r].baseOnly => g \in request[r].matching
    BY <1>3 DEF Needed, Asked
  <2>2. g \in Groups
    BY <2>1, RequestProps DEF IndInv
  <2>3. g \in Needs(r, PartitionOf[g])
    BY <2>1, <2>2 DEF Needs, GroupsIn
  <2> QED BY <1>2, <2>1, <2>3
<1> QED BY <1>1, <1>3

(* A sequence that agrees with another where it is defined is a prefix. *)
LEMMA PrefixProps ==
    ASSUME NEW S, NEW s \in Seq(S), NEW t \in Seq(S), Len(s) <= Len(t),
           \A k \in 1 .. Len(s) : s[k] = t[k]
    PROVE  IsPrefix(s, t)
<1>1. Len(s) \in Nat /\ Len(t) \in Nat
  OBVIOUS
<1>2. /\ SubSeq(s, 1, Len(s)) = [k \in 1 .. Len(s) |-> s[k]]
      /\ SubSeq(t, 1, Len(s)) = [k \in 1 .. Len(s) |-> t[k]]
  BY <1>1
<1> QED BY <1>1, <1>2 DEF IsPrefix

(* A read that is done has read what it collected. *)
LEMMA InvAllOrNothing == IndInv => AllOrNothing
<1> SUFFICES ASSUME IndInv, NEW r \in Readers
             PROVE  /\ IsPrefix(read[r], slices[r])
                    /\ Cardinality(ToSet(slices[r])) = Len(slices[r])
                    /\ pc[r] = "done" => read[r] = slices[r]
                    /\ pc[r] = "done" /\ ~request[r].stream /\ Undisturbed(r)
                         => Needed(r) \subseteq ToSet(read[r])
                    /\ pc[r] \in Ended => running[r] = {}
  BY DEF AllOrNothing
<1>1. slices[r] \in Seq(Groups) /\ read[r] \in Seq(Groups)
  BY DEF IndInv, TypeInv
<1>2. /\ Len(read[r]) <= Len(slices[r])
      /\ \A k \in 1 .. Len(read[r]) : read[r][k] = slices[r][k]
      /\ pc[r] = "done" => read[r] = slices[r]
      /\ pc[r] # "read" => running[r] = {}
  BY DEF IndInv, ReaderInv, ReadInv
<1>3. IsPrefix(read[r], slices[r])
  BY <1>1, <1>2, PrefixProps
<1>4. Cardinality(ToSet(slices[r])) = Len(slices[r])
  <2>1. IsInjective(slices[r])
    BY DEF IndInv, ReaderInv, SliceInv
  <2> QED BY <1>1, <2>1, ElementsCount
<1>5. ASSUME pc[r] = "done", Undisturbed(r)
      PROVE  Needed(r) \subseteq ToSet(read[r])
  <2>1. Needed(r) \subseteq ToSet(slices[r])
    BY <1>5, InvSlices DEF SlicesAsAsked, Complete
  <2> QED BY <1>2, <1>5, <2>1
<1>6. pc[r] \in Ended => running[r] = {}
  BY <1>2 DEF Ended
<1> QED BY <1>2, <1>3, <1>4, <1>5, <1>6

(* The estimates of a set of slices, as a sum over a function. *)
LEMMA EstimateSum ==
    ASSUME TypeInv, NEW r \in Readers, NEW S \in SUBSET Groups
    PROVE  MapThenSumSet(LAMBDA g : EstimatedBytes(r, g), S)
             = SumOver([g \in Groups |-> EstimatedBytes(r, g)], S)
<1> DEFINE f == [g \in Groups |-> EstimatedBytes(r, g)]
           total == CHOOSE k : k = [s \in SUBSET S |->
                      IF s = {} THEN 0
                      ELSE EstimatedBytes(r, Pick(s)) + k[s \ {Pick(s)}]]
<1>1. MapThenSumSet(LAMBDA g : EstimatedBytes(r, g), S) = total[S]
  BY DEF MapThenSumSet, MapThenFoldSet, Pick
<1>2. IsFiniteSet(Groups) /\ f \in [Groups -> Nat]
  BY TableReadAssumption, EstimateType
<1>3. \A s \in SUBSET S : s # {} => f[Pick(s)] = EstimatedBytes(r, Pick(s))
  BY PickIn
<1> HIDE DEF f
<1>4. PICK h \in [SUBSET Groups -> Nat] : IsSum(f, Groups, h)
  BY <1>2, SumExists
<1> DEFINE hS == [s \in SUBSET S |-> h[s]]
<1>5. \A s \in SUBSET Groups :
        h[s] = IF s = {} THEN 0 ELSE f[Pick(s)] + h[s \ {Pick(s)}]
  BY <1>4 DEF IsSum
<1>6. \A s \in SUBSET S :
        hS[s] = IF s = {} THEN 0
                ELSE EstimatedBytes(r, Pick(s)) + hS[s \ {Pick(s)}]
  <2>1. \A s \in SUBSET S : s \in SUBSET Groups /\ s \ {Pick(s)} \in SUBSET S
    OBVIOUS
  <2> QED BY <1>3, <1>5, <2>1
<1>7. hS = [s \in SUBSET S |-> hS[s]]
  OBVIOUS
<1> HIDE DEF hS
<1>8. hS = [s \in SUBSET S |->
              IF s = {} THEN 0
              ELSE EstimatedBytes(r, Pick(s)) + hS[s \ {Pick(s)}]]
  BY <1>6, <1>7
<1>9. total = [s \in SUBSET S |->
                IF s = {} THEN 0
                ELSE EstimatedBytes(r, Pick(s)) + total[s \ {Pick(s)}]]
  BY <1>8
<1> HIDE DEF total
<1>10. IsSum(f, S, total)
  BY <1>3, <1>9 DEF IsSum
<1>11. SumOver(f, S) = h[S] /\ total[S] = h[S]
  BY <1>2, <1>4, <1>10, SumIs, SumAgree
<1> QED BY <1>1, <1>11 DEF f

(* What is in flight is of one chunk, and a chunk fits. *)
LEMMA InvBudget == IndInv => WithinBudget
<1> SUFFICES ASSUME IndInv, NEW r \in Readers
             PROVE  /\ Cardinality(running[r]) <= AtLeastOne(Ceiling)
                    /\ HasBudget /\ Cardinality(running[r]) > 1 =>
                         /\ running[r] \cap Unsized(r) = {}
                         /\ MapThenSumSet(LAMBDA g : EstimatedBytes(r, g),
                                          running[r]) <= Budget
  BY DEF WithinBudget
<1> DEFINE S == running[r]
           n == SlicesInFlight(r)
<1>1. /\ TypeInv /\ S \in SUBSET Groups /\ Len(read[r]) <= Len(slices[r])
      /\ slices[r] \in Seq(Groups)
      /\ S # {} => Rest(r) # << >> /\ S \subseteq ToSet(Chunk(r))
  BY DEF IndInv, TypeInv, ReaderInv, ReadInv
<1>2. CASE S = {}
  <2>1. Cardinality(S) = 0
    BY <1>2, FS_EmptySet
  <2>2. Ceiling \in Nat
    BY TableReadAssumption
  <2> HIDE DEF S
  <2> QED BY <2>1, <2>2 DEF AtLeastOne, S
<1>3. CASE S # {}
  <2>1. /\ Chunk(r) \in Seq(Groups) /\ Len(Chunk(r)) <= n
        /\ Len(read[r]) + Len(Chunk(r)) <= Len(slices[r])
        /\ \A k \in 1 .. Len(Chunk(r)) :
             Chunk(r)[k] = slices[r][Len(read[r]) + k]
    BY <1>1, <1>3, ChunkProps
  <2>2. /\ slices[r] # << >> /\ Len(read[r]) \in Nat
        /\ Len(slices[r]) \in Nat
    BY <1>1, <1>3, RestProps
  <2>3. /\ n \in Nat \ {0} /\ n <= AtLeastOne(Ceiling)
        /\ HasBudget /\ n > 1 =>
             /\ ToSet(slices[r]) \cap Unsized(r) = {}
             /\ n * PerSlice(r) <= Budget
    BY <1>1, <2>2, InFlightProps
  <2>4. /\ IsFiniteSet(S) /\ Cardinality(S) \in Nat /\ Cardinality(S) <= n
    <3>1. /\ IsFiniteSet(ToSet(Chunk(r)))
          /\ Cardinality(ToSet(Chunk(r))) \in Nat
          /\ Cardinality(ToSet(Chunk(r))) <= Len(Chunk(r))
      BY <2>1, ElementsCount
    <3>2. IsFiniteSet(S) /\ Cardinality(S) <= Cardinality(ToSet(Chunk(r)))
      BY <1>1, <1>3, <3>1, FS_Subset
    <3>3. Cardinality(S) \in Nat
      BY <3>2, FS_CardinalityType
    <3>4. Len(Chunk(r)) \in Nat
      BY <2>1
    <3> QED BY <2>1, <2>3, <3>1, <3>2, <3>3, <3>4
  <2>5. S \subseteq ToSet(slices[r])
    <3>1. ASSUME NEW x \in ToSet(Chunk(r)) PROVE x \in ToSet(slices[r])
      <4>1. PICK k \in 1 .. Len(Chunk(r)) : x = Chunk(r)[k]
        BY <2>1, <3>1 DEF ToSet
      <4>2. Len(read[r]) + k \in DOMAIN slices[r]
        BY <1>1, <2>1, <2>2
      <4> QED BY <2>1, <4>1, <4>2 DEF ToSet
    <3> QED BY <1>1, <1>3, <3>1
  <2>6. ASSUME HasBudget, Cardinality(S) > 1
        PROVE  /\ S \cap Unsized(r) = {}
               /\ MapThenSumSet(LAMBDA g : EstimatedBytes(r, g), S) <= Budget
    <3> DEFINE f == [g \in Groups |-> EstimatedBytes(r, g)]
               P == PerSlice(r)
    <3>1. n > 1
      BY <2>3, <2>4, <2>6
    <3>2. S \cap Unsized(r) = {} /\ n * P <= Budget
      BY <2>3, <2>5, <2>6, <3>1
    <3>3. P \in Nat /\ \A g \in ToSet(slices[r]) : EstimatedBytes(r, g) <= P
      BY <1>1, <2>2, PerSliceProps
    <3>4. f \in [Groups -> Nat] /\ IsFiniteSet(Groups)
      BY <1>1, EstimateType, TableReadAssumption
    <3>5. \A g \in S : f[g] <= P
      BY <1>1, <2>5, <3>3
    <3>6. MapThenSumSet(LAMBDA g : EstimatedBytes(r, g), S) = SumOver(f, S)
      BY <1>1, EstimateSum
    <3> HIDE DEF f, P, n, S
    <3>7. SumOver(f, S) <= Cardinality(S) * P /\ SumOver(f, S) \in Nat
      BY <1>1, <3>3, <3>4, <3>5, SumBound, SumProps
    <3>8. Cardinality(S) * P <= n * P
      BY <2>3, <2>4, <3>3, TimesMonotone
    <3>9. Cardinality(S) * P \in Nat /\ n * P \in Nat /\ Budget \in Nat
      BY <2>3, <2>4, <3>3, TableReadAssumption
    <3>10. SumOver(f, S) <= Budget
      BY <3>2, <3>7, <3>8, <3>9
    <3> QED BY <3>2, <3>6, <3>10
  <2>7. AtLeastOne(Ceiling) \in Nat
    BY TableReadAssumption DEF AtLeastOne
  <2>8. Cardinality(S) <= AtLeastOne(Ceiling)
    BY <2>3, <2>4, <2>7
  <2> QED BY <2>6, <2>8
<1> QED BY <1>2, <1>3

-----------------------------------------------------------------------------
(* Whatever other reads load into the view they share, at whatever time, a  *)
(* read from which they prune nothing it needs, groups they see as replaced *)
(* included, collects all it needs and only what it was asked for           *)
(* (FileSystemView::load_file_groups, collect_file_slices).                 *)
THEOREM SlicesTheorem == Spec => []SlicesAsAsked
BY InvAlways, InvSlices, PTL

(* A read returns every slice it collected, in order, and undisturbed every *)
(* one it needs, or fails, and leaves nothing in flight                     *)
(* (Table::read_snapshot's chunks of try_join_all).                         *)
THEOREM AllOrNothingTheorem == Spec => []AllOrNothing
BY InvAlways, InvAllOrNothing, PTL

(* For every budget, ceiling and set of log sizes the slices in flight fit  *)
(* the budget by their own estimates (slices_in_flight).                    *)
THEOREM BudgetTheorem == Spec => []WithinBudget
BY InvAlways, InvBudget, PTL
=============================================================================

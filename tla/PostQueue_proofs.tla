--------------------------- MODULE PostQueue_proofs ---------------------------
(***************************************************************************)
(* Proofs about PostQueue.                                                 *)
(***************************************************************************)
EXTENDS PostQueue, FiniteSetTheorems, TLAPS

(***************************************************************************)
(* Least and greatest                                                      *)
(***************************************************************************)
(* The library's induction theorems take an operator; a smallest            *)
(* counterexample does the same for a set of numbers                        *)
LEMMA SmallestSet ==
  ASSUME NEW S, NEW T \in SUBSET FiniteSubsetsOf(S), T # {}
  PROVE  \E x \in T : \A y \in T : y \subseteq x => y = x
<1>1. PICK R : R = StrictSubsetOrdering(S)
  OBVIOUS
<1>2. IsWellFoundedOn(R, FiniteSubsetsOf(S))
  BY <1>1, FS_StrictSubsetOrderingWellFounded
<1>3. PICK x \in T : \A y \in T : ~(<<y, x>> \in R)
  BY <1>2, WFMin
<1>4. ASSUME NEW y \in T, y \subseteq x PROVE y = x
  <2>1. y \in SUBSET S /\ x \in SUBSET S
    BY DEF FiniteSubsetsOf
  <2>2. y # x => <<y, x>> \in R
    BY <1>1, <1>4, <2>1 DEF StrictSubsetOrdering
  <2> QED BY <1>3, <2>2
<1> QED BY <1>4

LEMMA LeastNatural ==
  ASSUME NEW T \in SUBSET Nat, T # {}
  PROVE  \E n \in T : \A m \in T : n <= m
<1>1. PICK U : U = {0..n : n \in T}
  OBVIOUS
<1>2. U \subseteq FiniteSubsetsOf(Nat) /\ U # {}
  <2>1. ASSUME NEW n \in Nat PROVE 0..n \in FiniteSubsetsOf(Nat)
    <3>1. IsFiniteSet(0..n)
      BY FS_Interval
    <3> QED BY <3>1 DEF FiniteSubsetsOf
  <2> QED BY <1>1, <2>1
<1>3. PICK x \in U : \A y \in U : y \subseteq x => y = x
  BY <1>2, SmallestSet
<1>4. PICK n \in T : x = 0..n
  BY <1>1
<1>5. ASSUME NEW m \in T, m < n PROVE FALSE
  <2>1. 0..m \in U /\ 0..m \subseteq x
    BY <1>1, <1>4, <1>5
  <2>2. 0..m = 0..n
    BY <1>3, <1>4, <2>1
  <2>3. n \in 0..n
    OBVIOUS
  <2>4. n \in 0..m
    BY <2>2, <2>3
  <2> QED BY <1>5, <2>4
<1> QED BY <1>5

LEMMA MinIs ==
  ASSUME NEW S \in SUBSET Int, S # {}, NEW low \in Int, \A t \in S : low <= t
  PROVE  Min(S) \in S /\ \A t \in S : Min(S) <= t
<1>1. PICK T : T = {n \in Nat : low + n \in S}
  OBVIOUS
<1>2. T # {}
  <2>1. PICK t \in S : TRUE
    OBVIOUS
  <2>2. t - low \in Nat /\ low + (t - low) = t
    BY <2>1
  <2> QED BY <1>1, <2>2
<1>3. PICK n \in T : \A m \in T : n <= m
  BY <1>1, <1>2, LeastNatural
<1>4. ASSUME NEW t \in S PROVE low + n <= t
  <2>1. t - low \in Nat /\ low + (t - low) = t
    OBVIOUS
  <2> QED BY <1>1, <1>3, <2>1
<1>5. low + n \in S
  BY <1>1, <1>3
<1> QED BY <1>4, <1>5 DEF Min

LEMMA MaxIs ==
  ASSUME NEW S \in SUBSET Int, IsFiniteSet(S), S # {}
  PROVE  Max(S) \in S /\ \A t \in S : t <= Max(S)
<1> DEFINE Top(x, T) == x \in T /\ \A t \in T : t <= x
<1>1. PICK W : W = {T \in FiniteSubsetsOf(Int) : T # {} /\ \A x \in T : ~Top(x, T)}
  OBVIOUS
<1>2. W = {}
  <2>1. SUFFICES ASSUME W # {} PROVE FALSE
    OBVIOUS
  <2>2. W \in SUBSET FiniteSubsetsOf(Int)
    BY <1>1
  <2>3. PICK T \in W : \A U \in W : U \subseteq T => U = T
    BY <2>1, <2>2, SmallestSet
  <2>4. PICK x \in T : TRUE
    BY <1>1
  <2>5. T \in SUBSET Int /\ IsFiniteSet(T)
    BY <1>1 DEF FiniteSubsetsOf
  <2>6. T \ {x} \in FiniteSubsetsOf(Int)
    BY <2>5, FS_RemoveElement DEF FiniteSubsetsOf
  <2>7. T \ {x} \notin W
    BY <2>3, <2>4
  <2>8. CASE T \ {x} = {}
    <3>1. Top(x, T)
      BY <2>4, <2>5, <2>8
    <3> QED BY <1>1, <2>4, <3>1
  <2>9. CASE T \ {x} # {}
    <3>1. PICK y \in T \ {x} : Top(y, T \ {x})
      BY <1>1, <2>6, <2>7, <2>9
    <3>2. Top(x, T) \/ Top(y, T)
      BY <2>4, <2>5, <3>1
    <3> QED BY <1>1, <2>4, <3>1, <3>2
  <2> QED BY <2>8, <2>9
<1>3. S \in FiniteSubsetsOf(Int)
  BY DEF FiniteSubsetsOf
<1>4. PICK x \in S : Top(x, S)
  BY <1>1, <1>2, <1>3
<1>5. x \in Int /\ \A t \in S : x >= t
  BY <1>4
<1> QED BY <1>5 DEF Max

LEMMA MaxOfTwo ==
  ASSUME NEW i \in Int, NEW j \in Int
  PROVE  Max({i, j}) \in {i, j} /\ Max({i, j}) >= i /\ Max({i, j}) >= j
<1>1. PICK x \in {i, j} : \A t \in {i, j} : x >= t
  OBVIOUS
<1> QED BY <1>1 DEF Max

LEMMA Image ==
  ASSUME NEW S, IsFiniteSet(S), NEW f
  PROVE  IsFiniteSet({f[x] : x \in S})
<1>1. PICK g : g = [x \in S |-> f[x]]
  OBVIOUS
<1>2. g \in Surjection(S, {f[x] : x \in S})
  BY <1>1 DEF Surjection
<1> QED BY <1>2, FS_Surjection

(***************************************************************************)
(* What is assumed of the constants                                        *)
(***************************************************************************)
LEMMA Constants ==
  /\ IsFiniteSet(Accounts) /\ DOMAIN NetworkOf = Accounts
  /\ GapOf \in [Accounts -> Nat \ {0}]
  /\ Drip \in Nat /\ RepostGap \in Nat /\ Day \in Nat /\ Horizon \in Nat
  /\ MaxEntries \in Nat /\ MaxLag \in Nat /\ MaxOdd \in Nat
  /\ MaxPerDay \in Nat \ {0} /\ Lead \in Nat /\ Old \in Nat
  /\ IsFiniteSet(Places)
<1>1. /\ Drip \in Nat /\ RepostGap \in Nat /\ Day \in Nat /\ Horizon \in Nat
      /\ MaxEntries \in Nat /\ MaxLag \in Nat /\ MaxOdd \in Nat
      /\ MaxPerDay \in Nat \ {0}
  BY WindowsAssumption
<1>2. GapOf \in [Accounts -> Nat \ {0}]
  BY <1>1, AccountsAssumption
<1>3. IsFiniteSet(Places)
  BY <1>1, FS_Interval DEF Places
<1> QED BY <1>1, <1>2, <1>3, AccountsAssumption, UsesAssumption DEF Old

(***************************************************************************)
(* The inductive invariant                                                 *)
(***************************************************************************)
Status == {"none", "pending", "sending", "done"}
Words == Texts \cup {NoText}
EntryType ==
  [at : Int, targets : SUBSET Accounts, text : Words, force : BOOLEAN,
   status : Status, carried : SUBSET Accounts]
Mark == [at : -Old..0, account : Accounts, ok : BOOLEAN, text : Words]
WorkType(laters) ==
  [due : SUBSET [place : Places, entry : EntryType], clock : -MaxLag..0,
   place : Places \cup {0}, to : SUBSET Accounts, text : Words, force : BOOLEAN,
   later : laters, alone : BOOLEAN]

(* Marks: of what was recorded; Entries: of the queue *)
MarksOK(marks) ==
  /\ DOMAIN marks \subseteq Mark /\ IsFiniteSet(DOMAIN marks)
  /\ \A h \in DOMAIN marks : marks[h] \in Nat \ {0}

EntriesOK(q) ==
  /\ q \in [Places -> EntryType]
  /\ \A i \in Places :
       /\ q[i].status \in {"pending", "sending"} => q[i].targets # {}
       /\ q[i].status \in {"none", "pending"} => q[i].carried = {}

(* An entry is due once *)
DueOK(due) == \A d, o \in due : d.place = o.place => d = o

LaterOK(later) ==
  DOMAIN later \subseteq Accounts /\ \A a \in DOMAIN later : later[a] \in Int

WorkOK(w) == w \in WorkType({w.later}) /\ LaterOK(w.later) /\ DueOK(w.due)

Types ==
  /\ EntriesOK(queue) /\ MarksOK(history) /\ archived \subseteq Accounts
  /\ pc \in [Procs -> {"idle", "walk", "send", "finish"}]
  /\ DOMAIN work = Procs /\ \A p \in Procs : WorkOK(work[p])
  /\ uses \in Uses /\ odd \in 0..MaxOdd

(* The posts that Landed counts, each as often as it is in the bag *)
Posts(marks, a, from, to) ==
  UNION {{h} \X (1..marks[h]) :
    h \in {x \in DOMAIN marks : x.account = a /\ x.ok /\ x.at \in from..to}}

(* What a send finds until its calls are made.  Its text is not repeated;    *)
(* and, unless it is forced, its moment is free on the network and under    *)
(* the cap.                                                                 *)
TextHeld(marks, w) ==
  \A a \in w.to : \A h \in DOMAIN marks :
    ~(h.account = a /\ h.ok /\ h.text = w.text /\ w.clock - h.at < RepostGap)

SlotHeld(marks, w) ==
  \A a \in w.to :
    /\ \A h \in DOMAIN marks : NetworkOf[h.account] = NetworkOf[a]
         => w.clock >= h.at + GapOf[a]
    /\ \A b \in w.to \ {a} : NetworkOf[b] # NetworkOf[a]
    /\ Cardinality(Posts(marks, a, w.clock - Day + 1, 0)) < MaxPerDay

(* A process that is alone with the vault: nothing is dated after the moment *)
(* it acts at, no entry it has still to do was handed to anybody, and what   *)
(* it decided still holds when it calls                                      *)
KnowsAll(w, sends, marks, q) ==
  /\ \A h \in DOMAIN marks : h.at <= w.clock
  /\ \A d \in w.due : q[d.place].carried = {}
  /\ sends => TextHeld(marks, w) /\ (w.force \/ SlotHeld(marks, w))

AloneOK(p, where, works, marks, q) ==
  where[p] # "idle" /\ works[p].alone =>
    /\ \A o \in Procs \ {p} : where[o] = "idle"
    /\ KnowsAll(works[p], where[p] = "send", marks, q)

AllAlone == \A p \in Procs : AloneOK(p, pc, work, history, queue)

PostInv == Types /\ AllAlone

(***************************************************************************)
(* The plan                                                                *)
(***************************************************************************)
LEMMA BookingsOK ==
  ASSUME EntriesOK(queue), MarksOK(history), NEW others \in SUBSET Places, NEW n
  PROVE  IsFiniteSet(bookingsPerNetwork(others, n)) /\ bookingsPerNetwork(others, n) \subseteq Int
<1>1. PICK X : X = {x \in DOMAIN history : NetworkOf[x.account] = n}
  OBVIOUS
<1>2. PICK Y : Y = {j \in others : Booked(j) /\ On(n, j)}
  OBVIOUS
<1>3. IsFiniteSet(X) /\ IsFiniteSet(Y)
  BY <1>1, <1>2, Constants, FS_Subset DEF MarksOK
<1>4. PICK f : f = [x \in X |-> x.at]
  OBVIOUS
<1>5. PICK g : g = [j \in Y |-> queue[j].at]
  OBVIOUS
<1>6. bookingsPerNetwork(others, n) = {f[x] : x \in X} \cup {g[j] : j \in Y}
  BY <1>1, <1>2, <1>4, <1>5 DEF bookingsPerNetwork
<1>7. IsFiniteSet({f[x] : x \in X}) /\ IsFiniteSet({g[j] : j \in Y})
  BY <1>3, Image
<1>8. \A x \in X : x.at \in Int
  BY <1>1 DEF MarksOK, Mark
<1>9. \A j \in Y : queue[j].at \in Int
  BY <1>2 DEF EntriesOK, EntryType
<1>10. {f[x] : x \in X} \subseteq Int /\ {g[j] : j \in Y} \subseteq Int
  BY <1>4, <1>5, <1>8, <1>9
<1> QED BY <1>6, <1>7, <1>10, FS_Union

LEMMA PostsAreFinite ==
  ASSUME NEW marks, MarksOK(marks), NEW a, NEW from, NEW to
  PROVE  IsFiniteSet(Posts(marks, a, from, to))
<1>1. PICK X : X = {x \in DOMAIN marks : x.account = a /\ x.ok /\ x.at \in from..to}
  OBVIOUS
<1>2. IsFiniteSet(X)
  BY <1>1, FS_Subset DEF MarksOK
<1>3. PICK f : f = [h \in X |-> {h} \X (1..marks[h])]
  OBVIOUS
<1>4. IsFiniteSet({f[h] : h \in X})
  BY <1>2, Image
<1>5. ASSUME NEW h \in X PROVE IsFiniteSet({h} \X (1..marks[h]))
  <2>1. PICK n \in Nat : n = marks[h]
    BY <1>1 DEF MarksOK
  <2>2. IsFiniteSet({h})
    BY FS_Singleton
  <2>3. 1 \in Int /\ n \in Int
    BY <2>1
  <2>4. IsFiniteSet(1..n)
    BY <2>3, FS_Interval
  <2>5. IsFiniteSet({h} \X (1..n))
    BY <2>2, <2>4, FS_Product
  <2> QED BY <2>1, <2>5
<1>6. PICK U : U = {f[h] : h \in X}
  OBVIOUS
<1>7. \A T \in U : IsFiniteSet(T)
  BY <1>3, <1>5, <1>6
<1>8. IsFiniteSet(UNION U)
  BY <1>4, <1>6, <1>7, FS_UNION
<1>9. Posts(marks, a, from, to) = UNION U
  BY <1>1, <1>3, <1>6 DEF Posts
<1> QED BY <1>8, <1>9

LEMMA LandedIs ==
  ASSUME MarksOK(history), NEW a, NEW from, NEW to
  PROVE  Landed(a, from, to) = Cardinality(Posts(history, a, from, to))
           /\ Landed(a, from, to) \in Nat
<1>1. PICK P : P = Posts(history, a, from, to)
  OBVIOUS
<1>2. IsFiniteSet(P)
  BY <1>1, PostsAreFinite
<1>3. Landed(a, from, to) = Cardinality(P)
  BY <1>1, Zenon DEF Landed, Posts
<1>4. Cardinality(P) \in Nat
  BY <1>2, FS_CardinalityType
<1> QED BY <1>1, <1>3, <1>4

LEMMA FirstSlotIs ==
  ASSUME EntriesOK(queue), MarksOK(history), NEW a \in Accounts, NEW turn \in Int,
         NEW times \in SUBSET Int, IsFiniteSet(times), NEW others \in SUBSET Places
  PROVE  /\ firstSlot(a, turn, times, others) \in Int
         /\ firstSlot(a, turn, times, others) >= turn
         /\ Clear(times, GapOf[a], firstSlot(a, turn, times, others))
         /\ UnderCap(others, a, firstSlot(a, turn, times, others))
<1>1. PICK books : books = bookingsPerNetwork(others, NetworkOf[a])
  OBVIOUS
<1>2. IsFiniteSet(books) /\ books \subseteq Int
  BY <1>1, BookingsOK
<1>3. PICK gap \in Nat \ {0} : gap = GapOf[a]
  BY Constants
<1>4. PICK openings : openings = {turn} \cup {b + gap : b \in times} \cup {b + Day : b \in books}
  OBVIOUS
<1>5. openings \subseteq Int
  BY <1>2, <1>4, Constants
<1>6. IsFiniteSet(openings)
  <2>1. PICK f : f = [b \in times |-> b + gap]
    OBVIOUS
  <2>2. PICK g : g = [b \in books |-> b + Day]
    OBVIOUS
  <2>3. IsFiniteSet({f[b] : b \in times}) /\ IsFiniteSet({g[b] : b \in books})
    BY <1>2, Image
  <2>4. {f[b] : b \in times} = {b + gap : b \in times}
          /\ {g[b] : b \in books} = {b + Day : b \in books}
    BY <2>1, <2>2
  <2>5. IsFiniteSet({turn})
    BY FS_Singleton
  <2>6. IsFiniteSet({turn} \cup {b + gap : b \in times})
    BY <2>3, <2>4, <2>5, FS_Union
  <2> QED BY <1>4, <2>3, <2>4, <2>6, FS_Union
<1>7. PICK free : free = {t \in openings : t >= turn /\ Clear(times, GapOf[a], t) /\ UnderCap(others, a, t)}
  OBVIOUS
<1>8. firstSlot(a, turn, times, others) = Min(free)
  BY <1>1, <1>3, <1>4, <1>7 DEF firstSlot
<1>9. PICK last : last = Max(openings)
  OBVIOUS
<1>10. last \in openings /\ \A t \in openings : t <= last
  <2>1. openings # {}
    BY <1>4
  <2> QED BY <1>5, <1>6, <1>9, <2>1, MaxIs
<1>11. last \in Int /\ last >= turn
  BY <1>4, <1>5, <1>10
<1>12. Clear(times, gap, last)
  BY <1>4, <1>10, <1>11 DEF Clear
<1>13. UnderCap(others, a, last)
  <2>1. \A b \in books : b + Day <= last
    BY <1>4, <1>10
  <2>2. {x \in DOMAIN history : x.account = a /\ x.ok /\ x.at \in (last - Day + 1)..last} = {}
    <3>1. ASSUME NEW x \in DOMAIN history, x.account = a, x.at \in (last - Day + 1)..last
          PROVE  FALSE
      <4>1. x.at \in books
        BY <1>1, <3>1 DEF bookingsPerNetwork
      <4> QED BY <1>2, <1>11, <2>1, <3>1, <4>1, Constants
    <3> QED BY <3>1
  <2>3. {i \in others : Booked(i) /\ a \in queue[i].targets
           /\ queue[i].at \in (last - Day + 1)..last} = {}
    <3>1. ASSUME NEW i \in others, Booked(i), a \in queue[i].targets,
                 queue[i].at \in (last - Day + 1)..last
          PROVE  FALSE
      <4>1. queue[i].at \in books
        BY <1>1, <3>1 DEF bookingsPerNetwork, On
      <4> QED BY <1>2, <1>11, <2>1, <3>1, <4>1, Constants
    <3> QED BY <3>1
  <2>4. Posts(history, a, last - Day + 1, last) = {}
    BY <2>2, Zenon DEF Posts
  <2>5. Landed(a, last - Day + 1, last) = 0
    BY <2>4, LandedIs, FS_EmptySet
  <2>6. Cardinality({i \in others : Booked(i) /\ a \in queue[i].targets
           /\ queue[i].at \in (last - Day + 1)..last}) = 0
    BY <2>3, FS_EmptySet
  <2>7. 0 + 0 < MaxPerDay
    BY Constants
  <2> QED BY <2>5, <2>6, <2>7 DEF UnderCap
<1>14. last \in free
  BY <1>3, <1>7, <1>10, <1>11, <1>12, <1>13
<1>15. free \subseteq Int /\ \A t \in free : turn <= t
  BY <1>5, <1>7
<1>16. Min(free) \in free
  BY <1>14, <1>15, MinIs
<1> QED BY <1>5, <1>7, <1>8, <1>16

(* What the slots of a plan are: the plan's slot for the k-th of order       *)
(* depends on those before it, so the recursive function exists             *)
PlanOK(slots, order, others, clock, mode) ==
  /\ DOMAIN slots = Range(order)
  /\ \A a \in DOMAIN slots : slots[a] \in Int /\ slots[a] >= clock
  /\ mode # "now" => \A a \in DOMAIN slots :
       /\ \A h \in DOMAIN history : NetworkOf[h.account] = NetworkOf[a] =>
            ~(h.at - GapOf[a] <= slots[a] /\ slots[a] < h.at + GapOf[a])
       /\ \A b \in DOMAIN slots \ {a} : NetworkOf[b] = NetworkOf[a] => slots[b] # slots[a]
       /\ UnderCap(others, a, slots[a])

LEMMA PlanIs ==
  ASSUME EntriesOK(queue), MarksOK(history), NEW m \in Nat, NEW order \in [1..m -> Accounts],
         NEW others \in SUBSET Places, NEW clock \in -Old..0, NEW from \in Int, NEW mode
  PROVE  PlanOK(planTargets(order, others, clock, from, mode), order, others, clock, mode)
<1> DEFINE seen == IF mode = "front" THEN {i \in others : queue[i].at <= clock} ELSE others
           window == IF mode = "front" THEN Min(Range(GapOf)) ELSE Drip
           step == IF Len(order) > 1 THEN window \div (Len(order) - 1) ELSE 0
           Before(k) == {j \in 1..(k - 1) : NetworkOf[order[j]] = NetworkOf[order[k]]}
           Slot(g, k) ==
             IF mode = "now" THEN Max({from, clock})
             ELSE firstSlot(order[k], Max({clock, from + (k - 1) * step}),
                    bookingsPerNetwork(seen, NetworkOf[order[k]]) \cup {g[j] : j \in Before(k)},
                    others)
           slot == CHOOSE g : g = [k \in 1..Len(order) |-> Slot(g, k)]
<1>1. planTargets(order, others, clock, from, mode)
        = [a \in Range(order) |-> slot[CHOOSE k \in 1..Len(order) : order[k] = a]]
  BY Zenon DEF planTargets
<1>2. Len(order) = m
  OBVIOUS
<1>3. PICK none : none = {n \in Nat : n <= m /\ ~ \E g : g = [k \in 1..n |-> Slot(g, k)]}
  OBVIOUS
<1>4. none = {}
  <2>1. SUFFICES ASSUME none # {} PROVE FALSE
    OBVIOUS
  <2>2. none \in SUBSET Nat
    BY <1>3
  <2>3. PICK n \in none : \A l \in none : n <= l
    BY <2>1, <2>2, LeastNatural
  <2>4. n \in Nat /\ n <= m
    BY <1>3
  <2>5. ~ \E g : g = [k \in 1..n |-> Slot(g, k)]
    BY <1>3
  <2>6. CASE n = 0
    <3>1. PICK g : g = [k \in 1..0 |-> 0]
      OBVIOUS
    <3>2. [k \in 1..0 |-> Slot(g, k)] = g
      BY <3>1
    <3> QED BY <2>5, <2>6, <3>2
  <2>7. CASE n # 0
    <3>1. n - 1 \in Nat /\ n - 1 < n
      BY <2>4, <2>7
    <3>2. n - 1 \notin none
      BY <2>3, <2>4, <3>1
    <3>3. PICK g : g = [k \in 1..(n - 1) |-> Slot(g, k)]
      <4>1. PICK l \in Nat : l = n - 1
        BY <3>1
      <4> HIDE DEF Slot
      <4>2. l <= m /\ l \notin none
        BY <2>4, <3>1, <3>2, <4>1
      <4>3. \E g : g = [k \in 1..l |-> Slot(g, k)]
        BY <1>3, <4>1, <4>2
      <4> QED BY <4>1, <4>3
    <3>4. PICK h : h = [k \in 1..n |-> Slot(g, k)]
      OBVIOUS
    <3>5. ASSUME NEW k \in 1..n PROVE Slot(h, k) = Slot(g, k)
      <4>1. ASSUME NEW j \in Before(k) PROVE h[j] = g[j]
        <5>1. j \in 1..(n - 1) /\ j \in 1..n
          BY <2>4, <3>5, <4>1
        <5>2. g[j] = Slot(g, j)
          BY <3>3, <5>1
        <5> QED BY <3>4, <5>1, <5>2
      <4>2. {h[j] : j \in Before(k)} = {g[j] : j \in Before(k)}
        BY <4>1
      <4> QED BY <4>2
    <3>6. h = [k \in 1..n |-> Slot(h, k)]
      BY <3>4, <3>5
    <3> QED BY <2>5, <3>6
  <2> QED BY <2>6, <2>7
<1>5. slot = [k \in 1..m |-> Slot(slot, k)]
  <2>1. m \notin none /\ m <= m
    BY <1>4
  <2> HIDE DEF Slot
  <2>2. \E g : g = [k \in 1..m |-> Slot(g, k)]
    BY <1>3, <2>1
  <2>3. \E g : g = [k \in 1..Len(order) |-> Slot(g, k)]
    BY <1>2, <2>2
  <2>4. slot = [k \in 1..Len(order) |-> Slot(slot, k)]
    BY <2>3, Zenon
  <2> QED BY <1>2, <2>4
<1> HIDE DEF slot
<1> DEFINE Times(k) == bookingsPerNetwork(seen, NetworkOf[order[k]]) \cup {slot[j] : j \in Before(k)}
<1>6. clock \in Int /\ seen \in SUBSET Places
  BY Constants
<1>7. ASSUME NEW k \in 1..m, m > 0 PROVE step \in Int
  <2>1. k \in 1..m /\ order[k] \in Accounts
    OBVIOUS
  <2>2. window \in Int
    <3>1. CASE mode = "front"
      <4>1. Range(GapOf) \subseteq Int /\ GapOf[order[k]] \in Range(GapOf)
        BY <2>1, Constants DEF Range
      <4>2. \A t \in Range(GapOf) : 0 <= t
        BY Constants DEF Range
      <4>3. Min(Range(GapOf)) \in Range(GapOf)
        BY <4>1, <4>2, MinIs
      <4> QED BY <3>1, <4>1, <4>3
    <3> QED BY <3>1, Constants
  <2>3. PICK w \in Int : w = window
    BY <2>2
  <2>4. m > 1 => m - 1 \in Nat \ {0}
    OBVIOUS
  <2>5. m > 1 => w \div (m - 1) \in Int
    BY <2>4
  <2> HIDE DEF window
  <2> QED BY <1>2, <2>3, <2>5
<1> HIDE DEF step
<1>8. ASSUME NEW k \in 1..m, mode # "now", \A j \in 1..(k - 1) : slot[j] \in Int
      PROVE  /\ slot[k] \in Int /\ slot[k] >= clock
             /\ Clear(Times(k), GapOf[order[k]], slot[k])
             /\ UnderCap(others, order[k], slot[k])
  <2>1. step \in Int
    <3>1. m > 0
      OBVIOUS
    <3> QED BY <1>7, <3>1
  <2>2. PICK s \in Int : s = from + (k - 1) * step
    <3>1. k - 1 \in Int
      OBVIOUS
    <3> QED BY <2>1, <3>1
  <2>3. PICK turn : turn = Max({clock, s})
    OBVIOUS
  <2>4. turn \in Int /\ turn >= clock
    BY <1>6, <2>2, <2>3, MaxOfTwo
  <2>5. PICK times : times = Times(k)
    OBVIOUS
  <2>6. times \in SUBSET Int /\ IsFiniteSet(times)
    <3>1. PICK books : books = bookingsPerNetwork(seen, NetworkOf[order[k]])
      OBVIOUS
    <3>2. IsFiniteSet(books) /\ books \subseteq Int
      BY <1>6, <3>1, BookingsOK
    <3>3. PICK before : before = Before(k)
      OBVIOUS
    <3>4. before \subseteq 1..(k - 1) /\ IsFiniteSet(before)
      <4>1. 1 \in Int /\ k - 1 \in Int
        OBVIOUS
      <4>2. IsFiniteSet(1..(k - 1))
        BY <4>1, FS_Interval
      <4>3. before \subseteq 1..(k - 1)
        BY <3>3
      <4> QED BY <4>2, <4>3, FS_Subset
    <3>5. PICK early : early = {slot[j] : j \in before}
      OBVIOUS
    <3>6. IsFiniteSet(early)
      BY <3>4, <3>5, Image
    <3>8. early \subseteq Int
      BY <1>8, <3>4, <3>5
    <3>7. times = books \cup early
      BY <2>5, <3>1, <3>3, <3>5
    <3> QED BY <3>2, <3>6, <3>7, <3>8, FS_Union
  <2>7. slot[k] = firstSlot(order[k], turn, times, others)
    <3>1. slot[k] = Slot(slot, k)
      BY <1>5
    <3> QED BY <1>8, <2>2, <2>3, <2>5, <3>1
  <2>8. order[k] \in Accounts
    OBVIOUS
  <2>9. /\ slot[k] \in Int /\ slot[k] >= turn
        /\ Clear(times, GapOf[order[k]], slot[k])
        /\ UnderCap(others, order[k], slot[k])
    BY <2>4, <2>6, <2>7, <2>8, FirstSlotIs
  <2> QED BY <1>6, <2>4, <2>5, <2>9
<1>9. ASSUME NEW k \in 1..m PROVE slot[k] \in Int
  <2>1. CASE mode = "now"
    <3>1. slot[k] = Max({from, clock})
      BY <1>5, <2>1
    <3> QED BY <1>6, <3>1, MaxOfTwo
  <2>2. CASE mode # "now"
    <3>1. PICK bad : bad = {l \in Nat : l \in 1..m /\ slot[l] \notin Int}
      OBVIOUS
    <3>2. bad = {}
      <4>1. SUFFICES ASSUME bad # {} PROVE FALSE
        OBVIOUS
      <4>2. bad \in SUBSET Nat
        BY <3>1
      <4>3. PICK l \in bad : \A j \in bad : l <= j
        BY <4>1, <4>2, LeastNatural
      <4>4. l \in 1..m /\ slot[l] \notin Int
        BY <3>1
      <4>5. ASSUME NEW j \in 1..(l - 1) PROVE slot[j] \in Int
        <5>1. j \in Nat /\ j \in 1..m /\ ~(l <= j)
          BY <4>4
        <5> QED BY <3>1, <4>3, <5>1
      <4> QED BY <1>8, <2>2, <4>4, <4>5
    <3> QED BY <3>1, <3>2
  <2> QED BY <2>1, <2>2
<1>10. PICK slots : slots = planTargets(order, others, clock, from, mode)
  OBVIOUS
<1>11. DOMAIN slots = Range(order)
  BY <1>1, <1>10
<1>12. ASSUME NEW a \in DOMAIN slots
       PROVE  \E k \in 1..m : order[k] = a /\ slots[a] = slot[k]
  <2>1. \E k \in 1..m : order[k] = a
    BY <1>11, <1>12 DEF Range
  <2>2. PICK k : k = CHOOSE l \in 1..Len(order) : order[l] = a
    OBVIOUS
  <2>3. k \in 1..m /\ order[k] = a
    BY <1>2, <2>1, <2>2
  <2>4. PICK f : f = [b \in Range(order) |-> slot[CHOOSE l \in 1..Len(order) : order[l] = b]]
    OBVIOUS
  <2>5. slots = f
    BY <1>1, <1>10, <2>4, Zenon
  <2>6. slots[a] = slot[k]
    BY <1>11, <2>2, <2>4, <2>5
  <2> QED BY <2>3, <2>6
<1>13. ASSUME NEW a \in DOMAIN slots PROVE slots[a] \in Int /\ slots[a] >= clock
  <2>1. PICK k \in 1..m : order[k] = a /\ slots[a] = slot[k]
    BY <1>12
  <2>2. CASE mode = "now"
    <3>1. slot[k] = Max({from, clock})
      BY <1>5, <2>2
    <3> QED BY <1>6, <2>1, <3>1, MaxOfTwo
  <2>3. CASE mode # "now"
    <3>1. \A j \in 1..(k - 1) : slot[j] \in Int
      BY <1>9
    <3> QED BY <1>8, <2>1, <2>3, <3>1
  <2> QED BY <2>2, <2>3
<1>14. ASSUME mode # "now", NEW a \in DOMAIN slots
       PROVE  /\ \A h \in DOMAIN history : NetworkOf[h.account] = NetworkOf[a] =>
                   ~(h.at - GapOf[a] <= slots[a] /\ slots[a] < h.at + GapOf[a])
              /\ UnderCap(others, a, slots[a])
  <2>1. PICK k \in 1..m : order[k] = a /\ slots[a] = slot[k]
    BY <1>12
  <2>2. /\ Clear(Times(k), GapOf[a], slot[k])
        /\ UnderCap(others, a, slot[k])
    <3>1. \A j \in 1..(k - 1) : slot[j] \in Int
      BY <1>9
    <3> HIDE DEF Times
    <3> QED BY <1>8, <1>14, <2>1, <3>1
  <2>3. ASSUME NEW h \in DOMAIN history, NetworkOf[h.account] = NetworkOf[a]
        PROVE  h.at \in Times(k)
    BY <2>1, <2>3 DEF bookingsPerNetwork
  <2> QED BY <2>1, <2>2, <2>3 DEF Clear
<1>15. ASSUME mode # "now", NEW a \in DOMAIN slots, NEW b \in DOMAIN slots \ {a},
              NetworkOf[b] = NetworkOf[a]
       PROVE  slots[b] # slots[a]
  <2>1. PICK k \in 1..m : order[k] = a /\ slots[a] = slot[k]
    BY <1>12
  <2>2. PICK l \in 1..m : order[l] = b /\ slots[b] = slot[l]
    BY <1>12
  <2>3. ASSUME NEW i \in 1..m, NEW j \in 1..m, j < i, NetworkOf[order[j]] = NetworkOf[order[i]]
        PROVE  slot[i] # slot[j]
    <3>1. slot[j] \in Times(i)
      BY <2>3
    <3>2. Clear(Times(i), GapOf[order[i]], slot[i])
      <4>1. \A u \in 1..(i - 1) : slot[u] \in Int
        BY <1>9
      <4> HIDE DEF Times
      <4> QED BY <1>8, <1>15, <4>1
    <3>3. PICK gap \in Nat \ {0} : gap = GapOf[order[i]]
      BY Constants
    <3>4. slot[j] \in Int /\ slot[i] \in Int
      BY <1>9
    <3>5. ~(slot[j] - gap <= slot[i] /\ slot[i] < slot[j] + gap)
      BY <3>1, <3>2, <3>3 DEF Clear
    <3> HIDE DEF Times
    <3> QED BY <3>3, <3>4, <3>5
  <2>4. k < l \/ l < k
    BY <1>15, <2>1, <2>2
  <2> QED BY <1>15, <2>1, <2>2, <2>3, <2>4
<1> QED BY <1>10, <1>11, <1>13, <1>14, <1>15 DEF PlanOK

(* The order of reflowQueue: each place once *)
LEMMA InLineIs ==
  ASSUME NEW line \in InLine
  PROVE  line \in [Places -> Places] /\ Len(line) = MaxEntries
           /\ \A i \in Places : \E k \in Places : line[k] = i
<1>1. Cardinality(Places) = MaxEntries
  <2>1. 1 \in Int /\ MaxEntries \in Int /\ MaxEntries \in Nat
    BY Constants
  <2> QED BY <2>1, FS_Interval DEF Places
<1>2. line \in [1..Cardinality(Places) -> Places]
        /\ \A k, l \in 1..Cardinality(Places) : k # l => line[k] # line[l]
  BY DEF InLine, SetToSeqs
<1>3. line \in [Places -> Places] /\ \A k, l \in Places : k # l => line[k] # line[l]
  BY <1>1, <1>2 DEF Places
<1>4. line \in Injection(Places, Places)
  BY <1>3 DEF Injection, IsInjective
<1>5. line \in Surjection(Places, Places)
  BY <1>4, Constants, FS_Injection
<1>6. Len(line) = MaxEntries
  BY <1>3, Constants DEF Places
<1> QED BY <1>3, <1>5, <1>6 DEF Surjection

(* The moments entries are proposed on one network: none is earlier than it  *)
(* was, and one that has to make room is a gap behind those before it       *)
Stepped(at, n, taken, line, k) ==
  /\ at[k] \in Int /\ at[k] >= queue[line[k]].at
  /\ line[k] \notin After(n, taken) => at[k] = queue[line[k]].at
  /\ line[k] \in After(n, taken) => \A j \in 1..(k - 1) :
       line[j] \in After(n, taken) => at[k] >= at[j] + Min(Range(GapOf))

LEMMA ReflowOnIs ==
  ASSUME EntriesOK(queue), NEW n, NEW taken \in SUBSET Int, IsFiniteSet(taken),
         NEW line \in InLine, Accounts # {}
  PROVE  \A k \in Places : Stepped(reflowOn(n, taken, line), n, taken, line, k)
<1> DEFINE gap == Min(Range(GapOf))
           Before(k) == {l \in 1..(k - 1) : line[l] \in After(n, taken)}
           Ahead(g, k) == {t \in taken : t <= queue[line[k]].at} \cup {g[j] : j \in Before(k)}
           To(g, k) == IF line[k] \in After(n, taken)
                       THEN Max({queue[line[k]].at} \cup {t + gap : t \in Ahead(g, k)})
                       ELSE queue[line[k]].at
           at == CHOOSE g : g = [k \in 1..Len(line) |-> To(g, k)]
<1>1. reflowOn(n, taken, line) = at
  BY Zenon DEF reflowOn
<1>2. PICK m \in Nat : m = MaxEntries /\ Len(line) = m /\ Places = 1..m
  BY InLineIs, Constants DEF Places
<1>3. PICK none : none = {l \in Nat : l <= m /\ ~ \E g : g = [k \in 1..l |-> To(g, k)]}
  OBVIOUS
<1>4. none = {}
  <2>1. SUFFICES ASSUME none # {} PROVE FALSE
    OBVIOUS
  <2>2. none \in SUBSET Nat
    BY <1>3
  <2>3. PICK e \in none : \A l \in none : e <= l
    BY <2>1, <2>2, LeastNatural
  <2>4. e \in Nat /\ e <= m
    BY <1>3
  <2>5. ~ \E g : g = [k \in 1..e |-> To(g, k)]
    BY <1>3
  <2>6. CASE e = 0
    <3>1. PICK g : g = [k \in 1..0 |-> 0]
      OBVIOUS
    <3> HIDE DEF To
    <3>2. [k \in 1..0 |-> To(g, k)] = g
      BY <3>1
    <3> QED BY <2>5, <2>6, <3>2
  <2>7. CASE e # 0
    <3>1. PICK d \in Nat : d = e - 1 /\ d < e
      BY <2>4, <2>7
    <3>2. d \notin none /\ d <= m
      BY <2>3, <2>4, <3>1
    <3>3. PICK g : g = [k \in 1..d |-> To(g, k)]
      <4> HIDE DEF To
      <4> QED BY <1>3, <3>1, <3>2
    <3>4. PICK h : h = [k \in 1..e |-> To(g, k)]
      OBVIOUS
    <3>5. ASSUME NEW k \in 1..e PROVE To(h, k) = To(g, k)
      <4>1. ASSUME NEW j \in Before(k) PROVE h[j] = g[j]
        <5>1. j \in 1..d /\ j \in 1..e
          BY <2>4, <3>1, <3>5, <4>1
        <5> HIDE DEF To
        <5>2. g[j] = To(g, j)
          BY <3>3, <5>1
        <5> QED BY <3>4, <5>1, <5>2
      <4> HIDE DEF Before
      <4>2. {h[j] : j \in Before(k)} = {g[j] : j \in Before(k)}
        BY <4>1
      <4>3. Ahead(h, k) = Ahead(g, k)
        BY <4>2
      <4> HIDE DEF Ahead
      <4> QED BY <4>3
    <3> HIDE DEF To
    <3>6. h = [k \in 1..e |-> To(h, k)]
      BY <3>4, <3>5
    <3> QED BY <2>5, <3>6
  <2> QED BY <2>6, <2>7
<1>5. at = [k \in 1..m |-> To(at, k)]
  <2>1. m \notin none /\ m <= m
    BY <1>4
  <2> HIDE DEF To
  <2>2. \E g : g = [k \in 1..m |-> To(g, k)]
    BY <1>3, <2>1
  <2>3. \E g : g = [k \in 1..Len(line) |-> To(g, k)]
    BY <1>2, <2>2
  <2>4. at = [k \in 1..Len(line) |-> To(at, k)]
    BY <2>3, Zenon
  <2> QED BY <1>2, <2>4
<1> HIDE DEF at
<1>6. gap \in Int
  <2>1. PICK a \in Accounts : TRUE
    OBVIOUS
  <2>2. Range(GapOf) \subseteq Int /\ GapOf[a] \in Range(GapOf)
    BY Constants DEF Range
  <2>3. \A t \in Range(GapOf) : 0 <= t
    BY Constants DEF Range
  <2> QED BY <2>2, <2>3, MinIs
<1>9. gap = Min(Range(GapOf))
  OBVIOUS
<1> HIDE DEF gap
<1>7. ASSUME NEW k \in 1..m, \A j \in 1..(k - 1) : at[j] \in Int
      PROVE  Stepped(at, n, taken, line, k)
  <2>1. at[k] = To(at, k)
    BY <1>5
  <2>2. line[k] \in Places
    BY <1>2, InLineIs
  <2>3. PICK own \in Int : own = queue[line[k]].at
    BY <2>2 DEF EntriesOK, EntryType
  <2>4. PICK before : before = Before(k)
    OBVIOUS
  <2>5. before \subseteq 1..(k - 1) /\ IsFiniteSet(before)
    <3>1. 1 \in Int /\ k - 1 \in Int
      OBVIOUS
    <3>2. IsFiniteSet(1..(k - 1))
      BY <3>1, FS_Interval
    <3>3. before \subseteq 1..(k - 1)
      BY <2>4
    <3> QED BY <3>2, <3>3, FS_Subset
  <2>6. PICK early : early = {at[j] : j \in before}
    OBVIOUS
  <2>7. IsFiniteSet(early) /\ early \subseteq Int
    <3>1. IsFiniteSet(early)
      BY <2>5, <2>6, Image
    <3>2. early \subseteq Int
      BY <1>7, <2>5, <2>6
    <3> QED BY <3>1, <3>2
  <2>8. PICK sooner : sooner = {t \in taken : t <= own}
    OBVIOUS
  <2>9. IsFiniteSet(sooner) /\ sooner \subseteq Int
    BY <2>8, FS_Subset
  <2>10. PICK ahead : ahead = sooner \cup early
    OBVIOUS
  <2>11. IsFiniteSet(ahead) /\ ahead \subseteq Int
    BY <2>7, <2>9, <2>10, FS_Union
  <2>12. ahead = Ahead(at, k)
    BY <2>3, <2>4, <2>6, <2>8, <2>10
  <2>13. PICK behind : behind = {t + gap : t \in ahead}
    OBVIOUS
  <2>14. IsFiniteSet(behind) /\ behind \subseteq Int
    <3>1. PICK f : f = [t \in ahead |-> t + gap]
      OBVIOUS
    <3>2. behind = {f[t] : t \in ahead}
      BY <2>13, <3>1
    <3>3. IsFiniteSet(behind)
      BY <2>11, <3>2, Image
    <3>4. behind \subseteq Int
      BY <1>6, <2>11, <2>13
    <3> QED BY <3>3, <3>4
  <2>15. IsFiniteSet({own} \cup behind) /\ {own} \cup behind \subseteq Int
    BY <2>14, FS_Singleton, FS_Union
  <2>16. /\ Max({own} \cup behind) \in Int
         /\ \A t \in {own} \cup behind : t <= Max({own} \cup behind)
    BY <2>15, MaxIs
  <2>17. CASE line[k] \in After(n, taken)
    <3>1. at[k] = Max({own} \cup behind)
      <4> HIDE DEF Ahead
      <4> QED BY <2>1, <2>3, <2>12, <2>13, <2>17
    <3>2. at[k] \in Int /\ at[k] >= own
      BY <2>16, <3>1
    <3>3. ASSUME NEW j \in 1..(k - 1), line[j] \in After(n, taken)
          PROVE  at[k] >= at[j] + gap
      <4>1. j \in before
        BY <2>4, <3>3
      <4>2. at[j] \in ahead
        BY <2>6, <2>10, <4>1
      <4>3. at[j] + gap \in behind /\ at[j] \in Int
        BY <1>7, <2>13, <4>2
      <4> QED BY <1>6, <2>16, <3>1, <4>3
    <3> QED BY <1>9, <2>3, <2>17, <3>2, <3>3 DEF Stepped
  <2>18. CASE line[k] \notin After(n, taken)
    <3>1. at[k] = own
      BY <2>1, <2>3, <2>18
    <3> QED BY <2>3, <2>18, <3>1 DEF Stepped
  <2> QED BY <2>17, <2>18
<1>8. ASSUME NEW k \in 1..m PROVE at[k] \in Int
  <2>1. PICK bad : bad = {l \in Nat : l \in 1..m /\ at[l] \notin Int}
    OBVIOUS
  <2>2. bad = {}
    <3>1. SUFFICES ASSUME bad # {} PROVE FALSE
      OBVIOUS
    <3>2. bad \in SUBSET Nat
      BY <2>1
    <3>3. PICK l \in bad : \A j \in bad : l <= j
      BY <3>1, <3>2, LeastNatural
    <3>4. l \in 1..m /\ at[l] \notin Int
      BY <2>1
    <3>5. ASSUME NEW j \in 1..(l - 1) PROVE at[j] \in Int
      <4>1. j \in Nat /\ j \in 1..m /\ ~(l <= j)
        BY <3>4
      <4> QED BY <2>1, <3>3, <4>1
    <3> QED BY <1>7, <3>4, <3>5 DEF Stepped
  <2> QED BY <2>1, <2>2
<1>10. ASSUME NEW k \in 1..m PROVE Stepped(at, n, taken, line, k)
  <2>1. \A j \in 1..(k - 1) : at[j] \in Int
    BY <1>8
  <2> QED BY <1>7, <2>1
<1> QED BY <1>1, <1>2, <1>10

(* A post at the front changes nothing of what waits but its moments *)
MovedOnly(q, r) ==
  /\ r = [i \in Places |-> r[i]]
  /\ \A i \in Places : r[i].at \in Int /\ r[i] = [q[i] EXCEPT !.at = r[i].at]

LEMMA MovedIs ==
  ASSUME NEW q, EntriesOK(q), NEW r, MovedOnly(q, r)
  PROVE  /\ EntriesOK(r)
         /\ \A i \in Places : /\ r[i].carried = q[i].carried /\ r[i].status = q[i].status
                             /\ r[i].targets = q[i].targets
<1>1. ASSUME NEW i \in Places
      PROVE  /\ r[i] \in EntryType /\ r[i].status = q[i].status
             /\ r[i].targets = q[i].targets /\ r[i].carried = q[i].carried
  <2>1. PICK e \in EntryType : e = q[i]
    BY DEF EntriesOK
  <2>2. PICK t \in Int : r[i] = [e EXCEPT !.at = t]
    BY <2>1 DEF MovedOnly
  <2> QED BY <2>1, <2>2 DEF EntryType
<1>2. r \in [Places -> EntryType]
  BY <1>1 DEF MovedOnly
<1> QED BY <1>1, <1>2 DEF EntriesOK

(* The slots that a plan takes on a network *)
Slots(slots, n) == {slots[a] : a \in {b \in DOMAIN slots : NetworkOf[b] = n}}

LEMMA SlotsOK ==
  ASSUME NEW slots, LaterOK(slots), NEW n
  PROVE  Slots(slots, n) \subseteq Int /\ IsFiniteSet(Slots(slots, n))
<1>1. PICK X : X = {b \in DOMAIN slots : NetworkOf[b] = n}
  OBVIOUS
<1>2. IsFiniteSet(X) /\ X \subseteq DOMAIN slots
  BY <1>1, Constants, FS_Subset DEF LaterOK
<1>3. PICK U : U = {slots[a] : a \in X}
  OBVIOUS
<1>4. IsFiniteSet(U)
  BY <1>2, <1>3, Image
<1>5. U \subseteq Int
  BY <1>2, <1>3 DEF LaterOK
<1> QED BY <1>1, <1>3, <1>4, <1>5 DEF Slots

(* A reflow moves nothing to an earlier time, and an entry on one network    *)
(* goes where that network puts it                                          *)
LEMMA ReflowIs ==
  ASSUME EntriesOK(queue), NEW slots, LaterOK(slots), NEW line \in InLine, Accounts # {}
  PROVE  /\ MovedOnly(queue, reflowQueue(slots, line))
         /\ \A i \in Places : reflowQueue(slots, line)[i].at >= queue[i].at
         /\ \A i \in Places : \A a \in Accounts :
              (\A b \in queue[i].targets : NetworkOf[b] = NetworkOf[a]) =>
                \E k \in Places : line[k] = i
                  /\ reflowQueue(slots, line)[i].at
                       = reflowOn(NetworkOf[a], Slots(slots, NetworkOf[a]), line)[k]
<1> DEFINE taken(n) == {slots[a] : a \in {b \in DOMAIN slots : NetworkOf[b] = n}}
           to == [n \in Range(NetworkOf) |-> reflowOn(n, taken(n), line)]
           k(i) == CHOOSE l \in Places : line[l] = i
<1>1. reflowQueue(slots, line) =
        [i \in Places |-> [queue[i] EXCEPT !.at = Max({to[n][k(i)] : n \in Range(NetworkOf)})]]
  BY Zenon DEF reflowQueue
<1>2. ASSUME NEW n
      PROVE  taken(n) \subseteq Int /\ IsFiniteSet(taken(n)) /\ taken(n) = Slots(slots, n)
  <2>1. taken(n) = Slots(slots, n)
    BY DEF Slots
  <2> HIDE DEF taken
  <2> QED BY <2>1, SlotsOK
<1>3. IsFiniteSet(Range(NetworkOf)) /\ Range(NetworkOf) # {}
  <2>1. Range(NetworkOf) = {NetworkOf[a] : a \in Accounts}
    BY Constants DEF Range
  <2> QED BY <2>1, Constants, Image
<1>4. ASSUME NEW i \in Places
      PROVE  /\ Max({to[n][k(i)] : n \in Range(NetworkOf)}) \in Int
             /\ \E n \in Range(NetworkOf) : Max({to[o][k(i)] : o \in Range(NetworkOf)}) = to[n][k(i)]
             /\ \A n \in Range(NetworkOf) : to[n][k(i)] <= Max({to[o][k(i)] : o \in Range(NetworkOf)})
  <2>1. PICK l : l = k(i)
    OBVIOUS
  <2>2. l \in Places
    BY <2>1, InLineIs
  <2>3. ASSUME NEW n \in Range(NetworkOf) PROVE to[n][l] \in Int
    <3>1. PICK t : t = taken(n)
      OBVIOUS
    <3>2. t \in SUBSET Int /\ IsFiniteSet(t)
      BY <1>2, <3>1
    <3>3. reflowOn(n, t, line)[l] \in Int
      BY <2>2, <3>2, ReflowOnIs DEF Stepped
    <3> QED BY <3>1, <3>3
  <2>4. PICK f : f = [n \in Range(NetworkOf) |-> to[n][l]]
    OBVIOUS
  <2> HIDE DEF to
  <2>5. PICK U : U = {f[n] : n \in Range(NetworkOf)}
    OBVIOUS
  <2>6. IsFiniteSet(U)
    BY <1>3, <2>5, Image
  <2>7. U \subseteq Int /\ U # {}
    BY <1>3, <2>3, <2>4, <2>5
  <2>8. Max(U) \in U /\ Max(U) \in Int /\ \A t \in U : t <= Max(U)
    BY <2>6, <2>7, MaxIs
  <2>9. U = {to[n][k(i)] : n \in Range(NetworkOf)}
    BY <2>1, <2>4, <2>5
  <2> QED BY <2>8, <2>9
<1>5. ASSUME NEW i \in Places PROVE k(i) \in Places /\ line[k(i)] = i
  BY InLineIs
<1>6. ASSUME NEW i \in Places, NEW a \in Accounts
       PROVE  /\ Max({to[n][k(i)] : n \in Range(NetworkOf)}) >= queue[i].at
              /\ (\A b \in queue[i].targets : NetworkOf[b] = NetworkOf[a]) =>
                   Max({to[n][k(i)] : n \in Range(NetworkOf)})
                     = reflowOn(NetworkOf[a], Slots(slots, NetworkOf[a]), line)[k(i)]
  <2>1. PICK l : l = k(i)
    OBVIOUS
  <2>2. l \in Places /\ line[l] = i
    BY <1>5, <2>1
  <2>3. PICK top : top = Max({to[n][k(i)] : n \in Range(NetworkOf)})
    OBVIOUS
  <2>4. /\ top \in Int /\ \E n \in Range(NetworkOf) : top = to[n][l]
        /\ \A n \in Range(NetworkOf) : to[n][l] <= top
    <3> HIDE DEF to, k
    <3> QED BY <1>4, <2>1, <2>3
  <2>5. ASSUME NEW n \in Range(NetworkOf)
        PROVE  /\ to[n] = reflowOn(n, Slots(slots, n), line)
               /\ to[n][l] \in Int /\ to[n][l] >= queue[i].at
               /\ (\A b \in queue[i].targets : NetworkOf[b] = NetworkOf[a]) /\ n # NetworkOf[a]
                    => to[n][l] = queue[i].at
    <3>1. PICK t : t = Slots(slots, n)
      OBVIOUS
    <3>2. t \in SUBSET Int /\ IsFiniteSet(t) /\ t = taken(n)
      BY <1>2, <3>1
    <3>3. to[n] = reflowOn(n, t, line)
      <4> HIDE DEF taken
      <4> QED BY <3>2
    <3>4. Stepped(reflowOn(n, t, line), n, t, line, l)
      BY <2>2, <3>2, ReflowOnIs
    <3>5. (\A b \in queue[i].targets : NetworkOf[b] = NetworkOf[a]) /\ n # NetworkOf[a]
            => i \notin After(n, t)
      BY DEF After, On
    <3> HIDE DEF to
    <3> QED BY <2>2, <3>1, <3>3, <3>4, <3>5 DEF Stepped
  <2>6. NetworkOf[a] \in Range(NetworkOf)
    BY Constants DEF Range
  <2>7. queue[i].at \in Int
    BY DEF EntriesOK, EntryType
  <2> HIDE DEF to, k
  <2>8. (\A b \in queue[i].targets : NetworkOf[b] = NetworkOf[a]) => top = to[NetworkOf[a]][l]
    BY <2>4, <2>5, <2>6, <2>7
  <2>9. top >= queue[i].at
    BY <2>4, <2>5, <2>6, <2>7
  <2> QED BY <2>1, <2>3, <2>5, <2>6, <2>8, <2>9
<1> HIDE DEF to, k
<1>7. ASSUME NEW i \in Places
      PROVE  \A t \in Int : [queue[i] EXCEPT !.at = t] = [queue[i] EXCEPT !.at = [queue[i] EXCEPT !.at = t].at]
                              /\ [queue[i] EXCEPT !.at = t].at = t
  BY DEF EntriesOK, EntryType
<1>8. ASSUME NEW i \in Places
      PROVE  \E t \in Int : reflowQueue(slots, line)[i] = [queue[i] EXCEPT !.at = t]
  BY <1>1, <1>4
<1>9. reflowQueue(slots, line) = [i \in Places |-> reflowQueue(slots, line)[i]]
  BY <1>1
<1>10. ASSUME NEW i \in Places
      PROVE  /\ reflowQueue(slots, line)[i].at \in Int
             /\ reflowQueue(slots, line)[i] = [queue[i] EXCEPT !.at = reflowQueue(slots, line)[i].at]
  <2>1. PICK t \in Int : reflowQueue(slots, line)[i] = [queue[i] EXCEPT !.at = t]
    BY <1>8
  <2> QED BY <1>7, <2>1
<1>11. ASSUME NEW i \in Places, NEW a \in Accounts
       PROVE  /\ reflowQueue(slots, line)[i].at >= queue[i].at
              /\ (\A b \in queue[i].targets : NetworkOf[b] = NetworkOf[a]) =>
                   \E l \in Places : line[l] = i
                     /\ reflowQueue(slots, line)[i].at
                          = reflowOn(NetworkOf[a], Slots(slots, NetworkOf[a]), line)[l]
  <2>1. PICK top \in Int : top = Max({to[n][k(i)] : n \in Range(NetworkOf)})
    BY <1>4
  <2>2. reflowQueue(slots, line)[i] = [queue[i] EXCEPT !.at = top]
    BY <1>1, <2>1
  <2>3. reflowQueue(slots, line)[i].at = top
    BY <1>7, <2>2
  <2>4. PICK l : l = k(i)
    OBVIOUS
  <2>5. l \in Places /\ line[l] = i
    BY <1>5, <2>4
  <2>6. /\ top >= queue[i].at
        /\ (\A b \in queue[i].targets : NetworkOf[b] = NetworkOf[a]) =>
             top = reflowOn(NetworkOf[a], Slots(slots, NetworkOf[a]), line)[l]
    BY <1>6, <2>1, <2>4
  <2> QED BY <2>3, <2>5, <2>6
<1> QED BY <1>9, <1>10, <1>11 DEF MovedOnly

(* The accounts of a plan are of those it was made for *)
LEMMA PlanFor ==
  ASSUME EntriesOK(queue), MarksOK(history), NEW S \in SUBSET Accounts,
         NEW order \in SetToSeqs(S), NEW others \in SUBSET Places,
         NEW clock \in -Old..0, NEW from \in Int, NEW mode
  PROVE  /\ PlanOK(planTargets(order, others, clock, from, mode), order, others, clock, mode)
         /\ DOMAIN planTargets(order, others, clock, from, mode) \subseteq S
         /\ LaterOK(planTargets(order, others, clock, from, mode))
<1>1. PICK m : m = Cardinality(S)
  OBVIOUS
<1>2. m \in Nat
  <2>1. IsFiniteSet(S)
    BY Constants, FS_Subset
  <2> QED BY <1>1, <2>1, FS_CardinalityType
<1>3. order \in [1..m -> S]
  BY <1>1 DEF SetToSeqs
<1>4. order \in [1..m -> Accounts] /\ Range(order) \subseteq S
  BY <1>3 DEF Range
<1>5. PlanOK(planTargets(order, others, clock, from, mode), order, others, clock, mode)
  BY <1>2, <1>4, PlanIs
<1> QED BY <1>4, <1>5 DEF PlanOK, LaterOK

(* What goes at the moment of the plan is free on the network and under the *)
(* cap, when nothing is dated after that moment                             *)
LEMMA NowIsHeld ==
  ASSUME MarksOK(history), NEW clock \in -Old..0, NEW others \in SUBSET Places,
         NEW slots, NEW order, NEW mode, mode # "now", LaterOK(slots),
         PlanOK(slots, order, others, clock, mode),
         \A h \in DOMAIN history : h.at <= clock,
         NEW w, w.to = {a \in DOMAIN slots : slots[a] <= clock}, w.clock = clock
  PROVE  SlotHeld(history, w)
<1>1. clock \in Int /\ clock <= 0
  BY Constants
<1>2. ASSUME NEW a \in w.to PROVE a \in DOMAIN slots /\ slots[a] = clock
  BY <1>1, <1>2 DEF PlanOK
<1>3. ASSUME NEW a \in w.to, NEW h \in DOMAIN history, NetworkOf[h.account] = NetworkOf[a]
      PROVE  clock >= h.at + GapOf[a]
  <2>1. PICK gap \in Nat \ {0} : gap = GapOf[a]
    BY <1>2, Constants DEF LaterOK
  <2>2. PICK at \in Int : at = h.at /\ at <= clock
    BY DEF MarksOK, Mark
  <2>3. ~(at - gap <= clock /\ clock < at + gap)
    BY <1>2, <1>3, <2>1, <2>2 DEF PlanOK
  <2> QED BY <1>1, <2>1, <2>2, <2>3
<1>4. ASSUME NEW a \in w.to, NEW b \in w.to \ {a} PROVE NetworkOf[b] # NetworkOf[a]
  BY <1>2, <1>4 DEF PlanOK
<1>5. ASSUME NEW a \in w.to
      PROVE  Cardinality(Posts(history, a, clock - Day + 1, 0)) < MaxPerDay
  <2>1. PICK from : from = clock - Day + 1
    OBVIOUS
  <2>2. UnderCap(others, a, clock)
    BY <1>2, <1>5 DEF PlanOK
  <2>3. PICK Q : Q = {i \in others : Booked(i) /\ a \in queue[i].targets
                        /\ queue[i].at \in from..clock}
    OBVIOUS
  <2>4. Landed(a, from, clock) + Cardinality(Q) < MaxPerDay
    BY <2>1, <2>2, <2>3 DEF UnderCap
  <2>5. Cardinality(Q) \in Nat
    <3>1. IsFiniteSet(Q)
      BY <2>3, Constants, FS_Subset
    <3> QED BY <3>1, FS_CardinalityType
  <2>6. {x \in DOMAIN history : x.account = a /\ x.ok /\ x.at \in from..clock}
          = {x \in DOMAIN history : x.account = a /\ x.ok /\ x.at \in from..0}
    <3>1. from \in Int
      BY <1>1, <2>1, Constants
    <3>2. \A x \in DOMAIN history : x.at \in Int /\ x.at <= clock
      BY DEF MarksOK, Mark
    <3> QED BY <1>1, <3>1, <3>2
  <2>7. Posts(history, a, from, clock) = Posts(history, a, from, 0)
    BY <2>6, Zenon DEF Posts
  <2>8. /\ Landed(a, from, clock) = Cardinality(Posts(history, a, from, 0))
        /\ Landed(a, from, clock) \in Nat
    BY <2>7, LandedIs
  <2>9. Cardinality(Posts(history, a, from, 0)) < MaxPerDay
    BY <2>4, <2>5, <2>8, Constants
  <2> QED BY <2>1, <2>9
<1> QED BY <1>3, <1>4, <1>5 DEF SlotHeld

(***************************************************************************)
(* The queue                                                               *)
(***************************************************************************)
LEMMA OnlyIs ==
  ASSUME NEW slots, LaterOK(slots), NEW S
  PROVE  /\ LaterOK(Only(slots, S)) /\ DOMAIN Only(slots, S) = DOMAIN slots \cap S
         /\ \A a \in DOMAIN Only(slots, S) : Only(slots, S)[a] = slots[a]
BY DEF LaterOK, Only

(* What is put in a place is an entry for one account *)
Enqueued(r, q, slots, text, force) ==
  \A i \in Places :
    r[i] = q[i] \/ \E a \in DOMAIN slots : r[i] = Entry(slots[a], {a}, text, force)

LEMMA EnqueueIs ==
  ASSUME NEW q, EntriesOK(q), NEW slots, LaterOK(slots), NEW text \in Words,
         NEW force \in BOOLEAN
  PROVE  /\ EntriesOK(enqueue(q, slots, text, force))
         /\ \A i \in Places : \/ enqueue(q, slots, text, force)[i] = q[i]
                              \/ enqueue(q, slots, text, force)[i].carried = {}
         /\ Enqueued(enqueue(q, slots, text, force), q, slots, text, force)
<1>1. ASSUME NEW a \in DOMAIN slots
      PROVE  /\ Entry(slots[a], {a}, text, force) \in EntryType
             /\ Entry(slots[a], {a}, text, force).status = "pending"
             /\ Entry(slots[a], {a}, text, force).targets # {}
             /\ Entry(slots[a], {a}, text, force).carried = {}
  BY DEF Entry, EntryType, LaterOK, Status
<1>2. PICK r : r = enqueue(q, slots, text, force)
  OBVIOUS
<1>3. r = [i \in Places |-> r[i]] /\ \A i \in Places :
        r[i] = q[i] \/ \E a \in DOMAIN slots : r[i] = Entry(slots[a], {a}, text, force)
  <2> DEFINE place == CHOOSE f \in Injection(DOMAIN slots, Free(q)) : TRUE
  <2>2. r = [i \in Places |->
         IF \A a \in DOMAIN slots : place[a] # i THEN q[i]
         ELSE Entry(slots[CHOOSE b \in DOMAIN slots : place[b] = i],
                    {CHOOSE b \in DOMAIN slots : place[b] = i}, text, force)]
    BY <1>2, Zenon DEF enqueue
  <2> HIDE DEF place
  <2>3. ASSUME NEW i \in Places, ~ \A a \in DOMAIN slots : place[a] # i
        PROVE  \E a \in DOMAIN slots : r[i] = Entry(slots[a], {a}, text, force)
    <3>1. \E b \in DOMAIN slots : place[b] = i
      BY <2>3
    <3>2. PICK a : a = CHOOSE b \in DOMAIN slots : place[b] = i
      OBVIOUS
    <3>3. a \in DOMAIN slots
      BY <3>1, <3>2
    <3>4. r[i] = Entry(slots[CHOOSE b \in DOMAIN slots : place[b] = i],
                       {CHOOSE b \in DOMAIN slots : place[b] = i}, text, force)
      <4>1. r[i] = IF \A b \in DOMAIN slots : place[b] # i THEN q[i]
                   ELSE Entry(slots[CHOOSE b \in DOMAIN slots : place[b] = i],
                              {CHOOSE b \in DOMAIN slots : place[b] = i}, text, force)
        BY <2>2, Zenon
      <4> QED BY <4>1, <2>3, Zenon
    <3>5. r[i] = Entry(slots[a], {a}, text, force)
      BY <3>2, <3>4, Zenon
    <3> QED BY <3>3, <3>5
  <2>4. r = [i \in Places |-> r[i]]
    BY <2>2
  <2>5. ASSUME NEW i \in Places, \A a \in DOMAIN slots : place[a] # i
        PROVE  r[i] = q[i]
    BY <2>2, <2>5
  <2> QED BY <2>3, <2>4, <2>5
<1>4. ASSUME NEW i \in Places
      PROVE  /\ r[i] = q[i] \/ r[i].carried = {}
             /\ r[i] = q[i] \/ (r[i].status = "pending" /\ r[i].targets # {})
             /\ r[i] \in EntryType
  BY <1>1, <1>3 DEF EntriesOK
<1>5. r \in [Places -> EntryType]
  BY <1>3, <1>4
<1>6. EntriesOK(r)
  BY <1>4, <1>5 DEF EntriesOK
<1>7. Enqueued(r, q, slots, text, force)
  BY <1>3 DEF Enqueued
<1> QED BY <1>2, <1>4, <1>6, <1>7

LEMMA NoEntryIs ==
  NoEntry \in EntryType /\ NoEntry.status = "none" /\ NoEntry.carried = {}
<1>1. NoText \in Words /\ "none" \in Status
  BY DEF Words, Status
<1>2. Entry(0, {}, NoText, FALSE) \in EntryType /\ Entry(0, {}, NoText, FALSE).carried = {}
  BY <1>1 DEF Entry, EntryType, Status
<1> QED BY <1>1, <1>2 DEF NoEntry, EntryType

LEMMA DoneIs ==
  ASSUME EntriesOK(queue), NEW i \in Places, NEW others
  PROVE  /\ Done(i, others) \in EntryType
         /\ Done(i, others).status \in {"none", "done"}
         /\ Done(i, others).status = "none" => Done(i, others).carried = {}
         /\ Done(i, others).carried \in {{}, queue[i].carried}
<1>1. NoEntry \in EntryType /\ NoEntry.status = "none" /\ NoEntry.carried = {}
  BY NoEntryIs
<1>2. queue[i].carried \in SUBSET Accounts
  BY DEF EntriesOK, EntryType
<1>3. PICK c \in SUBSET Accounts : c = queue[i].carried
  BY <1>2
<1>4. [NoEntry EXCEPT !.status = "done", !.carried = c] \in EntryType
  BY <1>1 DEF EntryType, Status
<1>5. [NoEntry EXCEPT !.status = "done", !.carried = c].status = "done"
        /\ [NoEntry EXCEPT !.status = "done", !.carried = c].carried = c
  BY <1>1 DEF EntryType
<1> QED BY <1>1, <1>3, <1>4, <1>5 DEF Done

LEMMA UpdateIs ==
  ASSUME NEW q, EntriesOK(q), NEW i \in Places, NEW e \in EntryType,
         e.status \in {"pending", "sending"} => e.targets # {},
         e.status \in {"none", "pending"} => e.carried = {}
  PROVE  /\ EntriesOK(updateQueued(q, i, e))
         /\ updateQueued(q, i, e)[i] \in {q[i], e}
         /\ \A j \in Places \ {i} : updateQueued(q, i, e)[j] = q[j]
BY DEF EntriesOK, updateQueued

(***************************************************************************)
(* What a process holds                                                    *)
(***************************************************************************)
LEMMA IdleOK == WorkOK(Idle) /\ Idle.due = {} /\ Idle.clock = 0
<1>1. DOMAIN Idle.later = {}
  BY DEF Idle
<1>2. 0 \in -MaxLag..0 /\ NoText \in Words
  BY Constants DEF Words
<1>3. Idle \in WorkType({Idle.later})
  BY <1>2 DEF Idle, WorkType
<1> QED BY <1>1, <1>3 DEF WorkOK, LaterOK, DueOK, Idle

LEMMA AloneChanges ==
  ASSUME NEW w, WorkOK(w), NEW b \in BOOLEAN
  PROVE  /\ WorkOK([w EXCEPT !.alone = b])
         /\ [w EXCEPT !.alone = b].alone = b
         /\ [w EXCEPT !.alone = b].clock = w.clock
         /\ [w EXCEPT !.alone = b].due = w.due
         /\ [w EXCEPT !.alone = b].to = w.to
         /\ [w EXCEPT !.alone = b].text = w.text
         /\ [w EXCEPT !.alone = b].force = w.force
         /\ [w EXCEPT !.alone = b].place = w.place
         /\ [w EXCEPT !.alone = b].later = w.later
BY DEF WorkOK, WorkType

LEMMA StartsIs ==
  ASSUME Types, NEW p \in Procs, pc[p] = "idle", NEW w, WorkOK(w), Starts(p, w)
  PROVE  /\ DOMAIN work' = Procs /\ \A o \in Procs : WorkOK(work'[o])
         /\ \A o \in Procs \ {p} : pc[o] # "idle" => ~work'[o].alone
         /\ work'[p].alone => \A o \in Procs \ {p} : pc[o] = "idle"
         /\ work'[p].clock = w.clock /\ work'[p].due = w.due /\ work'[p].to = w.to
         /\ work'[p].text = w.text /\ work'[p].force = w.force
         /\ work'[p].place = w.place /\ work'[p].later = w.later
         /\ \A o \in Procs \ {p} : /\ work'[o].due = work[o].due /\ work'[o].clock = work[o].clock
                                  /\ work'[o].place = work[o].place
                                  /\ work'[o].later = work[o].later
<1>1. \A o \in Procs : WorkOK(work[o])
  BY DEF Types
<1>2. PICK b \in BOOLEAN : b = (\A o \in Procs \ {p} : pc[o] = "idle")
  OBVIOUS
<1>3. DOMAIN work' = Procs
  BY DEF Starts
<1>4. work'[p] = [w EXCEPT !.alone = b]
  BY <1>2 DEF Starts
<1>5. ASSUME NEW o \in Procs \ {p}
      PROVE  work'[o] = IF pc[o] = "idle" THEN work[o] ELSE [work[o] EXCEPT !.alone = FALSE]
  BY DEF Starts
<1>6. ASSUME NEW o \in Procs \ {p}
      PROVE  /\ WorkOK(work'[o]) /\ (pc[o] # "idle" => ~work'[o].alone)
             /\ work'[o].due = work[o].due /\ work'[o].clock = work[o].clock
             /\ work'[o].place = work[o].place /\ work'[o].later = work[o].later
  <2>1. CASE pc[o] = "idle"
    BY <1>1, <1>5, <2>1
  <2>2. CASE pc[o] # "idle"
    <3>1. PICK v : v = work[o]
      OBVIOUS
    <3>2. work'[o] = [v EXCEPT !.alone = FALSE]
      BY <1>5, <2>2, <3>1
    <3>3. WorkOK(v) /\ FALSE \in BOOLEAN
      BY <1>1, <3>1
    <3>4. PICK u : u = [v EXCEPT !.alone = FALSE]
      OBVIOUS
    <3>5. /\ WorkOK(u) /\ u.alone = FALSE /\ u.due = v.due /\ u.clock = v.clock
          /\ u.place = v.place /\ u.later = v.later
      BY <3>3, <3>4, AloneChanges
    <3> QED BY <3>1, <3>2, <3>4, <3>5
  <2> QED BY <2>1, <2>2
<1>7. WorkOK(work'[p])
  BY <1>4, AloneChanges
<1>8. \A o \in Procs : WorkOK(work'[o])
  BY <1>6, <1>7
<1> QED BY <1>2, <1>3, <1>4, <1>6, <1>8, AloneChanges

LEMMA GoesOnIs ==
  ASSUME Types, NEW p \in Procs, NEW w, WorkOK(w), GoesOn(p, w)
  PROVE  /\ DOMAIN work' = Procs /\ \A o \in Procs : WorkOK(work'[o])
         /\ \A o \in Procs \ {p} : work'[o] = work[o] /\ pc'[o] = pc[o]
         /\ pc' \in [Procs -> {"idle", "walk", "send", "finish"}]
         /\ pc'[p] \in {"idle", "walk"}
         /\ pc'[p] # "idle" => /\ work'[p].due = w.due
                               /\ work'[p].clock = w.clock
                               /\ work'[p].alone = w.alone
<1>1. DOMAIN work = Procs /\ (\A o \in Procs : WorkOK(work[o]))
        /\ pc \in [Procs -> {"idle", "walk", "send", "finish"}]
  BY DEF Types
<1>2. PICK v : v = [Idle EXCEPT !.due = w.due, !.clock = w.clock, !.alone = w.alone]
  OBVIOUS
<1>3. /\ WorkOK(v) /\ v.due = w.due /\ v.clock = w.clock /\ v.alone = w.alone
  <2>1. w.due \in SUBSET [place : Places, entry : EntryType] /\ w.clock \in -MaxLag..0
          /\ w.alone \in BOOLEAN /\ DueOK(w.due)
    BY DEF WorkOK, WorkType
  <2>2. Idle \in WorkType({Idle.later}) /\ LaterOK(Idle.later)
    BY IdleOK DEF WorkOK
  <2>3. v \in WorkType({Idle.later}) /\ v.later = Idle.later
          /\ v.due = w.due /\ v.clock = w.clock /\ v.alone = w.alone
    BY <1>2, <2>1, <2>2 DEF WorkType
  <2> QED BY <2>1, <2>2, <2>3 DEF WorkOK
<1>4. work' = [work EXCEPT ![p] = IF w.due = {} THEN Idle ELSE v]
  BY <1>2 DEF GoesOn
<1>5. pc' = [pc EXCEPT ![p] = IF w.due = {} THEN "idle" ELSE "walk"]
  BY DEF GoesOn, Goto
<1>6. DOMAIN work' = Procs /\ \A o \in Procs \ {p} : work'[o] = work[o] /\ pc'[o] = pc[o]
  BY <1>1, <1>4, <1>5
<1>7. work'[p] = IF w.due = {} THEN Idle ELSE v
  BY <1>1, <1>4
<1>8. pc'[p] = IF w.due = {} THEN "idle" ELSE "walk"
  BY <1>1, <1>5
<1>9. \A o \in Procs : WorkOK(work'[o])
  BY <1>1, <1>3, <1>6, <1>7, IdleOK
<1>10. pc' \in [Procs -> {"idle", "walk", "send", "finish"}]
  BY <1>1, <1>5
<1> QED BY <1>3, <1>6, <1>7, <1>8, <1>9, <1>10

(* Where p is at work no other process is alone *)
LEMMA NotAlone ==
  ASSUME AllAlone, NEW p \in Procs, pc[p] # "idle", NEW o \in Procs \ {p}, pc[o] # "idle"
  PROVE  ~work[o].alone
BY DEF AllAlone, AloneOK

(***************************************************************************)
(* Every step keeps the invariant                                          *)
(***************************************************************************)
LEMMA PostInit == Init => PostInv
<1> SUFFICES ASSUME Init PROVE PostInv
  OBVIOUS
<1>1. NoEntry \in EntryType /\ NoEntry.status = "none" /\ NoEntry.carried = {}
  BY NoEntryIs
<1>2. EntriesOK(queue)
  BY <1>1 DEF Init, EntriesOK
<1>3. MarksOK(history)
  <2>1. DOMAIN history = {}
    BY DEF Init, EmptyBag, SetToBag
  <2> QED BY <2>1, FS_EmptySet DEF MarksOK
<1>4. \A p \in Procs : pc[p] = "idle" /\ work[p] = Idle
  BY DEF Init
<1>5. Types
  BY <1>2, <1>3, IdleOK, Constants DEF Init, Types
<1> QED BY <1>4, <1>5 DEF PostInv, AllAlone, AloneOK

LEMMA TickKeeps ==
  ASSUME PostInv, NEW p \in Schedulers, Tick(p)
  PROVE  PostInv'
<1> USE DEF PostInv
<1>1. p \in Procs /\ pc[p] = "idle"
  BY DEF Tick, Procs
<1>2. PICK w : w = [Idle EXCEPT !.due = duePosts]
  OBVIOUS
<1>3. ASSUME NEW d \in duePosts
      PROVE  /\ d \in [place : Places, entry : EntryType]
             /\ queue[d.place].carried = {} /\ d = [place |-> d.place, entry |-> queue[d.place]]
  BY DEF duePosts, Types, EntriesOK
<1>4. WorkOK(w) /\ w.due = duePosts /\ w.clock = 0
  <2>1. Idle \in WorkType({Idle.later}) /\ LaterOK(Idle.later) /\ Idle.clock = 0
    BY IdleOK DEF WorkOK
  <2>2. w \in WorkType({Idle.later}) /\ w.later = Idle.later /\ w.due = duePosts /\ w.clock = 0
    BY <1>2, <1>3, <2>1 DEF WorkType
  <2>3. DueOK(duePosts)
    BY <1>3 DEF DueOK
  <2> QED BY <2>1, <2>2, <2>3 DEF WorkOK
<1>5. Starts(p, w) /\ pc' = [pc EXCEPT ![p] = "walk"]
  BY <1>2 DEF Tick, Goto
<1>6. /\ DOMAIN work' = Procs /\ \A o \in Procs : WorkOK(work'[o])
      /\ \A o \in Procs \ {p} : pc[o] # "idle" => ~work'[o].alone
      /\ work'[p].alone => \A o \in Procs \ {p} : pc[o] = "idle"
      /\ work'[p].clock = 0 /\ work'[p].due = duePosts
  BY <1>1, <1>4, <1>5, StartsIs
<1>7. /\ pc' \in [Procs -> {"idle", "walk", "send", "finish"}] /\ pc'[p] = "walk"
      /\ \A o \in Procs \ {p} : pc'[o] = pc[o]
  BY <1>1, <1>5 DEF Types
<1>8. queue' = queue /\ history' = history /\ archived' = archived /\ uses' = uses /\ odd' = odd
  BY DEF Tick
<1>9. Types'
  BY <1>6, <1>7, <1>8 DEF Types
<1>10. AloneOK(p, pc', work', history', queue')
  <2>1. \A h \in DOMAIN history : h.at <= 0
    BY Constants DEF Types, MarksOK, Mark
  <2>2. KnowsAll(work'[p], pc'[p] = "send", history', queue')
    BY <1>3, <1>6, <1>7, <1>8, <2>1 DEF KnowsAll
  <2> QED BY <1>6, <1>7, <2>2 DEF AloneOK
<1>11. \A o \in Procs \ {p} : AloneOK(o, pc', work', history', queue')
  BY <1>6, <1>7 DEF AloneOK
<1> QED BY <1>9, <1>10, <1>11 DEF AllAlone

(* What a step that sends, or has sent, leaves of another process *)
LEMMA OthersStay ==
  ASSUME PostInv, NEW p \in Procs, pc[p] # "idle",
         \A o \in Procs \ {p} : work'[o] = work[o] /\ pc'[o] = pc[o],
         pc'[p] # "idle" /\ work'[p].alone =>
           work[p].alone /\ KnowsAll(work'[p], pc'[p] = "send", history', queue')
  PROVE  AllAlone'
<1>1. ASSUME NEW o \in Procs \ {p} PROVE AloneOK(o, pc', work', history', queue')
  BY NotAlone DEF PostInv, AloneOK
<1>2. AloneOK(p, pc', work', history', queue')
  BY DEF PostInv, AllAlone, AloneOK
<1> QED BY <1>1, <1>2 DEF AllAlone

LEMMA RecordedIs ==
  ASSUME NEW marks, MarksOK(marks), NEW M \in SUBSET Mark, IsFiniteSet(M)
  PROVE  /\ MarksOK(Recorded(marks (+) SetToBag(M)))
         /\ DOMAIN Recorded(marks (+) SetToBag(M)) = DOMAIN marks \cup M
<1>1. PICK one : one = SetToBag(M)
  OBVIOUS
<1>2. DOMAIN one = M /\ \A h \in M : one[h] = 1
  BY <1>1 DEF SetToBag
<1>3. PICK sum : sum = marks (+) one
  OBVIOUS
<1>4. /\ DOMAIN sum = DOMAIN marks \cup M
      /\ \A h \in DOMAIN sum : sum[h] = (IF h \in DOMAIN marks THEN marks[h] ELSE 0)
                                          + (IF h \in M THEN 1 ELSE 0)
  BY <1>2, <1>3 DEF (+)
<1>5. ASSUME NEW h \in DOMAIN sum PROVE sum[h] \in Nat \ {0}
  <2>1. h \in DOMAIN marks => marks[h] \in Nat \ {0}
    BY DEF MarksOK
  <2> QED BY <1>4, <2>1
<1>6. DOMAIN Recorded(sum) = DOMAIN sum /\ \A h \in DOMAIN sum : Recorded(sum)[h] \in Nat \ {0}
  BY <1>5 DEF Recorded
<1>7. IsFiniteSet(DOMAIN marks \cup M)
  BY FS_Union DEF MarksOK
<1> QED BY <1>1, <1>3, <1>4, <1>6, <1>7 DEF MarksOK

(* The calls of a send leave marks at its moment *)
LEMMA LandIs ==
  ASSUME Types, NEW p \in Procs, Land(p)
  PROVE  /\ MarksOK(history')
         /\ \A h \in DOMAIN history' : h \in DOMAIN history \/ h.at = work[p].clock
<1> DEFINE w == work[p]
<1>1. WorkOK(w)
  BY DEF Types
<1>2. w.to \in SUBSET Accounts /\ w.clock \in -MaxLag..0 /\ w.text \in Words
  BY <1>1 DEF WorkOK, WorkType
<1>3. PICK ok \in SUBSET w.to : \E sent \in tailor(ok, w.text) :
        history' = Recorded(history (+) SetToBag(
          {[at |-> w.clock, account |-> a, ok |-> a \in ok,
            text |-> IF a \in ok THEN sent[a] ELSE NoText] : a \in w.to}))
  BY Zenon DEF Land
<1> HIDE DEF w
<1>4. PICK sent \in tailor(ok, w.text) :
         history' = Recorded(history (+) SetToBag(
           {[at |-> w.clock, account |-> a, ok |-> a \in ok,
             text |-> IF a \in ok THEN sent[a] ELSE NoText] : a \in w.to}))
  BY <1>3
<1>5. PICK f : f = [a \in w.to |-> [at |-> w.clock, account |-> a, ok |-> a \in ok,
                                    text |-> IF a \in ok THEN sent[a] ELSE NoText]]
  OBVIOUS
<1>6. PICK M : M = {f[a] : a \in w.to}
  OBVIOUS
<1>7. M = {[at |-> w.clock, account |-> a, ok |-> a \in ok,
            text |-> IF a \in ok THEN sent[a] ELSE NoText] : a \in w.to}
  BY <1>5, <1>6
<1>8. IsFiniteSet(M)
  <2>1. IsFiniteSet(w.to)
    BY <1>2, Constants, FS_Subset
  <2> QED BY <1>6, <2>1, Image
<1>9. ASSUME NEW h \in M PROVE h \in Mark /\ h.at = w.clock
  <2>1. PICK a \in w.to :
          h = [at |-> w.clock, account |-> a, ok |-> a \in ok,
               text |-> IF a \in ok THEN sent[a] ELSE NoText]
    BY <1>7
  <2>2. w.clock \in -Old..0
    BY <1>2, Constants DEF Old
  <2>3. a \in Accounts /\ (IF a \in ok THEN sent[a] ELSE NoText) \in Words
    BY <1>2, <1>4 DEF Words, tailor
  <2> QED BY <2>1, <2>2, <2>3 DEF Mark
<1>10. history' = Recorded(history (+) SetToBag(M))
  BY <1>7, <1>4
<1>11. MarksOK(history') /\ DOMAIN history' = DOMAIN history \cup M
  <2>1. MarksOK(history) /\ M \in SUBSET Mark
    BY <1>9 DEF Types
  <2> QED BY <1>8, <1>10, <2>1, RecordedIs
<1> QED BY <1>9, <1>11 DEF w

LEMMA LandKeeps ==
  ASSUME PostInv, NEW p \in Procs, Land(p)
  PROVE  PostInv'
<1>1. Types /\ pc[p] = "send"
  BY DEF PostInv, Land
<1>2. /\ pc' = [pc EXCEPT ![p] = "finish"] /\ work' = work /\ queue' = queue
      /\ archived' = archived /\ uses' = uses /\ odd' = odd
  BY DEF Land, Goto
<1>3. /\ MarksOK(history')
      /\ \A h \in DOMAIN history' : h \in DOMAIN history \/ h.at = work[p].clock
  BY <1>1, LandIs
<1>4. /\ pc' \in [Procs -> {"idle", "walk", "send", "finish"}] /\ pc'[p] = "finish"
      /\ \A o \in Procs \ {p} : pc'[o] = pc[o]
  BY <1>1, <1>2 DEF Types
<1>5. Types'
  BY <1>1, <1>2, <1>3, <1>4 DEF Types
<1>6. ASSUME work[p].alone PROVE KnowsAll(work'[p], pc'[p] = "send", history', queue')
  <2>1. KnowsAll(work[p], TRUE, history, queue)
    BY <1>1, <1>6 DEF PostInv, AllAlone, AloneOK
  <2>2. work[p].clock \in Int
    BY <1>1, Constants DEF Types, WorkOK, WorkType
  <2> QED BY <1>2, <1>3, <1>4, <2>1, <2>2 DEF KnowsAll
<1>7. AllAlone'
  BY <1>1, <1>2, <1>4, <1>6, OthersStay
<1> QED BY <1>5, <1>7 DEF PostInv

LEMMA FinishKeeps ==
  ASSUME PostInv, NEW p \in Procs, Finish(p)
  PROVE  PostInv'
<1>1. Types /\ pc[p] = "finish"
  BY DEF PostInv, Finish
<1>2. PICK w : w = work[p] /\ WorkOK(w)
  BY <1>1 DEF Types
<1>3. /\ GoesOn(p, w) /\ history' = history /\ archived' = archived
      /\ uses' = uses /\ odd' = odd
  BY <1>2 DEF Finish
<1>4. /\ w.place \in Places \cup {0} /\ w.text \in Words /\ w.force \in BOOLEAN /\ LaterOK(w.later)
  BY <1>2 DEF WorkOK, WorkType
<1>5. EntriesOK(queue)
  BY <1>1 DEF Types
<1>6. /\ EntriesOK(queue')
      /\ \A i \in Places : queue'[i].carried \in {{}, queue[i].carried}
  <2>1. CASE w.place = 0
    <3>1. queue' = enqueue(queue, w.later, w.text, w.force)
      BY <1>2, <2>1 DEF Finish
    <3> QED BY <1>4, <1>5, <3>1, EnqueueIs
  <2>2. CASE w.place # 0
    <3>1. queue' = updateQueued(queue, w.place, Done(w.place, Procs \ {p}))
      BY <1>2, <2>2 DEF Finish
    <3>2. w.place \in Places
      BY <1>4, <2>2
    <3>3. PICK e : e = Done(w.place, Procs \ {p})
      OBVIOUS
    <3>4. /\ e \in EntryType /\ e.status \in {"none", "done"}
          /\ e.status = "none" => e.carried = {}
          /\ e.carried \in {{}, queue[w.place].carried}
      BY <1>5, <3>2, <3>3, DoneIs
    <3>5. /\ EntriesOK(queue')
          /\ queue'[w.place] \in {queue[w.place], e}
          /\ \A j \in Places \ {w.place} : queue'[j] = queue[j]
      <4>1. queue' = updateQueued(queue, w.place, e)
        BY <3>1, <3>3
      <4>2. /\ e.status \in {"pending", "sending"} => e.targets # {}
            /\ e.status \in {"none", "pending"} => e.carried = {}
        BY <3>4
      <4> HIDE <3>1
      <4> QED BY <1>5, <3>2, <3>4, <4>1, <4>2, UpdateIs
    <3> QED BY <3>4, <3>5
  <2> QED BY <2>1, <2>2
<1>7. /\ DOMAIN work' = Procs /\ \A o \in Procs : WorkOK(work'[o])
      /\ \A o \in Procs \ {p} : work'[o] = work[o] /\ pc'[o] = pc[o]
      /\ pc' \in [Procs -> {"idle", "walk", "send", "finish"}]
      /\ pc'[p] \in {"idle", "walk"}
      /\ pc'[p] # "idle" => /\ work'[p].due = w.due
                            /\ work'[p].clock = w.clock
                            /\ work'[p].alone = w.alone
  BY <1>1, <1>2, <1>3, GoesOnIs
<1>8. Types'
  BY <1>1, <1>3, <1>6, <1>7 DEF Types
<1>9. ASSUME pc'[p] # "idle", work'[p].alone
      PROVE  work[p].alone /\ KnowsAll(work'[p], pc'[p] = "send", history', queue')
  <2>1. KnowsAll(work[p], FALSE, history, queue)
    BY <1>1, <1>2, <1>7, <1>9 DEF PostInv, AllAlone, AloneOK
  <2>2. \A d \in w.due : d.place \in Places
    BY <1>2 DEF WorkOK, WorkType
  <2> QED BY <1>2, <1>3, <1>6, <1>7, <1>9, <2>1, <2>2 DEF KnowsAll
<1>10. AllAlone'
  BY <1>1, <1>7, <1>9, OthersStay
<1> QED BY <1>8, <1>10 DEF PostInv

LEMMA CrashKeeps ==
  ASSUME PostInv, NEW p \in Procs, Crash(p)
  PROVE  PostInv'
<1>1. Types /\ pc[p] # "idle"
  BY DEF PostInv, Crash
<1>2. /\ pc' = [pc EXCEPT ![p] = "idle"] /\ work' = [work EXCEPT ![p] = Idle]
      /\ queue' = queue /\ history' = history /\ archived' = archived
      /\ uses' = uses /\ odd < MaxOdd /\ odd' = odd + 1
  BY DEF Crash, Goto, Odd
<1>3. /\ pc' \in [Procs -> {"idle", "walk", "send", "finish"}] /\ pc'[p] = "idle"
      /\ \A o \in Procs \ {p} : work'[o] = work[o] /\ pc'[o] = pc[o]
  BY <1>1, <1>2 DEF Types
<1>4. odd' \in 0..MaxOdd
  BY <1>1, <1>2, Constants DEF Types
<1>5. DOMAIN work' = Procs /\ \A o \in Procs : WorkOK(work'[o])
  BY <1>1, <1>2, IdleOK DEF Types
<1>6. Types'
  BY <1>1, <1>2, <1>3, <1>4, <1>5 DEF Types
<1>7. AllAlone'
  BY <1>1, <1>3, OthersStay
<1> QED BY <1>6, <1>7 DEF PostInv

(* A step on the queue alone hands no entry to anybody *)
LEMMA QueueStep ==
  ASSUME PostInv, pc' = pc, work' = work, history' = history,
         \A i \in Places : queue'[i].carried \in {{}, queue[i].carried}
  PROVE  AllAlone'
<1>1. ASSUME NEW p \in Procs PROVE AloneOK(p, pc', work', history', queue')
  <2>1. AloneOK(p, pc, work, history, queue)
    BY DEF PostInv, AllAlone
  <2>2. \A d \in work[p].due : d.place \in Places
    BY DEF PostInv, Types, WorkOK, WorkType
  <2> QED BY <2>1, <2>2 DEF AloneOK, KnowsAll
<1> QED BY <1>1 DEF AllAlone

LEMMA CancelKeeps ==
  ASSUME PostInv, NEW i \in Places, Cancel(i)
  PROVE  PostInv'
<1>1. /\ queue' = [queue EXCEPT ![i] = NoEntry] /\ history' = history /\ archived' = archived
      /\ pc' = pc /\ work' = work /\ uses' = uses /\ odd < MaxOdd /\ odd' = odd + 1
  BY DEF Cancel, Odd
<1>2. NoEntry \in EntryType /\ NoEntry.status = "none" /\ NoEntry.carried = {}
  BY NoEntryIs
<1>3. Types
  BY DEF PostInv
<1>4. EntriesOK(queue') /\ \A j \in Places : queue'[j].carried \in {{}, queue[j].carried}
  BY <1>1, <1>2, <1>3 DEF Types, EntriesOK
<1>5. odd' \in 0..MaxOdd
  BY <1>1, <1>3, Constants DEF Types
<1>6. Types'
  BY <1>1, <1>3, <1>4, <1>5 DEF Types
<1> QED BY <1>1, <1>4, <1>6, QueueStep DEF PostInv

LEMMA ArchiveKeeps ==
  ASSUME PostInv, NEW a \in Accounts, Archive(a)
  PROVE  PostInv'
<1>1. /\ history' = history /\ archived' = archived \cup {a}
      /\ pc' = pc /\ work' = work /\ uses' = uses /\ odd < MaxOdd /\ odd' = odd + 1
      /\ queue' = [i \in Places |->
           IF queue[i].status # "pending" \/ a \notin queue[i].targets THEN queue[i]
           ELSE IF queue[i].targets = {a} THEN Done(i, Procs)
           ELSE [queue[i] EXCEPT !.targets = @ \ {a}]]
  BY DEF Archive, Odd
<1>2. Types
  BY DEF PostInv
<1>3. ASSUME NEW i \in Places
      PROVE  /\ queue'[i] \in EntryType
             /\ queue'[i].status \in {"pending", "sending"} => queue'[i].targets # {}
             /\ queue'[i].status \in {"none", "pending"} => queue'[i].carried = {}
             /\ queue'[i].carried \in {{}, queue[i].carried}
  <2>1. PICK e : e = queue[i]
    OBVIOUS
  <2>2. /\ e \in EntryType
        /\ e.status \in {"pending", "sending"} => e.targets # {}
        /\ e.status \in {"none", "pending"} => e.carried = {}
    BY <1>2, <2>1 DEF Types, EntriesOK
  <2>3. CASE e.status # "pending" \/ a \notin e.targets
    <3>1. queue'[i] = e
      BY <1>1, <2>1, <2>3
    <3> QED BY <2>1, <2>2, <3>1
  <2>4. CASE e.status = "pending" /\ a \in e.targets /\ e.targets = {a}
    <3>1. queue'[i] = Done(i, Procs)
      BY <1>1, <2>1, <2>4
    <3>2. EntriesOK(queue)
      BY <1>2 DEF Types
    <3>3. PICK o : o = Done(i, Procs)
      OBVIOUS
    <3>4. /\ o \in EntryType /\ o.status \in {"none", "done"}
          /\ o.status = "none" => o.carried = {}
          /\ o.carried \in {{}, queue[i].carried}
      BY <3>2, <3>3, DoneIs
    <3> QED BY <3>1, <3>3, <3>4
  <2>5. CASE e.status = "pending" /\ a \in e.targets /\ e.targets # {a}
    <3>1. queue'[i] = [e EXCEPT !.targets = @ \ {a}]
      BY <1>1, <2>1, <2>5
    <3>2. e.targets \ {a} # {} /\ e.targets \ {a} \in SUBSET Accounts
      BY <2>2, <2>5 DEF EntryType
    <3>3. /\ queue'[i] \in EntryType /\ queue'[i].targets # {}
          /\ queue'[i].status = e.status /\ queue'[i].carried = e.carried
      BY <2>2, <3>1, <3>2 DEF EntryType
    <3> QED BY <2>1, <2>2, <3>3
  <2> QED BY <2>3, <2>4, <2>5
<1>4. DOMAIN queue' = Places /\ queue' = [i \in Places |-> queue'[i]]
  BY <1>1
<1>5. EntriesOK(queue') /\ \A i \in Places : queue'[i].carried \in {{}, queue[i].carried}
  BY <1>3, <1>4 DEF EntriesOK
<1>6. odd' \in 0..MaxOdd
  BY <1>1, <1>2, Constants DEF Types
<1>7. Types'
  BY <1>1, <1>2, <1>5, <1>6 DEF Types
<1> QED BY <1>1, <1>5, <1>7, QueueStep DEF PostInv

LEMMA RestoreKeeps ==
  ASSUME PostInv, NEW a \in Accounts, restoreAccount(a)
  PROVE  PostInv'
<1>1. /\ archived' = archived \ {a} /\ queue' = queue /\ history' = history
      /\ pc' = pc /\ work' = work /\ uses' = uses /\ odd' = odd
  BY DEF restoreAccount
<1>2. Types'
  BY <1>1 DEF PostInv, Types
<1> QED BY <1>1, <1>2, QueueStep DEF PostInv

(***************************************************************************)
(* Time passes                                                             *)
(***************************************************************************)
LEMMA EarlierIs ==
  ASSUME NEW t \in Int
  PROVE  /\ Max({t - 1, -Old}) \in Int /\ (t > 1 - Old => Max({t - 1, -Old}) = t - 1)
         /\ Max({t - 1, -Old}) >= -Old /\ (t >= -Old => Max({t - 1, -Old}) <= t)
<1>1. PICK i \in Int : i = t - 1
  OBVIOUS
<1>2. PICK j \in Int : j = -Old
  BY Constants
<1>3. PICK m : m = Max({i, j})
  OBVIOUS
<1>4. m \in {i, j} /\ m >= i /\ m >= j
  BY <1>3, MaxOfTwo
<1>5. t > 1 - Old => i > j
  BY <1>1, <1>2, Constants
<1>6. m \in Int /\ (i > j => m = i)
  BY <1>4
<1>7. m >= j /\ (t >= j => m <= t)
  BY <1>1, <1>4
<1> QED BY <1>1, <1>2, <1>3, <1>5, <1>6, <1>7

(* A mark is a unit older, and as often in the bag *)
Aged(h, o) == h = [o EXCEPT !.at = o.at - 1]

LEMMA PassMarks ==
  ASSUME MarksOK(history), Pass
  PROVE  /\ MarksOK(history')
         /\ \A h \in DOMAIN history' : \E o \in DOMAIN history :
              Aged(h, o) /\ o = [h EXCEPT !.at = @ + 1] /\ history'[h] = history[o]
<1>1. PICK X : X = {x \in DOMAIN history : x.at > 1 - Old}
  OBVIOUS
<1>2. PICK f : f = [o \in X |-> [o EXCEPT !.at = Max({o.at - 1, -Old})]]
  OBVIOUS
<1>3. PICK D : D = {f[o] : o \in X}
  OBVIOUS
<1>4. history' = [h \in D |-> history[[h EXCEPT !.at = @ + 1]]]
  <2>1. D = {[o EXCEPT !.at = Max({@ - 1, -Old})] : o \in {x \in DOMAIN history : x.at > 1 - Old}}
    BY <1>1, <1>2, <1>3
  <2> QED BY <2>1 DEF Pass
<1>5. ASSUME NEW o \in X
      PROVE  /\ f[o] \in Mark /\ Aged(f[o], o)
             /\ [f[o] EXCEPT !.at = @ + 1] = o
  <2>1. o \in Mark /\ o.at > 1 - Old
    BY <1>1 DEF MarksOK
  <2>2. o.at \in Int /\ o.at <= 0
    BY <2>1, Constants DEF Mark
  <2>3. f[o] = [o EXCEPT !.at = o.at - 1]
    <3>1. Max({o.at - 1, -Old}) = o.at - 1
      BY <2>1, <2>2, EarlierIs
    <3> QED BY <1>2, <3>1
  <2>4. o.at - 1 \in -Old..0
    BY <2>1, <2>2, Constants
  <2>5. (o.at - 1) + 1 = o.at
    BY <2>2
  <2> QED BY <2>1, <2>3, <2>4, <2>5 DEF Mark, Aged
<1>6. IsFiniteSet(D)
  <2>1. IsFiniteSet(X)
    BY <1>1, FS_Subset DEF MarksOK
  <2> QED BY <1>3, <2>1, Image
<1>7. ASSUME NEW h \in D
      PROVE  /\ h \in Mark
             /\ \E o \in DOMAIN history :
                  Aged(h, o) /\ o = [h EXCEPT !.at = @ + 1] /\ history'[h] = history[o]
  <2>1. PICK o \in X : h = f[o]
    BY <1>3
  <2>2. h \in Mark /\ Aged(h, o) /\ [h EXCEPT !.at = @ + 1] = o
    BY <1>5, <2>1
  <2>3. history'[h] = history[o]
    BY <1>4, <2>2
  <2> QED BY <1>1, <2>2, <2>3
<1>8. DOMAIN history' = D
  BY <1>4
<1>9. \A h \in D : history'[h] \in Nat \ {0}
  BY <1>7 DEF MarksOK
<1> QED BY <1>6, <1>7, <1>8, <1>9 DEF MarksOK

LEMMA PassPosts ==
  ASSUME MarksOK(history), Pass, NEW a, NEW from \in Int
  PROVE  Cardinality(Posts(history', a, from - 1, 0)) <= Cardinality(Posts(history, a, from, 0))
<1>1. PICK old : old = Posts(history, a, from, 0)
  OBVIOUS
<1>2. PICK new : new = Posts(history', a, from - 1, 0)
  OBVIOUS
<1>3. PICK marks : marks = history'
  OBVIOUS
<1>4. ASSUME NEW x \in new
      PROVE  \E h \in DOMAIN marks, n \in Nat, o \in DOMAIN history :
               x = <<h, n>> /\ Aged(h, o) /\ o = [h EXCEPT !.at = @ + 1] /\ <<o, n>> \in old
  <2>1. PICK h \in DOMAIN marks : /\ h.account = a /\ h.ok /\ h.at \in (from - 1)..0
                                  /\ x \in {h} \X (1..marks[h])
    BY <1>2, <1>3 DEF Posts
  <2>2. PICK o \in DOMAIN history :
          Aged(h, o) /\ o = [h EXCEPT !.at = @ + 1] /\ marks[h] = history[o]
    BY <1>3, PassMarks
  <2>3. PICK n \in 1..history[o] : x = <<h, n>>
    BY <2>1, <2>2
  <2>4. o \in Mark
    BY DEF MarksOK
  <2>5. o.account = a /\ o.ok /\ h.at = o.at - 1 /\ o.at \in Int /\ o.at <= 0
    <3>1. h.account = o.account /\ h.ok = o.ok /\ h.at = o.at - 1
      BY <2>2, <2>4 DEF Mark, Aged
    <3>2. o.at \in Int /\ o.at <= 0
      BY <2>4, Constants DEF Mark
    <3> QED BY <2>1, <3>1, <3>2
  <2>6. o.at \in from..0
    BY <2>1, <2>5
  <2>7. <<o, n>> \in {o} \X (1..history[o])
    BY <2>3
  <2>8. <<o, n>> \in old
    BY <1>1, <2>5, <2>6, <2>7 DEF Posts
  <2>9. n \in Nat
    BY <2>3
  <2> QED BY <2>2, <2>3, <2>8, <2>9
<1>5. PICK f : f = [x \in new |-> <<[x[1] EXCEPT !.at = @ + 1], x[2]>>]
  OBVIOUS
<1>6. f \in [new -> old]
  <2>1. ASSUME NEW x \in new PROVE f[x] \in old
    <3>1. PICK h \in DOMAIN marks, n \in Nat, o \in DOMAIN history :
            x = <<h, n>> /\ o = [h EXCEPT !.at = @ + 1] /\ <<o, n>> \in old
      BY <1>4
    <3>2. f[x] = <<o, n>>
      BY <1>5, <3>1
    <3> QED BY <3>1, <3>2
  <2> QED BY <1>5, <2>1
<1>7. ASSUME NEW x \in new, NEW y \in new, f[x] = f[y] PROVE x = y
  <2>1. PICK h \in DOMAIN marks, n \in Nat, o \in DOMAIN history :
          x = <<h, n>> /\ Aged(h, o) /\ o = [h EXCEPT !.at = @ + 1]
    BY <1>4
  <2>2. PICK g \in DOMAIN marks, m \in Nat, u \in DOMAIN history :
          y = <<g, m>> /\ Aged(g, u) /\ u = [g EXCEPT !.at = @ + 1]
    BY <1>4
  <2>3. f[x] = <<o, n>> /\ f[y] = <<u, m>>
    BY <1>5, <2>1, <2>2
  <2>4. o = u /\ n = m
    <3>1. <<o, n>> = <<u, m>>
      BY <1>7, <2>3, Zenon
    <3> QED BY <3>1
  <2>5. h = [o EXCEPT !.at = o.at - 1] /\ g = [u EXCEPT !.at = u.at - 1]
    BY <2>1, <2>2 DEF Aged
  <2> QED BY <2>1, <2>2, <2>4, <2>5
<1>8. f \in Injection(new, old)
  BY <1>6, <1>7 DEF Injection, IsInjective
<1>9. IsFiniteSet(old)
  BY <1>1, PostsAreFinite
<1> QED BY <1>1, <1>2, <1>8, <1>9, FS_Injection

(* An entry is a unit nearer *)
Nearer(e) == [e EXCEPT !.at = Max({@ - 1, -Old})]

LEMMA NearerIs ==
  ASSUME NEW e \in EntryType
  PROVE  /\ Nearer(e) \in EntryType /\ Nearer(e).status = e.status
         /\ Nearer(e).targets = e.targets /\ Nearer(e).carried = e.carried
         /\ Nearer(e).at >= -Old /\ (e.at >= -Old => Nearer(e).at <= e.at)
<1>1. PICK t \in Int : t = e.at
  BY DEF EntryType
<1>2. PICK u \in Int : u = Max({t - 1, -Old}) /\ u >= -Old /\ (t >= -Old => u <= t)
  BY EarlierIs
<1>3. Nearer(e) = [e EXCEPT !.at = u]
  BY <1>1, <1>2 DEF Nearer
<1>4. Nearer(e) \in EntryType /\ Nearer(e).at = u
  BY <1>3 DEF EntryType
<1> QED BY <1>1, <1>2, <1>3, <1>4 DEF EntryType

LEMMA PassQueue ==
  ASSUME EntriesOK(queue), Pass
  PROVE  EntriesOK(queue') /\ \A i \in Places : queue'[i].carried = queue[i].carried
<1>1. queue' = [i \in Places |-> IF Booked(i) THEN Nearer(queue[i]) ELSE queue[i]]
  BY DEF Pass, Nearer
<1>2. ASSUME NEW i \in Places
      PROVE  /\ queue'[i] \in EntryType /\ queue'[i].status = queue[i].status
             /\ queue'[i].targets = queue[i].targets /\ queue'[i].carried = queue[i].carried
  <2>1. PICK e \in EntryType : e = queue[i]
    BY DEF EntriesOK
  <2>2. queue'[i] \in {e, Nearer(e)}
    BY <1>1, <2>1
  <2> QED BY <2>1, <2>2, NearerIs
<1> QED BY <1>1, <1>2 DEF EntriesOK

(* What a process holds, a unit later *)
Later(w) ==
  [w EXCEPT !.clock = @ - 1, !.later = [a \in DOMAIN @ |-> @[a] - 1],
            !.due = {[d EXCEPT !.entry = Nearer(@)] : d \in @}]

LEMMA LaterIs ==
  ASSUME NEW w, WorkOK(w), w.clock > -MaxLag
  PROVE  /\ WorkOK(Later(w)) /\ Later(w).clock = w.clock - 1
         /\ Later(w).to = w.to /\ Later(w).text = w.text
         /\ Later(w).force = w.force /\ Later(w).alone = w.alone
         /\ Later(w).place = w.place
         /\ Later(w).later = [a \in DOMAIN w.later |-> w.later[a] - 1]
         /\ \A d \in Later(w).due : \E o \in w.due : d.place = o.place
<1>1. PICK c : c = w.clock - 1
  OBVIOUS
<1>2. PICK l : l = [a \in DOMAIN w.later |-> w.later[a] - 1]
  OBVIOUS
<1>3. PICK due : due = {[d EXCEPT !.entry = Nearer(@)] : d \in w.due}
  OBVIOUS
<1>4. Later(w) = [w EXCEPT !.clock = c, !.later = l, !.due = due]
  BY <1>1, <1>2, <1>3 DEF Later
<1>5. w \in WorkType({w.later}) /\ LaterOK(w.later) /\ DueOK(w.due)
  BY DEF WorkOK
<1>6. c \in -MaxLag..0
  <2>1. w.clock \in -MaxLag..0
    BY <1>5 DEF WorkType
  <2> QED BY <1>1, <2>1, Constants
<1>7. LaterOK(l)
  BY <1>2, <1>5 DEF LaterOK
<1>8. ASSUME NEW d \in due
      PROVE  /\ d \in [place : Places, entry : EntryType]
             /\ \E o \in w.due : d.place = o.place /\ d = [o EXCEPT !.entry = Nearer(o.entry)]
  <2>1. PICK o \in w.due : d = [o EXCEPT !.entry = Nearer(o.entry)]
    BY <1>3
  <2>2. o \in [place : Places, entry : EntryType]
    BY <1>5 DEF WorkType
  <2>3. Nearer(o.entry) \in EntryType
    BY <2>2, NearerIs
  <2> QED BY <2>1, <2>2, <2>3
<1>9. DueOK(due)
  BY <1>5, <1>8 DEF DueOK
<1>10. /\ Later(w) \in WorkType({l}) /\ Later(w).later = l /\ Later(w).due = due
       /\ Later(w).clock = c /\ Later(w).to = w.to /\ Later(w).text = w.text
       /\ Later(w).force = w.force /\ Later(w).alone = w.alone /\ Later(w).place = w.place
  BY <1>4, <1>5, <1>6, <1>8 DEF WorkType
<1> QED BY <1>1, <1>2, <1>7, <1>8, <1>9, <1>10 DEF WorkOK

LEMMA PassKnows ==
  ASSUME MarksOK(history), EntriesOK(queue), Pass, NEW w, WorkOK(w), w.clock > -MaxLag,
         NEW sends \in BOOLEAN, KnowsAll(w, sends, history, queue)
  PROVE  KnowsAll(Later(w), sends, history', queue')
<1>1. PICK v : v = Later(w)
  OBVIOUS
<1>2. /\ v.clock = w.clock - 1 /\ v.to = w.to /\ v.text = w.text /\ v.force = w.force
      /\ \A d \in v.due : \E o \in w.due : d.place = o.place
  BY <1>1, LaterIs
<1>3. /\ w.clock \in Int /\ w.to \subseteq Accounts /\ \A d \in w.due : d.place \in Places
  BY Constants DEF WorkOK, WorkType
<1>4. PICK marks : marks = history'
  OBVIOUS
<1>5. ASSUME NEW h \in DOMAIN marks
      PROVE  \E o \in DOMAIN history :
               /\ o.at \in Int /\ h.at = o.at - 1
               /\ h.account = o.account /\ h.ok = o.ok /\ h.text = o.text
  <2>1. PICK o \in DOMAIN history : Aged(h, o)
    BY <1>4, PassMarks
  <2>2. o \in Mark
    BY DEF MarksOK
  <2>3. o.at \in Int
    BY <2>2, Constants DEF Mark
  <2> QED BY <2>1, <2>2, <2>3 DEF Mark, Aged
<1>6. \A h \in DOMAIN marks : h.at <= v.clock
  BY <1>2, <1>3, <1>5 DEF KnowsAll
<1>7. \A d \in v.due : queue'[d.place].carried = {}
  BY <1>2, <1>3, PassQueue DEF KnowsAll
<1>8. ASSUME TextHeld(history, w) PROVE TextHeld(marks, v)
  <2>1. SUFFICES ASSUME NEW a \in v.to, NEW h \in DOMAIN marks,
                        h.account = a, h.ok, h.text = v.text, v.clock - h.at < RepostGap
                 PROVE  FALSE
    BY DEF TextHeld
  <2>2. PICK o \in DOMAIN history :
          /\ o.at \in Int /\ h.at = o.at - 1
          /\ h.account = o.account /\ h.ok = o.ok /\ h.text = o.text
    BY <1>5
  <2>3. w.clock - o.at < RepostGap
    BY <1>2, <1>3, <2>1, <2>2, Constants
  <2> QED BY <1>2, <1>8, <2>1, <2>2, <2>3 DEF TextHeld
<1>9. ASSUME SlotHeld(history, w) PROVE SlotHeld(marks, v)
  <2>1. ASSUME NEW a \in v.to, NEW h \in DOMAIN marks, NetworkOf[h.account] = NetworkOf[a]
        PROVE  v.clock >= h.at + GapOf[a]
    <3>1. PICK o \in DOMAIN history :
            o.at \in Int /\ h.at = o.at - 1 /\ h.account = o.account
      BY <1>5
    <3>2. PICK gap \in Nat : gap = GapOf[a]
      BY <1>2, <1>3, Constants
    <3>3. w.clock >= o.at + gap
      BY <1>2, <1>9, <2>1, <3>1, <3>2 DEF SlotHeld
    <3> QED BY <1>2, <1>3, <3>1, <3>2, <3>3
  <2>2. ASSUME NEW a \in v.to, NEW b \in v.to \ {a} PROVE NetworkOf[b] # NetworkOf[a]
    BY <1>2, <1>9 DEF SlotHeld
  <2>3. ASSUME NEW a \in v.to
        PROVE  Cardinality(Posts(marks, a, v.clock - Day + 1, 0)) < MaxPerDay
    <3>1. PICK from \in Int : from = w.clock - Day + 1
      BY <1>3, Constants
    <3>2. PICK n : n = Cardinality(Posts(history, a, from, 0))
      OBVIOUS
    <3>3. PICK m : m = Cardinality(Posts(marks, a, from - 1, 0))
      OBVIOUS
    <3>4. m <= n
      BY <1>4, <3>1, <3>2, <3>3, PassPosts
    <3>5. n < MaxPerDay
      BY <1>2, <1>9, <3>1, <3>2 DEF SlotHeld
    <3>6. n \in Nat /\ m \in Nat
      <4>1. MarksOK(marks)
        BY <1>4, PassMarks
      <4> QED BY <3>2, <3>3, <4>1, PostsAreFinite, FS_CardinalityType
    <3>7. m < MaxPerDay
      BY <3>4, <3>5, <3>6, Constants
    <3>8. v.clock - Day + 1 = from - 1
      BY <1>2, <1>3, <3>1, Constants
    <3> QED BY <3>3, <3>7, <3>8
  <2> QED BY <2>1, <2>2, <2>3 DEF SlotHeld
<1> QED BY <1>1, <1>2, <1>4, <1>6, <1>7, <1>8, <1>9 DEF KnowsAll

LEMMA PassKeeps ==
  ASSUME PostInv, Pass
  PROVE  PostInv'
<1>1. Types /\ AllAlone
  BY DEF PostInv
<1>2. /\ pc' = pc /\ archived' = archived /\ uses' = uses /\ odd' = odd
      /\ \A p \in Procs : pc[p] # "idle" => work[p].clock > -MaxLag
      /\ work' = [p \in Procs |-> IF pc[p] = "idle" THEN work[p] ELSE Later(work[p])]
  BY DEF Pass, Later, Nearer
<1>3. EntriesOK(queue) /\ MarksOK(history) /\ DOMAIN work = Procs /\ \A p \in Procs : WorkOK(work[p])
  BY <1>1 DEF Types
<1>4. EntriesOK(queue') /\ MarksOK(history')
  BY <1>3, PassQueue, PassMarks
<1>5. DOMAIN work' = Procs /\ \A p \in Procs : WorkOK(work'[p])
  BY <1>2, <1>3, LaterIs
<1>6. Types'
  BY <1>1, <1>2, <1>4, <1>5 DEF Types
<1>7. ASSUME NEW p \in Procs PROVE AloneOK(p, pc', work', history', queue')
  <2>1. SUFFICES ASSUME pc[p] # "idle", work'[p].alone
                 PROVE  /\ \A o \in Procs \ {p} : pc[o] = "idle"
                        /\ KnowsAll(work'[p], pc[p] = "send", history', queue')
    BY <1>2 DEF AloneOK
  <2>2. work'[p] = Later(work[p]) /\ work[p].clock > -MaxLag /\ WorkOK(work[p])
    BY <1>2, <1>3, <2>1
  <2>3. work[p].alone
    BY <2>1, <2>2, LaterIs
  <2>4. /\ \A o \in Procs \ {p} : pc[o] = "idle"
        /\ KnowsAll(work[p], pc[p] = "send", history, queue)
    BY <1>1, <2>1, <2>3 DEF AllAlone, AloneOK
  <2>5. KnowsAll(Later(work[p]), pc[p] = "send", history', queue')
    BY <1>3, <2>2, <2>4, PassKnows
  <2> QED BY <2>2, <2>4, <2>5
<1> QED BY <1>6, <1>7 DEF PostInv, AllAlone

(***************************************************************************)
(* A post by hand, and an entry that is due                                *)
(***************************************************************************)
(* An account of a plan is not sent the text again *)
LEMMA TextIsHeld ==
  ASSUME NEW w, NEW S, w.to \subseteq {a \in S : ~recentDuplicate(w.text, a, w.clock)}
  PROVE  TextHeld(history, w)
BY DEF TextHeld, recentDuplicate

LEMMA PostKeeps ==
  ASSUME PostInv, NEW p \in People, NEW targets \in SUBSET Accounts, NEW text \in Texts, NEW mode,
         Post(p, targets, text, mode)
  PROVE  PostInv' /\ (pc'[p] = "send" => work'[p].to \cap archived = {})
<1> DEFINE S == {a \in targets : ~recentDuplicate(text, a, 0)}
           from == IF mode = "ahead" THEN Lead ELSE 0
           Now(slots) == {a \in DOMAIN slots : slots[a] <= 0}
           Rest(slots) == Only(slots, DOMAIN slots \ Now(slots))
           Room(slots, line) == IF mode = "front" THEN reflowQueue(slots, line) ELSE queue
           Held(slots) == [Idle EXCEPT !.to = Now(slots), !.later = Rest(slots),
                                       !.text = text, !.force = (mode = "now")]
<1>1. PICK order \in SetToSeqs(S), line \in (IF mode = "front" THEN InLine ELSE {<<>>}) :
        LET slots == planTargets(order, Places, 0, from, mode)
        IN  \/ /\ Now(slots) = {}
               /\ queue' = enqueue(Room(slots, line), Rest(slots), text, mode = "now")
               /\ pc' = pc /\ work' = work
            \/ /\ Now(slots) # {}
               /\ queue' = Room(slots, line)
               /\ pc' = [pc EXCEPT ![p] = "send"]
               /\ Starts(p, Held(slots))
  BY Zenon DEF Post, Goto
<1>2. PICK slots : slots = planTargets(order, Places, 0, from, mode)
  OBVIOUS
<1>3. /\ pc[p] = "idle" /\ targets # {} /\ targets \cap archived = {}
      /\ history' = history /\ archived' = archived /\ uses' = uses /\ odd' = odd
  BY DEF Post
<1>4. Types /\ EntriesOK(queue) /\ MarksOK(history) /\ p \in Procs
  BY DEF PostInv, Types, Procs
<1>5. PlanOK(slots, order, Places, 0, mode) /\ DOMAIN slots \subseteq S /\ LaterOK(slots)
  <2>1. S \in SUBSET Accounts /\ 0 \in -Old..0 /\ from \in Int /\ Places \in SUBSET Places
    BY Constants
  <2> HIDE DEF S, from
  <2> QED BY <1>2, <1>4, <2>1, PlanFor
<1>6. PICK now : now = Now(slots)
  OBVIOUS
<1>7. PICK later : later = Rest(slots)
  OBVIOUS
<1>8. PICK room : room = Room(slots, line)
  OBVIOUS
<1>9. LaterOK(later) /\ now \subseteq S
  BY <1>5, <1>6, <1>7, OnlyIs
<1>10. EntriesOK(room) /\ \A i \in Places : room[i].carried = queue[i].carried
  <2>1. CASE mode = "front"
    <3>1. line \in InLine /\ Accounts # {}
      BY <1>1, <1>3, <2>1
    <3>2. MovedOnly(queue, room)
      BY <1>4, <1>5, <1>8, <2>1, <3>1, ReflowIs
    <3> QED BY <1>4, <3>2, MovedIs
  <2>2. CASE mode # "front"
    BY <1>4, <1>8, <2>2
  <2> QED BY <2>1, <2>2
<1>11. text \in Words /\ (mode = "now") \in BOOLEAN
  BY DEF Words
<1>12. \/ /\ queue' = enqueue(room, later, text, mode = "now")
          /\ pc' = pc /\ work' = work
       \/ /\ queue' = room
          /\ pc' = [pc EXCEPT ![p] = "send"]
          /\ Starts(p, Held(slots))
  BY <1>1, <1>2, <1>6, <1>7, <1>8
<1>13. CASE /\ queue' = enqueue(room, later, text, mode = "now")
            /\ pc' = pc /\ work' = work
  <2>1. PICK force \in BOOLEAN : force = (mode = "now")
    BY <1>11
  <2>2. /\ EntriesOK(queue')
        /\ \A i \in Places : queue'[i] = room[i] \/ queue'[i].carried = {}
    BY <1>9, <1>10, <1>11, <1>13, <2>1, EnqueueIs
  <2>3. Types'
    BY <1>3, <1>4, <1>13, <2>2 DEF Types
  <2>4. \A i \in Places : queue'[i].carried \in {{}, queue[i].carried}
    BY <1>10, <2>2
  <2>5. AllAlone'
    BY <1>3, <1>13, <2>4, QueueStep
  <2>6. pc'[p] # "send"
    BY <1>3, <1>13
  <2> QED BY <2>3, <2>5, <2>6 DEF PostInv
<1>14. CASE /\ queue' = room
            /\ pc' = [pc EXCEPT ![p] = "send"]
            /\ Starts(p, Held(slots))
  <2>1. PICK w : w = Held(slots)
    OBVIOUS
  <2>2. /\ WorkOK(w) /\ w.due = {} /\ w.clock = 0 /\ w.to = now
        /\ w.text = text /\ w.force = (mode = "now")
    <3>1. Idle \in WorkType({Idle.later}) /\ Idle.due = {} /\ Idle.clock = 0
      BY IdleOK DEF WorkOK
    <3>2. w = [Idle EXCEPT !.to = now, !.later = later, !.text = text, !.force = (mode = "now")]
      BY <1>6, <1>7, <2>1
    <3>3. /\ w \in WorkType({later}) /\ w.later = later /\ w.due = {} /\ w.clock = 0
          /\ w.to = now /\ w.text = text /\ w.force = (mode = "now")
      BY <1>9, <1>11, <3>1, <3>2 DEF WorkType
    <3> QED BY <1>9, <3>3 DEF WorkOK, DueOK
  <2>3. /\ DOMAIN work' = Procs /\ \A o \in Procs : WorkOK(work'[o])
        /\ \A o \in Procs \ {p} : pc[o] # "idle" => ~work'[o].alone
        /\ work'[p].alone => \A o \in Procs \ {p} : pc[o] = "idle"
        /\ work'[p].clock = 0 /\ work'[p].due = {} /\ work'[p].to = now
        /\ work'[p].text = text /\ work'[p].force = (mode = "now")
    <3>1. Starts(p, w)
      BY <1>14, <2>1
    <3>2. Types /\ p \in Procs /\ pc[p] = "idle" /\ WorkOK(w)
      BY <1>3, <1>4, <2>2
    <3>3. /\ DOMAIN work' = Procs /\ \A o \in Procs : WorkOK(work'[o])
          /\ \A o \in Procs \ {p} : pc[o] # "idle" => ~work'[o].alone
          /\ work'[p].alone => \A o \in Procs \ {p} : pc[o] = "idle"
          /\ work'[p].clock = w.clock /\ work'[p].due = w.due /\ work'[p].to = w.to
          /\ work'[p].text = w.text /\ work'[p].force = w.force
      BY <3>1, <3>2, StartsIs
    <3> QED BY <2>2, <3>3
  <2>4. /\ pc' \in [Procs -> {"idle", "walk", "send", "finish"}] /\ pc'[p] = "send"
        /\ \A o \in Procs \ {p} : pc'[o] = pc[o]
    BY <1>4, <1>14 DEF Types
  <2>5. Types'
    BY <1>3, <1>4, <1>10, <1>14, <2>3, <2>4 DEF Types
  <2>6. \A h \in DOMAIN history : h.at <= 0
    BY <1>4, Constants DEF MarksOK, Mark
  <2>7. PICK v : v = work'[p]
    OBVIOUS
  <2>8. TextHeld(history, v)
    BY <1>9, <2>3, <2>7, TextIsHeld
  <2>9. v.force \/ SlotHeld(history, v)
    <3>1. SUFFICES ASSUME mode # "now" PROVE SlotHeld(history, v)
      BY <2>3, <2>7
    <3>2. v.to = {a \in DOMAIN slots : slots[a] <= 0} /\ v.clock = 0 /\ 0 \in -Old..0
      BY <1>6, <2>3, <2>7, Constants
    <3> QED BY <1>4, <1>5, <2>6, <3>1, <3>2, NowIsHeld
  <2>10. KnowsAll(v, TRUE, history', queue')
    BY <1>3, <2>3, <2>6, <2>7, <2>8, <2>9 DEF KnowsAll
  <2>11. AloneOK(p, pc', work', history', queue')
    BY <2>3, <2>4, <2>7, <2>10 DEF AloneOK
  <2>12. \A o \in Procs \ {p} : AloneOK(o, pc', work', history', queue')
    BY <2>3, <2>4 DEF AloneOK
  <2>13. work'[p].to \cap archived = {}
    BY <1>3, <1>9, <2>3
  <2> QED BY <2>5, <2>11, <2>12, <2>13 DEF PostInv, AllAlone
<1> QED BY <1>12, <1>13, <1>14

(* The queue after an entry was seen to, and the others it made *)
LEMMA SeenTo ==
  ASSUME EntriesOK(queue), NEW i \in Places, NEW e \in EntryType,
         e.status \in {"pending", "sending"} => e.targets # {},
         e.status \in {"none", "pending"} => e.carried = {},
         NEW slots, LaterOK(slots), NEW text \in Words, NEW force \in BOOLEAN,
         NEW q, q = enqueue(updateQueued(queue, i, e), slots, text, force)
  PROVE  /\ EntriesOK(q)
         /\ \A j \in Places \ {i} : q[j].carried \in {{}, queue[j].carried}
<1>1. PICK r : r = updateQueued(queue, i, e)
  OBVIOUS
<1>2. EntriesOK(r) /\ \A j \in Places \ {i} : r[j] = queue[j]
  BY <1>1, UpdateIs
<1>3. EntriesOK(q) /\ \A j \in Places : q[j] = r[j] \/ q[j].carried = {}
  BY <1>1, <1>2, EnqueueIs
<1> QED BY <1>2, <1>3

LEMMA WalkKeeps ==
  ASSUME PostInv, NEW p \in Schedulers, NEW d \in work[p].due, Walk(p, d)
  PROVE  /\ PostInv'
         /\ pc'[p] = "send" =>
              /\ work'[p].to \cap archived = {}
              /\ work'[p].alone => queue[work'[p].place].carried \cap work'[p].to = {}
<1> DEFINE i == d.place
           e == d.entry
           W == [work[p] EXCEPT !.due = @ \ {d}]
           S == {a \in Live(e.targets) : ~recentDuplicate(e.text, a, W.clock)}
           mode == IF e.force THEN "now" ELSE "paced"
           Now(slots) == {a \in DOMAIN slots : slots[a] <= W.clock}
           Rest(slots) == Only(slots, DOMAIN slots \ Now(slots))
           cancel == updateQueued(queue, i, Done(i, Procs \ {p}))
           Moved(t, first) == [queue[i] EXCEPT !.at = t, !.targets = {first}]
           Sent(now) == [queue[i] EXCEPT !.status = "sending", !.targets = now,
                                         !.carried = @ \cup now]
           Held(now) == [W EXCEPT !.place = i, !.to = now, !.text = e.text, !.force = e.force]
<1>1. \/ queue' = cancel /\ GoesOn(p, W)
      \/ \E order \in SetToSeqs(S) :
           LET slots == planTargets(order, Places \ {i}, W.clock, W.clock, mode)
           IN  \/ queue' = cancel /\ GoesOn(p, W)
               \/ /\ \E first \in DOMAIN slots :
                       queue' = enqueue(updateQueued(queue, i, Moved(slots[first], first)),
                                        Only(slots, DOMAIN slots \ {first}), e.text, e.force)
                  /\ GoesOn(p, W)
               \/ /\ Now(slots) # {}
                  /\ queue' = enqueue(updateQueued(queue, i, Sent(Now(slots))),
                                      Rest(slots), e.text, e.force)
                  /\ pc' = [pc EXCEPT ![p] = "send"]
                  /\ work' = [work EXCEPT ![p] = Held(Now(slots))]
  BY Zenon DEF Walk, Goto
<1>2. /\ pc[p] = "walk" /\ history' = history /\ archived' = archived
      /\ uses' = uses /\ odd' = odd
  BY DEF Walk
<1>3. Types /\ EntriesOK(queue) /\ MarksOK(history) /\ p \in Procs /\ WorkOK(work[p])
  BY DEF PostInv, Types, Procs
<1>4. PICK w : w = W
  OBVIOUS
<1>5. /\ WorkOK(w) /\ w.due = work[p].due \ {d} /\ w.clock = work[p].clock
      /\ w.alone = work[p].alone
  <2>1. work[p] \in WorkType({work[p].later}) /\ LaterOK(work[p].later) /\ DueOK(work[p].due)
    BY <1>3 DEF WorkOK
  <2>2. /\ w \in WorkType({work[p].later}) /\ w.later = work[p].later
        /\ w.due = work[p].due \ {d} /\ w.clock = work[p].clock /\ w.alone = work[p].alone
    BY <1>4, <2>1 DEF WorkType
  <2> QED BY <2>1, <2>2 DEF WorkOK, DueOK
<1>6. /\ i \in Places /\ e \in EntryType /\ e.targets \subseteq Accounts
      /\ e.text \in Words /\ e.force \in BOOLEAN
  BY <1>3 DEF WorkOK, WorkType, EntryType
<1>7. w.clock \in -MaxLag..0 /\ w.clock \in -Old..0 /\ w.clock \in Int
  BY <1>5, Constants DEF WorkOK, WorkType, Old
<1>8. \A o \in w.due : o.place \in Places \ {i}
  BY <1>3, <1>5, <1>6 DEF WorkOK, WorkType, DueOK
<1>9. work[p].alone => KnowsAll(work[p], FALSE, history, queue)
  BY <1>2, <1>3 DEF PostInv, AllAlone, AloneOK
(* The turn goes on *)
<1>10. ASSUME GoesOn(p, w), EntriesOK(queue'),
              \A j \in Places \ {i} : queue'[j].carried \in {{}, queue[j].carried}
       PROVE  PostInv' /\ pc'[p] # "send"
  <2>1. /\ DOMAIN work' = Procs /\ \A o \in Procs : WorkOK(work'[o])
        /\ \A o \in Procs \ {p} : work'[o] = work[o] /\ pc'[o] = pc[o]
        /\ pc' \in [Procs -> {"idle", "walk", "send", "finish"}]
        /\ pc'[p] \in {"idle", "walk"}
        /\ pc'[p] # "idle" => /\ work'[p].due = w.due
                              /\ work'[p].clock = w.clock
                              /\ work'[p].alone = w.alone
    BY <1>3, <1>5, <1>10, GoesOnIs
  <2>2. Types'
    BY <1>2, <1>3, <1>10, <2>1 DEF Types
  <2>3. ASSUME pc'[p] # "idle", work'[p].alone
        PROVE  work[p].alone /\ KnowsAll(work'[p], pc'[p] = "send", history', queue')
    BY <1>2, <1>5, <1>8, <1>9, <1>10, <2>1, <2>3 DEF KnowsAll
  <2>4. AllAlone'
    BY <1>2, <1>3, <2>1, <2>3, OthersStay
  <2> QED BY <2>1, <2>2, <2>4 DEF PostInv
(* Its targets are archived, or had the text *)
<1>11. ASSUME queue' = cancel, GoesOn(p, w) PROVE PostInv' /\ pc'[p] # "send"
  <2>1. PICK o : o = Done(i, Procs \ {p})
    OBVIOUS
  <2>2. /\ o \in EntryType /\ o.status \in {"none", "done"}
        /\ o.status = "none" => o.carried = {}
    BY <1>3, <1>6, <2>1, DoneIs
  <2>3. /\ o.status \in {"pending", "sending"} => o.targets # {}
        /\ o.status \in {"none", "pending"} => o.carried = {}
    BY <2>2
  <2>4. EntriesOK(queue') /\ \A j \in Places \ {i} : queue'[j] = queue[j]
    <3>1. queue' = updateQueued(queue, i, o)
      BY <1>11, <2>1
    <3> HIDE DEF i
    <3> QED BY <1>3, <1>6, <2>2, <2>3, <3>1, UpdateIs
  <2> QED BY <1>10, <1>11, <2>4
(* It is planned *)
<1>12. ASSUME NEW order \in SetToSeqs(S), NEW slots,
              slots = planTargets(order, Places \ {i}, W.clock, W.clock, mode)
       PROVE  /\ PlanOK(slots, order, Places \ {i}, w.clock, mode)
              /\ DOMAIN slots \subseteq S /\ LaterOK(slots) /\ S \subseteq Accounts
  <2>1. S \in SUBSET Accounts /\ Places \ {i} \in SUBSET Places
    BY <1>6 DEF Live
  <2> HIDE DEF S, mode, W
  <2> QED BY <1>3, <1>4, <1>7, <1>12, <2>1, PlanFor
<1>13. ASSUME NEW slots, LaterOK(slots), NEW first \in DOMAIN slots, GoesOn(p, w),
              queue' = enqueue(updateQueued(queue, i, Moved(slots[first], first)),
                               Only(slots, DOMAIN slots \ {first}), e.text, e.force)
       PROVE  PostInv' /\ pc'[p] # "send"
  <2>1. PICK o : o = Moved(slots[first], first)
    OBVIOUS
  <2>2. queue[i] \in EntryType /\ (queue[i].status \in {"none", "pending"} => queue[i].carried = {})
    BY <1>3, <1>6 DEF EntriesOK
  <2>3. slots[first] \in Int /\ {first} \in SUBSET Accounts
    BY <1>13 DEF LaterOK
  <2>4. /\ o \in EntryType /\ o.targets # {}
        /\ o.status \in {"none", "pending"} => o.carried = {}
    BY <2>1, <2>2, <2>3 DEF EntryType
  <2>5. PICK later : later = Only(slots, DOMAIN slots \ {first})
    OBVIOUS
  <2>6. LaterOK(later)
    BY <1>13, <2>5, OnlyIs
  <2>7. queue' = enqueue(updateQueued(queue, i, o), later, e.text, e.force)
    BY <1>13, <2>1, <2>5
  <2>8. /\ EntriesOK(queue')
        /\ \A j \in Places \ {i} : queue'[j].carried \in {{}, queue[j].carried}
    BY <1>3, <1>6, <2>4, <2>6, <2>7, SeenTo
  <2> QED BY <1>10, <1>13, <2>8
<1>14. ASSUME NEW order \in SetToSeqs(S), NEW slots,
              slots = planTargets(order, Places \ {i}, W.clock, W.clock, mode),
              Now(slots) # {},
              queue' = enqueue(updateQueued(queue, i, Sent(Now(slots))),
                               Rest(slots), e.text, e.force),
              pc' = [pc EXCEPT ![p] = "send"],
              work' = [work EXCEPT ![p] = Held(Now(slots))]
       PROVE  /\ PostInv' /\ work'[p].to \cap archived = {}
              /\ work'[p].alone => queue[work'[p].place].carried \cap work'[p].to = {}
  <2>1. /\ PlanOK(slots, order, Places \ {i}, w.clock, mode)
        /\ DOMAIN slots \subseteq S /\ LaterOK(slots) /\ S \subseteq Accounts
    BY <1>12, <1>14
  <2>2. PICK now : now = Now(slots)
    OBVIOUS
  <2>3. now # {} /\ now \subseteq S /\ now \in SUBSET Accounts
          /\ now = {a \in DOMAIN slots : slots[a] <= w.clock}
    BY <1>4, <1>14, <2>1, <2>2
  <2>4. PICK o : o = Sent(now)
    OBVIOUS
  <2>5. queue[i] \in EntryType
    BY <1>3, <1>6 DEF EntriesOK
  <2>6. o \in EntryType /\ o.targets # {} /\ o.status = "sending"
    BY <2>3, <2>4, <2>5 DEF EntryType, Status
  <2>7. PICK later : later = Rest(slots)
    OBVIOUS
  <2>8. LaterOK(later)
    BY <2>1, <2>7, OnlyIs
  <2>9. queue' = enqueue(updateQueued(queue, i, o), later, e.text, e.force)
    BY <1>14, <2>2, <2>4, <2>7
  <2>10. /\ EntriesOK(queue')
         /\ \A j \in Places \ {i} : queue'[j].carried \in {{}, queue[j].carried}
    BY <1>3, <1>6, <2>6, <2>8, <2>9, SeenTo
  <2>11. PICK v : v = [w EXCEPT !.place = i, !.to = now, !.text = e.text, !.force = e.force]
    OBVIOUS
  <2>12. /\ WorkOK(v) /\ v.due = w.due /\ v.clock = w.clock /\ v.alone = w.alone
         /\ v.place = i /\ v.to = now /\ v.text = e.text /\ v.force = e.force
    <3>1. w \in WorkType({w.later}) /\ LaterOK(w.later) /\ DueOK(w.due)
      BY <1>5 DEF WorkOK
    <3>2. /\ v \in WorkType({w.later}) /\ v.later = w.later
          /\ v.due = w.due /\ v.clock = w.clock /\ v.alone = w.alone
          /\ v.place = i /\ v.to = now /\ v.text = e.text /\ v.force = e.force
      BY <1>6, <2>3, <2>11, <3>1 DEF WorkType
    <3> QED BY <3>1, <3>2 DEF WorkOK
  <2>13. work' = [work EXCEPT ![p] = v]
    BY <1>4, <1>14, <2>2, <2>11
  <2>14. /\ DOMAIN work' = Procs /\ work'[p] = v
         /\ \A u \in Procs \ {p} : work'[u] = work[u] /\ pc'[u] = pc[u]
         /\ pc' \in [Procs -> {"idle", "walk", "send", "finish"}] /\ pc'[p] = "send"
    BY <1>3, <1>14, <2>13 DEF Types
  <2>15. \A u \in Procs : WorkOK(work'[u])
    BY <1>3, <2>12, <2>14 DEF Types
  <2>16. Types'
    BY <1>2, <1>3, <2>10, <2>14, <2>15 DEF Types
  <2>17. ASSUME v.alone PROVE work[p].alone /\ KnowsAll(v, TRUE, history, queue')
    <3>1. KnowsAll(work[p], FALSE, history, queue) /\ work[p].alone
      BY <1>5, <1>9, <2>12, <2>17
    <3>2. \A h \in DOMAIN history : h.at <= w.clock
      BY <1>5, <3>1 DEF KnowsAll
    <3>3. \A u \in v.due : queue'[u.place].carried = {}
      BY <1>5, <1>8, <2>10, <2>12, <3>1 DEF KnowsAll
    <3>4. TextHeld(history, v)
      <4>1. v.to \subseteq {a \in Live(e.targets) : ~recentDuplicate(v.text, a, v.clock)}
        BY <1>4, <2>3, <2>12
      <4> QED BY <4>1, TextIsHeld
    <3>5. v.force \/ SlotHeld(history, v)
      <4>1. SUFFICES ASSUME ~e.force PROVE SlotHeld(history, v)
        BY <2>12
      <4>2. mode = "paced" /\ Places \ {i} \in SUBSET Places
        BY <4>1
      <4>3. PlanOK(slots, order, Places \ {i}, w.clock, "paced")
        BY <2>1, <4>2
      <4> QED BY <1>3, <1>7, <2>1, <2>3, <2>12, <3>2, <4>2, <4>3, NowIsHeld
    <3> QED BY <2>12, <3>1, <3>2, <3>3, <3>4, <3>5 DEF KnowsAll
  <2>18. AllAlone'
    BY <1>2, <1>3, <2>14, <2>17, OthersStay
  <2>19. work'[p].to \cap archived = {}
    BY <2>3, <2>12, <2>14 DEF Live
  <2>20. v.alone => queue[v.place].carried \cap v.to = {}
    BY <1>5, <1>9, <2>12 DEF KnowsAll
  <2> QED BY <2>14, <2>16, <2>18, <2>19, <2>20 DEF PostInv
<1>15. CASE queue' = cancel /\ GoesOn(p, W)
  BY <1>4, <1>11, <1>15
<1>16. ASSUME NEW order \in SetToSeqs(S), NEW slots,
              slots = planTargets(order, Places \ {i}, W.clock, W.clock, mode),
              NEW first \in DOMAIN slots,
              queue' = enqueue(updateQueued(queue, i, Moved(slots[first], first)),
                               Only(slots, DOMAIN slots \ {first}), e.text, e.force),
              GoesOn(p, W)
       PROVE  PostInv' /\ pc'[p] # "send"
  <2>1. LaterOK(slots)
    BY <1>12, <1>16
  <2> QED BY <1>4, <1>13, <1>16, <2>1
<1> HIDE DEF i, e, W, S, mode, Now, Rest, cancel, Moved, Sent, Held
<1> QED BY <1>1, <1>14, <1>15, <1>16

(* What a crash leaves of an entry's writes: the entry, and some parts of it *)
CutOffQueue(p, d, q) ==
  \E trimmed, slots, parts :
    /\ LaterOK(slots) /\ \A a \in DOMAIN slots : slots[a] >= -Old
    /\ \/ trimmed = queue
       \/ trimmed = updateQueued(queue, d.place,
                      [queue[d.place] EXCEPT !.targets = Live(d.entry.targets)])
    /\ Fits(trimmed, Only(slots, parts))
    /\ q = enqueue(trimmed, Only(slots, parts), d.entry.text, d.entry.force)

LEMMA CutOffIs ==
  ASSUME Types, NEW p \in Schedulers, NEW d \in work[p].due, CutOff(p, d)
  PROVE  CutOffQueue(p, d, queue')
<1> DEFINE S == {a \in Live(d.entry.targets) : ~recentDuplicate(d.entry.text, a, work[p].clock)}
           mode == IF d.entry.force THEN "now" ELSE "paced"
           t == IF Live(d.entry.targets) = d.entry.targets THEN queue
                ELSE updateQueued(queue, d.place,
                       [queue[d.place] EXCEPT !.targets = Live(d.entry.targets)])
<1>1. PICK order \in SetToSeqs(S) :
        LET slots == planTargets(order, Places \ {d.place}, work[p].clock, work[p].clock, mode)
        IN  \E parts :
              /\ Fits(t, Only(slots, parts))
              /\ queue' = enqueue(t, Only(slots, parts), d.entry.text, d.entry.force)
  BY Zenon DEF CutOff
<1>2. PICK slots :
        slots = planTargets(order, Places \ {d.place}, work[p].clock, work[p].clock, mode)
  OBVIOUS
<1>3. PICK parts :
        /\ Fits(t, Only(slots, parts))
        /\ queue' = enqueue(t, Only(slots, parts), d.entry.text, d.entry.force)
  BY <1>1, <1>2
<1>4. WorkOK(work[p]) /\ EntriesOK(queue) /\ MarksOK(history)
  BY DEF Types, Procs
<1>5. d.entry \in EntryType /\ d.place \in Places /\ work[p].clock \in -MaxLag..0
  BY <1>4 DEF WorkOK, WorkType
<1>6. S \in SUBSET Accounts /\ Places \ {d.place} \in SUBSET Places
        /\ work[p].clock \in -Old..0 /\ work[p].clock \in Int
  BY <1>5, Constants DEF EntryType, Live, Old
<1>7. LaterOK(slots) /\ \A a \in DOMAIN slots : slots[a] >= -Old
  <2> HIDE DEF S, mode
  <2>1. /\ PlanOK(slots, order, Places \ {d.place}, work[p].clock, mode)
        /\ LaterOK(slots) /\ DOMAIN slots \subseteq S
    BY <1>2, <1>4, <1>6, PlanFor
  <2>2. \A a \in DOMAIN slots : slots[a] >= work[p].clock /\ slots[a] \in Int
    BY <2>1 DEF PlanOK, LaterOK
  <2>3. work[p].clock >= -Old /\ -Old \in Int
    BY <1>6, Constants
  <2> QED BY <1>6, <2>1, <2>2, <2>3
<1> HIDE DEF S, mode
<1> QED BY <1>3, <1>7 DEF CutOffQueue

LEMMA CutOffKeeps ==
  ASSUME PostInv, NEW p \in Schedulers, NEW d \in work[p].due, CutOff(p, d)
  PROVE  PostInv'
<1>1. Types /\ p \in Procs /\ pc[p] = "walk" /\ Live(d.entry.targets) # {}
  BY DEF PostInv, CutOff, Procs
<1>2. /\ pc' = [pc EXCEPT ![p] = "idle"] /\ work' = [work EXCEPT ![p] = Idle]
      /\ history' = history /\ archived' = archived
      /\ uses' = uses /\ odd < MaxOdd /\ odd' = odd + 1
  BY DEF CutOff, Goto, Odd
<1>3. /\ pc' \in [Procs -> {"idle", "walk", "send", "finish"}] /\ pc'[p] = "idle"
      /\ \A o \in Procs \ {p} : work'[o] = work[o] /\ pc'[o] = pc[o]
  BY <1>1, <1>2 DEF Types
<1>4. odd' \in 0..MaxOdd
  BY <1>1, <1>2, Constants DEF Types
<1>5. DOMAIN work' = Procs /\ \A o \in Procs : WorkOK(work'[o])
  BY <1>1, <1>2, IdleOK DEF Types
<1>6. CutOffQueue(p, d, queue')
  BY <1>1, CutOffIs
<1>7. PICK trimmed, slots, parts :
        /\ LaterOK(slots)
        /\ \/ trimmed = queue
           \/ trimmed = updateQueued(queue, d.place,
                          [queue[d.place] EXCEPT !.targets = Live(d.entry.targets)])
        /\ queue' = enqueue(trimmed, Only(slots, parts), d.entry.text, d.entry.force)
  BY <1>6 DEF CutOffQueue
<1>8. PICK i \in Places : i = d.place
  BY <1>1 DEF Types, WorkOK, WorkType
<1>9. d.entry \in EntryType
  BY <1>1 DEF Types, WorkOK, WorkType
<1>10. PICK live \in SUBSET Accounts : live = Live(d.entry.targets)
  BY <1>9 DEF EntryType, Live
<1>11. PICK o : o = [queue[i] EXCEPT !.targets = live]
  OBVIOUS
<1>12. /\ o \in EntryType /\ o.targets = live /\ o.carried = queue[i].carried
       /\ o.status \in {"none", "pending"} => o.carried = {}
  <2>1. queue[i] \in EntryType /\ (queue[i].status \in {"none", "pending"} => queue[i].carried = {})
    BY <1>1 DEF Types, EntriesOK
  <2> QED BY <1>11, <2>1 DEF EntryType
<1>13. EntriesOK(trimmed) /\ \A j \in Places : trimmed[j].carried = queue[j].carried
  <2>1. CASE trimmed = queue
    BY <1>1, <2>1 DEF Types
  <2>2. CASE trimmed = updateQueued(queue, i, o)
    <3>1. /\ EntriesOK(trimmed) /\ trimmed[i] \in {queue[i], o}
          /\ \A j \in Places \ {i} : trimmed[j] = queue[j]
      BY <1>1, <1>10, <1>12, <2>2, UpdateIs DEF Types
    <3> QED BY <1>12, <3>1
  <2> QED BY <1>7, <1>8, <1>10, <1>11, <2>1, <2>2
<1>14. EntriesOK(queue') /\ \A j \in Places : queue'[j].carried \in {{}, queue[j].carried}
  <2>1. LaterOK(Only(slots, parts))
    BY <1>7, OnlyIs
  <2>2. d.entry.text \in Words /\ d.entry.force \in BOOLEAN
    BY <1>9 DEF EntryType
  <2>3. /\ EntriesOK(queue')
        /\ \A j \in Places : queue'[j] = trimmed[j] \/ queue'[j].carried = {}
    BY <1>7, <1>13, <2>1, <2>2, EnqueueIs
  <2> QED BY <1>13, <2>3
<1>15. Types'
  BY <1>1, <1>2, <1>3, <1>4, <1>5, <1>14 DEF Types
<1>16. ASSUME NEW q \in Procs PROVE AloneOK(q, pc', work', history', queue')
  <2>1. CASE q = p
    BY <1>3, <2>1 DEF AloneOK
  <2>2. CASE q # p /\ pc[q] # "idle"
    BY <1>1, <1>3, <2>2, NotAlone DEF PostInv, AloneOK
  <2>3. CASE q # p /\ pc[q] = "idle"
    BY <1>3, <2>3 DEF AloneOK
  <2> QED BY <2>1, <2>2, <2>3
<1> QED BY <1>15, <1>16 DEF PostInv, AllAlone

LEMMA ScheduleKeeps ==
  ASSUME PostInv, NEW targets \in SUBSET Accounts, NEW text \in Texts, schedule(targets, text)
  PROVE  PostInv'
<1>1. PICK i \in Places : queue' = [queue EXCEPT ![i] = Entry(Lead, targets, text, FALSE)]
  BY DEF schedule, Free
<1>2. /\ history' = history /\ archived' = archived /\ targets # {}
      /\ pc' = pc /\ work' = work /\ uses' = uses /\ odd' = odd
  BY DEF schedule
<1>3. PICK e : e = Entry(Lead, targets, text, FALSE)
  OBVIOUS
<1>4. e \in EntryType /\ e.targets = targets /\ e.carried = {}
  BY <1>3, Constants DEF Entry, EntryType, Status, Words
<1>5. Types
  BY DEF PostInv
<1>6. EntriesOK(queue') /\ \A j \in Places : queue'[j].carried \in {{}, queue[j].carried}
  BY <1>1, <1>2, <1>3, <1>4, <1>5 DEF Types, EntriesOK
<1>7. Types'
  BY <1>2, <1>5, <1>6 DEF Types
<1> QED BY <1>2, <1>6, <1>7, QueueStep DEF PostInv

(***************************************************************************)
(* Theorems                                                                *)
(***************************************************************************)
LEMMA PostStep ==
  ASSUME PostInv, [Next]_vars
  PROVE  PostInv'
<1>1. CASE UNCHANGED vars
  BY <1>1 DEF vars, PostInv, Types, AllAlone
<1>2. ASSUME NEW p \in People, NEW A \in SUBSET Accounts, NEW t \in Texts, NEW m, Post(p, A, t, m)
      PROVE  PostInv'
  BY <1>2, PostKeeps
<1>3. ASSUME NEW p \in Schedulers,
             Tick(p) \/ \E d \in work[p].due : Walk(p, d) \/ CutOff(p, d)
      PROVE  PostInv'
  BY <1>3, TickKeeps, WalkKeeps, CutOffKeeps
<1>4. ASSUME NEW p \in Procs, Land(p) \/ Finish(p) \/ Crash(p)
      PROVE  PostInv'
  BY <1>4, LandKeeps, FinishKeeps, CrashKeeps
<1>5. ASSUME NEW i \in Places, Cancel(i) PROVE PostInv'
  BY <1>5, CancelKeeps
<1>6. ASSUME NEW a \in Accounts, Archive(a) \/ restoreAccount(a) PROVE PostInv'
  BY <1>6, ArchiveKeeps, RestoreKeeps
<1>7. CASE Pass
  BY <1>7, PassKeeps
<1>8. ASSUME NEW A \in SUBSET Accounts, NEW t \in Texts, schedule(A, t) PROVE PostInv'
  BY <1>8, ScheduleKeeps
<1> QED BY <1>1, <1>2, <1>3, <1>4, <1>5, <1>6, <1>7, <1>8 DEF Next

(* A send that begins is a post by hand, or an entry that was due           *)
LEMMA SendBegins ==
  ASSUME PostInv, [Next]_vars, NEW p \in Procs, pc[p] # "send", pc'[p] = "send"
  PROVE  /\ work'[p].to \cap archived = {}
         /\ p \in Schedulers /\ work'[p].alone =>
              queue[work'[p].place].carried \cap work'[p].to = {}
<1>1. pc \in [Procs -> {"idle", "walk", "send", "finish"}]
  BY DEF PostInv, Types
<1>2. ASSUME NEW q \in Procs, Land(q) \/ Finish(q) \/ Crash(q) PROVE FALSE
  BY <1>1, <1>2 DEF Land, Finish, Crash, GoesOn, Goto
<1>3. ASSUME NEW q \in Schedulers, Tick(q) \/ \E d \in work[q].due : CutOff(q, d) PROVE FALSE
  BY <1>1, <1>3 DEF Tick, CutOff, Goto, Procs
<1>4. ASSUME pc' = pc PROVE FALSE
  BY <1>4
<1>5. ASSUME NEW q \in Procs \ {p}, \A o \in Procs \ {q} : pc'[o] = pc[o] PROVE FALSE
  BY <1>5
<1>6. ASSUME NEW q \in People, NEW A \in SUBSET Accounts, NEW t \in Texts, NEW m, Post(q, A, t, m)
      PROVE  q = p
  BY <1>1, <1>4, <1>6 DEF Post, Goto, Procs
<1>7. ASSUME NEW q \in Schedulers, NEW d \in work[q].due, Walk(q, d)
      PROVE  q = p
  BY <1>1, <1>7 DEF Walk, GoesOn, Goto, Procs
<1>8. ASSUME NEW A \in SUBSET Accounts, NEW t \in Texts, NEW m, p \in People, Post(p, A, t, m)
      PROVE  work'[p].to \cap archived = {} /\ p \notin Schedulers
  BY <1>8, PostKeeps, UsesAssumption
<1>9. ASSUME NEW d \in work[p].due, p \in Schedulers, Walk(p, d)
      PROVE  /\ work'[p].to \cap archived = {}
             /\ work'[p].alone => queue[work'[p].place].carried \cap work'[p].to = {}
  BY <1>9, WalkKeeps
<1>10. ~UNCHANGED vars /\ ~Pass /\ (\A i \in Places : ~Cancel(i))
         /\ (\A a \in Accounts : ~Archive(a) /\ ~restoreAccount(a))
         /\ \A A \in SUBSET Accounts, t \in Texts : ~schedule(A, t)
  BY <1>4 DEF vars, Pass, Cancel, Archive, restoreAccount, schedule
<1> QED BY <1>2, <1>3, <1>6, <1>7, <1>8, <1>9, <1>10 DEF Next

(* The inductive invariant holds throughout.                                *)
THEOREM PostInvariant == Spec => []PostInv
<1>1. Init => PostInv
  BY PostInit
<1>2. PostInv /\ [Next]_vars => PostInv'
  BY PostStep
<1> QED BY <1>1, <1>2, PTL DEF Spec

(* The queue, the history and what each process holds are always of their   *)
(* types, and what is booked is for somebody: no plan is left without a     *)
(* moment, however full the day and the network are (core/pacing.ts,        *)
(* store/queue.ts).                                                         *)
THEOREM PostTypeCorrect == Spec => []TypeOK
<1>1. PostInv => TypeOK
  <2> SUFFICES ASSUME PostInv PROVE TypeOK
    OBVIOUS
  <2>1. Types
    BY DEF PostInv
  <2>2. ASSUME NEW i \in Places
        PROVE  /\ queue[i].at \in Int /\ queue[i].text \in Texts \cup {NoText}
               /\ queue[i].targets \subseteq Accounts /\ queue[i].carried \subseteq Accounts
               /\ queue[i].status \in {"none", "pending", "sending", "done"}
               /\ Booked(i) => queue[i].targets # {}
    BY <2>1 DEF Types, EntriesOK, EntryType, Status, Words, Booked
  <2>3. ASSUME NEW h \in DOMAIN history
        PROVE  /\ history[h] \in Nat \ {0} /\ h.at \in -Old..0
               /\ h.account \in Accounts /\ h.text \in Texts \cup {NoText}
    BY <2>1 DEF Types, MarksOK, Mark, Words
  <2>4. ASSUME NEW p \in Procs
        PROVE  /\ work[p].to \subseteq Accounts /\ work[p].place \in Places \cup {0}
               /\ work[p].clock \in -MaxLag..0
    BY <2>1 DEF Types, WorkOK, WorkType
  <2> QED BY <2>1, <2>2, <2>3, <2>4 DEF Types, TypeOK
<1> QED BY <1>1, PostInvariant, PTL

(* core/pacing.ts:9-16: however many accounts, networks, gaps and entries   *)
(* there are, a send that is not forced is a gap behind all that went out   *)
(* on its network before, and goes to one account of each network.          *)
THEOREM GapIsKept == Spec => GapKept
<1>1. ASSUME PostInv, NEW p \in Procs, Lands(p), ~work[p].force, NEW a \in work[p].to
      PROVE  /\ \A h \in DOMAIN history : NetworkOf[h.account] = NetworkOf[a]
                  => work[p].clock >= h.at + GapOf[a]
             /\ \A b \in work[p].to \ {a} : NetworkOf[b] # NetworkOf[a]
  BY <1>1 DEF PostInv, AllAlone, AloneOK, KnowsAll, SlotHeld, Lands
<1> DEFINE Step == \A p \in Procs : Lands(p) /\ ~work[p].force => \A a \in work[p].to :
             /\ \A h \in DOMAIN history : NetworkOf[h.account] = NetworkOf[a]
                  => work[p].clock >= h.at + GapOf[a]
             /\ \A b \in work[p].to \ {a} : NetworkOf[b] # NetworkOf[a]
<1>2. PostInv /\ [Next]_vars => [Step]_vars
  BY <1>1
<1> QED BY <1>2, PostInvariant, PTL DEF Spec, GapKept

(* core/pacing.ts:18: no account gets more than its maxPerDay in any rolling *)
(* day, whatever the cap and the day are.                                   *)
THEOREM CapIsKept == Spec => CapKept
<1>1. ASSUME PostInv, NEW p \in Procs, Lands(p), ~work[p].force, NEW a \in work[p].to
      PROVE  Landed(a, work[p].clock - Day + 1, 0) < MaxPerDay
  <2>1. Cardinality(Posts(history, a, work[p].clock - Day + 1, 0)) < MaxPerDay
    BY <1>1 DEF PostInv, AllAlone, AloneOK, KnowsAll, SlotHeld, Lands
  <2>2. MarksOK(history)
    BY <1>1 DEF PostInv, Types
  <2> QED BY <2>1, <2>2, LandedIs
<1> DEFINE Step == \A p \in Procs : Lands(p) /\ ~work[p].force => \A a \in work[p].to :
             Landed(a, work[p].clock - Day + 1, 0) < MaxPerDay
<1>2. PostInv /\ [Next]_vars => [Step]_vars
  BY <1>1
<1> QED BY <1>2, PostInvariant, PTL DEF Spec, CapKept

(* core/pacing.ts:14: an account does not get one text twice within the      *)
(* repost gap, forced or not.                                               *)
THEOREM NothingIsRepeated == Spec => NoRepeat
<1>1. ASSUME PostInv, NEW p \in Procs, Lands(p), NEW h \in DOMAIN history,
             h.ok, h.account \in work[p].to, h.text = work[p].text
      PROVE  work[p].clock >= h.at + RepostGap
  <2>1. TextHeld(history, work[p])
    BY <1>1 DEF PostInv, AllAlone, AloneOK, KnowsAll, Lands
  <2>2. work[p].clock \in Int /\ h.at \in Int
    BY <1>1, Constants DEF PostInv, Types, WorkOK, WorkType, MarksOK, Mark
  <2>3. ~(work[p].clock - h.at < RepostGap)
    BY <1>1, <2>1 DEF TextHeld
  <2> QED BY <2>2, <2>3, Constants
<1> DEFINE Step == \A p \in Procs : Lands(p) => \A h \in DOMAIN history :
             h.ok /\ h.account \in work[p].to /\ h.text = work[p].text
               => work[p].clock >= h.at + RepostGap
<1>2. PostInv /\ [Next]_vars => [Step]_vars
  BY <1>1
<1> QED BY <1>2, PostInvariant, PTL DEF Spec, NoRepeat

(* core/scheduler.ts:4: an entry is handed to an account once, whatever      *)
(* crashes, is moved and is cancelled, unless two schedulers were at work.   *)
THEOREM HandedOnce == Spec => OncePerEntry
<1>1. ASSUME PostInv, [Next]_vars, NEW p \in Schedulers,
             pc[p] = "walk", pc'[p] = "send", work'[p].alone
      PROVE  queue[work'[p].place].carried \cap work'[p].to = {}
  BY <1>1, SendBegins DEF Procs
<1> DEFINE Step == \A p \in Schedulers :
             pc[p] = "walk" /\ pc'[p] = "send" /\ work'[p].alone =>
               queue[work'[p].place].carried \cap work'[p].to = {}
<1>2. PostInv /\ [Next]_vars => [Step]_vars
  BY <1>1
<1> QED BY <1>2, PostInvariant, PTL DEF Spec, OncePerEntry

(* core/poster.ts:286: no send begins for an archived account.               *)
THEOREM NothingToArchived == Spec => ArchivedGetsNothing
<1>1. ASSUME PostInv, [Next]_vars, NEW p \in Procs, pc[p] # "send", pc'[p] = "send"
      PROVE  work'[p].to \cap archived = {}
  BY <1>1, SendBegins
<1> DEFINE Step == \A p \in Procs : pc[p] # "send" /\ pc'[p] = "send" =>
             work'[p].to \cap archived = {}
<1>2. PostInv /\ [Next]_vars => [Step]_vars
  BY <1>1
<1> QED BY <1>2, PostInvariant, PTL DEF Spec, ArchivedGetsNothing

(***************************************************************************)
(* A post at the front makes room                                          *)
(***************************************************************************)
(* Where a reflow moves an entry, those from it on are a gap apart from it,  *)
(* when both are on one network alone                                       *)
LEMMA ReflowApart ==
  ASSUME EntriesOK(queue), NEW slots, LaterOK(slots), NEW line \in InLine,
         NEW i \in Places, NEW j \in Places, i # j, Booked(i), Booked(j),
         NEW a \in queue[i].targets, NEW b \in queue[j].targets,
         NEW r, r = reflowQueue(slots, line), r[i].at > queue[i].at
  PROVE  /\ r[j].at >= queue[j].at
         /\ (/\ queue[j].at >= queue[i].at
             /\ \A c \in queue[i].targets \cup queue[j].targets : NetworkOf[c] = NetworkOf[a]) =>
              \/ r[j].at >= r[i].at + Min(Range(GapOf))
              \/ r[i].at >= r[j].at + Min(Range(GapOf))
<1>1. a \in Accounts /\ b \in Accounts /\ Accounts # {}
  BY DEF EntriesOK, EntryType
<1>2. PICK n : n = NetworkOf[a]
  OBVIOUS
<1>3. PICK taken : taken = Slots(slots, n) /\ taken \in SUBSET Int /\ IsFiniteSet(taken)
  BY SlotsOK
<1>4. PICK at : at = reflowOn(n, taken, line) /\ \A x \in Places : Stepped(at, n, taken, line, x)
  BY <1>1, <1>3, ReflowOnIs
<1>5. r[j].at >= queue[j].at
  BY <1>1, ReflowIs
<1>6. ASSUME queue[j].at >= queue[i].at,
             \A c \in queue[i].targets \cup queue[j].targets : NetworkOf[c] = n
      PROVE  \/ r[j].at >= r[i].at + Min(Range(GapOf))
             \/ r[i].at >= r[j].at + Min(Range(GapOf))
  <2>1. PICK k \in Places : line[k] = i /\ r[i].at = reflowOn(n, Slots(slots, n), line)[k]
    BY <1>1, <1>2, <1>6, ReflowIs
  <2>2. PICK l \in Places : line[l] = j /\ r[j].at = reflowOn(n, Slots(slots, n), line)[l]
    BY <1>1, <1>2, <1>6, ReflowIs
  <2>3. r[i].at = at[k] /\ r[j].at = at[l]
    BY <1>3, <1>4, <2>1, <2>2
  <2>4. queue[i].at \in Int /\ queue[j].at \in Int
    BY DEF EntriesOK, EntryType
  <2>5. i \in After(n, taken)
    <3>1. Stepped(at, n, taken, line, k)
      BY <1>4
    <3> QED BY <2>1, <2>3, <2>4, <3>1 DEF Stepped
  <2>6. PICK t \in taken : t <= queue[i].at
    BY <2>5 DEF After
  <2>7. t \in Int
    BY <1>3
  <2>8. t <= queue[j].at
    BY <1>6, <2>4, <2>6, <2>7
  <2>9. On(n, j)
    BY <1>6 DEF On
  <2>10. j \in After(n, taken)
    BY <2>8, <2>9 DEF After
  <2>11. k # l
    BY <2>1, <2>2
  <2>12. k \in 1..(l - 1) \/ l \in 1..(k - 1)
    BY <2>11, Constants DEF Places
  <2>13. CASE k \in 1..(l - 1)
    <3>1. Stepped(at, n, taken, line, l)
      BY <1>4
    <3> QED BY <2>1, <2>2, <2>3, <2>5, <2>10, <2>13, <3>1 DEF Stepped
  <2>14. CASE l \in 1..(k - 1)
    <3>1. Stepped(at, n, taken, line, k)
      BY <1>4
    <3> QED BY <2>1, <2>2, <2>3, <2>5, <2>10, <2>14, <3>1 DEF Stepped
  <2> QED BY <2>12, <2>13, <2>14
<1> QED BY <1>2, <1>5, <1>6

LEMMA InjectionExists ==
  ASSUME NEW S, NEW T, IsFiniteSet(S), IsFiniteSet(T), Cardinality(S) <= Cardinality(T)
  PROVE  Injection(S, T) # {}
<1>1. PICK n \in Nat : n = Cardinality(S)
  BY FS_CardinalityType
<1>2. PICK m \in Nat : m = Cardinality(T)
  BY FS_CardinalityType
<1>3. PICK f \in Bijection(1..m, T) : TRUE
  BY <1>2, FS_CardinalityType DEF ExistsBijection
<1>4. IsFiniteSet(1..n) /\ Cardinality(1..n) = n
  <2>1. 1 \in Int /\ n \in Int
    OBVIOUS
  <2> QED BY <2>1, FS_Interval
<1>5. PICK g \in Bijection(S, 1..n) : TRUE
  BY <1>1, <1>4, FS_SameCardinalityBij DEF ExistsBijection
<1>6. PICK h : h = [x \in S |-> f[g[x]]]
  OBVIOUS
<1>7. 1..n \subseteq 1..m
  BY <1>1, <1>2
<1>8. f \in [1..m -> T] /\ \A x, y \in 1..m : f[x] = f[y] => x = y
  BY <1>3 DEF Bijection, Injection, IsInjective
<1>9. g \in [S -> 1..n] /\ \A x, y \in S : g[x] = g[y] => x = y
  BY <1>5 DEF Bijection, Injection, IsInjective
<1>10. h \in [S -> T]
  BY <1>6, <1>7, <1>8, <1>9
<1>11. \A x, y \in S : h[x] = h[y] => x = y
  BY <1>6, <1>7, <1>8, <1>9
<1>12. h \in Injection(S, T)
  BY <1>10, <1>11 DEF Injection, IsInjective
<1> QED BY <1>12

(* Entries that are enqueued take places that are free, if there are enough, *)
(* and leave the other places as they are                                    *)
LEMMA EnqueuedIn ==
  ASSUME NEW q, NEW slots, LaterOK(slots), NEW text, NEW force, NEW n \in Nat,
         Cardinality(Free(q)) >= Cardinality(DOMAIN slots) + n
  PROVE  /\ \A i \in Places \ Free(q) : enqueue(q, slots, text, force)[i] = q[i]
         /\ \E F \in SUBSET Free(q) :
              Cardinality(F) >= n /\ \A i \in F : enqueue(q, slots, text, force)[i] = q[i]
<1> DEFINE place == CHOOSE f \in Injection(DOMAIN slots, Free(q)) : TRUE
<1>1. enqueue(q, slots, text, force) = [i \in Places |->
         IF \A a \in DOMAIN slots : place[a] # i THEN q[i]
         ELSE Entry(slots[CHOOSE b \in DOMAIN slots : place[b] = i],
                    {CHOOSE b \in DOMAIN slots : place[b] = i}, text, force)]
  BY Zenon DEF enqueue
<1>2. Free(q) \subseteq Places /\ IsFiniteSet(Free(q)) /\ IsFiniteSet(DOMAIN slots)
  <2>1. Free(q) \subseteq Places
    BY DEF Free
  <2>2. DOMAIN slots \subseteq Accounts
    BY DEF LaterOK
  <2> QED BY <2>1, <2>2, Constants, FS_Subset
<1>3. Cardinality(Free(q)) \in Nat /\ Cardinality(DOMAIN slots) \in Nat
  BY <1>2, FS_CardinalityType
<1>4. Injection(DOMAIN slots, Free(q)) # {}
  BY <1>2, <1>3, InjectionExists
<1>5. place \in Injection(DOMAIN slots, Free(q))
  BY <1>4
<1> HIDE DEF place
<1>6. place \in [DOMAIN slots -> Free(q)]
  BY <1>5 DEF Injection
<1>7. PICK U : U = {place[a] : a \in DOMAIN slots}
  OBVIOUS
<1>8. U \subseteq Free(q)
  BY <1>6, <1>7
<1>9. IsFiniteSet(U) /\ Cardinality(U) <= Cardinality(DOMAIN slots)
  <2>1. place \in Surjection(DOMAIN slots, U)
    BY <1>6, <1>7 DEF Surjection
  <2> QED BY <1>2, <2>1, FS_Surjection
<1>10. PICK F : F = Free(q) \ U
  OBVIOUS
<1>11. Cardinality(F) >= n
  <2>1. Cardinality(F) = Cardinality(Free(q)) - Cardinality(Free(q) \cap U)
    BY <1>2, <1>10, FS_Difference
  <2>2. Free(q) \cap U = U
    BY <1>8
  <2>3. PICK u \in Nat : u = Cardinality(U)
    BY <1>9, FS_CardinalityType
  <2>4. PICK c \in Nat : c = Cardinality(Free(q))
    BY <1>3
  <2>5. PICK d \in Nat : d = Cardinality(DOMAIN slots)
    BY <1>3
  <2>6. c >= d + n /\ u <= d
    BY <1>9, <2>3, <2>4, <2>5
  <2>7. Cardinality(F) = c - u
    BY <2>1, <2>2, <2>3, <2>4
  <2> QED BY <2>6, <2>7
<1>12. ASSUME NEW i \in Places, i \notin U PROVE enqueue(q, slots, text, force)[i] = q[i]
  <2>1. \A a \in DOMAIN slots : place[a] # i
    BY <1>7, <1>12
  <2> QED BY <1>1, <2>1
<1>13. \A i \in Places \ Free(q) : enqueue(q, slots, text, force)[i] = q[i]
  BY <1>8, <1>12
<1>14. F \in SUBSET Free(q) /\ \A i \in F : enqueue(q, slots, text, force)[i] = q[i]
  BY <1>2, <1>10, <1>12
<1> QED BY <1>11, <1>13, <1>14


(***************************************************************************)
(* A place is left for each entry that is yet to be made                   *)
(***************************************************************************)
Reserved(works) == UNION {{p} \X DOMAIN works[p].later : p \in Procs}
FreeNow == Free(queue)
Enough ==
  IsFiniteSet(Reserved(work)) /\ Cardinality(FreeNow) >= Cardinality(Reserved(work))

(* The places of the entries a process has in hand *)
Hands(w) == {w.place} \cup {d.place : d \in w.due}

(* A pending entry is no older than the windows *)
Recent(e) == e.status = "pending" => e.at >= -Old

(* Only a process that calls, or has called, has entries yet to make *)
Ahead(w, where) ==
  /\ \A a \in DOMAIN w.later : w.later[a] >= w.clock
  /\ where \in {"idle", "walk"} => DOMAIN w.later = {}

RoomInv ==
  /\ \A i \in Places : Recent(queue[i])
  /\ \A p \in Procs : Ahead(work[p], pc[p])
  /\ Enough

(* Nothing that waits is moved to a later time *)
NoneLater ==
  \A i \in Places : queue[i].status = "pending" /\ queue'[i].status = "pending" =>
    ~(queue'[i].at > queue[i].at)

LEMMA StillFree ==
  ASSUME NEW q, NEW i \in Free(q), queue'[i].status \in {"none", "done"},
         \A p \in Procs : Hands(work'[p]) \subseteq Hands(work[p]) \cup {0}
  PROVE  i \in FreeNow'
<1>1. i \in Places /\ i # 0
  BY DEF Free, Places
<1>2. ASSUME NEW p \in Procs
      PROVE  work'[p].place # i /\ \A d \in work'[p].due : d.place # i
  <2>1. i \notin Hands(work[p])
    BY DEF Free, InHand, Hands
  <2>2. i \notin Hands(work'[p])
    BY <1>1, <2>1
  <2> QED BY <2>2 DEF Hands
<1> QED BY <1>1, <1>2 DEF FreeNow, Free, InHand

LEMMA FreeIsFinite ==
  /\ FreeNow \subseteq Places /\ IsFiniteSet(FreeNow) /\ Cardinality(FreeNow) \in Nat
  /\ FreeNow' \subseteq Places /\ IsFiniteSet(FreeNow') /\ Cardinality(FreeNow') \in Nat
<1>1. FreeNow \subseteq Places /\ FreeNow' \subseteq Places
  BY DEF FreeNow, Free
<1>2. IsFiniteSet(FreeNow) /\ IsFiniteSet(FreeNow')
  BY <1>1, Constants, FS_Subset
<1> QED BY <1>1, <1>2, FS_CardinalityType

(* No place is taken and no entry is yet to be made that was not before *)
LEMMA RoomKeeps ==
  ASSUME RoomInv, FreeNow \subseteq FreeNow', Reserved(work') \subseteq Reserved(work)
  PROVE  Enough'
<1>1. IsFiniteSet(Reserved(work)) /\ Cardinality(FreeNow) >= Cardinality(Reserved(work))
  BY DEF RoomInv, Enough
<1>2. IsFiniteSet(Reserved(work')) /\ Cardinality(Reserved(work')) <= Cardinality(Reserved(work))
  BY <1>1, FS_Subset
<1>3. Cardinality(Reserved(work)) \in Nat /\ Cardinality(Reserved(work')) \in Nat
  BY <1>1, <1>2, FS_CardinalityType
<1>4. Cardinality(FreeNow) <= Cardinality(FreeNow')
  BY FreeIsFinite, FS_Subset
<1>5. Cardinality(FreeNow') >= Cardinality(Reserved(work'))
  BY <1>1, <1>2, <1>3, <1>4, FreeIsFinite
<1> QED BY <1>2, <1>5 DEF Enough, Reserved

(* A step that makes no entry, and takes none in hand *)
LEMMA RoomGoesOn ==
  ASSUME RoomInv,
         \A p \in Procs : /\ Hands(work'[p]) \subseteq Hands(work[p]) \cup {0}
                          /\ DOMAIN work'[p].later \subseteq DOMAIN work[p].later
                          /\ Ahead(work'[p], pc'[p]),
         \A i \in Places : /\ Recent(queue'[i])
                           /\ queue[i].status \in {"none", "done"} =>
                                queue'[i].status \in {"none", "done"}
  PROVE  RoomInv'
<1>1. FreeNow \subseteq FreeNow'
  <2>1. ASSUME NEW i \in FreeNow PROVE i \in FreeNow'
    <3>1. i \in Free(queue) /\ queue[i].status \in {"none", "done"} /\ i \in Places
      BY DEF FreeNow, Free
    <3> QED BY <3>1, StillFree
  <2> QED BY <2>1
<1>2. Reserved(work') \subseteq Reserved(work)
  BY DEF Reserved
<1>3. Enough'
  BY <1>1, <1>2, RoomKeeps
<1>4. /\ (\A i \in Places : Recent(queue[i]))'
      /\ (\A p \in Procs : Ahead(work[p], pc[p]))'
  BY DEF Recent, Ahead
<1> QED BY <1>3, <1>4 DEF RoomInv

(* A step that makes entries where there are places for them *)
LEMMA RoomIsTaken ==
  ASSUME Types, NEW q, EntriesOK(q), \A i \in Places : Recent(q[i]),
         NEW later, LaterOK(later), \A a \in DOMAIN later : later[a] >= -Old,
         NEW text \in Words, NEW force \in BOOLEAN, queue' = enqueue(q, later, text, force),
         \A p \in Procs : /\ Hands(work'[p]) \subseteq Hands(work[p]) \cup {0}
                          /\ Ahead(work'[p], pc'[p]),
         IsFiniteSet(Reserved(work')),
         Cardinality(Free(q)) >= Cardinality(DOMAIN later) + Cardinality(Reserved(work'))
  PROVE  /\ RoomInv'
         /\ \A i \in Places : q[i].status \in {"pending", "sending"} => queue'[i] = q[i]
<1>1. PICK n \in Nat : n = Cardinality(Reserved(work'))
  BY FS_CardinalityType
<1>2. /\ \A i \in Places \ Free(q) : queue'[i] = q[i]
      /\ \E F \in SUBSET Free(q) : Cardinality(F) >= n /\ \A i \in F : queue'[i] = q[i]
  BY <1>1, EnqueuedIn
<1>3. PICK F \in SUBSET Free(q) : Cardinality(F) >= n /\ \A i \in F : queue'[i] = q[i]
  BY <1>2
<1>4. F \subseteq FreeNow'
  <2>1. ASSUME NEW i \in F PROVE i \in FreeNow'
    <3>1. i \in Free(q) /\ queue'[i].status \in {"none", "done"}
      BY <1>3 DEF Free
    <3> QED BY <3>1, StillFree
  <2> QED BY <2>1
<1>5. IsFiniteSet(F) /\ Cardinality(F) \in Nat /\ Cardinality(F) <= Cardinality(FreeNow')
  <2>1. IsFiniteSet(F) /\ Cardinality(F) <= Cardinality(FreeNow')
    BY <1>4, FreeIsFinite, FS_Subset
  <2> QED BY <2>1, FS_CardinalityType
<1>6. Cardinality(FreeNow') >= Cardinality(Reserved(work'))
  BY <1>1, <1>3, <1>5, FreeIsFinite
<1>7. Enough'
  BY <1>6 DEF Enough, Reserved
<1>8. ASSUME NEW i \in Places PROVE Recent(queue'[i])
  <2>1. queue'[i] = q[i] \/ \E a \in DOMAIN later : queue'[i] = Entry(later[a], {a}, text, force)
    <3>1. Enqueued(enqueue(q, later, text, force), q, later, text, force)
      BY EnqueueIs
    <3> QED BY <3>1 DEF Enqueued
  <2>2. ASSUME NEW a \in DOMAIN later, queue'[i] = Entry(later[a], {a}, text, force)
        PROVE  Recent(queue'[i])
    BY <2>2 DEF Recent, Entry, LaterOK
  <2> QED BY <2>1, <2>2
<1>9. /\ (\A i \in Places : Recent(queue[i]))'
      /\ (\A p \in Procs : Ahead(work[p], pc[p]))'
  BY <1>8 DEF Recent, Ahead
<1>10. \A i \in Places : q[i].status \in {"pending", "sending"} => queue'[i] = q[i]
  BY <1>2 DEF Free
<1> QED BY <1>7, <1>9, <1>10 DEF RoomInv

LEMMA SlotsReserved ==
  ASSUME NEW p, NEW D, IsFiniteSet(D)
  PROVE  IsFiniteSet({p} \X D) /\ Cardinality({p} \X D) = Cardinality(D)
<1>1. IsFiniteSet({p}) /\ Cardinality({p}) = 1
  BY FS_Singleton
<1>2. IsFiniteSet({p} \X D) /\ Cardinality({p} \X D) = Cardinality({p}) * Cardinality(D)
  BY <1>1, FS_Product
<1>3. PICK n \in Nat : n = Cardinality(D)
  BY FS_CardinalityType
<1>4. Cardinality({p} \X D) = 1 * n
  BY <1>1, <1>2, <1>3
<1> QED BY <1>2, <1>3, <1>4

(* After an entry the process has in hand the next one, or nothing *)
LEMMA GoesOnHolds ==
  ASSUME Types, NEW p \in Procs, NEW w, GoesOn(p, w)
  PROVE  /\ work'[p].due = w.due /\ work'[p].place = 0 /\ DOMAIN work'[p].later = {}
         /\ \A o \in Procs \ {p} : work'[o] = work[o] /\ pc'[o] = pc[o]
         /\ Ahead(work'[p], pc'[p])
<1>1. p \in DOMAIN work /\ p \in DOMAIN pc
  BY DEF Types
<1>2. work'[p] = IF w.due = {} THEN Idle
                 ELSE [Idle EXCEPT !.due = w.due, !.clock = w.clock, !.alone = w.alone]
  BY <1>1 DEF GoesOn
<1>3. /\ work'[p].due = w.due /\ work'[p].place = 0 /\ work'[p].later = <<>>
  <2>1. CASE w.due = {}
    BY <1>2, <2>1 DEF Idle
  <2>2. CASE w.due # {}
    BY <1>2, <2>2 DEF Idle
  <2> QED BY <2>1, <2>2
<1>4. \A o \in Procs \ {p} : work'[o] = work[o] /\ pc'[o] = pc[o]
  BY DEF GoesOn, Goto, Types
<1> QED BY <1>3, <1>4 DEF Ahead


LEMMA RoomInit == Init => RoomInv
<1> SUFFICES ASSUME Init PROVE RoomInv
  OBVIOUS
<1>1. \A i \in Places : queue[i].status = "none"
  BY DEF Init, NoEntry, Entry
<1>2. \A p \in Procs : work[p].later = <<>>
  BY DEF Init, Idle
<1>3. Reserved(work) = {}
  <2>1. \A p \in Procs : {p} \X DOMAIN work[p].later = {}
    BY <1>2
  <2> QED BY <2>1 DEF Reserved
<1>4. Enough
  BY <1>3, FS_EmptySet, FreeIsFinite DEF Enough
<1> QED BY <1>1, <1>2, <1>4 DEF RoomInv, Recent, Ahead

LEMMA TickRoom ==
  ASSUME PostInv, RoomInv, NEW p \in Schedulers, Tick(p)
  PROVE  RoomInv' /\ NoneLater /\ pc'[p] # pc[p]
<1>1. Types /\ p \in Procs /\ pc[p] = "idle" /\ queue' = queue
  BY DEF PostInv, Tick, Procs
<1>2. /\ pc' = [pc EXCEPT ![p] = "walk"] /\ p \in DOMAIN pc
  BY <1>1 DEF Tick, Goto, Types
<1>3. PICK w : w = [Idle EXCEPT !.due = duePosts]
  OBVIOUS
<1>4. WorkOK(w) /\ w.due = duePosts /\ w.place = 0 /\ w.later = <<>>
  <2>1. duePosts \subseteq [place : Places, entry : EntryType] /\ DueOK(duePosts)
    BY <1>1 DEF Types, EntriesOK, duePosts, DueOK
  <2>2. Idle \in WorkType({Idle.later}) /\ LaterOK(Idle.later)
    BY IdleOK DEF WorkOK
  <2>3. w \in WorkType({Idle.later}) /\ w.later = Idle.later /\ w.due = duePosts /\ w.place = Idle.place
    BY <1>3, <2>1, <2>2 DEF WorkType
  <2> QED BY <2>1, <2>2, <2>3 DEF WorkOK, Idle
<1>5. Starts(p, w)
  BY <1>3 DEF Tick
<1>6. /\ work'[p].due = duePosts /\ work'[p].place = 0 /\ work'[p].later = <<>>
      /\ \A o \in Procs \ {p} : /\ work'[o].due = work[o].due /\ work'[o].clock = work[o].clock
                               /\ work'[o].place = work[o].place /\ work'[o].later = work[o].later
  BY <1>1, <1>4, <1>5, StartsIs
<1>7. FreeNow \subseteq FreeNow'
  <2>1. ASSUME NEW i \in FreeNow PROVE i \in FreeNow'
    <3>1. i \in Places /\ i # 0 /\ queue[i].status \in {"none", "done"} /\ ~InHand(i, Procs)
      BY DEF FreeNow, Free, Places
    <3>2. ASSUME NEW o \in Procs
          PROVE  work'[o].place # i /\ \A d \in work'[o].due : d.place # i
      <4>1. CASE o = p
        <5>1. \A d \in duePosts : queue[d.place].status = "pending"
          BY DEF duePosts
        <5> QED BY <1>6, <3>1, <4>1, <5>1
      <4>2. CASE o # p
        BY <1>6, <3>1, <4>2 DEF InHand
      <4> QED BY <4>1, <4>2
    <3> QED BY <1>1, <3>1, <3>2 DEF FreeNow, Free, InHand
  <2> QED BY <2>1
<1>8. Reserved(work') \subseteq Reserved(work)
  <2>1. \A o \in Procs : DOMAIN work'[o].later \subseteq DOMAIN work[o].later
    BY <1>6
  <2> QED BY <2>1 DEF Reserved
<1>10. Enough'
  BY <1>7, <1>8, RoomKeeps
<1>11. ASSUME NEW o \in Procs PROVE Ahead(work'[o], pc'[o])
  <2>1. CASE o = p
    BY <1>6, <2>1 DEF Ahead
  <2>2. CASE o # p
    <3>1. Ahead(work[o], pc[o])
      BY DEF RoomInv
    <3>2. pc'[o] = pc[o]
      BY <1>2, <2>2
    <3> QED BY <1>6, <2>2, <3>1, <3>2 DEF Ahead
  <2> QED BY <2>1, <2>2
<1>12. /\ (\A i \in Places : Recent(queue[i]))'
       /\ (\A o \in Procs : Ahead(work[o], pc[o]))'
  BY <1>1, <1>11 DEF RoomInv, Recent, Ahead
<1>13. NoneLater
  BY <1>1 DEF NoneLater, Types, EntriesOK, EntryType
<1> QED BY <1>1, <1>2, <1>10, <1>12, <1>13 DEF RoomInv

LEMMA LandRoom ==
  ASSUME PostInv, RoomInv, NEW p \in Procs, Land(p)
  PROVE  RoomInv' /\ NoneLater
<1>1. /\ queue' = queue /\ work' = work /\ pc[p] = "send" /\ pc' = [pc EXCEPT ![p] = "finish"]
      /\ Types /\ p \in DOMAIN pc
  BY DEF Land, Goto, PostInv, Types
<1>2. \A o \in Procs : Ahead(work'[o], pc'[o])
  BY <1>1 DEF RoomInv, Ahead
<1>3. \A i \in Places : queue[i].at \in Int
  BY <1>1 DEF Types, EntriesOK, EntryType
<1>4. \A i \in Places : Recent(queue'[i])
  BY <1>1 DEF RoomInv
<1>5. RoomInv'
  BY <1>1, <1>2, <1>4, RoomGoesOn
<1> QED BY <1>1, <1>3, <1>5 DEF NoneLater

LEMMA CrashRoom ==
  ASSUME PostInv, RoomInv, NEW p \in Procs, Crash(p)
  PROVE  RoomInv' /\ NoneLater
<1>1. /\ queue' = queue /\ work' = [work EXCEPT ![p] = Idle] /\ pc' = [pc EXCEPT ![p] = "idle"]
      /\ Types
  BY DEF Crash, Goto, PostInv
<1>2. p \in DOMAIN work /\ p \in DOMAIN pc
  BY <1>1 DEF Types
<1>3. ASSUME NEW o \in Procs
      PROVE  /\ Hands(work'[o]) \subseteq Hands(work[o]) \cup {0}
             /\ DOMAIN work'[o].later \subseteq DOMAIN work[o].later
             /\ Ahead(work'[o], pc'[o])
  <2>1. CASE o = p
    BY <1>1, <1>2, <2>1 DEF Hands, Idle, Ahead
  <2>2. CASE o # p
    <3>1. work'[o] = work[o] /\ pc'[o] = pc[o] /\ Ahead(work[o], pc[o])
      BY <1>1, <2>2 DEF RoomInv
    <3> QED BY <3>1
  <2> QED BY <2>1, <2>2
<1>4. \A i \in Places : queue[i].at \in Int /\ Recent(queue'[i])
  BY <1>1 DEF Types, EntriesOK, EntryType, RoomInv
<1>5. RoomInv'
  BY <1>1, <1>3, <1>4, RoomGoesOn
<1> QED BY <1>1, <1>4, <1>5 DEF NoneLater

(* A step on the queue alone *)
LEMMA QueueRoom ==
  ASSUME PostInv, RoomInv, pc' = pc, work' = work,
         \A i \in Places : \/ queue'[i].status = queue[i].status /\ queue'[i].at = queue[i].at
                           \/ queue'[i].status \in {"none", "done"}
  PROVE  RoomInv' /\ NoneLater
<1>1. \A i \in Places : queue[i].at \in Int
  BY DEF PostInv, Types, EntriesOK, EntryType
<1>2. \A i \in Places : Recent(queue'[i])
  BY DEF RoomInv, Recent
<1>3. \A o \in Procs : Ahead(work'[o], pc'[o])
  BY DEF RoomInv
<1>4. RoomInv'
  BY <1>2, <1>3, RoomGoesOn
<1> QED BY <1>1, <1>4 DEF NoneLater

LEMMA ArchiveRoom ==
  ASSUME PostInv, RoomInv, NEW a \in Accounts, Archive(a)
  PROVE  RoomInv' /\ NoneLater
<1>1. /\ pc' = pc /\ work' = work /\ EntriesOK(queue)
      /\ queue' = [i \in Places |->
           IF queue[i].status # "pending" \/ a \notin queue[i].targets THEN queue[i]
           ELSE IF queue[i].targets = {a} THEN Done(i, Procs)
           ELSE [queue[i] EXCEPT !.targets = @ \ {a}]]
  BY DEF Archive, PostInv, Types
<1>2. ASSUME NEW i \in Places
      PROVE  \/ queue'[i].status = queue[i].status /\ queue'[i].at = queue[i].at
             \/ queue'[i].status \in {"none", "done"}
  <2>1. CASE queue[i].status # "pending" \/ a \notin queue[i].targets
    BY <1>1, <2>1
  <2>2. CASE queue[i].status = "pending" /\ queue[i].targets = {a}
    <3>1. PICK o : o = Done(i, Procs)
      OBVIOUS
    <3>2. o.status \in {"none", "done"}
      BY <1>1, <3>1, DoneIs
    <3>3. queue'[i] = o
      BY <1>1, <2>2, <3>1
    <3> QED BY <3>2, <3>3
  <2>3. CASE queue[i].status = "pending" /\ a \in queue[i].targets /\ queue[i].targets # {a}
    <3>1. PICK e \in EntryType : e = queue[i]
      BY <1>1 DEF EntriesOK
    <3>2. queue'[i] = [e EXCEPT !.targets = e.targets \ {a}]
      BY <1>1, <2>3, <3>1
    <3>3. queue'[i].status = e.status /\ queue'[i].at = e.at
      BY <3>2 DEF EntryType
    <3> QED BY <3>1, <3>3
  <2> QED BY <2>1, <2>2, <2>3
<1> QED BY <1>1, <1>2, QueueRoom

LEMMA PassRoom ==
  ASSUME PostInv, RoomInv, Pass
  PROVE  RoomInv' /\ NoneLater
<1>1. /\ pc' = pc
      /\ \A p \in Procs : pc[p] # "idle" => work[p].clock > -MaxLag
      /\ work' = [p \in Procs |-> IF pc[p] = "idle" THEN work[p] ELSE Later(work[p])]
      /\ queue' = [i \in Places |-> IF Booked(i) THEN Nearer(queue[i]) ELSE queue[i]]
      /\ EntriesOK(queue) /\ \A p \in Procs : WorkOK(work[p])
  BY DEF Pass, Later, Nearer, PostInv, Types
<1>2. ASSUME NEW p \in Procs
      PROVE  /\ Hands(work'[p]) \subseteq Hands(work[p]) \cup {0}
             /\ DOMAIN work'[p].later \subseteq DOMAIN work[p].later
             /\ Ahead(work'[p], pc'[p])
  <2>1. Ahead(work[p], pc[p])
    BY DEF RoomInv
  <2>2. CASE pc[p] = "idle"
    <3>1. work'[p] = work[p] /\ pc'[p] = pc[p]
      BY <1>1, <2>2
    <3> QED BY <2>1, <3>1
  <2>3. CASE pc[p] # "idle"
    <3>1. PICK w, v : w = work[p] /\ v = work'[p]
      OBVIOUS
    <3>2. v = Later(w) /\ WorkOK(w) /\ w.clock > -MaxLag
      BY <1>1, <2>3, <3>1
    <3>3. /\ v.clock = w.clock - 1 /\ v.place = w.place
          /\ v.later = [a \in DOMAIN w.later |-> w.later[a] - 1]
          /\ \A d \in v.due : \E o \in w.due : d.place = o.place
      BY <3>2, LaterIs
    <3>4. w.clock \in Int /\ \A a \in DOMAIN w.later : w.later[a] \in Int
      BY <3>2, Constants DEF WorkOK, WorkType, LaterOK
    <3>5. Hands(v) \subseteq Hands(w)
      BY <3>3 DEF Hands
    <3>6. DOMAIN v.later = DOMAIN w.later /\ \A a \in DOMAIN v.later : v.later[a] = w.later[a] - 1
      BY <3>3
    <3>7. Ahead(v, pc[p])
      BY <2>1, <3>1, <3>3, <3>4, <3>6 DEF Ahead
    <3> QED BY <1>1, <3>1, <3>5, <3>6, <3>7
  <2> QED BY <2>2, <2>3
<1>3. ASSUME NEW i \in Places
      PROVE  /\ Recent(queue'[i]) /\ queue'[i].status = queue[i].status
             /\ queue[i].status = "pending" => ~(queue'[i].at > queue[i].at)
  <2>1. PICK e \in EntryType : e = queue[i]
    BY <1>1 DEF EntriesOK
  <2>2. queue'[i] \in {e, Nearer(e)} /\ Recent(e) /\ e.at \in Int
    BY <1>1, <2>1 DEF RoomInv, EntryType
  <2>3. /\ Nearer(e) \in EntryType /\ Nearer(e).status = e.status /\ Nearer(e).targets = e.targets
        /\ Nearer(e).at >= -Old /\ (e.at >= -Old => Nearer(e).at <= e.at)
    BY NearerIs
  <2>4. Nearer(e).at \in Int
    BY <2>3 DEF EntryType
  <2> QED BY <2>1, <2>2, <2>3, <2>4 DEF Recent
<1>4. RoomInv'
  BY <1>2, <1>3, RoomGoesOn
<1> QED BY <1>3, <1>4 DEF NoneLater

LEMMA FinishRoom ==
  ASSUME PostInv, RoomInv, NEW p \in Procs, Finish(p)
  PROVE  RoomInv' /\ NoneLater
<1>1. Types /\ EntriesOK(queue) /\ WorkOK(work[p]) /\ GoesOn(p, work[p])
  BY DEF PostInv, Types, Finish
<1>2. PICK w : w = work[p]
  OBVIOUS
<1>3. /\ work'[p].due = w.due /\ work'[p].place = 0 /\ DOMAIN work'[p].later = {}
      /\ \A o \in Procs \ {p} : work'[o] = work[o] /\ pc'[o] = pc[o]
      /\ Ahead(work'[p], pc'[p])
  BY <1>1, <1>2, GoesOnHolds
<1>4. ASSUME NEW o \in Procs
      PROVE  /\ Hands(work'[o]) \subseteq Hands(work[o]) \cup {0}
             /\ DOMAIN work'[o].later \subseteq DOMAIN work[o].later
             /\ Ahead(work'[o], pc'[o])
  <2>1. CASE o = p
    BY <1>2, <1>3, <2>1 DEF Hands
  <2>2. CASE o # p
    BY <1>3, <2>2 DEF RoomInv
  <2> QED BY <2>1, <2>2
<1>5. /\ w.place \in Places \cup {0} /\ w.text \in Words /\ w.force \in BOOLEAN
      /\ LaterOK(w.later) /\ w.clock \in -MaxLag..0
  BY <1>1, <1>2 DEF WorkOK, WorkType
<1>6. \A i \in Places : queue[i].at \in Int /\ Recent(queue[i])
  BY <1>1 DEF EntriesOK, EntryType, RoomInv
<1>7. CASE w.place # 0
  <2>1. PICK e : e = Done(w.place, Procs \ {p})
    OBVIOUS
  <2>2. e.status \in {"none", "done"}
    BY <1>1, <1>5, <1>7, <2>1, DoneIs
  <2>3. queue' = updateQueued(queue, w.place, e)
    BY <1>2, <1>7, <2>1 DEF Finish
  <2>4. \A i \in Places : queue'[i] = queue[i] \/ queue'[i].status \in {"none", "done"}
    BY <1>1, <1>5, <2>2, <2>3 DEF updateQueued, EntriesOK
  <2>5. \A i \in Places : /\ Recent(queue'[i])
                          /\ queue[i].status \in {"none", "done"} => queue'[i].status \in {"none", "done"}
    BY <1>6, <2>4 DEF Recent
  <2>6. RoomInv'
    BY <1>4, <2>5, RoomGoesOn
  <2> QED BY <1>6, <2>4, <2>6 DEF NoneLater
<1>8. CASE w.place = 0
  <2>1. queue' = enqueue(queue, w.later, w.text, w.force)
    BY <1>2, <1>8 DEF Finish
  <2>2. PICK X : X = {p} \X DOMAIN w.later
    OBVIOUS
  <2>3. IsFiniteSet(DOMAIN w.later)
    BY <1>5, Constants, FS_Subset DEF LaterOK
  <2>4. IsFiniteSet(X) /\ Cardinality(X) = Cardinality(DOMAIN w.later)
    BY <2>2, <2>3, SlotsReserved
  <2>5. Reserved(work') \cup X \subseteq Reserved(work)
    <3>1. X \subseteq Reserved(work)
      BY <1>2, <2>2 DEF Reserved
    <3>2. Reserved(work') \subseteq Reserved(work)
      BY <1>4 DEF Reserved
    <3> QED BY <3>1, <3>2
  <2>6. Reserved(work') \cap X = {}
    BY <1>3, <2>2 DEF Reserved
  <2>7. IsFiniteSet(Reserved(work)) /\ Cardinality(FreeNow) >= Cardinality(Reserved(work))
    BY DEF RoomInv, Enough
  <2>8. IsFiniteSet(Reserved(work')) /\ Cardinality(Reserved(work') \cup X) <= Cardinality(Reserved(work))
    BY <2>5, <2>7, FS_Subset
  <2>9. Cardinality(Reserved(work') \cup X) = Cardinality(Reserved(work')) + Cardinality(X)
    <3>1. Cardinality(Reserved(work') \cap X) = 0
      BY <2>6, FS_EmptySet
    <3>2. Cardinality(Reserved(work') \cup X)
            = Cardinality(Reserved(work')) + Cardinality(X) - Cardinality(Reserved(work') \cap X)
      BY <2>4, <2>8, FS_Union
    <3>3. Cardinality(Reserved(work')) \in Nat /\ Cardinality(X) \in Nat
      BY <2>4, <2>8, FS_CardinalityType
    <3> QED BY <3>1, <3>2, <3>3
  <2>10. Cardinality(Free(queue)) >= Cardinality(DOMAIN w.later) + Cardinality(Reserved(work'))
    <3>1. /\ Cardinality(Reserved(work')) \in Nat /\ Cardinality(X) \in Nat
          /\ Cardinality(Reserved(work)) \in Nat
      BY <2>4, <2>7, <2>8, FS_CardinalityType
    <3>2. Cardinality(FreeNow) >= Cardinality(X) + Cardinality(Reserved(work'))
      BY <2>7, <2>8, <2>9, <3>1, FreeIsFinite
    <3> QED BY <2>4, <3>2 DEF FreeNow
  <2>11. \A a \in DOMAIN w.later : w.later[a] >= -Old
    <3>1. Ahead(w, pc[p])
      BY <1>2 DEF RoomInv
    <3> QED BY <1>5, <3>1, Constants DEF Ahead, LaterOK, Old
  <2>12. /\ RoomInv'
         /\ \A i \in Places : queue[i].status \in {"pending", "sending"} => queue'[i] = queue[i]
    BY <1>1, <1>4, <1>5, <1>6, <2>1, <2>8, <2>10, <2>11, RoomIsTaken
  <2> QED BY <1>6, <2>12 DEF NoneLater
<1> QED BY <1>7, <1>8


(* Two entries on one network alone *)
OneNetwork(i, j) ==
  \A a \in queue[i].targets, b \in queue[j].targets : NetworkOf[a] = NetworkOf[b]

(* What RoomIsMade says of a step *)
MakesRoom ==
  \A i, j \in {k \in Places : queue[k].status = "pending" /\ queue'[k].status = "pending"} :
    (i # j /\ queue'[i].at > queue[i].at) =>
      /\ queue'[j].at >= queue[j].at
      /\ (queue[j].at >= queue[i].at /\ OneNetwork(i, j))
           => \/ queue'[j].at >= queue'[i].at + Min(Range(GapOf))
              \/ queue'[i].at >= queue'[j].at + Min(Range(GapOf))

(* The queue after a reflow, before anything is enqueued *)
LEMMA ReflowRoom ==
  ASSUME Types, \A i \in Places : Recent(queue[i]), NEW slots, LaterOK(slots),
         NEW line \in InLine, Accounts # {}, NEW r, r = reflowQueue(slots, line)
  PROVE  /\ EntriesOK(r) /\ Free(r) = Free(queue) /\ \A i \in Places : Recent(r[i])
         /\ \A i \in Places : r[i].status = queue[i].status
         /\ \A i, j \in {k \in Places : queue[k].status = "pending"} :
              (i # j /\ r[i].at > queue[i].at) =>
                /\ r[j].at >= queue[j].at
                /\ (queue[j].at >= queue[i].at /\ OneNetwork(i, j))
                     => \/ r[j].at >= r[i].at + Min(Range(GapOf))
                        \/ r[i].at >= r[j].at + Min(Range(GapOf))
<1>1. EntriesOK(queue)
  BY DEF Types
<1>2. /\ EntriesOK(r)
      /\ \A i \in Places : r[i].status = queue[i].status /\ r[i].targets = queue[i].targets
  BY <1>1, ReflowIs, MovedIs
<1>3. Free(r) = Free(queue)
  BY <1>2 DEF Free
<1>4. ASSUME NEW i \in Places PROVE Recent(r[i])
  <2>1. r[i].at >= queue[i].at /\ r[i].at \in Int /\ queue[i].at \in Int
    BY <1>1, <1>2, ReflowIs DEF EntriesOK, EntryType
  <2>2. Recent(queue[i]) /\ -Old \in Int
    BY Constants
  <2> QED BY <1>2, <2>1, <2>2 DEF Recent
<1>5. ASSUME NEW i \in Places, NEW j \in Places, queue[i].status = "pending",
             queue[j].status = "pending", i # j, r[i].at > queue[i].at
      PROVE  /\ r[j].at >= queue[j].at
             /\ (queue[j].at >= queue[i].at /\ OneNetwork(i, j))
                  => \/ r[j].at >= r[i].at + Min(Range(GapOf))
                     \/ r[i].at >= r[j].at + Min(Range(GapOf))
  <2>1. Booked(i) /\ Booked(j)
    BY <1>5 DEF Booked
  <2>2. PICK a \in queue[i].targets, b \in queue[j].targets : TRUE
    BY <1>1, <1>5 DEF EntriesOK
  <2>3. /\ r[j].at >= queue[j].at
        /\ (/\ queue[j].at >= queue[i].at
            /\ \A c \in queue[i].targets \cup queue[j].targets : NetworkOf[c] = NetworkOf[a]) =>
             \/ r[j].at >= r[i].at + Min(Range(GapOf))
             \/ r[i].at >= r[j].at + Min(Range(GapOf))
    BY <1>1, <1>5, <2>1, <2>2, ReflowApart
  <2>4. OneNetwork(i, j) =>
          \A c \in queue[i].targets \cup queue[j].targets : NetworkOf[c] = NetworkOf[a]
    BY <2>2 DEF OneNetwork
  <2> QED BY <2>3, <2>4
<1> QED BY <1>2, <1>3, <1>4, <1>5

LEMMA PostRoom ==
  ASSUME PostInv, RoomInv, NEW p \in People, NEW targets \in SUBSET Accounts,
         NEW text \in Texts, NEW mode, Post(p, targets, text, mode)
  PROVE  RoomInv' /\ MakesRoom
<1> DEFINE S == {a \in targets : ~recentDuplicate(text, a, 0)}
           from == IF mode = "ahead" THEN Lead ELSE 0
           Now(slots) == {a \in DOMAIN slots : slots[a] <= 0}
           Rest(slots) == Only(slots, DOMAIN slots \ Now(slots))
           Room(slots, line) == IF mode = "front" THEN reflowQueue(slots, line) ELSE queue
           Held(slots) == [Idle EXCEPT !.to = Now(slots), !.later = Rest(slots),
                                       !.text = text, !.force = (mode = "now")]
<1>1. PICK order \in SetToSeqs(S), line \in (IF mode = "front" THEN InLine ELSE {<<>>}) :
        LET slots == planTargets(order, Places, 0, from, mode)
        IN  /\ Fits(Room(slots, line), Rest(slots))
            /\ \/ /\ queue' = enqueue(Room(slots, line), Rest(slots), text, mode = "now")
                  /\ pc' = pc /\ work' = work
               \/ /\ queue' = Room(slots, line)
                  /\ pc' = [pc EXCEPT ![p] = "send"]
                  /\ Starts(p, Held(slots))
  BY Zenon DEF Post, Goto
<1>2. PICK slots : slots = planTargets(order, Places, 0, from, mode)
  OBVIOUS
<1>3. Types /\ EntriesOK(queue) /\ MarksOK(history) /\ p \in Procs /\ pc[p] = "idle" /\ targets # {}
  BY DEF PostInv, Types, Procs, Post
<1>4. PlanOK(slots, order, Places, 0, mode) /\ DOMAIN slots \subseteq S /\ LaterOK(slots)
  <2>1. S \in SUBSET Accounts /\ 0 \in -Old..0 /\ from \in Int /\ Places \in SUBSET Places
    BY Constants
  <2> HIDE DEF S, from
  <2> QED BY <1>2, <1>3, <2>1, PlanFor
<1>5. PICK now, later, room : now = Now(slots) /\ later = Rest(slots) /\ room = Room(slots, line)
  OBVIOUS
<1>6. LaterOK(later) /\ \A a \in DOMAIN later : later[a] >= 0 /\ later[a] \in Int
  <2>1. LaterOK(later) /\ \A a \in DOMAIN later : a \in DOMAIN slots /\ later[a] = slots[a]
    <3>1. PICK K : K = DOMAIN slots \ Now(slots)
      OBVIOUS
    <3>2. later = Only(slots, K)
      BY <1>5, <3>1
    <3>3. LaterOK(slots)
      BY <1>4
    <3> QED BY <3>2, <3>3, OnlyIs
  <2> QED BY <1>4, <2>1 DEF PlanOK
<1>7. /\ EntriesOK(room) /\ Free(room) = Free(queue) /\ \A i \in Places : Recent(room[i])
      /\ \A i \in Places : room[i].status = queue[i].status
      /\ \A i, j \in {k \in Places : queue[k].status = "pending"} :
           (i # j /\ room[i].at > queue[i].at) =>
             /\ room[j].at >= queue[j].at
             /\ (queue[j].at >= queue[i].at /\ OneNetwork(i, j))
                  => \/ room[j].at >= room[i].at + Min(Range(GapOf))
                     \/ room[i].at >= room[j].at + Min(Range(GapOf))
  <2>1. \A i \in Places : Recent(queue[i])
    BY DEF RoomInv
  <2>2. CASE mode = "front"
    <3>1. line \in InLine /\ Accounts # {} /\ room = reflowQueue(slots, line)
      BY <1>1, <1>3, <1>5, <2>2
    <3> QED BY <1>3, <1>4, <2>1, <3>1, ReflowRoom
  <2>3. CASE mode # "front"
    <3>1. room = queue
      BY <1>5, <2>3
    <3>2. \A i \in Places : queue[i].at \in Int
      BY <1>3 DEF EntriesOK, EntryType
    <3> QED BY <1>3, <2>1, <3>1, <3>2
  <2> QED BY <2>2, <2>3
<1>8. ASSUME \A i \in Places : room[i].status = "pending" => queue'[i] = room[i]
      PROVE  MakesRoom
  BY <1>7, <1>8 DEF MakesRoom
<1>9. text \in Words /\ (mode = "now") \in BOOLEAN /\ 0 \in Int /\ -Old <= 0
  BY Constants DEF Words
<1>10. IsFiniteSet(Reserved(work)) /\ Cardinality(Reserved(work)) \in Nat
  BY FS_CardinalityType DEF RoomInv, Enough
<1>11. IsFiniteSet(DOMAIN later) /\ Cardinality(DOMAIN later) \in Nat
  <2>1. IsFiniteSet(DOMAIN later)
    BY <1>6, Constants, FS_Subset DEF LaterOK
  <2> QED BY <2>1, FS_CardinalityType
<1>12. Cardinality(Free(room)) >= Cardinality(DOMAIN later) + Cardinality(Reserved(work))
  BY <1>1, <1>2, <1>5 DEF Fits, Reserved
<1>13. \/ /\ queue' = enqueue(room, later, text, mode = "now")
          /\ pc' = pc /\ work' = work
       \/ /\ queue' = room
          /\ pc' = [pc EXCEPT ![p] = "send"]
          /\ Starts(p, Held(slots))
  BY <1>1, <1>2, <1>5
<1>14. CASE /\ queue' = enqueue(room, later, text, mode = "now")
            /\ pc' = pc /\ work' = work
  <2>1. PICK force \in BOOLEAN : force = (mode = "now")
    BY <1>9
  <2>2. queue' = enqueue(room, later, text, force)
    BY <1>14, <2>1
  <2>3. \A o \in Procs : /\ Hands(work'[o]) \subseteq Hands(work[o]) \cup {0}
                         /\ Ahead(work'[o], pc'[o])
    BY <1>14 DEF RoomInv
  <2>4. \A a \in DOMAIN later : later[a] >= -Old
    BY <1>6, <1>9, Constants
  <2>5. Reserved(work') = Reserved(work)
    BY <1>14
  <2>6. /\ RoomInv'
        /\ \A i \in Places : room[i].status \in {"pending", "sending"} => queue'[i] = room[i]
    BY <1>3, <1>6, <1>7, <1>9, <1>10, <1>12, <2>2, <2>3, <2>4, <2>5, RoomIsTaken
  <2> QED BY <1>8, <2>6
<1>15. CASE /\ queue' = room
            /\ pc' = [pc EXCEPT ![p] = "send"]
            /\ Starts(p, Held(slots))
  <2>1. PICK w : w = Held(slots)
    OBVIOUS
  <2>2. WorkOK(w) /\ w.due = {} /\ w.place = 0 /\ w.later = later /\ w.clock = 0
    <3>1. Idle \in WorkType({Idle.later}) /\ Idle.due = {} /\ Idle.place = 0 /\ Idle.clock = 0
      BY IdleOK DEF WorkOK, Idle
    <3>2. w = [Idle EXCEPT !.to = now, !.later = later, !.text = text, !.force = (mode = "now")]
      BY <1>5, <2>1
    <3>3. now \in SUBSET Accounts
      BY <1>4, <1>5
    <3>4. /\ w \in WorkType({later}) /\ w.later = later /\ w.due = {} /\ w.place = 0 /\ w.clock = 0
      BY <1>9, <3>1, <3>2, <3>3 DEF WorkType
    <3> QED BY <1>6, <3>4 DEF WorkOK, DueOK
  <2>3. /\ work'[p].due = {} /\ work'[p].place = 0 /\ work'[p].later = later /\ work'[p].clock = 0
        /\ \A o \in Procs \ {p} : /\ work'[o].due = work[o].due /\ work'[o].clock = work[o].clock
                                 /\ work'[o].place = work[o].place /\ work'[o].later = work[o].later
    <3>1. Starts(p, w)
      BY <1>15, <2>1
    <3>2. Types /\ p \in Procs /\ pc[p] = "idle" /\ WorkOK(w)
      BY <1>3, <2>2
    <3>3. /\ work'[p].due = w.due /\ work'[p].clock = w.clock
          /\ work'[p].place = w.place /\ work'[p].later = w.later
          /\ \A o \in Procs \ {p} : /\ work'[o].due = work[o].due /\ work'[o].clock = work[o].clock
                                   /\ work'[o].place = work[o].place /\ work'[o].later = work[o].later
      BY <3>1, <3>2, StartsIs
    <3> QED BY <2>2, <3>3
  <2>4. pc'[p] = "send" /\ \A o \in Procs \ {p} : pc'[o] = pc[o]
    BY <1>3, <1>15 DEF Types
  <2>5. ASSUME NEW o \in Procs
        PROVE  Hands(work'[o]) \subseteq Hands(work[o]) \cup {0} /\ Ahead(work'[o], pc'[o])
    <3>1. CASE o = p
      BY <1>6, <2>3, <2>4, <3>1 DEF Hands, Ahead
    <3>2. CASE o # p
      <4>1. Ahead(work[o], pc[o])
        BY DEF RoomInv
      <4> QED BY <2>3, <2>4, <3>2, <4>1 DEF Hands, Ahead
    <3> QED BY <3>1, <3>2
  <2>6. PICK X : X = {p} \X DOMAIN later
    OBVIOUS
  <2>7. IsFiniteSet(X) /\ Cardinality(X) = Cardinality(DOMAIN later)
    BY <1>11, <2>6, SlotsReserved
  <2>8. Reserved(work') \subseteq Reserved(work) \cup X
    BY <2>3, <2>6 DEF Reserved
  <2>9. /\ IsFiniteSet(Reserved(work) \cup X)
        /\ Cardinality(Reserved(work) \cup X) <= Cardinality(Reserved(work)) + Cardinality(X)
    <3>1. /\ IsFiniteSet(Reserved(work) \cup X)
          /\ Cardinality(Reserved(work) \cup X)
               = Cardinality(Reserved(work)) + Cardinality(X) - Cardinality(Reserved(work) \cap X)
      BY <1>10, <2>7, FS_Union
    <3>2. Cardinality(Reserved(work) \cap X) \in Nat
      BY <1>10, FS_Intersection, FS_CardinalityType
    <3> QED BY <1>10, <1>11, <2>7, <3>1, <3>2
  <2>10. IsFiniteSet(Reserved(work')) /\ Cardinality(Reserved(work')) <= Cardinality(Reserved(work) \cup X)
    BY <2>8, <2>9, FS_Subset
  <2>11. Free(room) \subseteq FreeNow'
    <3>1. ASSUME NEW i \in Free(room) PROVE i \in FreeNow'
      <4>1. queue'[i].status \in {"none", "done"}
        BY <1>15 DEF Free
      <4> QED BY <2>5, <4>1, StillFree
    <3> QED BY <3>1
  <2>12. Cardinality(Free(room)) \in Nat /\ Cardinality(Free(room)) <= Cardinality(FreeNow')
    <3>1. IsFiniteSet(Free(room)) /\ Cardinality(Free(room)) <= Cardinality(FreeNow')
      BY <2>11, FreeIsFinite, FS_Subset
    <3> QED BY <3>1, FS_CardinalityType
  <2>13. Cardinality(FreeNow') >= Cardinality(Reserved(work'))
    <3>1. Cardinality(Reserved(work')) \in Nat /\ Cardinality(Reserved(work) \cup X) \in Nat
      BY <2>9, <2>10, FS_CardinalityType
    <3> QED BY <1>10, <1>11, <1>12, <2>7, <2>9, <2>10, <2>12, <3>1, FreeIsFinite
  <2>14. Enough'
    BY <2>10, <2>13 DEF Enough, Reserved
  <2>15. /\ (\A i \in Places : Recent(queue[i]))'
         /\ (\A o \in Procs : Ahead(work[o], pc[o]))'
    BY <1>7, <1>15, <2>5 DEF Recent, Ahead
  <2> QED BY <1>8, <1>15, <2>14, <2>15 DEF RoomInv
<1> QED BY <1>13, <1>14, <1>15


LEMMA WalkRoom ==
  ASSUME PostInv, RoomInv, NEW p \in Schedulers, NEW d \in work[p].due, Walk(p, d)
  PROVE  RoomInv' /\ work'[p].due # work[p].due
<1> DEFINE i == d.place
           e == d.entry
           W == [work[p] EXCEPT !.due = @ \ {d}]
           S == {a \in Live(e.targets) : ~recentDuplicate(e.text, a, W.clock)}
           mode == IF e.force THEN "now" ELSE "paced"
           Now(slots) == {a \in DOMAIN slots : slots[a] <= W.clock}
           Rest(slots) == Only(slots, DOMAIN slots \ Now(slots))
           cancel == updateQueued(queue, i, Done(i, Procs \ {p}))
           Moved(t, first) == [queue[i] EXCEPT !.at = t, !.targets = {first}]
           Sent(now) == [queue[i] EXCEPT !.status = "sending", !.targets = now,
                                         !.carried = @ \cup now]
           Held(now) == [W EXCEPT !.place = i, !.to = now, !.text = e.text, !.force = e.force]
<1>1. \/ queue' = cancel /\ GoesOn(p, W)
      \/ \E order \in SetToSeqs(S) :
           LET slots == planTargets(order, Places \ {i}, W.clock, W.clock, mode)
           IN  \/ queue' = cancel /\ GoesOn(p, W)
               \/ /\ \E first \in DOMAIN slots :
                       /\ Fits(queue, Only(slots, DOMAIN slots \ {first}))
                       /\ queue' = enqueue(updateQueued(queue, i, Moved(slots[first], first)),
                                           Only(slots, DOMAIN slots \ {first}), e.text, e.force)
                  /\ GoesOn(p, W)
               \/ /\ Now(slots) # {} /\ Fits(queue, Rest(slots))
                  /\ queue' = enqueue(updateQueued(queue, i, Sent(Now(slots))),
                                      Rest(slots), e.text, e.force)
                  /\ pc' = [pc EXCEPT ![p] = "send"]
                  /\ work' = [work EXCEPT ![p] = Held(Now(slots))]
  BY Zenon DEF Walk, Goto
<1>2. Types /\ EntriesOK(queue) /\ MarksOK(history) /\ p \in Procs /\ WorkOK(work[p]) /\ pc[p] = "walk"
  BY DEF PostInv, Types, Procs, Walk
<1>3. PICK w : w = W
  OBVIOUS
<1>4. /\ WorkOK(w) /\ w.due = work[p].due \ {d} /\ w.clock = work[p].clock
      /\ w.later = work[p].later /\ w.due # work[p].due
  <2>1. work[p] \in WorkType({work[p].later}) /\ LaterOK(work[p].later) /\ DueOK(work[p].due)
    BY <1>2 DEF WorkOK
  <2>2. /\ w \in WorkType({work[p].later}) /\ w.later = work[p].later
        /\ w.due = work[p].due \ {d} /\ w.clock = work[p].clock
    BY <1>3, <2>1 DEF WorkType
  <2> QED BY <2>1, <2>2 DEF WorkOK, DueOK
<1>5. /\ i \in Places /\ e \in EntryType /\ e.targets \subseteq Accounts
      /\ e.text \in Words /\ e.force \in BOOLEAN
  BY <1>2 DEF WorkOK, WorkType, EntryType
<1>6. w.clock \in -MaxLag..0 /\ w.clock \in -Old..0 /\ w.clock \in Int /\ w.clock >= -Old
  BY <1>4, Constants DEF WorkOK, WorkType, Old
(* The places that are left, and what has still to be put in them *)
<1>7. DOMAIN work[p].later = {} /\ i \in Hands(work[p])
  BY <1>2 DEF RoomInv, Ahead, Hands
<1>8. /\ IsFiniteSet(Reserved(work)) /\ Cardinality(Reserved(work)) \in Nat
      /\ Cardinality(FreeNow) >= Cardinality(Reserved(work))
  BY FS_CardinalityType DEF RoomInv, Enough
<1>9. \A j \in Places : Recent(queue[j])
  BY DEF RoomInv
<1>10. ASSUME \A o \in Procs : /\ Hands(work'[o]) \subseteq Hands(work[o]) \cup {0}
                               /\ DOMAIN work'[o].later \subseteq DOMAIN work[o].later
                               /\ Ahead(work'[o], pc'[o]),
              NEW o \in EntryType, Recent(o),
              o.status \in {"pending", "sending"} => o.targets # {},
              o.status \in {"none", "pending"} => o.carried = {},
              NEW later, LaterOK(later), \A a \in DOMAIN later : later[a] >= w.clock,
              Fits(queue, later),
              queue' = enqueue(updateQueued(queue, i, o), later, e.text, e.force)
       PROVE  RoomInv'
  <2>1. PICK q : q = updateQueued(queue, i, o)
    OBVIOUS
  <2>2. /\ EntriesOK(q) /\ q[i] \in {queue[i], o}
        /\ \A j \in Places \ {i} : q[j] = queue[j]
    <3> HIDE DEF i
    <3> QED BY <1>2, <1>5, <1>10, <2>1, UpdateIs
  <2>3. \A j \in Places : Recent(q[j])
    BY <1>9, <1>10, <2>2
  <2>4. FreeNow \subseteq Free(q)
    <3>1. i \notin FreeNow
      BY <1>2 DEF FreeNow, Free, InHand
    <3>2. \A j \in FreeNow : j \in Places \ {i} /\ q[j] = queue[j]
      BY <2>2, <3>1 DEF FreeNow, Free
    <3> QED BY <3>2 DEF FreeNow, Free
  <2>5. /\ Cardinality(Free(q)) \in Nat /\ Cardinality(FreeNow) <= Cardinality(Free(q))
        /\ IsFiniteSet(Free(q))
    <3>1. Free(q) \subseteq Places
      BY DEF Free
    <3>2. IsFiniteSet(Free(q))
      BY <3>1, Constants, FS_Subset
    <3> QED BY <2>4, <3>2, FS_Subset, FS_CardinalityType
  <2>6. Reserved(work') \subseteq Reserved(work)
    BY <1>10 DEF Reserved
  <2>7. /\ IsFiniteSet(Reserved(work')) /\ Cardinality(Reserved(work')) \in Nat
        /\ Cardinality(Reserved(work')) <= Cardinality(Reserved(work))
    BY <1>8, <2>6, FS_Subset, FS_CardinalityType
  <2>8. Cardinality(DOMAIN later) \in Nat
    <3>1. IsFiniteSet(DOMAIN later)
      BY <1>10, Constants, FS_Subset DEF LaterOK
    <3> QED BY <3>1, FS_CardinalityType
  <2>9. Cardinality(FreeNow) >= Cardinality(DOMAIN later) + Cardinality(Reserved(work))
    BY <1>10 DEF Fits, Reserved, FreeNow
  <2>10. Cardinality(Free(q)) >= Cardinality(DOMAIN later) + Cardinality(Reserved(work'))
    BY <1>8, <2>5, <2>7, <2>8, <2>9, FreeIsFinite
  <2>11. \A a \in DOMAIN later : later[a] >= -Old
    <3>1. \A a \in DOMAIN later : later[a] \in Int
      BY <1>10 DEF LaterOK
    <3>2. -Old \in Int
      BY Constants DEF Old
    <3> QED BY <1>6, <1>10, <3>1, <3>2
  <2>12. PICK text \in Words, force \in BOOLEAN : text = e.text /\ force = e.force
    BY <1>5
  <2>13. queue' = enqueue(q, later, text, force)
    BY <1>10, <2>1, <2>12
  <2> QED BY <1>2, <1>10, <2>2, <2>3, <2>7, <2>10, <2>11, <2>13, RoomIsTaken
(* The turn goes on *)
<1>11. ASSUME GoesOn(p, w)
       PROVE  /\ \A o \in Procs : /\ Hands(work'[o]) \subseteq Hands(work[o]) \cup {0}
                                  /\ DOMAIN work'[o].later \subseteq DOMAIN work[o].later
                                  /\ Ahead(work'[o], pc'[o])
              /\ work'[p].due # work[p].due
  <2>1. /\ work'[p].due = w.due /\ work'[p].place = 0 /\ DOMAIN work'[p].later = {}
        /\ \A o \in Procs \ {p} : work'[o] = work[o] /\ pc'[o] = pc[o]
        /\ Ahead(work'[p], pc'[p])
    BY <1>2, <1>11, GoesOnHolds
  <2>2. ASSUME NEW o \in Procs
        PROVE  /\ Hands(work'[o]) \subseteq Hands(work[o]) \cup {0}
               /\ DOMAIN work'[o].later \subseteq DOMAIN work[o].later
               /\ Ahead(work'[o], pc'[o])
    <3>1. CASE o = p
      BY <1>4, <2>1, <3>1 DEF Hands
    <3>2. CASE o # p
      BY <2>1, <3>2 DEF RoomInv
    <3> QED BY <3>1, <3>2
  <2> QED BY <1>4, <2>1, <2>2
<1>12. ASSUME queue' = cancel, GoesOn(p, w) PROVE RoomInv' /\ work'[p].due # work[p].due
  <2>1. PICK o : o = Done(i, Procs \ {p})
    OBVIOUS
  <2>2. o.status \in {"none", "done"}
    BY <1>2, <1>5, <2>1, DoneIs
  <2>3. queue' = updateQueued(queue, i, o)
    BY <1>12, <2>1
  <2>4. \A j \in Places : queue'[j] = queue[j] \/ queue'[j].status \in {"none", "done"}
    BY <1>2, <1>5, <2>2, <2>3 DEF updateQueued, EntriesOK
  <2>5. \A j \in Places : /\ Recent(queue'[j])
                          /\ queue[j].status \in {"none", "done"} => queue'[j].status \in {"none", "done"}
    BY <1>9, <2>4 DEF Recent
  <2>6. RoomInv'
    BY <1>11, <1>12, <2>5, RoomGoesOn
  <2> QED BY <1>11, <1>12, <2>6
(* It is planned *)
<1>13. ASSUME NEW order \in SetToSeqs(S), NEW slots,
              slots = planTargets(order, Places \ {i}, W.clock, W.clock, mode)
       PROVE  /\ PlanOK(slots, order, Places \ {i}, w.clock, mode)
              /\ LaterOK(slots) /\ DOMAIN slots \subseteq Accounts
              /\ \A a \in DOMAIN slots : slots[a] >= w.clock
  <2>1. S \in SUBSET Accounts /\ Places \ {i} \in SUBSET Places
    BY <1>5 DEF Live
  <2> HIDE DEF S, mode, W
  <2>2. /\ PlanOK(slots, order, Places \ {i}, w.clock, mode)
        /\ LaterOK(slots) /\ DOMAIN slots \subseteq S
    BY <1>2, <1>3, <1>6, <1>13, <2>1, PlanFor
  <2> QED BY <2>1, <2>2 DEF PlanOK
<1>14. ASSUME NEW slots, LaterOK(slots), \A a \in DOMAIN slots : slots[a] >= w.clock, NEW T
       PROVE  /\ LaterOK(Only(slots, T))
              /\ \A a \in DOMAIN Only(slots, T) : Only(slots, T)[a] >= w.clock
  <2>1. PICK r : r = Only(slots, T)
    OBVIOUS
  <2>2. /\ LaterOK(r) /\ DOMAIN r = DOMAIN slots \cap T
        /\ \A a \in DOMAIN r : r[a] = slots[a]
    BY <1>14, <2>1, OnlyIs
  <2> QED BY <1>14, <2>1, <2>2
<1>15. ASSUME NEW order \in SetToSeqs(S), NEW slots,
              slots = planTargets(order, Places \ {i}, W.clock, W.clock, mode),
              NEW first \in DOMAIN slots,
              Fits(queue, Only(slots, DOMAIN slots \ {first})),
              queue' = enqueue(updateQueued(queue, i, Moved(slots[first], first)),
                               Only(slots, DOMAIN slots \ {first}), e.text, e.force),
              GoesOn(p, W)
       PROVE  RoomInv' /\ work'[p].due # work[p].due
  <2>1. LaterOK(slots) /\ \A a \in DOMAIN slots : slots[a] >= w.clock
    BY <1>13, <1>15
  <2>2. PICK o : o = Moved(slots[first], first)
    OBVIOUS
  <2>3. queue[i] \in EntryType /\ (queue[i].status \in {"none", "pending"} => queue[i].carried = {})
    BY <1>2, <1>5 DEF EntriesOK
  <2>4. slots[first] \in Int /\ first \in Accounts /\ slots[first] >= w.clock
    BY <1>15, <2>1 DEF LaterOK
  <2>5. /\ o \in EntryType /\ o.targets = {first} /\ o.at = slots[first]
        /\ o.status \in {"none", "pending"} => o.carried = {}
    BY <2>2, <2>3, <2>4 DEF EntryType
  <2>6. Recent(o)
    <3>1. -Old \in Int
      BY Constants DEF Old
    <3> QED BY <1>6, <2>4, <2>5, <3>1 DEF Recent
  <2>7. PICK later : later = Only(slots, DOMAIN slots \ {first})
    OBVIOUS
  <2>8. LaterOK(later) /\ \A a \in DOMAIN later : later[a] >= w.clock
    BY <1>14, <2>1, <2>7
  <2>9. queue' = enqueue(updateQueued(queue, i, o), later, e.text, e.force) /\ Fits(queue, later)
    BY <1>15, <2>2, <2>7
  <2>10. GoesOn(p, w)
    BY <1>3, <1>15
  <2> HIDE DEF i, e, W, S, mode, Moved
  <2>11. RoomInv'
    BY <1>10, <1>11, <2>5, <2>6, <2>8, <2>9, <2>10
  <2> QED BY <1>11, <2>10, <2>11
<1>16. ASSUME NEW order \in SetToSeqs(S), NEW slots,
              slots = planTargets(order, Places \ {i}, W.clock, W.clock, mode),
              Now(slots) # {}, Fits(queue, Rest(slots)),
              queue' = enqueue(updateQueued(queue, i, Sent(Now(slots))),
                               Rest(slots), e.text, e.force),
              pc' = [pc EXCEPT ![p] = "send"],
              work' = [work EXCEPT ![p] = Held(Now(slots))]
       PROVE  RoomInv' /\ work'[p].due # work[p].due
  <2>1. LaterOK(slots) /\ DOMAIN slots \subseteq Accounts /\ \A a \in DOMAIN slots : slots[a] >= w.clock
    BY <1>13, <1>16
  <2>2. PICK now : now = Now(slots)
    OBVIOUS
  <2>3. now # {} /\ now \in SUBSET Accounts
    BY <1>16, <2>1, <2>2
  <2>4. PICK o : o = Sent(now)
    OBVIOUS
  <2>5. queue[i] \in EntryType
    BY <1>2, <1>5 DEF EntriesOK
  <2>6. o \in EntryType /\ o.targets # {} /\ o.status = "sending"
    BY <2>3, <2>4, <2>5 DEF EntryType, Status
  <2>7. Recent(o)
    BY <2>6 DEF Recent
  <2>8. PICK later : later = Rest(slots)
    OBVIOUS
  <2>9. LaterOK(later) /\ \A a \in DOMAIN later : later[a] >= w.clock
    BY <1>14, <2>1, <2>8
  <2>10. queue' = enqueue(updateQueued(queue, i, o), later, e.text, e.force) /\ Fits(queue, later)
    BY <1>16, <2>2, <2>4, <2>8
  <2>11. PICK v : v = [w EXCEPT !.place = i, !.to = now, !.text = e.text, !.force = e.force]
    OBVIOUS
  <2>12. v.due = w.due /\ v.place = i /\ v.later = w.later
    BY <1>4, <2>11 DEF WorkOK, WorkType
  <2>13. work' = [work EXCEPT ![p] = v]
    BY <1>3, <1>16, <2>2, <2>11
  <2>14. /\ work'[p] = v /\ pc'[p] = "send"
         /\ \A u \in Procs \ {p} : work'[u] = work[u] /\ pc'[u] = pc[u]
    BY <1>2, <1>16, <2>13 DEF Types
  <2>15. ASSUME NEW u \in Procs
         PROVE  /\ Hands(work'[u]) \subseteq Hands(work[u]) \cup {0}
                /\ DOMAIN work'[u].later \subseteq DOMAIN work[u].later
                /\ Ahead(work'[u], pc'[u])
    <3>1. CASE u = p
      <4>1. Hands(v) \subseteq Hands(work[p])
        BY <1>4, <1>7, <2>12 DEF Hands
      <4>2. DOMAIN v.later = {}
        BY <1>4, <1>7, <2>12
      <4> QED BY <2>14, <3>1, <4>1, <4>2 DEF Ahead
    <3>2. CASE u # p
      BY <2>14, <3>2 DEF RoomInv
    <3> QED BY <3>1, <3>2
  <2> HIDE DEF i, e, W, S, mode, Now, Rest, Sent, Held
  <2>16. RoomInv'
    BY <1>10, <2>6, <2>7, <2>9, <2>10, <2>15
  <2> QED BY <1>4, <2>12, <2>14, <2>16
<1>17. CASE queue' = cancel /\ GoesOn(p, W)
  BY <1>3, <1>12, <1>17
<1> HIDE DEF i, e, W, S, mode, Now, Rest, cancel, Moved, Sent, Held
<1> QED BY <1>1, <1>15, <1>16, <1>17

LEMMA CancelRoom ==
  ASSUME PostInv, RoomInv, NEW i \in Places, Cancel(i)
  PROVE  RoomInv' /\ NoneLater
<1>1. /\ queue' = [queue EXCEPT ![i] = NoEntry] /\ pc' = pc /\ work' = work
      /\ DOMAIN queue = Places
  BY DEF Cancel, PostInv, Types, EntriesOK
<1>2. \A j \in Places : queue'[j] = queue[j] \/ queue'[j].status \in {"none", "done"}
  BY <1>1, NoEntryIs
<1> QED BY <1>1, <1>2, QueueRoom

LEMMA CutOffRoom ==
  ASSUME PostInv, RoomInv, NEW p \in Schedulers, NEW d \in work[p].due, CutOff(p, d)
  PROVE  RoomInv' /\ pc'[p] # pc[p]
<1>1. Types /\ p \in Procs /\ pc[p] = "walk" /\ EntriesOK(queue) /\ WorkOK(work[p])
  BY DEF PostInv, Types, CutOff, Procs
<1>2. /\ work' = [work EXCEPT ![p] = Idle] /\ pc' = [pc EXCEPT ![p] = "idle"]
      /\ p \in DOMAIN work /\ p \in DOMAIN pc
  BY <1>1 DEF CutOff, Goto, Types
<1>3. ASSUME NEW o \in Procs
      PROVE  /\ Hands(work'[o]) \subseteq Hands(work[o]) \cup {0}
             /\ DOMAIN work'[o].later \subseteq DOMAIN work[o].later
             /\ Ahead(work'[o], pc'[o])
  <2>1. CASE o = p
    BY <1>2, <2>1 DEF Hands, Idle, Ahead
  <2>2. CASE o # p
    <3>1. work'[o] = work[o] /\ pc'[o] = pc[o] /\ Ahead(work[o], pc[o])
      BY <1>2, <2>2 DEF RoomInv
    <3> QED BY <3>1
  <2> QED BY <2>1, <2>2
<1>4. CutOffQueue(p, d, queue')
  BY <1>1, CutOffIs
<1>5. PICK trimmed, slots, parts :
        /\ LaterOK(slots) /\ \A a \in DOMAIN slots : slots[a] >= -Old
        /\ \/ trimmed = queue
           \/ trimmed = updateQueued(queue, d.place,
                          [queue[d.place] EXCEPT !.targets = Live(d.entry.targets)])
        /\ Fits(trimmed, Only(slots, parts))
        /\ queue' = enqueue(trimmed, Only(slots, parts), d.entry.text, d.entry.force)
  BY <1>4 DEF CutOffQueue
<1>6. PICK i \in Places, e \in EntryType : i = d.place /\ e = d.entry
  BY <1>1 DEF WorkOK, WorkType
<1>7. PICK live \in SUBSET Accounts : live = Live(d.entry.targets) /\ live # {}
  <2>1. Live(d.entry.targets) \in SUBSET Accounts
    BY <1>6 DEF EntryType, Live
  <2> QED BY <2>1 DEF CutOff
<1>8. EntriesOK(trimmed) /\ \A j \in Places : Recent(trimmed[j])
  <2>1. \A j \in Places : Recent(queue[j])
    BY DEF RoomInv
  <2>2. CASE trimmed = queue
    BY <1>1, <2>1, <2>2
  <2>3. CASE trimmed = updateQueued(queue, i, [queue[i] EXCEPT !.targets = live])
    <3>1. PICK o : o = [queue[i] EXCEPT !.targets = live]
      OBVIOUS
    <3>2. queue[i] \in EntryType /\ (queue[i].status \in {"none", "pending"} => queue[i].carried = {})
      BY <1>1 DEF EntriesOK
    <3>3. /\ o \in EntryType /\ o.targets = live /\ o.at = queue[i].at
          /\ o.status = queue[i].status /\ o.carried = queue[i].carried
      BY <3>1, <3>2 DEF EntryType
    <3>4. trimmed = updateQueued(queue, i, o)
      BY <2>3, <3>1
    <3>5. /\ EntriesOK(trimmed) /\ trimmed[i] \in {queue[i], o}
          /\ \A j \in Places \ {i} : trimmed[j] = queue[j]
      BY <1>1, <1>7, <3>2, <3>3, <3>4, UpdateIs, SMTT(20)
    <3>6. Recent(o)
      BY <2>1, <3>3 DEF Recent
    <3> QED BY <2>1, <3>5, <3>6
  <2> QED BY <1>5, <1>6, <1>7, <2>2, <2>3
<1>9. PICK later : later = Only(slots, parts)
  OBVIOUS
<1>10. LaterOK(later) /\ \A a \in DOMAIN later : later[a] >= -Old
  <2>1. /\ LaterOK(later) /\ DOMAIN later \subseteq DOMAIN slots
        /\ \A a \in DOMAIN later : later[a] = slots[a]
    BY <1>5, <1>9, OnlyIs
  <2> QED BY <1>5, <2>1
<1>11. PICK text \in Words, force \in BOOLEAN : text = e.text /\ force = e.force
  BY DEF EntryType
<1>12. queue' = enqueue(trimmed, later, text, force) /\ Fits(trimmed, later)
  BY <1>5, <1>6, <1>9, <1>11
<1>13. /\ IsFiniteSet(Reserved(work)) /\ Cardinality(Reserved(work)) \in Nat
       /\ IsFiniteSet(Reserved(work')) /\ Cardinality(Reserved(work')) \in Nat
       /\ Cardinality(Reserved(work')) <= Cardinality(Reserved(work))
  <2>1. IsFiniteSet(Reserved(work))
    BY DEF RoomInv, Enough
  <2>2. Reserved(work') \subseteq Reserved(work)
    BY <1>3 DEF Reserved
  <2> QED BY <2>1, <2>2, FS_Subset, FS_CardinalityType
<1>14. /\ Cardinality(Free(trimmed)) \in Nat /\ Cardinality(DOMAIN later) \in Nat
       /\ Cardinality(Free(trimmed)) >= Cardinality(DOMAIN later) + Cardinality(Reserved(work))
  <2>1. Free(trimmed) \subseteq Places /\ DOMAIN later \subseteq Accounts
    BY <1>10 DEF Free, LaterOK
  <2>2. Cardinality(Free(trimmed)) \in Nat /\ Cardinality(DOMAIN later) \in Nat
    BY <2>1, Constants, FS_Subset, FS_CardinalityType
  <2> QED BY <1>12, <2>2 DEF Fits, Reserved
<1>15. Cardinality(Free(trimmed)) >= Cardinality(DOMAIN later) + Cardinality(Reserved(work'))
  BY <1>13, <1>14
<1>16. RoomInv'
  BY <1>1, <1>3, <1>8, <1>10, <1>12, <1>13, <1>15, RoomIsTaken
<1> QED BY <1>1, <1>2, <1>16

LEMMA ScheduleRoom ==
  ASSUME PostInv, RoomInv, NEW targets \in SUBSET Accounts, NEW text \in Texts,
         schedule(targets, text)
  PROVE  RoomInv' /\ NoneLater
<1>1. PICK i \in Free(queue) :
        /\ Fits([queue EXCEPT ![i] = Entry(Lead, targets, text, FALSE)], <<>>)
        /\ queue' = [queue EXCEPT ![i] = Entry(Lead, targets, text, FALSE)]
  BY DEF schedule
<1>2. pc' = pc /\ work' = work /\ EntriesOK(queue)
  BY DEF schedule, PostInv, Types
<1>3. i \in Places /\ queue[i].status \in {"none", "done"} /\ DOMAIN queue = Places
  BY <1>1, <1>2 DEF Free, EntriesOK
<1>4. /\ \A j \in Places \ {i} : queue'[j] = queue[j]
      /\ queue'[i] = Entry(Lead, targets, text, FALSE)
  BY <1>1, <1>3
<1>5. Recent(queue'[i])
  <2>1. queue'[i].at = Lead /\ Lead \in Nat /\ Old \in Nat
    BY <1>4, Constants DEF Entry
  <2> QED BY <2>1 DEF Recent
<1>6. /\ (\A j \in Places : Recent(queue[j]))'
      /\ (\A o \in Procs : Ahead(work[o], pc[o]))'
  BY <1>2, <1>4, <1>5 DEF RoomInv, Recent, Ahead
<1>7. Enough'
  <2>1. IsFiniteSet(Reserved(work')) /\ Cardinality(Reserved(work')) \in Nat
    BY <1>2, FS_CardinalityType DEF RoomInv, Enough
  <2>2. Cardinality(Free(queue')) >= Cardinality(DOMAIN <<>>) + Cardinality(Reserved(work'))
    BY <1>1, <1>2 DEF Fits, Reserved
  <2>3. Cardinality(DOMAIN <<>>) = 0
    BY FS_EmptySet
  <2>4. FreeNow' = Free(queue')
    BY <1>2 DEF FreeNow, Free, InHand
  <2> QED BY <2>1, <2>2, <2>3, <2>4 DEF Enough, Reserved
<1>8. NoneLater
  <2>1. \A j \in Places : queue[j].at \in Int
    BY <1>2 DEF EntriesOK, EntryType
  <2> QED BY <1>3, <1>4, <2>1 DEF NoneLater
<1> QED BY <1>6, <1>7, <1>8 DEF RoomInv

LEMMA RoomStep ==
  ASSUME PostInv, RoomInv, [Next]_vars
  PROVE  /\ RoomInv'
         /\ (\A p \in Schedulers : pc'[p] = pc[p] /\ work'[p].due = work[p].due) => MakesRoom
<1>1. NoneLater => MakesRoom
  BY DEF NoneLater, MakesRoom
<1>2. CASE UNCHANGED vars
  <2>1. /\ queue' = queue /\ pc' = pc /\ work' = work
    BY <1>2 DEF vars
  <2> QED BY <1>1, <2>1, QueueRoom
<1>3. CASE \E p \in People, A \in SUBSET Accounts, t \in Texts,
             m \in uses \cap {"paced", "front", "now", "ahead"} : Post(p, A, t, m)
  BY <1>3, PostRoom
<1>4. CASE \E A \in SUBSET Accounts, t \in Texts : schedule(A, t)
  BY <1>1, <1>4, ScheduleRoom
<1>5. CASE \E p \in Schedulers : Tick(p) \/ \E d \in work[p].due : Walk(p, d) \/ CutOff(p, d)
  BY <1>5, TickRoom, WalkRoom, CutOffRoom
<1>6. CASE \E p \in Procs : Land(p) \/ Finish(p) \/ Crash(p)
  BY <1>1, <1>6, LandRoom, FinishRoom, CrashRoom
<1>7. CASE \E i \in Places : Cancel(i)
  BY <1>1, <1>7, CancelRoom
<1>8. CASE \E a \in Accounts : Archive(a) \/ restoreAccount(a)
  <2>1. ASSUME NEW a \in Accounts, Archive(a) PROVE RoomInv' /\ NoneLater
    BY <2>1, ArchiveRoom
  <2>2. ASSUME NEW a \in Accounts, restoreAccount(a) PROVE RoomInv' /\ NoneLater
    <3>1. queue' = queue /\ pc' = pc /\ work' = work
      BY <2>2 DEF restoreAccount
    <3> QED BY <3>1, QueueRoom
  <2> QED BY <1>1, <1>8, <2>1, <2>2
<1>9. CASE Pass
  BY <1>1, <1>9, PassRoom
<1> QED BY <1>2, <1>3, <1>5, <1>6, <1>7, <1>8, <1>9, <1>4 DEF Next

(* core/pacing.ts:206: a post at the front makes room: where it moves an      *)
(* entry, every later one that goes to the same network alone is then a gap  *)
(* apart from it, also where it was not before; and nothing moves to an      *)
(* earlier time.                                                             *)
THEOREM RoomIsKept == Spec => RoomIsMade
<1> DEFINE Step == (\A p \in Schedulers : pc'[p] = pc[p] /\ work'[p].due = work[p].due) => MakesRoom
<1>1. PostInv /\ RoomInv /\ [Next]_vars => RoomInv' /\ Step
  BY RoomStep
<1>2. Init => RoomInv
  BY RoomInit
<1>3. ASSUME Step
      PROVE  (\A p \in Schedulers : pc'[p] = pc[p] /\ work'[p].due = work[p].due) =>
               \A i, j \in {k \in Places : queue[k].status = "pending" /\ queue'[k].status = "pending"} :
                 (i # j /\ queue'[i].at > queue[i].at) =>
                   /\ queue'[j].at >= queue[j].at
                   /\ (queue[j].at >= queue[i].at
                        /\ \A a \in queue[i].targets, b \in queue[j].targets :
                             NetworkOf[a] = NetworkOf[b])
                        => \/ queue'[j].at >= queue'[i].at + Min(Range(GapOf))
                           \/ queue'[i].at >= queue'[j].at + Min(Range(GapOf))
  BY <1>3 DEF MakesRoom, OneNetwork
<1> HIDE DEF Step
<1> QED BY <1>1, <1>2, <1>3, PostInvariant, PTL DEF Spec, RoomIsMade
=============================================================================

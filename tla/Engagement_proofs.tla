-------------------------- MODULE Engagement_proofs --------------------------
(***************************************************************************)
(* What the daemon does with other people's posts, for every value of the  *)
(* constants: replies and follows (Engage), votes and replies with a link  *)
(* (Upvotes).                                                              *)
(***************************************************************************)
EXTENDS Engage, Upvotes, FiniteSetTheorems, TLAPS

(***************************************************************************)
(* Nobody is answered twice, for any number of notifications, people,      *)
(* workers and faults (Engage).                                            *)
(*                                                                         *)
(* While one at a time has the file, what is true of the people who were   *)
(* answered is true of the items in the hand that sends (Good), and of the *)
(* file as long as that hand has sent nothing; then the file is behind,    *)
(* but says of nobody that they were answered who was not (SenderOK).      *)
(***************************************************************************)
ItemStates == {"none", "pending", "sent", "failed", "skipped"}
Item == [status : ItemStates, reply : BOOLEAN, follow : BOOLEAN]
EngagePlaces == {"idle", "scan", "walk", "follow", "reply"}
Ages == {"never", "now", "today", "old"}
Hands == [seen : SUBSET Notes, item : {<<>>} \cup Items, home : BOOLEAN, todo : SUBSET Notes,
          note : Notes \cup {"none"}, failed : BOOLEAN, done : BOOLEAN, replied : BOOLEAN]

(* Whoever has an item was seen, and is asked for something *)
ItemsOK(seen, item) ==
  /\ item \in Items
  /\ \A n \in Notes : item[n].status # "none" => n \in seen /\ (item[n].reply \/ item[n].follow)

HandFits(where, h) ==
  /\ where # "idle" => ItemsOK(h.seen, h.item)
  /\ where = "scan" => ~h.done
  /\ where \in {"walk", "follow", "reply"} => \A n \in h.todo : h.item[n].status = "pending"
  /\ where \in {"follow", "reply"} =>
       h.note \in Notes /\ h.item[h.note].status = "pending" /\ h.note \notin h.todo

EngageFileOK ==
  /\ engage = [seen |-> engage.seen, item |-> engage.item]
  /\ engage.seen \subseteq Notes /\ ItemsOK(engage.seen, engage.item)

EngagersOK ==
  /\ epc \in [Workers -> EngagePlaces] /\ hand \in [Workers -> Hands]
  /\ \A w \in Workers : HandFits(epc[w], hand[w])

EngageWorldOK ==
  /\ arrived \subseteq Notes /\ account \in BOOLEAN
  /\ ready \subseteq Notes /\ cold \subseteq Notes /\ refused \subseteq Notes
  /\ age \in [Notes -> Ages] /\ replies \in [Notes -> 0..2] /\ torn \in BOOLEAN

(* What must be true of the items; reps, nos, late and ages stand for the    *)
(* replies, those skipped before they were sent, who has cooled down and    *)
(* how long ago the items were sent                                         *)
FreshOK(item, reps) == \A n \in Notes : item[n].status \in {"none", "pending"} => reps[n] = 0
RefusedOK(item, nos) == \A n \in nos : item[n].status = "skipped"
CooldownOK(item, late) ==
  \A m, n \in Notes \ late :
    /\ item[m].status \in {"pending", "sent"} /\ item[n].status \in {"pending", "sent"}
    /\ PersonOf[m] = PersonOf[n]
    => m = n
SentOn(item, ages) == {n \in Notes : item[n].status = "sent" /\ ages[n] \in {"now", "today"}}

Good(item, reps, nos, late, ages) ==
  /\ FreshOK(item, reps) /\ RefusedOK(item, nos) /\ CooldownOK(item, late)
  /\ Cardinality(SentOn(item, ages)) <= EngageCap

SenderFits(where, h, reps, ages) ==
  /\ Good(h.item, reps, refused, cold, ages)
  /\ Sent(engage.item) \subseteq Sent(h.item)
  /\ where \in {"follow", "reply"} => Cardinality(SentOn(h.item, ages)) < EngageCap

SendPlaces == {"walk", "follow", "reply"}

SenderOK(w) == epc[w] \in SendPlaces => SenderFits(epc[w], hand[w], replies, age)

ScannerOK(w) ==
  epc[w] = "scan" => hand[w].item = engage.item /\ hand[w].seen = engage.seen

OneBusy == \A v, w \in Workers : epc[v] # "idle" /\ epc[w] # "idle" => v = w

(* Nobody has sent anything the file does not know *)
NothingSent == \A w \in Workers : epc[w] # "idle" => ~hand[w].done

RepliesOK ==
  /\ \A n \in Notes : replies[n] <= 1
  /\ \A n \in refused : replies[n] = 0

SafeSoFar ==
  /\ OneBusy /\ RepliesOK /\ (NothingSent => Good(engage.item, replies, refused, cold, age))
  /\ \A w \in Workers : SenderOK(w) /\ ScannerOK(w)

EngageInv ==
  EngageFileOK /\ EngagersOK /\ EngageWorldOK /\ (~torn => SafeSoFar)

LEMMA EngageInvIsType == EngageInv => EngageTypeOK
BY DEF EngageInv, EngageFileOK, EngagersOK, EngageWorldOK, ItemsOK, HandFits, Hands, EngagePlaces,
       Ages, EngageTypeOK

LEMMA NoHandType == NoHand \in Hands /\ HandFits("idle", NoHand) /\ ~NoHand.done
BY DEF NoHand, Hands, HandFits

LEMMA ItemsType == Items = [Notes -> Item]
BY DEF Items, Item, ItemStates

LEMMA SentOnFinite ==
  ASSUME NEW item, NEW ages
  PROVE  IsFiniteSet(SentOn(item, ages)) /\ Cardinality(SentOn(item, ages)) \in Nat
<1>1. SentOn(item, ages) \subseteq Notes
  BY DEF SentOn
<1> QED BY <1>1, EngageAssumption, FS_Subset, FS_CardinalityType

LEMMA FewerAtMost ==
  ASSUME NEW S, IsFiniteSet(S), NEW T, T \subseteq S
  PROVE  Cardinality(T) \in Nat /\ Cardinality(T) <= Cardinality(S)
BY FS_Subset, FS_CardinalityType

LEMMA OneMoreAtMost ==
  ASSUME NEW S, IsFiniteSet(S), NEW x, NEW T, T \subseteq S \cup {x}
  PROVE  Cardinality(T) \in Nat /\ Cardinality(T) <= Cardinality(S) + 1
<1>1. IsFiniteSet(S \cup {x}) /\ Cardinality(S \cup {x}) <= Cardinality(S) + 1
  <2>1. Cardinality(S) \in Nat
    BY FS_CardinalityType
  <2>2. CASE x \in S
    <3>1. S \cup {x} = S
      BY <2>2
    <3> QED BY <2>1, <3>1
  <2>3. CASE x \notin S
    <3>1. IsFiniteSet(S \cup {x}) /\ Cardinality(S \cup {x}) = Cardinality(S) + 1
      BY <2>3, FS_AddElement
    <3> QED BY <2>1, <3>1
  <2> QED BY <2>2, <2>3
<1>2. Cardinality(T) \in Nat /\ Cardinality(T) <= Cardinality(S \cup {x})
  BY <1>1, FewerAtMost
<1>3. Cardinality(S) \in Nat /\ Cardinality(S \cup {x}) \in Nat
  BY <1>1, FS_CardinalityType
<1> QED BY <1>1, <1>2, <1>3

(* Time only takes from the day, and from those who have not cooled down *)
LEMMA GoodForLonger ==
  ASSUME NEW item, NEW reps, NEW nos, NEW late, NEW ages, Good(item, reps, nos, late, ages),
         NEW late2, late \subseteq late2,
         NEW ages2, \A n \in Notes : ages2[n] \in {"now", "today"} => ages[n] \in {"now", "today"}
  PROVE  /\ Good(item, reps, nos, late2, ages2)
         /\ Cardinality(SentOn(item, ages2)) \in Nat
         /\ Cardinality(SentOn(item, ages2)) <= Cardinality(SentOn(item, ages))
<1>1. SentOn(item, ages2) \subseteq SentOn(item, ages)
  BY DEF SentOn
<1>2. /\ Cardinality(SentOn(item, ages2)) \in Nat /\ Cardinality(SentOn(item, ages)) \in Nat
      /\ Cardinality(SentOn(item, ages2)) <= Cardinality(SentOn(item, ages))
  BY <1>1, SentOnFinite, FewerAtMost
<1>3. Cardinality(SentOn(item, ages2)) <= EngageCap
  BY <1>2, EngageAssumption DEF Good
<1>4. CooldownOK(item, late2)
  BY DEF Good, CooldownOK
<1> QED BY <1>2, <1>3, <1>4 DEF Good

(* An item that becomes skipped or failed, and was not before *)
LEMMA GoodWithout ==
  ASSUME NEW item, NEW reps, NEW nos, NEW late, NEW ages, Good(item, reps, nos, late, ages),
         NEW n \in Notes, NEW new, \A m \in Notes \ {n} : new[m].status = item[m].status,
         new[n].status \in {"skipped", "failed"},
         new[n].status = "skipped" \/ n \notin nos, nos \subseteq Notes
  PROVE  Good(new, reps, nos, late, ages)
<1>1. SentOn(new, ages) \subseteq SentOn(item, ages)
  BY DEF SentOn
<1>2. /\ Cardinality(SentOn(new, ages)) \in Nat /\ Cardinality(SentOn(item, ages)) \in Nat
      /\ Cardinality(SentOn(new, ages)) <= Cardinality(SentOn(item, ages))
  BY <1>1, SentOnFinite, FewerAtMost
<1>3. Cardinality(SentOn(new, ages)) <= EngageCap
  BY <1>2, EngageAssumption DEF Good
<1>4. FreshOK(new, reps)
  BY DEF Good, FreshOK
<1>5. RefusedOK(new, nos)
  BY DEF Good, RefusedOK
<1>6. CooldownOK(new, late)
  BY DEF Good, CooldownOK
<1> QED BY <1>3, <1>4, <1>5, <1>6 DEF Good

LEMMA StatusSet ==
  ASSUME NEW item \in Items, NEW n \in Notes, NEW s \in ItemStates, NEW new,
         new = [item EXCEPT ![n].status = s]
  PROVE  /\ new \in Items /\ new[n].status = s /\ new[n].reply = item[n].reply
         /\ new[n].follow = item[n].follow /\ \A m \in Notes \ {n} : new[m] = item[m]
BY ItemsType DEF Item

LEMMA EngageInvInit == faults = 0 /\ EngageInit => EngageInv
<1> SUFFICES ASSUME EngageInit PROVE EngageInv
  OBVIOUS
<1>1. engage.seen = {} /\ engage.item = [n \in Notes |-> NoItem] /\ EngageFileOK
  BY ItemsType DEF EngageInit, EngageFileOK, ItemsOK, NoItem, Item, ItemStates
<1>2. \A w \in Workers : epc[w] = "idle" /\ hand[w] = NoHand
  BY DEF EngageInit
<1>3. EngagersOK
  BY <1>2, NoHandType DEF EngageInit, EngagersOK, EngagePlaces
<1>4. EngageWorldOK
  <2>1. age \in [Notes -> Ages]
    BY DEF EngageInit, Ages
  <2>2. replies \in [Notes -> 0..2]
    BY DEF EngageInit
  <2> QED BY <2>1, <2>2 DEF EngageInit, EngageWorldOK
<1>5. Good(engage.item, replies, refused, cold, age)
  <2>1. SentOn(engage.item, age) = {} /\ Cardinality({}) = 0
    BY <1>1, FS_EmptySet DEF SentOn, NoItem
  <2>2. Cardinality(SentOn(engage.item, age)) <= EngageCap
    BY <2>1, EngageAssumption
  <2>3. FreshOK(engage.item, replies)
    BY DEF EngageInit, FreshOK
  <2>4. RefusedOK(engage.item, refused)
    BY DEF EngageInit, RefusedOK
  <2>5. CooldownOK(engage.item, cold)
    BY <1>1 DEF CooldownOK, NoItem
  <2> QED BY <2>2, <2>3, <2>4, <2>5 DEF Good
<1>6. SafeSoFar
  BY <1>2, <1>5 DEF EngageInit, SafeSoFar, OneBusy, RepliesOK, SenderOK, SendPlaces, ScannerOK
<1> QED BY <1>1, <1>3, <1>4, <1>6 DEF EngageInv

LEMMA HandMoves ==
  ASSUME EngagersOK, NEW w \in Workers, NEW where \in EngagePlaces, NEW h \in Hands,
         HandFits(where, h), To(w, where, h)
  PROVE  /\ EngagersOK' /\ epc'[w] = where /\ hand'[w] = h
         /\ \A o \in Workers \ {w} : epc'[o] = epc[o] /\ hand'[o] = hand[o]
BY DEF EngagersOK, To

(* One worker is all there is to speak of *)
LEMMA OnlyOne ==
  ASSUME NEW w \in Workers, \A o \in Workers \ {w} : epc'[o] = "idle", RepliesOK',
         SenderOK(w)', ScannerOK(w)',
         NothingSent' => Good(engage'.item, replies', refused', cold', age')
  PROVE  SafeSoFar'
BY DEF SafeSoFar, OneBusy, SenderOK, SendPlaces, ScannerOK

LEMMA ScanTurnStep ==
  ASSUME EngageInv, NEW w \in Workers, ScanTurn(w)
  PROVE  EngageInv'
<1>1. EngageFileOK /\ EngagersOK /\ EngageWorldOK /\ (~torn => SafeSoFar)
  BY DEF EngageInv
<1>2. /\ UNCHANGED <<arrived, account, engage, ready, cold, age, replies, refused, faults>>
      /\ Opened(w, "scan", NoHand)
  BY DEF ScanTurn
<1>3. PICK h : h = [NoHand EXCEPT !.seen = engage.seen, !.item = engage.item]
  OBVIOUS
<1>4. h \in Hands /\ h.seen = engage.seen /\ h.item = engage.item /\ HandFits("scan", h)
  BY <1>1, <1>3, NoHandType DEF NoHand, Hands, HandFits, EngageFileOK, ItemsOK
<1>5. To(w, "scan", h) /\ torn' = (torn \/ Busy(Workers \ {w}))
  BY <1>2, <1>3 DEF Opened
<1>6. /\ EngagersOK' /\ epc'[w] = "scan" /\ hand'[w] = h
      /\ \A o \in Workers \ {w} : epc'[o] = epc[o] /\ hand'[o] = hand[o]
  BY <1>1, <1>4, <1>5, HandMoves DEF EngagePlaces
<1>7. ASSUME ~torn' PROVE SafeSoFar'
  <2>1. ~torn /\ SafeSoFar /\ \A o \in Workers : epc[o] = "idle"
    BY <1>1, <1>2, <1>5, <1>7 DEF Busy, Opened, EngageWorldOK
  <2>2. Good(engage.item, replies, refused, cold, age) /\ RepliesOK
    BY <2>1 DEF SafeSoFar, NothingSent
  <2>3. RepliesOK'
    BY <1>2, <2>2 DEF RepliesOK
  <2>4. SenderOK(w)' /\ ScannerOK(w)'
    BY <1>2, <1>4, <1>6 DEF SenderOK, SenderFits, SendPlaces, ScannerOK
  <2> QED BY <1>2, <1>6, <2>1, <2>2, <2>3, <2>4, OnlyOne
<1>8. EngageFileOK' /\ EngageWorldOK'
  BY <1>1, <1>2, <1>5 DEF EngageFileOK, EngageWorldOK, Busy
<1> QED BY <1>6, <1>7, <1>8 DEF EngageInv

LEMMA SendTurnStep ==
  ASSUME EngageInv, NEW w \in Workers, SendTurn(w)
  PROVE  EngageInv'
<1>1. EngageFileOK /\ EngagersOK /\ EngageWorldOK /\ (~torn => SafeSoFar)
  BY DEF EngageInv
<1>2. /\ UNCHANGED <<arrived, account, engage, ready, cold, age, replies, refused, faults>>
      /\ Opened(w, "walk", [NoHand EXCEPT !.todo = Due(engage.item), !.home = account])
  BY DEF SendTurn
<1>3. PICK h : h = [[NoHand EXCEPT !.todo = Due(engage.item), !.home = account]
                      EXCEPT !.seen = engage.seen, !.item = engage.item]
  OBVIOUS
<1>4. /\ h \in Hands /\ h.seen = engage.seen /\ h.item = engage.item /\ HandFits("walk", h)
      /\ h.todo = Due(engage.item)
  <2>1. /\ h \in Hands /\ h.seen = engage.seen /\ h.item = engage.item /\ h.todo = Due(engage.item)
    BY <1>1, <1>3 DEF NoHand, Hands, EngageFileOK, ItemsOK, Due, EngageWorldOK
  <2>2. \A n \in h.todo : h.item[n].status = "pending"
    BY <2>1 DEF Due
  <2> QED BY <1>1, <2>1, <2>2 DEF HandFits, EngageFileOK
<1>5. To(w, "walk", h) /\ torn' = (torn \/ Busy(Workers \ {w}))
  BY <1>2, <1>3 DEF Opened
<1>6. /\ EngagersOK' /\ epc'[w] = "walk" /\ hand'[w] = h
      /\ \A o \in Workers \ {w} : epc'[o] = epc[o] /\ hand'[o] = hand[o]
  BY <1>1, <1>4, <1>5, HandMoves DEF EngagePlaces
<1>7. ASSUME ~torn' PROVE SafeSoFar'
  <2>1. ~torn /\ SafeSoFar /\ \A o \in Workers : epc[o] = "idle"
    BY <1>1, <1>2, <1>5, <1>7 DEF Busy, Opened, EngageWorldOK
  <2>2. Good(engage.item, replies, refused, cold, age) /\ RepliesOK
    BY <2>1 DEF SafeSoFar, NothingSent
  <2>3. RepliesOK'
    BY <1>2, <2>2 DEF RepliesOK
  <2>5. SenderOK(w)' /\ ScannerOK(w)'
    BY <1>2, <1>4, <1>6, <2>2 DEF SenderOK, SenderFits, SendPlaces, ScannerOK
  <2> QED BY <1>2, <1>6, <2>1, <2>2, <2>3, <2>5, OnlyOne
<1>8. EngageFileOK' /\ EngageWorldOK'
  BY <1>1, <1>2, <1>5 DEF EngageFileOK, EngageWorldOK, Busy
<1> QED BY <1>6, <1>7, <1>8 DEF EngageInv

(* Who opens follow-ups may *)
LEMMA GoodWithNew ==
  ASSUME NEW item \in Items, NEW reps, NEW nos, NEW late, NEW ages, Good(item, reps, nos, late, ages),
         NEW new \in SUBSET Notes, \A n \in new : item[n].status = "none",
         NEW then \in Items, \A n \in new : then[n].status = "pending",
         \A n \in Notes \ new : then[n] = item[n],
         \A n \in new, m \in Notes \ late :
           item[m].status \in {"pending", "sent"} => PersonOf[m] # PersonOf[n],
         \A m, n \in new : PersonOf[m] = PersonOf[n] => m = n,
         nos \subseteq Notes
  PROVE  Good(then, reps, nos, late \ new, ages)
<1>1. SentOn(then, ages) = SentOn(item, ages)
  BY DEF SentOn
<1>2. FreshOK(then, reps)
  BY DEF Good, FreshOK
<1>3. RefusedOK(then, nos)
  BY DEF Good, RefusedOK
<1>4. CooldownOK(then, late \ new)
  <2> SUFFICES ASSUME NEW m \in Notes \ (late \ new), NEW n \in Notes \ (late \ new),
                      then[m].status \in {"pending", "sent"}, then[n].status \in {"pending", "sent"},
                      PersonOf[m] = PersonOf[n]
               PROVE  m = n
    BY DEF CooldownOK
  <2>1. CASE m \in new /\ n \in new
    BY <2>1
  <2>2. CASE m \in new /\ n \notin new
    BY <2>2
  <2>3. CASE m \notin new /\ n \in new
    BY <2>3
  <2>4. CASE m \notin new /\ n \notin new
    BY <2>4 DEF Good, CooldownOK
  <2> QED BY <2>1, <2>2, <2>3, <2>4
<1> QED BY <1>1, <1>2, <1>3, <1>4 DEF Good

LEMMA ScanWriteStep ==
  ASSUME EngageInv, NEW w \in Workers, ScanWrite(w)
  PROVE  EngageInv'
<1>1. EngageFileOK /\ EngagersOK /\ EngageWorldOK /\ (~torn => SafeSoFar)
  BY DEF EngageInv
<1>2. PICK h : h = hand[w]
  OBVIOUS
<1>3. /\ epc[w] = "scan" /\ UNCHANGED <<arrived, account, age, replies, refused, torn, faults>>
  BY DEF ScanWrite
<1>4. PICK fresh \in SUBSET (arrived \ hand[w].seen) : \E new \in SUBSET fresh :
           /\ \A n \in new : PersonOf[n] \notin Recent(hand[w].item)
           /\ \A m, n \in new : PersonOf[m] = PersonOf[n] => m = n
           /\ \E asking \in [new -> (SUBSET {"reply", "follow"}) \ {{}}], now \in SUBSET new :
                /\ Cardinality(now) <= 1
                /\ WriteEngage(w, [hand[w] EXCEPT !.seen = @ \cup fresh,
                     !.item = [n \in Notes |->
                        IF n \in new THEN [status |-> "pending", reply |-> "reply" \in asking[n],
                                           follow |-> "follow" \in asking[n]]
                        ELSE @[n]]])
                /\ ready' = (ready \ new) \cup now
                /\ cold' = cold \ new
  BY DEF ScanWrite
<1>5. PICK new \in SUBSET fresh :
           /\ \A n \in new : PersonOf[n] \notin Recent(hand[w].item)
           /\ \A m, n \in new : PersonOf[m] = PersonOf[n] => m = n
           /\ \E asking \in [new -> (SUBSET {"reply", "follow"}) \ {{}}], now \in SUBSET new :
                /\ Cardinality(now) <= 1
                /\ WriteEngage(w, [hand[w] EXCEPT !.seen = @ \cup fresh,
                     !.item = [n \in Notes |->
                        IF n \in new THEN [status |-> "pending", reply |-> "reply" \in asking[n],
                                           follow |-> "follow" \in asking[n]]
                        ELSE @[n]]])
                /\ ready' = (ready \ new) \cup now
                /\ cold' = cold \ new
  BY <1>4
<1>6. PICK asking \in [new -> (SUBSET {"reply", "follow"}) \ {{}}], now \in SUBSET new :
                /\ Cardinality(now) <= 1
                /\ WriteEngage(w, [hand[w] EXCEPT !.seen = @ \cup fresh,
                     !.item = [n \in Notes |->
                        IF n \in new THEN [status |-> "pending", reply |-> "reply" \in asking[n],
                                           follow |-> "follow" \in asking[n]]
                        ELSE @[n]]])
                /\ ready' = (ready \ new) \cup now
                /\ cold' = cold \ new
  BY <1>5
<1>7. h \in Hands /\ HandFits("scan", h) /\ ItemsOK(h.seen, h.item) /\ h.item \in Items
  BY <1>1, <1>2, <1>3 DEF EngagersOK, HandFits, ItemsOK
<1>8. PICK then : then = [n \in Notes |->
                        IF n \in new THEN [status |-> "pending", reply |-> "reply" \in asking[n],
                                           follow |-> "follow" \in asking[n]]
                        ELSE h.item[n]]
  OBVIOUS
<1>9. /\ \A n \in new : then[n] = [status |-> "pending", reply |-> "reply" \in asking[n],
                                   follow |-> "follow" \in asking[n]]
      /\ \A n \in Notes \ new : then[n] = h.item[n]
      /\ new \subseteq Notes /\ fresh \subseteq Notes /\ fresh \cap h.seen = {}
  BY <1>1, <1>2, <1>4, <1>5, <1>8 DEF EngageWorldOK
<1>10. \A n \in new : /\ then[n] \in Item /\ then[n].status = "pending"
                      /\ then[n].reply \/ then[n].follow
  <2> SUFFICES ASSUME NEW n \in new
               PROVE  /\ then[n] \in Item /\ then[n].status = "pending"
                      /\ then[n].reply \/ then[n].follow
    OBVIOUS
  <2>1. asking[n] \in (SUBSET {"reply", "follow"}) \ {{}}
    BY <1>6
  <2>2. "reply" \in asking[n] \/ "follow" \in asking[n]
    BY <2>1
  <2>3. then[n] = [status |-> "pending", reply |-> "reply" \in asking[n],
                   follow |-> "follow" \in asking[n]]
    BY <1>9
  <2>4. then[n] \in Item /\ then[n].status = "pending"
    BY <2>3 DEF Item, ItemStates
  <2>5. then[n].reply = ("reply" \in asking[n]) /\ then[n].follow = ("follow" \in asking[n])
    BY <2>3
  <2>6. then[n].reply \/ then[n].follow
    BY <2>2, <2>5, Zenon
  <2> QED BY <2>4, <2>6
<1>11. then \in Items
  BY <1>7, <1>8, <1>9, <1>10, ItemsType
<1>12. \A n \in new : h.item[n].status = "none"
  BY <1>2, <1>4, <1>5, <1>7, <1>9 DEF ItemsOK
<1>13. ItemsOK(h.seen \cup fresh, then)
  BY <1>5, <1>7, <1>9, <1>10, <1>11 DEF ItemsOK
<1>14. /\ engage' = [seen |-> h.seen \cup fresh, item |-> then]
       /\ To(w, "idle", NoHand)
  BY <1>2, <1>6, <1>7, <1>8 DEF WriteEngage, Hands
<1>15. /\ EngagersOK' /\ epc'[w] = "idle"
       /\ \A o \in Workers \ {w} : epc'[o] = epc[o] /\ hand'[o] = hand[o]
  BY <1>1, <1>14, NoHandType, HandMoves DEF EngagePlaces
<1>16. EngageFileOK'
  BY <1>7, <1>9, <1>13, <1>14 DEF EngageFileOK, Hands
<1>17. EngageWorldOK'
  BY <1>1, <1>3, <1>6, <1>9 DEF EngageWorldOK
<1>18. ASSUME ~torn' PROVE SafeSoFar'
  <2>1. SafeSoFar /\ \A o \in Workers \ {w} : epc[o] = "idle"
    BY <1>1, <1>3, <1>18 DEF SafeSoFar, OneBusy
  <2>2. h.item = engage.item /\ ~h.done
    BY <1>2, <1>3, <1>7, <2>1 DEF SafeSoFar, ScannerOK, HandFits
  <2>3. Good(h.item, replies, refused, cold, age) /\ RepliesOK
    BY <1>2, <2>1, <2>2 DEF SafeSoFar, NothingSent
  <2>4. \A n \in new, m \in Notes \ cold :
          h.item[m].status \in {"pending", "sent"} => PersonOf[m] # PersonOf[n]
    BY <1>2, <1>5 DEF Recent
  <2>5. Good(then, replies, refused, cold \ new, age)
    BY <1>1, <1>5, <1>7, <1>9, <1>10, <1>11, <1>12, <2>3, <2>4, GoodWithNew DEF EngageWorldOK
  <2>6. RepliesOK'
    BY <1>3, <2>3 DEF RepliesOK
  <2>7. SenderOK(w)' /\ ScannerOK(w)'
    BY <1>15 DEF SenderOK, SenderFits, SendPlaces, ScannerOK
  <2> QED BY <1>3, <1>6, <1>14, <1>15, <2>1, <2>5, <2>6, <2>7, OnlyOne
<1> QED BY <1>15, <1>16, <1>17, <1>18 DEF EngageInv

LEMMA SenderMoves ==
  ASSUME EngageInv, NEW w \in Workers, epc[w] \in SendPlaces, NEW where \in SendPlaces,
         NEW h \in Hands, HandFits(where, h), To(w, where, h),
         UNCHANGED <<arrived, account, engage, ready, cold, refused, torn>>,
         replies' \in [Notes -> 0..2], age' \in [Notes -> Ages],
         h.done \/ (~hand[w].done /\ replies' = replies /\ age' = age),
         ~torn => RepliesOK' /\ SenderFits(where, h, replies', age')
  PROVE  EngageInv'
<1>1. EngageFileOK /\ EngagersOK /\ EngageWorldOK /\ (~torn => SafeSoFar)
  BY DEF EngageInv
<1>2. /\ EngagersOK' /\ epc'[w] = where /\ hand'[w] = h
      /\ \A o \in Workers \ {w} : epc'[o] = epc[o] /\ hand'[o] = hand[o]
  BY <1>1, HandMoves DEF EngagePlaces, SendPlaces
<1>3. EngageFileOK' /\ EngageWorldOK'
  BY <1>1 DEF EngageFileOK, EngageWorldOK
<1>4. ASSUME ~torn' PROVE SafeSoFar'
  <2>1. ~torn /\ SafeSoFar /\ RepliesOK' /\ SenderFits(where, h, replies', age')
    BY <1>1, <1>4
  <2>2. \A o \in Workers \ {w} : epc[o] = "idle"
    BY <2>1 DEF SafeSoFar, OneBusy, SendPlaces
  <2>3. \A o \in Workers \ {w} : epc'[o] = "idle"
    BY <1>2, <2>2
  <2>4. SenderOK(w)' /\ ScannerOK(w)'
    BY <1>2, <2>1 DEF SenderOK, SenderFits, SendPlaces, ScannerOK
  <2>5. ASSUME NothingSent' PROVE Good(engage'.item, replies', refused', cold', age')
    <3>1. ~h.done
      BY <1>2, <2>5 DEF NothingSent, SendPlaces
    <3>2. ~hand[w].done /\ replies' = replies /\ age' = age
      BY <3>1
    <3>3. NothingSent
      BY <2>2, <3>2 DEF NothingSent
    <3> QED BY <2>1, <3>2, <3>3 DEF SafeSoFar
  <2> QED BY <2>1, <2>3, <2>4, <2>5, OnlyOne
<1> QED BY <1>2, <1>3, <1>4 DEF EngageInv

LEMMA WalkWriteStep ==
  ASSUME EngageInv, NEW w \in Workers, epc[w] = "walk", WriteEngage(w, hand[w]),
         UNCHANGED <<arrived, account, ready, cold, age, replies, refused, torn>>
  PROVE  EngageInv'
<1>1. EngageFileOK /\ EngagersOK /\ EngageWorldOK /\ (~torn => SafeSoFar)
  BY DEF EngageInv
<1>2. PICK h : h = hand[w]
  OBVIOUS
<1>3. h \in Hands /\ HandFits("walk", h)
  BY <1>1, <1>2 DEF EngagersOK
<1>4. engage' = [seen |-> h.seen, item |-> h.item] /\ To(w, "idle", NoHand)
  BY <1>2 DEF WriteEngage
<1>5. EngageFileOK'
  BY <1>3, <1>4 DEF EngageFileOK, HandFits, Hands
<1>6. /\ EngagersOK' /\ epc'[w] = "idle"
      /\ \A o \in Workers \ {w} : epc'[o] = epc[o] /\ hand'[o] = hand[o]
  BY <1>1, <1>4, NoHandType, HandMoves DEF EngagePlaces
<1>7. EngageWorldOK'
  BY <1>1 DEF EngageWorldOK
<1>8. ASSUME ~torn' PROVE SafeSoFar'
  <2>1. SafeSoFar /\ \A o \in Workers \ {w} : epc'[o] = "idle"
    BY <1>1, <1>6, <1>8 DEF SafeSoFar, OneBusy
  <2>2. Good(h.item, replies, refused, cold, age) /\ RepliesOK
    BY <1>2, <2>1 DEF SafeSoFar, SenderOK, SenderFits, SendPlaces
  <2>3. RepliesOK'
    BY <2>2 DEF RepliesOK
  <2>4. SenderOK(w)' /\ ScannerOK(w)'
    BY <1>6 DEF SenderOK, SendPlaces, ScannerOK
  <2> QED BY <1>4, <2>1, <2>2, <2>3, <2>4, OnlyOne
<1> QED BY <1>5, <1>6, <1>7, <1>8 DEF EngageInv

LEMMA WalkItemStep ==
  ASSUME EngageInv, NEW w \in Workers, epc[w] = "walk", NEW n \in hand[w].todo,
         NEW where, NEW h, To(w, where, h),
         \/ where = "walk" /\ h = [[hand[w] EXCEPT !.todo = @ \ {n}] EXCEPT !.item[n].status = "skipped"]
         \/ where = "walk" /\ h = [hand[w] EXCEPT !.todo = @ \ {n}]
         \/ /\ where = "follow" /\ ~Held(hand[w])
            /\ h = [[hand[w] EXCEPT !.todo = @ \ {n}] EXCEPT !.note = n],
         UNCHANGED <<arrived, account, engage, ready, cold, age, replies, refused, torn>>
  PROVE  EngageInv'
<1>1. EngageFileOK /\ EngagersOK /\ EngageWorldOK /\ (~torn => SafeSoFar)
  BY DEF EngageInv
<1>2. PICK g : g = hand[w]
  OBVIOUS
<1>3. /\ g \in Hands /\ HandFits("walk", g) /\ ItemsOK(g.seen, g.item) /\ g.item \in Items
      /\ n \in g.todo /\ n \in Notes /\ \A m \in g.todo : m \in Notes /\ g.item[m].status = "pending"
  BY <1>1, <1>2 DEF EngagersOK, HandFits, ItemsOK, Hands
<1>4. /\ replies' \in [Notes -> 0..2] /\ age' \in [Notes -> Ages]
      /\ replies' = replies /\ age' = age
  BY <1>1 DEF EngageWorldOK
<1>5. ASSUME ~torn PROVE RepliesOK' /\ SenderFits("walk", g, replies, age)
  <2>1. SafeSoFar
    BY <1>1, <1>5
  <2>2. RepliesOK /\ SenderFits("walk", g, replies, age)
    BY <1>2, <2>1 DEF SafeSoFar, SenderOK, SendPlaces
  <2> QED BY <2>2 DEF RepliesOK
<1>6. CASE where = "walk" /\ h = [[g EXCEPT !.todo = @ \ {n}] EXCEPT !.item[n].status = "skipped"]
  <2>1. PICK then : then = [g.item EXCEPT ![n].status = "skipped"]
    OBVIOUS
  <2>2. /\ then \in Items /\ then[n].status = "skipped" /\ then[n].reply = g.item[n].reply
        /\ then[n].follow = g.item[n].follow /\ \A m \in Notes \ {n} : then[m] = g.item[m]
    BY <1>3, <2>1, StatusSet DEF ItemStates
  <2>3. h = [g EXCEPT !.todo = @ \ {n}, !.item = then]
    BY <1>6, <2>1, <1>3 DEF Hands
  <2>4. /\ h \in Hands /\ h.item = then /\ h.seen = g.seen /\ h.todo = g.todo \ {n}
        /\ h.done = g.done
    BY <1>3, <2>2, <2>3 DEF Hands
  <2>5. ASSUME ~torn PROVE SenderFits("walk", h, replies, age)
    <3>1. Good(g.item, replies, refused, cold, age) /\ Sent(engage.item) \subseteq Sent(g.item)
      BY <1>5, <2>5 DEF SenderFits
    <3>2. \A m \in Notes \ {n} : then[m].status = g.item[m].status
      BY <2>2
    <3>3. Good(then, replies, refused, cold, age)
      BY <1>1, <1>3, <2>2, <3>1, <3>2, GoodWithout DEF EngageWorldOK
    <3>4. Sent(engage.item) \subseteq Sent(then)
      BY <1>3, <3>1, <3>2 DEF Sent
    <3> QED BY <2>4, <3>3, <3>4 DEF SenderFits
  <2>6. ItemsOK(g.seen, then)
    <3>1. ASSUME NEW m \in Notes, then[m].status # "none"
          PROVE  m \in g.seen /\ (then[m].reply \/ then[m].follow)
      <4>1. g.item[m].status # "none"
        BY <1>3, <2>2, <3>1
      <4>2. m \in g.seen /\ (g.item[m].reply \/ g.item[m].follow)
        BY <1>3, <4>1 DEF ItemsOK
      <4>3. then[m].reply = g.item[m].reply /\ then[m].follow = g.item[m].follow
        BY <2>2
      <4> QED BY <4>2, <4>3
    <3> QED BY <2>2, <3>1 DEF ItemsOK
  <2>7. HandFits("walk", h)
    <3>1. \A m \in g.todo \ {n} : then[m].status = "pending"
      BY <1>3, <2>2
    <3> QED BY <2>4, <2>6, <3>1 DEF HandFits
  <2>8. h.done \/ ~hand[w].done
    BY <1>2, <1>3, <2>4 DEF Hands
  <2> QED BY <1>4, <1>5, <1>6, <2>4, <2>5, <2>7, <2>8, SenderMoves DEF SendPlaces
<1>7. CASE where = "walk" /\ h = [g EXCEPT !.todo = @ \ {n}]
  <2>1. /\ h \in Hands /\ h.item = g.item /\ h.seen = g.seen /\ h.todo = g.todo \ {n}
        /\ h.done = g.done
    BY <1>3, <1>7 DEF Hands
  <2>2. HandFits("walk", h)
    BY <1>3, <2>1 DEF HandFits
  <2>3. ASSUME ~torn PROVE SenderFits("walk", h, replies, age)
    BY <1>5, <2>1, <2>3 DEF SenderFits
  <2>4. h.done \/ ~hand[w].done
    BY <1>2, <1>3, <2>1 DEF Hands
  <2> QED BY <1>4, <1>5, <1>7, <2>1, <2>2, <2>3, <2>4, SenderMoves DEF SendPlaces
<1>8. CASE /\ where = "follow" /\ ~Held(g)
           /\ h = [[g EXCEPT !.todo = @ \ {n}] EXCEPT !.note = n]
  <2>1. /\ h \in Hands /\ h.item = g.item /\ h.seen = g.seen /\ h.todo = g.todo \ {n}
        /\ h.done = g.done /\ h.note = n
    BY <1>3, <1>8 DEF Hands
  <2>2. HandFits("follow", h)
    BY <1>3, <2>1 DEF HandFits
  <2>3. ASSUME ~torn PROVE SenderFits("follow", h, replies, age)
    <3>1. sentToday(g.item) = SentOn(g.item, age)
      BY DEF sentToday, Sent, SentOn
    <3>2. Cardinality(SentOn(g.item, age)) < EngageCap
      BY <1>8, <3>1, SentOnFinite, EngageAssumption DEF Held
    <3> QED BY <1>3, <1>5, <2>1, <2>3, <3>2 DEF SenderFits
  <2>4. h.done \/ ~hand[w].done
    BY <1>2, <1>3, <2>1 DEF Hands
  <2> QED BY <1>4, <1>5, <1>8, <2>1, <2>2, <2>3, <2>4, SenderMoves DEF SendPlaces
<1> QED BY <1>2, <1>6, <1>7, <1>8

LEMMA WalkItemsStep ==
  ASSUME EngageInv, NEW w \in Workers, WalkItems(w)
  PROVE  EngageInv'
<1>1. epc[w] = "walk" /\ UNCHANGED <<arrived, account, ready, cold, age, replies, refused, torn>>
  BY DEF WalkItems
<1>2. CASE WriteEngage(w, hand[w])
  BY <1>1, <1>2, WalkWriteStep
<1>3. CASE UNCHANGED engage /\ \E n \in hand[w].todo :
             \/ To(w, "walk", [[hand[w] EXCEPT !.todo = @ \ {n}] EXCEPT !.item[n].status = "skipped"])
             \/ To(w, "walk", [hand[w] EXCEPT !.todo = @ \ {n}])
             \/ ~Held(hand[w]) /\ To(w, "follow", [[hand[w] EXCEPT !.todo = @ \ {n}] EXCEPT !.note = n])
  BY <1>1, <1>3, WalkItemStep
<1> QED BY <1>2, <1>3 DEF WalkItems

LEMMA FollowStep ==
  ASSUME EngageInv, NEW w \in Workers, Follow(w)
  PROVE  EngageInv'
<1>1. EngageFileOK /\ EngagersOK /\ EngageWorldOK /\ (~torn => SafeSoFar)
  BY DEF EngageInv
<1>2. PICK g : g = hand[w]
  OBVIOUS
<1>3. /\ epc[w] = "follow"
      /\ UNCHANGED <<arrived, account, engage, ready, cold, age, replies, refused, torn>>
  BY DEF Follow
<1>4. PICK ok \in BOOLEAN, failed \in BOOLEAN :
        To(w, "reply", [g EXCEPT !.replied = ok, !.failed = failed])
  BY <1>2 DEF Follow
<1>5. PICK h : h = [g EXCEPT !.replied = ok, !.failed = failed]
  OBVIOUS
<1>6. g \in Hands /\ HandFits("follow", g)
  BY <1>1, <1>2, <1>3 DEF EngagersOK
<1>7. /\ h \in Hands /\ h.item = g.item /\ h.seen = g.seen /\ h.todo = g.todo /\ h.note = g.note
      /\ h.done = g.done /\ g.done \in BOOLEAN
  BY <1>4, <1>5, <1>6 DEF Hands
<1>8. HandFits("reply", h)
  BY <1>6, <1>7 DEF HandFits
<1>9. ASSUME ~torn PROVE RepliesOK' /\ SenderFits("reply", h, replies, age)
  <2>1. RepliesOK /\ SenderFits("follow", g, replies, age)
    BY <1>1, <1>2, <1>3, <1>9 DEF SafeSoFar, SenderOK, SendPlaces
  <2>2. RepliesOK'
    BY <1>3, <2>1 DEF RepliesOK
  <2> QED BY <1>7, <2>1, <2>2 DEF SenderFits
<1>10. replies' \in [Notes -> 0..2] /\ age' \in [Notes -> Ages] /\ replies' = replies /\ age' = age
  BY <1>1, <1>3 DEF EngageWorldOK
<1>11. To(w, "reply", h) /\ (h.done \/ ~hand[w].done)
  BY <1>2, <1>4, <1>5, <1>7
<1> QED BY <1>3, <1>7, <1>8, <1>9, <1>10, <1>11, SenderMoves DEF SendPlaces

(* Whoever is answered was pending and not answered before, and the day had *)
(* room                                                                     *)
LEMMA GoodWithAnswer ==
  ASSUME NEW item, NEW reps \in [Notes -> 0..2], NEW nos, NEW late, NEW ages \in [Notes -> Ages],
         Good(item, reps, nos, late, ages), NEW n \in Notes, item[n].status = "pending",
         Cardinality(SentOn(item, ages)) < EngageCap, nos \subseteq Notes,
         NEW new, \A m \in Notes \ {n} : new[m] = item[m], new[n].status \in {"sent", "failed"},
         NEW reps2, \A m \in Notes \ {n} : reps2[m] = reps[m],
         NEW ages2, \A m \in Notes \ {n} : ages2[m] = ages[m]
  PROVE  Good(new, reps2, nos, late, ages2) /\ reps[n] = 0 /\ n \notin nos
<1>1. SentOn(new, ages2) \subseteq SentOn(item, ages) \cup {n}
  BY DEF SentOn
<1>2. /\ Cardinality(SentOn(item, ages)) \in Nat /\ Cardinality(SentOn(new, ages2)) \in Nat
      /\ Cardinality(SentOn(new, ages2)) <= Cardinality(SentOn(item, ages)) + 1
  BY <1>1, SentOnFinite, OneMoreAtMost
<1>3. Cardinality(SentOn(new, ages2)) <= EngageCap
  BY <1>2, EngageAssumption
<1>4. FreshOK(new, reps2) /\ reps[n] = 0
  BY DEF Good, FreshOK
<1>5. RefusedOK(new, nos) /\ n \notin nos
  BY DEF Good, RefusedOK
<1>6. CooldownOK(new, late)
  BY DEF Good, CooldownOK
<1> QED BY <1>3, <1>4, <1>5, <1>6 DEF Good

LEMMA ReplyStep ==
  ASSUME EngageInv, NEW w \in Workers, Reply(w)
  PROVE  EngageInv'
<1>1. EngageFileOK /\ EngagersOK /\ EngageWorldOK /\ (~torn => SafeSoFar)
  BY DEF EngageInv
<1>2. PICK g : g = hand[w]
  OBVIOUS
<1>3. epc[w] = "reply" /\ UNCHANGED <<arrived, account, engage, ready, cold, refused, torn>>
  BY DEF Reply
<1>4. PICK n : n = g.note
  OBVIOUS
<1>5. /\ g \in Hands /\ ItemsOK(g.seen, g.item) /\ g.item \in Items /\ n \in Notes
      /\ g.item[n].status = "pending" /\ n \notin g.todo
      /\ \A m \in g.todo : m \in Notes /\ g.item[m].status = "pending"
  BY <1>1, <1>2, <1>3, <1>4 DEF EngagersOK, HandFits, ItemsOK, Hands
<1>6. PICK s \in {"sent", "failed"} :
        /\ replies' = replies \/ (replies[n] < 2 /\ replies' = [replies EXCEPT ![n] = @ + 1])
        /\ age' = [age EXCEPT ![n] = "now"]
        /\ To(w, "walk", [g EXCEPT !.note = "none", !.done = TRUE,
                    !.replied = FALSE, !.failed = FALSE, !.item[n].status = s])
  <2>1. PICK res : \E s :
          /\ s = (IF (hand[w].failed \/ res \in {"lost", "refused"}) /\ ~(hand[w].replied \/ res = "ok")
                  THEN "failed" ELSE "sent")
          /\ replies' = IF Landed(res) /\ replies[hand[w].note] < 2
                        THEN [replies EXCEPT ![hand[w].note] = @ + 1] ELSE replies
          /\ age' = [age EXCEPT ![hand[w].note] = "now"]
          /\ To(w, "walk", [hand[w] EXCEPT !.note = "none", !.done = TRUE,
                    !.replied = FALSE, !.failed = FALSE, !.item[hand[w].note].status = s])
    BY DEF Reply
  <2>2. PICK s :
          /\ s = (IF (g.failed \/ res \in {"lost", "refused"}) /\ ~(g.replied \/ res = "ok")
                  THEN "failed" ELSE "sent")
          /\ replies' = IF Landed(res) /\ replies[n] < 2
                        THEN [replies EXCEPT ![n] = @ + 1] ELSE replies
          /\ age' = [age EXCEPT ![n] = "now"]
          /\ To(w, "walk", [g EXCEPT !.note = "none", !.done = TRUE,
                    !.replied = FALSE, !.failed = FALSE, !.item[n].status = s])
    BY <1>2, <1>4, <2>1, Zenon
  <2>3. s \in {"sent", "failed"}
    BY <2>2
  <2>4. replies' = replies \/ (replies[n] < 2 /\ replies' = [replies EXCEPT ![n] = @ + 1])
    <3>1. CASE Landed(res) /\ replies[n] < 2
      BY <2>2, <3>1
    <3>2. CASE ~(Landed(res) /\ replies[n] < 2)
      BY <2>2, <3>2
    <3> QED BY <3>1, <3>2
  <2> QED BY <2>2, <2>3, <2>4
<1>7. PICK then : then = [g.item EXCEPT ![n].status = s]
  OBVIOUS
<1>8. /\ then \in Items /\ then[n].status = s /\ then[n].reply = g.item[n].reply
      /\ then[n].follow = g.item[n].follow /\ \A m \in Notes \ {n} : then[m] = g.item[m]
  BY <1>5, <1>7, StatusSet DEF ItemStates
<1>9. PICK h : h = [g EXCEPT !.note = "none", !.done = TRUE, !.replied = FALSE, !.failed = FALSE,
                             !.item = then]
  OBVIOUS
<1>10. /\ h \in Hands /\ h.item = then /\ h.seen = g.seen /\ h.todo = g.todo /\ h.done
  BY <1>5, <1>8, <1>9 DEF Hands
<1>11. To(w, "walk", h)
  BY <1>5, <1>6, <1>7, <1>9 DEF Hands
<1>12. ItemsOK(g.seen, then)
  <2>1. ASSUME NEW m \in Notes, then[m].status # "none"
        PROVE  m \in g.seen /\ (then[m].reply \/ then[m].follow)
    <3>1. g.item[m].status # "none"
      BY <1>5, <1>8, <2>1
    <3>2. m \in g.seen /\ (g.item[m].reply \/ g.item[m].follow)
      BY <1>5, <3>1 DEF ItemsOK
    <3>3. then[m].reply = g.item[m].reply /\ then[m].follow = g.item[m].follow
      BY <1>8
    <3> QED BY <3>2, <3>3
  <2> QED BY <1>8, <2>1 DEF ItemsOK
<1>13. HandFits("walk", h)
  <2>1. \A m \in g.todo : then[m].status = "pending"
    BY <1>5, <1>8
  <2> QED BY <1>10, <1>12, <2>1 DEF HandFits
<1>14. /\ replies \in [Notes -> 0..2] /\ age \in [Notes -> Ages] /\ refused \subseteq Notes
       /\ replies' \in [Notes -> 0..2] /\ \A m \in Notes \ {n} : replies'[m] = replies[m]
       /\ replies'[n] <= replies[n] + 1
       /\ age' \in [Notes -> Ages] /\ \A m \in Notes \ {n} : age'[m] = age[m]
  <2>1. replies \in [Notes -> 0..2] /\ age \in [Notes -> Ages] /\ refused \subseteq Notes
    BY <1>1 DEF EngageWorldOK
  <2>2. age' \in [Notes -> Ages] /\ \A m \in Notes \ {n} : age'[m] = age[m]
    BY <1>6, <2>1 DEF Ages
  <2>3. /\ replies' \in [Notes -> 0..2] /\ \A m \in Notes \ {n} : replies'[m] = replies[m]
        /\ replies'[n] <= replies[n] + 1
    BY <1>5, <1>6, <2>1
  <2> QED BY <2>1, <2>2, <2>3
<1>15. ASSUME ~torn PROVE RepliesOK' /\ SenderFits("walk", h, replies', age')
  <2>1. RepliesOK /\ SenderFits("reply", g, replies, age)
    BY <1>1, <1>2, <1>3, <1>15 DEF SafeSoFar, SenderOK, SendPlaces
  <2>2. /\ Good(g.item, replies, refused, cold, age) /\ Cardinality(SentOn(g.item, age)) < EngageCap
        /\ Sent(engage.item) \subseteq Sent(g.item)
    BY <2>1 DEF SenderFits
  <2>3. then[n].status \in {"sent", "failed"}
    BY <1>6, <1>8
  <2>4. Good(then, replies', refused, cold, age') /\ replies[n] = 0 /\ n \notin refused
    BY <1>5, <1>8, <1>14, <2>2, <2>3, GoodWithAnswer
  <2>5. \A m \in Notes : replies'[m] <= 1
    <3>1. ASSUME NEW m \in Notes PROVE replies'[m] <= 1
      <4>1. CASE m = n
        BY <1>14, <2>4, <4>1
      <4>2. CASE m # n
        BY <1>14, <2>1, <4>2 DEF RepliesOK
      <4> QED BY <4>1, <4>2
    <3> QED BY <3>1
  <2>6. \A m \in refused : replies'[m] = 0
    BY <1>14, <2>1, <2>4 DEF RepliesOK
  <2>7. Sent(engage.item) \subseteq Sent(then)
    BY <1>5, <1>8, <2>2 DEF Sent
  <2>8. RepliesOK'
    BY <1>3, <2>5, <2>6 DEF RepliesOK
  <2> QED BY <1>10, <2>4, <2>7, <2>8 DEF SenderFits
<1> QED BY <1>3, <1>10, <1>11, <1>13, <1>14, <1>15, SenderMoves DEF SendPlaces

LEMMA EngageCrashStep ==
  ASSUME EngageInv, NEW w \in Workers, EngageCrash(w)
  PROVE  EngageInv'
<1>1. EngageFileOK /\ EngagersOK /\ EngageWorldOK /\ (~torn => SafeSoFar)
  BY DEF EngageInv
<1>2. /\ epc[w] # "idle" /\ To(w, "idle", NoHand) /\ torn' = (torn \/ hand[w].done)
      /\ UNCHANGED <<arrived, account, engage, ready, cold, age, replies, refused>>
  BY DEF EngageCrash
<1>3. /\ EngagersOK' /\ epc'[w] = "idle"
      /\ \A o \in Workers \ {w} : epc'[o] = epc[o] /\ hand'[o] = hand[o]
  BY <1>1, <1>2, NoHandType, HandMoves DEF EngagePlaces
<1>4. EngageFileOK'
  BY <1>1, <1>2 DEF EngageFileOK
<1>5. torn' \in BOOLEAN
  <2>1. hand[w].done \in BOOLEAN
    BY <1>1 DEF EngagersOK, Hands
  <2> QED BY <1>1, <1>2, <2>1 DEF EngageWorldOK
<1>6. EngageWorldOK'
  BY <1>1, <1>2, <1>5 DEF EngageWorldOK
<1>7. ASSUME ~torn' PROVE SafeSoFar'
  <2>1. ~torn /\ ~hand[w].done /\ SafeSoFar
    BY <1>1, <1>2, <1>7
  <2>2. \A o \in Workers \ {w} : epc[o] = "idle"
    BY <1>2, <2>1 DEF SafeSoFar, OneBusy
  <2>3. NothingSent
    BY <2>1, <2>2 DEF NothingSent
  <2>4. Good(engage.item, replies, refused, cold, age) /\ RepliesOK
    BY <2>1, <2>3 DEF SafeSoFar
  <2>5. RepliesOK'
    BY <1>2, <2>4 DEF RepliesOK
  <2>6. SenderOK(w)' /\ ScannerOK(w)'
    BY <1>3 DEF SenderOK, SendPlaces, ScannerOK
  <2> QED BY <1>2, <1>3, <2>2, <2>4, <2>5, <2>6, OnlyOne
<1> QED BY <1>3, <1>4, <1>6, <1>7 DEF EngageInv

(* A person changes the file when nobody has it, or tears it *)
LEMMA PersonSteps ==
  ASSUME EngageInv, UNCHANGED <<epc, hand>>, torn' = (torn \/ Busy(Workers)),
         EngageFileOK', EngageWorldOK',
         Good(engage.item, replies, refused, cold, age) /\ RepliesOK =>
           Good(engage'.item, replies', refused', cold', age') /\ RepliesOK'
  PROVE  EngageInv'
<1>1. EngagersOK /\ (~torn => SafeSoFar)
  BY DEF EngageInv
<1>2. EngagersOK'
  BY <1>1 DEF EngagersOK
<1>3. ASSUME ~torn' PROVE SafeSoFar'
  <2>1. SafeSoFar /\ \A w \in Workers : epc[w] = "idle"
    BY <1>1, <1>3 DEF Busy
  <2>2. Good(engage.item, replies, refused, cold, age) /\ RepliesOK
    BY <2>1 DEF SafeSoFar, NothingSent
  <2>3. Good(engage'.item, replies', refused', cold', age') /\ RepliesOK'
    BY <2>2
  <2>4. \A w \in Workers : epc'[w] = "idle"
    BY <2>1
  <2> QED BY <2>3, <2>4 DEF SafeSoFar, OneBusy, SenderOK, SendPlaces, ScannerOK
<1> QED BY <1>2, <1>3 DEF EngageInv

LEMMA SkipStep ==
  ASSUME EngageInv, NEW n \in Notes, Skip(n)
  PROVE  EngageInv'
<1>1. EngageFileOK /\ EngagersOK /\ EngageWorldOK
  BY DEF EngageInv
<1>2. /\ engage.item[n].status \notin {"none", "skipped"}
      /\ engage' = [engage EXCEPT !.item[n].status = "skipped"]
      /\ refused' = IF engage.item[n].status = "pending" THEN refused \cup {n} ELSE refused
      /\ torn' = (torn \/ Busy(Workers))
      /\ UNCHANGED <<arrived, account, ready, cold, age, epc, hand, replies, faults>>
  BY DEF Skip
<1>3. PICK then : then = [engage.item EXCEPT ![n].status = "skipped"]
  OBVIOUS
<1>4. ItemsOK(engage.seen, engage.item) /\ engage.item \in Items /\ engage.seen \subseteq Notes
  BY <1>1 DEF EngageFileOK, ItemsOK
<1>5. /\ then \in Items /\ then[n].status = "skipped" /\ then[n].reply = engage.item[n].reply
      /\ then[n].follow = engage.item[n].follow /\ \A m \in Notes \ {n} : then[m] = engage.item[m]
  BY <1>3, <1>4, StatusSet DEF ItemStates
<1>6. engage' = [seen |-> engage.seen, item |-> then]
  <2>1. PICK a, b : engage = [seen |-> a, item |-> b]
    BY <1>1 DEF EngageFileOK
  <2> QED BY <1>2, <1>3, <2>1
<1>7. ItemsOK(engage.seen, then)
  <2>1. ASSUME NEW m \in Notes, then[m].status # "none"
        PROVE  m \in engage.seen /\ (then[m].reply \/ then[m].follow)
    <3>1. engage.item[m].status # "none"
      BY <1>2, <1>5, <2>1
    <3>2. m \in engage.seen /\ (engage.item[m].reply \/ engage.item[m].follow)
      BY <1>4, <3>1 DEF ItemsOK
    <3>3. then[m].reply = engage.item[m].reply /\ then[m].follow = engage.item[m].follow
      BY <1>5
    <3> QED BY <3>2, <3>3
  <2> QED BY <1>5, <2>1 DEF ItemsOK
<1>8. EngageFileOK'
  BY <1>4, <1>6, <1>7 DEF EngageFileOK
<1>9. torn' \in BOOLEAN
  BY <1>1, <1>2 DEF EngageWorldOK, Busy
<1>10. EngageWorldOK'
  BY <1>1, <1>2, <1>9 DEF EngageWorldOK
<1>11. ASSUME Good(engage.item, replies, refused, cold, age), RepliesOK
       PROVE  Good(engage'.item, replies', refused', cold', age') /\ RepliesOK'
  <2>1. \A m \in Notes \ {n} : then[m].status = engage.item[m].status
    BY <1>5
  <2>2. Good(then, replies, refused, cold, age)
    BY <1>1, <1>5, <1>11, <2>1, GoodWithout DEF EngageWorldOK
  <2>3. RefusedOK(then, refused')
    BY <1>2, <1>5, <2>2 DEF Good, RefusedOK
  <2>4. engage.item[n].status = "pending" => replies[n] = 0
    BY <1>11 DEF Good, FreshOK
  <2>5. RepliesOK'
    BY <1>2, <1>11, <2>4 DEF RepliesOK
  <2> QED BY <1>2, <1>6, <2>2, <2>3, <2>5 DEF Good
<1> QED BY <1>2, <1>8, <1>10, <1>11, PersonSteps

LEMMA EditStep ==
  ASSUME EngageInv, NEW n \in Notes, Edit(n)
  PROVE  EngageInv'
<1>1. EngageFileOK /\ EngagersOK /\ EngageWorldOK
  BY DEF EngageInv
<1>2. /\ engage.item[n].status # "none"
      /\ engage' = [engage EXCEPT !.item[n].reply = TRUE]
      /\ torn' = (torn \/ Busy(Workers))
      /\ UNCHANGED <<arrived, account, ready, cold, age, epc, hand, replies, refused, faults>>
  BY DEF Edit
<1>3. PICK then : then = [engage.item EXCEPT ![n].reply = TRUE]
  OBVIOUS
<1>4. ItemsOK(engage.seen, engage.item) /\ engage.item \in Items /\ engage.seen \subseteq Notes
  BY <1>1 DEF EngageFileOK, ItemsOK
<1>5. /\ then \in Items /\ then[n].status = engage.item[n].status /\ then[n].reply = TRUE
      /\ \A m \in Notes \ {n} : then[m] = engage.item[m]
  BY <1>3, <1>4, ItemsType DEF Item
<1>6. engage' = [seen |-> engage.seen, item |-> then]
  <2>1. PICK a, b : engage = [seen |-> a, item |-> b]
    BY <1>1 DEF EngageFileOK
  <2> QED BY <1>2, <1>3, <2>1
<1>7. ItemsOK(engage.seen, then)
  BY <1>2, <1>4, <1>5 DEF ItemsOK
<1>8. EngageFileOK'
  BY <1>4, <1>6, <1>7 DEF EngageFileOK
<1>9. torn' \in BOOLEAN
  BY <1>1, <1>2 DEF EngageWorldOK, Busy
<1>10. EngageWorldOK'
  BY <1>1, <1>2, <1>9 DEF EngageWorldOK
<1>11. ASSUME Good(engage.item, replies, refused, cold, age), RepliesOK
       PROVE  Good(engage'.item, replies', refused', cold', age') /\ RepliesOK'
  <2>1. \A m \in Notes : then[m].status = engage.item[m].status
    BY <1>5
  <2>2. SentOn(then, age) = SentOn(engage.item, age)
    BY <2>1 DEF SentOn
  <2>3. Cardinality(SentOn(then, age)) <= EngageCap
    BY <1>11, <2>2 DEF Good
  <2>4. FreshOK(then, replies) /\ RefusedOK(then, refused)
    BY <1>1, <1>11, <2>1 DEF Good, FreshOK, RefusedOK, EngageWorldOK
  <2>5. CooldownOK(then, cold)
    BY <1>11, <2>1 DEF Good, CooldownOK
  <2>6. RepliesOK'
    BY <1>2, <1>11 DEF RepliesOK
  <2>7. engage'.item = then
    BY <1>6
  <2>8. Good(then, replies, refused, cold, age)
    BY <2>3, <2>4, <2>5 DEF Good
  <2> QED BY <1>2, <2>6, <2>7, <2>8
<1> QED BY <1>2, <1>8, <1>10, <1>11, PersonSteps

(* Notes come, the account goes, time passes *)
LEMMA WorldStep ==
  ASSUME EngageInv, UNCHANGED <<engage, epc, hand, replies, refused, torn>>,
         arrived' \subseteq Notes, account' \in BOOLEAN, ready' \subseteq Notes,
         cold' \subseteq Notes, cold \subseteq cold', age' \in [Notes -> Ages],
         \A n \in Notes : age'[n] \in {"now", "today"} => age[n] \in {"now", "today"}
  PROVE  EngageInv'
<1>1. EngageFileOK /\ EngagersOK /\ EngageWorldOK /\ (~torn => SafeSoFar)
  BY DEF EngageInv
<1>2. EngageFileOK' /\ EngagersOK' /\ EngageWorldOK'
  BY <1>1 DEF EngageFileOK, EngagersOK, EngageWorldOK
<1>3. \A its : Good(its, replies, refused, cold, age) =>
        /\ Good(its, replies, refused, cold', age')
        /\ Cardinality(SentOn(its, age')) \in Nat
        /\ Cardinality(SentOn(its, age')) <= Cardinality(SentOn(its, age))
  BY GoodForLonger
<1>4. \A its : Cardinality(SentOn(its, age)) \in Nat
  BY SentOnFinite
<1>5. ASSUME ~torn' PROVE SafeSoFar'
  <2>1. SafeSoFar
    BY <1>1, <1>5
  <2>2. OneBusy' /\ RepliesOK' /\ \A w \in Workers : ScannerOK(w)'
    BY <2>1 DEF SafeSoFar, OneBusy, RepliesOK, ScannerOK
  <2>3. NothingSent' => Good(engage'.item, replies', refused', cold', age')
    BY <1>3, <2>1 DEF SafeSoFar, NothingSent
  <2>4. ASSUME NEW w \in Workers, epc'[w] \in SendPlaces
        PROVE  SenderFits(epc[w], hand[w], replies, age)'
    <3>1. PICK g : g = hand[w]
      OBVIOUS
    <3>2. SenderFits(epc[w], g, replies, age)
      BY <2>1, <2>4, <3>1 DEF SafeSoFar, SenderOK
    <3>3. Good(g.item, replies, refused, cold, age) /\ Sent(engage.item) \subseteq Sent(g.item)
      BY <3>2 DEF SenderFits
    <3>4. /\ Good(g.item, replies, refused, cold', age')
          /\ Cardinality(SentOn(g.item, age')) \in Nat /\ Cardinality(SentOn(g.item, age)) \in Nat
          /\ Cardinality(SentOn(g.item, age')) <= Cardinality(SentOn(g.item, age))
      BY <1>3, <1>4, <3>3
    <3>5. epc[w] \in {"follow", "reply"} => Cardinality(SentOn(g.item, age')) < EngageCap
      BY <3>2, <3>4, EngageAssumption DEF SenderFits
    <3> QED BY <3>1, <3>3, <3>4, <3>5 DEF SenderFits, Sent
  <2>5. \A w \in Workers : SenderOK(w)'
    BY <2>4 DEF SenderOK
  <2> QED BY <2>2, <2>3, <2>5 DEF SafeSoFar
<1> QED BY <1>2, <1>5 DEF EngageInv

LEMMA EngageInvStep == EngageInv /\ [EngageNext]_<<engageVars, faults>> => EngageInv'
<1> SUFFICES ASSUME EngageInv, [EngageNext]_<<engageVars, faults>> PROVE EngageInv'
  OBVIOUS
<1>1. /\ arrived \subseteq Notes /\ account \in BOOLEAN /\ ready \subseteq Notes
      /\ cold \subseteq Notes /\ age \in [Notes -> Ages]
  BY DEF EngageInv, EngageWorldOK
<1>2. ASSUME NEW w \in Workers,
             \/ ScanTurn(w) \/ ScanWrite(w) \/ SendTurn(w) \/ WalkItems(w)
             \/ Follow(w) \/ Reply(w) \/ EngageCrash(w)
      PROVE  EngageInv'
  BY <1>2, ScanTurnStep, ScanWriteStep, SendTurnStep, WalkItemsStep, FollowStep, ReplyStep,
     EngageCrashStep
<1>3. ASSUME NEW n \in Notes, Skip(n) \/ Edit(n) PROVE EngageInv'
  BY <1>3, SkipStep, EditStep
<1>4. ASSUME NEW n \in Notes, Arrive(n) \/ ItemDue(n) \/ CoolsDown(n) PROVE EngageInv'
  BY <1>1, <1>4, WorldStep DEF Arrive, ItemDue, CoolsDown
<1>5. CASE Account
  BY <1>1, <1>5, WorldStep DEF Account
<1>6. CASE Later
  <2>1. /\ UNCHANGED <<arrived, account, engage, ready, cold, epc, hand, replies, refused, torn, faults>>
        /\ age' \in [Notes -> Ages]
        /\ \A n \in Notes : age'[n] \in {"now", "today"} => age[n] \in {"now", "today"}
    BY <1>1, <1>6 DEF Later, Ages
  <2> QED BY <1>1, <2>1, WorldStep
<1>7. CASE UNCHANGED <<engageVars, faults>>
  BY <1>1, <1>7, WorldStep DEF engageVars
<1> QED BY <1>2, <1>3, <1>4, <1>5, <1>6, <1>7 DEF EngageNext

LEMMA EngageInvAlways == EngageSpec => []EngageInv
<1>1. faults = 0 /\ EngageInit => EngageInv
  BY EngageInvInit
<1> QED BY <1>1, EngageInvStep, PTL DEF EngageSpec

(* Whatever notifications arrive and whoever scans, sends, skips, edits and *)
(* dies, every variable of the follow-ups keeps its type, and an item that  *)
(* is open asks for something and was seen.                                 *)
THEOREM EngageTypeCorrect == EngageSpec => []EngageTypeOK
<1>1. EngageInv => EngageTypeOK
  BY EngageInvIsType
<1> QED BY <1>1, EngageInvAlways, PTL

(* Unless two have the file at once or one dies with a reply: no note is    *)
(* answered twice, nobody who was skipped first is answered, nobody is      *)
(* answered twice inside the cooldown, and the day's cap holds.             *)
THEOREM AnsweredJustOnce == EngageSpec => []AnsweredOnce
<1>1. ASSUME EngageInv PROVE AnsweredOnce
  <2> SUFFICES ASSUME ~torn
               PROVE  /\ \A n \in Notes : replies[n] <= 1
                      /\ \A n \in refused : replies[n] = 0
                      /\ \A m, n \in Notes \ cold :
                           {m, n} \subseteq Sent(engage.item) /\ PersonOf[m] = PersonOf[n] => m = n
                      /\ Cardinality(sentToday(engage.item)) <= EngageCap
    BY DEF AnsweredOnce
  <2>1. SafeSoFar /\ RepliesOK
    BY <1>1 DEF EngageInv, SafeSoFar
  <2>2. PICK item : Good(item, replies, refused, cold, age) /\ Sent(engage.item) \subseteq Sent(item)
    <3>1. CASE NothingSent
      BY <2>1, <3>1 DEF SafeSoFar
    <3>2. CASE ~NothingSent
      <4>1. PICK w \in Workers : epc[w] # "idle" /\ hand[w].done
        BY <3>2 DEF NothingSent
      <4>2. epc[w] \in SendPlaces
        BY <1>1, <4>1 DEF EngageInv, EngagersOK, EngagePlaces, SendPlaces, HandFits
      <4> QED BY <2>1, <4>1, <4>2 DEF SafeSoFar, SenderOK, SenderFits
    <3> QED BY <3>1, <3>2
  <2>3. ASSUME NEW m \in Notes \ cold, NEW n \in Notes \ cold,
               {m, n} \subseteq Sent(engage.item), PersonOf[m] = PersonOf[n]
        PROVE  m = n
    BY <2>2, <2>3 DEF Good, CooldownOK, Sent
  <2>4. sentToday(engage.item) \subseteq SentOn(item, age)
    BY <2>2 DEF sentToday, Sent, SentOn
  <2>5. /\ Cardinality(sentToday(engage.item)) \in Nat /\ Cardinality(SentOn(item, age)) \in Nat
        /\ Cardinality(sentToday(engage.item)) <= Cardinality(SentOn(item, age))
    BY <2>4, SentOnFinite, FewerAtMost
  <2>6. Cardinality(sentToday(engage.item)) <= EngageCap
    BY <2>2, <2>5, EngageAssumption DEF Good
  <2> QED BY <2>1, <2>3, <2>6 DEF RepliesOK
<1> QED BY <1>1, EngageInvAlways, PTL

(***************************************************************************)
(* Nobody is voted for twice, for any number of posts, authors, workers    *)
(* and faults (Upvotes).                                                   *)
(*                                                                         *)
(* It goes as for the follow-ups: what is true of the posts acted on is    *)
(* true of the file in the hand that acts (Sound), and of upvote.json as   *)
(* long as that hand has not acted; then upvote.json is behind, but names  *)
(* nobody as done who was not.  A person may make a reply of what was done *)
(* already, so that the day's links are counted by the links there are,    *)
(* which are no more than the replies the code counts.                     *)
(***************************************************************************)
Writers == {AuthorOf[p] : p \in Found}
UpvotePlaces == {"idle", "search", "walk", "vote", "more"}
ActPlaces == {"walk", "vote", "more"}
Holdings == [file : {<<>>} \cup UpvoteFiles, todo : SUBSET Found, home : BOOLEAN,
             post : Found \cup {"none"}, any : BOOLEAN, acted : BOOLEAN]
QueueItem == [status : {"none", "pending", "done", "failed", "skipped"}, action : Kinds]

(* Whatever is queued was seen *)
QueueOK(f) == f \in UpvoteFiles /\ \A p \in Found : f.item[p].status # "none" => p \in f.seen

HoldFits(where, h) ==
  /\ where # "idle" => QueueOK(h.file)
  /\ where = "search" => ~h.acted
  /\ where \in ActPlaces => \A p \in h.todo : h.file.item[p].status = "pending"
  /\ where \in {"vote", "more"} =>
       /\ h.post \in Found /\ h.file.item[h.post].status = "pending" /\ h.post \notin h.todo

HoldersOK ==
  /\ upc \in [Workers -> UpvotePlaces] /\ held \in [Workers -> Holdings]
  /\ \A w \in Workers : HoldFits(upc[w], held[w])

UpvoteWorldOK ==
  /\ present \in BOOLEAN /\ dueItems \subseteq Found /\ dropped \subseteq Found
  /\ warm \subseteq Writers
  /\ since \in [Found -> {"never", "now", "today", "old"}]
  /\ links \in [Found -> 0..2] /\ clashed \in BOOLEAN

(* What must be true of the file; lks, nos, ages and hot stand for the       *)
(* links there are, the posts skipped before they were acted on, how long   *)
(* ago each was acted on and the authors inside the cooldown                *)
ActsOn(f, ages) == {p \in Found : f.item[p].status = "done" /\ ages[p] \in {"now", "today"}}
LinkActs(f, lks, ages) == {p \in ActsOn(f, ages) : lks[p] > 0}

NewOK(f, lks) == \A p \in Found : f.item[p].status \in {"none", "pending"} => lks[p] = 0
LinkedOK(f, lks) == \A p \in Found : lks[p] > 0 => f.item[p].action = "reply"
DroppedOK(f, nos) == \A p \in nos : f.item[p].status = "skipped"
AuthorsOK(f, ages, hot) ==
  \A p \in ActsOn(f, ages) : AuthorOf[p] \in f.authors /\ AuthorOf[p] \in hot
OnceEach(f, ages) == \A p, q \in ActsOn(f, ages) : AuthorOf[p] = AuthorOf[q] => p = q

Sound(f, lks, nos, ages, hot) ==
  /\ NewOK(f, lks) /\ LinkedOK(f, lks) /\ DroppedOK(f, nos)
  /\ AuthorsOK(f, ages, hot) /\ OnceEach(f, ages)
  /\ Cardinality(ActsOn(f, ages)) <= UpvoteCap /\ Cardinality(LinkActs(f, lks, ages)) <= LinkCap

DoneIn(f) == {p \in Found : f.item[p].status = "done"}

(* There is room for the act that is on its way *)
RoomFor(p, f, lks, ages, hot) ==
  /\ Cardinality(ActsOn(f, ages)) < UpvoteCap
  /\ f.item[p].action = "reply" => Cardinality(LinkActs(f, lks, ages)) < LinkCap
  /\ ~(AuthorOf[p] \in f.authors /\ AuthorOf[p] \in hot)

ActorFits(where, h, lks, ages, hot) ==
  /\ Sound(h.file, lks, dropped, ages, hot)
  /\ DoneIn(upvotes) \subseteq DoneIn(h.file)
  /\ where \in {"vote", "more"} => RoomFor(h.post, h.file, lks, ages, hot)

ActorOK(w) == upc[w] \in ActPlaces => ActorFits(upc[w], held[w], links, since, warm)
SearcherOK(w) == upc[w] = "search" => held[w].file = upvotes

OneAtATime == \A v, w \in Workers : upc[v] # "idle" /\ upc[w] # "idle" => v = w
NothingDone == \A w \in Workers : upc[w] # "idle" => ~held[w].acted

LinksOK ==
  /\ \A p \in Found : links[p] <= 1
  /\ \A p \in dropped : links[p] = 0

SoundSoFar ==
  /\ OneAtATime /\ LinksOK /\ (NothingDone => Sound(upvotes, links, dropped, since, warm))
  /\ \A w \in Workers : ActorOK(w) /\ SearcherOK(w)

UpvoteInv ==
  QueueOK(upvotes) /\ HoldersOK /\ UpvoteWorldOK /\ (~clashed => SoundSoFar)

LEMMA UpvoteInvIsType == UpvoteInv => UpvoteTypeOK
BY DEF UpvoteInv, QueueOK, HoldersOK, UpvoteWorldOK, HoldFits, Holdings, UpvotePlaces, Writers,
       UpvoteTypeOK

LEMMA NotHeldType == NotHeld \in Holdings /\ HoldFits("idle", NotHeld) /\ ~NotHeld.acted
BY DEF NotHeld, Holdings, HoldFits, ActPlaces

LEMMA FileType ==
  UpvoteFiles = [seen : SUBSET Found, authors : SUBSET Writers,
                 item : [Found -> QueueItem]]
BY DEF UpvoteFiles, Queues, QueueItem, Writers

LEMMA CountsFinite ==
  ASSUME NEW f, NEW lks, NEW ages
  PROVE  /\ IsFiniteSet(ActsOn(f, ages)) /\ Cardinality(ActsOn(f, ages)) \in Nat
         /\ IsFiniteSet(LinkActs(f, lks, ages)) /\ Cardinality(LinkActs(f, lks, ages)) \in Nat
<1>1. ActsOn(f, ages) \subseteq Found /\ LinkActs(f, lks, ages) \subseteq Found
  BY DEF ActsOn, LinkActs
<1> QED BY <1>1, UpvotesAssumption, FS_Subset, FS_CardinalityType

LEMMA ItemSet ==
  ASSUME NEW item \in [Found -> QueueItem], NEW p \in Found,
         NEW s \in {"none", "pending", "done", "failed", "skipped"},
         NEW its, its = [item EXCEPT ![p].status = s]
  PROVE  /\ its \in [Found -> QueueItem] /\ its[p].status = s /\ its[p].action = item[p].action
         /\ \A q \in Found \ {p} : its[q] = item[q]
BY DEF QueueItem

(* Who is done with less, and says of nobody what was not so *)
LEMMA StillSound ==
  ASSUME NEW f, NEW lks, NEW nos, NEW ages, NEW hot, Sound(f, lks, nos, ages, hot),
         NEW g, NEW nos2, NEW ages2, NEW hot2, ActsOn(g, ages2) \subseteq ActsOn(f, ages),
         NewOK(g, lks), LinkedOK(g, lks), DroppedOK(g, nos2), AuthorsOK(g, ages2, hot2)
  PROVE  /\ Sound(g, lks, nos2, ages2, hot2)
         /\ Cardinality(ActsOn(g, ages2)) <= Cardinality(ActsOn(f, ages))
         /\ Cardinality(LinkActs(g, lks, ages2)) <= Cardinality(LinkActs(f, lks, ages))
<1>1. LinkActs(g, lks, ages2) \subseteq LinkActs(f, lks, ages)
  BY DEF LinkActs
<1>2. /\ Cardinality(ActsOn(g, ages2)) \in Nat /\ Cardinality(ActsOn(f, ages)) \in Nat
      /\ Cardinality(ActsOn(g, ages2)) <= Cardinality(ActsOn(f, ages))
  BY CountsFinite, FewerAtMost
<1>3. /\ Cardinality(LinkActs(g, lks, ages2)) \in Nat /\ Cardinality(LinkActs(f, lks, ages)) \in Nat
      /\ Cardinality(LinkActs(g, lks, ages2)) <= Cardinality(LinkActs(f, lks, ages))
  BY <1>1, CountsFinite, FewerAtMost
<1>4. OnceEach(g, ages2)
  BY DEF Sound, OnceEach
<1>5. /\ Cardinality(ActsOn(g, ages2)) <= UpvoteCap
      /\ Cardinality(LinkActs(g, lks, ages2)) <= LinkCap
  BY <1>2, <1>3, UpvotesAssumption DEF Sound
<1> QED BY <1>2, <1>3, <1>4, <1>5 DEF Sound

(* What an act on p makes of the file, the links, the times and the authors  *)
(* inside the cooldown                                                      *)
ActGoes(p, f, lks, ages, hot, g, lks2, ages2, hot2) ==
  /\ \A q \in Found \ {p} : g.item[q] = f.item[q] /\ lks2[q] = lks[q] /\ ages2[q] = ages[q]
  /\ g.item[p].status \in {"done", "failed"} /\ g.item[p].action = f.item[p].action
  /\ f.authors \subseteq g.authors /\ hot \subseteq hot2
  /\ g.item[p].status = "done" => AuthorOf[p] \in g.authors /\ AuthorOf[p] \in hot2
  /\ lks2[p] = lks[p] \/ (lks2[p] = lks[p] + 1 /\ f.item[p].action = "reply")

(* Whoever is acted on was pending, and there was room *)
LEMMA SoundWithAct ==
  ASSUME NEW f, NEW lks \in [Found -> 0..2], NEW nos, NEW ages, NEW hot,
         Sound(f, lks, nos, ages, hot), nos \subseteq Found,
         NEW p \in Found, f.item[p].status = "pending", RoomFor(p, f, lks, ages, hot),
         NEW g, NEW lks2 \in [Found -> 0..2], NEW ages2, NEW hot2,
         ActGoes(p, f, lks, ages, hot, g, lks2, ages2, hot2)
  PROVE  Sound(g, lks2, nos, ages2, hot2) /\ lks[p] = 0 /\ p \notin nos
<1> USE DEF ActGoes
<1>1. lks[p] = 0 /\ p \notin nos
  BY DEF Sound, NewOK, DroppedOK
<1>2. ActsOn(g, ages2) \subseteq ActsOn(f, ages) \cup {p}
  BY DEF ActsOn
<1>3. /\ Cardinality(ActsOn(f, ages)) \in Nat /\ Cardinality(ActsOn(g, ages2)) \in Nat
      /\ Cardinality(ActsOn(g, ages2)) <= Cardinality(ActsOn(f, ages)) + 1
  BY <1>2, CountsFinite, OneMoreAtMost
<1>4. Cardinality(ActsOn(g, ages2)) <= UpvoteCap
  BY <1>3, UpvotesAssumption DEF RoomFor
<1>5. Cardinality(LinkActs(g, lks2, ages2)) <= LinkCap
  <2>1. Cardinality(LinkActs(f, lks, ages)) \in Nat /\ Cardinality(LinkActs(g, lks2, ages2)) \in Nat
    BY CountsFinite
  <2>2. CASE f.item[p].action = "reply"
    <3>1. LinkActs(g, lks2, ages2) \subseteq LinkActs(f, lks, ages) \cup {p}
      BY <1>2 DEF LinkActs, ActsOn
    <3>2. Cardinality(LinkActs(g, lks2, ages2)) <= Cardinality(LinkActs(f, lks, ages)) + 1
      BY <3>1, CountsFinite, OneMoreAtMost
    <3> QED BY <2>1, <2>2, <3>2, UpvotesAssumption DEF RoomFor
  <2>3. CASE f.item[p].action # "reply"
    <3>1. LinkActs(g, lks2, ages2) \subseteq LinkActs(f, lks, ages)
      BY <1>1, <1>2, <2>3 DEF LinkActs, ActsOn
    <3>2. Cardinality(LinkActs(g, lks2, ages2)) <= Cardinality(LinkActs(f, lks, ages))
      BY <3>1, CountsFinite, FewerAtMost
    <3> QED BY <2>1, <3>2, UpvotesAssumption DEF Sound
  <2> QED BY <2>2, <2>3
<1>6. NewOK(g, lks2) /\ DroppedOK(g, nos)
  BY <1>1 DEF Sound, NewOK, DroppedOK
<1>7. LinkedOK(g, lks2)
  BY <1>1 DEF Sound, LinkedOK
<1>8. AuthorsOK(g, ages2, hot2)
  BY DEF Sound, AuthorsOK, ActsOn
<1>9. OnceEach(g, ages2)
  <2>1. \A q \in ActsOn(f, ages) : AuthorOf[q] # AuthorOf[p]
    BY DEF Sound, AuthorsOK, RoomFor
  <2>2. \A q, r \in ActsOn(f, ages) : AuthorOf[q] = AuthorOf[r] => q = r
    BY DEF Sound, OnceEach
  <2> QED BY <1>2, <2>1, <2>2 DEF OnceEach
<1> QED BY <1>1, <1>4, <1>5, <1>6, <1>7, <1>8, <1>9 DEF Sound

LEMMA UpvoteInvInit == faults = 0 /\ UpvoteInit => UpvoteInv
<1> SUFFICES ASSUME UpvoteInit PROVE UpvoteInv
  OBVIOUS
<1>1. /\ upvotes.seen = {} /\ upvotes.authors = {} /\ upvotes.item = [p \in Found |-> Unqueued]
      /\ upvotes = [seen |-> {}, authors |-> {}, item |-> [p \in Found |-> Unqueued]]
  BY DEF UpvoteInit
<1>2. QueueOK(upvotes)
  BY <1>1, FileType DEF QueueOK, Unqueued, QueueItem, Kinds
<1>3. \A w \in Workers : upc[w] = "idle" /\ held[w] = NotHeld
  BY DEF UpvoteInit
<1>4. HoldersOK
  BY <1>3, NotHeldType DEF UpvoteInit, HoldersOK, UpvotePlaces
<1>5. UpvoteWorldOK
  <2>1. since \in [Found -> {"never", "now", "today", "old"}]
    BY DEF UpvoteInit
  <2>2. links \in [Found -> 0..2]
    BY DEF UpvoteInit
  <2> QED BY <2>1, <2>2 DEF UpvoteInit, UpvoteWorldOK
<1>6. Sound(upvotes, links, dropped, since, warm)
  <2>1. ActsOn(upvotes, since) = {} /\ LinkActs(upvotes, links, since) = {} /\ Cardinality({}) = 0
    BY <1>1, FS_EmptySet DEF ActsOn, LinkActs, Unqueued
  <2>2. /\ Cardinality(ActsOn(upvotes, since)) <= UpvoteCap
        /\ Cardinality(LinkActs(upvotes, links, since)) <= LinkCap
    BY <2>1, UpvotesAssumption
  <2>3. NewOK(upvotes, links) /\ LinkedOK(upvotes, links)
    BY DEF UpvoteInit, NewOK, LinkedOK
  <2>4. DroppedOK(upvotes, dropped)
    BY DEF UpvoteInit, DroppedOK
  <2>5. AuthorsOK(upvotes, since, warm) /\ OnceEach(upvotes, since)
    BY <2>1 DEF AuthorsOK, OnceEach
  <2> QED BY <2>2, <2>3, <2>4, <2>5 DEF Sound
<1>7. OneAtATime /\ \A w \in Workers : ActorOK(w) /\ SearcherOK(w)
  BY <1>3 DEF OneAtATime, ActorOK, ActPlaces, SearcherOK
<1>8. LinksOK
  BY DEF UpvoteInit, LinksOK
<1> QED BY <1>2, <1>4, <1>5, <1>6, <1>7, <1>8 DEF UpvoteInv, SoundSoFar

LEMMA HoldMoves ==
  ASSUME HoldersOK, NEW w \in Workers, NEW where \in UpvotePlaces, NEW h \in Holdings,
         HoldFits(where, h), Holds(w, where, h)
  PROVE  /\ HoldersOK' /\ upc'[w] = where /\ held'[w] = h
         /\ \A o \in Workers \ {w} : upc'[o] = upc[o] /\ held'[o] = held[o]
BY DEF HoldersOK, Holds

LEMMA OneWorks ==
  ASSUME NEW w \in Workers, \A o \in Workers \ {w} : upc'[o] = "idle", LinksOK',
         ActorOK(w)', SearcherOK(w)',
         NothingDone' => Sound(upvotes', links', dropped', since', warm')
  PROVE  SoundSoFar'
BY DEF SoundSoFar, OneAtATime, ActorOK, ActPlaces, SearcherOK

(* Whoever reads the file alone has all there is *)
LEMMA ReadUpvoteStep ==
  ASSUME UpvoteInv, NEW w \in Workers, NEW where \in {"search", "walk"}, NEW h,
         readUpvotes(w, where, h), h \in Holdings, ~h.acted,
         where = "walk" => \A p \in h.todo : upvotes.item[p].status = "pending",
         UNCHANGED <<upvotes, present, dueItems, warm, since, links, dropped>>
  PROVE  UpvoteInv'
<1>1. QueueOK(upvotes) /\ HoldersOK /\ UpvoteWorldOK /\ (~clashed => SoundSoFar)
  BY DEF UpvoteInv
<1>2. PICK g : g = [h EXCEPT !.file = upvotes]
  OBVIOUS
<1>3. /\ g \in Holdings /\ g.file = upvotes /\ g.todo = h.todo /\ ~g.acted
  BY <1>1, <1>2 DEF Holdings, QueueOK
<1>4. HoldFits(where, g)
  BY <1>1, <1>3 DEF HoldFits, ActPlaces
<1>5. upc[w] = "idle" /\ Holds(w, where, g) /\ clashed' = (clashed \/ AtIt(Workers \ {w}))
  BY <1>2 DEF readUpvotes
<1>6. /\ HoldersOK' /\ upc'[w] = where /\ held'[w] = g
      /\ \A o \in Workers \ {w} : upc'[o] = upc[o] /\ held'[o] = held[o]
  BY <1>1, <1>3, <1>4, <1>5, HoldMoves DEF UpvotePlaces
<1>7. QueueOK(upvotes)' /\ UpvoteWorldOK'
  BY <1>1, <1>5 DEF QueueOK, UpvoteWorldOK, AtIt
<1>8. ASSUME ~clashed' PROVE SoundSoFar'
  <2>1. SoundSoFar /\ \A o \in Workers : upc[o] = "idle"
    BY <1>1, <1>5, <1>8 DEF AtIt
  <2>2. Sound(upvotes, links, dropped, since, warm) /\ LinksOK
    BY <2>1 DEF SoundSoFar, NothingDone
  <2>3. LinksOK'
    BY <2>2 DEF LinksOK
  <2>4. ActorOK(w)' /\ SearcherOK(w)'
    BY <1>3, <1>6, <2>2 DEF ActorOK, ActorFits, ActPlaces, SearcherOK
  <2> QED BY <1>6, <2>1, <2>2, <2>3, <2>4, OneWorks
<1> QED BY <1>6, <1>7, <1>8 DEF UpvoteInv

LEMMA SearchStep ==
  ASSUME UpvoteInv, NEW w \in Workers, Search(w)
  PROVE  UpvoteInv'
BY NotHeldType, ReadUpvoteStep DEF Search

LEMMA UpvoteTurnStep ==
  ASSUME UpvoteInv, NEW w \in Workers, NEW asked \in BOOLEAN, UpvoteTurn(w, asked)
  PROVE  UpvoteInv'
<1>1. PICK h : h = [NotHeld EXCEPT !.home = present,
       !.todo = IF Manual /\ ~asked /\ present THEN {}
                ELSE {p \in Found : upvotes.item[p].status = "pending" /\ p \in dueItems}]
  OBVIOUS
<1>2. h \in Holdings /\ ~h.acted /\ \A p \in h.todo : upvotes.item[p].status = "pending"
  BY <1>1, UpvotesAssumption DEF NotHeld, Holdings, UpvoteInv, UpvoteWorldOK
<1>3. /\ readUpvotes(w, "walk", h)
      /\ UNCHANGED <<upvotes, present, dueItems, warm, since, links, dropped>>
  BY <1>1 DEF UpvoteTurn
<1> QED BY <1>2, <1>3, ReadUpvoteStep

(* What is queued was not there, and nothing was done about it *)
LEMMA SoundWithNew ==
  ASSUME NEW f, NEW lks, NEW nos, NEW ages, NEW hot, Sound(f, lks, nos, ages, hot), nos \subseteq Found,
         NEW new \in SUBSET Found, \A p \in new : f.item[p].status = "none",
         lks \in [Found -> 0..2],
         NEW g, \A p \in new : g.item[p].status = "pending",
         \A p \in Found \ new : g.item[p] = f.item[p], g.authors = f.authors
  PROVE  Sound(g, lks, nos, ages, hot)
<1>1. ActsOn(g, ages) \subseteq ActsOn(f, ages)
  BY DEF ActsOn
<1>2. NewOK(g, lks) /\ DroppedOK(g, nos)
  BY DEF Sound, NewOK, DroppedOK
<1>3. LinkedOK(g, lks)
  BY DEF Sound, NewOK, LinkedOK
<1>4. AuthorsOK(g, ages, hot)
  BY <1>1 DEF Sound, AuthorsOK
<1> QED BY <1>1, <1>2, <1>3, <1>4, StillSound

LEMMA UpvoteWriteStep ==
  ASSUME UpvoteInv, NEW w \in Workers, upc[w] # "idle", NEW f, QueueOK(f), writeUpvotes(w, f),
         UNCHANGED <<present, warm, since, links, dropped, clashed>>, dueItems' \subseteq Found,
         ~clashed => Sound(f, links, dropped, since, warm)
  PROVE  UpvoteInv'
<1>1. QueueOK(upvotes) /\ HoldersOK /\ UpvoteWorldOK /\ (~clashed => SoundSoFar)
  BY DEF UpvoteInv
<1>2. upvotes' = f /\ Holds(w, "idle", NotHeld)
  BY DEF writeUpvotes
<1>3. /\ HoldersOK' /\ upc'[w] = "idle" /\ held'[w] = NotHeld
      /\ \A o \in Workers \ {w} : upc'[o] = upc[o] /\ held'[o] = held[o]
  BY <1>1, <1>2, NotHeldType, HoldMoves DEF UpvotePlaces
<1>4. UpvoteWorldOK' /\ QueueOK(upvotes')
  BY <1>1, <1>2 DEF UpvoteWorldOK
<1>5. ASSUME ~clashed' PROVE SoundSoFar'
  <2>1. SoundSoFar /\ \A o \in Workers \ {w} : upc[o] = "idle"
    BY <1>1, <1>5 DEF SoundSoFar, OneAtATime
  <2>2. LinksOK'
    BY <2>1 DEF SoundSoFar, LinksOK
  <2>3. ActorOK(w)' /\ SearcherOK(w)'
    BY <1>3 DEF ActorOK, ActPlaces, SearcherOK
  <2> QED BY <1>2, <1>3, <1>5, <2>1, <2>2, <2>3, OneWorks
<1> QED BY <1>3, <1>4, <1>5 DEF UpvoteInv, QueueOK

LEMMA QueueStep ==
  ASSUME UpvoteInv, NEW w \in Workers, Queue(w)
  PROVE  UpvoteInv'
<1>1. QueueOK(upvotes) /\ HoldersOK /\ UpvoteWorldOK /\ (~clashed => SoundSoFar)
  BY DEF UpvoteInv
<1>2. upc[w] = "search" /\ UNCHANGED <<present, warm, since, links, dropped, clashed>>
  BY DEF Queue
<1>3. PICK f : f = held[w].file
  OBVIOUS
<1>4. PICK found \in SUBSET (Found \ held[w].file.seen) : \E new \in SUBSET found :
           /\ \A p \in new : ~recentlyActed(held[w].file, p)
           /\ \A p, q \in new : AuthorOf[p] = AuthorOf[q] => p = q
           /\ Cardinality(new) <= UpvoteCap
           /\ \E does \in [new -> Kinds], now \in SUBSET new :
                /\ Cardinality({p \in new : does[p] = "reply"}) <= LinkCap
                /\ Cardinality(now) <= 1
                /\ writeUpvotes(w, [held[w].file EXCEPT !.seen = @ \cup found,
                     !.item = [p \in Found |->
                        IF p \in new THEN [status |-> "pending", action |-> does[p]] ELSE @[p]]])
                /\ dueItems' = (dueItems \ new) \cup now
  BY DEF Queue
<1>5. PICK new \in SUBSET found :
           \E does \in [new -> Kinds], now \in SUBSET new :
                /\ writeUpvotes(w, [held[w].file EXCEPT !.seen = @ \cup found,
                     !.item = [p \in Found |->
                        IF p \in new THEN [status |-> "pending", action |-> does[p]] ELSE @[p]]])
                /\ dueItems' = (dueItems \ new) \cup now
  BY <1>4
<1>6. PICK does \in [new -> Kinds], now \in SUBSET new :
                /\ writeUpvotes(w, [f EXCEPT !.seen = @ \cup found,
                     !.item = [p \in Found |->
                        IF p \in new THEN [status |-> "pending", action |-> does[p]] ELSE @[p]]])
                /\ dueItems' = (dueItems \ new) \cup now
  BY <1>3, <1>5
<1>7. /\ found \in SUBSET (Found \ f.seen) /\ new \in SUBSET Found /\ new \subseteq found
      /\ QueueOK(f) /\ ~held[w].acted
  BY <1>1, <1>2, <1>3 DEF HoldersOK, HoldFits
<1>8. PICK its : its = [p \in Found |->
                   IF p \in new THEN [status |-> "pending", action |-> does[p]] ELSE f.item[p]]
  OBVIOUS
<1>9. /\ f \in UpvoteFiles /\ f.item \in [Found -> QueueItem] /\ f.seen \subseteq Found
      /\ f.authors \subseteq Writers
      /\ f = [seen |-> f.seen, authors |-> f.authors, item |-> f.item]
  BY <1>7, FileType DEF QueueOK
<1>10. /\ \A p \in new : its[p].status = "pending"
      /\ \A p \in Found \ new : its[p] = f.item[p]
  BY <1>8
<1>11. its \in [Found -> QueueItem]
  <2>1. ASSUME NEW p \in Found PROVE its[p] \in QueueItem
    <3>1. CASE p \in new
      BY <1>6, <1>8, <3>1 DEF QueueItem
    <3>2. CASE p \notin new
      BY <1>8, <1>9, <3>2
    <3> QED BY <3>1, <3>2
  <2> QED BY <1>8, <2>1
<1>12. PICK g : g = [f EXCEPT !.seen = f.seen \cup found, !.item = its]
  OBVIOUS
<1>13. writeUpvotes(w, g) /\ g = [seen |-> f.seen \cup found, authors |-> f.authors, item |-> its]
  <2>1. g = [seen |-> f.seen \cup found, authors |-> f.authors, item |-> its]
    BY <1>9, <1>12, FileType
  <2>2. writeUpvotes(w, [f EXCEPT !.seen = f.seen \cup found, !.item = its])
    BY <1>6, <1>8
  <2> QED BY <1>12, <2>1, <2>2
<1>14. \A p \in new : p \notin f.seen /\ f.item[p].status = "none"
  BY <1>7 DEF QueueOK
<1>15. QueueOK(g)
  <2>1. g \in UpvoteFiles
    BY <1>7, <1>9, <1>11, <1>13, FileType
  <2> QED BY <1>7, <1>10, <1>13, <2>1 DEF QueueOK
<1>16. dueItems' \subseteq Found
  BY <1>1, <1>6 DEF UpvoteWorldOK
<1>17. ASSUME ~clashed PROVE Sound(g, links, dropped, since, warm)
  <2>1. SoundSoFar /\ \A o \in Workers \ {w} : upc[o] = "idle"
    BY <1>1, <1>2, <1>17 DEF SoundSoFar, OneAtATime
  <2>2. Sound(f, links, dropped, since, warm)
    BY <1>2, <1>3, <1>7, <2>1 DEF SoundSoFar, SearcherOK, NothingDone
  <2>3. dropped \subseteq Found /\ links \in [Found -> 0..2]
    BY <1>1 DEF UpvoteWorldOK
  <2>4. g.item = its /\ g.authors = f.authors
    BY <1>13
  <2> QED BY <1>10, <1>14, <2>2, <2>3, <2>4, SoundWithNew
<1> QED BY <1>2, <1>13, <1>15, <1>16, <1>17, UpvoteWriteStep

LEMMA ActorMoves ==
  ASSUME UpvoteInv, NEW w \in Workers, upc[w] \in ActPlaces, NEW where \in ActPlaces,
         NEW h \in Holdings, HoldFits(where, h), Holds(w, where, h),
         UNCHANGED <<upvotes, present, dueItems, dropped, clashed>>,
         links' \in [Found -> 0..2], since' \in [Found -> {"never", "now", "today", "old"}],
         warm' \subseteq Writers,
         h.acted \/ (~held[w].acted /\ links' = links /\ since' = since /\ warm' = warm),
         ~clashed => LinksOK' /\ ActorFits(where, h, links', since', warm')
  PROVE  UpvoteInv'
<1>1. QueueOK(upvotes) /\ HoldersOK /\ UpvoteWorldOK /\ (~clashed => SoundSoFar)
  BY DEF UpvoteInv
<1>2. /\ HoldersOK' /\ upc'[w] = where /\ held'[w] = h
      /\ \A o \in Workers \ {w} : upc'[o] = upc[o] /\ held'[o] = held[o]
  BY <1>1, HoldMoves DEF UpvotePlaces, ActPlaces
<1>3. QueueOK(upvotes)' /\ UpvoteWorldOK'
  BY <1>1 DEF QueueOK, UpvoteWorldOK
<1>4. ASSUME ~clashed' PROVE SoundSoFar'
  <2>1. ~clashed /\ SoundSoFar /\ LinksOK' /\ ActorFits(where, h, links', since', warm')
    BY <1>1, <1>4
  <2>2. \A o \in Workers \ {w} : upc[o] = "idle"
    BY <2>1 DEF SoundSoFar, OneAtATime, ActPlaces
  <2>3. \A o \in Workers \ {w} : upc'[o] = "idle"
    BY <1>2, <2>2
  <2>4. ActorOK(w)' /\ SearcherOK(w)'
    BY <1>2, <2>1 DEF ActorOK, ActorFits, ActPlaces, SearcherOK
  <2>5. ASSUME NothingDone' PROVE Sound(upvotes', links', dropped', since', warm')
    <3>1. ~h.acted
      BY <1>2, <2>5 DEF NothingDone, ActPlaces
    <3>2. ~held[w].acted /\ links' = links /\ since' = since /\ warm' = warm
      BY <3>1
    <3>3. NothingDone
      BY <2>2, <3>2 DEF NothingDone
    <3> QED BY <2>1, <3>2, <3>3 DEF SoundSoFar
  <2> QED BY <2>1, <2>3, <2>4, <2>5, OneWorks
<1> QED BY <1>2, <1>3, <1>4 DEF UpvoteInv

LEMMA WalkQueueStep ==
  ASSUME UpvoteInv, NEW w \in Workers, WalkQueue(w)
  PROVE  UpvoteInv'
<1>1. QueueOK(upvotes) /\ HoldersOK /\ UpvoteWorldOK /\ (~clashed => SoundSoFar)
  BY DEF UpvoteInv
<1>2. upc[w] = "walk" /\ UNCHANGED <<present, dueItems, warm, since, links, dropped, clashed>>
  BY DEF WalkQueue
<1>3. PICK h : h = held[w]
  OBVIOUS
<1>4. /\ h \in Holdings /\ QueueOK(h.file) /\ h.file \in UpvoteFiles
      /\ \A p \in h.todo : p \in Found /\ h.file.item[p].status = "pending"
  BY <1>1, <1>2, <1>3 DEF HoldersOK, HoldFits, QueueOK, Holdings, ActPlaces
<1>5. ASSUME ~clashed PROVE LinksOK' /\ ActorFits("walk", h, links, since, warm)
  <2>1. LinksOK /\ ActorFits("walk", h, links, since, warm)
    BY <1>1, <1>2, <1>3, <1>5 DEF SoundSoFar, ActorOK, ActPlaces
  <2> QED BY <1>2, <2>1 DEF LinksOK
<1>6. /\ links' = links /\ since' = since /\ warm' = warm /\ links' \in [Found -> 0..2]
      /\ since' \in [Found -> {"never", "now", "today", "old"}]
      /\ warm' \subseteq Writers
  BY <1>1, <1>2 DEF UpvoteWorldOK
<1>7. CASE writeUpvotes(w, h.file)
  <2>1. dueItems' \subseteq Found
    BY <1>1, <1>2 DEF UpvoteWorldOK
  <2>2. ~clashed => Sound(h.file, links, dropped, since, warm)
    BY <1>5 DEF ActorFits
  <2> QED BY <1>2, <1>4, <1>7, <2>1, <2>2, UpvoteWriteStep
<1>8. ASSUME NEW p \in h.todo, UNCHANGED upvotes, Holds(w, "walk", [h EXCEPT !.todo = @ \ {p}])
      PROVE  UpvoteInv'
  <2>1. PICK g : g = [h EXCEPT !.todo = @ \ {p}]
    OBVIOUS
  <2>2. g \in Holdings /\ g.file = h.file /\ g.todo = h.todo \ {p} /\ g.acted = h.acted
    BY <1>4, <2>1 DEF Holdings
  <2>3. HoldFits("walk", g)
    BY <1>4, <2>2 DEF HoldFits
  <2>4. ~clashed => LinksOK' /\ ActorFits("walk", g, links', since', warm')
    BY <1>5, <1>6, <2>2 DEF ActorFits
  <2>5. h.acted \in BOOLEAN
    BY <1>4 DEF Holdings
  <2> QED BY <1>2, <1>3, <1>6, <1>8, <2>1, <2>2, <2>3, <2>4, <2>5, ActorMoves DEF ActPlaces
<1>9. ASSUME NEW p \in h.todo, UNCHANGED upvotes,
             Holds(w, "walk", [[h EXCEPT !.todo = @ \ {p}] EXCEPT !.file.item[p].status = "skipped"])
      PROVE  UpvoteInv'
  <2>1. PICK f : f = h.file
    OBVIOUS
  <2>2. PICK ff : ff = [f EXCEPT !.item[p].status = "skipped"]
    OBVIOUS
  <2>3. /\ f \in UpvoteFiles /\ QueueOK(f) /\ p \in Found /\ f.item[p].status = "pending"
        /\ f.authors \subseteq Writers /\ f.seen \subseteq Found /\ f.item \in [Found -> QueueItem]
    BY <1>4, <2>1, FileType
  <2>4. /\ ff \in UpvoteFiles /\ ff.item[p].status = "skipped" /\ ff.item[p].action = f.item[p].action
        /\ ff.seen = f.seen /\ ff.authors = f.authors
        /\ \A q \in Found \ {p} : ff.item[q] = f.item[q]
    <3>1. PICK its : its = [f.item EXCEPT ![p].status = "skipped"]
      OBVIOUS
    <3>2. /\ its \in [Found -> QueueItem] /\ its[p].status = "skipped"
          /\ its[p].action = f.item[p].action /\ \A q \in Found \ {p} : its[q] = f.item[q]
      BY <2>3, <3>1, ItemSet
    <3>3. ff = [seen |-> f.seen, authors |-> f.authors, item |-> its]
      BY <2>2, <2>3, <3>1, FileType
    <3> QED BY <2>3, <3>2, <3>3, FileType
  <2>6. PICK g : g = [h EXCEPT !.todo = @ \ {p}, !.file = ff]
    OBVIOUS
  <2>7. /\ g \in Holdings /\ g.file = ff /\ g.todo = h.todo \ {p} /\ g.acted = h.acted
    BY <1>4, <2>4, <2>6 DEF Holdings
  <2>8. Holds(w, "walk", g)
    <3>1. [[h EXCEPT !.todo = @ \ {p}] EXCEPT !.file.item[p].status = "skipped"] = g
      BY <1>4, <2>1, <2>2, <2>6 DEF Holdings
    <3> QED BY <1>9, <3>1
  <2>9. QueueOK(ff)
    BY <2>3, <2>4 DEF QueueOK
  <2>10. HoldFits("walk", g)
    BY <1>4, <2>1, <2>4, <2>7, <2>9 DEF HoldFits
  <2>11. ASSUME ~clashed PROVE LinksOK' /\ ActorFits("walk", g, links', since', warm')
    <3>1. Sound(f, links, dropped, since, warm) /\ DoneIn(upvotes) \subseteq DoneIn(f)
      BY <1>5, <2>1, <2>11 DEF ActorFits
    <3>2. ActsOn(ff, since) \subseteq ActsOn(f, since)
      BY <2>4 DEF ActsOn
    <3>3. NewOK(ff, links) /\ LinkedOK(ff, links)
      BY <2>3, <2>4, <3>1 DEF Sound, NewOK, LinkedOK
    <3>4. DroppedOK(ff, dropped)
      BY <1>1, <2>4, <3>1 DEF Sound, DroppedOK, UpvoteWorldOK
    <3>5. AuthorsOK(ff, since, warm)
      BY <2>4, <3>1, <3>2 DEF Sound, AuthorsOK
    <3>6. Sound(ff, links, dropped, since, warm)
      BY <3>1, <3>2, <3>3, <3>4, <3>5, StillSound
    <3>7. DoneIn(upvotes) \subseteq DoneIn(ff)
      BY <2>3, <2>4, <3>1 DEF DoneIn
    <3> QED BY <1>5, <1>6, <2>7, <2>11, <3>6, <3>7 DEF ActorFits
  <2>12. h.acted \in BOOLEAN
    BY <1>4 DEF Holdings
  <2> QED BY <1>2, <1>3, <1>6, <1>9, <2>7, <2>8, <2>10, <2>11, <2>12, ActorMoves DEF ActPlaces
<1>10. ASSUME NEW p \in h.todo, UNCHANGED upvotes, ~Full(h, p), ~Skips(h, p),
              Holds(w, "vote", [[h EXCEPT !.todo = @ \ {p}] EXCEPT !.post = p])
       PROVE  UpvoteInv'
  <2>1. PICK g : g = [[h EXCEPT !.todo = @ \ {p}] EXCEPT !.post = p]
    OBVIOUS
  <2>2. /\ g \in Holdings /\ g.file = h.file /\ g.todo = h.todo \ {p} /\ g.acted = h.acted
        /\ g.post = p /\ p \in Found
    BY <1>4, <2>1 DEF Holdings
  <2>3. HoldFits("vote", g)
    BY <1>4, <2>2 DEF HoldFits
  <2>4. ASSUME ~clashed PROVE LinksOK' /\ ActorFits("vote", g, links', since', warm')
    <3>1. Sound(h.file, links, dropped, since, warm)
      BY <1>5, <2>4 DEF ActorFits
    <3>2. actedToday(h.file, Kinds) = ActsOn(h.file, since)
      BY <1>4, FileType DEF actedToday, ActsOn, QueueItem
    <3>3. LinkActs(h.file, links, since) \subseteq actedToday(h.file, {"reply"})
      BY <3>1 DEF LinkActs, ActsOn, actedToday, Sound, LinkedOK
    <3>4. actedToday(h.file, {"reply"}) \subseteq Found
      BY DEF actedToday
    <3>5. /\ IsFiniteSet(actedToday(h.file, {"reply"}))
          /\ Cardinality(actedToday(h.file, {"reply"})) \in Nat
          /\ Cardinality(LinkActs(h.file, links, since)) \in Nat
          /\ Cardinality(LinkActs(h.file, links, since)) <= Cardinality(actedToday(h.file, {"reply"}))
      BY <3>3, <3>4, UpvotesAssumption, FS_Subset, FS_CardinalityType, FewerAtMost
    <3>6. Cardinality(ActsOn(h.file, since)) < UpvoteCap
      BY <1>10, <3>2, CountsFinite, UpvotesAssumption DEF Full
    <3>7. h.file.item[p].action = "reply" => Cardinality(LinkActs(h.file, links, since)) < LinkCap
      BY <1>10, <3>5, UpvotesAssumption DEF Full
    <3>8. ~(AuthorOf[p] \in h.file.authors /\ AuthorOf[p] \in warm)
      BY <1>10 DEF Skips, recentlyActed
    <3>9. RoomFor(p, h.file, links, since, warm)
      BY <3>6, <3>7, <3>8 DEF RoomFor
    <3> QED BY <1>5, <1>6, <2>2, <2>4, <3>9 DEF ActorFits
  <2>5. h.acted \in BOOLEAN
    BY <1>4 DEF Holdings
  <2> QED BY <1>2, <1>3, <1>6, <1>10, <2>1, <2>2, <2>3, <2>4, <2>5, ActorMoves DEF ActPlaces
<1> QED BY <1>3, <1>7, <1>8, <1>9, <1>10 DEF WalkQueue

LEMMA VoteStep ==
  ASSUME UpvoteInv, NEW w \in Workers, Vote(w)
  PROVE  UpvoteInv'
<1>1. QueueOK(upvotes) /\ HoldersOK /\ UpvoteWorldOK /\ (~clashed => SoundSoFar)
  BY DEF UpvoteInv
<1>2. /\ upc[w] = "vote"
      /\ UNCHANGED <<upvotes, present, dueItems, warm, since, links, dropped, clashed>>
  BY DEF Vote
<1>3. PICK h : h = held[w]
  OBVIOUS
<1>4. PICK ok \in BOOLEAN : Holds(w, "more", [h EXCEPT !.any = ok])
  BY <1>3 DEF Vote
<1>5. PICK g : g = [h EXCEPT !.any = ok]
  OBVIOUS
<1>6. h \in Holdings /\ HoldFits("vote", h)
  BY <1>1, <1>2, <1>3 DEF HoldersOK
<1>7. /\ g \in Holdings /\ g.file = h.file /\ g.todo = h.todo /\ g.acted = h.acted /\ g.post = h.post
      /\ h.acted \in BOOLEAN
  BY <1>4, <1>5, <1>6 DEF Holdings
<1>8. HoldFits("more", g)
  BY <1>6, <1>7 DEF HoldFits, ActPlaces
<1>9. /\ links' = links /\ since' = since /\ warm' = warm /\ links' \in [Found -> 0..2]
      /\ since' \in [Found -> {"never", "now", "today", "old"}]
      /\ warm' \subseteq Writers
  BY <1>1, <1>2 DEF UpvoteWorldOK
<1>10. ASSUME ~clashed PROVE LinksOK' /\ ActorFits("more", g, links', since', warm')
  <2>1. LinksOK /\ ActorFits("vote", h, links, since, warm)
    BY <1>1, <1>2, <1>3, <1>10 DEF SoundSoFar, ActorOK, ActPlaces
  <2>2. LinksOK'
    BY <1>2, <2>1 DEF LinksOK
  <2> QED BY <1>7, <1>9, <2>1, <2>2 DEF ActorFits
<1> QED BY <1>2, <1>3, <1>4, <1>5, <1>7, <1>8, <1>9, <1>10, ActorMoves DEF ActPlaces

LEMMA MoreStep ==
  ASSUME UpvoteInv, NEW w \in Workers, More(w)
  PROVE  UpvoteInv'
<1>1. QueueOK(upvotes) /\ HoldersOK /\ UpvoteWorldOK /\ (~clashed => SoundSoFar)
  BY DEF UpvoteInv
<1>2. upc[w] = "more" /\ UNCHANGED <<upvotes, present, dueItems, dropped, clashed>>
  BY DEF More
<1>3. PICK h : h = held[w]
  OBVIOUS
<1>4. PICK p : p = h.post
  OBVIOUS
<1>5. PICK f : f = h.file
  OBVIOUS
<1>6. /\ h \in Holdings /\ QueueOK(f) /\ f \in UpvoteFiles /\ p \in Found
      /\ f.item[p].status = "pending" /\ p \notin h.todo
      /\ \A q \in h.todo : q \in Found /\ f.item[q].status = "pending"
      /\ f.authors \subseteq Writers /\ f.seen \subseteq Found /\ f.item \in [Found -> QueueItem]
  BY <1>1, <1>2, <1>3, <1>4, <1>5, FileType DEF HoldersOK, HoldFits, QueueOK, Holdings, ActPlaces
<1>7. PICK done \in BOOLEAN :
        /\ \/ links' = links
           \/ /\ f.item[p].action = "reply" /\ links[p] < 2
              /\ links' = [links EXCEPT ![p] = @ + 1]
        /\ since' = [since EXCEPT ![p] = "now"]
        /\ warm' = IF done THEN warm \cup {AuthorOf[p]} ELSE warm
        /\ Holds(w, "walk", [h EXCEPT !.post = "none", !.any = FALSE, !.acted = TRUE,
             !.file.item[p].status = IF done THEN "done" ELSE "failed",
             !.file.authors = IF done THEN @ \cup {AuthorOf[p]} ELSE @])
  <2>1. PICK res : \E done \in BOOLEAN :
        /\ links' = IF held[w].file.item[held[w].post].action = "reply" /\ Landed(res)
                       /\ links[held[w].post] < 2
                    THEN [links EXCEPT ![held[w].post] = @ + 1] ELSE links
        /\ since' = [since EXCEPT ![held[w].post] = "now"]
        /\ warm' = IF done THEN warm \cup {AuthorOf[held[w].post]} ELSE warm
        /\ Holds(w, "walk", [held[w] EXCEPT !.post = "none", !.any = FALSE, !.acted = TRUE,
             !.file.item[held[w].post].status = IF done THEN "done" ELSE "failed",
             !.file.authors = IF done THEN @ \cup {AuthorOf[held[w].post]} ELSE @])
    <3>1. held[w].any \in BOOLEAN
      BY <1>3, <1>6 DEF Holdings
    <3> QED BY <3>1 DEF More
  <2>2. PICK done \in BOOLEAN :
        /\ links' = IF f.item[p].action = "reply" /\ Landed(res) /\ links[p] < 2
                    THEN [links EXCEPT ![p] = @ + 1] ELSE links
        /\ since' = [since EXCEPT ![p] = "now"]
        /\ warm' = IF done THEN warm \cup {AuthorOf[p]} ELSE warm
        /\ Holds(w, "walk", [h EXCEPT !.post = "none", !.any = FALSE, !.acted = TRUE,
             !.file.item[p].status = IF done THEN "done" ELSE "failed",
             !.file.authors = IF done THEN @ \cup {AuthorOf[p]} ELSE @])
    BY <1>3, <1>4, <1>5, <2>1
  <2>3. CASE f.item[p].action = "reply" /\ Landed(res) /\ links[p] < 2
    BY <2>2, <2>3
  <2>4. CASE ~(f.item[p].action = "reply" /\ Landed(res) /\ links[p] < 2)
    BY <2>2, <2>4
  <2> QED BY <2>3, <2>4
<1>8. PICK s \in {"done", "failed"} : s = IF done THEN "done" ELSE "failed"
  OBVIOUS
<1>9. PICK names : names = IF done THEN f.authors \cup {AuthorOf[p]} ELSE f.authors
  OBVIOUS
<1>10. /\ names \subseteq Writers /\ f.authors \subseteq names
       /\ s = "done" => AuthorOf[p] \in names /\ AuthorOf[p] \in warm'
  BY <1>6, <1>7, <1>8, <1>9 DEF Writers
<1>11. PICK its : its = [f.item EXCEPT ![p].status = s]
  OBVIOUS
<1>12. /\ its \in [Found -> QueueItem] /\ its[p].status = s
       /\ its[p].action = f.item[p].action /\ \A q \in Found \ {p} : its[q] = f.item[q]
  BY <1>6, <1>11, ItemSet
<1>13. PICK ff : ff = [f EXCEPT !.item = its, !.authors = names]
  OBVIOUS
<1>14. ff = [seen |-> f.seen, authors |-> names, item |-> its] /\ ff \in UpvoteFiles
  BY <1>6, <1>10, <1>12, <1>13, FileType
<1>15. PICK g : g = [h EXCEPT !.post = "none", !.any = FALSE, !.acted = TRUE, !.file = ff]
  OBVIOUS
<1>16. g \in Holdings /\ g.file = ff /\ g.todo = h.todo /\ g.acted
  BY <1>6, <1>14, <1>15 DEF Holdings
<1>17. Holds(w, "walk", g)
  <2>1. PICK gg : gg = [h EXCEPT !.post = "none", !.any = FALSE, !.acted = TRUE,
             !.file.item[p].status = IF done THEN "done" ELSE "failed",
             !.file.authors = IF done THEN @ \cup {AuthorOf[p]} ELSE @]
    OBVIOUS
  <2>2. gg = [h EXCEPT !.post = "none", !.any = FALSE, !.acted = TRUE,
             !.file = [h.file EXCEPT !.item[p].status = s, !.authors = names]]
    BY <1>5, <1>6, <1>8, <1>9, <2>1 DEF Holdings
  <2>3. PICK fff : fff = [h.file EXCEPT !.item[p].status = s, !.authors = names]
    OBVIOUS
  <2>4. fff = [seen |-> f.seen, authors |-> names, item |-> its]
    BY <1>5, <1>6, <1>11, <2>3, FileType
  <2>5. gg = g
    BY <1>14, <1>15, <2>2, <2>3, <2>4
  <2> QED BY <1>7, <2>1, <2>5
<1>18. QueueOK(ff)
  BY <1>6, <1>12, <1>14 DEF QueueOK
<1>19. HoldFits("walk", g)
  BY <1>6, <1>12, <1>14, <1>16, <1>18 DEF HoldFits
<1>20. /\ links \in [Found -> 0..2] /\ since \in [Found -> {"never", "now", "today", "old"}]
       /\ warm \subseteq Writers /\ dropped \subseteq Found
  BY <1>1 DEF UpvoteWorldOK, Writers
<1>21. /\ since' \in [Found -> {"never", "now", "today", "old"}]
       /\ \A q \in Found \ {p} : since'[q] = since[q]
       /\ warm \subseteq warm' /\ warm' \subseteq Writers
  BY <1>6, <1>7, <1>20 DEF Writers
<1>22. /\ links' \in [Found -> 0..2] /\ \A q \in Found \ {p} : links'[q] = links[q]
       /\ links'[p] = links[p] \/ (links'[p] = links[p] + 1 /\ f.item[p].action = "reply")
  BY <1>6, <1>7, <1>20
<1>23. ASSUME ~clashed PROVE LinksOK' /\ ActorFits("walk", g, links', since', warm')
  <2>1. LinksOK /\ ActorFits("more", h, links, since, warm)
    BY <1>1, <1>2, <1>3, <1>23 DEF SoundSoFar, ActorOK, ActPlaces
  <2>2. /\ Sound(f, links, dropped, since, warm) /\ RoomFor(p, f, links, since, warm)
        /\ DoneIn(upvotes) \subseteq DoneIn(f)
    BY <1>4, <1>5, <2>1 DEF ActorFits
  <2>3. /\ \A q \in Found \ {p} : ff.item[q] = f.item[q]
        /\ ff.item[p].status \in {"done", "failed"} /\ ff.item[p].action = f.item[p].action
        /\ f.authors \subseteq ff.authors
        /\ ff.item[p].status = "done" => AuthorOf[p] \in ff.authors /\ AuthorOf[p] \in warm'
    BY <1>8, <1>10, <1>12, <1>14
  <2>4. Sound(ff, links', dropped, since', warm') /\ links[p] = 0 /\ p \notin dropped
    <3>1. ActGoes(p, f, links, since, warm, ff, links', since', warm')
      BY <1>21, <1>22, <2>3 DEF ActGoes
    <3> QED BY <1>6, <1>20, <1>22, <2>2, <3>1, SoundWithAct
  <2>5. \A q \in Found : links'[q] <= 1
    <3>1. ASSUME NEW q \in Found PROVE links'[q] <= 1
      <4>1. CASE q = p
        BY <1>22, <2>4, <4>1
      <4>2. CASE q # p
        BY <1>22, <2>1, <4>2 DEF LinksOK
      <4> QED BY <4>1, <4>2
    <3> QED BY <3>1
  <2>6. \A q \in dropped : links'[q] = 0
    BY <1>20, <1>22, <2>1, <2>4 DEF LinksOK
  <2>7. LinksOK'
    BY <1>2, <2>5, <2>6 DEF LinksOK
  <2>8. DoneIn(upvotes) \subseteq DoneIn(ff)
    BY <1>6, <2>2, <2>3 DEF DoneIn
  <2> QED BY <1>16, <2>4, <2>7, <2>8 DEF ActorFits
<1> QED BY <1>2, <1>16, <1>17, <1>19, <1>21, <1>22, <1>23, ActorMoves DEF ActPlaces

LEMMA UpvoteCrashStep ==
  ASSUME UpvoteInv, NEW w \in Workers, UpvoteCrash(w)
  PROVE  UpvoteInv'
<1>1. QueueOK(upvotes) /\ HoldersOK /\ UpvoteWorldOK /\ (~clashed => SoundSoFar)
  BY DEF UpvoteInv
<1>2. /\ upc[w] # "idle" /\ Holds(w, "idle", NotHeld) /\ clashed' = (clashed \/ held[w].acted)
      /\ UNCHANGED <<upvotes, present, dueItems, warm, since, links, dropped>>
  BY DEF UpvoteCrash
<1>3. /\ HoldersOK' /\ upc'[w] = "idle"
      /\ \A o \in Workers \ {w} : upc'[o] = upc[o] /\ held'[o] = held[o]
  BY <1>1, <1>2, NotHeldType, HoldMoves DEF UpvotePlaces
<1>4. clashed' \in BOOLEAN
  <2>1. held[w].acted \in BOOLEAN
    BY <1>1 DEF HoldersOK, Holdings
  <2> QED BY <1>1, <1>2, <2>1 DEF UpvoteWorldOK
<1>5. QueueOK(upvotes)' /\ UpvoteWorldOK'
  BY <1>1, <1>2, <1>4 DEF QueueOK, UpvoteWorldOK
<1>6. ASSUME ~clashed' PROVE SoundSoFar'
  <2>1. ~clashed /\ ~held[w].acted /\ SoundSoFar
    BY <1>1, <1>2, <1>6
  <2>2. \A o \in Workers \ {w} : upc[o] = "idle"
    BY <1>2, <2>1 DEF SoundSoFar, OneAtATime
  <2>3. NothingDone
    BY <2>1, <2>2 DEF NothingDone
  <2>4. Sound(upvotes, links, dropped, since, warm) /\ LinksOK
    BY <2>1, <2>3 DEF SoundSoFar
  <2>5. LinksOK'
    BY <1>2, <2>4 DEF LinksOK
  <2>6. ActorOK(w)' /\ SearcherOK(w)'
    BY <1>3 DEF ActorOK, ActPlaces, SearcherOK
  <2> QED BY <1>2, <1>3, <2>2, <2>4, <2>5, <2>6, OneWorks
<1> QED BY <1>3, <1>5, <1>6 DEF UpvoteInv

(* A person changes the file when nobody has it, or it clashes *)
LEMMA HandSteps ==
  ASSUME UpvoteInv, UNCHANGED <<upc, held>>, clashed' = (clashed \/ AtIt(Workers)),
         QueueOK(upvotes'), UpvoteWorldOK',
         Sound(upvotes, links, dropped, since, warm) /\ LinksOK =>
           Sound(upvotes', links', dropped', since', warm') /\ LinksOK'
  PROVE  UpvoteInv'
<1>1. HoldersOK /\ (~clashed => SoundSoFar)
  BY DEF UpvoteInv
<1>2. HoldersOK'
  BY <1>1 DEF HoldersOK
<1>3. ASSUME ~clashed' PROVE SoundSoFar'
  <2>1. SoundSoFar /\ \A w \in Workers : upc[w] = "idle"
    BY <1>1, <1>3 DEF AtIt
  <2>2. Sound(upvotes, links, dropped, since, warm) /\ LinksOK
    BY <2>1 DEF SoundSoFar, NothingDone
  <2>3. Sound(upvotes', links', dropped', since', warm') /\ LinksOK'
    BY <2>2
  <2>4. \A w \in Workers : upc'[w] = "idle"
    BY <2>1
  <2> QED BY <2>3, <2>4 DEF SoundSoFar, OneAtATime, ActorOK, ActPlaces, SearcherOK
<1> QED BY <1>2, <1>3 DEF UpvoteInv, QueueOK

LEMMA SkipItemStep ==
  ASSUME UpvoteInv, NEW p \in Found, SkipItem(p)
  PROVE  UpvoteInv'
<1>1. QueueOK(upvotes) /\ UpvoteWorldOK
  BY DEF UpvoteInv
<1>2. /\ upvotes.item[p].status \notin {"none", "skipped"}
      /\ upvotes' = [upvotes EXCEPT !.item[p].status = "skipped"]
      /\ dropped' = IF upvotes.item[p].status = "pending" THEN dropped \cup {p} ELSE dropped
      /\ clashed' = (clashed \/ AtIt(Workers))
      /\ UNCHANGED <<present, dueItems, warm, since, upc, held, links>>
  BY DEF SkipItem
<1>3. PICK f : f = upvotes
  OBVIOUS
<1>4. /\ f \in UpvoteFiles /\ QueueOK(f) /\ f.authors \subseteq Writers /\ f.seen \subseteq Found
      /\ f.item \in [Found -> QueueItem]
  BY <1>1, <1>3, FileType DEF QueueOK
<1>5. PICK ff : ff = [f EXCEPT !.item[p].status = "skipped"]
  OBVIOUS
<1>6. /\ ff \in UpvoteFiles /\ ff.item[p].status = "skipped" /\ ff.item[p].action = f.item[p].action
      /\ ff.seen = f.seen /\ ff.authors = f.authors
      /\ \A q \in Found \ {p} : ff.item[q] = f.item[q]
  <2>1. PICK its : its = [f.item EXCEPT ![p].status = "skipped"]
    OBVIOUS
  <2>2. /\ its \in [Found -> QueueItem] /\ its[p].status = "skipped"
        /\ its[p].action = f.item[p].action /\ \A q \in Found \ {p} : its[q] = f.item[q]
    BY <1>4, <2>1, ItemSet
  <2>3. ff = [seen |-> f.seen, authors |-> f.authors, item |-> its]
    BY <1>4, <1>5, <2>1, FileType
  <2> QED BY <1>4, <2>2, <2>3, FileType
<1>7. upvotes' = ff
  BY <1>2, <1>3, <1>5
<1>8. QueueOK(ff)
  BY <1>2, <1>3, <1>4, <1>6 DEF QueueOK
<1>9. clashed' \in BOOLEAN
  BY <1>1, <1>2 DEF UpvoteWorldOK, AtIt
<1>10. UpvoteWorldOK'
  BY <1>1, <1>2, <1>9 DEF UpvoteWorldOK
<1>11. ASSUME Sound(f, links, dropped, since, warm), LinksOK
       PROVE  Sound(ff, links', dropped', since', warm') /\ LinksOK'
  <2>1. ActsOn(ff, since) \subseteq ActsOn(f, since)
    BY <1>6 DEF ActsOn
  <2>2. NewOK(ff, links) /\ LinkedOK(ff, links)
    BY <1>6, <1>11 DEF Sound, NewOK, LinkedOK
  <2>3. DroppedOK(ff, dropped')
    BY <1>1, <1>2, <1>6, <1>11 DEF Sound, DroppedOK, UpvoteWorldOK
  <2>4. AuthorsOK(ff, since, warm)
    BY <1>6, <1>11, <2>1 DEF Sound, AuthorsOK
  <2>5. Sound(ff, links, dropped', since, warm)
    BY <1>11, <2>1, <2>2, <2>3, <2>4, StillSound
  <2>6. f.item[p].status = "pending" => links[p] = 0
    BY <1>11 DEF Sound, NewOK
  <2>7. LinksOK'
    BY <1>2, <1>3, <1>11, <2>6 DEF LinksOK
  <2> QED BY <1>2, <2>5, <2>7
<1> QED BY <1>2, <1>3, <1>7, <1>8, <1>10, <1>11, HandSteps

LEMMA EditItemStep ==
  ASSUME UpvoteInv, NEW p \in Found, EditItem(p)
  PROVE  UpvoteInv'
<1>1. QueueOK(upvotes) /\ UpvoteWorldOK
  BY DEF UpvoteInv
<1>2. /\ upvotes' = [upvotes EXCEPT !.item[p].action = "reply"]
      /\ clashed' = (clashed \/ AtIt(Workers))
      /\ UNCHANGED <<present, dueItems, warm, since, upc, held, links, dropped>>
  BY DEF EditItem
<1>3. PICK f : f = upvotes
  OBVIOUS
<1>4. /\ f \in UpvoteFiles /\ QueueOK(f) /\ f.authors \subseteq Writers /\ f.seen \subseteq Found
      /\ f.item \in [Found -> QueueItem]
  BY <1>1, <1>3, FileType DEF QueueOK
<1>5. PICK ff : ff = [f EXCEPT !.item[p].action = "reply"]
  OBVIOUS
<1>6. /\ ff \in UpvoteFiles /\ ff.item[p].status = f.item[p].status /\ ff.item[p].action = "reply"
      /\ ff.seen = f.seen /\ ff.authors = f.authors
      /\ \A q \in Found \ {p} : ff.item[q] = f.item[q]
  <2>1. PICK its : its = [f.item EXCEPT ![p].action = "reply"]
    OBVIOUS
  <2>2. /\ its \in [Found -> QueueItem] /\ its[p].status = f.item[p].status
        /\ its[p].action = "reply" /\ \A q \in Found \ {p} : its[q] = f.item[q]
    BY <1>4, <2>1 DEF QueueItem, Kinds
  <2>3. ff = [seen |-> f.seen, authors |-> f.authors, item |-> its]
    BY <1>4, <1>5, <2>1, FileType
  <2> QED BY <1>4, <2>2, <2>3, FileType
<1>7. upvotes' = ff
  BY <1>2, <1>3, <1>5
<1>8. QueueOK(ff)
  BY <1>4, <1>6 DEF QueueOK
<1>9. clashed' \in BOOLEAN
  BY <1>1, <1>2 DEF UpvoteWorldOK, AtIt
<1>10. UpvoteWorldOK'
  BY <1>1, <1>2, <1>9 DEF UpvoteWorldOK
<1>11. ASSUME Sound(f, links, dropped, since, warm), LinksOK
       PROVE  Sound(ff, links', dropped', since', warm') /\ LinksOK'
  <2>1. \A q \in Found : ff.item[q].status = f.item[q].status
    BY <1>6
  <2>2. ActsOn(ff, since) \subseteq ActsOn(f, since)
    BY <2>1 DEF ActsOn
  <2>3. NewOK(ff, links) /\ LinkedOK(ff, links)
    BY <1>6, <1>11, <2>1 DEF Sound, NewOK, LinkedOK
  <2>4. DroppedOK(ff, dropped)
    BY <1>1, <1>11, <2>1 DEF Sound, DroppedOK, UpvoteWorldOK
  <2>5. AuthorsOK(ff, since, warm)
    BY <1>6, <1>11, <2>2 DEF Sound, AuthorsOK
  <2>6. Sound(ff, links, dropped, since, warm)
    BY <1>11, <2>2, <2>3, <2>4, <2>5, StillSound
  <2>7. LinksOK'
    BY <1>2, <1>11 DEF LinksOK
  <2> QED BY <1>2, <2>6, <2>7
<1> QED BY <1>2, <1>3, <1>7, <1>8, <1>10, <1>11, HandSteps

(* The account goes, items come due, time passes *)
LEMMA TimeStep ==
  ASSUME UpvoteInv, UNCHANGED <<upvotes, upc, held, links, dropped, clashed>>,
         present' \in BOOLEAN, dueItems' \subseteq Found, warm' \subseteq warm,
         since' \in [Found -> {"never", "now", "today", "old"}],
         \A p \in Found : since'[p] \in {"now", "today"} =>
           since[p] \in {"now", "today"} /\ (AuthorOf[p] \in warm => AuthorOf[p] \in warm')
  PROVE  UpvoteInv'
<1>1. QueueOK(upvotes) /\ HoldersOK /\ UpvoteWorldOK /\ (~clashed => SoundSoFar)
  BY DEF UpvoteInv
<1>2. QueueOK(upvotes)' /\ HoldersOK' /\ UpvoteWorldOK'
  BY <1>1 DEF QueueOK, HoldersOK, UpvoteWorldOK
<1>3. ASSUME NEW f, Sound(f, links, dropped, since, warm)
      PROVE  /\ Sound(f, links, dropped, since', warm')
             /\ Cardinality(ActsOn(f, since')) <= Cardinality(ActsOn(f, since))
             /\ Cardinality(LinkActs(f, links, since')) <= Cardinality(LinkActs(f, links, since))
  <2>1. ActsOn(f, since') \subseteq ActsOn(f, since)
    BY DEF ActsOn
  <2>2. AuthorsOK(f, since', warm')
    BY <1>3 DEF Sound, AuthorsOK, ActsOn
  <2>3. NewOK(f, links) /\ LinkedOK(f, links) /\ DroppedOK(f, dropped)
    BY <1>3 DEF Sound
  <2> QED BY <1>3, <2>1, <2>2, <2>3, StillSound
<1>4. ASSUME ~clashed' PROVE SoundSoFar'
  <2>1. SoundSoFar
    BY <1>1, <1>4
  <2>2. OneAtATime' /\ LinksOK' /\ \A w \in Workers : SearcherOK(w)'
    BY <2>1 DEF SoundSoFar, OneAtATime, LinksOK, SearcherOK
  <2>3. NothingDone' => Sound(upvotes', links', dropped', since', warm')
    BY <1>3, <2>1 DEF SoundSoFar, NothingDone
  <2>4. ASSUME NEW w \in Workers, upc'[w] \in ActPlaces
        PROVE  ActorFits(upc[w], held[w], links, since, warm)'
    <3>1. PICK h : h = held[w]
      OBVIOUS
    <3>2. ActorFits(upc[w], h, links, since, warm)
      BY <2>1, <2>4, <3>1 DEF SoundSoFar, ActorOK
    <3>3. /\ Sound(h.file, links, dropped, since, warm) /\ DoneIn(upvotes) \subseteq DoneIn(h.file)
          /\ upc[w] \in {"vote", "more"} => RoomFor(h.post, h.file, links, since, warm)
      BY <3>2 DEF ActorFits
    <3>4. /\ Sound(h.file, links, dropped, since', warm')
          /\ Cardinality(ActsOn(h.file, since')) <= Cardinality(ActsOn(h.file, since))
          /\ Cardinality(LinkActs(h.file, links, since')) <= Cardinality(LinkActs(h.file, links, since))
      BY <1>3, <3>3
    <3>5. /\ Cardinality(ActsOn(h.file, since')) \in Nat
          /\ Cardinality(ActsOn(h.file, since)) \in Nat
          /\ Cardinality(LinkActs(h.file, links, since')) \in Nat
          /\ Cardinality(LinkActs(h.file, links, since)) \in Nat
      BY CountsFinite
    <3>6. upc[w] \in {"vote", "more"} => RoomFor(h.post, h.file, links, since', warm')
      BY <3>3, <3>4, <3>5, UpvotesAssumption DEF RoomFor
    <3> QED BY <3>1, <3>3, <3>4, <3>6 DEF ActorFits, DoneIn
  <2>5. \A w \in Workers : ActorOK(w)'
    BY <2>4 DEF ActorOK
  <2> QED BY <2>2, <2>3, <2>5 DEF SoundSoFar
<1> QED BY <1>2, <1>4 DEF UpvoteInv

LEMMA UpvoteInvStep == UpvoteInv /\ [UpvoteNext]_<<upvoteVars, faults>> => UpvoteInv'
<1> SUFFICES ASSUME UpvoteInv, [UpvoteNext]_<<upvoteVars, faults>> PROVE UpvoteInv'
  OBVIOUS
<1>1. /\ present \in BOOLEAN /\ dueItems \subseteq Found /\ warm \subseteq Writers
      /\ since \in [Found -> {"never", "now", "today", "old"}]
  BY DEF UpvoteInv, UpvoteWorldOK
<1>2. ASSUME NEW w \in Workers,
             \/ Search(w) \/ Queue(w) \/ WalkQueue(w) \/ Vote(w) \/ More(w) \/ UpvoteCrash(w)
             \/ \E asked \in BOOLEAN : UpvoteTurn(w, asked)
      PROVE  UpvoteInv'
  BY <1>2, SearchStep, QueueStep, WalkQueueStep, VoteStep, MoreStep, UpvoteCrashStep, UpvoteTurnStep
<1>3. ASSUME NEW p \in Found, SkipItem(p) \/ EditItem(p) PROVE UpvoteInv'
  BY <1>3, SkipItemStep, EditItemStep
<1>4. ASSUME NEW p \in Found, UpvoteDue(p) PROVE UpvoteInv'
  BY <1>1, <1>4, TimeStep DEF UpvoteDue
<1>5. ASSUME NEW p \in Found, CooldownEnds(AuthorOf[p]) PROVE UpvoteInv'
  <2>1. /\ \A q \in Found : AuthorOf[q] = AuthorOf[p] => since[q] \in {"never", "old"}
        /\ warm' = warm \ {AuthorOf[p]}
        /\ UNCHANGED <<upvotes, present, dueItems, since, upc, held, links, dropped, clashed>>
    BY <1>5 DEF CooldownEnds
  <2>2. \A q \in Found : since'[q] \in {"now", "today"} =>
          since[q] \in {"now", "today"} /\ (AuthorOf[q] \in warm => AuthorOf[q] \in warm')
    BY <2>1
  <2> QED BY <1>1, <2>1, <2>2, TimeStep
<1>6. CASE Presence
  BY <1>1, <1>6, TimeStep DEF Presence
<1>7. CASE TimeGoes
  <2>1. /\ UNCHANGED <<upvotes, present, dueItems, warm, upc, held, links, dropped, clashed>>
        /\ since' \in [Found -> {"never", "now", "today", "old"}]
        /\ \A p \in Found : since'[p] \in {"now", "today"} => since[p] \in {"now", "today"}
    BY <1>1, <1>7 DEF TimeGoes
  <2> QED BY <1>1, <2>1, TimeStep
<1>8. CASE UNCHANGED <<upvoteVars, faults>>
  BY <1>1, <1>8, TimeStep DEF upvoteVars
<1> QED BY <1>2, <1>3, <1>4, <1>5, <1>6, <1>7, <1>8 DEF UpvoteNext

LEMMA UpvoteInvAlways == UpvoteSpec => []UpvoteInv
<1>1. faults = 0 /\ UpvoteInit => UpvoteInv
  BY UpvoteInvInit
<1> QED BY <1>1, UpvoteInvStep, PTL DEF UpvoteSpec

(* Whatever is found, queued, edited and acted on, and whoever dies, every  *)
(* variable of the upvotes keeps its type, and what is queued was seen.     *)
THEOREM UpvoteTypeCorrect == UpvoteSpec => []UpvoteTypeOK
<1>1. UpvoteInv => UpvoteTypeOK
  BY UpvoteInvIsType
<1> QED BY <1>1, UpvoteInvAlways, PTL

(* Unless two have the file at once or one dies with an act: a post gets    *)
(* one link at most, and none when it was skipped first, the day's links    *)
(* and acts stay under their caps, and no author is acted on twice.         *)
THEOREM VotedJustOnce == UpvoteSpec => []VotedOnce
<1>1. ASSUME UpvoteInv PROVE VotedOnce
  <2> SUFFICES ASSUME ~clashed
               PROVE  /\ LinksOK
                      /\ Cardinality({p \in actedToday(upvotes, Kinds) : links[p] > 0}) <= LinkCap
                      /\ Cardinality(actedToday(upvotes, Kinds)) <= UpvoteCap
                      /\ \A p, q \in actedToday(upvotes, Kinds) : AuthorOf[p] = AuthorOf[q] => p = q
    BY DEF VotedOnce, LinksOK
  <2>1. SoundSoFar /\ LinksOK
    BY <1>1 DEF UpvoteInv, SoundSoFar
  <2>2. PICK f : Sound(f, links, dropped, since, warm) /\ DoneIn(upvotes) \subseteq DoneIn(f)
    <3>1. CASE NothingDone
      BY <2>1, <3>1 DEF SoundSoFar
    <3>2. CASE ~NothingDone
      <4>1. PICK w \in Workers : upc[w] # "idle" /\ held[w].acted
        BY <3>2 DEF NothingDone
      <4>2. upc[w] \in ActPlaces
        BY <1>1, <4>1 DEF UpvoteInv, HoldersOK, UpvotePlaces, ActPlaces, HoldFits
      <4> QED BY <2>1, <4>1, <4>2 DEF SoundSoFar, ActorOK, ActorFits
    <3> QED BY <3>1, <3>2
  <2>3. actedToday(upvotes, Kinds) \subseteq ActsOn(f, since)
    BY <2>2 DEF actedToday, DoneIn, ActsOn
  <2>4. {p \in actedToday(upvotes, Kinds) : links[p] > 0} \subseteq LinkActs(f, links, since)
    BY <2>3 DEF LinkActs
  <2>5. /\ Cardinality(actedToday(upvotes, Kinds)) \in Nat
        /\ Cardinality(ActsOn(f, since)) \in Nat
        /\ Cardinality(actedToday(upvotes, Kinds)) <= Cardinality(ActsOn(f, since))
    BY <2>3, CountsFinite, FewerAtMost
  <2>6. /\ Cardinality({p \in actedToday(upvotes, Kinds) : links[p] > 0}) \in Nat
        /\ Cardinality(LinkActs(f, links, since)) \in Nat
        /\ Cardinality({p \in actedToday(upvotes, Kinds) : links[p] > 0})
             <= Cardinality(LinkActs(f, links, since))
    BY <2>4, CountsFinite, FewerAtMost
  <2>7. Cardinality(ActsOn(f, since)) <= UpvoteCap /\ Cardinality(LinkActs(f, links, since)) <= LinkCap
    BY <2>2 DEF Sound
  <2>8. \A p, q \in actedToday(upvotes, Kinds) : AuthorOf[p] = AuthorOf[q] => p = q
    BY <2>2, <2>3 DEF Sound, OnceEach
  <2>9. /\ Cardinality(actedToday(upvotes, Kinds)) <= UpvoteCap
        /\ Cardinality({p \in actedToday(upvotes, Kinds) : links[p] > 0}) <= LinkCap
    BY <2>5, <2>6, <2>7, UpvotesAssumption
  <2> QED BY <2>1, <2>8, <2>9
<1> QED BY <1>1, UpvoteInvAlways, PTL
==============================================================================

----------------------- MODULE ResourceSchedulerProofs -----------------------
(***************************************************************************)
(* Proofs about ResourceScheduler for any set of nodes and any number of   *)
(* units.  The list is looked at as the set of its entries, in which every *)
(* node occurs at most once, and its last entry: the positions, which the  *)
(* code keeps changing, matter only to the lemmas about insertion and      *)
(* removal.                                                                *)
(***************************************************************************)
EXTENDS ResourceScheduler, SequenceTheorems, TLAPS

Distinct(s) == \A i, j \in DOMAIN s : s[i].rpi = s[j].rpi => i = j
Nodes(s) == {e.rpi : e \in ToSet(s)}

(* An insertion at position p + 1, element by element.                     *)
LEMMA InsertAtElements ==
  ASSUME NEW S, NEW s \in Seq(S), NEW e \in S, NEW p \in 0..Len(s)
  PROVE  /\ InsertAt(s, p + 1, e) \in Seq(S)
         /\ Len(InsertAt(s, p + 1, e)) = Len(s) + 1
         /\ \A i \in 1..(Len(s) + 1) :
               InsertAt(s, p + 1, e)[i] = IF i <= p THEN s[i]
                                          ELSE IF i = p + 1 THEN e ELSE s[i - 1]
<1> DEFINE a == SubSeq(s, 1, p)
           b == SubSeq(s, p + 1, Len(s))
<1>0. Len(s) \in Nat /\ \A i \in 1..Len(s) : s[i] \in S
  BY LenProperties, ElementOfSeq
<1>1. a \in Seq(S) /\ Len(a) = p /\ \A i \in 1..p : a[i] = s[i]
  BY <1>0, SubSeqProperties
<1>2. b \in Seq(S) /\ Len(b) = Len(s) - p /\ \A i \in 1..(Len(s) - p) : b[i] = s[i + p]
  BY <1>0, SubSeqProperties
<1>3. <<e>> \in Seq(S) /\ Len(<<e>>) = 1 /\ <<e>>[1] = e
  OBVIOUS
<1> HIDE DEF a, b
<1> DEFINE c == a \o <<e>>
<1>4. /\ c \in Seq(S)
      /\ Len(c) = p + 1
      /\ \A i \in 1..(p + 1) : c[i] = IF i <= p THEN s[i] ELSE e
  <2>1. /\ c \in Seq(S)
        /\ Len(c) = Len(a) + Len(<<e>>)
        /\ \A i \in 1..(Len(a) + Len(<<e>>)) :
              c[i] = IF i <= Len(a) THEN a[i] ELSE <<e>>[i - Len(a)]
    BY <1>1, <1>3, ConcatProperties
  <2> HIDE DEF c
  <2> QED BY <2>1, <1>1, <1>3, <1>0
<1> HIDE DEF c
<1> DEFINE d == c \o b
<1>5. /\ d \in Seq(S)
      /\ Len(d) = Len(s) + 1
      /\ \A i \in 1..(Len(s) + 1) : d[i] = IF i <= p + 1 THEN c[i] ELSE b[i - (p + 1)]
  <2>1. /\ d \in Seq(S)
        /\ Len(d) = Len(c) + Len(b)
        /\ \A i \in 1..(Len(c) + Len(b)) : d[i] = IF i <= Len(c) THEN c[i] ELSE b[i - Len(c)]
    BY <1>2, <1>4, ConcatProperties
  <2> HIDE DEF d
  <2> QED BY <2>1, <1>2, <1>4, <1>0
<1>6. InsertAt(s, p + 1, e) = d
  <2>1. (p + 1) - 1 = p
    OBVIOUS
  <2> QED BY <2>1, Zenon DEF InsertAt, a, b, c
<1> HIDE DEF d
<1>7. ASSUME NEW i \in 1..(Len(s) + 1)
      PROVE  d[i] = IF i <= p THEN s[i] ELSE IF i = p + 1 THEN e ELSE s[i - 1]
  <2>1. CASE i <= p + 1
    BY <2>1, <1>0, <1>4, <1>5
  <2>2. CASE i > p + 1
    <3>1. d[i] = b[i - (p + 1)]
      BY <2>2, <1>0, <1>5
    <3>2. i - (p + 1) \in 1..(Len(s) - p) /\ (i - (p + 1)) + p = i - 1
      BY <2>2, <1>0
    <3>3. b[i - (p + 1)] = s[(i - (p + 1)) + p]
      BY <3>2, <1>2
    <3> QED BY <2>2, <3>1, <3>2, <3>3
  <2> QED BY <2>1, <2>2, <1>0
<1> QED
  BY <1>5, <1>6, <1>7

(* The removal of position k, element by element.                          *)
LEMMA RemoveAtElements ==
  ASSUME NEW S, NEW s \in Seq(S), NEW k \in 1..Len(s)
  PROVE  /\ RemoveAt(s, k) \in Seq(S)
         /\ Len(RemoveAt(s, k)) = Len(s) - 1
         /\ \A i \in 1..(Len(s) - 1) :
               RemoveAt(s, k)[i] = IF i < k THEN s[i] ELSE s[i + 1]
<1> DEFINE a == SubSeq(s, 1, k - 1)
           b == SubSeq(s, k + 1, Len(s))
<1>0. Len(s) \in Nat /\ \A i \in 1..Len(s) : s[i] \in S
  BY LenProperties, ElementOfSeq
<1>1. a \in Seq(S) /\ Len(a) = k - 1 /\ \A i \in 1..(k - 1) : a[i] = s[i]
  BY <1>0, SubSeqProperties
<1>2. b \in Seq(S) /\ Len(b) = Len(s) - k /\ \A i \in 1..(Len(s) - k) : b[i] = s[i + k]
  BY <1>0, SubSeqProperties
<1> HIDE DEF a, b
<1> DEFINE d == a \o b
<1>3. /\ d \in Seq(S)
      /\ Len(d) = Len(s) - 1
      /\ \A i \in 1..(Len(s) - 1) : d[i] = IF i <= k - 1 THEN a[i] ELSE b[i - (k - 1)]
  <2>1. /\ d \in Seq(S)
        /\ Len(d) = Len(a) + Len(b)
        /\ \A i \in 1..(Len(a) + Len(b)) : d[i] = IF i <= Len(a) THEN a[i] ELSE b[i - Len(a)]
    BY <1>1, <1>2, ConcatProperties
  <2> HIDE DEF d
  <2> QED BY <2>1, <1>1, <1>2, <1>0
<1>4. RemoveAt(s, k) = d
  BY Zenon DEF RemoveAt, a, b
<1> HIDE DEF d
<1>5. ASSUME NEW i \in 1..(Len(s) - 1)
      PROVE  d[i] = IF i < k THEN s[i] ELSE s[i + 1]
  <2>1. CASE i < k
    BY <2>1, <1>0, <1>1, <1>3
  <2>2. CASE i >= k
    <3>0. ~(i <= k - 1)
      BY <2>2, <1>0
    <3>1. d[i] = b[i - (k - 1)]
      BY <3>0, <1>3
    <3>2. i - (k - 1) \in 1..(Len(s) - k) /\ (i - (k - 1)) + k = i + 1
      BY <2>2, <1>0
    <3>3. b[i - (k - 1)] = s[(i - (k - 1)) + k]
      BY <3>2, <1>2
    <3> QED BY <2>2, <3>1, <3>2, <3>3
  <2> QED BY <2>1, <2>2, <1>0
<1> QED
  BY <1>3, <1>4, <1>5

(* Inserting the entry of a node that has none.                            *)
LEMMA InsertEntry ==
  ASSUME NEW s \in Seq(Entry), Distinct(s), NEW e \in Entry, e.rpi \notin Nodes(s),
         NEW p \in 0..Len(s)
  PROVE  /\ InsertAt(s, p + 1, e) \in Seq(Entry)
         /\ InsertAt(s, p + 1, e) # <<>>
         /\ Distinct(InsertAt(s, p + 1, e))
         /\ ToSet(InsertAt(s, p + 1, e)) = ToSet(s) \cup {e}
         /\ InsertAt(s, p + 1, e)[Len(InsertAt(s, p + 1, e))] = IF p = Len(s) THEN e ELSE s[Len(s)]
<1> DEFINE u == InsertAt(s, p + 1, e)
<1>0. /\ Len(s) \in Nat /\ DOMAIN s = 1..Len(s)
      /\ \A i \in 1..Len(s) : s[i] \in ToSet(s) /\ s[i].rpi # e.rpi
  BY LenProperties, ElementOfSeq DEF ToSet, Nodes
<1>1. /\ u \in Seq(Entry)
      /\ Len(u) = Len(s) + 1
      /\ \A i \in 1..(Len(s) + 1) : u[i] = IF i <= p THEN s[i]
                                           ELSE IF i = p + 1 THEN e ELSE s[i - 1]
  BY InsertAtElements
<1> HIDE DEF u
<1>2. DOMAIN u = 1..(Len(s) + 1)
  BY <1>1, LenProperties
<1>3. Distinct(u)
  <2> DEFINE from(i) == IF i <= p THEN i ELSE i - 1
  <2>1. ASSUME NEW i \in DOMAIN u, i # p + 1
        PROVE  from(i) \in DOMAIN s /\ u[i] = s[from(i)] /\ u[i].rpi # e.rpi
    BY <2>1, <1>0, <1>1, <1>2
  <2>2. u[p + 1] = e
    BY <1>0, <1>1
  <2>3. ASSUME NEW i \in DOMAIN u, NEW j \in DOMAIN u, u[i].rpi = u[j].rpi, i # p + 1, j # p + 1
        PROVE  i = j
    <3>1. from(i) = from(j)
      BY <2>1, <2>3 DEF Distinct
    <3> QED BY <3>1, <2>3, <1>0, <1>2
  <2> QED BY <2>1, <2>2, <2>3, Zenon DEF Distinct
<1>4. ToSet(u) = ToSet(s) \cup {e}
  <2>1. ASSUME NEW i \in DOMAIN u PROVE u[i] \in ToSet(s) \cup {e}
    BY <1>0, <1>1, <1>2
  <2>2. ASSUME NEW i \in DOMAIN s PROVE s[i] \in ToSet(u)
    <3>1. CASE i <= p
      <4>1. i \in DOMAIN u /\ u[i] = s[i]
        BY <3>1, <1>0, <1>1, <1>2
      <4> QED BY <4>1 DEF ToSet
    <3>2. CASE i > p
      <4>1. i + 1 \in DOMAIN u /\ u[i + 1] = s[i]
        BY <3>2, <1>0, <1>1, <1>2
      <4> QED BY <4>1 DEF ToSet
    <3> QED BY <3>1, <3>2, <1>0
  <2>3. e \in ToSet(u)
    <3>1. p + 1 \in DOMAIN u /\ u[p + 1] = e
      BY <1>0, <1>1, <1>2
    <3> QED BY <3>1 DEF ToSet
  <2> QED BY <2>1, <2>2, <2>3 DEF ToSet
<1>5. u # <<>> /\ u[Len(u)] = IF p = Len(s) THEN e ELSE s[Len(s)]
  <2>1. Len(s) + 1 \in 1..(Len(s) + 1) /\ (Len(s) + 1) - 1 = Len(s)
    BY <1>0
  <2>2. u[Len(s) + 1] = IF Len(s) + 1 <= p THEN s[Len(s) + 1]
                        ELSE IF Len(s) + 1 = p + 1 THEN e ELSE s[(Len(s) + 1) - 1]
    BY <2>1, <1>1
  <2>3. /\ ~(Len(s) + 1 <= p)
        /\ Len(s) + 1 = p + 1 => p = Len(s)
        /\ p = Len(s) => Len(s) + 1 = p + 1
    <3>1. Len(s) \in Nat
      BY <1>0
    <3> QED BY <3>1
  <2>4. u # <<>>
    BY <1>0, <1>1, EmptySeq
  <2> QED BY <2>1, <2>2, <2>3, <2>4, <1>1
<1> QED
  BY <1>1, <1>3, <1>4, <1>5 DEF u

(* Removing the entry at position k.                                       *)
LEMMA RemoveEntry ==
  ASSUME NEW s \in Seq(Entry), Distinct(s), NEW k \in 1..Len(s)
  PROVE  /\ RemoveAt(s, k) \in Seq(Entry)
         /\ Len(RemoveAt(s, k)) = Len(s) - 1
         /\ Distinct(RemoveAt(s, k))
         /\ ToSet(RemoveAt(s, k)) = ToSet(s) \ {s[k]}
         /\ s[k].rpi \notin Nodes(RemoveAt(s, k))
         /\ Len(s) > 1 => RemoveAt(s, k)[Len(RemoveAt(s, k))] = IF k = Len(s) THEN s[k - 1] ELSE s[Len(s)]
<1> DEFINE u == RemoveAt(s, k)
<1>0. Len(s) \in Nat /\ DOMAIN s = 1..Len(s) /\ \A i \in 1..Len(s) : s[i] \in Entry
  BY LenProperties, ElementOfSeq
<1>1. /\ u \in Seq(Entry)
      /\ Len(u) = Len(s) - 1
      /\ \A i \in 1..(Len(s) - 1) : u[i] = IF i < k THEN s[i] ELSE s[i + 1]
  BY RemoveAtElements
<1> HIDE DEF u
<1>2. DOMAIN u = 1..(Len(s) - 1)
  BY <1>1, LenProperties
<1>3. Distinct(u)
  <2> DEFINE from(i) == IF i < k THEN i ELSE i + 1
  <2>1. ASSUME NEW i \in DOMAIN u
        PROVE  from(i) \in DOMAIN s /\ u[i] = s[from(i)]
    BY <1>0, <1>1, <1>2
  <2>2. ASSUME NEW i \in DOMAIN u, NEW j \in DOMAIN u, u[i].rpi = u[j].rpi
        PROVE  i = j
    <3>1. from(i) = from(j)
      BY <2>1, <2>2 DEF Distinct
    <3> QED BY <3>1, <1>0, <1>2
  <2> QED BY <2>2 DEF Distinct
<1>4. \A i \in DOMAIN u : u[i] \in ToSet(s) /\ u[i].rpi # s[k].rpi
  BY <1>0, <1>1, <1>2, SMTT(30) DEF Distinct, ToSet
<1>5. ASSUME NEW i \in DOMAIN s, i # k PROVE s[i] \in ToSet(u)
  <2>1. CASE i < k
    <3>1. i \in DOMAIN u /\ u[i] = s[i]
      BY <2>1, <1>0, <1>1, <1>2
    <3> QED BY <3>1 DEF ToSet
  <2>2. CASE i > k
    <3>1. i - 1 \in DOMAIN u /\ u[i - 1] = s[i]
      BY <2>2, <1>0, <1>1, <1>2
    <3> QED BY <3>1 DEF ToSet
  <2> QED BY <2>1, <2>2, <1>5, <1>0
<1>6. ToSet(u) = ToSet(s) \ {s[k]} /\ s[k].rpi \notin Nodes(u)
  BY <1>4, <1>5 DEF ToSet, Nodes
<1>7. Len(s) > 1 => u[Len(u)] = IF k = Len(s) THEN s[k - 1] ELSE s[Len(s)]
  <2> SUFFICES ASSUME Len(s) > 1
               PROVE  u[Len(u)] = IF k = Len(s) THEN s[k - 1] ELSE s[Len(s)]
    OBVIOUS
  <2>1. Len(s) - 1 \in 1..(Len(s) - 1) /\ (Len(s) - 1) + 1 = Len(s)
    BY <1>0
  <2>2. u[Len(s) - 1] = IF Len(s) - 1 < k THEN s[Len(s) - 1] ELSE s[(Len(s) - 1) + 1]
    BY <2>1, <1>1
  <2>3. /\ k = Len(s) => Len(s) - 1 < k
        /\ k # Len(s) => ~(Len(s) - 1 < k)
    <3>1. Len(s) \in Nat
      BY <1>0
    <3> QED BY <3>1
  <2> QED BY <2>1, <2>2, <2>3, <1>1
<1> QED
  BY <1>1, <1>3, <1>6, <1>7 DEF u
-----------------------------------------------------------------------------
(***************************************************************************)
(* The inductive invariant strengthens the four invariants by one: the     *)
(* accounts need that no node has two entries, and NoLostWakeup needs that *)
(* there is one consumer and that no node joins once it has called.        *)
(***************************************************************************)
NoCallBeforeJoins == \A c \in Consumers : caller[c] # "out" => joined = Rpi

IInv == TypeOK /\ ListWellFormed /\ UnitsConserved /\ NoLostWakeup /\ NoCallBeforeJoins

TailOf(s) == IF s = <<>> THEN NoRpi ELSE s[Len(s)].rpi

(* UnitsConserved, said of a list s, consumed units h and joined nodes J.  *)
Account(s, h, J) ==
    /\ \A e \in ToSet(s) : e.count + h[e.rpi] = Units
    /\ \A r \in J \ Nodes(s) : h[r] = Units
    /\ \A r \in Rpi \ J : r \notin Nodes(s) /\ h[r] = 0

LEMMA ListInvariants ==
  /\ ListWellFormed <=> Distinct(list) /\ tail = TailOf(list)
  /\ UnitsConserved <=> Account(list, held, joined)
  /\ ListWellFormed' <=> Distinct(list') /\ tail' = TailOf(list')
  /\ UnitsConserved' <=> Account(list', held', joined')
<1>1. \A r : InList(r) <=> r \in Nodes(list)
  BY DEF InList, Nodes, ToSet
<1>2. \A r : (InList(r))' <=> r \in Nodes(list')
  BY DEF InList, Nodes, ToSet
<1>3. UnitsConserved <=> Account(list, held, joined)
  BY <1>1 DEF UnitsConserved, Account, ToSet
<1>4. UnitsConserved' <=> Account(list', held', joined')
  BY <1>2 DEF UnitsConserved, Account, ToSet
<1>5. ListWellFormed <=> Distinct(list) /\ tail = TailOf(list)
  BY DEF ListWellFormed, Distinct, TailOf
<1>6. ListWellFormed' <=> Distinct(list') /\ tail' = TailOf(list')
  BY DEF ListWellFormed, Distinct, TailOf
<1> QED
  BY <1>3, <1>4, <1>5, <1>6

(* What the invariant says of an entry: its node joined and has units out. *)
LEMMA EntryFacts ==
  ASSUME IInv, NEW e \in ToSet(list)
  PROVE  /\ e \in Entry
         /\ e.rpi \in joined
         /\ held[e.rpi] = Units - e.count
         /\ \A f \in ToSet(list) : f.rpi = e.rpi => f = e
<1>1. list \in Seq(Entry) /\ held \in [Rpi -> 0..Units] /\ joined \subseteq Rpi
  BY DEF IInv, TypeOK
<1>2. Account(list, held, joined) /\ Distinct(list)
  BY ListInvariants DEF IInv
<1>3. e \in Entry
  BY <1>1, ElementOfSeq, LenProperties DEF ToSet
<1>4. e.rpi \in joined
  BY <1>2, <1>3 DEF Account, Nodes, Entry
<1>5. held[e.rpi] = Units - e.count
  BY <1>1, <1>2, <1>3, UnitsAssumption DEF Account, Entry
<1>6. \A f \in ToSet(list) : f.rpi = e.rpi => f = e
  BY <1>2 DEF Distinct, ToSet
<1> QED
  BY <1>3, <1>4, <1>5, <1>6

LEMMA InitInv == Init => IInv
<1> SUFFICES ASSUME Init PROVE IInv
  OBVIOUS
<1>1. TypeOK
  <2>1. list \in Seq(Entry)
    BY EmptySeq DEF Init
  <2> QED BY <2>1, UnitsAssumption DEF Init, TypeOK
<1>2. ListWellFormed /\ UnitsConserved
  BY DEF Init, ListWellFormed, UnitsConserved, InList
<1>3. NoLostWakeup
  BY DEF Init, NoLostWakeup, Waiting
<1>4. NoCallBeforeJoins
  BY DEF Init, NoCallBeforeJoins
<1> QED
  BY <1>1, <1>2, <1>3, <1>4 DEF IInv

LEMMA AddEntryHeadInv ==
  ASSUME IInv, NEW r \in Rpi, AddEntryHead(r)
  PROVE  IInv'
<1> DEFINE e == [rpi |-> r, count |-> Units]
<1>1. /\ list \in Seq(Entry) /\ held \in [Rpi -> 0..Units] /\ joined \subseteq Rpi
      /\ Account(list, held, joined) /\ Distinct(list) /\ tail = TailOf(list)
      /\ TypeOK /\ NoCallBeforeJoins
  BY ListInvariants DEF IInv, TypeOK
<1>2. /\ r \notin joined /\ joined' = joined \cup {r} /\ list' = <<e>> \o list
      /\ tail' = IF list = <<>> THEN r ELSE tail
      /\ UNCHANGED <<held, caller>>
  BY DEF AddEntryHead
<1>3. e \in Entry /\ e.rpi = r /\ r \notin Nodes(list) /\ held[r] = 0
  BY <1>1, <1>2, UnitsAssumption DEF Entry, Account
<1> HIDE DEF e
<1>4. list' = InsertAt(list, 0 + 1, e)
  <2>1. SubSeq(list, 1, 0) = <<>> /\ SubSeq(list, 1, Len(list)) = list
    BY <1>1, SubSeqEmpty, SubSeqFull
  <2>2. <<>> \o <<e>> = <<e>>
    BY <1>3, ConcatEmptySeq
  <2>3. InsertAt(list, 1, e) = (SubSeq(list, 1, 0) \o <<e>>) \o SubSeq(list, 1, Len(list))
    BY DEF InsertAt
  <2> QED BY <1>2, <2>1, <2>2, <2>3
<1>5. /\ list' \in Seq(Entry) /\ list' # <<>> /\ Distinct(list')
      /\ ToSet(list') = ToSet(list) \cup {e}
      /\ list'[Len(list')] = IF 0 = Len(list) THEN e ELSE list[Len(list)]
  <2>1. 0 \in 0..Len(list)
    BY <1>1, LenProperties
  <2>2. list \in Seq(Entry) /\ Distinct(list) /\ e \in Entry /\ e.rpi \notin Nodes(list)
    BY <1>1, <1>3
  <2> QED BY <1>4, <2>1, <2>2, InsertEntry
<1>6. TypeOK'
  BY <1>1, <1>2, <1>5 DEF TypeOK
<1>7. tail' = TailOf(list')
  BY <1>1, <1>2, <1>3, <1>5, EmptySeq DEF TailOf
<1>8. Account(list', held', joined')
  BY <1>1, <1>2, <1>3, <1>5, UnitsAssumption DEF Account, Nodes, Entry, e
<1>9. NoLostWakeup' /\ NoCallBeforeJoins'
  <2>1. \A c \in Consumers : caller[c] = "out"
    BY <1>1, <1>2 DEF NoCallBeforeJoins
  <2> QED BY <2>1, <1>2 DEF NoLostWakeup, NoCallBeforeJoins, Waiting
<1> QED
  BY <1>5, <1>6, <1>7, <1>8, <1>9, ListInvariants DEF IInv

LEMMA TailRemovesHead ==
  ASSUME NEW s \in Seq(Entry), s # <<>>
  PROVE  Tail(s) = RemoveAt(s, 1)
<1>1. Tail(s) = SubSeq(s, 2, Len(s)) /\ Tail(s) \in Seq(Entry)
  BY TailIsSubSeq, HeadTailProperties
<1>2. SubSeq(s, 1, 0) = <<>>
  BY SubSeqEmpty
<1>3. RemoveAt(s, 1) = SubSeq(s, 1, 0) \o SubSeq(s, 2, Len(s))
  BY DEF RemoveAt
<1> QED
  BY <1>1, <1>2, <1>3, ConcatEmptySeq

LEMMA RecountedEntry ==
  ASSUME NEW e \in Entry, NEW n
  PROVE  [e EXCEPT !.count = n] = [rpi |-> e.rpi, count |-> n]
<1>1. PICK r \in Rpi, m \in 1..Units : e = [rpi |-> r, count |-> m]
  BY DEF Entry
<1>2. [[rpi |-> r, count |-> m] EXCEPT !.count = n] = [rpi |-> r, count |-> n]
  OBVIOUS
<1> QED
  BY <1>1, <1>2

LEMMA ConsumeResourceInv ==
  ASSUME IInv, NEW c \in Consumers, ConsumeResource(c)
  PROVE  IInv'
<1> DEFINE a == Head(list)
           h == [a EXCEPT !.count = @ - 1]
           rest == Tail(list)
<1>1. /\ list \in Seq(Entry) /\ held \in [Rpi -> 0..Units] /\ joined \subseteq Rpi
      /\ Account(list, held, joined) /\ Distinct(list) /\ tail = TailOf(list)
      /\ TypeOK /\ NoCallBeforeJoins
  BY ListInvariants DEF IInv, TypeOK
<1>2. /\ caller[c] = "in" /\ list # <<>>
      /\ IF h.count = 0
         THEN /\ list' = rest
              /\ tail' = IF rest = <<>> THEN NoRpi ELSE tail
         ELSE \E p \in 0..Len(rest) :
                 /\ list' = InsertAt(rest, p + 1, h)
                 /\ tail' = IF p > 0 /\ p = Len(rest) THEN h.rpi ELSE tail
      /\ held' = [held EXCEPT ![h.rpi] = @ + 1]
      /\ caller' = [caller EXCEPT ![c] = "out"]
      /\ joined' = joined
  BY DEF ConsumeResource, Exhausted, TailAfterMove
<1>3. Len(list) \in Nat /\ Len(list) >= 1 /\ a = list[1] /\ a \in ToSet(list)
  <2>1. Len(list) \in Nat /\ Len(list) >= 1 /\ DOMAIN list = 1..Len(list)
    BY <1>1, <1>2, LenProperties, EmptySeq
  <2>2. a = list[1]
    BY <1>1, <1>2
  <2> QED BY <2>1, <2>2 DEF ToSet
<1>4. /\ a \in Entry /\ a.rpi \in joined /\ a.rpi \in Rpi /\ a.count \in 1..Units
      /\ held[a.rpi] = Units - a.count
  BY <1>3, EntryFacts DEF Entry
<1>5. /\ rest \in Seq(Entry) /\ Len(rest) = Len(list) - 1 /\ Distinct(rest)
      /\ ToSet(rest) = ToSet(list) \ {a} /\ a.rpi \notin Nodes(rest)
      /\ Len(list) > 1 => rest[Len(rest)] = IF 1 = Len(list) THEN list[1 - 1] ELSE list[Len(list)]
  <2>1. rest = RemoveAt(list, 1)
    BY <1>1, <1>2, TailRemovesHead
  <2>2. 1 \in 1..Len(list)
    BY <1>3
  <2>3. list \in Seq(Entry) /\ Distinct(list)
    BY <1>1
  <2> HIDE DEF rest
  <2> QED BY <2>1, <2>2, <2>3, <1>3, RemoveEntry
<1>6. h.rpi = a.rpi /\ h.count = a.count - 1 /\ (h.count # 0 => h \in Entry)
  <2>1. h = [rpi |-> a.rpi, count |-> a.count - 1]
    BY <1>4, RecountedEntry, Zenon
  <2> HIDE DEF h
  <2>2. h.rpi = a.rpi /\ h.count = a.count - 1
    BY <2>1
  <2>3. h.count # 0 => h.count \in 1..Units
    BY <1>4, <2>2, UnitsAssumption
  <2> QED BY <1>4, <2>1, <2>2, <2>3 DEF Entry
<1>7. /\ held' \in [Rpi -> 0..Units] /\ held'[a.rpi] = Units - a.count + 1
      /\ \A r \in Rpi : r # a.rpi => held'[r] = held[r]
  BY <1>1, <1>2, <1>4, <1>6, UnitsAssumption, SMTT(30)
<1>8. \A r : r \in Nodes(list) <=> r \in Nodes(rest) \/ r = a.rpi
  BY <1>3, <1>5 DEF Nodes
<1>9. \A e \in ToSet(rest) : e.rpi # a.rpi /\ e.rpi \in Rpi /\ e.count + held'[e.rpi] = Units
  <2> TAKE e \in ToSet(rest)
  <2>1. e \in ToSet(list) /\ e.rpi # a.rpi
    BY <1>5 DEF Nodes
  <2>2. e.rpi \in Rpi
    BY <2>1, EntryFacts DEF Entry
  <2> QED BY <1>1, <1>7, <2>1, <2>2 DEF Account
<1> HIDE DEF a, h, rest
<1>10. /\ list' \in Seq(Entry) /\ Distinct(list') /\ tail' = TailOf(list')
       /\ Account(list', held', joined')
  <2>1. CASE h.count = 0
    <3>1. list' = rest /\ tail' = IF rest = <<>> THEN NoRpi ELSE tail
      BY <1>2, <2>1
    <3>2. tail' = TailOf(rest)
      <4>1. CASE rest = <<>>
        BY <3>1, <4>1 DEF TailOf
      <4>2. CASE rest # <<>>
        <5>1. Len(list) > 1 /\ 1 # Len(list)
          BY <1>3, <1>5, <4>2, EmptySeq
        <5> QED BY <1>1, <1>2, <1>5, <3>1, <4>2, <5>1 DEF TailOf
      <4> QED BY <4>1, <4>2
    <3>3. held'[a.rpi] = Units
      BY <1>4, <1>6, <1>7, <2>1, UnitsAssumption
    <3>4. Account(rest, held', joined)
      BY <1>1, <1>4, <1>7, <1>8, <1>9, <3>3 DEF Account
    <3> QED BY <1>2, <1>5, <3>1, <3>2, <3>4
  <2>2. CASE h.count # 0
    <3>1. PICK p \in 0..Len(rest) :
             /\ list' = InsertAt(rest, p + 1, h)
             /\ tail' = IF p > 0 /\ p = Len(rest) THEN h.rpi ELSE tail
      BY <1>2, <2>2
    <3>2. /\ list' \in Seq(Entry) /\ list' # <<>> /\ Distinct(list')
          /\ ToSet(list') = ToSet(rest) \cup {h}
          /\ list'[Len(list')] = IF p = Len(rest) THEN h ELSE rest[Len(rest)]
      <4>1. rest \in Seq(Entry) /\ Distinct(rest) /\ h \in Entry /\ h.rpi \notin Nodes(rest)
        BY <1>5, <1>6, <2>2
      <4> QED BY <3>1, <4>1, InsertEntry
    <3>3. tail' = TailOf(list')
      <4>1. CASE p > 0 /\ p = Len(rest)
        BY <3>1, <3>2, <4>1 DEF TailOf
      <4>2. CASE p = 0 /\ p = Len(rest)
        <5>1. Len(list) = 1
          <6>1. Len(rest) = Len(list) - 1 /\ Len(rest) = 0
            BY <1>5, <4>2
          <6> QED BY <6>1, <1>3
        <5> QED BY <1>1, <1>2, <1>3, <1>6, <3>1, <3>2, <4>2, <5>1 DEF TailOf
      <4>3. CASE p # Len(rest)
        <5>1. Len(list) > 1 /\ 1 # Len(list)
          BY <1>3, <1>5, <4>3
        <5> QED BY <1>1, <1>2, <1>5, <3>1, <3>2, <4>3, <5>1 DEF TailOf
      <4> QED BY <4>1, <4>2, <4>3
    <3>4. h.count + held'[h.rpi] = Units
      BY <1>4, <1>6, <1>7, UnitsAssumption
    <3>5. Account(list', held', joined)
      <4>1. \A r : r \in Nodes(list') <=> r \in Nodes(list)
        <5>1. \A r : r \in Nodes(list') <=> r \in Nodes(rest) \/ r = h.rpi
          BY <3>2 DEF Nodes
        <5> QED BY <1>6, <1>8, <5>1
      <4> QED BY <1>1, <1>4, <1>7, <1>8, <1>9, <3>2, <3>4, <4>1 DEF Account
    <3> QED BY <1>2, <3>2, <3>3, <3>5
  <2> QED BY <2>1, <2>2
<1>11. TypeOK'
  <2>1. tail' \in Rpi \cup {NoRpi}
    BY <1>1, <1>2, <1>4, <1>6 DEF TypeOK
  <2> QED BY <1>1, <1>2, <1>7, <1>10, <2>1 DEF TypeOK
<1>12. NoLostWakeup' /\ NoCallBeforeJoins'
  BY <1>1, <1>2, OneConsumer DEF NoLostWakeup, NoCallBeforeJoins, Waiting, TypeOK
<1> QED
  BY <1>10, <1>11, <1>12, ListInvariants DEF IInv

(* A unit that comes back is one that was consumed.                        *)
LEMMA ProduceFacts ==
  ASSUME IInv, NEW r \in Rpi, held[r] > 0, held' = [held EXCEPT ![r] = @ - 1]
  PROVE  /\ r \in joined
         /\ held' \in [Rpi -> 0..Units] /\ held'[r] = held[r] - 1
         /\ \A q \in Rpi : q # r => held'[q] = held[q]
<1>1. held \in [Rpi -> 0..Units] /\ Account(list, held, joined)
  BY ListInvariants DEF IInv, TypeOK
<1>2. r \in joined
  BY <1>1 DEF Account
<1> QED
  BY <1>1, <1>2, UnitsAssumption

LEMMA ProduceIntoEmptyInv ==
  ASSUME IInv, NEW r \in Rpi, held[r] > 0, held' = [held EXCEPT ![r] = @ - 1],
         joined' = joined, ProduceIntoEmpty(r)
  PROVE  IInv'
<1> DEFINE e == [rpi |-> r, count |-> 1]
<1>1. /\ held \in [Rpi -> 0..Units] /\ joined \subseteq Rpi
      /\ Account(list, held, joined) /\ TypeOK /\ NoLostWakeup /\ NoCallBeforeJoins
  BY ListInvariants DEF IInv, TypeOK
<1>2. list = <<>> /\ list' = <<e>> /\ tail' = r /\ NotifyOne
  BY DEF ProduceIntoEmpty
<1>3. e \in Entry /\ e.rpi = r /\ e.count = 1
  BY UnitsAssumption DEF Entry
<1>4. /\ list' \in Seq(Entry) /\ Len(list') = 1 /\ DOMAIN list' = {1} /\ list'[1] = e
      /\ list' # <<>>
  BY <1>2, <1>3
<1> HIDE DEF e
<1>5. ToSet(list') = {e} /\ ToSet(list) = {} /\ Nodes(list) = {}
  BY <1>2, <1>4 DEF ToSet, Nodes
<1>6. Distinct(list') /\ tail' = TailOf(list')
  BY <1>2, <1>3, <1>4 DEF Distinct, TailOf
<1>7. Account(list', held', joined')
  <2>1. Nodes(list') = {r}
    BY <1>3, <1>5 DEF Nodes
  <2>2. held'[r] = Units - 1
    BY <1>1, <1>5, ProduceFacts, UnitsAssumption DEF Account
  <2> QED BY <1>1, <1>3, <1>5, <2>1, <2>2, ProduceFacts, UnitsAssumption DEF Account
<1>8. caller' \in [Consumers -> {"out", "in", "waiting"}] /\ Waiting' = {}
  <2>1. CASE Waiting = {}
    BY <1>1, <1>2, <2>1 DEF NotifyOne, TypeOK, Waiting
  <2>2. CASE Waiting # {}
    <3>1. PICK c \in Waiting : caller' = [caller EXCEPT ![c] = "in"]
      BY <1>2, <2>2 DEF NotifyOne
    <3> QED BY <1>1, <3>1, OneConsumer DEF TypeOK, Waiting
  <2> QED BY <2>1, <2>2
<1>9. NoCallBeforeJoins'
  <2>1. ASSUME NEW c \in Consumers, caller'[c] # "out" PROVE caller[c] # "out"
    BY <1>1, <1>2, <2>1 DEF NotifyOne, Waiting, TypeOK
  <2> QED BY <1>1, <2>1 DEF NoCallBeforeJoins
<1> QED
  BY <1>1, <1>2, <1>4, <1>6, <1>7, <1>8, <1>9, ProduceFacts, ListInvariants
     DEF IInv, TypeOK, NoLostWakeup

LEMMA AppendInserts ==
  ASSUME NEW s \in Seq(Entry), NEW e \in Entry
  PROVE  Append(s, e) = InsertAt(s, Len(s) + 1, e)
<1>1. Len(s) \in Nat
  BY LenProperties
<1>2. SubSeq(s, 1, Len(s)) = s /\ SubSeq(s, Len(s) + 1, Len(s)) = <<>>
  BY <1>1, SubSeqFull, SubSeqEmpty
<1>3. InsertAt(s, Len(s) + 1, e) = (SubSeq(s, 1, Len(s)) \o <<e>>) \o SubSeq(s, Len(s) + 1, Len(s))
  <2>1. (Len(s) + 1) - 1 = Len(s)
    BY <1>1
  <2> QED BY <2>1, Zenon DEF InsertAt
<1>4. s \o <<e>> = Append(s, e) /\ Append(s, e) \in Seq(Entry)
  BY AppendIsConcat, AppendProperties
<1> QED
  BY <1>2, <1>3, <1>4, ConcatEmptySeq

LEMMA ProduceNewEntryInv ==
  ASSUME IInv, NEW r \in Rpi, held[r] > 0, held' = [held EXCEPT ![r] = @ - 1],
         joined' = joined, ProduceNewEntry(r)
  PROVE  IInv'
<1> DEFINE e == [rpi |-> r, count |-> 1]
<1>1. /\ list \in Seq(Entry) /\ held \in [Rpi -> 0..Units] /\ joined \subseteq Rpi
      /\ Account(list, held, joined) /\ Distinct(list) /\ tail = TailOf(list)
      /\ TypeOK /\ NoLostWakeup /\ NoCallBeforeJoins
  BY ListInvariants DEF IInv, TypeOK
<1>2. e \in Entry /\ e.rpi = r /\ e.count = 1
  BY UnitsAssumption DEF Entry
<1>3. list # <<>> /\ r \notin Nodes(list) /\ tail' = r /\ caller' = caller
  BY DEF ProduceNewEntry, InList, Nodes, ToSet
<1>4. PICK i \in DOMAIN list : list[i].rpi = tail /\ list' = Append(SubSeq(list, 1, i), e)
  BY DEF ProduceNewEntry
<1> HIDE DEF e
<1>5. Len(list) \in Nat /\ Len(list) \in DOMAIN list
  BY <1>1, <1>3, LenProperties, EmptySeq
<1>6. i = Len(list)
  BY <1>1, <1>3, <1>4, <1>5 DEF TailOf, Distinct
<1>7. list' = InsertAt(list, Len(list) + 1, e)
  <2>1. SubSeq(list, 1, Len(list)) = list
    BY <1>1, SubSeqFull
  <2> QED BY <1>1, <1>2, <1>4, <1>6, <2>1, AppendInserts
<1>8. /\ list' \in Seq(Entry) /\ list' # <<>> /\ Distinct(list')
      /\ ToSet(list') = ToSet(list) \cup {e}
      /\ list'[Len(list')] = e
  <2>1. list \in Seq(Entry) /\ Distinct(list) /\ e \in Entry /\ e.rpi \notin Nodes(list)
    BY <1>1, <1>2, <1>3
  <2>2. Len(list) \in 0..Len(list)
    BY <1>5
  <2> QED BY <1>7, <2>1, <2>2, InsertEntry
<1>9. tail' = TailOf(list')
  BY <1>2, <1>3, <1>8 DEF TailOf
<1>10. Account(list', held', joined')
  <2>1. \A q : q \in Nodes(list') <=> q \in Nodes(list) \/ q = r
    BY <1>2, <1>8 DEF Nodes
  <2>2. held'[r] = Units - 1
    BY <1>1, <1>3, ProduceFacts, UnitsAssumption DEF Account
  <2>3. \A f \in ToSet(list) : f.count + held'[f.rpi] = Units
    <3> TAKE f \in ToSet(list)
    <3>1. f.rpi \in Rpi /\ f.rpi # r
      BY <1>1, <1>3, EntryFacts DEF Nodes
    <3> QED BY <1>1, <3>1, ProduceFacts DEF Account
  <2>4. e.count + held'[e.rpi] = Units
    BY <1>2, <2>2, UnitsAssumption
  <2> QED BY <1>1, <1>8, <2>1, <2>3, <2>4, ProduceFacts DEF Account
<1>11. NoLostWakeup' /\ NoCallBeforeJoins'
  BY <1>1, <1>3 DEF NoLostWakeup, NoCallBeforeJoins, Waiting
<1> QED
  BY <1>1, <1>3, <1>8, <1>9, <1>10, <1>11, ProduceFacts, ListInvariants DEF IInv, TypeOK

(* Giving an entry a new count where it stands.                            *)
LEMMA RecountInPlace ==
  ASSUME NEW s \in Seq(Entry), Distinct(s), NEW k \in 1..Len(s), NEW e \in Entry,
         e.rpi = s[k].rpi
  PROVE  /\ [s EXCEPT ![k] = e] \in Seq(Entry)
         /\ Distinct([s EXCEPT ![k] = e])
         /\ ToSet([s EXCEPT ![k] = e]) = (ToSet(s) \ {s[k]}) \cup {e}
         /\ TailOf([s EXCEPT ![k] = e]) = TailOf(s)
<1> DEFINE u == [s EXCEPT ![k] = e]
<1>0. Len(s) \in Nat /\ DOMAIN s = 1..Len(s)
  BY LenProperties
<1>1. /\ u \in Seq(Entry) /\ Len(u) = Len(s) /\ DOMAIN u = 1..Len(s)
      /\ \A i \in 1..Len(s) : u[i] = IF i = k THEN e ELSE s[i]
  BY <1>0, ExceptSeq, LenProperties
<1> HIDE DEF u
<1>2. \A i \in 1..Len(s) : u[i].rpi = s[i].rpi
  BY <1>1
<1>3. Distinct(u)
  BY <1>0, <1>1, <1>2 DEF Distinct
<1>4. ToSet(u) = (ToSet(s) \ {s[k]}) \cup {e}
  <2>1. \A i \in 1..Len(s) : i # k => s[i] # s[k]
    BY <1>0 DEF Distinct
  <2> QED BY <1>0, <1>1, <2>1 DEF ToSet
<1>5. TailOf(u) = TailOf(s)
  <2>1. s # <<>> /\ u # <<>>
    BY <1>0, <1>1, EmptySeq
  <2>2. Len(s) \in 1..Len(s)
    BY <1>0
  <2> QED BY <1>1, <1>2, <2>1, <2>2 DEF TailOf
<1> QED
  BY <1>1, <1>3, <1>4, <1>5 DEF u

LEMMA ProduceExistingEntryInv ==
  ASSUME IInv, NEW r \in Rpi, held[r] > 0, held' = [held EXCEPT ![r] = @ - 1],
         joined' = joined, ProduceExistingEntry(r)
  PROVE  IInv'
<1>1. /\ list \in Seq(Entry) /\ held \in [Rpi -> 0..Units] /\ joined \subseteq Rpi
      /\ Account(list, held, joined) /\ Distinct(list) /\ tail = TailOf(list)
      /\ TypeOK /\ NoLostWakeup /\ NoCallBeforeJoins
  BY ListInvariants DEF IInv, TypeOK
<1>2. PICK i \in DOMAIN list :
         /\ list[i].rpi = r
         /\ LET target == [list[i] EXCEPT !.count = @ + 1]
                rest == RemoveAt(list, i)
            IN IF i = 1 \/ list[i - 1].count >= target.count
               THEN list' = [list EXCEPT ![i] = target] /\ tail' = tail
               ELSE /\ tail' = IF tail = r THEN list[i - 1].rpi ELSE tail
                    /\ \E p \in 0..Len(rest) :
                          /\ SkipsAbove(rest, Head(rest).count, p)
                          /\ list' = InsertAt(rest, p + 1, target)
  BY DEF ProduceExistingEntry
<1> DEFINE e == list[i]
           target == [e EXCEPT !.count = @ + 1]
           rest == RemoveAt(list, i)
<1>3. Len(list) \in Nat /\ i \in 1..Len(list) /\ DOMAIN list = 1..Len(list) /\ e \in ToSet(list)
  BY <1>1, LenProperties DEF ToSet
<1>4. e \in Entry /\ e.rpi = r /\ e.count \in 1..Units /\ held[r] = Units - e.count
  BY <1>2, <1>3, EntryFacts DEF Entry
<1>5. target \in Entry /\ target.rpi = r /\ target.count = e.count + 1
  <2>1. target = [rpi |-> e.rpi, count |-> e.count + 1]
    BY <1>4, RecountedEntry, Zenon
  <2> HIDE DEF target
  <2>2. e.count + 1 \in 1..Units
    BY <1>4, UnitsAssumption
  <2> QED BY <1>4, <2>1, <2>2 DEF Entry
<1>6. /\ \/ /\ list' = [list EXCEPT ![i] = target]
            /\ tail' = tail
         \/ /\ i # 1
            /\ tail' = IF tail = r THEN list[i - 1].rpi ELSE tail
            /\ \E p \in 0..Len(rest) : /\ SkipsAbove(rest, Head(rest).count, p)
                                       /\ list' = InsertAt(rest, p + 1, target)
      /\ caller' = caller
  BY <1>2 DEF ProduceExistingEntry
<1>7. /\ rest \in Seq(Entry) /\ Len(rest) = Len(list) - 1 /\ Distinct(rest)
      /\ ToSet(rest) = ToSet(list) \ {e} /\ r \notin Nodes(rest)
      /\ Len(list) > 1 => rest[Len(rest)] = IF i = Len(list) THEN list[i - 1] ELSE list[Len(list)]
  BY <1>1, <1>3, <1>4, RemoveEntry
<1> HIDE DEF e, target, rest
<1>8. /\ list' \in Seq(Entry) /\ Distinct(list') /\ tail' = TailOf(list')
      /\ ToSet(list') = (ToSet(list) \ {e}) \cup {target}
  <2>1. CASE list' = [list EXCEPT ![i] = target] /\ tail' = tail
    <3>1. target.rpi = list[i].rpi
      BY <1>4, <1>5 DEF e
    <3>2. ToSet(list') = (ToSet(list) \ {list[i]}) \cup {target}
      <4>1. list \in Seq(Entry) /\ Distinct(list) /\ i \in 1..Len(list) /\ target \in Entry
        BY <1>1, <1>3, <1>5
      <4> QED BY <2>1, <3>1, <4>1, RecountInPlace, Zenon
    <3> QED BY <2>1, <3>1, <3>2, <1>1, <1>3, <1>5, RecountInPlace DEF e
  <2>2. CASE /\ i # 1
             /\ tail' = IF tail = r THEN list[i - 1].rpi ELSE tail
             /\ \E p \in 0..Len(rest) : /\ SkipsAbove(rest, Head(rest).count, p)
                                        /\ list' = InsertAt(rest, p + 1, target)
    <3>1. PICK p \in 0..Len(rest) : /\ SkipsAbove(rest, Head(rest).count, p)
                                    /\ list' = InsertAt(rest, p + 1, target)
      BY <2>2
    <3>2. /\ list' \in Seq(Entry) /\ list' # <<>> /\ Distinct(list')
          /\ ToSet(list') = ToSet(rest) \cup {target}
          /\ list'[Len(list')] = IF p = Len(rest) THEN target ELSE rest[Len(rest)]
      <4>1. rest \in Seq(Entry) /\ Distinct(rest) /\ target \in Entry /\ target.rpi \notin Nodes(rest)
        BY <1>5, <1>7
      <4> QED BY <3>1, <4>1, InsertEntry
    <3>3. Len(list) > 1 /\ Len(rest) >= 1
      <4>1. Len(rest) = Len(list) - 1
        BY <1>7
      <4> QED BY <2>2, <1>3, <4>1
    <3>4. p # Len(rest)
      <4>1. rest[1].count <= Head(rest).count
        <5>1. rest # <<>> /\ rest \in Seq(Entry)
          BY <1>7, <3>3, EmptySeq
        <5>2. Head(rest) = rest[1] /\ rest[1] \in Entry
          BY <5>1, <3>3, <1>7, ElementOfSeq
        <5> QED BY <5>2 DEF Entry
      <4>2. CASE p = Len(rest)
        <5>1. 1 \in 1..p
          BY <3>3, <4>2
        <5>2. rest[1].count > Head(rest).count
          BY <3>1, <5>1 DEF SkipsAbove
        <5>3. rest[1] \in Entry /\ Head(rest) = rest[1]
          BY <1>7, <3>3, <4>2, <5>1, ElementOfSeq, EmptySeq
        <5> QED BY <5>2, <5>3 DEF Entry
      <4> QED BY <4>2
    <3>5. tail' = TailOf(list')
      <4>1. TailOf(list) = list[Len(list)].rpi /\ Len(list) \in DOMAIN list
        BY <1>3, <3>3, EmptySeq DEF TailOf
      <4>2. tail = r <=> i = Len(list)
        BY <1>1, <1>2, <1>3, <4>1 DEF Distinct
      <4> QED BY <1>1, <1>7, <2>2, <3>2, <3>3, <3>4, <4>1, <4>2 DEF TailOf
    <3> QED BY <1>7, <3>2, <3>5
  <2> QED BY <1>6, <2>1, <2>2
<1>9. Account(list', held', joined')
  <2>1. \A q : q \in Nodes(list') <=> q \in Nodes(list)
    <3>1. \A f \in ToSet(list) : f \in ToSet(list') \/ f = e
      BY <1>8
    <3>2. e \in ToSet(list) /\ target \in ToSet(list') /\ e.rpi = target.rpi
      BY <1>3, <1>4, <1>5, <1>8
    <3>3. \A f \in ToSet(list') : f \in ToSet(list) \/ f = target
      BY <1>8
    <3> QED BY <3>1, <3>2, <3>3 DEF Nodes
  <2>2. target.count + held'[target.rpi] = Units
    <3>1. held'[r] = held[r] - 1
      BY ProduceFacts
    <3> QED BY <1>4, <1>5, <3>1, UnitsAssumption
  <2>3. \A f \in ToSet(list) : f # e => f.count + held'[f.rpi] = Units
    <3> TAKE f \in ToSet(list)
    <3>1. f # e => f.rpi \in Rpi /\ f.rpi # r
      BY <1>3, <1>4, EntryFacts DEF Entry
    <3> QED BY <1>1, <3>1, ProduceFacts DEF Account
  <2>4. \A q \in joined \ Nodes(list') : held'[q] = Units
    <3>1. r \in Nodes(list)
      BY <1>3, <1>4 DEF Nodes
    <3> QED BY <1>1, <2>1, <3>1, ProduceFacts DEF Account
  <2>5. \A q \in Rpi \ joined : q \notin Nodes(list') /\ held'[q] = 0
    BY <1>1, <2>1, ProduceFacts DEF Account
  <2> QED BY <1>8, <2>2, <2>3, <2>4, <2>5 DEF Account
<1>10. tail' \in Rpi \cup {NoRpi}
  <2>1. list' = <<>> \/ list'[Len(list')] \in Entry
    BY <1>8, ElementOfSeq, LenProperties, EmptySeq
  <2> QED BY <1>8, <2>1 DEF TailOf, Entry
<1>11. NoLostWakeup' /\ NoCallBeforeJoins'
  <2>1. list # <<>>
    BY <1>3, EmptySeq
  <2> QED BY <1>1, <1>6, <2>1 DEF NoLostWakeup, NoCallBeforeJoins, Waiting
<1> QED
  BY <1>1, <1>6, <1>8, <1>9, <1>10, <1>11, ProduceFacts, ListInvariants DEF IInv, TypeOK

(* The steps of the waiting and waking threads do not touch the list.      *)
LEMMA CallerStepsInv ==
  ASSUME IInv, NEW c \in Consumers, Call(c) \/ Wait(c) \/ SpuriousWakeup(c)
  PROVE  IInv'
<1>1. /\ list' = list /\ tail' = tail /\ joined' = joined /\ held' = held
      /\ caller' \in [Consumers -> {"out", "in", "waiting"}]
      /\ Waiting' # {} => list = <<>>
      /\ \A d \in Consumers : caller'[d] # "out" => joined = Rpi
  <2>1. CASE Call(c)
    BY <2>1 DEF Call, IInv, TypeOK, NoLostWakeup, NoCallBeforeJoins, Waiting
  <2>2. CASE Wait(c)
    BY <2>2 DEF Wait, IInv, TypeOK, NoLostWakeup, NoCallBeforeJoins, Waiting
  <2>3. CASE SpuriousWakeup(c)
    BY <2>3 DEF SpuriousWakeup, IInv, TypeOK, NoLostWakeup, NoCallBeforeJoins, Waiting
  <2> QED BY <2>1, <2>2, <2>3
<1>2. TypeOK'
  BY <1>1 DEF IInv, TypeOK
<1>3. ListWellFormed' /\ UnitsConserved'
  BY <1>1 DEF IInv, ListWellFormed, UnitsConserved, InList
<1> QED
  BY <1>1, <1>2, <1>3 DEF IInv, NoLostWakeup, NoCallBeforeJoins

LEMMA StepInv == IInv /\ [Next]_vars => IInv'
<1> SUFFICES ASSUME IInv, [Next]_vars PROVE IInv'
  OBVIOUS
<1>1. ASSUME NEW r \in Rpi, AddEntryHead(r) PROVE IInv'
  BY <1>1, AddEntryHeadInv
<1>2. ASSUME NEW r \in Rpi, ProduceResource(r) PROVE IInv'
  BY <1>2, ProduceIntoEmptyInv, ProduceNewEntryInv, ProduceExistingEntryInv
     DEF ProduceResource
<1>3. ASSUME NEW c \in Consumers, Call(c) \/ Wait(c) \/ SpuriousWakeup(c) PROVE IInv'
  BY <1>3, CallerStepsInv
<1>4. ASSUME NEW c \in Consumers, ConsumeResource(c) PROVE IInv'
  BY <1>4, ConsumeResourceInv
<1>5. CASE UNCHANGED vars
  <2>1. TypeOK' /\ NoLostWakeup' /\ NoCallBeforeJoins'
    BY <1>5 DEF vars, IInv, TypeOK, NoLostWakeup, NoCallBeforeJoins, Waiting
  <2>2. ListWellFormed' /\ UnitsConserved'
    BY <1>5 DEF vars, IInv, ListWellFormed, UnitsConserved, InList
  <2> QED BY <2>1, <2>2 DEF IInv
<1> QED
  BY <1>1, <1>2, <1>3, <1>4, <1>5 DEF Next

LEMMA Inductive == Spec => []IInv
BY InitInv, StepInv, PTL DEF Spec

(* The list, its tail pointer, the counts and the callers keep their types *)
(* whatever the order of joins, consumptions and productions.              *)
THEOREM TypeCorrect == Spec => []TypeOK
BY Inductive, PTL DEF IInv

(* consume_resource and produce_resource never lose an entry and leave the *)
(* tail pointer at the last one, for any number of nodes and units.        *)
THEOREM ListStaysWellFormed == Spec => []ListWellFormed
BY Inductive, PTL DEF IInv

(* What the list holds of a node and what the writer thread consumed of it *)
(* always add up to its initial units.                                     *)
THEOREM UnitsAreConserved == Spec => []UnitsConserved
BY Inductive, PTL DEF IInv

(* With one consumer, a notification on the empty list only is enough.     *)
THEOREM WakeupsAreNotLost == Spec => []NoLostWakeup
BY Inductive, PTL DEF IInv
-----------------------------------------------------------------------------
(* Every step of the scheduler is a step of the credit pool, or changes    *)
(* nothing the pool has: the order of the list, the sleeping and the       *)
(* waking are its own business.                                            *)
LEMMA StepRefines == IInv /\ [Next]_vars => [Pool!Next]_(Pool!poolVars)
<1> SUFFICES ASSUME IInv, [Next]_vars PROVE [Pool!Next]_(Pool!poolVars)
  OBVIOUS
<1> DEFINE asking == {c \in Consumers : caller[c] # "out"}
<1>0. caller \in [Consumers -> {"out", "in", "waiting"}]
  BY DEF IInv, TypeOK
<1>1. ASSUME NEW r \in Rpi, AddEntryHead(r) PROVE Pool!Join(r)
  BY <1>1 DEF AddEntryHead, Pool!Join
<1>2. ASSUME NEW r \in Rpi, ProduceResource(r) PROVE Pool!GiveBack(r)
  <2>1. asking' = asking
    <3>1. CASE caller' = caller
      BY <3>1
    <3>2. CASE \E c \in Waiting : caller' = [caller EXCEPT ![c] = "in"]
      BY <1>0, <3>2 DEF Waiting
    <3> QED BY <1>2, <3>1, <3>2 DEF ProduceResource, ProduceIntoEmpty, ProduceNewEntry,
                                    ProduceExistingEntry, NotifyOne
  <2> QED BY <1>2, <2>1 DEF ProduceResource, Pool!GiveBack
<1>3. ASSUME NEW c \in Consumers, Call(c) PROVE Pool!Ask(c)
  BY <1>0, <1>3 DEF Call, Pool!Ask
<1>4. ASSUME NEW c \in Consumers, Wait(c) \/ SpuriousWakeup(c) PROVE UNCHANGED Pool!poolVars
  BY <1>0, <1>4 DEF Wait, SpuriousWakeup, Pool!poolVars
<1>5. ASSUME NEW c \in Consumers, ConsumeResource(c) PROVE Pool!Grant(c)
  <2>1. list # <<>> /\ list \in Seq(Entry) /\ held \in [Rpi -> 0..Units] /\ joined \subseteq Rpi
    BY <1>5 DEF ConsumeResource, IInv, TypeOK
  <2>2. Head(list) \in ToSet(list)
    BY <2>1, LenProperties, EmptySeq DEF ToSet
  <2>3. Head(list) \in Entry /\ Head(list).rpi \in joined /\ held[Head(list).rpi] < Units
    <3>1. /\ Head(list) \in Entry /\ Head(list).rpi \in joined
          /\ held[Head(list).rpi] = Units - Head(list).count
      BY <2>2, EntryFacts
    <3> QED BY <3>1, UnitsAssumption DEF Entry
  <2>4. [Head(list) EXCEPT !.count = @ - 1].rpi = Head(list).rpi
    BY <2>3, RecountedEntry
  <2>5. held' = [held EXCEPT ![Head(list).rpi] = @ + 1]
    BY <1>5, <2>4 DEF ConsumeResource
  <2>6. /\ c \in asking /\ asking' = asking \ {c} /\ joined' = joined
    BY <1>0, <1>5 DEF ConsumeResource
  <2> QED BY <2>3, <2>5, <2>6 DEF Pool!Grant
<1>6. CASE UNCHANGED vars
  BY <1>6 DEF vars, Pool!poolVars
<1> QED
  BY <1>1, <1>2, <1>3, <1>4, <1>5, <1>6 DEF Next, Pool!Next

(* The linked list with its condition variable implements the credit pool, *)
(* as far as what it may do goes; that a consumer is granted a credit in   *)
(* the end is checked by TLC.                                              *)
THEOREM ImplementsPool == Spec => Pool!Init /\ [][Pool!Next]_(Pool!poolVars)
<1>1. Init => Pool!Init
  BY DEF Init, Pool!Init
<1> QED
  BY <1>1, Inductive, StepRefines, PTL DEF Spec
=============================================================================

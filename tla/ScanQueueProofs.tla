--------------------------- MODULE ScanQueueProofs ---------------------------
(***************************************************************************)
(* The scan queue is correct for every number of folders, sizes, requests  *)
(* and failing saves: the invariants of ScanQueue, and that it implements  *)
(* DurableQueue.                                                           *)
(***************************************************************************)
EXTENDS ScanQueue, TLAPS, SequenceTheorems

(* A list of items whose ids were issued and that holds no folder twice.   *)
Distinct(s) == \A i, j \in DOMAIN s :
                 i # j => s[i].id # s[j].id /\ s[i].root # s[j].root
Sound(s, n) == /\ s \in Seq(Item) /\ Len(s) <= MaxQueue
               /\ Distinct(s) /\ Ids(s) \subseteq 1..n

(* The inductive invariant: it adds to the properties that ids come from   *)
(* the counter, and that the file is up to date while no save has failed.  *)
IInv ==
  /\ TypeOK
  /\ Sound(items, nextId) /\ Sound(file, nextId)
  /\ Settled \subseteq 1..nextId
  /\ NoResurrection
  /\ ~up => items = <<>>
  /\ failures = 0 => /\ up => file = items
                     /\ accepted \subseteq Settled \cup Ids(file)
-----------------------------------------------------------------------------
(* What the operations of the list do to its items.                        *)

LEMMA EmptySound == \A n \in Nat : Sound(<<>>, n) /\ Ids(<<>>) = {}
BY QueueAssumption DEF Sound, Distinct, Ids

LEMMA AppendSound ==
  ASSUME NEW s, NEW n \in Nat, Sound(s, n), NEW root \in Roots,
         root \notin RootsOf(s), Len(s) < MaxQueue
  PROVE  LET t == Append(s, [id |-> n + 1, root |-> root])
         IN Sound(t, n + 1) /\ Ids(t) = Ids(s) \cup {n + 1}
<1> DEFINE new == [id |-> n + 1, root |-> root]
           t == Append(s, new)
<1>1. new \in Item /\ new.id = n + 1 /\ new.root = root
  BY DEF Item
<1>2. /\ t \in Seq(Item) /\ Len(t) = Len(s) + 1 /\ Len(s) \in Nat
      /\ DOMAIN t = 1..(Len(s) + 1) /\ DOMAIN s = 1..Len(s)
      /\ \A i \in 1..Len(s) : t[i] = s[i]
      /\ t[Len(s) + 1] = new
  BY <1>1, AppendProperties, LenProperties DEF Sound
<1>3. Len(t) <= MaxQueue
  BY <1>2, QueueAssumption
<1>4. Distinct(t)
  <2> SUFFICES ASSUME NEW i \in DOMAIN t, NEW j \in DOMAIN t, i # j
               PROVE  t[i].id # t[j].id /\ t[i].root # t[j].root
    BY DEF Distinct
  <2>1. \A k \in DOMAIN s : s[k].id \in 1..n /\ s[k].root # root
    BY DEF Sound, Ids, RootsOf
  <2>2. CASE i \in DOMAIN s /\ j \in DOMAIN s
    BY <2>2, <1>2 DEF Sound, Distinct
  <2>3. CASE i \notin DOMAIN s
    <3>1. i = Len(s) + 1 /\ j \in DOMAIN s
      BY <2>3, <1>2
    <3> QED BY <3>1, <2>1, <1>1, <1>2
  <2>4. CASE j \notin DOMAIN s
    <3>1. j = Len(s) + 1 /\ i \in DOMAIN s
      BY <2>4, <1>2
    <3> QED BY <3>1, <2>1, <1>1, <1>2
  <2> QED BY <2>2, <2>3, <2>4
<1>5. Ids(t) = Ids(s) \cup {n + 1}
  <2>1. Ids(t) \subseteq Ids(s) \cup {n + 1}
    <3> SUFFICES ASSUME NEW i \in DOMAIN t PROVE t[i].id \in Ids(s) \cup {n + 1}
      BY DEF Ids
    <3>1. CASE i \in DOMAIN s
      BY <3>1, <1>2 DEF Ids
    <3>2. CASE i = Len(s) + 1
      BY <3>2, <1>1, <1>2
    <3> QED BY <3>1, <3>2, <1>2
  <2>2. Ids(s) \subseteq Ids(t)
    BY <1>2 DEF Ids
  <2>3. n + 1 \in Ids(t)
    <3>1. Len(s) + 1 \in DOMAIN t /\ t[Len(s) + 1].id = n + 1
      BY <1>1, <1>2
    <3> QED BY <3>1 DEF Ids
  <2> QED BY <2>1, <2>2, <2>3
<1>6. Ids(t) \subseteq 1..(n + 1)
  BY <1>5 DEF Sound
<1> QED BY <1>2, <1>3, <1>4, <1>5, <1>6 DEF Sound

(* A list that is s without its item i, the others in order.               *)
Without(r, s, i) ==
  /\ r \in Seq(Item) /\ Len(r) = Len(s) - 1
  /\ \A j \in 1..Len(r) : r[j] = IF j < i THEN s[j] ELSE s[j + 1]

LEMMA RemoveAtFacts ==
  ASSUME NEW S, NEW s \in Seq(S), NEW i \in DOMAIN s
  PROVE  /\ RemoveAt(s, i) \in Seq(S) /\ Len(RemoveAt(s, i)) = Len(s) - 1
         /\ \A j \in 1..(Len(s) - 1) :
              RemoveAt(s, i)[j] = IF j < i THEN s[j] ELSE s[j + 1]
<1> DEFINE a == SubSeq(s, 1, i - 1)
           b == SubSeq(s, i + 1, Len(s))
<1>1. DOMAIN s = 1..Len(s) /\ Len(s) \in Nat /\ i \in 1..Len(s)
      /\ \A k \in 1..Len(s) : s[k] \in S
  BY LenProperties, ElementOfSeq
<1>2. /\ a \in Seq(S) /\ Len(a) = i - 1
      /\ \A j \in 1..(i - 1) : a[j] = s[j]
  <2>1. i - 1 \in Int /\ \A k \in 1..(i - 1) : s[k] \in S
    BY <1>1
  <2>2. /\ a \in Seq(S) /\ Len(a) = IF 1 <= i - 1 THEN (i - 1) - 1 + 1 ELSE 0
        /\ \A j \in 1..((i - 1) - 1 + 1) : a[j] = s[1 + j - 1]
    BY <2>1, SubSeqProperties
  <2> QED BY <2>2, <1>1
<1>3. /\ b \in Seq(S) /\ Len(b) = Len(s) - i
      /\ \A j \in 1..(Len(s) - i) : b[j] = s[i + j]
  <2>1. i + 1 \in Int /\ Len(s) \in Int /\ \A k \in (i + 1)..Len(s) : s[k] \in S
    BY <1>1
  <2>2. /\ b \in Seq(S)
        /\ Len(b) = IF i + 1 <= Len(s) THEN Len(s) - (i + 1) + 1 ELSE 0
        /\ \A j \in 1..(Len(s) - (i + 1) + 1) : b[j] = s[(i + 1) + j - 1]
    BY <2>1, SubSeqProperties
  <2> QED BY <2>2, <1>1
<1>4. /\ a \o b \in Seq(S) /\ Len(a \o b) = Len(a) + Len(b)
      /\ \A j \in 1..(Len(a) + Len(b)) :
           (a \o b)[j] = IF j <= Len(a) THEN a[j] ELSE b[j - Len(a)]
  BY <1>2, <1>3, ConcatProperties
<1>5. Len(a \o b) = Len(s) - 1
  BY <1>1, <1>2, <1>3, <1>4
<1>6. ASSUME NEW j \in 1..(Len(s) - 1)
      PROVE  (a \o b)[j] = IF j < i THEN s[j] ELSE s[j + 1]
  <2>1. CASE j < i
    BY <2>1, <1>1, <1>2, <1>3, <1>4
  <2>2. CASE ~(j < i)
    <3>1. j - (i - 1) \in 1..(Len(s) - i) /\ i + (j - (i - 1)) = j + 1
      BY <2>2, <1>1
    <3>2. Len(a) = i - 1 /\ j \in 1..(Len(a) + Len(b)) /\ ~(j <= Len(a))
      BY <2>2, <1>1, <1>2, <1>3
    <3>3. (a \o b)[j] = b[j - (i - 1)]
      BY <3>2, <1>4
    <3> QED BY <2>2, <3>1, <3>3, <1>3
  <2> QED BY <2>1, <2>2
<1> QED BY <1>4, <1>5, <1>6 DEF RemoveAt

LEMMA RemoveAtWithout ==
  ASSUME NEW s \in Seq(Item), NEW i \in DOMAIN s
  PROVE  Without(RemoveAt(s, i), s, i)
<1>1. Len(RemoveAt(s, i)) = Len(s) - 1
  BY RemoveAtFacts
<1> QED BY <1>1, RemoveAtFacts DEF Without

LEMMA TailWithout ==
  ASSUME NEW s \in Seq(Item), s # <<>>
  PROVE  Without(Tail(s), s, 1) /\ 1 \in DOMAIN s /\ Head(s) = s[1]
<1>1. Len(s) \in Nat \ {0} /\ DOMAIN s = 1..Len(s)
  BY EmptySeq, LenProperties
<1>2. /\ Tail(s) \in Seq(Item) /\ Len(Tail(s)) = Len(s) - 1
      /\ \A j \in 1..Len(Tail(s)) : Tail(s)[j] = s[j + 1]
  BY HeadTailProperties
<1> QED BY <1>1, <1>2 DEF Without

LEMMA WithoutSound ==
  ASSUME NEW s, NEW n \in Nat, Sound(s, n), NEW i \in DOMAIN s,
         NEW r, Without(r, s, i)
  PROVE  Sound(r, n) /\ Ids(r) = Ids(s) \ {s[i].id}
<1>1. /\ Len(s) \in Nat /\ DOMAIN s = 1..Len(s) /\ i \in 1..Len(s)
      /\ Len(r) = Len(s) - 1 /\ DOMAIN r = 1..(Len(s) - 1)
  BY LenProperties DEF Sound, Without
<1> DEFINE from(j) == IF j < i THEN j ELSE j + 1
<1>2. \A j \in DOMAIN r : from(j) \in DOMAIN s \ {i} /\ r[j] = s[from(j)]
  BY <1>1 DEF Without
<1>3. \A j, k \in DOMAIN r : j # k => from(j) # from(k)
  BY <1>1
<1>4. Distinct(r)
  BY <1>2, <1>3 DEF Sound, Distinct
<1>5. Ids(r) \subseteq Ids(s) \ {s[i].id}
  BY <1>2 DEF Ids, Sound, Distinct
<1>6. Ids(s) \ {s[i].id} \subseteq Ids(r)
  <2> SUFFICES ASSUME NEW k \in DOMAIN s, k # i PROVE s[k].id \in Ids(r)
    BY DEF Ids
  <2>1. CASE k < i
    <3>1. k \in DOMAIN r /\ r[k] = s[k]
      BY <2>1, <1>1 DEF Without
    <3> QED BY <3>1 DEF Ids
  <2>2. CASE k > i
    <3>1. k - 1 \in DOMAIN r /\ r[k - 1] = s[k]
      BY <2>2, <1>1 DEF Without
    <3> QED BY <3>1 DEF Ids
  <2> QED BY <2>1, <2>2, <1>1
<1>7. r \in Seq(Item) /\ Len(r) <= MaxQueue /\ Ids(r) \subseteq 1..n
  BY <1>1, <1>5, QueueAssumption DEF Sound, Without
<1> QED BY <1>4, <1>5, <1>6, <1>7 DEF Sound

LEMMA AppendSet ==
  ASSUME NEW s \in Seq(Nat), NEW e \in Nat
  PROVE  ToSet(Append(s, e)) = ToSet(s) \cup {e}
<1>1. /\ Len(s) \in Nat /\ DOMAIN s = 1..Len(s)
      /\ DOMAIN Append(s, e) = 1..(Len(s) + 1)
      /\ \A i \in 1..Len(s) : Append(s, e)[i] = s[i]
      /\ Append(s, e)[Len(s) + 1] = e
  BY AppendProperties, LenProperties
<1>2. ToSet(Append(s, e)) \subseteq ToSet(s) \cup {e}
  <2> SUFFICES ASSUME NEW i \in DOMAIN Append(s, e)
               PROVE  Append(s, e)[i] \in ToSet(s) \cup {e}
    BY DEF ToSet
  <2>1. CASE i \in DOMAIN s
    BY <2>1, <1>1 DEF ToSet
  <2>2. CASE i = Len(s) + 1
    BY <2>2, <1>1
  <2> QED BY <2>1, <2>2, <1>1
<1>3. ToSet(s) \subseteq ToSet(Append(s, e))
  BY <1>1 DEF ToSet
<1>4. e \in ToSet(Append(s, e))
  <2>1. Len(s) + 1 \in DOMAIN Append(s, e)
    BY <1>1
  <2> QED BY <2>1, <1>1 DEF ToSet
<1> QED BY <1>2, <1>3, <1>4
-----------------------------------------------------------------------------
(* The inductive invariant holds initially and is preserved by every step. *)

LEMMA InitIInv == Init => IInv
<1> SUFFICES ASSUME Init PROVE IInv
  OBVIOUS
<1>1. Sound(items, nextId) /\ Sound(file, nextId) /\ Ids(items) = {} /\ Ids(file) = {}
  BY EmptySound DEF Init
<1>2. TypeOK
  BY DEF Init, TypeOK
<1>3. Settled = {}
  BY DEF Init, Settled, ToSet
<1> QED BY <1>1, <1>2, <1>3 DEF Init, IInv, NoResurrection

(* The part of the step that concerns a removal: the list loses the item i,*)
(* the save succeeds and the id is settled, or it fails and it is not.     *)
LEMMA RemovalStep ==
  ASSUME IInv, up, UNCHANGED <<up, nextId, accepted>>,
         NEW i \in DOMAIN items, Without(items', items, i),
         \/ SaveOk /\ Settled' = Settled \cup {items[i].id}
         \/ SaveFail /\ Settled' = Settled
  PROVE  /\ Sound(items', nextId') /\ Sound(file', nextId')
         /\ Settled' \subseteq 1..nextId'
         /\ Settled' \cap (Ids(items') \cup Ids(file')) = {}
         /\ failures' = 0 => file' = items' /\ accepted' \subseteq Settled' \cup Ids(file')
         /\ items[i].id \in Nat /\ items[i].id \notin Settled
         /\ failures' \in Nat /\ items' \in Seq(Item) /\ file' \in Seq(Item)
<1>1. /\ nextId \in Nat /\ failures \in Nat /\ nextId' = nextId /\ accepted' = accepted
      /\ Sound(items, nextId) /\ Sound(file, nextId) /\ Settled \subseteq 1..nextId
      /\ Settled \cap (Ids(items) \cup Ids(file)) = {}
      /\ failures = 0 => file = items /\ accepted \subseteq Settled \cup Ids(file)
  BY DEF IInv, TypeOK, NoResurrection
<1> DEFINE id == items[i].id
<1>2. id \in Ids(items)
  BY DEF Ids
<1>3. id \in 1..nextId /\ id \in Nat /\ id \notin Settled
  BY <1>1, <1>2 DEF Sound
<1>4. Sound(items', nextId) /\ Ids(items') = Ids(items) \ {id}
  BY <1>1, WithoutSound
<1>5. CASE SaveOk /\ Settled' = Settled \cup {id}
  <2>1. file' = items' /\ failures' = failures
    BY <1>5 DEF SaveOk
  <2>2. Settled' \cap (Ids(items') \cup Ids(file')) = {}
    BY <1>1, <1>4, <1>5, <2>1
  <2>3. failures' = 0 => accepted' \subseteq Settled' \cup Ids(file')
    BY <1>1, <1>4, <1>5, <2>1
  <2>4. items' \in Seq(Item)
    BY <1>4 DEF Sound
  <2> QED BY <1>1, <1>3, <1>4, <1>5, <2>1, <2>2, <2>3, <2>4
<1>6. CASE SaveFail /\ Settled' = Settled
  <2>1. file' = file /\ failures' \in Nat \ {0}
    BY <1>1, <1>6 DEF SaveFail
  <2>2. Settled' \cap (Ids(items') \cup Ids(file')) = {}
    BY <1>1, <1>4, <1>6, <2>1
  <2>3. items' \in Seq(Item) /\ file \in Seq(Item)
    BY <1>1, <1>4 DEF Sound
  <2> QED BY <1>1, <1>3, <1>4, <1>6, <2>1, <2>2, <2>3
<1> QED BY <1>5, <1>6

LEMMA EnqueueIInv ==
  ASSUME IInv, NEW root \in Roots, Enqueue(root)
  PROVE  IInv'
<1>1. nextId \in Nat /\ nextId' = nextId + 1 /\ failures \in Nat
  BY DEF IInv, TypeOK, Enqueue
<1>2. Sound(items', nextId + 1) /\ Ids(items') = Ids(items) \cup {nextId + 1}
  BY <1>1, AppendSound DEF IInv, Enqueue, Admit
<1>3. Sound(file, nextId + 1)
  BY <1>1 DEF IInv, Sound
<1>4. /\ UNCHANGED <<up, handed, withdrawn>> /\ up
      /\ Settled' = Settled
  BY DEF Enqueue, Settled
<1>5. nextId + 1 \notin Settled
  BY <1>1 DEF IInv
<1>6. /\ items \in Seq(Item) /\ file \in Seq(Item) /\ items' \in Seq(Item)
      /\ accepted \subseteq Nat /\ Settled \subseteq 1..nextId
      /\ Settled \cap (Ids(items) \cup Ids(file)) = {}
      /\ failures = 0 => file = items /\ accepted \subseteq Settled \cup Ids(file)
  BY <1>2, <1>4 DEF IInv, TypeOK, NoResurrection, Sound
<1>7. CASE SaveOk /\ accepted' = accepted \cup {nextId + 1}
  <2>1. file' = items' /\ failures' = failures
    BY <1>7 DEF SaveOk
  <2>2. TypeOK'
    BY <1>1, <1>4, <1>6, <1>7, <2>1 DEF IInv, TypeOK
  <2>3. Sound(items', nextId') /\ Sound(file', nextId') /\ Settled' \subseteq 1..nextId'
    BY <1>1, <1>2, <1>4, <1>6, <2>1
  <2>4. Settled' \cap (Ids(items') \cup Ids(file')) = {}
    BY <1>2, <1>4, <1>5, <1>6, <2>1
  <2>5. failures' = 0 => accepted' \subseteq Settled' \cup Ids(file')
    BY <1>2, <1>4, <1>6, <1>7, <2>1
  <2> QED BY <1>4, <2>1, <2>2, <2>3, <2>4, <2>5 DEF IInv, NoResurrection
<1>8. CASE SaveFail /\ UNCHANGED accepted
  <2>1. file' = file /\ failures' \in Nat \ {0}
    BY <1>1, <1>8 DEF SaveFail
  <2>2. TypeOK'
    BY <1>1, <1>4, <1>6, <1>8, <2>1 DEF IInv, TypeOK
  <2>3. Sound(items', nextId') /\ Sound(file', nextId') /\ Settled' \subseteq 1..nextId'
    BY <1>1, <1>2, <1>3, <1>4, <1>6, <2>1
  <2>4. Settled' \cap (Ids(items') \cup Ids(file')) = {}
    BY <1>2, <1>4, <1>5, <1>6, <2>1
  <2> QED BY <1>4, <2>1, <2>2, <2>3, <2>4 DEF IInv, NoResurrection
<1> QED BY <1>7, <1>8 DEF Enqueue

LEMMA PopNextIInv ==
  ASSUME IInv, PopNext
  PROVE  IInv'
<1>1. items \in Seq(Item) /\ handed \in Seq(Nat) /\ withdrawn \subseteq Nat
  BY DEF IInv, TypeOK
<1>2. Without(items', items, 1) /\ 1 \in DOMAIN items /\ Head(items) = items[1]
  BY <1>1, TailWithout DEF PopNext
<1> DEFINE id == items[1].id
<1>3. id \in Nat
  <2>1. items[1] \in Item
    BY <1>1, <1>2, ElementOfSeq, LenProperties
  <2> QED BY <2>1 DEF Item
<1>4. CASE SaveOk /\ handed' = Append(handed, id)
  <2>1. Settled' = Settled \cup {id}
    BY <1>1, <1>3, <1>4, AppendSet DEF PopNext, Settled
  <2>2. id \notin Settled /\ (Settled \cap (Ids(items) \cup Ids(file)) = {})'
    BY <1>2, <1>4, <2>1, RemovalStep DEF PopNext
  <2>3. handed' \in Seq(Nat)
        /\ \A i, j \in DOMAIN handed' : i # j => handed'[i] # handed'[j]
    <3>1. /\ Len(handed) \in Nat /\ DOMAIN handed = 1..Len(handed)
          /\ handed' \in Seq(Nat) /\ DOMAIN handed' = 1..(Len(handed) + 1)
          /\ \A i \in 1..Len(handed) : handed'[i] = handed[i]
          /\ handed'[Len(handed) + 1] = id
      BY <1>1, <1>3, <1>4, AppendProperties, LenProperties
    <3>2. \A i \in DOMAIN handed : handed[i] # id
      BY <2>2 DEF Settled, ToSet
    <3>3. \A i, j \in DOMAIN handed : i # j => handed[i] # handed[j]
      BY DEF IInv, NoResurrection
    <3> QED BY <3>1, <3>2, <3>3
  <2> QED BY <1>1, <1>2, <1>4, <2>1, <2>2, <2>3, RemovalStep
          DEF IInv, TypeOK, PopNext, NoResurrection
<1>5. CASE SaveFail /\ UNCHANGED handed
  <2>1. Settled' = Settled
    BY <1>5 DEF PopNext, Settled
  <2> QED BY <1>2, <1>5, <2>1, RemovalStep DEF IInv, TypeOK, PopNext, NoResurrection
<1> QED BY <1>2, <1>4, <1>5 DEF PopNext

LEMMA RemoveItemIInv ==
  ASSUME IInv, NEW i \in DOMAIN items, RemoveItem(i)
  PROVE  IInv'
<1>1. items \in Seq(Item) /\ withdrawn \subseteq Nat /\ UNCHANGED handed
  BY DEF IInv, TypeOK, RemoveItem
<1>2. Without(items', items, i)
  BY <1>1, RemoveAtWithout DEF RemoveItem
<1>3. \/ SaveOk /\ withdrawn' = withdrawn \cup {items[i].id}
         /\ Settled' = Settled \cup {items[i].id}
      \/ SaveFail /\ UNCHANGED withdrawn /\ Settled' = Settled
  BY DEF RemoveItem, Settled
<1> QED BY <1>1, <1>2, <1>3, RemovalStep DEF IInv, TypeOK, RemoveItem, NoResurrection

LEMMA ClearIInv ==
  ASSUME IInv, Clear
  PROVE  IInv'
<1>1. /\ nextId \in Nat /\ failures \in Nat /\ Ids(items) \subseteq 1..nextId
      /\ UNCHANGED <<up, nextId, accepted, handed>> /\ up
      /\ withdrawn \subseteq Nat /\ Settled \subseteq 1..nextId
      /\ Settled \cap Ids(file) = {}
      /\ failures = 0 => file = items /\ accepted \subseteq Settled \cup Ids(file)
  BY DEF IInv, TypeOK, Sound, Clear, NoResurrection
<1>2. Sound(items', nextId) /\ Ids(items') = {}
  BY <1>1, EmptySound DEF Clear
<1>3. CASE SaveOk /\ withdrawn' = withdrawn \cup Ids(items)
  <2>1. Settled' = Settled \cup Ids(items) /\ file' = items' /\ failures' = failures
    BY <1>1, <1>3 DEF Settled, SaveOk
  <2>2. TypeOK'
    <3>1. 1..nextId \subseteq Nat
      BY <1>1
    <3>2. withdrawn' \subseteq Nat
      BY <1>1, <1>3, <3>1
    <3> QED BY <1>1, <1>2, <2>1, <3>2 DEF IInv, TypeOK, Sound
  <2>3. Settled' \cap (Ids(items') \cup Ids(file')) = {}
    BY <1>2, <2>1
  <2>4. failures' = 0 => accepted' \subseteq Settled'
    BY <1>1, <2>1
  <2> QED BY <1>1, <1>2, <2>1, <2>2, <2>3, <2>4 DEF IInv, NoResurrection
<1>4. CASE SaveFail /\ UNCHANGED withdrawn
  <2>1. Settled' = Settled /\ file' = file /\ failures' \in Nat \ {0}
    BY <1>1, <1>4 DEF Settled, SaveFail
  <2>2. TypeOK'
    BY <1>1, <1>2, <1>4, <2>1 DEF IInv, TypeOK, Sound
  <2>3. Settled' \cap (Ids(items') \cup Ids(file')) = {}
    BY <1>1, <1>2, <2>1
  <2> QED BY <1>1, <1>2, <2>1, <2>2, <2>3 DEF IInv, NoResurrection
<1> QED BY <1>3, <1>4 DEF Clear

LEMMA ServerIInv ==
  ASSUME IInv, Stop \/ Load \/ UNCHANGED vars
  PROVE  IInv'
<1>1. /\ UNCHANGED <<file, nextId, failures, accepted, handed, withdrawn>>
      /\ Settled' = Settled
  BY DEF Stop, Load, vars, Settled
<1>2. CASE Stop
  <2>1. Sound(items', nextId) /\ Ids(items') = {}
    BY <1>2, EmptySound DEF IInv, TypeOK, Stop
  <2> QED BY <1>1, <1>2, <2>1 DEF IInv, TypeOK, Stop, NoResurrection, Sound, Ids
<1>3. CASE Load
  BY <1>1, <1>3 DEF IInv, TypeOK, Load, Loaded, NoResurrection, Sound, Ids
<1>4. CASE UNCHANGED vars
  BY <1>1, <1>4 DEF IInv, TypeOK, vars, NoResurrection, Sound, Ids
<1> QED BY <1>2, <1>3, <1>4

LEMMA NextIInv == IInv /\ [Next]_vars => IInv'
<1> SUFFICES ASSUME IInv, [Next]_vars PROVE IInv'
  OBVIOUS
<1>1. ASSUME NEW root \in Roots, Enqueue(root) PROVE IInv'
  BY <1>1, EnqueueIInv
<1>2. ASSUME NEW i \in DOMAIN items, RemoveItem(i) PROVE IInv'
  BY <1>2, RemoveItemIInv
<1>3. CASE PopNext
  BY <1>3, PopNextIInv
<1>4. CASE Clear
  BY <1>4, ClearIInv
<1>5. CASE Stop \/ Load \/ UNCHANGED vars
  BY <1>5, ServerIInv
<1> QED BY <1>1, <1>2, <1>3, <1>4, <1>5 DEF Next

LEMMA SpecIInv == Spec => []IInv
BY InitIInv, NextIInv, PTL DEF Spec
-----------------------------------------------------------------------------
(* The properties of ScanQueue, for all constants.                         *)

(* Every variable keeps its type. *)
THEOREM TypeCorrect == Spec => []TypeOK
<1>1. IInv => TypeOK
  BY DEF IInv
<1> QED BY <1>1, SpecIInv, PTL

(* No folder waits twice in memory or in the file and neither outgrows     *)
(* MAX_QUEUE_SIZE, whatever saves of enqueue, pop_next, remove and clear   *)
(* fail and whenever the server restarts.                                  *)
THEOREM NoDuplicateWaitCorrect == Spec => []NoDuplicateWait
<1>1. IInv => NoDuplicateWait
  BY DEF IInv, Sound, Distinct, NoDuplicateWait
<1> QED BY <1>1, SpecIInv, PTL

(* No item that pop_next, remove or clear has returned comes back, from    *)
(* memory or from the file.                                                *)
THEOREM NoResurrectionCorrect == Spec => []NoResurrection
<1>1. IInv => NoResurrection
  BY DEF IInv
<1> QED BY <1>1, SpecIInv, PTL

(* No accepted request is lost while every save succeeds. *)
THEOREM PreservedCorrect == Spec => []Preserved
<1>1. IInv => Preserved
  BY DEF IInv, Preserved
<1> QED BY <1>1, SpecIInv, PTL
-----------------------------------------------------------------------------
(* The refinement.  IdSeq commutes with the operations of the list.        *)
Waiting == IF up THEN items ELSE file

LEMMA IdSeqFacts ==
  ASSUME NEW s \in Seq(Item)
  PROVE  /\ IdSeq(s) \in Seq(Nat) /\ Len(IdSeq(s)) = Len(s) /\ Len(s) \in Nat
         /\ DOMAIN IdSeq(s) = DOMAIN s /\ DOMAIN s = 1..Len(s)
         /\ \A i \in DOMAIN s : IdSeq(s)[i] = s[i].id
         /\ ToSet(IdSeq(s)) = Ids(s)
<1>1. Len(s) \in Nat /\ DOMAIN s = 1..Len(s) /\ \A i \in 1..Len(s) : s[i].id \in Nat
  <2>1. \A i \in 1..Len(s) : s[i] \in Item
    BY ElementOfSeq
  <2> QED BY <2>1, LenProperties DEF Item
<1>2. IdSeq(s) \in [1..Len(s) -> Nat]
  BY <1>1 DEF IdSeq
<1>3. IdSeq(s) \in Seq(Nat)
  BY <1>1, <1>2, SeqDef
<1>4. Len(IdSeq(s)) = Len(s)
  BY <1>1, <1>2, <1>3, LenProperties
<1> QED BY <1>1, <1>2, <1>3, <1>4 DEF IdSeq, Ids, ToSet

LEMMA IdSeqAppend ==
  ASSUME NEW s \in Seq(Item), NEW e \in Item
  PROVE  IdSeq(Append(s, e)) = Append(IdSeq(s), e.id)
<1> DEFINE t == Append(s, e)
<1>1. e.id \in Nat
  BY DEF Item
<1>2. /\ t \in Seq(Item) /\ Len(t) = Len(s) + 1 /\ DOMAIN t = 1..(Len(s) + 1)
      /\ Len(s) \in Nat
      /\ \A i \in 1..Len(s) : t[i] = s[i]
      /\ t[Len(s) + 1] = e
  BY AppendProperties, LenProperties
<1>3. /\ Append(IdSeq(s), e.id) \in Seq(Nat)
      /\ Len(Append(IdSeq(s), e.id)) = Len(s) + 1
      /\ \A i \in 1..Len(s) : Append(IdSeq(s), e.id)[i] = s[i].id
      /\ Append(IdSeq(s), e.id)[Len(s) + 1] = e.id
  BY <1>1, IdSeqFacts, AppendProperties
<1>4. /\ IdSeq(t) \in Seq(Nat) /\ Len(IdSeq(t)) = Len(s) + 1
      /\ \A i \in 1..(Len(s) + 1) : IdSeq(t)[i] = t[i].id
  BY <1>2, IdSeqFacts
<1>5. \A i \in 1..(Len(s) + 1) : IdSeq(t)[i] = Append(IdSeq(s), e.id)[i]
  <2> SUFFICES ASSUME NEW i \in 1..(Len(s) + 1)
               PROVE  IdSeq(t)[i] = Append(IdSeq(s), e.id)[i]
    OBVIOUS
  <2>1. CASE i = Len(s) + 1
    BY <2>1, <1>2, <1>3, <1>4
  <2>2. CASE i \in 1..Len(s)
    BY <2>2, <1>2, <1>3, <1>4
  <2>3. i = Len(s) + 1 \/ i \in 1..Len(s)
    BY <1>2
  <2> QED BY <2>1, <2>2, <2>3
<1> QED BY <1>3, <1>4, <1>5, SeqEqual

LEMMA IdSeqWithout ==
  ASSUME NEW s \in Seq(Item), NEW i \in DOMAIN s, NEW r, Without(r, s, i)
  PROVE  /\ IdSeq(r) = RemoveAt(IdSeq(s), i)
         /\ i = 1 => IdSeq(r) = Tail(IdSeq(s))
<1> DEFINE n == Len(s)
<1>1. /\ n \in Nat /\ DOMAIN s = 1..n /\ i \in 1..n
      /\ r \in Seq(Item) /\ Len(r) = n - 1
  BY LenProperties DEF Without
<1> DEFINE ids == IdSeq(s)
<1>2. /\ ids \in Seq(Nat) /\ Len(ids) = n /\ DOMAIN ids = 1..n
      /\ \A j \in 1..n : ids[j] = s[j].id
  BY <1>1, IdSeqFacts
<1>3. /\ IdSeq(r) \in Seq(Nat) /\ Len(IdSeq(r)) = n - 1
      /\ \A j \in 1..(n - 1) : IdSeq(r)[j] = IF j < i THEN ids[j] ELSE ids[j + 1]
  <2>1. \A j \in 1..(n - 1) : IdSeq(r)[j] = r[j].id
    BY <1>1, IdSeqFacts
  <2>2. \A j \in 1..(n - 1) : r[j] = IF j < i THEN s[j] ELSE s[j + 1]
    BY <1>1 DEF Without
  <2>3. ASSUME NEW j \in 1..(n - 1)
        PROVE  IdSeq(r)[j] = IF j < i THEN ids[j] ELSE ids[j + 1]
    <3>1. j \in 1..n /\ j + 1 \in 1..n
      BY <1>1
    <3> QED BY <2>1, <2>2, <1>2, <3>1
  <2>4. IdSeq(r) \in Seq(Nat) /\ Len(IdSeq(r)) = n - 1
    BY <1>1, IdSeqFacts
  <2> QED BY <2>3, <2>4
<1>4. /\ RemoveAt(ids, i) \in Seq(Nat) /\ Len(RemoveAt(ids, i)) = n - 1
      /\ \A j \in 1..(n - 1) : RemoveAt(ids, i)[j] = IF j < i THEN ids[j] ELSE ids[j + 1]
  <2> HIDE DEF ids
  <2>1. i \in DOMAIN ids
    BY <1>1, <1>2
  <2>2. /\ RemoveAt(ids, i) \in Seq(Nat) /\ Len(RemoveAt(ids, i)) = Len(ids) - 1
        /\ \A j \in 1..(Len(ids) - 1) :
             RemoveAt(ids, i)[j] = IF j < i THEN ids[j] ELSE ids[j + 1]
    BY <1>2, <2>1, RemoveAtFacts
  <2> QED BY <1>2, <2>2
<1>5. IdSeq(r) = RemoveAt(ids, i)
  BY <1>3, <1>4, SeqEqual
<1>6. ASSUME i = 1 PROVE IdSeq(r) = Tail(ids)
  <2>1. ids # <<>>
    BY <1>1, <1>2, EmptySeq
  <2>2. /\ Tail(ids) \in Seq(Nat) /\ Len(Tail(ids)) = n - 1
        /\ \A j \in 1..(n - 1) : Tail(ids)[j] = ids[j + 1]
    BY <1>2, <2>1, HeadTailProperties
  <2>3. \A j \in 1..(n - 1) : IdSeq(r)[j] = Tail(ids)[j]
    BY <1>3, <1>6, <2>2
  <2> QED BY <1>3, <2>2, <2>3, SeqEqual
<1> QED BY <1>5, <1>6

LEMMA SoundIdSeq ==
  ASSUME NEW s, NEW n, Sound(s, n)
  PROVE  s \in Seq(Item) /\ Len(IdSeq(s)) <= MaxQueue /\ ToSet(IdSeq(s)) = Ids(s)
BY IdSeqFacts DEF Sound

(* The two operators on sequences, as the instance names them.             *)
LEMMA DurableOperators ==
  \A s, i : Durable!ToSet(s) = ToSet(s) /\ Durable!RemoveAt(s, i) = RemoveAt(s, i)
BY DEF Durable!ToSet, ToSet, Durable!RemoveAt, RemoveAt

(* Once a save has failed: what is handed out is new, and what waits is    *)
(* not settled.                                                            *)
LEMMA DegradedStep == IInv /\ IInv' /\ [Next]_vars => Durable!Degraded
<1> SUFFICES ASSUME IInv, IInv', [Next]_vars PROVE Durable!Degraded
  OBVIOUS
<1>1. /\ Len(IdSeq(Waiting')) <= MaxQueue
      /\ ToSet(IdSeq(Waiting')) \cap Settled' = {}
  <2>1. Sound(Waiting', nextId') /\ Ids(Waiting') \cap Settled' = {}
    BY DEF IInv, NoResurrection, Waiting
  <2> QED BY <2>1, SoundIdSeq
<1>2. withdrawn \subseteq withdrawn'
  BY DEF Next, vars, Enqueue, RemoveItem, PopNext, Clear, Stop, Load
<1>3. \/ UNCHANGED handed
      \/ \E id \in ToSet(handed') \ Settled : handed' = Append(handed, id)
  <2>1. CASE PopNext /\ handed' # handed
    <3>1. handed' = Append(handed, Head(items).id) /\ items # <<>>
      BY <2>1 DEF PopNext
    <3>2. items \in Seq(Item) /\ handed \in Seq(Nat)
      BY DEF IInv, TypeOK
    <3>3. 1 \in DOMAIN items /\ Head(items) = items[1] /\ items[1] \in Item
      BY <3>1, <3>2, TailWithout, ElementOfSeq, LenProperties
    <3>4. Head(items).id \in Ids(items) /\ Head(items).id \in Nat
      BY <3>3 DEF Ids, Item
    <3>5. Head(items).id \notin Settled
      BY <3>4 DEF IInv, NoResurrection
    <3>6. Head(items).id \in ToSet(handed')
      BY <3>1, <3>2, <3>4, AppendSet
    <3> QED BY <3>1, <3>5, <3>6
  <2> QED BY <2>1 DEF Next, vars, Enqueue, RemoveItem, PopNext, Clear, Stop, Load
<1>4. /\ \A s : Durable!ToSet(s) = ToSet(s)
      /\ Durable!Settled = Settled /\ Durable!Settled' = Settled'
  BY DurableOperators DEF Durable!Settled, Settled
<1> QED BY <1>1, <1>2, <1>3, <1>4 DEF Durable!Degraded, Waiting

(* While no save has failed, each operation is one of the abstract ones. *)
LEMMA EnqueueRefines ==
  ASSUME IInv, NEW root \in Roots, Enqueue(root), failures = 0, SaveOk
  PROVE  Durable!Accept
<1>1. /\ up /\ up' /\ items \in Seq(Item) /\ nextId \in Nat
      /\ UNCHANGED <<handed, withdrawn>> /\ Len(items) < MaxQueue
  BY DEF IInv, TypeOK, Enqueue, Admit
<1> DEFINE id == nextId + 1
           new == [id |-> id, root |-> root]
<1>2. items' = Append(items, new) /\ new \in Item /\ new.id = id /\ id \in Nat
  BY <1>1 DEF Enqueue, Item
<1>3. IdSeq(items') = Append(IdSeq(items), id)
  BY <1>1, <1>2, IdSeqAppend
<1>4. /\ IdSeq(items) \in Seq(Nat) /\ Len(IdSeq(items)) = Len(items)
      /\ ToSet(IdSeq(items)) = Ids(items)
  BY <1>1, IdSeqFacts
<1>5. id \in ToSet(IdSeq(items'))
  BY <1>2, <1>3, <1>4, AppendSet
<1>6. id \notin Ids(items) /\ id \notin Settled
  BY <1>1 DEF IInv, Sound
<1>7. Durable!Settled = Settled /\ \A s : Durable!ToSet(s) = ToSet(s)
  BY DurableOperators DEF Durable!Settled, Settled
<1> QED BY <1>1, <1>3, <1>4, <1>5, <1>6, <1>7 DEF Durable!Accept

LEMMA PopNextRefines ==
  ASSUME IInv, PopNext, SaveOk, handed' = Append(handed, Head(items).id)
  PROVE  Durable!HandOut
<1>1. up /\ up' /\ items \in Seq(Item) /\ items # <<>> /\ items' = Tail(items)
  BY DEF IInv, TypeOK, PopNext
<1>2. Without(items', items, 1) /\ 1 \in DOMAIN items /\ Head(items) = items[1]
  BY <1>1, TailWithout
<1>3. IdSeq(items') = Tail(IdSeq(items))
  BY <1>1, <1>2, IdSeqWithout
<1>4. IdSeq(items)[1] = Head(items).id /\ IdSeq(items) # <<>>
      /\ Head(IdSeq(items)) = IdSeq(items)[1]
  <2>1. IdSeq(items) \in Seq(Nat) /\ 1 \in DOMAIN IdSeq(items)
        /\ IdSeq(items)[1] = items[1].id
    BY <1>1, <1>2, IdSeqFacts
  <2>2. IdSeq(items) # <<>>
    BY <2>1
  <2> QED BY <1>2, <2>1, <2>2
<1> QED BY <1>1, <1>3, <1>4 DEF Durable!HandOut, PopNext

LEMMA RemoveItemRefines ==
  ASSUME IInv, NEW i \in DOMAIN items, RemoveItem(i), SaveOk,
         withdrawn' = withdrawn \cup {items[i].id}
  PROVE  Durable!Withdraw
<1>1. up /\ up' /\ items \in Seq(Item) /\ items' = RemoveAt(items, i) /\ UNCHANGED handed
  BY DEF IInv, TypeOK, RemoveItem
<1>2. IdSeq(items') = RemoveAt(IdSeq(items), i)
  BY <1>1, RemoveAtWithout, IdSeqWithout
<1>3. i \in DOMAIN IdSeq(items) /\ IdSeq(items)[i] = items[i].id
  BY <1>1, IdSeqFacts
<1>4. IdSeq(items') = Durable!RemoveAt(IdSeq(items), i)
  BY <1>2, DurableOperators
<1> QED BY <1>1, <1>3, <1>4 DEF Durable!Withdraw

LEMMA ClearRefines ==
  ASSUME IInv, Clear, SaveOk, withdrawn' = withdrawn \cup Ids(items)
  PROVE  Durable!Withdraw
<1>1. up /\ up' /\ items \in Seq(Item) /\ items' = <<>> /\ UNCHANGED handed
  BY DEF IInv, TypeOK, Clear
<1>2. IdSeq(items') = <<>>
  BY <1>1 DEF IdSeq
<1>3. Durable!ToSet(IdSeq(items)) = Ids(items)
  BY <1>1, IdSeqFacts, DurableOperators
<1> QED BY <1>1, <1>2, <1>3 DEF Durable!Withdraw

(* The queue implements DurableQueue: every operation that can save is one *)
(* atomic operation of a queue without processes, a stop and a start of    *)
(* the server are invisible, and a failed save leaves at-most-once.        *)
THEOREM QueueIsDurable == Spec => IsDurable
<1>1. Init => Durable!Init
  BY DEF Init, Durable!Init, IdSeq
<1>2. IInv /\ IInv' /\ [Next]_vars => [Durable!Next]_(Durable!vars)
  <2> SUFFICES ASSUME IInv, IInv', [Next]_vars
               PROVE  Durable!Next \/ UNCHANGED Durable!vars
    OBVIOUS
  <2>1. CASE failures' # 0
    BY <2>1, DegradedStep DEF Durable!Next
  <2>2. CASE failures' = 0
    <3>1. failures \in Nat /\ failures = 0
      <4>1. SaveOk \/ SaveFail \/ UNCHANGED failures
        BY DEF Next, vars, Enqueue, RemoveItem, PopNext, Clear, Stop, Load
      <4>2. failures \in Nat
        BY DEF IInv, TypeOK
      <4>3. failures' = failures \/ failures' = failures + 1
        BY <4>1 DEF SaveOk, SaveFail
      <4> QED BY <2>2, <4>2, <4>3
    <3>2. ~SaveFail
      BY <2>2, <3>1 DEF SaveFail
    <3>3. ASSUME NEW root \in Roots, Enqueue(root) PROVE Durable!Accept
      BY <3>1, <3>2, <3>3, EnqueueRefines DEF Enqueue
    <3>4. ASSUME NEW i \in DOMAIN items, RemoveItem(i) PROVE Durable!Withdraw
      BY <3>2, <3>4, RemoveItemRefines DEF RemoveItem
    <3>5. ASSUME PopNext PROVE Durable!HandOut
      BY <3>2, <3>5, PopNextRefines DEF PopNext
    <3>6. ASSUME Clear PROVE Durable!Withdraw
      BY <3>2, <3>6, ClearRefines DEF Clear
    <3>7. CASE Stop \/ Load \/ UNCHANGED vars
      <4>1. UNCHANGED <<file, failures, handed, withdrawn>> /\ (up => file = items)
        BY <3>1, <3>7 DEF Stop, Load, vars, IInv
      <4>2. Waiting' = Waiting
        BY <3>7, <4>1 DEF Stop, Load, Loaded, vars, Waiting
      <4> QED BY <4>1, <4>2 DEF Durable!vars, Waiting
    <3> QED BY <2>2, <3>1, <3>3, <3>4, <3>5, <3>6, <3>7
            DEF Next, Durable!Next
  <2> QED BY <2>1, <2>2
<1> QED BY <1>1, <1>2, SpecIInv, PTL DEF Spec, IsDurable, Durable!Spec
=============================================================================

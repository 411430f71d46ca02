--------------------------- MODULE EventListProofs ---------------------------
(***************************************************************************)
(* What the list operations of fuse/event.c keep, for every list: its      *)
(* type, its order, and its entries.                                       *)
(***************************************************************************)
EXTENDS EventList, FiniteSetTheorems, SequenceTheorems, TLAPS

\* The time bound under which event_add_cmp compares as unsigned integers do.
Timed(s) == \A i \in 1 .. Len(s) : s[i].tstates \in 0 .. Half - 1

\* The natural numbers are well ordered.
LEMMA LeastElement ==
  ASSUME NEW S, S \subseteq Nat, S # {}
  PROVE  \E n \in S : \A m \in S : n <= m
<1> DEFINE Initial == {0 .. m : m \in S}
           Order == StrictSubsetOrdering(Nat)
<1>1. Initial # {} /\ Initial \subseteq FiniteSubsetsOf(Nat)
  <2>1. ASSUME NEW m \in S  PROVE 0 .. m \in FiniteSubsetsOf(Nat)
    <3>1. 0 \in Int /\ m \in Int /\ 0 .. m \subseteq Nat
      OBVIOUS
    <3>2. IsFiniteSet(0 .. m)
      BY <3>1, FS_Interval, Zenon
    <3> QED BY <3>1, <3>2, Zenon DEF FiniteSubsetsOf
  <2> QED BY <2>1
<1>2. IsWellFoundedOn(Order, FiniteSubsetsOf(Nat))
  BY FS_StrictSubsetOrderingWellFounded
<1>3. PICK I \in Initial : \A J \in Initial : ~ (<<J, I>> \in Order)
  <2> HIDE DEF Initial, Order
  <2> QED BY <1>1, <1>2, WFMin
<1>4. PICK n \in S : I = 0 .. n
  BY <1>3
<1>5. ASSUME NEW m \in S, m < n  PROVE FALSE
  <2>1. ~ (<<0 .. m, 0 .. n>> \in Order)
    BY <1>3, <1>4
  <2>2. 0 .. m \subseteq 0 .. n /\ n \in 0 .. n /\ n \notin 0 .. m
    BY <1>5
  <2> QED BY <2>1, <2>2 DEF StrictSubsetOrdering
<1> QED
  BY <1>5

\* g_slist_insert_sorted always finds its place, and the entry before it does
\* not follow the new one.
LEMMA InsertPositionExists ==
  ASSUME NEW T, NEW s \in Seq(T), NEW e \in T
  PROVE  /\ InsertPosition(s, e) \in 1 .. Len(s) + 1
         /\ \/ InsertPosition(s, e) = Len(s) + 1
            \/ CmpNotAfter(e, s[InsertPosition(s, e)])
         /\ \A j \in 1 .. InsertPosition(s, e) - 1 : ~ CmpNotAfter(e, s[j])
<1> DEFINE P(i) == i = Len(s) + 1 \/ CmpNotAfter(e, s[i])
           Places == {i \in 1 .. Len(s) + 1 : P(i)}
<1>1. Len(s) \in Nat
  BY LenProperties
<1>2. Places \subseteq Nat /\ Len(s) + 1 \in Places
  BY <1>1
<1>3. PICK n \in Places : \A m \in Places : n <= m
  <2> HIDE DEF Places
  <2> QED BY <1>2, LeastElement
<1>4. \A j \in 1 .. n - 1 : ~ CmpNotAfter(e, s[j])
  BY <1>1, <1>3
<1>5. \E i \in 1 .. Len(s) + 1 :
        /\ i = Len(s) + 1 \/ CmpNotAfter(e, s[i])
        /\ \A j \in 1 .. i - 1 : ~ CmpNotAfter(e, s[j])
  BY <1>3, <1>4
<1> QED
  BY <1>5, Zenon DEF InsertPosition

\* event_add_with_data puts the new entry in one place and moves the others up.
LEMMA AddedEntries ==
  ASSUME NEW T, NEW s \in Seq(T), NEW e \in T, NEW next
  PROVE  \E p \in 1 .. Len(s) + 1 :
           /\ Added(s, next, e) \in Seq(T)
           /\ Len(Added(s, next, e)) = Len(s) + 1
           /\ \A i \in 1 .. Len(s) + 1 :
                Added(s, next, e)[i] =
                  IF i < p THEN s[i] ELSE IF i = p THEN e ELSE s[i - 1]
           /\ \/ e.tstates < next /\ p = 1
              \/ /\ ~ (e.tstates < next)
                 /\ p = Len(s) + 1 \/ CmpNotAfter(e, s[p])
                 /\ \A j \in 1 .. p - 1 : ~ CmpNotAfter(e, s[j])
<1>0. Len(s) \in Nat
  BY LenProperties
<1>1. CASE e.tstates < next
  <2>1. Added(s, next, e) = <<e>> \o s
    BY <1>1 DEF Added
  <2> QED BY <1>0, <1>1, <2>1
<1>2. CASE ~ (e.tstates < next)
  <2> DEFINE p == InsertPosition(s, e)
  <2>1. Added(s, next, e) = InsertBefore(s, p, e)
    BY <1>2 DEF Added
  <2>2. /\ p \in 1 .. Len(s) + 1
        /\ p = Len(s) + 1 \/ CmpNotAfter(e, s[p])
        /\ \A j \in 1 .. p - 1 : ~ CmpNotAfter(e, s[j])
    BY InsertPositionExists
  <2> HIDE DEF p
  <2>3. /\ InsertBefore(s, p, e) \in Seq(T)
        /\ Len(InsertBefore(s, p, e)) = Len(s) + 1
        /\ \A i \in 1 .. Len(s) + 1 :
             InsertBefore(s, p, e)[i] =
               IF i < p THEN s[i] ELSE IF i = p THEN e ELSE s[i - 1]
    BY <1>0, <2>2 DEF InsertBefore
  <2> QED BY <1>2, <2>1, <2>2, <2>3
<1> QED
  BY <1>1, <1>2

\* event_add_cmp agrees with the order of times below Half.
LEMMA CmpIsOrder ==
  ASSUME NEW a, NEW b, a.tstates \in 0 .. Half - 1, b.tstates \in 0 .. Half - 1
  PROVE  /\ CmpNotAfter(a, b) => a.tstates <= b.tstates
         /\ ~ CmpNotAfter(a, b) => b.tstates <= a.tstates
BY HalfAssumption DEF CmpNotAfter, Minus

\* event_add_with_data keeps the list ordered and the cached time right.
LEMMA AddedOrdered ==
  ASSUME NEW T, NEW s \in Seq(T), NEW e \in T,
         Timed(s), Ordered(s), e.tstates \in 0 .. Half - 1,
         NEW next, next = NextOf(s)
  PROVE  /\ Ordered(Added(s, next, e))
         /\ NextOf(Added(s, next, e)) =
              IF e.tstates < next THEN e.tstates ELSE next
<1> DEFINE r == Added(s, next, e)
<1>0. Len(s) \in Nat
  BY LenProperties
<1>1. PICK p \in 1 .. Len(s) + 1 :
        /\ r \in Seq(T)
        /\ Len(r) = Len(s) + 1
        /\ \A i \in 1 .. Len(s) + 1 :
             r[i] = IF i < p THEN s[i] ELSE IF i = p THEN e ELSE s[i - 1]
        /\ \/ e.tstates < next /\ p = 1
           \/ /\ ~ (e.tstates < next)
              /\ p = Len(s) + 1 \/ CmpNotAfter(e, s[p])
              /\ \A j \in 1 .. p - 1 : ~ CmpNotAfter(e, s[j])
  BY AddedEntries
<1> HIDE DEF r
<1>2. \A i \in 1 .. Len(s) : s[1].tstates <= s[i].tstates /\ s[i].tstates \in 0 .. Half - 1
  BY <1>0 DEF Ordered, Timed
<1>3. /\ Len(s) = 0 => s = << >>
      /\ Len(s) # 0 => s # << >> /\ Head(s) = s[1]
  BY <1>0
<1>4. /\ Len(s) = 0 => next = event_no_events
      /\ Len(s) # 0 => next = s[1].tstates
  BY <1>3 DEF NextOf
<1>5. \A j \in 1 .. p - 1 : s[j].tstates <= e.tstates
  <2>1. CASE p = 1
    BY <2>1
  <2>2. CASE \A j \in 1 .. p - 1 : ~ CmpNotAfter(e, s[j])
    BY <1>0, <1>2, <2>2, CmpIsOrder
  <2> QED BY <1>1, <2>1, <2>2
<1>6. \A j \in p .. Len(s) : e.tstates <= s[j].tstates
  <2>1. CASE e.tstates < next /\ p = 1
    BY <1>0, <1>2, <1>4, <2>1
  <2>2. CASE p = Len(s) + 1
    BY <1>0, <2>2
  <2>3. CASE p # Len(s) + 1 /\ CmpNotAfter(e, s[p])
    <3>1. e.tstates <= s[p].tstates
      BY <1>0, <1>2, <2>3, CmpIsOrder
    <3>2. \A j \in p .. Len(s) : s[p].tstates <= s[j].tstates
      BY <1>0 DEF Ordered
    <3> QED BY <1>0, <1>2, <3>1, <3>2
  <2> QED BY <1>1, <2>1, <2>2, <2>3
<1>7. Ordered(r)
  <2> SUFFICES ASSUME NEW i \in 1 .. Len(s) + 1, NEW j \in 1 .. Len(s) + 1, i <= j
               PROVE  r[i].tstates <= r[j].tstates
    BY <1>1 DEF Ordered
  <2>1. \A m, n \in 1 .. Len(s) : m <= n => s[m].tstates <= s[n].tstates
    BY DEF Ordered
  <2>2. CASE i = p
    <3>1. CASE j = p
      BY <1>1, <2>2, <3>1, HalfAssumption
    <3>2. CASE j # p
      <4>1. r[i] = e /\ r[j] = s[j - 1] /\ j - 1 \in p .. Len(s)
        BY <1>0, <1>1, <2>2, <3>2
      <4> QED BY <1>6, <4>1
    <3> QED BY <3>1, <3>2
  <2>3. CASE j = p
    BY <1>0, <1>1, <1>5, <2>3
  <2>4. CASE i < p /\ p < j
    <3>1. r[i] = s[i] /\ r[j] = s[j - 1]
      BY <1>0, <1>1, <2>4
    <3>2. i \in 1 .. Len(s) /\ j - 1 \in 1 .. Len(s) /\ i <= j - 1
      BY <1>0, <2>4
    <3> QED BY <2>1, <3>1, <3>2
  <2>5. CASE p < i
    <3>1. r[i] = s[i - 1] /\ r[j] = s[j - 1]
      BY <1>0, <1>1, <2>5
    <3>2. i - 1 \in 1 .. Len(s) /\ j - 1 \in 1 .. Len(s) /\ i - 1 <= j - 1
      BY <1>0, <2>5
    <3> QED BY <2>1, <3>1, <3>2
  <2>6. CASE j < p
    BY <1>0, <1>1, <2>1, <2>6
  <2> QED BY <1>0, <2>2, <2>3, <2>4, <2>5, <2>6
<1>8. NextOf(r) = r[1].tstates
  BY <1>0, <1>1 DEF NextOf
<1>9. NextOf(r) = IF e.tstates < next THEN e.tstates ELSE next
  <2>1. CASE p = 1
    <3>1. r[1] = e
      BY <1>0, <1>1, <2>1
    <3>2. CASE e.tstates < next
      BY <1>8, <3>1, <3>2
    <3>3. CASE ~ (e.tstates < next)
      <4>1. Len(s) # 0 => e.tstates <= s[1].tstates
        BY <1>0, <1>6, <2>1
      <4>2. e.tstates < event_no_events
        BY HalfAssumption DEF event_no_events
      <4> QED BY <1>0, <1>2, <1>4, <1>8, <3>1, <3>3, <4>1, <4>2
    <3> QED BY <3>2, <3>3
  <2>2. CASE p # 1
    BY <1>0, <1>1, <1>4, <1>8, <2>2
  <2> QED BY <2>1, <2>2
<1> QED
  BY <1>7, <1>9 DEF r

\* Taking the head off the list leaves an ordered list.
LEMMA TailOrdered ==
  ASSUME NEW T, NEW s \in Seq(T), s # << >>, Ordered(s)
  PROVE  /\ Tail(s) \in Seq(T)
         /\ Len(Tail(s)) = Len(s) - 1
         /\ \A i \in 1 .. Len(s) - 1 : Tail(s)[i] = s[i + 1]
         /\ Ordered(Tail(s))
<1>1. /\ Tail(s) \in Seq(T)
      /\ Len(s) \in Nat
      /\ Len(Tail(s)) = Len(s) - 1
      /\ \A i \in 1 .. Len(Tail(s)) : Tail(s)[i] = s[i + 1]
  BY HeadTailProperties, LenProperties
<1>2. ASSUME NEW i \in 1 .. Len(Tail(s)), NEW j \in 1 .. Len(Tail(s)), i <= j
      PROVE  Tail(s)[i].tstates <= Tail(s)[j].tstates
  <2>1. /\ i + 1 \in 1 .. Len(s) /\ j + 1 \in 1 .. Len(s) /\ i + 1 <= j + 1
        /\ Tail(s)[i] = s[i + 1] /\ Tail(s)[j] = s[j + 1]
    BY <1>1, <1>2
  <2> QED BY <2>1 DEF Ordered
<1> QED
  BY <1>1, <1>2 DEF Ordered

=============================================================================

---------------------------- MODULE SystemProofs ----------------------------
(***************************************************************************)
(* What System promises holds for any number of Writers and Readers, any   *)
(* arguments and any sizes of the device.  The inductive invariant adds to *)
(* the properties that the device holds the items of each Writer in order, *)
(* later than all items that were taken, and that a terminator is the last *)
(* item of its Writer and of the Reader that takes it.                     *)
(***************************************************************************)
EXTENDS System, FiniteSetTheorems, TLAPS

(* The limits of the Writers that have not ended *)
WithinLimit ==
  \A w \in Writers : limit[w] # 0 /\ w \notin over => made[w] <= limit[w]

(* Items that are somewhere were made, by a Writer that was started *)
Made(e) == e.from \in present /\ e.no <= made[e.from]

(* A terminator is the last item of its Writer *)
Last(e) == e.done => e.from \in over /\ e.no = made[e.from]

Known ==
  /\ \A i \in 1 .. Len(q) : Made(q[i]) /\ Last(q[i])
  /\ \A r \in Readers : \A i \in 1 .. Len(got[r]) : Made(got[r][i]) /\ Last(got[r][i])

InOrder ==
  /\ \A i, j \in 1 .. Len(q) : i < j /\ q[i].from = q[j].from => q[i].no < q[j].no
  /\ \A r \in Readers : \A i \in 1 .. Len(got[r]) : \A j \in 1 .. Len(q) :
       got[r][i].from = q[j].from => got[r][i].no < q[j].no

SInv == SysTypeOK /\ WithinLimit /\ Known /\ InOrder /\ OnceInOrder /\ NothingVanishes

(* Appending an item, and taking the first one. *)
LEMMA ItemAppended ==
  ASSUME NEW S, NEW s \in Seq(S), NEW e \in S
  PROVE  /\ Append(s, e) \in Seq(S)
         /\ Len(s) \in Nat
         /\ Len(Append(s, e)) = Len(s) + 1
         /\ \A i \in 1 .. Len(s) : s[i] \in S /\ Append(s, e)[i] = s[i]
         /\ Append(s, e)[Len(s) + 1] = e
OBVIOUS

LEMMA ItemTaken ==
  ASSUME NEW S, NEW s \in Seq(S), s # <<>>
  PROVE  /\ Tail(s) \in Seq(S)
         /\ Len(s) \in Nat \ {0}
         /\ Len(Tail(s)) = Len(s) - 1
         /\ Head(s) = s[1] /\ Head(s) \in S
         /\ \A i \in 1 .. Len(s) : s[i] \in S
         /\ \A i \in 1 .. Len(s) - 1 : Tail(s)[i] = s[i + 1]
OBVIOUS

(* A Writer makes its next item, and puts it into the device or loses it. *)
LEMMA PutStep ==
  ASSUME SInv, NEW w \in Writers, NEW d \in BOOLEAN,
         w \in present \ over,
         limit[w] # 0 => made[w] <= limit[w],
         made' = [made EXCEPT ![w] = @ + 1],
         Put(NewItem(w, d)),
         over' = IF d THEN over \cup {w} ELSE over,
         d \/ limit[w] = 0 \/ made[w] < limit[w],
         UNCHANGED <<present, limit, cap, got, missed, ended, cut, dropped>>
  PROVE  SInv'
<1>p. PICK e \in Item : e = NewItem(w, d)
  <2>1. made[w] + 1 \in Nat \ {0}
    BY DEF SInv, SysTypeOK
  <2>2. NewItem(w, d) \in Item
    BY <2>1, Zenon DEF NewItem, Item
  <2> QED BY <2>2
<1>e. e.from = w /\ e.no = made[w] + 1 /\ e.done = d
  BY <1>p DEF NewItem
<1>m. /\ made' \in [Writers -> Nat]
      /\ made'[w] = made[w] + 1 /\ made[w] \in Nat
      /\ \A v \in Writers : v # w => made'[v] = made[v]
  BY DEF SInv, SysTypeOK
<1>q. \/ q' = Append(q, e) /\ UNCHANGED <<lost, faults>>
      \/ lost' = lost \cup {e} /\ faults' = faults + 1 /\ UNCHANGED q
  BY <1>p DEF Put, Fault
<1>t. q \in Seq(Item)
  BY DEF SInv, SysTypeOK
<1>1. SysTypeOK'
  <2>1. q' \in Seq(Item) /\ lost' \subseteq Item /\ faults' \in Nat
    <3>1. lost \subseteq Item /\ faults \in Nat
      BY DEF SInv, SysTypeOK
    <3>2. Append(q, e) \in Seq(Item)
      BY <1>p, <1>t, ItemAppended
    <3> QED BY <1>p, <1>q, <1>t, <3>1, <3>2
  <2>2. over' \subseteq Writers
    BY DEF SInv, SysTypeOK
  <2>3. \A v \in Writers : limit'[v] # 0 => made'[v] <= limit'[v] + 1
    BY <1>m DEF SInv, SysTypeOK
  <2> QED BY <1>m, <2>1, <2>2, <2>3 DEF SInv, SysTypeOK
<1>2. WithinLimit'
  BY <1>m DEF SInv, WithinLimit, SysTypeOK
<1>3. \A x \in Item : Made(x) /\ Last(x) => Made(x)' /\ Last(x)'
  <2> SUFFICES ASSUME NEW x \in Item, Made(x), Last(x)
               PROVE  Made(x)' /\ Last(x)'
    OBVIOUS
  <2>1. x.from \in Writers /\ x.no \in Nat
    BY DEF Item
  <2>2. Made(x)'
    BY <1>m, <2>1 DEF Made
  <2>3. x.done => x.from # w
    BY DEF Last
  <2>4. Last(x)'
    BY <1>m, <2>1, <2>3 DEF Last
  <2> QED BY <2>2, <2>4
<1>4. Made(e)' /\ Last(e)'
  BY <1>e, <1>m DEF Made, Last
<1>5. \A r \in Readers : \A i \in 1 .. Len(got[r]) : got[r][i] \in Item
  BY DEF SInv, SysTypeOK
<1>6. \A i \in 1 .. Len(q) : q[i] \in Item
  BY <1>t
<1>7. Known'
  <2>1. \A r \in Readers : \A i \in 1 .. Len(got[r]) : Made(got[r][i])' /\ Last(got[r][i])'
    BY <1>3, <1>5 DEF SInv, Known
  <2>3. \A i \in 1 .. Len(q') : q'[i] = e \/ \E j \in 1 .. Len(q) : q'[i] = q[j]
    BY <1>q, <1>t, <1>p, ItemAppended
  <2>4. ASSUME NEW i \in 1 .. Len(q')
        PROVE  (Made(q[i]) /\ Last(q[i]))'
    <3>1. CASE q'[i] = e
      BY <1>4, <3>1 DEF Made, Last
    <3>2. ASSUME NEW j \in 1 .. Len(q), q'[i] = q[j]
          PROVE  (Made(q[i]) /\ Last(q[i]))'
      <4>1. PICK x \in Item : x = q[j]
        BY <1>6
      <4>2. Made(x)' /\ Last(x)'
        BY <1>3, <4>1 DEF SInv, Known
      <4> QED BY <3>2, <4>1, <4>2 DEF Made, Last
    <3> QED BY <2>3, <3>1, <3>2
  <2>5. \A r \in Readers : \A i \in 1 .. Len(got'[r]) : (Made(got[r][i]) /\ Last(got[r][i]))'
    BY <2>1
  <2> QED BY <2>4, <2>5, Zenon DEF Known
<1>8. InOrder'
  <2>1. \A i \in 1 .. Len(q) : q[i].from \in Writers /\ q[i].no \in Nat /\ q[i].no <= made[q[i].from]
    BY <1>6 DEF SInv, Known, Made, Item
  <2>2. \A r \in Readers : \A i \in 1 .. Len(got[r]) :
          got[r][i].from \in Writers /\ got[r][i].no \in Nat /\ got[r][i].no <= made[got[r][i].from]
    BY <1>5 DEF SInv, Known, Made, Item
  <2>3. CASE UNCHANGED q
    BY <2>3 DEF SInv, InOrder
  <2>4. CASE q' = Append(q, e)
    <3>1. /\ Len(q) \in Nat /\ Len(q') = Len(q) + 1
          /\ \A i \in 1 .. Len(q) : q'[i] = q[i]
          /\ q'[Len(q) + 1] = e
      BY <1>p, <1>t, <2>4, ItemAppended
    <3>2. /\ \A i \in 1 .. Len(q') : i \in 1 .. Len(q) \/ i = Len(q) + 1
          /\ \A i, j \in 1 .. Len(q') : i < j => i \in 1 .. Len(q)
      BY <3>1
    <3>3. \A i, j \in 1 .. Len(q') : i < j /\ q'[i].from = q'[j].from => q'[i].no < q'[j].no
      <4> SUFFICES ASSUME NEW i \in 1 .. Len(q'), NEW j \in 1 .. Len(q'), i < j, q'[i].from = q'[j].from
                   PROVE  q'[i].no < q'[j].no
        OBVIOUS
      <4>1. i \in 1 .. Len(q) /\ q'[i] = q[i]
        BY <3>1, <3>2
      <4>2. CASE j \in 1 .. Len(q)
        BY <3>1, <4>1, <4>2 DEF SInv, InOrder
      <4>3. CASE j = Len(q) + 1
        BY <1>e, <1>m, <2>1, <3>1, <4>1, <4>3
      <4> QED BY <3>2, <4>2, <4>3
    <3>4. ASSUME NEW r \in Readers, NEW i \in 1 .. Len(got[r]), NEW j \in 1 .. Len(q'),
                 got[r][i].from = q'[j].from
          PROVE  got[r][i].no < q'[j].no
      <4>1. CASE j \in 1 .. Len(q)
        BY <3>1, <3>4, <4>1 DEF SInv, InOrder
      <4>2. CASE j = Len(q) + 1
        BY <1>e, <1>m, <2>2, <3>1, <3>4, <4>2
      <4> QED BY <3>2, <4>1, <4>2
    <3>5. got' = got
      OBVIOUS
    <3> QED BY <3>3, <3>4, <3>5 DEF InOrder
  <2> QED BY <1>q, <2>3, <2>4
<1>9. OnceInOrder'
  <2>1. got' = got
    OBVIOUS
  <2>2. \A r \in Readers : TakenBy(r)' = TakenBy(r)
    BY <2>1 DEF TakenBy
  <2> QED BY <2>1, <2>2 DEF SInv, OnceInOrder
<1>10. NothingVanishes'
  <2> DEFINE P == InDevice \cup lost \cup dropped \cup UNION {TakenBy(r) : r \in Readers}
  <2>1. e \in P' /\ P \subseteq P'
    <3>1. InDevice \subseteq InDevice' /\ (e \in InDevice' \/ e \in lost')
      BY <1>p, <1>q, <1>t, ItemAppended DEF InDevice
    <3>2. lost \subseteq lost' /\ dropped' = dropped
      BY <1>q
    <3>3. UNION {TakenBy(r) : r \in Readers}' = UNION {TakenBy(r) : r \in Readers}
      BY DEF TakenBy
    <3> QED BY <3>1, <3>2, <3>3
  <2>2. \A v \in Writers : \A n \in 1 .. made[v] : \E x \in P : x.from = v /\ x.no = n
    BY DEF SInv, NothingVanishes
  <2> HIDE DEF P
  <2>3. \A v \in Writers : \A n \in 1 .. made'[v] : n \in 1 .. made[v] \/ (v = w /\ n = made[w] + 1)
    BY <1>m DEF SInv, SysTypeOK
  <2>4. \A v \in Writers : \A n \in 1 .. made'[v] : \E x \in P' : x.from = v /\ x.no = n
    BY <1>e, <2>1, <2>2, <2>3
  <2> USE DEF P
  <2> QED BY <2>4 DEF NothingVanishes
<1> QED BY <1>1, <1>2, <1>7, <1>8, <1>9, <1>10 DEF SInv

(* The items of the device after its first one was taken: they are known,  *)
(* in order, and later than it.                                            *)
LEMMA DeviceTail ==
  ASSUME SInv, q # <<>>, q' = Tail(q), UNCHANGED <<present, made, over>>
  PROVE  /\ q' \in Seq(Item)
         /\ Head(q) \in Item /\ Made(Head(q)) /\ Last(Head(q))
         /\ \A i \in 1 .. Len(q') : (Made(q[i]) /\ Last(q[i]))'
         /\ \A i, j \in 1 .. Len(q') : i < j /\ q'[i].from = q'[j].from => q'[i].no < q'[j].no
         /\ \A j \in 1 .. Len(q') : Head(q).from = q'[j].from => Head(q).no < q'[j].no
         /\ \A s \in Readers : \A i \in 1 .. Len(got[s]) : \A j \in 1 .. Len(q') :
              got[s][i].from = q'[j].from => got[s][i].no < q'[j].no
         /\ \A s \in Readers : \A i \in 1 .. Len(got[s]) :
              got[s][i].from = Head(q).from => got[s][i].no < Head(q).no
         /\ InDevice \subseteq InDevice' \cup {Head(q)}
<1>1. /\ q' \in Seq(Item)
      /\ Len(q) \in Nat \ {0} /\ Len(q') = Len(q) - 1
      /\ Head(q) = q[1] /\ Head(q) \in Item
      /\ \A i \in 1 .. Len(q') : q'[i] = q[i + 1]
  BY ItemTaken DEF SInv, SysTypeOK
<1>2. 1 \in 1 .. Len(q) /\ \A i \in 1 .. Len(q') : i + 1 \in 1 .. Len(q) /\ 1 < i + 1
  BY <1>1
<1>3. /\ \A i \in 1 .. Len(q) : Made(q[i]) /\ Last(q[i])
      /\ \A i, j \in 1 .. Len(q) : i < j /\ q[i].from = q[j].from => q[i].no < q[j].no
      /\ \A s \in Readers : \A i \in 1 .. Len(got[s]) : \A j \in 1 .. Len(q) :
           got[s][i].from = q[j].from => got[s][i].no < q[j].no
  BY DEF SInv, Known, InOrder
<1>4. Made(Head(q)) /\ Last(Head(q))
  BY <1>1, <1>2, <1>3
<1>5. \A i \in 1 .. Len(q') : (Made(q[i]) /\ Last(q[i]))'
  <2> SUFFICES ASSUME NEW i \in 1 .. Len(q') PROVE (Made(q[i]) /\ Last(q[i]))'
    OBVIOUS
  <2>1. Made(q[i + 1]) /\ Last(q[i + 1]) /\ q'[i] = q[i + 1]
    BY <1>1, <1>2, <1>3
  <2> QED BY <2>1 DEF Made, Last
<1>6. \A i, j \in 1 .. Len(q') : i < j /\ q'[i].from = q'[j].from => q'[i].no < q'[j].no
  BY <1>1, <1>2, <1>3
<1>7. \A j \in 1 .. Len(q') : Head(q).from = q'[j].from => Head(q).no < q'[j].no
  BY <1>1, <1>2, <1>3
<1>8. \A s \in Readers : \A i \in 1 .. Len(got[s]) : \A j \in 1 .. Len(q') :
        got[s][i].from = q'[j].from => got[s][i].no < q'[j].no
  BY <1>1, <1>2, <1>3
<1>9. \A s \in Readers : \A i \in 1 .. Len(got[s]) :
        got[s][i].from = Head(q).from => got[s][i].no < Head(q).no
  BY <1>1, <1>2, <1>3
<1>10. InDevice \subseteq InDevice' \cup {Head(q)}
  <2> SUFFICES ASSUME NEW i \in 1 .. Len(q) PROVE q[i] \in InDevice' \cup {Head(q)}
    BY DEF InDevice
  <2>1. CASE i = 1
    BY <1>1, <2>1
  <2>2. CASE i # 1
    <3>1. i - 1 \in 1 .. Len(q') /\ q'[i - 1] = q[i]
      BY <1>1, <2>2
    <3> QED BY <3>1 DEF InDevice
  <2> QED BY <2>1, <2>2
<1> QED BY <1>1, <1>4, <1>5, <1>6, <1>7, <1>8, <1>9, <1>10

(* A Reader takes the first item of the device. *)
LEMMA ReadStringStep ==
  ASSUME SInv, NEW r \in Readers, ReadString(r)
  PROVE  SInv'
<1>0. /\ q # <<>> /\ q' = Tail(q)
      /\ got' = [got EXCEPT ![r] = Append(@, Head(q))]
      /\ ended' \in {ended, ended \cup {r}}
      /\ UNCHANGED <<present, limit, cap, made, over, missed, cut, lost, dropped, faults>>
  BY DEF ReadString
<1>q. /\ q' \in Seq(Item)
      /\ Made(Head(q)) /\ Last(Head(q))
      /\ \A i \in 1 .. Len(q') : (Made(q[i]) /\ Last(q[i]))'
      /\ \A i, j \in 1 .. Len(q') : i < j /\ q'[i].from = q'[j].from => q'[i].no < q'[j].no
      /\ \A j \in 1 .. Len(q') : Head(q).from = q'[j].from => Head(q).no < q'[j].no
      /\ \A s \in Readers : \A i \in 1 .. Len(got[s]) : \A j \in 1 .. Len(q') :
           got[s][i].from = q'[j].from => got[s][i].no < q'[j].no
      /\ \A s \in Readers : \A i \in 1 .. Len(got[s]) :
           got[s][i].from = Head(q).from => got[s][i].no < Head(q).no
      /\ InDevice \subseteq InDevice' \cup {Head(q)}
  BY <1>0, DeviceTail
<1>p. PICK e \in Item : e = Head(q)
  BY <1>0, DeviceTail
<1>g. /\ got' \in [Readers -> Seq(Item)]
      /\ Len(got[r]) \in Nat /\ Len(got'[r]) = Len(got[r]) + 1
      /\ \A i \in 1 .. Len(got[r]) : got'[r][i] = got[r][i]
      /\ got'[r][Len(got[r]) + 1] = e
      /\ \A s \in Readers : s # r => got'[s] = got[s]
  <2>1. got \in [Readers -> Seq(Item)] /\ got[r] \in Seq(Item)
    BY DEF SInv, SysTypeOK
  <2>2. got' = [got EXCEPT ![r] = Append(got[r], e)]
    BY <1>0, <1>p
  <2>3. /\ Append(got[r], e) \in Seq(Item)
        /\ Len(got[r]) \in Nat
        /\ Len(Append(got[r], e)) = Len(got[r]) + 1
        /\ \A i \in 1 .. Len(got[r]) : Append(got[r], e)[i] = got[r][i]
        /\ Append(got[r], e)[Len(got[r]) + 1] = e
    BY <2>1, <1>p, ItemAppended
  <2>4. got'[r] = Append(got[r], e) /\ \A s \in Readers : s # r => got'[s] = got[s]
    BY <2>1, <2>2
  <2>5. got' \in [Readers -> Seq(Item)]
    BY <2>1, <2>2, <2>3
  <2> QED BY <2>3, <2>4, <2>5
<1>h. \A s \in Readers : \A i \in 1 .. Len(got'[s]) :
        \/ i \in 1 .. Len(got[s]) /\ got'[s][i] = got[s][i]
        \/ s = r /\ i = Len(got[r]) + 1 /\ got'[s][i] = e
  <2> SUFFICES ASSUME NEW s \in Readers, NEW i \in 1 .. Len(got'[s])
               PROVE  \/ i \in 1 .. Len(got[s]) /\ got'[s][i] = got[s][i]
                      \/ s = r /\ i = Len(got[r]) + 1 /\ got'[s][i] = e
    OBVIOUS
  <2>1. CASE s # r
    BY <1>g, <2>1
  <2>2. CASE s = r
    <3>1. i \in 1 .. Len(got[r]) \/ i = Len(got[r]) + 1
      BY <1>g, <2>2
    <3> QED BY <1>g, <2>2, <3>1
  <2> QED BY <2>1, <2>2
<1>1. SysTypeOK'
  <2>1. ended' \subseteq Readers
    BY <1>0 DEF SInv, SysTypeOK
  <2> QED BY <1>0, <1>q, <1>g, <2>1 DEF SInv, SysTypeOK
<1>2. WithinLimit'
  BY <1>0 DEF SInv, WithinLimit
<1>3. Known'
  <2>1. ASSUME NEW s \in Readers, NEW i \in 1 .. Len(got'[s])
        PROVE  (Made(got[s][i]) /\ Last(got[s][i]))'
    <3>1. Made(got'[s][i]) /\ Last(got'[s][i])
      BY <1>h, <1>q, <1>p DEF SInv, Known
    <3> QED BY <1>0, <3>1 DEF Made, Last
  <2> QED BY <1>q, <2>1 DEF Known
<1>4. InOrder'
  <2>1. ASSUME NEW s \in Readers, NEW i \in 1 .. Len(got'[s]), NEW j \in 1 .. Len(q'),
               got'[s][i].from = q'[j].from
        PROVE  got'[s][i].no < q'[j].no
    <3>1. CASE i \in 1 .. Len(got[s]) /\ got'[s][i] = got[s][i]
      BY <1>q, <2>1, <3>1
    <3>2. CASE got'[s][i] = e
      BY <1>q, <1>p, <2>1, <3>2
    <3> QED BY <1>h, <3>1, <3>2
  <2> QED BY <1>q, <2>1 DEF InOrder
<1>5. OnceInOrder'
  <2>1. ASSUME NEW s \in Readers, NEW i \in 1 .. Len(got'[s]), NEW j \in 1 .. Len(got'[s]),
               i < j, got'[s][i].from = got'[s][j].from
        PROVE  got'[s][i].no < got'[s][j].no
    <3>1. i \in 1 .. Len(got[s]) /\ got'[s][i] = got[s][i]
      BY <1>g, <1>h, <2>1
    <3>2. CASE j \in 1 .. Len(got[s]) /\ got'[s][j] = got[s][j]
      BY <2>1, <3>1, <3>2 DEF SInv, OnceInOrder
    <3>3. CASE got'[s][j] = e
      BY <1>q, <1>p, <2>1, <3>1, <3>3
    <3> QED BY <1>h, <3>2, <3>3
  <2>2. \A s \in Readers : e \notin TakenBy(s)
    <3> SUFFICES ASSUME NEW s \in Readers, NEW i \in 1 .. Len(got[s]), e = got[s][i]
                 PROVE  FALSE
      BY DEF TakenBy
    <3>1. got[s][i].no < e.no /\ e.no \in Nat
      BY <1>q, <1>p DEF Item
    <3> QED BY <3>1
  <2>3. \A s \in Readers : TakenBy(s)' \subseteq TakenBy(s) \cup (IF s = r THEN {e} ELSE {})
    BY <1>h DEF TakenBy
  <2>4. \A s, t \in Readers : s # t => TakenBy(s) \cap TakenBy(t) = {}
    BY DEF SInv, OnceInOrder
  <2>5. \A s, t \in Readers : s # t => TakenBy(s)' \cap TakenBy(t)' = {}
    BY <2>2, <2>3, <2>4
  <2> QED BY <2>1, <2>5 DEF OnceInOrder
<1>6. NothingVanishes'
  <2> DEFINE P == InDevice \cup lost \cup dropped \cup UNION {TakenBy(s) : s \in Readers}
  <2>1. P \subseteq P'
    <3>1. \A s \in Readers : TakenBy(s) \subseteq TakenBy(s)'
      <4> SUFFICES ASSUME NEW s \in Readers, NEW i \in 1 .. Len(got[s])
                   PROVE  \E j \in 1 .. Len(got'[s]) : got'[s][j] = got[s][i]
        BY DEF TakenBy
      <4> QED BY <1>g
    <3>2. e \in TakenBy(r)'
      BY <1>g DEF TakenBy
    <3> QED BY <1>0, <1>p, <1>q, <3>1, <3>2
  <2>2. \A v \in Writers : \A n \in 1 .. made[v] : \E x \in P : x.from = v /\ x.no = n
    BY DEF SInv, NothingVanishes
  <2> HIDE DEF P
  <2>3. \A v \in Writers : \A n \in 1 .. made'[v] : \E x \in P' : x.from = v /\ x.no = n
    BY <1>0, <2>1, <2>2
  <2> USE DEF P
  <2> QED BY <2>3 DEF NothingVanishes
<1> QED BY <1>1, <1>2, <1>3, <1>4, <1>5, <1>6 DEF SInv

(* A read fails: the item it took, if it took one, is dropped. *)
LEMMA ReadFailsStep ==
  ASSUME SInv, NEW r \in Readers, ReadFails(r)
  PROVE  SInv'
<1>0. /\ missed' = [missed EXCEPT ![r] = @ + 1]
      /\ faults' = faults + 1
      /\ UNCHANGED <<present, limit, cap, made, over, got, ended, cut, lost>>
  BY DEF ReadFails, Fault
<1>d. \/ q # <<>> /\ q' = Tail(q) /\ dropped' = dropped \cup {Head(q)}
      \/ UNCHANGED <<q, dropped>>
  BY DEF ReadFails
<1>q. /\ q' \in Seq(Item) /\ dropped' \subseteq Item
      /\ Known' /\ InOrder'
      /\ InDevice \cup dropped \subseteq InDevice' \cup dropped'
  <2>1. CASE UNCHANGED <<q, dropped>>
    <3>1. Known'
      BY <1>0, <2>1 DEF SInv, Known, Made, Last
    <3>2. InOrder'
      BY <1>0, <2>1 DEF SInv, InOrder
    <3> QED BY <2>1, <3>1, <3>2 DEF SInv, SysTypeOK, InDevice
  <2>2. CASE q # <<>> /\ q' = Tail(q) /\ dropped' = dropped \cup {Head(q)}
    <3>1. /\ q' \in Seq(Item) /\ Head(q) \in Item
          /\ \A i \in 1 .. Len(q') : (Made(q[i]) /\ Last(q[i]))'
          /\ \A i, j \in 1 .. Len(q') : i < j /\ q'[i].from = q'[j].from => q'[i].no < q'[j].no
          /\ \A s \in Readers : \A i \in 1 .. Len(got[s]) : \A j \in 1 .. Len(q') :
               got[s][i].from = q'[j].from => got[s][i].no < q'[j].no
          /\ InDevice \subseteq InDevice' \cup {Head(q)}
      BY <1>0, <2>2, DeviceTail
    <3>2. \A s \in Readers : \A i \in 1 .. Len(got'[s]) : (Made(got[s][i]) /\ Last(got[s][i]))'
      BY <1>0 DEF SInv, Known, Made, Last
    <3>3. Known'
      BY <3>1, <3>2 DEF Known
    <3>4. InOrder'
      BY <1>0, <3>1 DEF InOrder
    <3>5. dropped \subseteq Item
      BY DEF SInv, SysTypeOK
    <3> QED BY <2>2, <3>1, <3>3, <3>4, <3>5
  <2> QED BY <1>d, <2>1, <2>2
<1>1. SysTypeOK'
  <2>1. missed' \in [Readers -> Nat] /\ faults' \in Nat
    BY <1>0 DEF SInv, SysTypeOK
  <2> QED BY <1>0, <1>q, <2>1 DEF SInv, SysTypeOK
<1>2. WithinLimit'
  BY <1>0 DEF SInv, WithinLimit
<1>3. \A s \in Readers : TakenBy(s)' = TakenBy(s)
  BY <1>0 DEF TakenBy
<1>4. OnceInOrder'
  BY <1>0, <1>3 DEF SInv, OnceInOrder
<1>5. NothingVanishes'
  <2> DEFINE P == InDevice \cup lost \cup dropped \cup UNION {TakenBy(s) : s \in Readers}
  <2>1. P \subseteq P'
    BY <1>0, <1>q, <1>3
  <2>2. \A v \in Writers : \A n \in 1 .. made[v] : \E x \in P : x.from = v /\ x.no = n
    BY DEF SInv, NothingVanishes
  <2> HIDE DEF P
  <2>3. \A v \in Writers : \A n \in 1 .. made'[v] : \E x \in P' : x.from = v /\ x.no = n
    BY <1>0, <2>1, <2>2
  <2> USE DEF P
  <2> QED BY <2>3 DEF NothingVanishes
<1> QED BY <1>1, <1>2, <1>q, <1>4, <1>5 DEF SInv

(* The other steps leave the items alone. *)
LEMMA QuietStep ==
  ASSUME SInv, UNCHANGED <<present, limit, q, made, over, got, missed, lost, dropped>>,
         cap' \in Nat, faults' \in Nat, ended' \subseteq Readers, cut' \subseteq present
  PROVE  SInv'
<1>1. SysTypeOK'
  BY DEF SInv, SysTypeOK
<1>2. WithinLimit' /\ InOrder'
  BY DEF SInv, WithinLimit, InOrder
<1>3. Known'
  BY DEF SInv, Known, Made, Last
<1>4. (\A s \in Readers : TakenBy(s)' = TakenBy(s)) /\ InDevice' = InDevice
  BY DEF TakenBy, InDevice
<1>5. OnceInOrder'
  BY <1>4 DEF SInv, OnceInOrder
<1>6. NothingVanishes'
  <2>1. \A v \in Writers : \A n \in 1 .. made[v] :
          \E x \in InDevice \cup lost \cup dropped \cup UNION {TakenBy(s) : s \in Readers} :
            x.from = v /\ x.no = n
    BY DEF SInv, NothingVanishes
  <2>2. UNION {TakenBy(s) : s \in Readers}' = UNION {TakenBy(s) : s \in Readers}
    BY <1>4
  <2> QED BY <1>4, <2>1, <2>2 DEF NothingVanishes
<1> QED BY <1>1, <1>2, <1>3, <1>5, <1>6 DEF SInv

(* The invariant is inductive. *)
LEMMA SysInvariance == SysSpec => []SInv
<1>1. SysInit => SInv
  <2> SUFFICES ASSUME SysInit PROVE SInv
    OBVIOUS
  <2>0. /\ limit \in [Writers \cup Readers -> Nat]
        /\ \A w \in Writers : made[w] = 0 /\ limit[w] \in Nat
        /\ \A r \in Readers : got[r] = <<>> /\ Len(got[r]) = 0
        /\ q = <<>> /\ Len(q) = 0
    BY SystemAssumption DEF SysInit
  <2>1. SysTypeOK
    <3>1. /\ q \in Seq(Item) /\ cap \in Nat /\ faults \in Nat
          /\ made \in [Writers -> Nat] /\ got \in [Readers -> Seq(Item)]
          /\ missed \in [Readers -> Nat]
      BY SystemAssumption DEF SysInit
    <3>2. \A w \in Writers : limit[w] # 0 => made[w] <= limit[w] + 1
      BY <2>0
    <3> QED BY <2>0, <3>1, <3>2 DEF SysInit, SysTypeOK
  <2>2. WithinLimit /\ Known /\ InOrder
    BY <2>0 DEF WithinLimit, Known, InOrder
  <2>3. OnceInOrder /\ NothingVanishes
    BY DEF SysInit, OnceInOrder, NothingVanishes, TakenBy
  <2> QED BY <2>1, <2>2, <2>3 DEF SInv
<1>2. SInv /\ [SysNext]_sysvars => SInv'
  <2> SUFFICES ASSUME SInv, [SysNext]_sysvars PROVE SInv'
    OBVIOUS
  <2>t. /\ cap \in Nat /\ faults \in Nat /\ ended \subseteq Readers /\ cut \subseteq present
        /\ \A w \in Writers : limit[w] \in Nat /\ made[w] \in Nat
    BY DEF SInv, SysTypeOK
  <2>1. ASSUME NEW w \in Writers, write_dev(w) PROVE SInv'
    <3>1. /\ w \in present \ over
          /\ limit[w] # 0 => made[w] <= limit[w]
          /\ limit[w] = 0 \/ made[w] < limit[w]
          /\ over' = over
      BY <2>1, <2>t DEF write_dev
    <3>2. /\ made' = [made EXCEPT ![w] = @ + 1]
          /\ Put(NewItem(w, FALSE))
          /\ UNCHANGED <<present, limit, cap, got, missed, ended, cut, dropped>>
      BY <2>1 DEF write_dev
    <3> QED BY <3>1, <3>2, PutStep
  <2>2. ASSUME NEW w \in Writers, dev_done(w) PROVE SInv'
    <3>1. /\ w \in present \ over
          /\ over' = over \cup {w}
          /\ made' = [made EXCEPT ![w] = @ + 1]
          /\ Put(NewItem(w, TRUE))
          /\ UNCHANGED <<present, limit, cap, got, missed, ended, cut, dropped>>
      BY <2>2 DEF dev_done
    <3>2. limit[w] # 0 => made[w] <= limit[w]
      BY <3>1 DEF SInv, WithinLimit
    <3> QED BY <3>1, <3>2, PutStep
  <2>3. ASSUME NEW r \in Readers, read_dev(r) PROVE SInv'
    <3>1. CASE ReadStop(r)
      BY <2>t, <3>1, QuietStep DEF ReadStop
    <3> QED BY <2>3, <3>1, ReadStringStep, ReadFailsStep DEF read_dev
  <2>4. ASSUME NEW p \in present, catcher_SIGINT(p) PROVE SInv'
    BY <2>t, <2>4, QuietStep DEF catcher_SIGINT, Fault
  <2>5. CASE kt_realloc
    BY <2>t, <2>5, QuietStep, SystemAssumption DEF kt_realloc
  <2>6. CASE UNCHANGED sysvars
    BY <2>t, <2>6, QuietStep DEF sysvars
  <2> QED BY <2>1, <2>2, <2>3, <2>4, <2>5, <2>6 DEF SysNext
<1> QED BY <1>1, <1>2, PTL DEF SysSpec

(* Types, and the number of items of a Writer with a limit. *)
THEOREM SystemTyped == SysSpec => []SysTypeOK
BY SysInvariance, PTL DEF SInv

(* Readers see the strings of each Writer in order and nobody twice. *)
THEOREM SystemOrder == SysSpec => []OnceInOrder
BY SysInvariance, PTL DEF SInv

(* Every item is in the device, with a Reader, or was reported. *)
THEOREM SystemConserves == SysSpec => []NothingVanishes
BY SysInvariance, PTL DEF SInv

(* When as many Readers have met a terminator as there are Writers, all    *)
(* Writers have ended and the device is empty.  Terminators that were met  *)
(* belong to different Writers, so by counting there is one of each.       *)
THEOREM SystemTerminators == SysSpec => []TerminatorsMean
<1>1. SInv => TerminatorsMean
  <2> DEFINE P == present \cap Writers
  <2> SUFFICES ASSUME SInv, Cardinality(Told) >= Cardinality(P)
               PROVE  P \subseteq over /\ q = <<>>
    BY DEF TerminatorsMean
  <2>1. \A r \in Told : \E e \in TakenBy(r) : e.done
    BY DEF Told
  <2> DEFINE term(r) == CHOOSE e \in TakenBy(r) : e.done
             f == [r \in Told |-> term(r).from]
  <2>2. ASSUME NEW r \in Told
        PROVE  /\ term(r) \in TakenBy(r) /\ term(r) \in Item /\ term(r).done
               /\ term(r).from \in P /\ term(r).from \in over
               /\ term(r).no = made[term(r).from]
    <3>1. term(r) \in TakenBy(r) /\ term(r).done
      BY <2>1
    <3> HIDE DEF term
    <3>2. PICK i \in 1 .. Len(got[r]) : term(r) = got[r][i]
      BY <3>1 DEF TakenBy
    <3>3. r \in Readers /\ got[r] \in Seq(Item)
      BY DEF Told, SInv, SysTypeOK
    <3>4. term(r) \in Item /\ Made(term(r)) /\ Last(term(r))
      BY <3>2, <3>3 DEF SInv, Known
    <3> QED BY <3>1, <3>4 DEF Item, Made, Last
  <2> HIDE DEF term
  <2>3. f \in Injection(Told, P)
    <3>1. f \in [Told -> P]
      BY <2>2
    <3>2. ASSUME NEW r \in Told, NEW s \in Told, f[r] = f[s]
          PROVE  r = s
      <4>1. term(r).from = term(s).from /\ term(r).no = term(s).no
        BY <2>2, <3>2
      <4>2. term(r) = term(s)
        BY <2>2, <4>1 DEF Item
      <4> QED BY <2>2, <4>2 DEF SInv, OnceInOrder, Told
    <3> QED BY <3>1, <3>2 DEF Injection, IsInjective
  <2>4. IsFiniteSet(P)
    BY SystemAssumption, FS_Subset
  <2>5. f \in Surjection(Told, P)
    <3>1. /\ IsFiniteSet(Told)
          /\ Cardinality(Told) <= Cardinality(P)
          /\ Cardinality(Told) = Cardinality(P) <=> f \in Surjection(Told, P)
      BY <2>3, <2>4, FS_Injection
    <3>2. Cardinality(Told) \in Nat /\ Cardinality(P) \in Nat
      BY <2>4, <3>1, FS_CardinalityType
    <3> QED BY <3>1, <3>2
  <2>6. \A w \in P : \E r \in Told : term(r).from = w
    BY <2>5 DEF Surjection
  <2>7. P \subseteq over
    BY <2>2, <2>6
  <2>8. q = <<>>
    <3> SUFFICES ASSUME q # <<>> PROVE FALSE
      OBVIOUS
    <3>1. 1 \in 1 .. Len(q) /\ q[1] \in Item
      BY ItemTaken DEF SInv, SysTypeOK
    <3>2. q[1].from \in P /\ q[1].no \in Nat /\ q[1].no <= made[q[1].from]
      BY <3>1 DEF SInv, Known, Made, Item
    <3>3. PICK r \in Told : term(r).from = q[1].from
      BY <2>6, <3>2
    <3>4. PICK i \in 1 .. Len(got[r]) : term(r) = got[r][i]
      BY <2>2 DEF TakenBy
    <3>5. term(r).no < q[1].no
      BY <3>1, <3>3, <3>4 DEF SInv, InOrder, Told
    <3>6. made[q[1].from] \in Nat
      BY <3>2 DEF SInv, SysTypeOK
    <3> QED BY <2>2, <3>2, <3>3, <3>5, <3>6
  <2> QED BY <2>7, <2>8
<1> QED BY <1>1, SysInvariance, PTL
-----------------------------------------------------------------------------
(* Who is left waiting *)

(* The last item of a Writer that has ended is its terminator. *)
Ends(e) == e.from \in over /\ e.no = made[e.from] => e.done

(* The terminators reach the Readers, one each, unless something goes      *)
(* wrong.                                                                  *)
Delivered ==
  /\ faults = 0 => lost = {} /\ dropped = {} /\ cut = {}
  /\ \A x \in InDevice : Ends(x)
  /\ \A r \in Readers : \A x \in TakenBy(r) : Ends(x)
  /\ \A r \in Readers : \A x, y \in TakenBy(r) : x.done => r \in ended /\ (y.done => x = y)
  /\ \A r \in ended : r \in present /\ (r \in cut \/ limit[r] # 0 \/ r \in Told)
  /\ \A w \in over : made[w] # 0

(* Items that are somewhere *)
LEMMA ItemsMade ==
  ASSUME SInv
  PROVE  /\ \A x \in InDevice : x \in Item /\ Made(x) /\ Last(x)
         /\ \A r \in Readers : \A x \in TakenBy(r) : x \in Item /\ Made(x) /\ Last(x)
<1>1. q \in Seq(Item) /\ \A r \in Readers : got[r] \in Seq(Item)
  BY DEF SInv, SysTypeOK
<1>2. /\ \A i \in 1 .. Len(q) : q[i] \in Item
      /\ \A r \in Readers : \A i \in 1 .. Len(got[r]) : got[r][i] \in Item
  BY <1>1
<1> QED BY <1>2 DEF InDevice, TakenBy, SInv, Known

(* A Writer makes an item. *)
LEMMA PutDelivers ==
  ASSUME SInv, Delivered, NEW w \in Writers, NEW d \in BOOLEAN,
         w \in present \ over,
         made' = [made EXCEPT ![w] = @ + 1],
         Put(NewItem(w, d)),
         over' = IF d THEN over \cup {w} ELSE over,
         UNCHANGED <<present, limit, got, ended, cut, dropped>>
  PROVE  Delivered'
<1>m. /\ made'[w] = made[w] + 1 /\ made[w] \in Nat /\ faults \in Nat
      /\ \A v \in Writers : v # w => made'[v] = made[v]
  BY DEF SInv, SysTypeOK
<1>p. PICK e \in Item : e = NewItem(w, d)
  <2>1. made[w] + 1 \in Nat \ {0}
    BY <1>m
  <2>2. NewItem(w, d) \in Item
    BY <2>1, Zenon DEF NewItem, Item
  <2> QED BY <2>2
<1>e. e.from = w /\ e.no = made[w] + 1 /\ e.done = d
  BY <1>p DEF NewItem
<1>q. \/ q' = Append(q, e) /\ UNCHANGED <<lost, faults>>
      \/ faults' = faults + 1 /\ UNCHANGED q
  BY <1>p DEF Put, Fault
<1>1. InDevice' \subseteq InDevice \cup {e}
  <2>1. CASE UNCHANGED q
    BY <2>1 DEF InDevice
  <2>2. CASE q' = Append(q, e)
    <3>1. q \in Seq(Item)
      BY DEF SInv, SysTypeOK
    <3>2. \A i \in 1 .. Len(q') : q'[i] = e \/ \E j \in 1 .. Len(q) : q'[i] = q[j]
      BY <1>e, <2>2, <3>1, ItemAppended
    <3> QED BY <3>2 DEF InDevice
  <2> QED BY <1>q, <2>1, <2>2
<1>2. \A r \in Readers : TakenBy(r)' = TakenBy(r)
  BY DEF TakenBy
<1>3. ASSUME NEW x \in Item, Made(x), Ends(x) PROVE Ends(x)'
  <2>1. x.from \in Writers /\ x.no \in Nat /\ x.no <= made[x.from]
    BY <1>3 DEF Item, Made
  <2>2. CASE x.from = w
    BY <1>m, <2>1, <2>2 DEF Ends
  <2>3. CASE x.from # w
    BY <1>3, <1>m, <2>1, <2>3 DEF Ends
  <2> QED BY <2>2, <2>3
<1>4. Ends(e)'
  BY <1>e DEF Ends
<1>5. \A x \in InDevice' : Ends(x)'
  <2>1. \A x \in InDevice : Ends(x)'
    BY <1>3, ItemsMade, Zenon DEF Delivered
  <2> QED BY <1>1, <1>4, <2>1
<1>6. \A r \in Readers : \A x \in TakenBy(r)' : Ends(x)'
  BY <1>2, <1>3, ItemsMade, Zenon DEF Delivered
<1>7. faults' = 0 => lost' = {} /\ dropped' = {} /\ cut' = {}
  BY <1>m, <1>q DEF Delivered
<1>8. \A v \in over' : made'[v] # 0
  <2>1. over \subseteq Writers
    BY DEF SInv, SysTypeOK
  <2>2. over' \subseteq over \cup {w}
    OBVIOUS
  <2>3. made'[w] # 0
    BY <1>m
  <2>4. \A v \in over : made[v] # 0
    BY Zenon DEF Delivered
  <2>5. ASSUME NEW v \in over' PROVE made'[v] # 0
    BY <1>m, <2>1, <2>2, <2>3, <2>4, Zenon
  <2> QED BY <2>5
<1>9. Told' = Told
  BY <1>2, Zenon DEF Told
<1> QED BY <1>2, <1>5, <1>6, <1>7, <1>8, <1>9, Zenon DEF Delivered

(* A Reader takes the first item, or loses it. *)
LEMMA HeadTaken ==
  ASSUME SInv, q # <<>>, q' = Tail(q)
  PROVE  InDevice' \subseteq InDevice /\ Head(q) \in InDevice
<1>1. /\ Len(q) \in Nat \ {0} /\ Len(q') = Len(q) - 1 /\ Head(q) = q[1]
      /\ \A i \in 1 .. Len(q) - 1 : q'[i] = q[i + 1]
  BY ItemTaken DEF SInv, SysTypeOK
<1>2. 1 \in 1 .. Len(q) /\ \A i \in 1 .. Len(q') : i + 1 \in 1 .. Len(q) /\ q'[i] = q[i + 1]
  BY <1>1
<1> QED BY <1>1, <1>2 DEF InDevice

LEMMA ReadDelivers ==
  ASSUME SInv, Delivered, NEW r \in Readers, ReadString(r)
  PROVE  Delivered'
<1>0. /\ r \in present \ ended /\ q # <<>> /\ q' = Tail(q)
      /\ got' = [got EXCEPT ![r] = Append(@, Head(q))]
      /\ ended' = IF Head(q).done THEN ended \cup {r} ELSE ended
      /\ UNCHANGED <<present, limit, made, over, cut, lost, dropped, faults>>
  BY DEF ReadString, Reading
<1>1. InDevice' \subseteq InDevice /\ Head(q) \in InDevice
  BY <1>0, HeadTaken
<1>2. TakenBy(r)' = TakenBy(r) \cup {Head(q)}
  <2>1. got[r] \in Seq(Item) /\ Head(q) \in Item /\ got'[r] = Append(got[r], Head(q))
    BY <1>0, <1>1, ItemsMade DEF SInv, SysTypeOK
  <2>2. /\ Len(got'[r]) = Len(got[r]) + 1 /\ Len(got[r]) \in Nat
        /\ \A i \in 1 .. Len(got[r]) : got'[r][i] = got[r][i]
        /\ got'[r][Len(got[r]) + 1] = Head(q)
    BY <2>1, ItemAppended
  <2>3. /\ \A i \in 1 .. Len(got'[r]) : i \in 1 .. Len(got[r]) \/ i = Len(got[r]) + 1
        /\ \A i \in 1 .. Len(got[r]) : i \in 1 .. Len(got'[r])
        /\ Len(got[r]) + 1 \in 1 .. Len(got'[r])
    BY <2>2
  <2> QED BY <2>2, <2>3 DEF TakenBy
<1>3. \A s \in Readers \ {r} : TakenBy(s)' = TakenBy(s)
  BY <1>0 DEF TakenBy, SInv, SysTypeOK
<1>4. \A x : Ends(x) => Ends(x)'
  BY <1>0 DEF Ends
<1>5. \A x \in TakenBy(r) : ~ x.done
  BY <1>0 DEF Delivered
<1>6. \A x \in InDevice' : Ends(x)'
  BY <1>1, <1>4 DEF Delivered
<1>7. \A s \in Readers : \A x \in TakenBy(s)' : Ends(x)'
  BY <1>1, <1>2, <1>3, <1>4 DEF Delivered
<1>8. \A s \in Readers : \A x, y \in TakenBy(s)' : x.done => s \in ended' /\ (y.done => x = y)
  <2>1. \A s \in Readers \ {r} : \A x, y \in TakenBy(s)' : x.done => s \in ended' /\ (y.done => x = y)
    BY <1>0, <1>3 DEF Delivered
  <2>2. \A x, y \in TakenBy(r)' : x.done => r \in ended' /\ (y.done => x = y)
    BY <1>0, <1>2, <1>5
  <2> QED BY <2>1, <2>2
<1>9. \A s \in ended' : s \in present' /\ (s \in cut' \/ limit'[s] # 0 \/ s \in Told')
  <2>1. \A s \in Told : s \in Told'
    BY <1>2, <1>3 DEF Told
  <2>2. Head(q).done => r \in Told'
    BY <1>2 DEF Told
  <2> QED BY <1>0, <2>1, <2>2 DEF Delivered
<1>10. (\A w \in over' : made'[w] # 0) /\ (faults' = 0 => lost' = {} /\ dropped' = {} /\ cut' = {})
  BY <1>0 DEF Delivered
<1> QED BY <1>6, <1>7, <1>8, <1>9, <1>10, Zenon DEF Delivered

(* The steps that take nothing, and a read that fails *)
LEMMA OthersDeliver ==
  ASSUME SInv, Delivered, UNCHANGED <<present, limit, made, over, got>>,
         InDevice' \subseteq InDevice,
         \/ faults' = faults + 1
         \/ UNCHANGED <<faults, lost, dropped, cut>>,
         cut \subseteq cut', ended \subseteq ended',
         \A r \in ended' \ ended : r \in present /\ (r \in cut \/ limit[r] # 0)
  PROVE  Delivered'
<1>1. (\A r \in Readers : TakenBy(r)' = TakenBy(r)) /\ Told' = Told
  BY DEF TakenBy, Told
<1>2. \A x : Ends(x) => Ends(x)'
  BY DEF Ends
<1>3. faults' = 0 => lost' = {} /\ dropped' = {} /\ cut' = {}
  BY DEF Delivered, SInv, SysTypeOK
<1>4. /\ \A x \in InDevice' : Ends(x)'
      /\ \A r \in Readers : \A x \in TakenBy(r)' : Ends(x)'
  BY <1>1, <1>2 DEF Delivered
<1>5. \A r \in Readers : \A x, y \in TakenBy(r)' : x.done => r \in ended' /\ (y.done => x = y)
  BY <1>1 DEF Delivered
<1>6. \A r \in ended' : r \in present' /\ (r \in cut' \/ limit'[r] # 0 \/ r \in Told')
  BY <1>1 DEF Delivered
<1>7. \A w \in over' : made'[w] # 0
  BY DEF Delivered
<1> QED BY <1>3, <1>4, <1>5, <1>6, <1>7, Zenon DEF Delivered

(* Delivered is an invariant, beside SInv. *)
LEMMA SysDelivers == SysSpec => [](SInv /\ Delivered)
<1>1. SysInit => Delivered
  <2> SUFFICES ASSUME SysInit PROVE Delivered
    OBVIOUS
  <2>1. InDevice = {} /\ \A r \in Readers : TakenBy(r) = {}
    BY DEF SysInit, InDevice, TakenBy
  <2> QED BY <2>1 DEF SysInit, Delivered
<1>2. SInv /\ Delivered /\ [SysNext]_sysvars => Delivered'
  <2> SUFFICES ASSUME SInv, Delivered, [SysNext]_sysvars PROVE Delivered'
    OBVIOUS
  <2>1. ASSUME NEW w \in Writers, write_dev(w) PROVE Delivered'
    <3>1. /\ w \in present \ over /\ made' = [made EXCEPT ![w] = @ + 1]
          /\ Put(NewItem(w, FALSE)) /\ over' = over
          /\ UNCHANGED <<present, limit, got, ended, cut, dropped>>
      BY <2>1, Zenon DEF write_dev
    <3> QED BY <3>1, PutDelivers, Zenon
  <2>2. ASSUME NEW w \in Writers, dev_done(w) PROVE Delivered'
    <3>1. /\ w \in present \ over /\ made' = [made EXCEPT ![w] = @ + 1]
          /\ Put(NewItem(w, TRUE)) /\ over' = over \cup {w}
          /\ UNCHANGED <<present, limit, got, ended, cut, dropped>>
      BY <2>2, Zenon DEF dev_done
    <3> QED BY <3>1, PutDelivers, Zenon
  <2>3. ASSUME NEW r \in Readers, ReadStop(r) PROVE Delivered'
    <3>1. InDevice' = InDevice
      BY <2>3 DEF ReadStop, InDevice
    <3>2. /\ UNCHANGED <<present, limit, made, over, got, faults, lost, dropped, cut>>
          /\ ended' = ended \cup {r} /\ r \in present /\ (r \in cut \/ limit[r] # 0)
      BY <2>3 DEF ReadStop
    <3> QED BY <3>1, <3>2, OthersDeliver
  <2>4. ASSUME NEW r \in Readers, ReadFails(r) PROVE Delivered'
    <3>1. InDevice' \subseteq InDevice
      BY <2>4, HeadTaken DEF ReadFails, InDevice
    <3>2. /\ UNCHANGED <<present, limit, made, over, got, ended, cut>> /\ faults' = faults + 1
      BY <2>4 DEF ReadFails, Fault
    <3> QED BY <3>1, <3>2, OthersDeliver
  <2>5. ASSUME NEW p \in present, catcher_SIGINT(p) PROVE Delivered'
    <3>1. InDevice' = InDevice
      BY <2>5 DEF catcher_SIGINT, InDevice
    <3>2. /\ UNCHANGED <<present, limit, made, over, got, ended>> /\ faults' = faults + 1
          /\ cut \subseteq cut'
      BY <2>5 DEF catcher_SIGINT, Fault
    <3> QED BY <3>1, <3>2, OthersDeliver
  <2>6. ASSUME kt_realloc \/ UNCHANGED sysvars PROVE Delivered'
    <3>1. InDevice' = InDevice
      BY <2>6 DEF kt_realloc, sysvars, InDevice
    <3>2. UNCHANGED <<present, limit, made, over, got, ended, cut, faults, lost, dropped>>
      BY <2>6 DEF kt_realloc, sysvars
    <3> QED BY <3>1, <3>2, OthersDeliver
  <2> QED BY <2>1, <2>2, <2>3, <2>4, <2>5, <2>6, ReadDelivers DEF SysNext, read_dev
<1> QED BY <1>1, <1>2, SysInvariance, PTL DEF SysSpec

(* With the device empty and nothing lost, as many Readers have met a      *)
(* terminator as there are Writers that have ended: each terminator was    *)
(* taken, and nobody has taken two.                                        *)
LEMMA TermsTaken ==
  ASSUME SInv, Delivered, q = <<>>, faults = 0, NEW P \in SUBSET Writers, P \subseteq over
  PROVE  Cardinality(P) <= Cardinality(Told)
<1> DEFINE Got(r, w) == \E e \in TakenBy(r) : e.done /\ e.from = w
<1>1. ASSUME NEW w \in P PROVE \E r \in Told : Got(r, w)
  <2>1. made[w] \in Nat /\ made[w] # 0 /\ made[w] \in 1 .. made[w]
    BY DEF Delivered, SInv, SysTypeOK
  <2>2. InDevice = {} /\ lost = {} /\ dropped = {}
    BY DEF InDevice, Delivered
  <2>3. \E e \in InDevice \cup lost \cup dropped \cup UNION {TakenBy(r) : r \in Readers} :
          e.from = w /\ e.no = made[w]
    BY <2>1 DEF SInv, NothingVanishes
  <2>4. PICK r \in Readers : \E e \in TakenBy(r) : e.from = w /\ e.no = made[w]
    BY <2>2, <2>3
  <2>5. PICK e \in TakenBy(r) : e.from = w /\ e.no = made[w]
    BY <2>4
  <2>6. e.done
    BY <2>5 DEF Delivered, Ends
  <2> QED BY <2>5, <2>6 DEF Told
<1> DEFINE g == [w \in P |-> CHOOSE r \in Told : Got(r, w)]
<1>2. ASSUME NEW w \in P PROVE g[w] \in Told /\ Got(g[w], w)
  BY <1>1, Zenon
<1> HIDE DEF g
<1>3. ASSUME NEW v \in P, NEW w \in P, g[v] = g[w] PROVE v = w
  <2>1. g[v] \in Readers /\ Got(g[v], v) /\ Got(g[v], w)
    BY <1>2, <1>3 DEF Told
  <2> QED BY <2>1 DEF Delivered
<1>4. g \in Injection(P, Told)
  BY <1>2, <1>3, Zenon DEF Injection, IsInjective, g
<1>5. IsFiniteSet(Told)
  BY SystemAssumption, FS_Subset DEF Told
<1> QED BY <1>4, <1>5, FS_Injection

(* For any number of Writers and Readers and any sizes of the device: when *)
(* nothing went wrong and all who are left wait in it, they are the ones   *)
(* in excess.  If a Reader is left, the device is empty, so every Writer   *)
(* has ended and its terminator was met by a Reader of its own; if none    *)
(* is, each of them met one.                                               *)
THEOREM SystemNoDeadlock == SysSpec => []OnlyExcessBlocked
<1>1. SInv /\ Delivered /\ TerminatorsMean => OnlyExcessBlocked
  <2> DEFINE ws == present \cap Writers
             rs == present \cap Readers
  <2> SUFFICES ASSUME SInv, Delivered, TerminatorsMean, Plain, cap # 0, AllWait
               PROVE  /\ Cardinality(rs) <= Cardinality(ws) => rs \subseteq ended
                      /\ Cardinality(ws) <= Cardinality(rs) => ws \subseteq over
    BY DEF OnlyExcessBlocked, ExcessOnly
  <2>0. faults = 0 /\ cut = {} /\ \A r \in rs : limit[r] = 0
    BY DEF Plain, Delivered
  <2>1. Told \subseteq rs /\ Told \subseteq ended
    <3>1. \A r \in Told : r \in Readers /\ r \in ended
      BY DEF Told, Delivered
    <3> QED BY <3>1 DEF Delivered
  <2>2. /\ IsFiniteSet(ws) /\ IsFiniteSet(rs) /\ IsFiniteSet(Told)
        /\ Cardinality(ws) \in Nat /\ Cardinality(rs) \in Nat /\ Cardinality(Told) \in Nat
    <3>1. IsFiniteSet(ws) /\ IsFiniteSet(rs)
      BY SystemAssumption, FS_Subset
    <3>2. IsFiniteSet(Told)
      BY <2>1, <3>1, FS_Subset
    <3> QED BY <3>1, <3>2, FS_CardinalityType
  <2> HIDE DEF ws, rs
  <2>3. CASE rs \subseteq ended
    <3>1. rs \subseteq Told
      BY <2>0, <2>3 DEF Delivered
    <3>2. rs = Told
      BY <2>1, <3>1
    <3> QED BY <2>3, <3>2 DEF TerminatorsMean, ws
  <2>4. CASE ~ (rs \subseteq ended)
    <3>1. q = <<>>
      BY <2>4 DEF AllWait, rs
    <3>2. ws \subseteq over
      <4>1. Len(q) = 0 /\ cap \in Nat
        BY <3>1 DEF SInv, SysTypeOK
      <4> QED BY <4>1 DEF AllWait, ws
    <3>3. Cardinality(ws) <= Cardinality(Told)
      BY <2>0, <3>1, <3>2, TermsTaken DEF ws
    <3>4. Cardinality(Told) < Cardinality(rs)
      <4>1. Told # rs
        BY <2>1, <2>4
      <4> QED BY <2>1, <2>2, <4>1, FS_Subset
    <3> QED BY <2>2, <3>2, <3>3, <3>4
  <2> QED BY <2>3, <2>4
<1> QED BY <1>1, SysDelivers, SystemTerminators, PTL
=============================================================================

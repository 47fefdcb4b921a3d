-------------------------- MODULE SourceLRUProofs --------------------------
(***************************************************************************)
(* For any number of goroutines, files and GeoTIFF values and any          *)
(* maxSources: the LRU of open sources stays consistent and holds the most *)
(* recently used files, a file is opened once at a time, and nobody has a  *)
(* closed GeoTIFF or one of another file.                                  *)
(***************************************************************************)
EXTENDS SourceLRU, TLAPS

-----------------------------------------------------------------------------
(* The operators of RecencyList, for lists over any set *)

\* What PushFront returns.
LEMMA PushFrontLemma ==
  ASSUME NEW S, NEW s \in Seq(S), NEW f \in S
  PROVE /\ PushFront(s, f) \in Seq(S)
        /\ Len(PushFront(s, f)) = Len(s) + 1
        /\ \A j \in 1..(Len(s) + 1) : PushFront(s, f)[j] = IF j = 1 THEN f ELSE s[j - 1]
  BY DEF PushFront

\* What MoveToFront returns.
LEMMA MoveToFrontLemma ==
  ASSUME NEW S, NEW s \in Seq(S), NEW i \in 1..Len(s)
  PROVE /\ MoveToFront(s, i) \in Seq(S)
        /\ Len(MoveToFront(s, i)) = Len(s)
        /\ \A j \in 1..Len(s) :
              MoveToFront(s, i)[j] = IF j = 1 THEN s[i] ELSE IF j <= i THEN s[j - 1] ELSE s[j]
  BY DEF MoveToFront

\* What Trim returns.
LEMMA TrimLemma ==
  ASSUME NEW S, NEW s \in Seq(S), NEW n \in Nat
  PROVE /\ Trim(s, n) \in Seq(S)
        /\ Len(Trim(s, n)) = IF Len(s) > n THEN n ELSE Len(s)
        /\ \A j \in 1..Len(Trim(s, n)) : Trim(s, n)[j] = s[j]
  BY DEF Trim

\* Pushing a new element keeps the list free of repetitions and adds only it.
LEMMA PushFrontNoDup ==
  ASSUME NEW S, NEW s \in Seq(S), NEW f \in S, NoDup(s), f \notin Elements(s)
  PROVE NoDup(PushFront(s, f)) /\ Elements(PushFront(s, f)) = Elements(s) \cup {f}
  <1> DEFINE t == PushFront(s, f)
  <1>1. /\ t \in Seq(S) /\ Len(t) = Len(s) + 1
        /\ \A j \in 1..(Len(s) + 1) : t[j] = IF j = 1 THEN f ELSE s[j - 1]
    BY PushFrontLemma
  <1> HIDE DEF t
  <1>2. NoDup(t)
    <2> SUFFICES ASSUME NEW i \in 1..Len(t), NEW j \in 1..Len(t), t[i] = t[j] PROVE i = j
      BY DEF NoDup
    <2>1. \A k \in 1..Len(s) : s[k] # f
      BY DEF Elements
    <2>2. ASSUME NEW k \in 1..Len(t), k # 1 PROVE t[k] # f
      <3>1. k - 1 \in 1..Len(s) /\ t[k] = s[k - 1]
        BY <2>2, <1>1
      <3> QED
        BY <3>1, <2>1
    <2>3. t[1] = f
      BY <1>1
    <2>4. CASE i # 1 /\ j # 1
      <3>1. i - 1 \in 1..Len(s) /\ j - 1 \in 1..Len(s) /\ s[i - 1] = s[j - 1]
        BY <2>4, <1>1
      <3>2. i - 1 = j - 1
        BY <3>1 DEF NoDup
      <3> QED
        BY <3>2
    <2> QED
      BY <2>2, <2>3, <2>4
  <1>3. Elements(t) = Elements(s) \cup {f}
    <2>1. ASSUME NEW i \in 1..Len(s) PROVE s[i] \in Elements(t)
      <3>1. i + 1 \in 1..Len(t) /\ t[i + 1] = s[i]
        BY <1>1
      <3> QED
        BY <3>1 DEF Elements
    <2>2. f \in Elements(t)
      BY <1>1 DEF Elements
    <2>3. ASSUME NEW i \in 1..Len(t) PROVE t[i] \in Elements(s) \cup {f}
      <3>1. CASE i = 1
        BY <3>1, <1>1
      <3>2. CASE i # 1
        BY <3>2, <1>1 DEF Elements
      <3> QED
        BY <3>1, <3>2
    <2> QED
      BY <2>1, <2>2, <2>3 DEF Elements
  <1> QED
    BY <1>2, <1>3 DEF t

\* Moving an element neither repeats nor loses one.
LEMMA MoveToFrontNoDup ==
  ASSUME NEW S, NEW s \in Seq(S), NEW i \in 1..Len(s), NoDup(s)
  PROVE NoDup(MoveToFront(s, i)) /\ Elements(MoveToFront(s, i)) = Elements(s)
  <1> DEFINE t == MoveToFront(s, i)
  <1>1. /\ t \in Seq(S) /\ Len(t) = Len(s)
        /\ \A j \in 1..Len(s) : t[j] = IF j = 1 THEN s[i] ELSE IF j <= i THEN s[j - 1] ELSE s[j]
    BY MoveToFrontLemma
  <1> HIDE DEF t
  <1>2. NoDup(t)
    BY <1>1 DEF NoDup
  <1>3. ASSUME NEW j \in 1..Len(s) PROVE t[j] \in Elements(s)
    BY <1>1 DEF Elements
  <1>4. ASSUME NEW j \in 1..Len(s) PROVE s[j] \in Elements(t)
    <2>1. CASE j = i
      BY <2>1, <1>1 DEF Elements
    <2>2. CASE j < i
      <3>1. j + 1 \in 1..Len(t) /\ t[j + 1] = s[j]
        BY <2>2, <1>1
      <3> QED
        BY <3>1 DEF Elements
    <2>3. CASE j > i
      <3>1. j \in 1..Len(t) /\ t[j] = s[j]
        BY <2>3, <1>1
      <3> QED
        BY <3>1 DEF Elements
    <2> QED
      BY <2>1, <2>2, <2>3
  <1>5. Elements(t) = Elements(s)
    BY <1>1, <1>3, <1>4 DEF Elements
  <1> QED
    BY <1>2, <1>5 DEF t

\* What Touch returns.
LEMMA TouchLemma ==
  ASSUME NEW S, NEW s \in Seq(S), NEW f \in S, NoDup(s)
  PROVE /\ Touch(s, f) \in Seq(S)
        /\ NoDup(Touch(s, f))
        /\ Elements(Touch(s, f)) = Elements(s) \cup {f}
        /\ Len(Touch(s, f)) = IF f \in Elements(s) THEN Len(s) ELSE Len(s) + 1
  <1>1. CASE f \in Elements(s)
    <2> DEFINE i == CHOOSE j \in 1..Len(s) : s[j] = f
    <2>1. i \in 1..Len(s) /\ s[i] = f
      BY <1>1 DEF Elements
    <2>2. Touch(s, f) = MoveToFront(s, i)
      BY <1>1 DEF Touch
    <2> HIDE DEF i
    <2> QED
      BY <1>1, <2>1, <2>2, MoveToFrontNoDup, MoveToFrontLemma
  <1>2. CASE f \notin Elements(s)
    <2>1. Touch(s, f) = PushFront(s, f)
      BY <1>2 DEF Touch
    <2> QED
      BY <1>2, <2>1, PushFrontNoDup, PushFrontLemma
  <1> QED
    BY <1>1, <1>2

\* Lists that agree in length and at each position are equal.
LEMMA SeqEq ==
  ASSUME NEW S, NEW s \in Seq(S), NEW t \in Seq(S), Len(s) = Len(t),
         \A j \in 1..Len(s) : s[j] = t[j]
  PROVE s = t
  OBVIOUS

\* LRU by truncation: what a bounded list holds after a use, when it drops its
\* back, is the front of the unbounded list of everything ever used.
LEMMA TrimTouch ==
  ASSUME NEW S, NEW s \in Seq(S), NEW f \in S, NoDup(s), NEW n \in Nat \ {0}
  PROVE Trim(Touch(s, f), n) =
          IF f \in Elements(Trim(s, n)) THEN Touch(Trim(s, n), f)
          ELSE Trim(PushFront(Trim(s, n), f), n)
  <1> DEFINE t == Trim(s, n)
  <1>1. /\ t \in Seq(S) /\ Len(t) = (IF Len(s) > n THEN n ELSE Len(s))
        /\ \A j \in 1..Len(t) : t[j] = s[j]
    BY TrimLemma
  <1> HIDE DEF t
  <1>2. CASE f \in Elements(t)
    <2> DEFINE i == CHOOSE j \in 1..Len(s) : s[j] = f
               k == CHOOSE j \in 1..Len(t) : t[j] = f
    <2>1. k \in 1..Len(t) /\ t[k] = f
      BY <1>2 DEF Elements
    <2>2. k \in 1..Len(s) /\ s[k] = f
      BY <2>1, <1>1
    <2>3. i \in 1..Len(s) /\ s[i] = f
      BY <2>2
    <2>4. f \in Elements(s)
      BY <2>2 DEF Elements
    <2>5. Touch(s, f) = MoveToFront(s, i) /\ Touch(t, f) = MoveToFront(t, k)
      BY <1>2, <2>4 DEF Touch
    <2> HIDE DEF i, k
    <2>6. i = k
      BY <2>2, <2>3 DEF NoDup
    <2> DEFINE u == MoveToFront(s, k)
               v == MoveToFront(t, k)
    <2>7. /\ u \in Seq(S) /\ Len(u) = Len(s)
          /\ \A j \in 1..Len(s) : u[j] = IF j = 1 THEN s[k] ELSE IF j <= k THEN s[j - 1] ELSE s[j]
      BY <2>2, MoveToFrontLemma
    <2>8. /\ v \in Seq(S) /\ Len(v) = Len(t)
          /\ \A j \in 1..Len(t) : v[j] = IF j = 1 THEN t[k] ELSE IF j <= k THEN t[j - 1] ELSE t[j]
      BY <2>1, <1>1, MoveToFrontLemma
    <2> HIDE DEF u, v
    <2> DEFINE w == Trim(u, n)
    <2>9. /\ w \in Seq(S) /\ Len(w) = (IF Len(u) > n THEN n ELSE Len(u))
          /\ \A j \in 1..Len(w) : w[j] = u[j]
      BY <2>7, TrimLemma
    <2> HIDE DEF w
    <2>10. Len(w) = Len(v) /\ \A j \in 1..Len(w) : w[j] = v[j]
      BY <1>1, <2>1, <2>7, <2>8, <2>9
    <2>11. w = v
      BY <2>8, <2>9, <2>10, SeqEq
    <2> QED
      BY <1>2, <2>5, <2>6, <2>11 DEF t, u, v, w
  <1>3. CASE f \notin Elements(t)
    <2>1. PICK v : v = PushFront(t, f)
      OBVIOUS
    <2>2. PICK x : x = Trim(v, n)
      OBVIOUS
    <2>3. PICK u : u = Touch(s, f)
      OBVIOUS
    <2>4. PICK w : w = Trim(u, n)
      OBVIOUS
    <2>5. /\ v \in Seq(S) /\ Len(v) = Len(t) + 1
          /\ \A j \in 1..(Len(t) + 1) : v[j] = IF j = 1 THEN f ELSE t[j - 1]
      <3>1. t \in Seq(S)
        BY <1>1
      <3>2. \A r \in Seq(S) :
               /\ PushFront(r, f) \in Seq(S) /\ Len(PushFront(r, f)) = Len(r) + 1
               /\ \A j \in 1..(Len(r) + 1) : PushFront(r, f)[j] = IF j = 1 THEN f ELSE r[j - 1]
        BY PushFrontLemma
      <3> QED
        BY <2>1, <3>1, <3>2
    <2>6. /\ x \in Seq(S) /\ Len(x) = (IF Len(v) > n THEN n ELSE Len(v))
          /\ \A j \in 1..Len(x) : x[j] = v[j]
      BY <2>2, <2>5, TrimLemma
    <2>7. ASSUME f \in Elements(s) PROVE w = x
      <3>1. PICK i \in 1..Len(s) : s[i] = f /\ u = MoveToFront(s, i)
        BY <2>3, <2>7 DEF Touch, Elements
      <3>2. i > n /\ Len(s) > n
        BY <3>1, <1>1, <1>3 DEF Elements
      <3>3. /\ u \in Seq(S) /\ Len(u) = Len(s)
            /\ \A j \in 1..Len(s) : u[j] = IF j = 1 THEN s[i] ELSE IF j <= i THEN s[j - 1] ELSE s[j]
        BY <3>1, MoveToFrontLemma
      <3>4. /\ w \in Seq(S) /\ Len(w) = n
            /\ \A j \in 1..Len(w) : w[j] = u[j]
        BY <3>2, <3>3, <2>4, TrimLemma
      <3>5. Len(t) = n /\ Len(w) = Len(x) /\ Len(w) = n
        BY <3>2, <3>4, <2>5, <2>6, <1>1
      <3>6. ASSUME NEW j \in 1..Len(w) PROVE w[j] = x[j]
        <4>1. w[j] = u[j] /\ x[j] = v[j]
          BY <3>4, <3>5, <2>6
        <4>2. CASE j = 1
          BY <4>1, <4>2, <3>1, <3>3, <2>5, <3>5
        <4>3. CASE j # 1
          <5>1. /\ j - 1 \in 1..Len(t) /\ j \in 1..Len(s) /\ j <= i
                /\ j \in 1..(Len(t) + 1)
            BY <4>3, <3>1, <3>2, <3>5
          <5>2. u[j] = s[j - 1] /\ v[j] = t[j - 1]
            BY <4>3, <5>1, <3>3, <2>5
          <5> QED
            BY <4>1, <5>1, <5>2, <1>1
        <4> QED
          BY <4>2, <4>3
      <3> QED
        BY <3>4, <3>5, <3>6, <2>6, SeqEq
    <2>8. ASSUME f \notin Elements(s) PROVE w = x
      <3>1. u = PushFront(s, f)
        BY <2>3, <2>8 DEF Touch
      <3>2. /\ u \in Seq(S) /\ Len(u) = Len(s) + 1
            /\ \A j \in 1..(Len(s) + 1) : u[j] = IF j = 1 THEN f ELSE s[j - 1]
        <4>1. /\ PushFront(s, f) \in Seq(S) /\ Len(PushFront(s, f)) = Len(s) + 1
              /\ \A j \in 1..(Len(s) + 1) : PushFront(s, f)[j] = IF j = 1 THEN f ELSE s[j - 1]
          BY PushFrontLemma
        <4> QED
          BY <3>1, <4>1
      <3>3. /\ w \in Seq(S) /\ Len(w) = (IF Len(u) > n THEN n ELSE Len(u))
            /\ \A j \in 1..Len(w) : w[j] = u[j]
        BY <3>2, <2>4, TrimLemma
      <3>4. Len(w) = Len(x)
        BY <3>2, <3>3, <2>5, <2>6, <1>1
      <3>5. ASSUME NEW j \in 1..Len(w) PROVE w[j] = x[j]
        <4>1. w[j] = u[j] /\ x[j] = v[j]
          BY <3>3, <3>4, <2>6
        <4>2. CASE j = 1
          BY <4>1, <4>2, <3>2, <2>5, <1>1
        <4>3. CASE j # 1
          <5>1. u[j] = s[j - 1] /\ v[j] = t[j - 1] /\ j - 1 \in 1..Len(t)
            BY <4>3, <3>2, <3>3, <2>5, <1>1
          <5> QED
            BY <4>1, <5>1, <1>1
        <4> QED
          BY <4>2, <4>3
      <3> QED
        BY <3>3, <3>4, <3>5, <2>6, SeqEq
    <2> QED
      BY <2>1, <2>2, <2>3, <2>4, <2>7, <2>8, <1>3 DEF t
  <1> QED
    BY <1>2, <1>3 DEF t

\* Trimming keeps a list free of repetitions and adds nothing to it.
LEMMA TrimNoDup ==
  ASSUME NEW S, NEW s \in Seq(S), NEW n \in Nat, NoDup(s)
  PROVE NoDup(Trim(s, n)) /\ Elements(Trim(s, n)) \subseteq Elements(s)
  <1> PICK t : t = Trim(s, n)
    OBVIOUS
  <1>1. Len(t) <= Len(s) /\ t \in Seq(S) /\ \A j \in 1..Len(t) : t[j] = s[j]
    BY TrimLemma
  <1> QED
    BY <1>1 DEF NoDup, Elements

-----------------------------------------------------------------------------
(* The invariant *)

\* The invariant holds at the start: nothing open, nothing in the LRU.
LEMMA InitIInv == Init => IInv
  <1> SUFFICES ASSUME Init PROVE IInv
    OBVIOUS
  <1> USE NoneAssumption, MaxAssumption DEF Init
  <1>1. TypeOK
    BY DEF TypeOK, Stages
  <1>2. RecencyTyped /\ LRUConsistent
    BY DEF RecencyTyped, LRUConsistent, NoDup, Elements
  <1>3. LRUIsMostRecent
    <2>1. Trim(<< >>, MaxSources) = << >>
      BY DEF Trim
    <2> QED
      BY <2>1 DEF LRUIsMostRecent
  <1>4. HandlesOpen /\ OpenOnlyWhenAbsent /\ FlightHasLeader /\ GotFitsStage
    BY DEF HandlesOpen, OpenOnlyWhenAbsent, FlightHasLeader, GotFitsStage, Leading
  <1> QED
    BY <1>1, <1>2, <1>3, <1>4 DEF IInv

-----------------------------------------------------------------------------
(* The two operations on the LRU *)

LRUInv == RecencyTyped /\ LRUConsistent /\ LRUIsMostRecent /\ sourceLRU \in Seq(Files)

\* lruGet of a file that is there keeps the LRU in order, and its contents.
LEMMA lruGetInv ==
  ASSUME LRUInv, NEW f \in Files, sourceReaders[f] # None, lruGet(f)
  PROVE LRUInv' /\ sourceReaders' = sourceReaders
  <1> USE DEF LRUInv, lruGet
  <1>1. f \in Elements(sourceLRU) /\ f \in Elements(Trim(recency, MaxSources))
    BY DEF LRUConsistent, LRUIsMostRecent
  <1>2. sourceLRU' \in Seq(Files) /\ NoDup(sourceLRU')
        /\ Elements(sourceLRU') = Elements(sourceLRU) /\ Len(sourceLRU') = Len(sourceLRU)
    <2>1. NoDup(sourceLRU) /\ sourceLRU \in Seq(Files)
      BY DEF LRUConsistent
    <2>2. PICK t : t = Touch(sourceLRU, f)
      OBVIOUS
    <2>3. t \in Seq(Files) /\ NoDup(t) /\ Elements(t) = Elements(sourceLRU) \cup {f}
      BY ONLY <2>1, <2>2, f \in Files, TouchLemma
    <2>4. Len(t) = IF f \in Elements(sourceLRU) THEN Len(sourceLRU) ELSE Len(sourceLRU) + 1
      BY ONLY <2>1, <2>2, f \in Files, TouchLemma
    <2> QED
      BY <1>1, <2>2, <2>3, <2>4
  <1>3. RecencyTyped'
    BY TouchLemma DEF RecencyTyped
  <1>4. LRUIsMostRecent'
    BY <1>1, TrimTouch, MaxAssumption DEF RecencyTyped, LRUIsMostRecent
  <1>5. LRUConsistent'
    BY <1>2 DEF LRUConsistent
  <1> QED
    BY <1>2, <1>3, <1>4, <1>5

\* lruPut of a file that is not there adds it, and may drop others.
LEMMA lruPutInv ==
  ASSUME LRUInv, sourceReaders \in [Files -> Geos \cup {None}],
         NEW f \in Files, NEW g \in Geos, sourceReaders[f] = None, lruPut(f, g)
  PROVE /\ LRUInv'
        /\ sourceReaders' \in [Files -> Geos \cup {None}]
        /\ sourceReaders'[f] = g
        /\ \A x \in Files \ {f} : sourceReaders'[x] \in {sourceReaders[x], None}
  <1> USE DEF LRUInv
  <1>1. /\ recency' = Touch(recency, f)
        /\ sourceLRU' = Trim(PushFront(sourceLRU, f), MaxSources)
        /\ sourceReaders' = [x \in Files |-> IF x = f THEN g
                                ELSE IF x \in Elements(sourceLRU') THEN sourceReaders[x]
                                ELSE None]
    BY DEF lruPut
  <1>2. f \notin Elements(sourceLRU) /\ f \notin Elements(Trim(recency, MaxSources))
    BY DEF LRUConsistent, LRUIsMostRecent
  <1>3. /\ NoDup(PushFront(sourceLRU, f)) /\ PushFront(sourceLRU, f) \in Seq(Files)
        /\ Elements(PushFront(sourceLRU, f)) = Elements(sourceLRU) \cup {f}
    BY <1>2, PushFrontNoDup, PushFrontLemma DEF LRUConsistent
  <1>4. /\ sourceLRU' \in Seq(Files) /\ NoDup(sourceLRU') /\ Len(sourceLRU') <= MaxSources
        /\ Elements(sourceLRU') \subseteq Elements(sourceLRU) \cup {f}
    <2>1. MaxSources \in Nat
      BY MaxAssumption
    <2>2. PICK s : s = PushFront(sourceLRU, f)
      OBVIOUS
    <2>3. /\ Trim(s, MaxSources) \in Seq(Files) /\ NoDup(Trim(s, MaxSources))
          /\ Elements(Trim(s, MaxSources)) \subseteq Elements(s)
      BY <2>1, <2>2, <1>3, TrimLemma, TrimNoDup
    <2>4. Len(Trim(s, MaxSources)) <= MaxSources
      BY <2>1, <2>2, <1>3, TrimLemma
    <2> QED
      BY <1>1, <1>3, <2>2, <2>3, <2>4
  <1>5. f \in Elements(sourceLRU')
    <2>1. PICK s : s = PushFront(sourceLRU, f)
      OBVIOUS
    <2>2. s \in Seq(Files) /\ Len(s) \in Nat \ {0} /\ s[1] = f
      <3>1. PushFront(sourceLRU, f) \in Seq(Files)
            /\ Len(PushFront(sourceLRU, f)) = Len(sourceLRU) + 1
        BY PushFrontLemma
      <3>2. PushFront(sourceLRU, f)[1] = f
        BY DEF PushFront
      <3> QED
        BY <2>1, <3>1, <3>2
    <2>3. PICK t : t = Trim(s, MaxSources)
      OBVIOUS
    <2>4. Len(t) \in Nat \ {0} /\ t[1] = s[1]
      BY <2>2, <2>3, TrimLemma, MaxAssumption
    <2> QED
      BY <2>1, <2>2, <2>3, <2>4, <1>1 DEF Elements
  <1>6. RecencyTyped'
    BY <1>1, TouchLemma DEF RecencyTyped
  <1>7. LRUIsMostRecent'
    BY <1>1, <1>2, TrimTouch, MaxAssumption DEF RecencyTyped, LRUIsMostRecent
  <1>8. g # None
    BY NoneAssumption
  <1>9. LRUConsistent'
    BY <1>1, <1>4, <1>5, <1>8 DEF LRUConsistent
  <1> QED
    BY <1>1, <1>4, <1>6, <1>7, <1>9

-----------------------------------------------------------------------------
(* Every step preserves the invariant. *)

\* The invariant, action by action.
LEMMA StepIInv == IInv /\ [Next]_vars => IInv'
  <1> SUFFICES ASSUME IInv, [Next]_vars PROVE IInv'
    OBVIOUS
  <1> USE NoneAssumption, FailedAssumption DEF IInv
  <1>0. LRUInv
    BY DEF LRUInv, TypeOK
  <1>1. ASSUME TypeOK', LRUInv', HandlesOpen', OpenOnlyWhenAbsent', FlightHasLeader',
               GotFitsStage'
        PROVE IInv'
    BY <1>1 DEF LRUInv
  <1>2. ASSUME UNCHANGED lru PROVE LRUInv'
    BY <1>0, <1>2 DEF LRUInv, lru, RecencyTyped, LRUConsistent, LRUIsMostRecent
  <1>3. ASSUME NEW p \in Procs, NEW f \in Files, Ask(p, f) PROVE IInv'
    <2> USE <1>3 DEF Ask, GoTo
    <2>1. TypeOK'
      BY DEF TypeOK, Stages, lru
    <2>2. HandlesOpen'
      BY DEF HandlesOpen, TypeOK, GotFitsStage, lru
    <2>3. OpenOnlyWhenAbsent'
      BY DEF OpenOnlyWhenAbsent, TypeOK, lru
    <2>4. FlightHasLeader'
      BY DEF FlightHasLeader, TypeOK, Leading
    <2>5. GotFitsStage'
      BY DEF GotFitsStage, TypeOK
    <2> QED
      BY <1>1, <1>2, <2>1, <2>2, <2>3, <2>4, <2>5
  <1>4. ASSUME NEW p \in Procs, PeekHit(p) \/ RecheckHit(p) PROVE IInv'
    <2> USE <1>4 DEF PeekHit, RecheckHit, GoTo
    <2>0. /\ want[p] \in Files /\ sourceReaders[want[p]] \in Geos
          /\ got'[p] = sourceReaders[want[p]]
      BY DEF TypeOK
    <2>1. LRUInv' /\ sourceReaders' = sourceReaders
      BY <1>0, <2>0, lruGetInv
    <2>2. TypeOK'
      BY <2>0, <2>1 DEF TypeOK, Stages, Leading, LRUInv
    <2>3. HandlesOpen'
      BY <2>0, <2>1 DEF HandlesOpen, TypeOK
    <2>4. OpenOnlyWhenAbsent'
      BY <2>1 DEF OpenOnlyWhenAbsent, TypeOK
    <2>5. FlightHasLeader'
      BY DEF FlightHasLeader, TypeOK, Leading
    <2>6. GotFitsStage'
      BY <2>0 DEF GotFitsStage, TypeOK
    <2> QED
      BY <1>1, <2>1, <2>2, <2>3, <2>4, <2>5, <2>6
  <1>5. ASSUME NEW p \in Procs, PeekMiss(p) \/ DoJoin(p) \/ DoLead(p) PROVE IInv'
    <2> USE <1>5 DEF PeekMiss, DoJoin, DoLead, GoTo
    <2>1. TypeOK'
      BY DEF TypeOK, Stages, Leading, lru
    <2>2. HandlesOpen'
      BY DEF HandlesOpen, TypeOK, lru
    <2>3. OpenOnlyWhenAbsent'
      BY DEF OpenOnlyWhenAbsent, TypeOK, lru
    <2>4. FlightHasLeader'
      BY DEF FlightHasLeader, TypeOK, Leading
    <2>5. GotFitsStage'
      BY DEF GotFitsStage, TypeOK
    <2>6. UNCHANGED lru
      OBVIOUS
    <2> QED
      BY <1>1, <1>2, <2>1, <2>2, <2>3, <2>4, <2>5, <2>6
  <1>6. ASSUME NEW p \in Procs, RecheckMiss(p) PROVE IInv'
    <2> USE <1>6 DEF RecheckMiss, GoTo
    <2>1. TypeOK'
      BY DEF TypeOK, Stages, Leading, lru
    <2>2. HandlesOpen'
      BY DEF HandlesOpen, TypeOK, lru
    <2>3. OpenOnlyWhenAbsent'
      BY DEF OpenOnlyWhenAbsent, FlightHasLeader, Leading, TypeOK, lru
    <2>4. FlightHasLeader'
      BY DEF FlightHasLeader, TypeOK, Leading
    <2>5. GotFitsStage'
      BY DEF GotFitsStage, TypeOK
    <2> QED
      BY <1>1, <1>2, <2>1, <2>2, <2>3, <2>4, <2>5
  <1>7. ASSUME NEW p \in Procs, NEW g \in Geos, Open(p, g) PROVE IInv'
    <2> USE <1>7 DEF Open, GoTo
    <2>0. /\ want[p] \in Files
          /\ \A q \in Procs : got[q] # g
          /\ \A f \in Files : sourceReaders[f] # g
      BY DEF TypeOK, HandlesOpen, GotFitsStage
    <2>1. TypeOK'
      BY <2>0 DEF TypeOK, Stages, Leading, lru
    <2>2. HandlesOpen'
      BY <2>0 DEF HandlesOpen, TypeOK, lru
    <2>3. OpenOnlyWhenAbsent'
      BY DEF OpenOnlyWhenAbsent, TypeOK, lru
    <2>4. FlightHasLeader'
      BY DEF FlightHasLeader, TypeOK, Leading
    <2>5. GotFitsStage'
      BY DEF GotFitsStage, TypeOK
    <2> QED
      BY <1>1, <1>2, <2>1, <2>2, <2>3, <2>4, <2>5
  <1>8. ASSUME NEW p \in Procs, OpenFails(p) PROVE IInv'
    <2> USE <1>8 DEF OpenFails, GoTo
    <2>1. TypeOK'
      BY DEF TypeOK, Stages, Leading, lru
    <2>2. HandlesOpen'
      BY DEF HandlesOpen, TypeOK, lru
    <2>3. OpenOnlyWhenAbsent'
      BY DEF OpenOnlyWhenAbsent, TypeOK, lru
    <2>4. FlightHasLeader'
      BY DEF FlightHasLeader, TypeOK, Leading
    <2>5. GotFitsStage'
      BY DEF GotFitsStage, TypeOK
    <2> QED
      BY <1>1, <1>2, <2>1, <2>2, <2>3, <2>4, <2>5
  <1>9. ASSUME NEW p \in Procs, Put(p) PROVE IInv'
    <2> USE <1>9 DEF Put, GoTo
    <2>0. /\ want[p] \in Files /\ got[p] \in Geos /\ sourceReaders[want[p]] = None
          /\ fileOf[got[p]] = want[p]
          /\ \A q \in Procs : pc[q] \in {"open", "put"} /\ want[q] = want[p] => q = p
      BY DEF TypeOK, GotFitsStage, OpenOnlyWhenAbsent, HandlesOpen
    <2>1. /\ LRUInv'
          /\ sourceReaders' \in [Files -> Geos \cup {None}]
          /\ sourceReaders'[want[p]] = got[p]
          /\ \A x \in Files \ {want[p]} : sourceReaders'[x] \in {sourceReaders[x], None}
      BY <1>0, <2>0, lruPutInv DEF TypeOK
    <2>2. TypeOK'
      BY <2>1 DEF TypeOK, Stages, Leading, LRUInv
    <2>3. HandlesOpen'
      BY <2>0, <2>1 DEF HandlesOpen, TypeOK
    <2>4. OpenOnlyWhenAbsent'
      BY <2>0, <2>1 DEF OpenOnlyWhenAbsent, TypeOK
    <2>5. FlightHasLeader'
      BY DEF FlightHasLeader, TypeOK, Leading
    <2>6. GotFitsStage'
      BY DEF GotFitsStage, TypeOK
    <2> QED
      BY <1>1, <2>1, <2>2, <2>3, <2>4, <2>5, <2>6
  <1>10. ASSUME NEW p \in Procs, Finish(p) PROVE IInv'
    <2> USE <1>10 DEF Finish, Sharing
    <2>0. /\ want[p] \in Files /\ got[p] \in Geos \cup {Failed}
          /\ inflight[want[p]] = p
      BY DEF TypeOK, GotFitsStage, FlightHasLeader, Leading
    <2>1. TypeOK'
      BY <2>0 DEF TypeOK, Stages, lru
    <2>2. HandlesOpen'
      BY <2>0 DEF HandlesOpen, TypeOK, lru
    <2>3. OpenOnlyWhenAbsent'
      BY DEF OpenOnlyWhenAbsent, TypeOK, lru
    <2>4. FlightHasLeader'
      BY <2>0 DEF FlightHasLeader, TypeOK, Leading
    <2>5. GotFitsStage'
      BY <2>0 DEF GotFitsStage, TypeOK
    <2> QED
      BY <1>1, <1>2, <2>1, <2>2, <2>3, <2>4, <2>5
  <1>11. ASSUME NEW p \in Procs, NEW q \in Procs, Prefetch(p, q) PROVE IInv'
    <2> USE <1>11 DEF Prefetch, GoTo
    <2>0. want[p] \in Files /\ got[p] \in Geos
      BY DEF TypeOK, GotFitsStage
    <2>1. TypeOK'
      BY <2>0 DEF TypeOK, Stages, lru
    <2>2. HandlesOpen'
      BY <2>0 DEF HandlesOpen, TypeOK, lru
    <2>3. OpenOnlyWhenAbsent'
      BY DEF OpenOnlyWhenAbsent, TypeOK, lru
    <2>4. FlightHasLeader'
      BY DEF FlightHasLeader, TypeOK, Leading
    <2>5. GotFitsStage'
      BY <2>0 DEF GotFitsStage, TypeOK
    <2> QED
      BY <1>1, <1>2, <2>1, <2>2, <2>3, <2>4, <2>5
  <1>12. ASSUME NEW p \in Procs, Release(p) PROVE IInv'
    <2> USE <1>12 DEF Release, GoTo
    <2>1. TypeOK'
      BY DEF TypeOK, Stages, lru
    <2>2. HandlesOpen'
      BY DEF HandlesOpen, TypeOK, lru
    <2>3. OpenOnlyWhenAbsent'
      BY DEF OpenOnlyWhenAbsent, TypeOK, lru
    <2>4. FlightHasLeader'
      BY DEF FlightHasLeader, TypeOK, Leading
    <2>5. GotFitsStage'
      BY DEF GotFitsStage, TypeOK
    <2> QED
      BY <1>1, <1>2, <2>1, <2>2, <2>3, <2>4, <2>5
  <1>13. ASSUME NEW g \in Geos, Finalize(g) PROVE IInv'
    <2> USE <1>13 DEF Finalize, Reachable
    <2>1. TypeOK'
      BY DEF TypeOK, lru
    <2>2. HandlesOpen'
      BY DEF HandlesOpen, TypeOK, lru
    <2>3. OpenOnlyWhenAbsent' /\ FlightHasLeader' /\ GotFitsStage'
      BY DEF OpenOnlyWhenAbsent, FlightHasLeader, GotFitsStage, lru
    <2> QED
      BY <1>1, <1>2, <2>1, <2>2, <2>3
  <1>14. CASE UNCHANGED vars
    <2> USE <1>14 DEF vars, lru
    <2>1. TypeOK' /\ HandlesOpen'
      BY DEF TypeOK, HandlesOpen
    <2>2. OpenOnlyWhenAbsent' /\ FlightHasLeader' /\ GotFitsStage'
      BY DEF OpenOnlyWhenAbsent, FlightHasLeader, GotFitsStage
    <2> QED
      BY <1>1, <1>2, <2>1, <2>2
  <1> QED
    BY <1>3, <1>4, <1>5, <1>6, <1>7, <1>8, <1>9, <1>10, <1>11, <1>12, <1>13, <1>14
       DEF Next, Look, Call, OpenSource

-----------------------------------------------------------------------------
(* The theorems *)

\* The inductive invariant of getSourceGeo and its LRU.
THEOREM Invariance == Safety => []IInv
  BY InitIInv, StepIInv, PTL DEF Safety

\* Type correctness.
THEOREM TypeCorrect == Safety => []TypeOK
  <1>1. IInv => TypeOK
    BY DEF IInv
  <1> QED
    BY <1>1, Invariance, PTL

\* The map and the list of the LRU agree, and its bound is kept.
THEOREM Consistent == Safety => []LRUConsistent
  <1>1. IInv => LRUConsistent
    BY DEF IInv
  <1> QED
    BY <1>1, Invariance, PTL

\* What the LRU holds are the most recently used files.
THEOREM MostRecent == Safety => []LRUIsMostRecent
  <1>1. IInv => LRUIsMostRecent
    BY DEF IInv
  <1> QED
    BY <1>1, Invariance, PTL

\* Nobody has a closed GeoTIFF, or one of a file it did not ask for.
THEOREM Handles == Safety => []HandlesOpen
  <1>1. IInv => HandlesOpen
    BY DEF IInv
  <1> QED
    BY <1>1, Invariance, PTL

\* A file is opened by one goroutine at a time, never while the LRU has it.
THEOREM OneOpen == Safety => []OpenOnlyWhenAbsent
  <1>1. IInv => OpenOnlyWhenAbsent
    BY DEF IInv
  <1> QED
    BY <1>1, Invariance, PTL
=============================================================================

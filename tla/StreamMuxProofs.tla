--------------------------- MODULE StreamMuxProofs ---------------------------
(***************************************************************************)
(* The safety of the relay, for any streams, queues and numbers of chunks: *)
(* every chunk is accounted for between the service and the client, and    *)
(* between the client and the service.                                     *)
(***************************************************************************)
EXTENDS StreamMux, FunctionTheorems, FiniteSetTheorems, TLAPS

-----------------------------------------------------------------------------
(* What a queue s holds of a stream x.                                     *)

At(s, i, t, x) == s[i].type = t /\ s[i].stream = x

Has(s, t, x) == \E i \in 1 .. Len(s) : At(s, i, t, x)

Quiet(s, x) == \A i \in 1 .. Len(s) : s[i].stream # x

DataAt(s, x) == {i \in 1 .. Len(s) : At(s, i, "DATA", x)}

Cnt(s, x) == Cardinality(DataAt(s, x))

OneOpen(s, x) ==
    \A i, j \in 1 .. Len(s) :
        At(s, i, "OPEN", x) /\ At(s, j, "OPEN", x) => i = j

FirstOpen(s, x) ==
    \A i, j \in 1 .. Len(s) :
        At(s, i, "OPEN", x) /\ s[j].stream = x => i <= j

LastClose(s, x) ==
    \A i, j \in 1 .. Len(s) :
        At(s, i, "CLOSE", x) /\ s[j].stream = x => j <= i

DataFirst(s, x) ==
    \A i, j \in 1 .. Len(s) :
        At(s, i, "CLOSE", x) /\ At(s, j, "DATA", x) => j < i

Followed(s, x) ==
    \A i \in 1 .. Len(s) : At(s, i, "OPEN", x) =>
        \E j \in 1 .. Len(s) : i < j /\ At(s, j, "CLOSE", x)

\* Two queues hold the same of x.
Alike(s, u, x) ==
    /\ Quiet(s, x) <=> Quiet(u, x)
    /\ \A t \in StreamFrame : Has(s, t, x) <=> Has(u, t, x)
    /\ Cnt(s, x) = Cnt(u, x)
    /\ OneOpen(s, x) => OneOpen(u, x)
    /\ FirstOpen(s, x) => FirstOpen(u, x)
    /\ LastClose(s, x) => LastClose(u, x)
    /\ DataFirst(s, x) => DataFirst(u, x)
    /\ Followed(s, x) => Followed(u, x)

LEMMA AlikeSelf ==
    ASSUME NEW s, NEW x
    PROVE  Alike(s, s, x)
BY DEF Alike

LEMMA AppendAt ==
    ASSUME NEW s \in Seq(Frame), NEW f \in Frame
    PROVE  LET z == Append(s, f)
           IN  /\ z \in Seq(Frame) /\ Len(s) \in Nat /\ Len(z) = Len(s) + 1
               /\ z[Len(s) + 1] = f
               /\ \A i \in 1 .. Len(s) : z[i] = s[i]
OBVIOUS

LEMMA TailAt ==
    ASSUME NEW s \in Seq(Frame), s # <<>>
    PROVE  LET z == Tail(s)
           IN  /\ z \in Seq(Frame) /\ Len(s) \in Nat /\ Len(s) >= 1
               /\ Len(z) = Len(s) - 1
               /\ Head(s) = s[1] /\ Head(s) \in Frame
               /\ \A i \in 1 .. Len(z) : z[i] = s[i + 1]
OBVIOUS

LEMMA DataFinite ==
    ASSUME NEW s \in Seq(Frame), NEW x
    PROVE  IsFiniteSet(DataAt(s, x)) /\ Cnt(s, x) \in Nat
<1>1. IsFiniteSet(1 .. Len(s))
  BY FS_Interval
<1>2. DataAt(s, x) \in SUBSET (1 .. Len(s))
  BY DEF DataAt
<1>3. IsFiniteSet(DataAt(s, x))
  BY <1>1, <1>2, FS_Subset
<1> QED
  BY <1>3, FS_CardinalityType DEF Cnt

LEMMA NoData ==
    ASSUME NEW s \in Seq(Frame), NEW x, ~Has(s, "DATA", x)
    PROVE  Cnt(s, x) = 0
<1>1. DataAt(s, x) = {}
  BY DEF DataAt, Has
<1> QED
  BY <1>1, FS_EmptySet DEF Cnt

LEMMA SomeData ==
    ASSUME NEW s \in Seq(Frame), NEW x, Has(s, "DATA", x)
    PROVE  Cnt(s, x) > 0
<1>1. DataAt(s, x) # {}
  BY DEF DataAt, Has
<1>2. Cnt(s, x) # 0
  BY <1>1, DataFinite, FS_EmptySet DEF Cnt
<1> QED
  BY <1>2, DataFinite

LEMMA CntAppend ==
    ASSUME NEW s \in Seq(Frame), NEW f \in Frame, NEW x
    PROVE  Cnt(Append(s, f), x) =
             Cnt(s, x) + (IF f.type = "DATA" /\ f.stream = x THEN 1 ELSE 0)
<1> DEFINE z == Append(s, f)
           n == Len(s) + 1
<1>1. /\ Len(s) \in Nat /\ Len(z) = n /\ z[n] = f
      /\ \A i \in 1 .. Len(s) : z[i] = s[i]
  BY AppendAt
<1> HIDE DEF z
<1>2. CASE f.type = "DATA" /\ f.stream = x
  <2>1. DataAt(z, x) = DataAt(s, x) \cup {n}
    BY <1>1, <1>2 DEF DataAt, At
  <2>2. n \notin DataAt(s, x)
    BY <1>1 DEF DataAt
  <2> QED
    BY <1>2, <2>1, <2>2, DataFinite, FS_AddElement DEF Cnt, z
<1>3. CASE ~(f.type = "DATA" /\ f.stream = x)
  <2>1. DataAt(z, x) = DataAt(s, x)
    BY <1>1, <1>3 DEF DataAt, At
  <2> QED
    BY <1>3, <2>1, DataFinite DEF Cnt, z
<1> QED
  BY <1>2, <1>3

LEMMA CntTail ==
    ASSUME NEW s \in Seq(Frame), s # <<>>, NEW x
    PROVE  Cnt(s, x) =
             Cnt(Tail(s), x)
             + (IF Head(s).type = "DATA" /\ Head(s).stream = x THEN 1 ELSE 0)
<1> DEFINE z == Tail(s)
           S == DataAt(s, x) \ {1}
           T == DataAt(z, x)
           h == [i \in T |-> i + 1]
<1>1. /\ z \in Seq(Frame) /\ Len(s) \in Nat /\ Len(s) >= 1
      /\ Len(z) = Len(s) - 1 /\ Head(s) = s[1]
      /\ \A i \in 1 .. Len(z) : z[i] = s[i + 1]
  BY TailAt
<1> HIDE DEF z
<1>2. IsFiniteSet(T) /\ Cardinality(T) = Cnt(z, x) /\ Cnt(z, x) \in Nat
  BY <1>1, DataFinite DEF Cnt
<1>3. ExistsBijection(T, S)
  <2>1. \A i \in T : i \in Nat /\ h[i] = i + 1 /\ i + 1 \in S
    BY <1>1 DEF DataAt, At
  <2>2. \A j \in S : j \in Nat /\ j - 1 \in T /\ (j - 1) + 1 = j
    BY <1>1 DEF DataAt, At
  <2> HIDE DEF S, T
  <2>3. h \in [T -> S]
    BY <2>1
  <2>4. \A i, j \in T : h[i] = h[j] => i = j
    BY <2>1
  <2>5. \A j \in S : \E i \in T : h[i] = j
    BY <2>1, <2>2
  <2> HIDE DEF h
  <2>6. h \in Bijection(T, S)
    BY <2>3, <2>4, <2>5, Fun_IsBij
  <2> QED
    BY <2>6 DEF ExistsBijection
<1>4. IsFiniteSet(S) /\ Cardinality(S) = Cnt(z, x)
  BY <1>2, <1>3, FS_Bijection
<1>5. 1 \in DataAt(s, x) <=> Head(s).type = "DATA" /\ Head(s).stream = x
  BY <1>1 DEF DataAt, At
<1>6. Cardinality(S) = IF 1 \in DataAt(s, x) THEN Cnt(s, x) - 1 ELSE Cnt(s, x)
  BY DataFinite, FS_RemoveElement DEF Cnt
<1> QED
  BY <1>2, <1>4, <1>5, <1>6, DataFinite DEF z

\* A frame of another stream changes nothing for x, at either end.
LEMMA AppendOther ==
    ASSUME NEW s \in Seq(Frame), NEW f \in Frame, NEW x, f.stream # x
    PROVE  Alike(s, Append(s, f), x)
<1> DEFINE z == Append(s, f)
           n == Len(s) + 1
<1>1. /\ z \in Seq(Frame) /\ Len(s) \in Nat /\ Len(z) = n /\ z[n] = f
      /\ \A i \in 1 .. Len(s) : z[i] = s[i]
  BY AppendAt
<1>2. Cnt(z, x) = Cnt(s, x)
  BY CntAppend, DataFinite
<1> HIDE DEF z
<1>3. 1 .. Len(z) = (1 .. Len(s)) \cup {n}
  BY <1>1
<1>4. z[n].stream # x
  BY <1>1
<1>5. Quiet(s, x) <=> Quiet(z, x)
  BY <1>1, <1>3, <1>4 DEF Quiet
<1>6. \A t : Has(s, t, x) <=> Has(z, t, x)
  BY <1>1, <1>3, <1>4 DEF Has, At
<1>7. /\ OneOpen(s, x) => OneOpen(z, x)
      /\ FirstOpen(s, x) => FirstOpen(z, x)
      /\ LastClose(s, x) => LastClose(z, x)
      /\ DataFirst(s, x) => DataFirst(z, x)
  BY <1>1, <1>3, <1>4 DEF OneOpen, FirstOpen, LastClose, DataFirst, At
<1>8. Followed(s, x) => Followed(z, x)
  BY <1>1, <1>3, <1>4 DEF Followed, At
<1> QED
  BY <1>2, <1>5, <1>6, <1>7, <1>8 DEF Alike, z

\* The orders of a queue are those of its tail.
LEMMA TailOrders ==
    ASSUME NEW s \in Seq(Frame), s # <<>>, NEW x
    PROVE  LET z == Tail(s)
           IN  /\ OneOpen(s, x) => OneOpen(z, x)
               /\ FirstOpen(s, x) => FirstOpen(z, x)
               /\ LastClose(s, x) => LastClose(z, x)
               /\ DataFirst(s, x) => DataFirst(z, x)
<1> DEFINE z == Tail(s)
<1>1. /\ Len(s) \in Nat /\ Len(s) >= 1 /\ Len(z) = Len(s) - 1
      /\ \A i \in 1 .. Len(z) : z[i] = s[i + 1]
  BY TailAt
<1> HIDE DEF z
<1>2. \A i \in 1 .. Len(z) : i \in Nat /\ i + 1 \in 1 .. Len(s)
  BY <1>1
<1>3. \A i \in 1 .. Len(z) :
          /\ \A t : At(z, i, t, x) <=> At(s, i + 1, t, x)
          /\ z[i].stream = x <=> s[i + 1].stream = x
  BY <1>1 DEF At
<1>4. ASSUME OneOpen(s, x) PROVE OneOpen(z, x)
  <2> SUFFICES ASSUME NEW i \in 1 .. Len(z), NEW j \in 1 .. Len(z),
                      At(z, i, "OPEN", x), At(z, j, "OPEN", x)
               PROVE  i = j
    BY DEF OneOpen
  <2>1. i + 1 = j + 1
    BY <1>2, <1>3, <1>4 DEF OneOpen
  <2> QED
    BY <1>2, <2>1
<1>5. ASSUME FirstOpen(s, x) PROVE FirstOpen(z, x)
  <2> SUFFICES ASSUME NEW i \in 1 .. Len(z), NEW j \in 1 .. Len(z),
                      At(z, i, "OPEN", x), z[j].stream = x
               PROVE  i <= j
    BY DEF FirstOpen
  <2>1. i + 1 <= j + 1
    BY <1>2, <1>3, <1>5 DEF FirstOpen
  <2> QED
    BY <1>2, <2>1
<1>6. ASSUME LastClose(s, x) PROVE LastClose(z, x)
  <2> SUFFICES ASSUME NEW i \in 1 .. Len(z), NEW j \in 1 .. Len(z),
                      At(z, i, "CLOSE", x), z[j].stream = x
               PROVE  j <= i
    BY DEF LastClose
  <2>1. j + 1 <= i + 1
    BY <1>2, <1>3, <1>6 DEF LastClose
  <2> QED
    BY <1>2, <2>1
<1>7. ASSUME DataFirst(s, x) PROVE DataFirst(z, x)
  <2> SUFFICES ASSUME NEW i \in 1 .. Len(z), NEW j \in 1 .. Len(z),
                      At(z, i, "CLOSE", x), At(z, j, "DATA", x)
               PROVE  j < i
    BY DEF DataFirst
  <2>1. j + 1 < i + 1
    BY <1>2, <1>3, <1>7 DEF DataFirst
  <2> QED
    BY <1>2, <2>1
<1> QED
  BY <1>4, <1>5, <1>6, <1>7 DEF z

LEMMA TailOther ==
    ASSUME NEW s \in Seq(Frame), s # <<>>, NEW x, Head(s).stream # x
    PROVE  Alike(s, Tail(s), x)
<1> DEFINE z == Tail(s)
<1>1. /\ z \in Seq(Frame) /\ Len(s) \in Nat /\ Len(s) >= 1
      /\ Len(z) = Len(s) - 1 /\ s[1].stream # x
      /\ \A i \in 1 .. Len(z) : z[i] = s[i + 1]
  BY TailAt
<1>2. Cnt(z, x) = Cnt(s, x)
  <2>1. Cnt(s, x) = Cnt(z, x) + 0
    BY CntTail
  <2>2. Cnt(z, x) \in Nat
    BY <1>1, DataFinite
  <2> QED
    BY <2>1, <2>2
<1> HIDE DEF z
<1>3. \A i \in 1 .. Len(z) : i + 1 \in 1 .. Len(s) /\ s[i + 1] = z[i]
  BY <1>1
<1>4. \A i \in 1 .. Len(s) : s[i].stream = x =>
          i \in Nat /\ i - 1 \in 1 .. Len(z) /\ z[i - 1] = s[i]
  BY <1>1
<1>5. Quiet(s, x) <=> Quiet(z, x)
  BY <1>3, <1>4 DEF Quiet
<1>6. \A t : Has(s, t, x) <=> Has(z, t, x)
  BY <1>3, <1>4 DEF Has, At
<1>7. /\ OneOpen(s, x) => OneOpen(z, x)
      /\ FirstOpen(s, x) => FirstOpen(z, x)
      /\ LastClose(s, x) => LastClose(z, x)
      /\ DataFirst(s, x) => DataFirst(z, x)
  BY TailOrders DEF z
<1>9. ASSUME Followed(s, x) PROVE Followed(z, x)
  <2> SUFFICES ASSUME NEW i \in 1 .. Len(z), At(z, i, "OPEN", x)
               PROVE  \E j \in 1 .. Len(z) : i < j /\ At(z, j, "CLOSE", x)
    BY DEF Followed
  <2>1. PICK j \in 1 .. Len(s) : i + 1 < j /\ At(s, j, "CLOSE", x)
    BY <1>3, <1>9 DEF Followed, At
  <2>2. j - 1 \in 1 .. Len(z) /\ i < j - 1 /\ At(z, j - 1, "CLOSE", x)
    BY <1>4, <2>1 DEF At
  <2> QED
    BY <2>2
<1> QED
  BY <1>2, <1>5, <1>6, <1>7, <1>9 DEF Alike, z

\* A frame of x that is put last.
LEMMA AppendOwn ==
    ASSUME NEW s \in Seq(Frame), NEW f \in Frame, NEW x, f.stream = x
    PROVE  LET z == Append(s, f)
           IN  /\ ~Quiet(z, x)
               /\ \A t : Has(z, t, x) <=> Has(s, t, x) \/ f.type = t
               /\ Cnt(z, x) = Cnt(s, x) + IF f.type = "DATA" THEN 1 ELSE 0
               /\ OneOpen(s, x) /\ (f.type = "OPEN" => ~Has(s, "OPEN", x))
                      => OneOpen(z, x)
               /\ FirstOpen(s, x) /\ (f.type = "OPEN" => Quiet(s, x))
                      => FirstOpen(z, x)
               /\ LastClose(s, x) /\ ~Has(s, "CLOSE", x) => LastClose(z, x)
               /\ DataFirst(s, x) /\ (f.type = "DATA" => ~Has(s, "CLOSE", x))
                      => DataFirst(z, x)
               /\ f.type = "CLOSE" => Followed(z, x)
<1> DEFINE z == Append(s, f)
           n == Len(s) + 1
<1>1. /\ z \in Seq(Frame) /\ Len(s) \in Nat /\ Len(z) = n /\ z[n] = f
      /\ \A i \in 1 .. Len(s) : z[i] = s[i]
  BY AppendAt
<1>2. Cnt(z, x) = Cnt(s, x) + IF f.type = "DATA" THEN 1 ELSE 0
  BY CntAppend, DataFinite
<1> HIDE DEF z
<1>3. 1 .. Len(z) = (1 .. Len(s)) \cup {n}
  BY <1>1
<1>4. z[n].stream = x /\ z[n].type = f.type
  BY <1>1
<1>5. ~Quiet(z, x)
  BY <1>3, <1>4 DEF Quiet
<1>6. \A t : Has(z, t, x) <=> Has(s, t, x) \/ f.type = t
  BY <1>1, <1>3, <1>4 DEF Has, At
<1>7. OneOpen(s, x) /\ (f.type = "OPEN" => ~Has(s, "OPEN", x))
          => OneOpen(z, x)
  BY <1>1, <1>3, <1>4 DEF OneOpen, Has, At
<1>8. FirstOpen(s, x) /\ (f.type = "OPEN" => Quiet(s, x)) => FirstOpen(z, x)
  BY <1>1, <1>3, <1>4 DEF FirstOpen, Quiet, At
<1>9. LastClose(s, x) /\ ~Has(s, "CLOSE", x) => LastClose(z, x)
  BY <1>1, <1>3, <1>4 DEF LastClose, Has, At
<1>10. DataFirst(s, x) /\ (f.type = "DATA" => ~Has(s, "CLOSE", x))
           => DataFirst(z, x)
  BY <1>1, <1>3, <1>4 DEF DataFirst, Has, At
<1>11. f.type = "CLOSE" => Followed(z, x)
  BY <1>1, <1>3, <1>4 DEF Followed, At
<1> QED
  BY <1>2, <1>5, <1>6, <1>7, <1>8, <1>9, <1>10, <1>11 DEF z

\* The first frame is taken, and it is one of x.
LEMMA TailOwn ==
    ASSUME NEW s \in Seq(Frame), s # <<>>, NEW x, Head(s).stream = x
    PROVE  LET z == Tail(s)
               f == Head(s)
           IN  /\ \A t : Has(s, t, x) <=> Has(z, t, x) \/ f.type = t
               /\ Cnt(s, x) = Cnt(z, x) + IF f.type = "DATA" THEN 1 ELSE 0
               /\ OneOpen(s, x) => /\ OneOpen(z, x)
                                   /\ f.type = "OPEN" => ~Has(z, "OPEN", x)
               /\ FirstOpen(s, x) => /\ FirstOpen(z, x)
                                     /\ f.type # "OPEN" => ~Has(z, "OPEN", x)
               /\ LastClose(s, x) => /\ LastClose(z, x)
                                     /\ f.type = "CLOSE" => Quiet(z, x)
               /\ DataFirst(s, x) => /\ DataFirst(z, x)
                                     /\ f.type = "CLOSE" => ~Has(z, "DATA", x)
               /\ Followed(s, x) => /\ Followed(z, x)
                                    /\ f.type = "OPEN" => Has(z, "CLOSE", x)
               /\ ~Quiet(s, x)
<1> DEFINE z == Tail(s)
           f == Head(s)
<1>1. /\ z \in Seq(Frame) /\ Len(s) \in Nat /\ Len(s) >= 1
      /\ Len(z) = Len(s) - 1 /\ s[1] = f
      /\ \A i \in 1 .. Len(z) : z[i] = s[i + 1]
  BY TailAt
<1>2. Cnt(s, x) = Cnt(z, x) + IF f.type = "DATA" THEN 1 ELSE 0
  BY <1>1, CntTail, DataFinite
<1> HIDE DEF z
<1>3. \A i \in 1 .. Len(z) :
          i \in Nat /\ i + 1 \in 1 .. Len(s) /\ s[i + 1] = z[i]
  BY <1>1
<1>4. \A i \in 1 .. Len(s) : i # 1 =>
          i \in Nat /\ i - 1 \in 1 .. Len(z) /\ z[i - 1] = s[i]
  BY <1>1
<1>5. 1 \in 1 .. Len(s) /\ s[1].stream = x /\ s[1].type = f.type
  BY <1>1
<1> HIDE DEF f
<1>6. \A t : Has(s, t, x) <=> Has(z, t, x) \/ f.type = t
  <2> SUFFICES ASSUME NEW t
               PROVE  Has(s, t, x) <=> Has(z, t, x) \/ f.type = t
    OBVIOUS
  <2>1. \A i \in 1 .. Len(z) : At(z, i, t, x) => At(s, i + 1, t, x)
    BY <1>3 DEF At
  <2>2. \A i \in 1 .. Len(s) : i # 1 /\ At(s, i, t, x) => At(z, i - 1, t, x)
    BY <1>4 DEF At
  <2>3. At(s, 1, t, x) <=> f.type = t
    BY <1>5 DEF At
  <2> QED
    BY <1>3, <1>4, <1>5, <2>1, <2>2, <2>3 DEF Has
<1>7. ASSUME OneOpen(s, x), f.type = "OPEN" PROVE ~Has(z, "OPEN", x)
  <2> SUFFICES ASSUME NEW i \in 1 .. Len(z), At(z, i, "OPEN", x) PROVE FALSE
    BY DEF Has
  <2>1. At(s, i + 1, "OPEN", x) /\ At(s, 1, "OPEN", x)
    BY <1>3, <1>5, <1>7 DEF At
  <2>2. i + 1 = 1
    BY <1>3, <1>5, <1>7, <2>1 DEF OneOpen
  <2> QED
    BY <2>2
<1>8. ASSUME FirstOpen(s, x), f.type # "OPEN" PROVE ~Has(z, "OPEN", x)
  <2> SUFFICES ASSUME NEW i \in 1 .. Len(z), At(z, i, "OPEN", x) PROVE FALSE
    BY DEF Has
  <2>1. At(s, i + 1, "OPEN", x)
    BY <1>3 DEF At
  <2>2. i + 1 <= 1
    BY <1>3, <1>5, <1>8, <2>1 DEF FirstOpen
  <2> QED
    BY <2>2
<1>9. ASSUME LastClose(s, x), f.type = "CLOSE" PROVE Quiet(z, x)
  <2> SUFFICES ASSUME NEW i \in 1 .. Len(z), z[i].stream = x PROVE FALSE
    BY DEF Quiet
  <2>1. s[i + 1].stream = x /\ At(s, 1, "CLOSE", x)
    BY <1>3, <1>5, <1>9 DEF At
  <2>2. i + 1 <= 1
    BY <1>3, <1>5, <1>9, <2>1 DEF LastClose
  <2> QED
    BY <2>2
<1>10. ASSUME DataFirst(s, x), f.type = "CLOSE" PROVE ~Has(z, "DATA", x)
  <2> SUFFICES ASSUME NEW i \in 1 .. Len(z), At(z, i, "DATA", x) PROVE FALSE
    BY DEF Has
  <2>1. At(s, i + 1, "DATA", x) /\ At(s, 1, "CLOSE", x)
    BY <1>3, <1>5, <1>10 DEF At
  <2>2. i + 1 < 1
    BY <1>3, <1>5, <1>10, <2>1 DEF DataFirst
  <2> QED
    BY <2>2
<1>11. ASSUME Followed(s, x) PROVE Followed(z, x)
  <2> SUFFICES ASSUME NEW i \in 1 .. Len(z), At(z, i, "OPEN", x)
               PROVE  \E j \in 1 .. Len(z) : i < j /\ At(z, j, "CLOSE", x)
    BY DEF Followed
  <2>1. PICK j \in 1 .. Len(s) : i + 1 < j /\ At(s, j, "CLOSE", x)
    BY <1>3, <1>11 DEF Followed, At
  <2>2. j - 1 \in 1 .. Len(z) /\ i < j - 1 /\ At(z, j - 1, "CLOSE", x)
    BY <1>3, <1>4, <2>1 DEF At
  <2> QED
    BY <2>2
<1>12. ASSUME Followed(s, x), f.type = "OPEN" PROVE Has(z, "CLOSE", x)
  <2>1. PICK j \in 1 .. Len(s) : 1 < j /\ At(s, j, "CLOSE", x)
    BY <1>5, <1>12 DEF Followed, At
  <2> QED
    BY <1>4, <2>1 DEF Has, At
<1>13. ~Quiet(s, x)
  BY <1>5 DEF Quiet
<1> QED
  BY <1>2, <1>6, <1>7, <1>8, <1>9, <1>10, <1>11, <1>12, <1>13, TailOrders
     DEF z, f

\* The socket breaks: a beginning of what was on its way arrives.
LEMMA Prefix ==
    ASSUME NEW s \in Seq(Frame), NEW n \in 0 .. Len(s), NEW x
    PROVE  LET z == SubSeq(s, 1, n)
           IN  /\ z \in Seq(Frame)
               /\ Quiet(s, x) => Quiet(z, x)
               /\ \A t : Has(z, t, x) => Has(s, t, x)
               /\ Cnt(z, x) <= Cnt(s, x)
               /\ DataFirst(s, x) =>
                      /\ DataFirst(z, x)
                      /\ Has(z, "CLOSE", x) => Cnt(z, x) = Cnt(s, x)
<1> DEFINE z == SubSeq(s, 1, n)
<1>1. /\ z \in Seq(Frame) /\ Len(s) \in Nat /\ Len(z) = n
      /\ \A i \in 1 .. n : z[i] = s[i] /\ i \in 1 .. Len(s)
  OBVIOUS
<1> HIDE DEF z
<1>2. Quiet(s, x) => Quiet(z, x)
  BY <1>1 DEF Quiet
<1>3. \A t : Has(z, t, x) => Has(s, t, x)
  BY <1>1 DEF Has, At
<1>4. DataAt(z, x) \in SUBSET DataAt(s, x)
  BY <1>1 DEF DataAt, At
<1>5. Cnt(z, x) <= Cnt(s, x)
  BY <1>4, DataFinite, FS_Subset DEF Cnt
<1>6. DataFirst(s, x) => DataFirst(z, x)
  BY <1>1 DEF DataFirst, At
<1>7. ASSUME DataFirst(s, x), Has(z, "CLOSE", x) PROVE DataAt(z, x) = DataAt(s, x)
  <2>1. PICK c \in 1 .. n : At(s, c, "CLOSE", x)
    BY <1>1, <1>7 DEF Has, At
  <2>2. \A j \in DataAt(s, x) : j < c
    BY <1>1, <1>7, <2>1 DEF DataFirst, DataAt
  <2> QED
    BY <1>1, <1>4, <2>1, <2>2 DEF DataAt, At
<1> QED
  BY <1>1, <1>2, <1>3, <1>5, <1>6, <1>7 DEF Cnt, z

-----------------------------------------------------------------------------
(* The inductive invariant.                                                *)

Typed ==
    /\ TypeOK
    /\ in \in [Streams -> Seq(Frame)]
    /\ inbound \in [Streams -> Nat]
    /\ IsFiniteSet(handles) /\ IsFiniteSet(swept)

Shared ==
    /\ closed => broken
    /\ sweeper # Nobody => sweeper \in swept

\* Where a stream begins, and how far the reader of its service is: it sees the
\* end of the service's side after all of it, unless that was reset.
Fresh(x) ==
    /\ handler[x] = "new" =>
           /\ x \notin reg /\ x \notin swept
           /\ Quiet(up, x) /\ in[x] = <<>> /\ client[x].got = 0
    /\ handler[x] \in {"new", "open"} =>
           /\ service[x].state = "none" /\ pump[x] = "off"
           /\ ~Has(down, "OPEN", x)
           /\ x \notin swept => Quiet(down, x)
    /\ handler[x] \in Early => client[x].left = Chunks
    /\ service[x].state = "none" =>
           /\ writer[x] = "off" /\ x \notin handles /\ inbound[x] = 0
           /\ service[x].got = 0 /\ service[x].sent = 0
           /\ reader[x].read = 0
    /\ Has(down, "OPEN", x) => service[x].state = "none"
    /\ OneOpen(down, x)
    /\ reader[x].read <= service[x].sent
    /\ reader[x].state = "done" =>
           \/ service[x].state = "reset"
           \/ service[x].state = "closed" /\ reader[x].read = service[x].sent
    /\ reader[x].state = "stopped" => broken /\ reader[x].read > 0

\* Towards the service: nothing is lost of a stream that was not swept, its
\* OPEN comes first and its CLOSE last.
Request(x) ==
    /\ service[x].got + inbound[x] + Cnt(down, x) <= Relayed(x)
    /\ ~broken /\ x \notin swept =>
           /\ service[x].state = "open" \/ Has(down, "OPEN", x) =>
                  service[x].got + inbound[x] + Cnt(down, x) = Relayed(x)
           /\ service[x].state = "open" /\ x \notin handles =>
                  handler[x] \in Later /\ Quiet(down, x)
           /\ Has(down, "CLOSE", x) => handler[x] \in Later
           /\ FirstOpen(down, x) /\ LastClose(down, x)
    /\ writer[x] \in {"hold", "shut"} =>
           service[x].state = "reset" \/ (x \notin handles /\ inbound[x] = 0)

\* The CLOSE of a handler that is through is still to come, or was handled.
Slots(x) ==
    ~broken /\ handler[x] \in Later =>
        /\ x \in handles => Has(down, "CLOSE", x)
        /\ Followed(down, x)

\* Towards the client: what is lost is lost with the CLOSE behind it.
Response(x) ==
    /\ \A i \in 1 .. Len(in[x]) : in[x][i].stream = x
    /\ client[x].got + Cnt(in[x], x) + Cnt(up, x) <= reader[x].read
    /\ Has(up, "CLOSE", x) \/ Has(in[x], "CLOSE", x) \/ pump[x] = "eof" =>
           reader[x].state = "done"
    /\ DataFirst(up, x) /\ DataFirst(in[x], x)
    /\ Has(in[x], "CLOSE", x) => ~Has(up, "DATA", x)
    /\ pump[x] \in {"off", "run"} =>
           /\ x \in reg /\ (~broken \/ Has(up, "CLOSE", x)) =>
                  client[x].got + Cnt(in[x], x) + Cnt(up, x) = reader[x].read
           /\ Has(in[x], "CLOSE", x) =>
                  client[x].got + Cnt(in[x], x) = reader[x].read
    /\ pump[x] = "eof" => client[x].got = reader[x].read

\* serveHTTP is the only one that finishes its stream, but for sweeps and the
\* end of the agent.
Outcome(x) ==
    x \in Http =>
        /\ handler[x] \notin {"finish", "drain"}
        /\ x \in fin => handler[x] = "done" \/ x \in swept \/ closed
        /\ handler[x] = "done" =>
               \/ client[x].got > 0 \/ client[x].got502
               \/ x \in swept \/ closed

Per(x) == Fresh(x) /\ Request(x) /\ Slots(x) /\ Response(x) /\ Outcome(x)

MuxInv == Typed /\ Shared /\ \A x \in Streams : Per(x)

-----------------------------------------------------------------------------
(* What a step leaves alone keeps its part of the invariant.               *)

LEMMA FreshKept ==
    ASSUME NEW z \in Streams, Fresh(z),
           handler'[z] = handler[z], pump'[z] = pump[z], in'[z] = in[z],
           client'[z].left = client[z].left, client'[z].got = client[z].got,
           z \in reg' => z \in reg, z \in swept' <=> z \in swept,
           service'[z] = service[z], writer'[z] = writer[z],
           reader'[z] = reader[z], broken => broken',
           z \in handles' => z \in handles, inbound'[z] = inbound[z],
           Alike(down, down', z), Alike(up, up', z)
    PROVE  Fresh(z)'
<1>1. Has(down', "OPEN", z) <=> Has(down, "OPEN", z)
  BY DEF Alike, StreamFrame
<1> QED
  BY <1>1 DEF Fresh, Alike

LEMMA RequestKept ==
    ASSUME NEW z \in Streams, Request(z),
           handler'[z] = handler[z], client'[z].left = client[z].left,
           service'[z] = service[z], writer'[z] = writer[z],
           z \in handles' <=> z \in handles, inbound'[z] = inbound[z],
           broken => broken', z \in swept => z \in swept',
           Alike(down, down', z)
    PROVE  Request(z)'
<1>1. /\ Has(down', "OPEN", z) <=> Has(down, "OPEN", z)
      /\ Has(down', "CLOSE", z) <=> Has(down, "CLOSE", z)
      /\ Cnt(down', z) = Cnt(down, z)
  BY DEF Alike, StreamFrame
<1>2. Relayed(z)' = Relayed(z)
  BY DEF Relayed
<1> QED
  BY <1>1, <1>2 DEF Request, Alike

LEMMA SlotsKept ==
    ASSUME NEW z \in Streams, Slots(z), handler'[z] = handler[z],
           z \in handles' => z \in handles, broken => broken',
           Alike(down, down', z)
    PROVE  Slots(z)'
<1>1. Has(down', "CLOSE", z) <=> Has(down, "CLOSE", z)
  BY DEF Alike, StreamFrame
<1> QED
  BY <1>1 DEF Slots, Alike

LEMMA ResponseKept ==
    ASSUME NEW z \in Streams, Response(z),
           in'[z] = in[z], pump'[z] = pump[z],
           client'[z].got = client[z].got,
           reader'[z] = reader[z],
           z \in reg' => z \in reg, broken => broken', Alike(up, up', z)
    PROVE  Response(z)'
<1>1. /\ Has(up', "CLOSE", z) <=> Has(up, "CLOSE", z)
      /\ Has(up', "DATA", z) <=> Has(up, "DATA", z)
      /\ Cnt(up', z) = Cnt(up, z)
      /\ DataFirst(up, z) => DataFirst(up', z)
  BY DEF Alike, StreamFrame
<1> QED
  BY <1>1 DEF Response

LEMMA OutcomeKept ==
    ASSUME NEW z \in Streams, Outcome(z), handler'[z] = handler[z],
           client'[z].got = client[z].got,
           client'[z].got502 = client[z].got502,
           z \in fin' => z \in fin \/ closed' \/ z \in swept',
           z \in swept => z \in swept', closed => closed'
    PROVE  Outcome(z)'
BY DEF Outcome

\* A step that is about other streams.
Untouched(z) ==
    /\ client'[z] = client[z]
    /\ handler'[z] = handler[z] /\ pump'[z] = pump[z] /\ in'[z] = in[z]
    /\ z \in reg' => z \in reg
    /\ z \in fin' => z \in fin
    /\ z \in swept' <=> z \in swept
    /\ z \in handles' <=> z \in handles
    /\ inbound'[z] = inbound[z] /\ writer'[z] = writer[z]
    /\ service'[z] = service[z] /\ reader'[z] = reader[z]
    /\ closed' = closed /\ broken' = broken
    /\ Alike(down, down', z) /\ Alike(up, up', z)

LEMMA Others ==
    ASSUME NEW z \in Streams, Per(z), Untouched(z)
    PROVE  Per(z)'
<1>1. Fresh(z)'
  BY FreshKept DEF Per, Untouched
<1>2. Request(z)'
  BY RequestKept DEF Per, Untouched
<1>3. Slots(z)'
  BY SlotsKept DEF Per, Untouched
<1>4. Response(z)'
  BY ResponseKept DEF Per, Untouched
<1>5. Outcome(z)'
  BY OutcomeKept DEF Per, Untouched
<1> QED
  BY <1>1, <1>2, <1>3, <1>4, <1>5 DEF Per

-----------------------------------------------------------------------------
(* The types of what is counted.                                           *)

ClientRec == [left : 0 .. Chunks, eof : BOOLEAN, gone : BOOLEAN,
              got : 0 .. Chunks, got502 : BOOLEAN]

ServiceRec == [state : {"none", "open", "closed", "reset"},
               got : 0 .. Chunks + 1, sent : 0 .. Chunks]

ReaderRec == [state : {"off", "run", "done", "stopped"}, read : 0 .. Chunks]

LEMMA Numbers ==
    ASSUME MuxInv, NEW x \in Streams
    PROVE  /\ Chunks \in Nat
           /\ client[x] \in ClientRec /\ service[x] \in ServiceRec
           /\ client[x].left \in Nat /\ client[x].left <= Chunks
           /\ client[x].got \in Nat
           /\ service[x].got \in Nat /\ service[x].sent \in Nat
           /\ service[x].sent <= Chunks
           /\ reader[x] \in ReaderRec
           /\ reader[x].read \in Nat /\ reader[x].read <= Chunks
           /\ inbound[x] \in Nat /\ in[x] \in Seq(Frame)
           /\ down \in Seq(Frame) /\ up \in Seq(Frame)
           /\ Cnt(down, x) \in Nat /\ Cnt(up, x) \in Nat
           /\ Cnt(in[x], x) \in Nat
           /\ Relayed(x) \in Nat /\ Relayed(x) <= Chunks + 1
<1>1. Chunks \in Nat
  BY MuxConstants DEF MuxConstants
<1>2. /\ client[x] \in ClientRec /\ service[x] \in ServiceRec
      /\ reader[x] \in ReaderRec
  BY DEF MuxInv, Typed, TypeOK, ClientRec, ServiceRec, ReaderRec
<1>3. /\ client[x].left \in Nat /\ client[x].left <= Chunks
      /\ client[x].got \in Nat
  BY <1>1, <1>2 DEF ClientRec
<1>4. /\ service[x].got \in Nat /\ service[x].sent \in Nat
      /\ service[x].sent <= Chunks
      /\ reader[x].read \in Nat /\ reader[x].read <= Chunks
  BY <1>1, <1>2 DEF ServiceRec, ReaderRec
<1>5. /\ inbound[x] \in Nat /\ in[x] \in Seq(Frame)
      /\ down \in Seq(Frame) /\ up \in Seq(Frame)
  BY DEF MuxInv, Typed, TypeOK
<1>6. Relayed(x) \in Nat /\ Relayed(x) <= Chunks + 1
  BY <1>1, <1>3 DEF Relayed
<1> QED
  BY <1>1, <1>2, <1>3, <1>4, <1>5, <1>6, DataFinite

LEMMA FrameOf ==
    ASSUME NEW t \in StreamFrame, NEW x \in Streams
    PROVE  /\ F(t, x) \in Frame /\ F(t, x).type = t /\ F(t, x).stream = x
BY DEF F, Frame

LEMMA FramesAre ==
    ASSUME NEW f \in Frame
    PROVE  /\ f.type \in StreamFrame => f.stream \in Streams
           /\ f.type \notin StreamFrame => f.stream \notin Streams
BY MuxConstants DEF Frame, StreamFrame, MuxConstants

\* What a send towards the agent does to its queue.
LEMMA EnqueueDoes ==
    ASSUME MuxInv, NEW f \in Frame, Enqueue(f)
    PROVE  /\ down' \in Seq(Frame) /\ Len(down') <= QueueCap
           /\ down' = Append(down, f) \/ (broken /\ down' = down)
           /\ \A z : f.stream # z => Alike(down, down', z)
<1>1. down \in Seq(Frame) /\ Len(down) <= QueueCap /\ QueueCap \in Nat
  BY MuxConstants DEF MuxInv, Typed, TypeOK, MuxConstants
<1>2. CASE ~closed /\ Len(down) < QueueCap /\ down' = Append(down, f)
  BY <1>1, <1>2, AppendAt, AppendOther
<1>3. CASE closed /\ UNCHANGED down
  BY <1>1, <1>3, AlikeSelf DEF MuxInv, Shared
<1> QED
  BY <1>2, <1>3 DEF Enqueue

\* What a send towards the proxy does to the agent's channel.
LEMMA EmitDoes ==
    ASSUME MuxInv, NEW f \in Frame, Emit(<<f>>)
    PROVE  /\ up' \in Seq(Frame)
           /\ (~broken /\ up' = Append(up, f)) \/ (broken /\ up' = up)
           /\ \A z : f.stream # z => Alike(up, up', z)
<1>1. up \in Seq(Frame)
  BY DEF MuxInv, Typed, TypeOK
<1>2. up \o <<f>> = Append(up, f)
  BY <1>1
<1>3. CASE ~broken
  <2>1. up' = Append(up, f)
    BY <1>2, <1>3 DEF Emit
  <2> QED
    BY <1>1, <1>3, <2>1, AppendAt, AppendOther
<1>4. CASE broken
  BY <1>1, <1>4, AlikeSelf DEF Emit
<1> QED
  BY <1>3, <1>4

LEMMA Assembled ==
    ASSUME MuxInv, NEW x \in Streams, Typed', Shared', Per(x)',
           \A z \in Streams \ {x} : Untouched(z)
    PROVE  MuxInv'
<1> SUFFICES ASSUME NEW z \in Streams, z # x PROVE Per(z)'
  BY DEF MuxInv
<1> QED
  BY Others DEF MuxInv

-----------------------------------------------------------------------------
(* The public client and the handler.                                      *)

\* The client's end of the connection changes, what was counted does not.
LEMMA ClientKeeps ==
    ASSUME MuxInv, NEW x \in Streams, ClientShuts(x) \/ ClientLeaves(x)
    PROVE  MuxInv'
<1>1. client[x] \in ClientRec
  BY Numbers
<1>2. PICK c \in ClientRec :
          /\ client' = [client EXCEPT ![x] = c]
          /\ c.left = client[x].left /\ c.got = client[x].got
          /\ c.got502 = client[x].got502
  <2>1. CASE ClientShuts(x)
    <3> DEFINE c == [client[x] EXCEPT !.eof = TRUE]
    <3>1. /\ c \in ClientRec /\ c.left = client[x].left
          /\ c.got = client[x].got /\ c.got502 = client[x].got502
      BY <1>1 DEF ClientRec
    <3>2. client' = [client EXCEPT ![x] = c]
      BY <2>1 DEF ClientShuts
    <3> QED
      BY <3>1, <3>2
  <2>2. CASE ClientLeaves(x)
    <3> DEFINE b == [client[x] EXCEPT !.gone = TRUE]
               c == [b EXCEPT !.eof = TRUE]
    <3>1. /\ b \in ClientRec /\ b.left = client[x].left
          /\ b.got = client[x].got /\ b.got502 = client[x].got502
      BY <1>1 DEF ClientRec
    <3>2. client' = [client EXCEPT ![x] = c]
      BY <2>2 DEF ClientLeaves
    <3> HIDE DEF b
    <3>3. /\ c \in ClientRec /\ c.left = client[x].left
          /\ c.got = client[x].got /\ c.got502 = client[x].got502
      BY <3>1 DEF ClientRec
    <3> QED
      BY <3>2, <3>3
  <2> QED
    BY <2>1, <2>2
<1>3. UNCHANGED <<proxyVars, agentVars, wireVars>>
  BY DEF ClientShuts, ClientLeaves
<1>4. UNCHANGED <<handler, pump, in, reg, fin, closed, sweeper, swept, handles,
                  inbound, writer, service, reader, down, up, broken, pings>>
  BY <1>3 DEF proxyVars, agentVars, wireVars
<1>5. /\ client' \in [Streams -> ClientRec]
      /\ client'[x] = c /\ \A z \in Streams \ {x} : client'[z] = client[z]
  BY <1>2 DEF MuxInv, Typed, TypeOK, ClientRec
<1>6. Typed' /\ Shared'
  BY <1>4, <1>5 DEF MuxInv, Typed, TypeOK, Shared, ClientRec
<1>7. \A z \in Streams \ {x} : Untouched(z)
  BY <1>4, <1>5, AlikeSelf DEF Untouched
<1>8. Per(x)'
  BY <1>2, <1>4, <1>5, AlikeSelf, FreshKept, RequestKept, SlotsKept,
     ResponseKept, OutcomeKept DEF MuxInv, Per
<1> QED
  BY <1>6, <1>7, <1>8, Assembled

LEMMA AllocKeeps ==
    ASSUME MuxInv, NEW x \in Streams, Alloc(x)
    PROVE  MuxInv'
<1>1. UNCHANGED <<client, pump, in, fin, closed, sweeper, swept, handles,
                  inbound, writer, service, reader, down, up, broken, pings>>
  BY DEF Alloc, agentVars, wireVars
<1>2. /\ handler[x] = "new" /\ reg' = reg \cup {x}
      /\ handler' = [handler EXCEPT ![x] = "open"]
  BY DEF Alloc, Goto
<1>3. handler'[x] = "open" /\ \A z \in Streams \ {x} : handler'[z] = handler[z]
  BY <1>2 DEF MuxInv, Typed, TypeOK
<1>4. Typed' /\ Shared'
  BY <1>1, <1>2 DEF MuxInv, Typed, TypeOK, Shared
<1>5. \A z \in Streams \ {x} : Untouched(z)
  BY <1>1, <1>2, <1>3, AlikeSelf DEF Untouched
<1>6. Per(x)
  BY DEF MuxInv
<1>7. Fresh(x)'
  BY <1>1, <1>2, <1>3, <1>6 DEF Fresh, Per, Early
<1>8. Request(x)'
  <2>1. Relayed(x)' = Relayed(x)
    BY <1>1, <1>2, <1>3 DEF Relayed, Early
  <2> QED
    BY <1>1, <1>2, <1>3, <1>6, <2>1 DEF Request, Per, Later
<1>9. Slots(x)'
  BY <1>3 DEF Slots, Later
<1>10. Response(x)'
  <2>1. /\ client[x].got = 0 /\ reader[x].read = 0
        /\ Cnt(in[x], x) = 0 /\ Cnt(up, x) = 0
    <3>1. ~Has(up, "DATA", x) /\ ~Has(in[x], "DATA", x)
      BY <1>2, <1>6 DEF Fresh, Per, Quiet, Has, At
    <3> QED
      BY <1>2, <1>6, <3>1, Numbers, NoData DEF Fresh, Per
  <2> QED
    BY <1>1, <1>2, <1>6, <2>1 DEF Response, Per
<1>11. Outcome(x)'
  BY <1>1, <1>2, <1>3, <1>6 DEF Outcome, Per
<1> QED
  BY <1>4, <1>5, <1>7, <1>8, <1>9, <1>10, <1>11, Assembled DEF Per

LEMMA SendOpenKeeps ==
    ASSUME MuxInv, NEW x \in Streams, SendOpen(x)
    PROVE  MuxInv'
<1> DEFINE f == F("OPEN", x)
<1>1. UNCHANGED <<client, in, reg, fin, closed, sweeper, swept, handles,
                  inbound, writer, service, reader, up, broken, pings>>
  BY DEF SendOpen, agentVars
<1>2. /\ handler[x] = "open"
      /\ handler' = [handler EXCEPT ![x] = "head"]
      /\ pump' = IF x \in Http THEN pump ELSE [pump EXCEPT ![x] = "run"]
  BY DEF SendOpen, Goto
<1>3. f \in Frame /\ f.type = "OPEN" /\ f.stream = x
  BY FrameOf DEF StreamFrame
<1>4. Enqueue(f)
  BY DEF SendOpen
<1> HIDE DEF f
<1>5. /\ down' \in Seq(Frame) /\ Len(down') <= QueueCap
      /\ down' = Append(down, f) \/ (broken /\ down' = down)
      /\ \A z \in Streams \ {x} : Alike(down, down', z)
  BY <1>3, <1>4, EnqueueDoes
<1>6. /\ handler'[x] = "head" /\ pump'[x] \in {pump[x], "run"}
      /\ \A z \in Streams \ {x} :
             handler'[z] = handler[z] /\ pump'[z] = pump[z]
  BY <1>2 DEF MuxInv, Typed, TypeOK
<1>7. Typed' /\ Shared'
  BY <1>1, <1>2, <1>5 DEF MuxInv, Typed, TypeOK, Shared
<1>8. \A z \in Streams \ {x} : Untouched(z)
  BY <1>1, <1>5, <1>6, AlikeSelf DEF Untouched
<1>9. Per(x) /\ pump[x] = "off"
  BY <1>2 DEF MuxInv, Per, Fresh
<1>10. Relayed(x) = 0 /\ Relayed(x)' = 0
  <2>1. client[x].left = Chunks /\ client' = client
    BY <1>1, <1>2, <1>9 DEF Early, Per, Fresh
  <2>2. handler[x] \in Early /\ handler'[x] \in Early
    BY <1>2, <1>6 DEF Early
  <2>3. Chunks \in Nat
    BY Numbers
  <2> QED
    BY <2>1, <2>2, <2>3 DEF Relayed
<1>11. /\ ~Has(down, "OPEN", x) /\ OneOpen(down, x)
       /\ x \notin swept => Quiet(down, x)
       /\ service[x].state = "none"
  BY <1>2, <1>9 DEF Per, Fresh
<1>12. /\ OneOpen(down', x)
       /\ FirstOpen(down, x) /\ x \notin swept => FirstOpen(down', x)
       /\ Cnt(down', x) = Cnt(down, x)
       /\ LastClose(down, x) /\ ~Has(down, "CLOSE", x) => LastClose(down', x)
       /\ Has(down', "CLOSE", x) <=> Has(down, "CLOSE", x)
  <2>1. CASE down' = Append(down, f)
    <3>1. down \in Seq(Frame) /\ Cnt(down, x) \in Nat
      BY Numbers
    <3> QED
      BY <1>3, <1>11, <2>1, <3>1, AppendOwn
  <2>2. CASE broken /\ down' = down
    BY <1>1, <1>11, <2>2, <1>9 DEF Per, Fresh
  <2> QED
    BY <1>5, <2>1, <2>2
<1>13. Fresh(x)'
  BY <1>1, <1>2, <1>6, <1>9, <1>11, <1>12 DEF Per, Fresh, Early
<1>14. Request(x)'
  <2>1. service[x].got = 0 /\ inbound[x] = 0 /\ Cnt(down, x) = 0
    BY <1>9, <1>10, <1>11, Numbers DEF Per, Request, Fresh
  <2>2. ~broken /\ x \notin swept => ~Has(down, "CLOSE", x)
    BY <1>2, <1>9 DEF Per, Request, Later
  <2> QED
    BY <1>1, <1>5, <1>6, <1>9, <1>10, <1>11, <1>12, <2>1, <2>2
       DEF Per, Request, Fresh
<1>15. Slots(x)'
  BY <1>6 DEF Slots, Later
<1>16. Response(x)'
  BY <1>1, <1>6, <1>9 DEF Per, Response
<1>17. Outcome(x)'
  BY <1>1, <1>2, <1>6, <1>9 DEF Per, Outcome
<1> QED
  BY <1>7, <1>8, <1>13, <1>14, <1>15, <1>16, <1>17, Assembled DEF Per

\* A stream sends one more frame than its OPEN.
LEMMA SendsOwn ==
    ASSUME MuxInv, NEW x \in Streams, NEW f \in Frame, f.stream = x,
           f.type # "OPEN", Enqueue(f)
    PROVE  /\ down' \in Seq(Frame) /\ Len(down') <= QueueCap
           /\ \A z \in Streams \ {x} : Alike(down, down', z)
           /\ OneOpen(down', x)
           /\ Has(down', "OPEN", x) <=> Has(down, "OPEN", x)
           /\ Cnt(down', x) \in Nat
           /\ Cnt(down', x) <= Cnt(down, x) + IF f.type = "DATA" THEN 1 ELSE 0
           /\ ~broken =>
                /\ Cnt(down', x) = Cnt(down, x) + IF f.type = "DATA" THEN 1 ELSE 0
                /\ Has(down', "CLOSE", x) <=>
                       Has(down, "CLOSE", x) \/ f.type = "CLOSE"
                /\ FirstOpen(down, x) => FirstOpen(down', x)
                /\ LastClose(down, x) /\ ~Has(down, "CLOSE", x)
                       => LastClose(down', x)
                /\ f.type = "CLOSE" => Followed(down', x)
<1>1. /\ down' \in Seq(Frame) /\ Len(down') <= QueueCap
      /\ down' = Append(down, f) \/ (broken /\ down' = down)
      /\ \A z \in Streams \ {x} : Alike(down, down', z)
  BY EnqueueDoes
<1>2. down \in Seq(Frame) /\ Cnt(down, x) \in Nat /\ OneOpen(down, x)
  BY Numbers DEF MuxInv, Per, Fresh
<1>3. Cnt(down', x) \in Nat
  BY <1>1, DataFinite
<1>4. CASE down' = Append(down, f)
  <2> DEFINE q == Append(down, f)
  <2>1. /\ \A t : Has(q, t, x) <=> Has(down, t, x) \/ f.type = t
        /\ Cnt(q, x) = Cnt(down, x) + IF f.type = "DATA" THEN 1 ELSE 0
        /\ OneOpen(down, x) => OneOpen(q, x)
        /\ FirstOpen(down, x) => FirstOpen(q, x)
        /\ LastClose(down, x) /\ ~Has(down, "CLOSE", x) => LastClose(q, x)
        /\ f.type = "CLOSE" => Followed(q, x)
    BY <1>2, AppendOwn
  <2> HIDE DEF q
  <2>2. down' = q
    BY <1>4 DEF q
  <2> QED
    BY <1>1, <1>2, <1>3, <2>1, <2>2
<1>5. CASE broken /\ down' = down
  BY <1>1, <1>2, <1>3, <1>5
<1> QED
  BY <1>1, <1>4, <1>5

LEMMA SendHeadKeeps ==
    ASSUME MuxInv, NEW x \in Streams, SendHead(x)
    PROVE  MuxInv'
<1> DEFINE f == F("DATA", x)
<1>1. UNCHANGED <<client, in, reg, fin, closed, sweeper, swept, handles,
                  inbound, writer, service, reader, up, broken, pings>>
  BY DEF SendHead, agentVars
<1>2. /\ handler[x] = "head"
      /\ handler' = [handler EXCEPT ![x] = "relay"]
      /\ pump' = [pump EXCEPT ![x] = IF @ = "off" THEN "run" ELSE @]
  BY DEF SendHead, Goto
<1>3. f \in Frame /\ f.type = "DATA" /\ f.stream = x
  BY FrameOf DEF StreamFrame
<1>4. Enqueue(f)
  BY DEF SendHead
<1> HIDE DEF f
<1>5. /\ handler'[x] = "relay"
      /\ pump'[x] = pump[x] \/ (pump[x] = "off" /\ pump'[x] = "run")
      /\ \A z \in Streams \ {x} :
             handler'[z] = handler[z] /\ pump'[z] = pump[z]
  BY <1>2 DEF MuxInv, Typed, TypeOK
<1>6. Typed' /\ Shared'
  <2>1. down' \in Seq(Frame) /\ Len(down') <= QueueCap
    BY <1>3, <1>4, SendsOwn
  <2> QED
    BY <1>1, <1>2, <2>1 DEF MuxInv, Typed, TypeOK, Shared
<1>7. \A z \in Streams \ {x} : Untouched(z)
  BY <1>1, <1>3, <1>4, <1>5, SendsOwn, AlikeSelf DEF Untouched
<1>8. Per(x)
  BY DEF MuxInv
<1>9. Relayed(x) = 0 /\ Relayed(x)' = 1
  <2>1. client[x].left = Chunks /\ client' = client
    BY <1>1, <1>2, <1>8 DEF Early, Per, Fresh
  <2>2. handler[x] \in Early /\ handler'[x] \notin Early
    BY <1>2, <1>5 DEF Early
  <2>3. Chunks \in Nat
    BY Numbers
  <2> QED
    BY <2>1, <2>2, <2>3 DEF Relayed
<1>10. Fresh(x)'
  <2>1. /\ OneOpen(down', x)
        /\ Has(down', "OPEN", x) <=> Has(down, "OPEN", x)
    BY <1>3, <1>4, SendsOwn
  <2> QED
    BY <1>1, <1>5, <1>8, <2>1 DEF Per, Fresh, Early
<1>11. Request(x)'
  <2>1. ~broken /\ x \notin swept => ~Has(down, "CLOSE", x)
    BY <1>2, <1>8 DEF Per, Request, Later
  <2>2. ~broken /\ x \notin swept /\ service[x].state = "open" => x \in handles
    BY <1>2, <1>8 DEF Per, Request, Later
  <2> DEFINE n == Cnt(down, x)
             n1 == Cnt(down', x)
  <2>3. /\ n \in Nat /\ service[x].got \in Nat /\ inbound[x] \in Nat
        /\ n1 \in Nat /\ n1 <= n + 1 /\ (~broken => n1 = n + 1)
    BY <1>3, <1>4, SendsOwn, Numbers
  <2>4. /\ service[x].got + inbound[x] + n <= 0
        /\ ~broken /\ x \notin swept
               /\ (service[x].state = "open" \/ Has(down, "OPEN", x))
           => service[x].got + inbound[x] + n = 0
    BY <1>8, <1>9 DEF Per, Request
  <2> HIDE DEF n, n1
  <2>5. /\ service[x].got + inbound[x] + n1 <= 1
        /\ ~broken /\ x \notin swept
               /\ (service[x].state = "open" \/ Has(down, "OPEN", x))
           => service[x].got + inbound[x] + n1 = 1
    BY <2>3, <2>4
  <2>6. /\ Has(down', "OPEN", x) <=> Has(down, "OPEN", x)
        /\ ~broken =>
             /\ Has(down', "CLOSE", x) <=> Has(down, "CLOSE", x)
             /\ FirstOpen(down, x) => FirstOpen(down', x)
             /\ LastClose(down, x) /\ ~Has(down, "CLOSE", x)
                    => LastClose(down', x)
    BY <1>3, <1>4, SendsOwn
  <2> QED
    BY <1>1, <1>8, <1>9, <2>1, <2>2, <2>5, <2>6 DEF Per, Request, n1
<1>12. Slots(x)'
  BY <1>5 DEF Slots, Later
<1>13. Response(x)'
  BY <1>1, <1>5, <1>8 DEF Per, Response
<1>14. Outcome(x)'
  BY <1>1, <1>2, <1>5, <1>8 DEF Per, Outcome
<1> QED
  BY <1>6, <1>7, <1>10, <1>11, <1>12, <1>13, <1>14, Assembled DEF Per

LEMMA RelayDataKeeps ==
    ASSUME MuxInv, NEW x \in Streams, RelayData(x)
    PROVE  MuxInv'
<1> DEFINE f == F("DATA", x)
           c == [client[x] EXCEPT !.left = @ - 1]
<1>1. UNCHANGED <<handler, pump, in, reg, fin, closed, sweeper, swept, handles,
                  inbound, writer, service, reader, up, broken, pings>>
  BY DEF RelayData, agentVars, proxyVars
<1>2. handler[x] = "relay" /\ client' = [client EXCEPT ![x] = c]
      /\ client[x].left > 0
  BY DEF RelayData
<1>3. f \in Frame /\ f.type = "DATA" /\ f.stream = x
  BY FrameOf DEF StreamFrame
<1>4. Enqueue(f)
  BY DEF RelayData
<1>5. /\ c \in ClientRec /\ c.left = client[x].left - 1
      /\ c.got = client[x].got /\ c.got502 = client[x].got502
  <2>1. client[x] \in ClientRec /\ client[x].left - 1 \in 0 .. Chunks
    BY <1>2, Numbers
  <2> QED
    BY <2>1 DEF ClientRec
<1> HIDE DEF f, c
<1>6. /\ client' \in [Streams -> ClientRec]
      /\ client'[x] = c /\ \A z \in Streams \ {x} : client'[z] = client[z]
  BY <1>2, <1>5 DEF MuxInv, Typed, TypeOK, ClientRec
<1>7. Typed' /\ Shared'
  <2>1. down' \in Seq(Frame) /\ Len(down') <= QueueCap
    BY <1>3, <1>4, SendsOwn
  <2> QED
    BY <1>1, <1>6, <2>1 DEF MuxInv, Typed, TypeOK, Shared, ClientRec
<1>8. \A z \in Streams \ {x} : Untouched(z)
  BY <1>1, <1>3, <1>4, <1>6, SendsOwn, AlikeSelf DEF Untouched
<1>9. Per(x)
  BY DEF MuxInv
<1>10. Relayed(x) \in Nat /\ Relayed(x)' = Relayed(x) + 1
  <2>1. handler[x] \notin Early /\ handler'[x] \notin Early
    BY <1>1, <1>2 DEF Early
  <2>2. /\ client'[x].left = client[x].left - 1
        /\ client[x].left \in Nat /\ Chunks \in Nat /\ Relayed(x) \in Nat
    BY <1>5, <1>6, Numbers
  <2> QED
    BY <2>1, <2>2 DEF Relayed
<1>11. Fresh(x)'
  <2>1. /\ OneOpen(down', x)
        /\ Has(down', "OPEN", x) <=> Has(down, "OPEN", x)
    BY <1>3, <1>4, SendsOwn
  <2> QED
    BY <1>1, <1>2, <1>9, <2>1 DEF Per, Fresh, Early
<1>12. Request(x)'
  <2>1. ~broken /\ x \notin swept => ~Has(down, "CLOSE", x)
    BY <1>2, <1>9 DEF Per, Request, Later
  <2>2. ~broken /\ x \notin swept /\ service[x].state = "open" => x \in handles
    BY <1>2, <1>9 DEF Per, Request, Later
  <2> DEFINE n == Cnt(down, x)
             n1 == Cnt(down', x)
             r == Relayed(x)
             r1 == Relayed(x)'
  <2>3. /\ n \in Nat /\ service[x].got \in Nat /\ inbound[x] \in Nat
        /\ n1 \in Nat /\ n1 <= n + 1 /\ (~broken => n1 = n + 1)
    BY <1>3, <1>4, SendsOwn, Numbers
  <2>4. /\ service[x].got + inbound[x] + n <= r
        /\ ~broken /\ x \notin swept
               /\ (service[x].state = "open" \/ Has(down, "OPEN", x))
           => service[x].got + inbound[x] + n = r
    BY <1>9 DEF Per, Request
  <2>5. r \in Nat /\ r1 = r + 1
    BY <1>10
  <2> HIDE DEF n, n1, r, r1
  <2>6. /\ service[x].got + inbound[x] + n1 <= r1
        /\ ~broken /\ x \notin swept
               /\ (service[x].state = "open" \/ Has(down, "OPEN", x))
           => service[x].got + inbound[x] + n1 = r1
    BY <2>3, <2>4, <2>5
  <2>7. /\ Has(down', "OPEN", x) <=> Has(down, "OPEN", x)
        /\ ~broken =>
             /\ Has(down', "CLOSE", x) <=> Has(down, "CLOSE", x)
             /\ FirstOpen(down, x) => FirstOpen(down', x)
             /\ LastClose(down, x) /\ ~Has(down, "CLOSE", x)
                    => LastClose(down', x)
    BY <1>3, <1>4, SendsOwn
  <2> QED
    BY <1>1, <1>9, <2>1, <2>2, <2>6, <2>7 DEF Per, Request, n1, r1
<1>13. Slots(x)'
  BY <1>1, <1>2 DEF Slots, Later
<1>14. Response(x)'
  BY <1>1, <1>5, <1>6, <1>9, ResponseKept, AlikeSelf DEF Per
<1>15. Outcome(x)'
  BY <1>1, <1>5, <1>6, <1>9, OutcomeKept DEF Per
<1> QED
  BY <1>7, <1>8, <1>11, <1>12, <1>13, <1>14, <1>15, Assembled DEF Per

LEMMA RelayEndKeeps ==
    ASSUME MuxInv, NEW x \in Streams, RelayEnd(x)
    PROVE  MuxInv'
<1>1. UNCHANGED <<client, pump, in, reg, fin, closed, sweeper, swept, handles,
                  inbound, writer, service, reader, down, up, broken, pings>>
  BY DEF RelayEnd, agentVars, wireVars
<1>2. handler[x] = "relay" /\ handler' = [handler EXCEPT ![x] = "close"]
  BY DEF RelayEnd, Goto
<1>3. handler'[x] = "close"
      /\ \A z \in Streams \ {x} : handler'[z] = handler[z]
  BY <1>2 DEF MuxInv, Typed, TypeOK
<1>4. Typed' /\ Shared'
  BY <1>1, <1>2 DEF MuxInv, Typed, TypeOK, Shared
<1>5. \A z \in Streams \ {x} : Untouched(z)
  BY <1>1, <1>3, AlikeSelf DEF Untouched
<1>6. Per(x)
  BY DEF MuxInv
<1>7. Fresh(x)'
  BY <1>1, <1>3, <1>6 DEF Per, Fresh, Early
<1>8. Request(x)'
  <2>1. Relayed(x)' = Relayed(x)
    BY <1>1, <1>2, <1>3 DEF Relayed, Early
  <2> QED
    BY <1>1, <1>2, <1>3, <1>6, <2>1 DEF Per, Request, Later
<1>9. Slots(x)'
  BY <1>3 DEF Slots, Later
<1>10. Response(x)'
  BY <1>1, <1>6, ResponseKept, AlikeSelf DEF Per
<1>11. Outcome(x)'
  BY <1>1, <1>2, <1>3, <1>6 DEF Per, Outcome
<1> QED
  BY <1>4, <1>5, <1>7, <1>8, <1>9, <1>10, <1>11, Assembled DEF Per

LEMMA SendCloseKeeps ==
    ASSUME MuxInv, NEW x \in Streams, SendClose(x)
    PROVE  MuxInv'
<1> DEFINE f == F("CLOSE", x)
           pc == IF x \in Http THEN "wait" ELSE "finish"
<1>1. UNCHANGED <<client, pump, in, reg, fin, closed, sweeper, swept, handles,
                  inbound, writer, service, reader, up, broken, pings>>
  BY DEF SendClose, agentVars
<1>2. handler[x] = "close" /\ handler' = [handler EXCEPT ![x] = pc]
  BY DEF SendClose, Goto
<1>3. f \in Frame /\ f.type = "CLOSE" /\ f.stream = x
  BY FrameOf DEF StreamFrame
<1>4. Enqueue(f)
  BY DEF SendClose
<1>5. pc \in {"wait", "finish"} /\ (x \in Http => pc = "wait")
  OBVIOUS
<1> HIDE DEF f, pc
<1>6. handler'[x] = pc /\ \A z \in Streams \ {x} : handler'[z] = handler[z]
  BY <1>2 DEF MuxInv, Typed, TypeOK
<1>7. Typed' /\ Shared'
  <2>1. down' \in Seq(Frame) /\ Len(down') <= QueueCap
    BY <1>3, <1>4, SendsOwn
  <2> QED
    BY <1>1, <1>2, <1>5, <2>1 DEF MuxInv, Typed, TypeOK, Shared
<1>8. \A z \in Streams \ {x} : Untouched(z)
  BY <1>1, <1>3, <1>4, <1>6, SendsOwn, AlikeSelf DEF Untouched
<1>9. Per(x)
  BY DEF MuxInv
<1>10. /\ OneOpen(down', x)
       /\ Has(down', "OPEN", x) <=> Has(down, "OPEN", x)
       /\ Cnt(down', x) \in Nat /\ Cnt(down', x) <= Cnt(down, x)
       /\ ~broken =>
            /\ Cnt(down', x) = Cnt(down, x)
            /\ Has(down', "CLOSE", x)
            /\ FirstOpen(down, x) => FirstOpen(down', x)
            /\ LastClose(down, x) /\ ~Has(down, "CLOSE", x)
                   => LastClose(down', x)
            /\ Followed(down', x)
  BY <1>3, <1>4, SendsOwn, Numbers
<1>11. Fresh(x)'
  BY <1>1, <1>5, <1>6, <1>9, <1>10 DEF Per, Fresh, Early
<1>12. Request(x)'
  <2>1. Relayed(x)' = Relayed(x)
    BY <1>1, <1>2, <1>5, <1>6 DEF Relayed, Early
  <2>2. handler[x] \notin Later /\ handler'[x] \in Later
    BY <1>2, <1>5, <1>6 DEF Later
  <2>3. service[x].got + inbound[x] + Cnt(down', x) <= Relayed(x)
    <3>1. service[x].got + inbound[x] + Cnt(down, x) <= Relayed(x)
      BY <1>9 DEF Per, Request
    <3> QED
      BY <1>10, <3>1, Numbers
  <2> QED
    BY <1>1, <1>9, <1>10, <2>1, <2>2, <2>3 DEF Per, Request
<1>13. Slots(x)'
  BY <1>1, <1>10 DEF Slots
<1>14. Response(x)'
  BY <1>1, <1>9, ResponseKept, AlikeSelf DEF Per
<1>15. Outcome(x)'
  BY <1>1, <1>2, <1>5, <1>6, <1>9 DEF Per, Outcome
<1> QED
  BY <1>7, <1>8, <1>11, <1>12, <1>13, <1>14, <1>15, Assembled DEF Per

\* AwaitResponse, HandlerFinishes and Drained: the handler is through, and the
\* stream is finished or was.
LEMMA ThroughKeeps ==
    ASSUME MuxInv, NEW x \in Streams, NEW c \in ClientRec, NEW pc,
           handler[x] \in Later, pc \in Later, pc # "wait",
           handler' = [handler EXCEPT ![x] = pc],
           client' = [client EXCEPT ![x] = c],
           c.left = client[x].left, c.got = client[x].got,
           reg' \subseteq reg, fin' \subseteq fin \cup {x},
           x \in Http => pc = "done" /\ (c.got > 0 \/ c.got502 \/ x \in fin)
                         /\ handler[x] = "wait",
           UNCHANGED <<pump, in, closed, sweeper, swept, agentVars, wireVars>>
    PROVE  MuxInv'
<1>1. UNCHANGED <<pump, in, closed, sweeper, swept, handles, inbound, writer,
                  service, reader, down, up, broken, pings>>
  BY DEF agentVars, wireVars
<1>2. /\ client' \in [Streams -> ClientRec]
      /\ client'[x] = c /\ \A z \in Streams \ {x} : client'[z] = client[z]
  BY DEF MuxInv, Typed, TypeOK, ClientRec
<1>3. handler'[x] = pc /\ \A z \in Streams \ {x} : handler'[z] = handler[z]
  BY DEF MuxInv, Typed, TypeOK
<1>4. Typed' /\ Shared'
  <2>1. handler' \in [Streams -> {"new", "open", "head", "relay", "close",
                                  "wait", "finish", "drain", "done"}]
    BY DEF MuxInv, Typed, TypeOK, Later
  <2>2. reg' \subseteq Streams /\ fin' \subseteq Streams
    BY DEF MuxInv, Typed, TypeOK
  <2> QED
    BY <1>1, <1>2, <2>1, <2>2 DEF MuxInv, Typed, TypeOK, Shared, ClientRec
<1>5. \A z \in Streams \ {x} : Untouched(z)
  BY <1>1, <1>2, <1>3, AlikeSelf DEF Untouched
<1>6. Per(x)
  BY DEF MuxInv
<1>7. Fresh(x)'
  BY <1>1, <1>2, <1>3, <1>6 DEF Per, Fresh, Early, Later
<1>8. Request(x)'
  <2>1. Relayed(x)' = Relayed(x)
    BY <1>2, <1>3 DEF Relayed, Early, Later
  <2> QED
    BY <1>1, <1>3, <1>6, <2>1 DEF Per, Request
<1>9. Slots(x)'
  BY <1>1, <1>3, <1>6 DEF Per, Slots
<1>10. Response(x)'
  BY <1>1, <1>2, <1>6, ResponseKept, AlikeSelf DEF Per
<1>11. Outcome(x)'
  BY <1>1, <1>2, <1>3, <1>6 DEF Per, Outcome
<1> QED
  BY <1>4, <1>5, <1>7, <1>8, <1>9, <1>10, <1>11, Assembled DEF Per

LEMMA AwaitResponseKeeps ==
    ASSUME MuxInv, NEW x \in Streams, AwaitResponse(x)
    PROVE  MuxInv'
<1> DEFINE b == (client[x].got = 0 /\ x \notin fin)
           c == [client[x] EXCEPT !.got502 = b]
<1>1. /\ handler[x] = "wait" /\ client' = [client EXCEPT ![x] = c]
      /\ handler' = [handler EXCEPT ![x] = "done"]
      /\ fin' = fin \cup {x} /\ reg' = reg \ {x}
      /\ UNCHANGED <<pump, in, closed, sweeper, swept, agentVars, wireVars>>
  BY DEF AwaitResponse, Goto, Finish
<1>2. b \in BOOLEAN
  OBVIOUS
<1> HIDE DEF b
<1>3. /\ c \in ClientRec /\ c.left = client[x].left /\ c.got = client[x].got
      /\ c.got502 = b
  BY <1>2, Numbers DEF ClientRec
<1> HIDE DEF c
<1>4. c.got > 0 \/ c.got502 \/ x \in fin
  <2>1. client[x].got \in Nat
    BY Numbers
  <2>2. b => c.got502
    BY <1>2, <1>3
  <2>3. ~b => client[x].got # 0 \/ x \in fin
    BY DEF b
  <2> QED
    BY <1>3, <2>1, <2>2, <2>3
<1> QED
  BY <1>1, <1>3, <1>4, ThroughKeeps DEF Later

LEMMA FinishesKeeps ==
    ASSUME MuxInv, NEW x \in Streams, HandlerFinishes(x) \/ Drained(x)
    PROVE  MuxInv'
<1>1. client[x] \in ClientRec /\ client' = [client EXCEPT ![x] = client[x]]
  <2>1. client' = client
    BY DEF HandlerFinishes, Drained
  <2> QED
    BY <2>1, Numbers DEF MuxInv, Typed, TypeOK
<1>2. /\ handler[x] \in {"finish", "drain"}
      /\ \E pc \in {"drain", "done"} : handler' = [handler EXCEPT ![x] = pc]
      /\ reg' \subseteq reg /\ fin' \subseteq fin \cup {x}
      /\ UNCHANGED <<pump, in, closed, sweeper, swept, agentVars, wireVars>>
  BY DEF HandlerFinishes, Drained, Goto, Finish
<1>3. x \notin Http
  BY <1>2 DEF MuxInv, Per, Outcome
<1> QED
  BY <1>1, <1>2, <1>3, ThroughKeeps DEF Later

-----------------------------------------------------------------------------
(* The pump and the read loop.                                             *)

\* A step that is about the response of x only.
LEMMA ResponseStep ==
    ASSUME MuxInv, NEW x \in Streams, Typed', Response(x)',
           UNCHANGED <<handler, reg, fin, closed, sweeper, swept, agentVars,
                       down, broken>>,
           \A z \in Streams \ {x} :
               /\ client'[z] = client[z] /\ pump'[z] = pump[z]
               /\ in'[z] = in[z] /\ Alike(up, up', z),
           client'[x].left = client[x].left,
           client'[x].got502 = client[x].got502,
           client'[x].got = client[x].got \/ client'[x].got > 0,
           handler[x] = "new" => UNCHANGED <<client, pump, in, up>>,
           handler[x] \in {"new", "open"} => UNCHANGED pump
    PROVE  MuxInv'
<1>1. UNCHANGED <<handles, inbound, writer, service, reader>>
  BY DEF agentVars
<1>2. Shared'
  BY DEF MuxInv, Shared
<1>3. \A z \in Streams \ {x} : Untouched(z)
  BY <1>1, AlikeSelf DEF Untouched
<1>4. Per(x) /\ Alike(down, down', x)
  BY AlikeSelf DEF MuxInv
<1>5. Fresh(x)'
  BY <1>1, <1>4 DEF Per, Fresh
<1>6. Request(x)'
  BY <1>1, <1>4, RequestKept DEF Per
<1>7. Slots(x)'
  BY <1>1, <1>4, SlotsKept DEF Per
<1>8. Outcome(x)'
  BY <1>4 DEF Per, Outcome
<1> QED
  BY <1>2, <1>3, <1>5, <1>6, <1>7, <1>8, Assembled DEF Per

LEMMA PumpCutKeeps ==
    ASSUME MuxInv, NEW x \in Streams, PumpCut(x)
    PROVE  MuxInv'
<1>1. /\ pump[x] = "run" /\ pump' = [pump EXCEPT ![x] = "cut"]
      /\ UNCHANGED <<client, handler, in, reg, fin, closed, sweeper, swept,
                     agentVars, down, up, broken, pings>>
  BY DEF PumpCut, PumpEnds, wireVars
<1>2. UNCHANGED <<handles, inbound, writer, service, reader>>
  BY <1>1 DEF agentVars
<1>3. pump'[x] = "cut" /\ \A z \in Streams \ {x} : pump'[z] = pump[z]
  BY <1>1 DEF MuxInv, Typed, TypeOK
<1>4. Typed'
  BY <1>1, <1>2 DEF MuxInv, Typed, TypeOK
<1>5. Response(x)'
  BY <1>1, <1>2, <1>3 DEF MuxInv, Per, Response
<1>6. handler[x] \notin {"new", "open"}
  BY <1>1 DEF MuxInv, Per, Fresh
<1> QED
  BY <1>1, <1>3, <1>4, <1>5, <1>6, ResponseStep, AlikeSelf

\* The pump takes a frame: it writes a chunk, or ends.
LEMMA PumpFrameKeeps ==
    ASSUME MuxInv, NEW x \in Streams, PumpFrame(x)
    PROVE  MuxInv'
<1> DEFINE s == in[x]
           f == Head(s)
           q == Tail(s)
<1>1. /\ pump[x] = "run" /\ s # <<>>
      /\ in' = [in EXCEPT ![x] = q]
      /\ UNCHANGED <<handler, reg, fin, closed, sweeper, swept, agentVars,
                     down, up, broken, pings>>
  BY DEF PumpFrame, wireVars
<1>2. UNCHANGED <<handles, inbound, writer, service, reader>>
  BY <1>1 DEF agentVars
<1>3. \/ /\ f.type = "DATA"
         /\ client' = [client EXCEPT ![x].got = @ + 1] /\ pump' = pump
      \/ /\ f.type = "DATA" /\ client' = client
         /\ pump' = [pump EXCEPT ![x] = "cut"]
      \/ /\ f.type = "CLOSE" /\ client' = client
         /\ pump' = [pump EXCEPT ![x] = "eof"]
      \/ /\ f.type = "ERROR" /\ client' = client
         /\ pump' = [pump EXCEPT ![x] = "err"]
  BY DEF PumpFrame, PumpEnds
<1>4. /\ s \in Seq(Frame) /\ q \in Seq(Frame) /\ f \in Frame
      /\ f.stream = x /\ Len(q) <= Len(s)
      /\ \A i \in 1 .. Len(q) : q[i].stream = x
  <2>1. /\ s \in Seq(Frame) /\ q \in Seq(Frame) /\ f \in Frame
        /\ Len(s) \in Nat /\ Len(s) >= 1 /\ Len(q) = Len(s) - 1 /\ f = s[1]
        /\ \A i \in 1 .. Len(q) : q[i] = s[i + 1]
    BY <1>1, Numbers, TailAt
  <2>2. \A i \in 1 .. Len(s) : s[i].stream = x
    BY DEF MuxInv, Per, Response
  <2> HIDE DEF s, q, f
  <2>3. \A i \in 1 .. Len(q) : i + 1 \in 1 .. Len(s)
    BY <2>1
  <2> QED
    BY <2>1, <2>2, <2>3
<1>5. /\ Has(q, "CLOSE", x) => Has(s, "CLOSE", x)
      /\ f.type = "CLOSE" => Has(s, "CLOSE", x)
      /\ Cnt(s, x) = Cnt(q, x) + IF f.type = "DATA" THEN 1 ELSE 0
      /\ DataFirst(s, x) => /\ DataFirst(q, x)
                            /\ f.type = "CLOSE" => ~Has(q, "DATA", x)
      /\ Cnt(q, x) \in Nat /\ Cnt(s, x) \in Nat
  BY <1>1, <1>4, TailOwn, DataFinite
<1>6. /\ in'[x] = q /\ in' \in [Streams -> Seq(Frame)]
      /\ \A z \in Streams \ {x} : in'[z] = in[z]
      /\ Len(q) <= InCap
  <2>1. Len(s) <= InCap /\ InCap \in Nat /\ Len(s) \in Nat /\ Len(q) \in Nat
    <3>1. Len(s) <= InCap
      BY DEF MuxInv, Typed, TypeOK
    <3>2. InCap \in Nat
      BY MuxConstants DEF MuxConstants
    <3> QED
      BY <1>4, <3>1, <3>2
  <2>2. in \in [Streams -> Seq(Frame)]
    BY DEF MuxInv, Typed
  <2> HIDE DEF s, q, f
  <2> QED
    BY <1>1, <1>4, <2>1, <2>2
<1>7. Per(x) /\ handler[x] \notin {"new", "open"}
  BY <1>1 DEF MuxInv, Per, Fresh
<1>8. /\ client[x].got + Cnt(s, x) + Cnt(up, x) <= reader[x].read
      /\ x \in reg /\ (~broken \/ Has(up, "CLOSE", x)) =>
             client[x].got + Cnt(s, x) + Cnt(up, x) = reader[x].read
      /\ Has(s, "CLOSE", x) =>
             /\ client[x].got + Cnt(s, x) = reader[x].read
             /\ ~Has(up, "DATA", x) /\ reader[x].state = "done"
      /\ DataFirst(up, x) /\ DataFirst(s, x)
      /\ Has(up, "CLOSE", x) => reader[x].state = "done"
  BY <1>1, <1>7 DEF Per, Response
<1>9. /\ client[x].got \in Nat /\ reader[x].read \in Nat
      /\ reader[x].read <= Chunks /\ Cnt(up, x) \in Nat /\ Chunks \in Nat
      /\ client[x] \in ClientRec
  BY Numbers
<1> HIDE DEF s, f, q
<1>10. CASE f.type = "DATA" /\ client' = [client EXCEPT ![x].got = @ + 1]
            /\ pump' = pump
  <2> DEFINE c == [client[x] EXCEPT !.got = client[x].got + 1]
  <2>1. client[x].got + 1 \in 0 .. Chunks
    BY <1>5, <1>8, <1>9, <1>10
  <2>2. /\ c \in ClientRec /\ c.got = client[x].got + 1
        /\ c.left = client[x].left /\ c.got502 = client[x].got502
    BY <1>9, <2>1 DEF ClientRec
  <2>3. client' = [client EXCEPT ![x] = c]
    BY <1>10
  <2> HIDE DEF c
  <2>4. /\ client' \in [Streams -> ClientRec] /\ client'[x] = c
        /\ \A z \in Streams \ {x} : client'[z] = client[z]
    BY <2>2, <2>3 DEF MuxInv, Typed, TypeOK, ClientRec
  <2>5. Typed'
    BY <1>1, <1>2, <1>6, <1>10, <2>4
       DEF MuxInv, Typed, TypeOK, ClientRec
  <2>6. Response(x)'
    <3>1. /\ c.got + Cnt(q, x) = client[x].got + Cnt(s, x)
          /\ c.got + Cnt(q, x) + Cnt(up, x)
               = client[x].got + Cnt(s, x) + Cnt(up, x)
      BY <1>5, <1>9, <1>10, <2>2
    <3> QED
      BY <1>1, <1>2, <1>4, <1>5, <1>6, <1>8, <1>10, <2>4, <3>1 DEF Response
  <2>7. client'[x].got > 0
    BY <1>9, <2>2, <2>4
  <2> QED
    BY <1>1, <1>6, <1>7, <1>10, <2>2, <2>4, <2>5, <2>6, <2>7, ResponseStep,
       AlikeSelf
<1>11. ASSUME NEW how \in {"cut", "eof", "err"}, client' = client,
              pump' = [pump EXCEPT ![x] = how],
              how = "eof" => f.type = "CLOSE"
       PROVE  MuxInv'
  <2>1. pump'[x] = how /\ \A z \in Streams \ {x} : pump'[z] = pump[z]
    BY <1>11 DEF MuxInv, Typed, TypeOK
  <2>2. Typed'
    BY <1>1, <1>2, <1>6, <1>11 DEF MuxInv, Typed, TypeOK
  <2>3. how = "eof" => client[x].got = reader[x].read
    <3> HAVE how = "eof"
    <3>1. ~Has(q, "DATA", x) /\ f.type = "CLOSE"
      BY <1>5, <1>8, <1>11
    <3>2. Cnt(q, x) = 0
      BY <1>4, <3>1, NoData
    <3> QED
      BY <1>5, <1>8, <1>9, <3>1, <3>2
  <2>4. client[x].got + Cnt(q, x) + Cnt(up, x) <= reader[x].read
    BY <1>5, <1>8, <1>9
  <2>5. Response(x)'
    BY <1>1, <1>2, <1>4, <1>5, <1>6, <1>8, <1>11, <2>1, <2>3, <2>4
       DEF Response
  <2> QED
    BY <1>1, <1>6, <1>7, <1>11, <2>1, <2>2, <2>5, ResponseStep, AlikeSelf
<1> QED
  BY <1>3, <1>10, <1>11

LEMMA AssembledAll ==
    ASSUME MuxInv, Typed', Shared', \A z \in Streams : Untouched(z)
    PROVE  MuxInv'
BY Others DEF MuxInv

\* The frame that is dispatched was the last of what x had on the socket.
LEMMA DispatchKeeps ==
    ASSUME MuxInv, Dispatch
    PROVE  MuxInv'
<1>0. up # <<>> /\ Head(up).type \in {"DATA", "CLOSE", "ERROR"}
  BY DEF Dispatch
<1>1. PICK f \in Frame, u \in Seq(Frame) : f = Head(up) /\ u = Tail(up)
  BY <1>0, TailAt DEF MuxInv, Typed, TypeOK
<1>2. PICK x \in Streams : x = f.stream
  BY <1>0, <1>1, FramesAre DEF StreamFrame
<1>3. PICK s \in Seq(Frame) : s = in[x]
  BY DEF MuxInv, Typed
<1>4. /\ f.type \in {"DATA", "CLOSE", "ERROR"} /\ up' = u
      /\ \/ /\ x \in reg /\ Len(s) < InCap
            /\ in' = [in EXCEPT ![x] = Append(s, f)]
         \/ x \notin reg /\ in' = in
      /\ UNCHANGED <<client, handler, pump, reg, fin, closed, sweeper, swept,
                     agentVars, down, broken, pings>>
  <2>1. [in EXCEPT ![x] = Append(@, f)] = [in EXCEPT ![x] = Append(s, f)]
    BY <1>3
  <2> QED
    BY <1>1, <1>2, <1>3, <2>1 DEF Dispatch
<1>5. UNCHANGED <<handles, inbound, writer, service, reader>>
  BY <1>4 DEF agentVars
<1>6. /\ \A t : Has(up, t, x) <=> Has(u, t, x) \/ f.type = t
      /\ Cnt(up, x) = Cnt(u, x) + IF f.type = "DATA" THEN 1 ELSE 0
      /\ DataFirst(up, x) => /\ DataFirst(u, x)
                             /\ f.type = "CLOSE" => ~Has(u, "DATA", x)
      /\ Cnt(u, x) \in Nat
      /\ ~Quiet(up, x)
  <2>1. up \in Seq(Frame)
    BY DEF MuxInv, Typed, TypeOK
  <2> QED
    BY <1>0, <1>1, <1>2, <2>1, TailOwn, DataFinite
<1>7. /\ \A z \in Streams \ {x} : Alike(up, up', z)
      /\ client[x].got \in Nat /\ reader[x].read \in Nat
      /\ Cnt(s, x) \in Nat
  BY <1>0, <1>1, <1>2, <1>3, <1>4, TailOther, Numbers DEF MuxInv, Typed, TypeOK
<1>8. Per(x) /\ handler[x] # "new"
  BY <1>6 DEF MuxInv, Per, Fresh
<1>9. CASE x \notin reg /\ in' = in
  <2>1. Typed'
    BY <1>4, <1>5, <1>1, <1>9 DEF MuxInv, Typed, TypeOK
  <2>2. Response(x)'
    <3>1. client[x].got + Cnt(s, x) + Cnt(u, x) <= reader[x].read
      BY <1>1, <1>2, <1>3, <1>6, <1>7, <1>8 DEF Per, Response
    <3> QED
      BY <1>1, <1>2, <1>3, <1>4, <1>5, <1>6, <1>8, <1>9, <3>1 DEF Per, Response
  <2> QED
    BY <1>4, <1>7, <1>8, <1>9, <2>1, <2>2, ResponseStep
<1>10. CASE x \in reg /\ Len(s) < InCap /\ in' = [in EXCEPT ![x] = Append(s, f)]
  <2> DEFINE q == Append(s, f)
  <2>1. /\ q \in Seq(Frame) /\ Len(s) \in Nat /\ Len(q) = Len(s) + 1
        /\ q[Len(s) + 1] = f /\ \A i \in 1 .. Len(s) : q[i] = s[i]
    BY <1>1, <1>7, AppendAt
  <2>2. /\ \A t : Has(q, t, x) <=> Has(s, t, x) \/ f.type = t
        /\ Cnt(q, x) = Cnt(s, x) + IF f.type = "DATA" THEN 1 ELSE 0
        /\ DataFirst(s, x) /\ (f.type = "DATA" => ~Has(s, "CLOSE", x))
               => DataFirst(q, x)
    BY <1>1, <1>2, <1>3, <1>7, AppendOwn
  <2>3. in' = [in EXCEPT ![x] = q] /\ InCap \in Nat
    BY <1>10, MuxConstants DEF MuxConstants
  <2> HIDE DEF q
  <2>4. /\ in'[x] = q /\ in' \in [Streams -> Seq(Frame)] /\ Len(q) <= InCap
        /\ \A z \in Streams \ {x} : in'[z] = in[z]
    BY <1>10, <2>1, <2>3 DEF MuxInv, Typed
  <2>5. Typed'
    BY <1>4, <1>5, <1>1, <2>4 DEF MuxInv, Typed, TypeOK
  <2>6. \A i \in 1 .. Len(q) : q[i].stream = x
    <3>1. \A i \in 1 .. Len(s) : s[i].stream = x
      BY <1>1, <1>2, <1>3, <1>8 DEF Per, Response
    <3>2. f.stream = x
      BY <1>2
    <3> QED
      BY <2>1, <3>1, <3>2
  <2>7. /\ client[x].got + Cnt(s, x) + Cnt(up, x) <= reader[x].read
        /\ Has(up, "CLOSE", x) \/ Has(s, "CLOSE", x) \/ pump[x] = "eof" =>
               reader[x].state = "done"
        /\ DataFirst(up, x) /\ DataFirst(s, x)
        /\ Has(s, "CLOSE", x) => ~Has(up, "DATA", x)
        /\ pump[x] \in {"off", "run"} =>
             /\ ~broken \/ Has(up, "CLOSE", x) =>
                  client[x].got + Cnt(s, x) + Cnt(up, x) = reader[x].read
             /\ Has(s, "CLOSE", x) =>
                  client[x].got + Cnt(s, x) = reader[x].read
        /\ pump[x] = "eof" => client[x].got = reader[x].read
    BY <1>1, <1>2, <1>3, <1>8, <1>10 DEF Per, Response
  <2>8. /\ client[x].got + Cnt(q, x) + Cnt(u, x)
             = client[x].got + Cnt(s, x) + Cnt(up, x)
        /\ Cnt(q, x) \in Nat
    <3> DEFINE g == client[x].got
               a == Cnt(s, x)
               b == Cnt(u, x)
               d == IF f.type = "DATA" THEN 1 ELSE 0
    <3>1. g \in Nat /\ a \in Nat /\ b \in Nat /\ d \in Nat
      BY <1>6, <1>7
    <3>2. Cnt(up, x) = b + d /\ Cnt(q, x) = a + d
      BY <1>6, <2>2
    <3> HIDE DEF g, a, b, d
    <3>3. g + (a + d) + b = g + a + (b + d) /\ a + d \in Nat
      BY <3>1
    <3> QED
      BY <3>2, <3>3 DEF g, a, b
  <2>9. DataFirst(q, x) /\ DataFirst(u, x)
        /\ (Has(q, "CLOSE", x) => ~Has(u, "DATA", x))
    BY <1>6, <2>2, <2>7
  <2>10. pump[x] \in {"off", "run"} /\ Has(q, "CLOSE", x) =>
             client[x].got + Cnt(q, x) = reader[x].read
    <3>1. CASE f.type = "CLOSE"
      <4>1. Cnt(u, x) = 0
        BY <1>1, <1>6, <2>7, <3>1, NoData
      <4> QED
        BY <1>6, <1>7, <2>7, <2>8, <3>1, <4>1
    <3>2. CASE f.type # "CLOSE"
      <4>1. ASSUME Has(q, "CLOSE", x)
            PROVE  Has(s, "CLOSE", x) /\ f.type # "DATA"
        BY <1>6, <2>2, <2>7, <3>2, <4>1
      <4> QED
        BY <1>7, <2>2, <2>7, <4>1
    <3> QED
      BY <3>1, <3>2
  <2>11. Response(x)'
    BY <1>4, <1>5, <1>6, <2>2, <2>4, <2>6, <2>7, <2>8, <2>9, <2>10
       DEF Response
  <2> QED
    BY <1>4, <1>7, <1>8, <2>4, <2>5, <2>11, ResponseStep
<1> QED
  BY <1>4, <1>9, <1>10

LEMMA DispatchPingKeeps ==
    ASSUME MuxInv, DispatchPing
    PROVE  MuxInv'
<1> DEFINE f == F("PONG", Nobody)
<1>1. /\ up # <<>> /\ Head(up).type = "PING" /\ Enqueue(f) /\ up' = Tail(up)
      /\ UNCHANGED <<client, proxyVars, agentVars, broken, pings>>
  BY DEF DispatchPing
<1>2. UNCHANGED <<handler, pump, in, reg, fin, closed, sweeper, swept,
                  handles, inbound, writer, service, reader>>
  BY <1>1 DEF proxyVars, agentVars
<1>3. f \in Frame /\ f.stream \notin Streams
  BY MuxConstants DEF F, Frame, MuxConstants
<1> HIDE DEF f
<1>4. /\ down' \in Seq(Frame) /\ Len(down') <= QueueCap
      /\ \A z \in Streams : Alike(down, down', z)
  BY <1>1, <1>3, EnqueueDoes
<1>5. up \in Seq(Frame) /\ up' \in Seq(Frame) /\ Head(up) \in Frame
  BY <1>1, TailAt DEF MuxInv, Typed, TypeOK
<1>6. \A z \in Streams : Alike(up, up', z)
  BY <1>1, <1>5, FramesAre, TailOther DEF StreamFrame
<1>7. Typed' /\ Shared'
  BY <1>1, <1>2, <1>4, <1>5 DEF MuxInv, Typed, TypeOK, Shared
<1>8. \A z \in Streams : Untouched(z)
  BY <1>1, <1>2, <1>4, <1>6 DEF Untouched
<1> QED
  BY <1>7, <1>8, AssembledAll

\* Agent.Close finishes every stream at once.
LEMMA CloseAgentKeeps ==
    ASSUME MuxInv, CloseAgent
    PROVE  MuxInv'
<1>1. /\ broken /\ up = <<>> /\ ~closed /\ closed' = TRUE
      /\ fin' = fin \cup reg /\ reg' = {}
      /\ in' = [x \in Streams |-> IF x \in reg /\ Len(in[x]) < InCap
                                  THEN Append(in[x], F("ERROR", x))
                                  ELSE in[x]]
      /\ UNCHANGED <<client, handler, pump, sweeper, swept, agentVars,
                     wireVars>>
  BY DEF CloseAgent, Finish
<1>2. UNCHANGED <<handles, inbound, writer, service, reader, down, up, broken, pings>>
  BY <1>1 DEF agentVars, wireVars
<1>3. \A z \in Streams :
          /\ in[z] \in Seq(Frame) /\ Len(in[z]) <= InCap
          /\ F("ERROR", z) \in Frame /\ F("ERROR", z).type = "ERROR"
          /\ F("ERROR", z).stream = z
  BY FrameOf DEF MuxInv, Typed, TypeOK, StreamFrame
<1>4. \A z \in Streams :
          /\ in'[z] \in Seq(Frame) /\ Len(in'[z]) <= InCap
          /\ in'[z] = in[z] \/ (z \in reg /\ in'[z] = Append(in[z], F("ERROR", z)))
  <2> SUFFICES ASSUME NEW z \in Streams
               PROVE  /\ in'[z] \in Seq(Frame) /\ Len(in'[z]) <= InCap
                      /\ \/ in'[z] = in[z]
                         \/ z \in reg /\ in'[z] = Append(in[z], F("ERROR", z))
    OBVIOUS
  <2>1. CASE z \in reg /\ Len(in[z]) < InCap
    <3>1. in'[z] = Append(in[z], F("ERROR", z))
      BY <1>1, <2>1
    <3>2. /\ Append(in[z], F("ERROR", z)) \in Seq(Frame)
          /\ Len(Append(in[z], F("ERROR", z))) = Len(in[z]) + 1
          /\ Len(in[z]) \in Nat
      BY <1>3, AppendAt
    <3>3. InCap \in Nat
      BY MuxConstants DEF MuxConstants
    <3> QED
      BY <2>1, <3>1, <3>2, <3>3
  <2>2. CASE ~(z \in reg /\ Len(in[z]) < InCap)
    BY <1>1, <1>3, <2>2
  <2> QED
    BY <2>1, <2>2
<1>5. in' \in [Streams -> Seq(Frame)]
  <2>1. DOMAIN in' = Streams /\ in' = [x \in DOMAIN in' |-> in'[x]]
    BY <1>1
  <2> QED
    BY <1>4, <2>1
<1>6. Typed' /\ Shared'
  <2>1. fin' \subseteq Streams /\ reg' \subseteq Streams
    BY <1>1 DEF MuxInv, Typed, TypeOK
  <2> QED
    BY <1>1, <1>2, <1>4, <1>5, <2>1 DEF MuxInv, Typed, TypeOK, Shared
<1>7. ASSUME NEW z \in Streams PROVE Per(z)'
  <2>1. Per(z) /\ Alike(down, down', z) /\ Alike(up, up', z)
    BY <1>2, AlikeSelf DEF MuxInv
  <2>2. z \in reg => handler[z] # "new"
    BY <2>1 DEF Per, Fresh
  <2>3. Fresh(z)'
    BY <1>1, <1>2, <1>4, <2>1, <2>2 DEF Per, Fresh
  <2>4. Request(z)'
    BY <1>1, <1>2, <2>1, RequestKept DEF Per
  <2>5. Slots(z)'
    BY <1>1, <1>2, <2>1, SlotsKept DEF Per
  <2>6. Outcome(z)'
    BY <1>1, <2>1 DEF Per, Outcome
  <2>7. Response(z)'
    <3>1. CASE in'[z] = in[z]
      BY <1>1, <1>2, <2>1, <3>1, ResponseKept DEF Per
    <3>2. CASE in'[z] = Append(in[z], F("ERROR", z))
      <4> DEFINE s == in[z]
                 f == F("ERROR", z)
                 q == Append(s, f)
      <4>1. /\ Len(s) \in Nat /\ Len(q) = Len(s) + 1
            /\ q[Len(s) + 1] = f /\ \A i \in 1 .. Len(s) : q[i] = s[i]
        BY <1>3, AppendAt
      <4>2. /\ \A t : Has(q, t, z) <=> Has(s, t, z) \/ f.type = t
            /\ Cnt(q, z) = Cnt(s, z) + IF f.type = "DATA" THEN 1 ELSE 0
            /\ DataFirst(s, z) /\ (f.type = "DATA" => ~Has(s, "CLOSE", z))
                   => DataFirst(q, z)
        BY <1>3, AppendOwn
      <4>3. f.type = "ERROR" /\ f.stream = z
        BY <1>3
      <4>4. Cnt(q, z) = Cnt(s, z)
        BY <4>2, <4>3, Numbers
      <4> HIDE DEF f, q
      <4>5. \A i \in 1 .. Len(q) : q[i].stream = z
        <5>1. \A i \in 1 .. Len(s) : s[i].stream = z
          BY <2>1 DEF Per, Response
        <5> HIDE DEF s
        <5> QED
          BY <4>1, <4>3, <5>1
      <4>6. /\ Has(q, "CLOSE", z) <=> Has(s, "CLOSE", z)
            /\ DataFirst(s, z) => DataFirst(q, z)
        BY <4>2, <4>3
      <4>7. in'[z] = q
        BY <3>2 DEF q, f
      <4> QED
        BY <1>1, <1>2, <2>1, <4>4, <4>5, <4>6, <4>7 DEF Per, Response
    <3> QED
      BY <1>4, <3>1, <3>2
  <2> QED
    BY <2>3, <2>4, <2>5, <2>6, <2>7 DEF Per
<1> QED
  BY <1>6, <1>7 DEF MuxInv

LEMMA SweepCloseKeeps ==
    ASSUME MuxInv, NEW x \in Streams, SweepClose(x)
    PROVE  MuxInv'
<1> DEFINE f == F("CLOSE", x)
<1>1. /\ x \in reg /\ Enqueue(f) /\ sweeper' = x /\ swept' = swept \cup {x}
      /\ UNCHANGED <<client, handler, pump, in, reg, fin, closed, agentVars,
                     up, broken, pings>>
  BY DEF SweepClose
<1>2. UNCHANGED <<handles, inbound, writer, service, reader>>
  BY <1>1 DEF agentVars
<1>3. f \in Frame /\ f.type = "CLOSE" /\ f.stream = x
  BY FrameOf DEF StreamFrame
<1> HIDE DEF f
<1>4. /\ down' \in Seq(Frame) /\ Len(down') <= QueueCap
      /\ \A z \in Streams \ {x} : Alike(down, down', z)
      /\ OneOpen(down', x)
      /\ Has(down', "OPEN", x) <=> Has(down, "OPEN", x)
      /\ Cnt(down', x) \in Nat /\ Cnt(down', x) <= Cnt(down, x)
      /\ ~broken => /\ Has(down', "CLOSE", x)
                    /\ Followed(down', x)
  BY <1>1, <1>3, SendsOwn, Numbers
<1>5. Typed' /\ Shared'
  <2>1. IsFiniteSet(swept')
    BY <1>1, FS_AddElement DEF MuxInv, Typed
  <2> QED
    BY <1>1, <1>2, <1>4, <2>1 DEF MuxInv, Typed, TypeOK, Shared
<1>6. \A z \in Streams \ {x} : Untouched(z)
  BY <1>1, <1>2, <1>4, AlikeSelf DEF Untouched
<1>7. Per(x) /\ handler[x] # "new"
  BY <1>1 DEF MuxInv, Per, Fresh
<1>8. Fresh(x)'
  BY <1>1, <1>2, <1>4, <1>7 DEF Per, Fresh
<1>9. Request(x)'
  <2>1. Relayed(x)' = Relayed(x)
    BY <1>1 DEF Relayed
  <2>2. service[x].got + inbound[x] + Cnt(down', x) <= Relayed(x)
    <3>1. service[x].got + inbound[x] + Cnt(down, x) <= Relayed(x)
      BY <1>7 DEF Per, Request
    <3> QED
      BY <1>4, <3>1, Numbers
  <2> QED
    BY <1>1, <1>2, <1>7, <2>1, <2>2 DEF Per, Request
<1>10. Slots(x)'
  BY <1>1, <1>4 DEF Slots
<1>11. Response(x)'
  BY <1>1, <1>2, <1>7, ResponseKept, AlikeSelf DEF Per
<1>12. Outcome(x)'
  BY <1>1, <1>7 DEF Per, Outcome
<1> QED
  BY <1>5, <1>6, <1>8, <1>9, <1>10, <1>11, <1>12, Assembled DEF Per

LEMMA SweepFinishKeeps ==
    ASSUME MuxInv, SweepFinish
    PROVE  MuxInv'
<1>1. /\ sweeper # Nobody /\ sweeper' = Nobody
      /\ fin' = fin \cup {sweeper} /\ reg' = reg \ {sweeper}
      /\ UNCHANGED <<client, handler, pump, in, closed, swept, agentVars,
                     wireVars>>
  BY DEF SweepFinish, Finish
<1>2. UNCHANGED <<handles, inbound, writer, service, reader, down, up, broken, pings>>
  BY <1>1 DEF agentVars, wireVars
<1>3. sweeper \in Streams /\ sweeper \in swept
  BY <1>1 DEF MuxInv, Typed, TypeOK, Shared
<1>4. Typed' /\ Shared'
  BY <1>1, <1>2, <1>3 DEF MuxInv, Typed, TypeOK, Shared
<1>5. \A z \in Streams \ {sweeper} : Untouched(z)
  BY <1>1, <1>2, AlikeSelf DEF Untouched
<1>6. ASSUME NEW z \in Streams PROVE Per(z)'
  <2>1. CASE z = sweeper
    <3>1. Per(z) /\ Alike(down, down', z) /\ Alike(up, up', z)
      BY <1>2, AlikeSelf DEF MuxInv
    <3> QED
      BY <1>1, <1>2, <1>3, <2>1, <3>1, FreshKept, RequestKept, SlotsKept,
         ResponseKept, OutcomeKept DEF Per
  <2>2. CASE z # sweeper
    BY <1>5, <2>2, Others DEF MuxInv
  <2> QED
    BY <2>1, <2>2
<1> QED
  BY <1>4, <1>6 DEF MuxInv

-----------------------------------------------------------------------------
(* The agent's session.                                                    *)

\* The session takes a frame of x from its end of the socket.
LEMMA Handled ==
    ASSUME MuxInv, NEW x \in Streams, down # <<>>, Head(down).stream = x,
           down' = Tail(down)
    PROVE  LET t == Head(down).type
           IN  /\ down' \in Seq(Frame) /\ Len(down') <= QueueCap
               /\ \A z \in Streams \ {x} : Alike(down, down', z)
               /\ ~Quiet(down, x)
               /\ \A a : Has(down, a, x) <=> Has(down', a, x) \/ t = a
               /\ Cnt(down', x) \in Nat
               /\ Cnt(down, x) = Cnt(down', x) + IF t = "DATA" THEN 1 ELSE 0
               /\ OneOpen(down', x)
               /\ t = "OPEN" => ~Has(down', "OPEN", x)
               /\ FirstOpen(down, x) =>
                      /\ FirstOpen(down', x)
                      /\ t # "OPEN" => ~Has(down', "OPEN", x)
               /\ LastClose(down, x) =>
                      /\ LastClose(down', x)
                      /\ t = "CLOSE" => Quiet(down', x)
               /\ Followed(down, x) =>
                      /\ Followed(down', x)
                      /\ t = "OPEN" => Has(down', "CLOSE", x)
               /\ handler[x] # "new"
               /\ handler[x] = "open" => x \in swept
<1>1. /\ down \in Seq(Frame) /\ Len(down) <= QueueCap /\ QueueCap \in Nat
      /\ OneOpen(down, x) /\ Cnt(down, x) \in Nat
  BY MuxConstants, Numbers DEF MuxInv, Typed, TypeOK, Per, Fresh, MuxConstants
<1>2. /\ down' \in Seq(Frame) /\ Len(down') <= QueueCap
  BY <1>1, TailAt
<1>3. \A z \in Streams \ {x} : Alike(down, down', z)
  BY <1>1, TailOther
<1>4. Cnt(down', x) \in Nat
  BY <1>2, DataFinite
<1>5. ~Quiet(down, x)
  BY <1>1, TailOwn
<1>6. handler[x] # "new" /\ (handler[x] = "open" => x \in swept)
  BY <1>5 DEF MuxInv, Per, Fresh
<1> QED
  BY <1>1, <1>2, <1>3, <1>4, <1>5, <1>6, TailOwn

\* An ERROR is the end of x on the agent's side; nothing is lost by it.
LEMMA ErrorKeeps ==
    ASSUME MuxInv, NEW x \in Streams, Emit(<<F("ERROR", x)>>),
           UNCHANGED <<client, in, pump, reg, broken, reader>>
    PROVE  /\ up' \in Seq(Frame) /\ \A z \in Streams \ {x} : Alike(up, up', z)
           /\ Response(x)'
<1> DEFINE f == F("ERROR", x)
<1>1. f \in Frame /\ f.type = "ERROR" /\ f.stream = x
  BY FrameOf DEF StreamFrame
<1> HIDE DEF f
<1>2. /\ up' \in Seq(Frame)
      /\ (~broken /\ up' = Append(up, f)) \/ (broken /\ up' = up)
      /\ \A z : f.stream # z => Alike(up, up', z)
  BY <1>1, EmitDoes DEF f
<1>3. /\ up \in Seq(Frame) /\ Cnt(up, x) \in Nat /\ Response(x)
  BY Numbers DEF MuxInv, Per
<1>4. /\ Has(up', "CLOSE", x) <=> Has(up, "CLOSE", x)
      /\ Has(up', "DATA", x) <=> Has(up, "DATA", x)
      /\ Cnt(up', x) = Cnt(up, x)
      /\ DataFirst(up, x) => DataFirst(up', x)
  <2>1. CASE up' = Append(up, f)
    <3>1. /\ \A t : Has(up', t, x) <=> Has(up, t, x) \/ t = "ERROR"
          /\ Cnt(up', x) = Cnt(up, x) + 0
          /\ DataFirst(up, x) => DataFirst(up', x)
      BY <1>1, <1>3, <2>1, AppendOwn
    <3> QED
      BY <1>3, <3>1
  <2>2. CASE up' = up
    BY <2>2
  <2> QED
    BY <1>2, <2>1, <2>2
<1>5. Response(x)'
  BY <1>3, <1>4 DEF Response
<1> QED
  BY <1>1, <1>2, <1>5

LEMMA HandleOpenKeeps ==
    ASSUME MuxInv, HandleOpen
    PROVE  MuxInv'
<1>1. /\ ~broken /\ down # <<>> /\ Head(down).type = "OPEN"
      /\ down' = Tail(down)
      /\ UNCHANGED <<client, proxyVars, inbound, broken, pings>>
  BY DEF HandleOpen
<1>2. UNCHANGED <<handler, pump, in, reg, fin, closed, sweeper, swept>>
  BY <1>1 DEF proxyVars
<1>3. PICK x \in Streams : x = Head(down).stream
  <2>1. Head(down) \in Frame
    BY <1>1, TailAt DEF MuxInv, Typed, TypeOK
  <2> QED
    BY <1>1, <2>1, FramesAre DEF StreamFrame
<1>4. \/ /\ Cardinality(handles) < MaxStreams
         /\ handles' = handles \cup {x}
         /\ writer' = [writer EXCEPT ![x] = "run"]
         /\ service' = [service EXCEPT ![x].state = "open"]
         /\ reader' = [reader EXCEPT ![x].state = "run"]
         /\ up' = up
      \/ /\ Emit(<<F("ERROR", x)>>)
         /\ UNCHANGED <<handles, writer, service, reader>>
  BY <1>3 DEF HandleOpen
<1>5. /\ down' \in Seq(Frame) /\ Len(down') <= QueueCap
      /\ \A z \in Streams \ {x} : Alike(down, down', z)
      /\ Has(down, "OPEN", x) /\ ~Has(down', "OPEN", x)
      /\ Has(down', "CLOSE", x) <=> Has(down, "CLOSE", x)
      /\ Cnt(down', x) = Cnt(down, x) /\ Cnt(down, x) \in Nat
      /\ OneOpen(down', x)
      /\ FirstOpen(down, x) => FirstOpen(down', x)
      /\ LastClose(down, x) => LastClose(down', x)
      /\ Followed(down, x) =>
             Followed(down', x) /\ Has(down', "CLOSE", x)
      /\ handler[x] # "new"
  BY <1>1, <1>3, Handled
<1>6. /\ Per(x) /\ service[x].state = "none" /\ handler[x] # "open"
      /\ writer[x] = "off" /\ x \notin handles /\ inbound[x] = 0
      /\ service[x].got = 0 /\ service[x].sent = 0 /\ reader[x].read = 0
      /\ reader[x].state # "done"
  BY <1>5 DEF MuxInv, Per, Fresh
<1>7. Relayed(x)' = Relayed(x)
  BY <1>1, <1>2 DEF Relayed
<1>8. Shared'
  BY <1>1, <1>2 DEF MuxInv, Shared
<1>9. Outcome(x)'
  BY <1>1, <1>2, <1>6, OutcomeKept DEF Per
<1>10. CASE /\ Cardinality(handles) < MaxStreams
            /\ handles' = handles \cup {x}
            /\ writer' = [writer EXCEPT ![x] = "run"]
            /\ service' = [service EXCEPT ![x].state = "open"]
            /\ reader' = [reader EXCEPT ![x].state = "run"]
            /\ up' = up
  <2> DEFINE r == [service[x] EXCEPT !.state = "open"]
  <2>1. service' = [service EXCEPT ![x] = r]
    BY <1>10
  <2>2. /\ r \in ServiceRec /\ r.state = "open"
        /\ r.got = service[x].got /\ r.sent = service[x].sent
    BY Numbers DEF ServiceRec
  <2> HIDE DEF r
  <2>3. /\ service' \in [Streams -> ServiceRec] /\ service'[x] = r
        /\ \A z \in Streams \ {x} : service'[z] = service[z]
    BY <2>1, <2>2 DEF MuxInv, Typed, TypeOK, ServiceRec
  <2>4. /\ writer'[x] = "run"
        /\ \A z \in Streams \ {x} : writer'[z] = writer[z]
    BY <1>10 DEF MuxInv, Typed, TypeOK
  <2>12. /\ reader' \in [Streams -> ReaderRec]
         /\ reader'[x].read = 0 /\ reader'[x].state = "run"
         /\ \A z \in Streams \ {x} : reader'[z] = reader[z]
    BY <1>6, <1>10 DEF MuxInv, Typed, TypeOK, ReaderRec
  <2>5. IsFiniteSet(handles') /\ Cardinality(handles') <= MaxStreams
    <3>1. /\ IsFiniteSet(handles) /\ Cardinality(handles) \in Nat
          /\ MaxStreams \in Nat
      BY MuxConstants, FS_CardinalityType DEF MuxInv, Typed, MuxConstants
    <3>2. /\ IsFiniteSet(handles')
          /\ Cardinality(handles') = Cardinality(handles) + 1
      BY <1>6, <1>10, <3>1, FS_AddElement
    <3> QED
      BY <1>10, <3>1, <3>2
  <2>6. Typed'
    BY <1>1, <1>2, <1>5, <1>10, <2>3, <2>5, <2>12
       DEF MuxInv, Typed, TypeOK, ServiceRec, ReaderRec
  <2>7. \A z \in Streams \ {x} : Untouched(z)
    BY <1>1, <1>2, <1>5, <1>10, <2>3, <2>4, <2>12, AlikeSelf DEF Untouched
  <2>8. Fresh(x)'
    BY <1>1, <1>2, <1>5, <1>6, <2>2, <2>3, <2>12 DEF Per, Fresh
  <2>9. Request(x)'
    BY <1>1, <1>2, <1>5, <1>6, <1>7, <1>10, <2>2, <2>3, <2>4
       DEF Per, Request
  <2>10. Slots(x)'
    BY <1>1, <1>2, <1>5, <1>6 DEF Per, Slots
  <2>11. Response(x)'
    BY <1>1, <1>2, <1>6, <1>10, <2>12 DEF Per, Response
  <2> QED
    BY <1>8, <1>9, <2>6, <2>7, <2>8, <2>9, <2>10, <2>11, Assembled DEF Per
<1>11. CASE /\ Emit(<<F("ERROR", x)>>)
            /\ UNCHANGED <<handles, writer, service, reader>>
  <2>1. /\ up' \in Seq(Frame) /\ \A z \in Streams \ {x} : Alike(up, up', z)
        /\ Response(x)'
    BY <1>1, <1>2, <1>11, ErrorKeeps
  <2>2. Typed'
    BY <1>1, <1>2, <1>5, <1>11, <2>1 DEF MuxInv, Typed, TypeOK
  <2>3. \A z \in Streams \ {x} : Untouched(z)
    BY <1>1, <1>2, <1>5, <1>11, <2>1 DEF Untouched
  <2>4. Fresh(x)'
    BY <1>1, <1>2, <1>5, <1>6, <1>11 DEF Per, Fresh
  <2>5. Request(x)'
    BY <1>1, <1>2, <1>5, <1>6, <1>7, <1>11 DEF Per, Request
  <2>6. Slots(x)'
    BY <1>1, <1>2, <1>5, <1>6, <1>11 DEF Per, Slots
  <2> QED
    BY <1>8, <1>9, <2>1, <2>2, <2>3, <2>4, <2>5, <2>6, Assembled DEF Per
<1> QED
  BY <1>4, <1>10, <1>11

LEMMA HandleDataKeeps ==
    ASSUME MuxInv, HandleData
    PROVE  MuxInv'
<1>1. /\ ~broken /\ down # <<>> /\ Head(down).type = "DATA"
      /\ down' = Tail(down)
      /\ UNCHANGED <<client, handler, pump, in, reg, fin, closed, sweeper,
                     swept, writer, service, reader, broken, pings>>
  BY DEF HandleData, proxyVars
<1>2. PICK x \in Streams : x = Head(down).stream
  <2>1. Head(down) \in Frame
    BY <1>1, TailAt DEF MuxInv, Typed, TypeOK
  <2> QED
    BY <1>1, <2>1, FramesAre DEF StreamFrame
<1>3. \/ x \notin handles /\ UNCHANGED <<handles, inbound, up>>
      \/ /\ x \in handles /\ writer[x] # "shut" /\ inbound[x] < InboundCap
         /\ inbound' = [inbound EXCEPT ![x] = @ + 1]
         /\ UNCHANGED <<handles, up>>
      \/ /\ x \in handles /\ writer[x] = "shut"
         /\ handles' = handles \ {x}
         /\ Emit(<<F("ERROR", x)>>) \/ UNCHANGED up
         /\ UNCHANGED inbound
  BY <1>2 DEF HandleData, Live
<1>4. /\ down' \in Seq(Frame) /\ Len(down') <= QueueCap
      /\ \A z \in Streams \ {x} : Alike(down, down', z)
      /\ ~Quiet(down, x)
      /\ Has(down', "OPEN", x) <=> Has(down, "OPEN", x)
      /\ Has(down', "CLOSE", x) <=> Has(down, "CLOSE", x)
      /\ Cnt(down, x) = Cnt(down', x) + 1 /\ Cnt(down', x) \in Nat
      /\ OneOpen(down', x)
      /\ FirstOpen(down, x) =>
             FirstOpen(down', x) /\ ~Has(down', "OPEN", x)
      /\ LastClose(down, x) => LastClose(down', x)
      /\ Followed(down, x) => Followed(down', x)
      /\ handler[x] # "new" /\ (handler[x] = "open" => x \in swept)
  BY <1>1, <1>2, Handled
<1>5. Per(x)
  BY DEF MuxInv
<1>6. Relayed(x)' = Relayed(x)
  BY <1>1 DEF Relayed
<1>7. Shared' /\ Outcome(x)'
  BY <1>1, <1>5, OutcomeKept DEF MuxInv, Shared, Per
<1>8. /\ service[x].got + inbound[x] + Cnt(down, x) <= Relayed(x)
      /\ service[x].got \in Nat /\ inbound[x] \in Nat /\ Relayed(x) \in Nat
  BY <1>5, Numbers DEF Per, Request
<1>9. CASE x \notin handles /\ UNCHANGED <<handles, inbound, up>>
  <2>1. Typed'
    BY <1>1, <1>4, <1>9 DEF MuxInv, Typed, TypeOK
  <2>2. \A z \in Streams \ {x} : Untouched(z)
    BY <1>1, <1>4, <1>9, AlikeSelf DEF Untouched
  <2>3. Fresh(x)'
    BY <1>1, <1>4, <1>5, <1>9 DEF Per, Fresh
  <2>4. Request(x)'
    <3>1. service[x].got + inbound[x] + Cnt(down', x) <= Relayed(x)
      BY <1>4, <1>8
    <3>2. x \notin swept => service[x].state # "open" /\ ~Has(down', "OPEN", x)
      BY <1>1, <1>4, <1>5, <1>9 DEF Per, Request
    <3> QED
      BY <1>1, <1>4, <1>5, <1>6, <1>9, <3>1, <3>2 DEF Per, Request
  <2>5. Slots(x)'
    BY <1>1, <1>4, <1>5, <1>9 DEF Per, Slots
  <2>6. Response(x)'
    BY <1>1, <1>5, <1>9, ResponseKept, AlikeSelf DEF Per
  <2> QED
    BY <1>7, <2>1, <2>2, <2>3, <2>4, <2>5, <2>6, Assembled DEF Per
<1>10. CASE /\ x \in handles /\ writer[x] # "shut" /\ inbound[x] < InboundCap
            /\ inbound' = [inbound EXCEPT ![x] = @ + 1]
            /\ UNCHANGED <<handles, up>>
  <2>1. /\ inbound' \in [Streams -> Nat] /\ inbound'[x] = inbound[x] + 1
        /\ \A z \in Streams \ {x} : inbound'[z] = inbound[z]
        /\ \A z \in Streams : inbound'[z] \in 0 .. InboundCap
    <3>1. InboundCap \in Nat
      BY MuxConstants DEF MuxConstants
    <3>2. \A z \in Streams : inbound[z] \in 0 .. InboundCap
      BY DEF MuxInv, Typed, TypeOK
    <3>3. inbound \in [Streams -> Nat]
      BY DEF MuxInv, Typed
    <3> QED
      BY <1>10, <3>1, <3>2, <3>3
  <2>2. Typed'
    BY <1>1, <1>4, <1>10, <2>1 DEF MuxInv, Typed, TypeOK
  <2>3. \A z \in Streams \ {x} : Untouched(z)
    BY <1>1, <1>4, <1>10, <2>1, AlikeSelf DEF Untouched
  <2>4. service[x].state # "none"
    BY <1>5, <1>10 DEF Per, Fresh
  <2>5. Fresh(x)'
    BY <1>1, <1>4, <1>5, <1>10, <2>4 DEF Per, Fresh
  <2>6. Request(x)'
    <3>1. service[x].got + inbound'[x] + Cnt(down', x)
            = service[x].got + inbound[x] + Cnt(down, x)
      <4> DEFINE n == Cnt(down', x)
                 i == inbound[x]
                 g == service[x].got
      <4>1. /\ n \in Nat /\ i \in Nat /\ g \in Nat
            /\ Cnt(down, x) = n + 1 /\ inbound'[x] = i + 1
        BY <1>4, <1>8, <2>1
      <4> HIDE DEF n, i, g
      <4>2. g + (i + 1) + n = g + i + (n + 1)
        BY <4>1
      <4> QED
        BY <4>1, <4>2 DEF n, i, g
    <3>2. x \in handles' /\ x \in handles
      BY <1>10
    <3> QED
      BY <1>1, <1>4, <1>5, <1>6, <3>1, <3>2 DEF Per, Request
  <2>7. Slots(x)'
    BY <1>1, <1>4, <1>5, <1>10 DEF Per, Slots
  <2>8. Response(x)'
    BY <1>1, <1>5, <1>10, ResponseKept, AlikeSelf DEF Per
  <2> QED
    BY <1>7, <2>2, <2>3, <2>5, <2>6, <2>7, <2>8, Assembled DEF Per
<1>11. CASE /\ x \in handles /\ writer[x] = "shut"
            /\ handles' = handles \ {x}
            /\ Emit(<<F("ERROR", x)>>) \/ UNCHANGED up
            /\ UNCHANGED inbound
  <2>1. /\ up' \in Seq(Frame) /\ \A z \in Streams \ {x} : Alike(up, up', z)
        /\ Response(x)'
    <3>1. CASE Emit(<<F("ERROR", x)>>)
      BY <1>1, <3>1, ErrorKeeps
    <3>2. CASE UNCHANGED up
      BY <1>1, <1>5, <3>2, ResponseKept, AlikeSelf, Numbers DEF Per
    <3> QED
      BY <1>11, <3>1, <3>2
  <2>2. IsFiniteSet(handles') /\ Cardinality(handles') <= MaxStreams
    <3>1. /\ IsFiniteSet(handles) /\ Cardinality(handles) <= MaxStreams
          /\ MaxStreams \in Nat
      BY MuxConstants DEF MuxInv, Typed, TypeOK, MuxConstants
    <3> QED
      BY <1>11, <3>1, FS_Subset, FS_CardinalityType
  <2>3. Typed'
    BY <1>1, <1>4, <1>11, <2>1, <2>2 DEF MuxInv, Typed, TypeOK
  <2>4. \A z \in Streams \ {x} : Untouched(z)
    BY <1>1, <1>4, <1>11, <2>1 DEF Untouched
  <2>5. service[x].state = "reset"
    BY <1>5, <1>11 DEF Per, Request
  <2>6. Fresh(x)'
    BY <1>1, <1>4, <1>5, <2>5 DEF Per, Fresh
  <2>7. Request(x)'
    <3>1. service[x].got + inbound[x] + Cnt(down', x) <= Relayed(x)
      BY <1>4, <1>8
    <3>2. ~Has(down', "OPEN", x)
      BY <1>4, <1>5, <2>5 DEF Per, Fresh
    <3> QED
      BY <1>1, <1>4, <1>5, <1>6, <1>11, <2>5, <3>1, <3>2 DEF Per, Request
  <2>8. Slots(x)'
    BY <1>1, <1>4, <1>5, <1>11 DEF Per, Slots
  <2> QED
    BY <1>7, <2>1, <2>3, <2>4, <2>6, <2>7, <2>8, Assembled DEF Per
<1> QED
  BY <1>3, <1>9, <1>10, <1>11

LEMMA HandleCloseKeeps ==
    ASSUME MuxInv, HandleClose
    PROVE  MuxInv'
<1>1. /\ ~broken /\ down # <<>> /\ Head(down).type \in {"CLOSE", "PONG"}
      /\ down' = Tail(down) /\ handles' = handles \ {Head(down).stream}
      /\ UNCHANGED <<client, handler, pump, in, reg, fin, closed, sweeper,
                     swept, inbound, writer, service, reader, up, broken, pings>>
  BY DEF HandleClose, proxyVars
<1>2. /\ down \in Seq(Frame) /\ Head(down) \in Frame /\ down' \in Seq(Frame)
      /\ Len(down') <= QueueCap
  <2>1. Len(down) <= QueueCap /\ QueueCap \in Nat /\ down \in Seq(Frame)
    BY MuxConstants DEF MuxInv, Typed, TypeOK, MuxConstants
  <2> QED
    BY <1>1, <2>1, TailAt
<1>3. IsFiniteSet(handles') /\ Cardinality(handles') <= MaxStreams
  <2>1. /\ IsFiniteSet(handles) /\ Cardinality(handles) <= MaxStreams
        /\ MaxStreams \in Nat
    BY MuxConstants DEF MuxInv, Typed, TypeOK, MuxConstants
  <2> QED
    BY <1>1, <2>1, FS_Subset, FS_CardinalityType
<1>4. Typed' /\ Shared'
  BY <1>1, <1>2, <1>3 DEF MuxInv, Typed, TypeOK, Shared
<1>5. CASE Head(down).type = "PONG"
  <2>1. Head(down).stream \notin Streams
    BY <1>2, <1>5, FramesAre DEF StreamFrame
  <2>2. \A z \in Streams : Alike(down, down', z)
    BY <1>1, <1>2, <2>1, TailOther
  <2>3. \A z \in Streams : Untouched(z)
    BY <1>1, <2>1, <2>2, AlikeSelf DEF Untouched
  <2> QED
    BY <1>4, <2>3, AssembledAll
<1>6. CASE Head(down).type = "CLOSE"
  <2>1. PICK x \in Streams : x = Head(down).stream
    BY <1>2, <1>6, FramesAre DEF StreamFrame
  <2>2. /\ \A z \in Streams \ {x} : Alike(down, down', z)
        /\ ~Quiet(down, x) /\ Has(down, "CLOSE", x)
        /\ Has(down', "OPEN", x) <=> Has(down, "OPEN", x)
        /\ Has(down', "CLOSE", x) => Has(down, "CLOSE", x)
        /\ Cnt(down, x) = Cnt(down', x)
        /\ OneOpen(down', x)
        /\ FirstOpen(down, x) => FirstOpen(down', x)
        /\ LastClose(down, x) => LastClose(down', x) /\ Quiet(down', x)
        /\ Followed(down, x) => Followed(down', x)
        /\ handler[x] # "new" /\ (handler[x] = "open" => x \in swept)
    <3>1. Cnt(down', x) \in Nat
      BY <1>2, DataFinite
    <3> QED
      BY <1>1, <1>6, <2>1, <3>1, Handled
  <2>3. Per(x) /\ Relayed(x)' = Relayed(x)
    BY <1>1 DEF MuxInv, Relayed
  <2>4. \A z \in Streams \ {x} : Untouched(z)
    BY <1>1, <2>1, <2>2, AlikeSelf DEF Untouched
  <2>5. Fresh(x)'
    BY <1>1, <2>2, <2>3 DEF Per, Fresh
  <2>6. Request(x)'
    BY <1>1, <2>1, <2>2, <2>3 DEF Per, Request
  <2>7. Slots(x)'
    BY <1>1, <2>1, <2>2, <2>3 DEF Per, Slots
  <2>8. Response(x)' /\ Outcome(x)'
    BY <1>1, <2>3, ResponseKept, OutcomeKept, AlikeSelf DEF Per
  <2> QED
    BY <1>4, <2>4, <2>5, <2>6, <2>7, <2>8, Assembled DEF Per
<1> QED
  BY <1>1, <1>5, <1>6

LEMMA PingKeeps ==
    ASSUME MuxInv, Ping
    PROVE  MuxInv'
<1> DEFINE f == F("PING", Nobody)
<1>1. /\ pings' = pings + 1 /\ up' = Append(up, f) /\ Events < MaxEvents
      /\ UNCHANGED <<client, handler, pump, in, reg, fin, closed, sweeper,
                     swept, agentVars, down, broken>>
  BY DEF Ping, proxyVars
<1>2. UNCHANGED <<handles, inbound, writer, service, reader>>
  BY <1>1 DEF agentVars
<1>3. f \in Frame /\ f.stream \notin Streams
  BY MuxConstants DEF F, Frame, MuxConstants
<1> HIDE DEF f
<1>4. pings' \in 0 .. MaxEvents
  <2>1. /\ pings \in 0 .. MaxEvents /\ MaxEvents \in Nat
        /\ Cardinality(swept) \in Nat
    BY MuxConstants, FS_CardinalityType
       DEF MuxInv, Typed, TypeOK, MuxConstants
  <2>2. CASE broken
    BY <1>1, <2>1, <2>2 DEF Events
  <2>3. CASE ~broken
    BY <1>1, <2>1, <2>3 DEF Events
  <2> QED
    BY <2>2, <2>3
<1>5. up \in Seq(Frame) /\ up' \in Seq(Frame)
  BY <1>1, <1>3, AppendAt DEF MuxInv, Typed, TypeOK
<1>6. \A z \in Streams : Alike(up, up', z)
  BY <1>1, <1>3, <1>5, AppendOther
<1>7. Typed' /\ Shared'
  BY <1>1, <1>2, <1>4, <1>5 DEF MuxInv, Typed, TypeOK, Shared
<1>8. \A z \in Streams : Untouched(z)
  BY <1>1, <1>2, <1>6, AlikeSelf DEF Untouched
<1> QED
  BY <1>7, <1>8, AssembledAll

LEMMA SessionEndsKeeps ==
    ASSUME MuxInv, SessionEnds
    PROVE  MuxInv'
<1>1. /\ broken /\ handles' = {}
      /\ UNCHANGED <<client, handler, pump, in, reg, fin, closed, sweeper,
                     swept, inbound, writer, service, reader, down, up, broken, pings>>
  BY DEF SessionEnds, proxyVars, wireVars
<1>2. Typed' /\ Shared'
  <2>1. MaxStreams \in Nat /\ IsFiniteSet({}) /\ Cardinality({}) = 0
    BY MuxConstants, FS_EmptySet DEF MuxConstants
  <2> QED
    BY <1>1, <2>1 DEF MuxInv, Typed, TypeOK, Shared
<1>3. ASSUME NEW z \in Streams PROVE Per(z)'
  <2>1. Per(z) /\ Relayed(z)' = Relayed(z)
    BY <1>1 DEF MuxInv, Relayed
  <2>2. Fresh(z)' /\ Response(z)' /\ Outcome(z)'
    BY <1>1, <2>1, FreshKept, ResponseKept, OutcomeKept, AlikeSelf DEF Per
  <2>3. Request(z)' /\ Slots(z)'
    BY <1>1, <2>1 DEF Per, Request, Slots
  <2> QED
    BY <2>2, <2>3 DEF Per
<1> QED
  BY <1>2, <1>3 DEF MuxInv

-----------------------------------------------------------------------------
(* The tasks of a stream, the service and the socket.                      *)

LEMMA WriteLocalKeeps ==
    ASSUME MuxInv, NEW x \in Streams, WriteLocal(x)
    PROVE  MuxInv'
<1>1. /\ writer[x] = "run" /\ inbound[x] > 0
      /\ inbound' = [inbound EXCEPT ![x] = @ - 1]
      /\ UNCHANGED <<client, handler, pump, in, reg, fin, closed, sweeper,
                     swept, handles, reader, down, broken, pings>>
  BY DEF WriteLocal, proxyVars
<1>2. \/ /\ service[x].state = "open"
         /\ service' = [service EXCEPT ![x].got = @ + 1]
         /\ UNCHANGED <<writer, up>>
      \/ /\ service[x].state \in {"closed", "reset"}
         /\ service' = [service EXCEPT ![x].state = "reset"]
         /\ UNCHANGED <<writer, up>>
      \/ /\ service[x].state = "reset"
         /\ writer' = [writer EXCEPT ![x] = "hold"]
         /\ Emit(<<F("ERROR", x)>>)
         /\ UNCHANGED service
  BY DEF WriteLocal
<1>3. /\ inbound' \in [Streams -> Nat] /\ inbound'[x] = inbound[x] - 1
      /\ inbound'[x] \in Nat /\ inbound[x] \in Nat
      /\ \A z \in Streams \ {x} : inbound'[z] = inbound[z]
      /\ \A z \in Streams : inbound'[z] \in 0 .. InboundCap
  <2>1. InboundCap \in Nat
    BY MuxConstants DEF MuxConstants
  <2>2. \A z \in Streams : inbound[z] \in 0 .. InboundCap
    BY DEF MuxInv, Typed, TypeOK
  <2>3. inbound \in [Streams -> Nat]
    BY DEF MuxInv, Typed
  <2> QED
    BY <1>1, <2>1, <2>2, <2>3
<1>4. Per(x) /\ service[x].state # "none"
  BY <1>1 DEF MuxInv, Per, Fresh
<1>5. Shared' /\ Relayed(x)' = Relayed(x)
  BY <1>1 DEF MuxInv, Shared, Relayed
<1>6. Slots(x)' /\ Outcome(x)'
  BY <1>1, <1>4, SlotsKept, OutcomeKept, AlikeSelf DEF Per
<1>7. /\ service[x].got + inbound[x] + Cnt(down, x) <= Relayed(x)
      /\ Relayed(x) <= Chunks + 1 /\ Relayed(x) \in Nat /\ Chunks \in Nat
      /\ service[x].got \in Nat /\ Cnt(down, x) \in Nat
      /\ service[x] \in ServiceRec
  BY <1>4, Numbers DEF Per, Request
<1>8. ~Has(down, "OPEN", x)
  BY <1>4 DEF Per, Fresh
<1>9. CASE /\ service[x].state = "open"
           /\ service' = [service EXCEPT ![x].got = @ + 1]
           /\ UNCHANGED <<writer, up>>
  <2> DEFINE r == [service[x] EXCEPT !.got = service[x].got + 1]
  <2>1. service[x].got + 1 \in 0 .. Chunks + 1
    <3> DEFINE n == Cnt(down, x)
               g == service[x].got
               i == inbound[x]
               m == Relayed(x)
    <3>1. /\ n \in Nat /\ g \in Nat /\ i \in Nat /\ m \in Nat /\ Chunks \in Nat
          /\ i > 0 /\ g + i + n <= m /\ m <= Chunks + 1
      BY <1>1, <1>3, <1>7
    <3> HIDE DEF n, g, i, m
    <3>2. g + 1 \in 0 .. Chunks + 1
      BY <3>1
    <3> QED
      BY <3>2 DEF g
  <2>2. /\ r \in ServiceRec /\ r.got = service[x].got + 1
        /\ r.state = service[x].state /\ r.sent = service[x].sent
    BY <1>7, <2>1 DEF ServiceRec
  <2>3. service' = [service EXCEPT ![x] = r]
    BY <1>9
  <2> HIDE DEF r
  <2>4. /\ service' \in [Streams -> ServiceRec] /\ service'[x] = r
        /\ \A z \in Streams \ {x} : service'[z] = service[z]
    BY <2>2, <2>3 DEF MuxInv, Typed, TypeOK, ServiceRec
  <2>5. Typed'
    BY <1>1, <1>3, <1>9, <2>4 DEF MuxInv, Typed, TypeOK, ServiceRec
  <2>6. \A z \in Streams \ {x} : Untouched(z)
    BY <1>1, <1>3, <1>9, <2>4, AlikeSelf DEF Untouched
  <2>7. Fresh(x)'
    BY <1>1, <1>4, <1>9, <2>2, <2>4 DEF Per, Fresh
  <2>8. Request(x)'
    <3>1. r.got + inbound'[x] + Cnt(down, x)
            = service[x].got + inbound[x] + Cnt(down, x)
      <4> DEFINE n == Cnt(down, x)
                 g == service[x].got
                 i == inbound[x]
      <4>1. n \in Nat /\ g \in Nat /\ i \in Nat
        BY <1>3, <1>7
      <4>2. r.got = g + 1 /\ inbound'[x] = i - 1
        BY <1>3, <2>2
      <4> HIDE DEF n, g, i
      <4>3. (g + 1) + (i - 1) + n = g + i + n
        BY <4>1
      <4> QED
        BY <4>2, <4>3 DEF n, g, i
    <3> QED
      BY <1>1, <1>4, <1>5, <1>9, <2>2, <2>4, <3>1 DEF Per, Request
  <2>9. Response(x)'
    BY <1>1, <1>4, <1>9, ResponseKept, AlikeSelf DEF Per
  <2> QED
    BY <1>5, <1>6, <2>5, <2>6, <2>7, <2>8, <2>9, Assembled DEF Per
<1>10. CASE /\ service[x].state \in {"closed", "reset"}
            /\ service' = [service EXCEPT ![x].state = "reset"]
            /\ UNCHANGED <<writer, up>>
  <2> DEFINE r == [service[x] EXCEPT !.state = "reset"]
  <2>1. /\ r \in ServiceRec /\ r.got = service[x].got
        /\ r.state = "reset" /\ r.sent = service[x].sent
    BY <1>7 DEF ServiceRec
  <2>2. service' = [service EXCEPT ![x] = r]
    BY <1>10
  <2> HIDE DEF r
  <2>3. /\ service' \in [Streams -> ServiceRec] /\ service'[x] = r
        /\ \A z \in Streams \ {x} : service'[z] = service[z]
    BY <2>1, <2>2 DEF MuxInv, Typed, TypeOK, ServiceRec
  <2>4. Typed'
    BY <1>1, <1>3, <1>10, <2>3 DEF MuxInv, Typed, TypeOK, ServiceRec
  <2>5. \A z \in Streams \ {x} : Untouched(z)
    BY <1>1, <1>3, <1>10, <2>3, AlikeSelf DEF Untouched
  <2>6. Fresh(x)'
    BY <1>1, <1>4, <1>8, <1>10, <2>1, <2>3 DEF Per, Fresh
  <2>7. Request(x)'
    <3>1. r.got + inbound'[x] + Cnt(down, x) <= Relayed(x)
      BY <1>3, <1>7, <2>1
    <3> QED
      BY <1>1, <1>4, <1>5, <1>8, <1>10, <2>1, <2>3, <3>1 DEF Per, Request
  <2>8. Response(x)'
    BY <1>1, <1>4, <1>10, ResponseKept, AlikeSelf DEF Per
  <2> QED
    BY <1>5, <1>6, <2>4, <2>5, <2>6, <2>7, <2>8, Assembled DEF Per
<1>11. CASE /\ service[x].state = "reset"
            /\ writer' = [writer EXCEPT ![x] = "hold"]
            /\ Emit(<<F("ERROR", x)>>)
            /\ UNCHANGED service
  <2>1. /\ up' \in Seq(Frame) /\ \A z \in Streams \ {x} : Alike(up, up', z)
        /\ Response(x)'
    BY <1>1, <1>11, ErrorKeeps
  <2>2. \A z \in Streams \ {x} : writer'[z] = writer[z]
    BY <1>11 DEF MuxInv, Typed, TypeOK
  <2>3. Typed'
    BY <1>1, <1>3, <1>11, <2>1 DEF MuxInv, Typed, TypeOK
  <2>4. \A z \in Streams \ {x} : Untouched(z)
    BY <1>1, <1>3, <1>11, <2>1, <2>2, AlikeSelf DEF Untouched
  <2>5. Fresh(x)'
    BY <1>1, <1>4, <1>8, <1>11 DEF Per, Fresh
  <2>6. Request(x)'
    <3>1. service[x].got + inbound'[x] + Cnt(down, x) <= Relayed(x)
      BY <1>3, <1>7
    <3> QED
      BY <1>1, <1>4, <1>5, <1>8, <1>11, <3>1 DEF Per, Request
  <2> QED
    BY <1>5, <1>6, <2>1, <2>3, <2>4, <2>5, <2>6, Assembled DEF Per
<1> QED
  BY <1>2, <1>9, <1>10, <1>11

\* The writer shuts down its side in two steps.
LEMMA WriterKeeps ==
    ASSUME MuxInv, NEW x \in Streams, WriterEnds(x) \/ WriterShuts(x)
    PROVE  MuxInv'
<1>1. UNCHANGED <<client, handler, pump, in, reg, fin, closed, sweeper, swept,
                  handles, inbound, service, reader, down, up, broken, pings>>
  BY DEF WriterEnds, WriterShuts, proxyVars, wireVars
<1>2. /\ writer[x] # "off"
      /\ \E w \in {"hold", "shut"} : writer' = [writer EXCEPT ![x] = w]
      /\ writer[x] = "run" => x \notin handles /\ inbound[x] = 0
      /\ writer[x] \in {"run", "hold"}
  BY DEF WriterEnds, WriterShuts, Live
<1>3. \A z \in Streams \ {x} : writer'[z] = writer[z]
  BY <1>2 DEF MuxInv, Typed, TypeOK
<1>4. Typed' /\ Shared'
  BY <1>1, <1>2 DEF MuxInv, Typed, TypeOK, Shared
<1>5. \A z \in Streams \ {x} : Untouched(z)
  BY <1>1, <1>3, AlikeSelf DEF Untouched
<1>6. Per(x) /\ Relayed(x)' = Relayed(x)
  BY <1>1 DEF MuxInv, Relayed
<1>7. Fresh(x)'
  BY <1>1, <1>2, <1>6 DEF Per, Fresh
<1>8. Request(x)'
  BY <1>1, <1>2, <1>6 DEF Per, Request
<1>9. Slots(x)' /\ Response(x)' /\ Outcome(x)'
  BY <1>1, <1>6, SlotsKept, ResponseKept, OutcomeKept, AlikeSelf DEF Per
<1> QED
  BY <1>4, <1>5, <1>7, <1>8, <1>9, Assembled DEF Per

\* A chunk goes from the reader's account to the queue, and a reader that has
\* nobody to give it to reads no more.
LEMMA ReadLocalKeeps ==
    ASSUME MuxInv, NEW x \in Streams, ReadLocal(x)
    PROVE  MuxInv'
<1> DEFINE f == F("DATA", x)
           r == [state |-> IF broken THEN "stopped" ELSE "run",
                 read |-> reader[x].read + 1]
<1>1. /\ reader[x].state = "run" /\ reader[x].read < service[x].sent
      /\ Emit(<<f>>) /\ reader' = [reader EXCEPT ![x] = r]
      /\ UNCHANGED <<client, handler, pump, in, reg, fin, closed, sweeper,
                     swept, handles, inbound, writer, service, down, broken,
                     pings>>
  BY DEF ReadLocal, proxyVars
<1>2. f \in Frame /\ f.type = "DATA" /\ f.stream = x
  BY FrameOf DEF StreamFrame
<1>3. /\ r \in ReaderRec /\ r.read = reader[x].read + 1 /\ r.state # "done"
      /\ r.read <= service[x].sent /\ r.read > 0
      /\ r.state = "stopped" => broken
  <2>1. /\ Chunks \in Nat /\ reader[x].read \in Nat /\ service[x].sent \in Nat
        /\ service[x].sent <= Chunks
    BY Numbers
  <2> QED
    BY <1>1, <2>1 DEF ReaderRec
<1> HIDE DEF f, r
<1>4. /\ reader' \in [Streams -> ReaderRec] /\ reader'[x] = r
      /\ \A z \in Streams \ {x} : reader'[z] = reader[z]
  BY <1>1, <1>3 DEF MuxInv, Typed, TypeOK, ReaderRec
<1>5. /\ up' \in Seq(Frame)
      /\ (~broken /\ up' = Append(up, f)) \/ (broken /\ up' = up)
      /\ \A z \in Streams \ {x} : Alike(up, up', z)
  BY <1>1, <1>2, EmitDoes
<1>6. Typed' /\ Shared'
  BY <1>1, <1>4, <1>5 DEF MuxInv, Typed, TypeOK, Shared, ReaderRec
<1>7. \A z \in Streams \ {x} : Untouched(z)
  BY <1>1, <1>4, <1>5, AlikeSelf DEF Untouched
<1>8. Per(x) /\ service[x].state # "none"
  <2>1. service[x].sent # 0
    BY <1>1, Numbers
  <2> QED
    BY <2>1 DEF MuxInv, Per, Fresh
<1>9. ~Has(down, "OPEN", x) /\ handler[x] \notin {"new", "open"}
  BY <1>8 DEF Per, Fresh
<1>10. Fresh(x)'
  BY <1>1, <1>3, <1>4, <1>8, <1>9 DEF Per, Fresh
<1>11. Request(x)' /\ Slots(x)' /\ Outcome(x)'
  BY <1>1, <1>8, RequestKept, SlotsKept, OutcomeKept, AlikeSelf DEF Per
<1>12. Response(x)'
  <2>1. /\ ~Has(up, "CLOSE", x) /\ ~Has(in[x], "CLOSE", x)
        /\ pump[x] # "eof" /\ DataFirst(up, x)
    BY <1>1, <1>8 DEF Per, Response
  <2> DEFINE g == client[x].got
             a == Cnt(in[x], x)
             b == Cnt(up, x)
             m == reader[x].read
  <2>2. /\ g \in Nat /\ a \in Nat /\ b \in Nat /\ m \in Nat
        /\ up \in Seq(Frame)
    BY Numbers
  <2>3. /\ g + a + b <= m
        /\ pump[x] \in {"off", "run"} /\ x \in reg /\ ~broken => g + a + b = m
    BY <1>8 DEF Per, Response
  <2>4. CASE broken /\ up' = up
    <3>1. g + a + b <= r.read
      <4> HIDE DEF g, a, b, m
      <4>1. r.read = m + 1
        BY <1>3 DEF m
      <4> QED
        BY <2>2, <2>3, <4>1
    <3> QED
      BY <1>1, <1>4, <1>8, <2>1, <2>4, <3>1 DEF Per, Response
  <2>5. CASE ~broken /\ up' = Append(up, f)
    <3>1. /\ \A t : Has(up', t, x) <=> Has(up, t, x) \/ f.type = t
          /\ Cnt(up', x) = b + IF f.type = "DATA" THEN 1 ELSE 0
          /\ DataFirst(up', x)
      BY <1>2, <2>1, <2>2, <2>5, AppendOwn
    <3>2. /\ g + a + Cnt(up', x) <= r.read
          /\ pump[x] \in {"off", "run"} /\ x \in reg =>
                 g + a + Cnt(up', x) = r.read
      <4> DEFINE b1 == Cnt(up', x)
                 held == pump[x] \in {"off", "run"} /\ x \in reg
      <4>1. b1 = b + 1 /\ r.read = m + 1
        BY <1>2, <1>3, <3>1
      <4>2. g + a + b <= m /\ (held => g + a + b = m)
        BY <2>3, <2>5
      <4> HIDE DEF g, a, b, m, b1, held
      <4>3. g + a + b1 <= r.read /\ (held => g + a + b1 = r.read)
        BY <2>2, <4>1, <4>2
      <4> QED
        BY <4>3 DEF b1, held
    <3>3. ~Has(up', "CLOSE", x)
      BY <1>2, <2>1, <3>1
    <3> QED
      BY <1>1, <1>4, <1>8, <2>1, <2>5, <3>1, <3>2, <3>3 DEF Per, Response
  <2> QED
    BY <1>5, <2>4, <2>5
<1> QED
  BY <1>6, <1>7, <1>10, <1>11, <1>12, Assembled DEF Per

LEMMA ReaderEndsKeeps ==
    ASSUME MuxInv, NEW x \in Streams, ReaderEnds(x)
    PROVE  MuxInv'
<1> DEFINE f == F("CLOSE", x)
           r == [reader[x] EXCEPT !.state = "done"]
<1>1. /\ reader[x].state = "run" /\ AtEnd(x)
      /\ Emit(<<f>>) /\ reader' = [reader EXCEPT ![x] = r]
      /\ UNCHANGED <<client, handler, pump, in, reg, fin, closed, sweeper,
                     swept, handles, inbound, writer, service, down, broken,
                     pings>>
  BY DEF ReaderEnds, proxyVars
<1>2. f \in Frame /\ f.type = "CLOSE" /\ f.stream = x
  BY FrameOf DEF StreamFrame
<1>3. /\ r \in ReaderRec /\ r.read = reader[x].read /\ r.state = "done"
      /\ r.read \in Nat
  BY Numbers DEF ReaderRec
<1> HIDE DEF f, r
<1>4. /\ reader' \in [Streams -> ReaderRec] /\ reader'[x] = r
      /\ \A z \in Streams \ {x} : reader'[z] = reader[z]
  BY <1>1, <1>3 DEF MuxInv, Typed, TypeOK, ReaderRec
<1>5. /\ up' \in Seq(Frame)
      /\ (~broken /\ up' = Append(up, f)) \/ (broken /\ up' = up)
      /\ \A z \in Streams \ {x} : Alike(up, up', z)
  BY <1>1, <1>2, EmitDoes
<1>6. Typed' /\ Shared'
  BY <1>1, <1>4, <1>5 DEF MuxInv, Typed, TypeOK, Shared, ReaderRec
<1>7. \A z \in Streams \ {x} : Untouched(z)
  BY <1>1, <1>4, <1>5, AlikeSelf DEF Untouched
<1>8. Per(x) /\ service[x].state # "none"
  BY <1>1 DEF AtEnd, MuxInv
<1>9. ~Has(down, "OPEN", x) /\ handler[x] \notin {"new", "open"}
  BY <1>8 DEF Per, Fresh
<1>10. Fresh(x)'
  BY <1>1, <1>3, <1>4, <1>8, <1>9 DEF Per, Fresh, AtEnd
<1>11. Request(x)' /\ Slots(x)' /\ Outcome(x)'
  BY <1>1, <1>8, RequestKept, SlotsKept, OutcomeKept, AlikeSelf DEF Per
<1>12. Response(x)'
  <2>1. /\ ~Has(up, "CLOSE", x) /\ ~Has(in[x], "CLOSE", x)
        /\ pump[x] # "eof" /\ DataFirst(up, x)
    BY <1>1, <1>8 DEF Per, Response
  <2>2. up \in Seq(Frame) /\ Cnt(up, x) \in Nat
    BY Numbers
  <2>3. CASE broken /\ up' = up
    BY <1>1, <1>3, <1>4, <1>8, <2>1, <2>3 DEF Per, Response
  <2>4. CASE ~broken /\ up' = Append(up, f)
    <3>1. /\ Cnt(up', x) = Cnt(up, x) + 0
          /\ DataFirst(up', x)
      BY <1>2, <2>1, <2>2, <2>4, AppendOwn
    <3>2. Cnt(up', x) = Cnt(up, x)
      BY <2>2, <3>1
    <3> QED
      BY <1>1, <1>3, <1>4, <1>8, <2>1, <2>4, <3>1, <3>2 DEF Per, Response
  <2> QED
    BY <1>5, <2>3, <2>4
<1> QED
  BY <1>6, <1>7, <1>10, <1>11, <1>12, Assembled DEF Per

\* What the service does changes nobody's account but its own.
LEMMA LocalKeeps ==
    ASSUME MuxInv, NEW x \in Streams, LocalSteps(x)
    PROVE  MuxInv'
<1>1. /\ service[x].state = "open"
      /\ UNCHANGED <<client, handler, pump, in, reg, fin, closed, sweeper,
                     swept, handles, inbound, writer, reader, down, up, broken,
                     pings>>
  BY DEF LocalSteps, LocalSends, LocalCloses, LocalResets, proxyVars, wireVars
<1>2. Per(x) /\ Relayed(x)' = Relayed(x)
  BY <1>1 DEF MuxInv, Relayed
<1>3. /\ service[x] \in ServiceRec /\ service[x].sent \in Nat
      /\ reader[x].read \in Nat /\ reader[x].read <= service[x].sent
      /\ reader[x].state # "done" /\ Chunks \in Nat
  BY <1>1, <1>2, Numbers DEF Per, Fresh
<1>4. PICK r \in ServiceRec :
          /\ service' = [service EXCEPT ![x] = r]
          /\ r.got = service[x].got /\ r.sent \in Nat
          /\ service[x].sent <= r.sent /\ r.state # "none"
  <2>1. CASE LocalSends(x)
    <3> DEFINE r == [service[x] EXCEPT !.sent = service[x].sent + 1]
    <3>1. service' = [service EXCEPT ![x] = r] /\ service[x].sent < Chunks
      BY <2>1 DEF LocalSends
    <3>2. /\ r \in ServiceRec /\ r.got = service[x].got
          /\ r.sent = service[x].sent + 1 /\ r.state # "none"
      BY <1>1, <1>3, <3>1 DEF ServiceRec
    <3> HIDE DEF r
    <3>3. r.sent \in Nat /\ service[x].sent <= r.sent
      BY <1>3, <3>2
    <3> QED
      BY <3>1, <3>2, <3>3, Zenon
  <2>2. CASE LocalCloses(x)
    <3> DEFINE r == [service[x] EXCEPT !.state = "closed"]
    <3>1. service' = [service EXCEPT ![x] = r]
      BY <2>2 DEF LocalCloses
    <3>2. /\ r \in ServiceRec /\ r.got = service[x].got
          /\ r.sent = service[x].sent /\ r.state # "none"
      BY <1>3 DEF ServiceRec
    <3> HIDE DEF r
    <3>3. r.sent \in Nat /\ service[x].sent <= r.sent
      BY <1>3, <3>2
    <3> QED
      BY <3>1, <3>2, <3>3, Zenon
  <2>3. CASE LocalResets(x)
    <3> DEFINE r == [service[x] EXCEPT !.state = "reset"]
    <3>1. service' = [service EXCEPT ![x] = r]
      BY <2>3 DEF LocalResets
    <3>2. /\ r \in ServiceRec /\ r.got = service[x].got
          /\ r.sent = service[x].sent /\ r.state # "none"
      BY <1>3 DEF ServiceRec
    <3> HIDE DEF r
    <3>3. r.sent \in Nat /\ service[x].sent <= r.sent
      BY <1>3, <3>2
    <3> QED
      BY <3>1, <3>2, <3>3, Zenon
  <2> QED
    BY <2>1, <2>2, <2>3 DEF LocalSteps
<1>5. /\ service' \in [Streams -> ServiceRec] /\ service'[x] = r
      /\ \A z \in Streams \ {x} : service'[z] = service[z]
  BY <1>4 DEF MuxInv, Typed, TypeOK, ServiceRec
<1>6. Typed' /\ Shared'
  BY <1>1, <1>5 DEF MuxInv, Typed, TypeOK, Shared, ServiceRec
<1>7. \A z \in Streams \ {x} : Untouched(z)
  BY <1>1, <1>5, AlikeSelf DEF Untouched
<1>8. ~Has(down, "OPEN", x) /\ handler[x] \notin {"new", "open"}
  BY <1>1, <1>2 DEF Per, Fresh
<1>9. Fresh(x)'
  BY <1>1, <1>2, <1>3, <1>4, <1>5, <1>8 DEF Per, Fresh
<1>10. Request(x)'
  BY <1>1, <1>2, <1>4, <1>5, <1>8 DEF Per, Request
<1>11. Slots(x)' /\ Outcome(x)' /\ Response(x)'
  BY <1>1, <1>2, SlotsKept, OutcomeKept, ResponseKept, AlikeSelf DEF Per
<1> QED
  BY <1>6, <1>7, <1>9, <1>10, <1>11, Assembled DEF Per

LEMMA BreakKeeps ==
    ASSUME MuxInv, Break
    PROVE  MuxInv'
<1>1. /\ ~broken /\ broken' = TRUE
      /\ UNCHANGED <<client, handler, pump, in, reg, fin, closed, sweeper,
                     swept, handles, inbound, writer, service, reader, down, pings>>
  BY DEF Break, proxyVars, agentVars
<1>2. PICK n \in 0 .. Len(up) : up' = SubSeq(up, 1, n)
  BY DEF Break
<1>3. /\ up \in Seq(Frame) /\ up' \in Seq(Frame)
      /\ \A z : /\ Quiet(up, z) => Quiet(up', z)
                /\ \A t : Has(up', t, z) => Has(up, t, z)
                /\ Cnt(up', z) <= Cnt(up, z)
                /\ DataFirst(up, z) =>
                       /\ DataFirst(up', z)
                       /\ Has(up', "CLOSE", z) => Cnt(up', z) = Cnt(up, z)
  <2>1. up \in Seq(Frame)
    BY DEF MuxInv, Typed, TypeOK
  <2> QED
    BY <1>2, <2>1, Prefix
<1>4. Typed' /\ Shared'
  BY <1>1, <1>3 DEF MuxInv, Typed, TypeOK, Shared
<1>5. ASSUME NEW z \in Streams PROVE Per(z)'
  <2>1. Per(z) /\ Relayed(z)' = Relayed(z)
    BY <1>1 DEF MuxInv, Relayed
  <2>2. Fresh(z)'
    BY <1>1, <1>3, <2>1 DEF Per, Fresh
  <2>3. Request(z)' /\ Slots(z)' /\ Outcome(z)'
    BY <1>1, <2>1, OutcomeKept DEF Per, Request, Slots
  <2>4. Response(z)'
    <3> DEFINE g == client[z].got
               a == Cnt(in[z], z)
               b == Cnt(up, z)
               b1 == Cnt(up', z)
               m == reader[z].read
    <3>1. /\ g \in Nat /\ a \in Nat /\ b \in Nat /\ m \in Nat
          /\ b1 \in Nat /\ b1 <= b
      BY <1>3, Numbers, DataFinite
    <3>2. /\ g + a + b <= m /\ DataFirst(up, z)
          /\ pump[z] \in {"off", "run"} /\ z \in reg => g + a + b = m
      BY <1>1, <2>1 DEF Per, Response
    <3>3. Has(up', "CLOSE", z) => b1 = b
      BY <1>3, <3>2
    <3> HIDE DEF g, a, b, b1, m
    <3>4. g + a + b1 <= m
      BY <3>1, <3>2
    <3> QED
      BY <1>1, <1>3, <2>1, <3>2, <3>3, <3>4
         DEF Per, Response, g, a, b, b1, m
  <2> QED
    BY <2>2, <2>3, <2>4 DEF Per
<1> QED
  BY <1>4, <1>5 DEF MuxInv

-----------------------------------------------------------------------------
(* The invariant, and what follows from it.                                *)

LEMMA MuxInit ==
    ASSUME Init
    PROVE  MuxInv
<1>1. /\ Chunks \in Nat /\ InCap \in Nat /\ QueueCap \in Nat
      /\ InboundCap \in Nat /\ MaxStreams \in Nat /\ MaxEvents \in Nat
  BY MuxConstants DEF MuxConstants
<1>2. IsFiniteSet({}) /\ Cardinality({}) = 0
  BY FS_EmptySet
<1>3. <<>> \in Seq(Frame) /\ Len(<<>>) = 0
  OBVIOUS
<1>4. Typed /\ Shared
  <2>1. /\ client \in [Streams -> ClientRec]
        /\ service \in [Streams -> ServiceRec]
        /\ reader \in [Streams -> ReaderRec]
    BY <1>1 DEF Init, ClientRec, ServiceRec, ReaderRec
  <2>2. /\ handler \in [Streams -> {"new", "open", "head", "relay", "close",
                                  "wait", "finish", "drain", "done"}]
        /\ pump \in [Streams -> {"off", "run", "eof", "err", "cut"}]
        /\ writer \in [Streams -> {"off", "run", "hold", "shut"}]
    BY DEF Init
  <2>3. /\ in \in [Streams -> Seq(Frame)] /\ inbound \in [Streams -> Nat]
        /\ \A x \in Streams : /\ in[x] \in Seq(Frame) /\ Len(in[x]) <= InCap
                               /\ inbound[x] \in 0 .. InboundCap
    BY <1>1, <1>3 DEF Init
  <2>4. /\ down \in Seq(Frame) /\ Len(down) <= QueueCap
        /\ up \in Seq(Frame) /\ pings \in 0 .. MaxEvents
        /\ Cardinality(handles) <= MaxStreams
        /\ IsFiniteSet(handles) /\ IsFiniteSet(swept)
    BY <1>1, <1>2, <1>3 DEF Init
  <2> QED
    BY <2>1, <2>2, <2>3, <2>4
       DEF Init, Typed, TypeOK, Shared, ClientRec, ServiceRec, ReaderRec
<1>5. \A x \in Streams : \A t : ~Has(<<>>, t, x)
  BY <1>3 DEF Has
<1>6. ASSUME NEW x \in Streams PROVE Per(x)
  <2>1. Cnt(<<>>, x) = 0
    BY <1>3, <1>5, NoData
  <2>2. /\ Quiet(<<>>, x) /\ OneOpen(<<>>, x) /\ FirstOpen(<<>>, x)
        /\ LastClose(<<>>, x) /\ DataFirst(<<>>, x)
    BY <1>3 DEF Quiet, OneOpen, FirstOpen, LastClose, DataFirst
  <2>3. /\ client[x].left = Chunks /\ client[x].got = 0
        /\ handler[x] = "new" /\ pump[x] = "off" /\ in[x] = <<>>
        /\ inbound[x] = 0 /\ writer[x] = "off"
        /\ service[x].state = "none" /\ service[x].got = 0
        /\ service[x].sent = 0 /\ reader[x].read = 0
        /\ reader[x].state = "off"
        /\ reg = {} /\ fin = {} /\ swept = {} /\ handles = {}
        /\ down = <<>> /\ up = <<>> /\ ~broken
    BY DEF Init
  <2>4. Relayed(x) = 0
    BY <1>1, <2>3 DEF Relayed, Early
  <2>5. Fresh(x)
    BY <1>5, <2>2, <2>3 DEF Fresh
  <2>6. Request(x)
    BY <1>5, <2>1, <2>2, <2>3, <2>4 DEF Request
  <2>7. Slots(x) /\ Outcome(x)
    BY <2>3 DEF Slots, Outcome, Later
  <2>8. Response(x)
    BY <1>3, <1>5, <2>1, <2>2, <2>3 DEF Response
  <2> QED
    BY <2>5, <2>6, <2>7, <2>8 DEF Per
<1> QED
  BY <1>4, <1>6 DEF MuxInv

LEMMA StutterKeeps ==
    ASSUME MuxInv, UNCHANGED vars
    PROVE  MuxInv'
<1>1. UNCHANGED <<client, handler, pump, in, reg, fin, closed, sweeper, swept,
                  handles, inbound, writer, service, reader, down, up, broken, pings>>
  BY DEF vars, proxyVars, agentVars, wireVars
<1>2. Typed' /\ Shared'
  BY <1>1 DEF MuxInv, Typed, TypeOK, Shared
<1>3. \A z \in Streams : Untouched(z)
  BY <1>1, AlikeSelf DEF Untouched
<1> QED
  BY <1>2, <1>3, AssembledAll

\* Whatever is sent, lost, swept or broken, the accounts of MuxInv are kept.
THEOREM MuxInvariant == Spec => []MuxInv
<1>1. MuxInv /\ [Next]_vars => MuxInv'
  <2> SUFFICES ASSUME MuxInv, [Next]_vars PROVE MuxInv'
    OBVIOUS
  <2>1. CASE UNCHANGED vars
    BY <2>1, StutterKeeps
  <2>2. ASSUME NEW x \in Streams,
               ClientShuts(x) \/ ClientLeaves(x) \/ Alloc(x)
        PROVE  MuxInv'
    BY <2>2, ClientKeeps, AllocKeeps
  <2>3. ASSUME NEW x \in Streams, HandlerSteps(x) PROVE MuxInv'
    BY <2>3, SendOpenKeeps, SendHeadKeeps, RelayDataKeeps, RelayEndKeeps,
       SendCloseKeeps, AwaitResponseKeeps, FinishesKeeps DEF HandlerSteps
  <2>4. ASSUME NEW x \in Streams, PumpSteps(x) \/ SweepClose(x)
        PROVE  MuxInv'
    BY <2>4, PumpFrameKeeps, PumpCutKeeps, SweepCloseKeeps DEF PumpSteps
  <2>5. ASSUME NEW x \in Streams,
               WriterSteps(x) \/ ReaderSteps(x) \/ LocalSteps(x)
        PROVE  MuxInv'
    BY <2>5, WriteLocalKeeps, WriterKeeps, ReadLocalKeeps, ReaderEndsKeeps,
       LocalKeeps DEF WriterSteps, ReaderSteps
  <2>6. CASE ReadLoop \/ SweepFinish
    BY <2>6, DispatchKeeps, DispatchPingKeeps, CloseAgentKeeps,
       SweepFinishKeeps DEF ReadLoop
  <2>7. CASE Session \/ Ping \/ Break
    BY <2>7, HandleOpenKeeps, HandleDataKeeps, HandleCloseKeeps,
       SessionEndsKeeps, PingKeeps, BreakKeeps DEF Session
  <2> QED
    BY <2>1, <2>2, <2>3, <2>4, <2>5, <2>6, <2>7 DEF Next
<1> QED
  BY <1>1, MuxInit, PTL DEF Spec

\* The queues keep to their bounds, and the agent to its slots.
THEOREM QueuesBounded == Spec => []TypeOK
<1>1. MuxInv => TypeOK
  BY DEF MuxInv, Typed
<1> QED
  BY <1>1, MuxInvariant, PTL

\* A pump that ends with the service's CLOSE has written all the service sent,
\* unless it reset the connection (pumpAgentToClient, Stream.In, the reader task).
THEOREM ResponseArrives == Spec => []CleanEndIsWhole
<1>1. MuxInv => CleanEndIsWhole
  <2> SUFFICES ASSUME MuxInv, NEW x \in Streams, pump[x] = "eof",
                      service[x].state # "reset"
               PROVE  client[x].got = service[x].sent
    BY DEF CleanEndIsWhole
  <2>1. reader[x].state = "done" /\ client[x].got = reader[x].read
    BY DEF MuxInv, Per, Response
  <2> QED
    BY <2>1 DEF MuxInv, Per, Fresh
<1> QED
  BY <1>1, MuxInvariant, PTL

\* The local FIN comes after the whole request (the writer task of agent.rs
\* drains its queue first).
THEOREM RequestArrives == Spec => []RequestBeforeFin
<1>1. MuxInv => RequestBeforeFin
  <2> SUFFICES ASSUME MuxInv, NEW x \in Streams, writer[x] = "shut",
                      service[x].state = "open", x \notin swept, ~broken
               PROVE  handler[x] \in Later /\ service[x].got = Relayed(x)
    BY DEF RequestBeforeFin
  <2>1. Per(x)
    BY DEF MuxInv
  <2>2. x \notin handles /\ inbound[x] = 0
    BY <2>1 DEF Per, Request
  <2>3. handler[x] \in Later /\ Quiet(down, x)
    BY <2>1, <2>2 DEF Per, Request
  <2>4. Cnt(down, x) = 0
    <3>1. ~Has(down, "DATA", x)
      BY <2>3 DEF Quiet, Has, At
    <3> QED
      BY <3>1, NoData, Numbers
  <2>5. service[x].got + 0 + 0 = Relayed(x)
    BY <2>1, <2>2, <2>4 DEF Per, Request
  <2>6. service[x].got \in Nat
    BY Numbers
  <2> QED
    BY <2>3, <2>5, <2>6
<1> QED
  BY <1>1, MuxInvariant, PTL

\* No slot of the agent is left behind by a handler that has returned
\* (Session.streams, serveHTTP and handleTCP).
THEOREM NoSlotLeaks == Spec => []SlotsReturned
<1>1. MuxInv => SlotsReturned
  <2> SUFFICES ASSUME MuxInv, NEW x \in Streams, handler[x] = "done", ~broken,
                      \A i \in DOMAIN down : down[i].stream # x,
                      x \in handles
               PROVE  FALSE
    BY DEF SlotsReturned
  <2>1. Has(down, "CLOSE", x)
    BY DEF MuxInv, Per, Slots, Later
  <2>2. DOMAIN down = 1 .. Len(down)
    BY DEF MuxInv, Typed, TypeOK
  <2> QED
    BY <2>1, <2>2 DEF Has, At
<1> QED
  BY <1>1, MuxInvariant, PTL

\* serveHTTP never leaves a waiting client without an answer.
THEOREM ClientsAnswered == Spec => []Answered
<1>1. MuxInv => Answered
  BY MuxConstants DEF MuxInv, Per, Outcome, Answered, MuxConstants
<1> QED
  BY <1>1, MuxInvariant, PTL

-----------------------------------------------------------------------------
(* How a stream ends.  No ERROR is on its way to a pump that still has what *)
(* the service sent to expect: of a stream that nobody tore down, that the  *)
(* agent took, and whose service did not reset the connection.             *)

Steady(x) ==
    /\ ~broken /\ x \notin swept \cup fin
    /\ Fates[x] # "refused" /\ service[x].state # "reset"
    /\ pump[x] \in {"off", "run"}

NoError(x) == ~Has(in[x], "ERROR", x) /\ ~Has(up, "ERROR", x)

Ending(x) ==
    /\ x \in fin => x \in swept \/ closed \/ handler[x] \in {"drain", "done"}
    /\ handler[x] = "done" => Ended(x)
    /\ handler[x] # "new" => x \in reg \cup fin
    /\ Steady(x) => NoError(x)

EndInv == MuxInv /\ \A x \in Streams : Ending(x)

\* What no step takes back, and what it takes to get there.
Forward(z) ==
    /\ broken => broken'
    /\ closed => closed'
    /\ z \in swept => z \in swept'
    /\ z \in fin => z \in fin'
    /\ z \in reg \cup fin => z \in reg' \cup fin'
    /\ Ended(z) => Ended(z)'
    /\ handler[z] \in {"drain", "done"} => handler'[z] \in {"drain", "done"}
    /\ handler'[z] \in {"new", "open"} => handler[z] \in {"new", "open"}
    /\ z \in fin' \ fin =>
           z \in swept \/ closed' \/ handler'[z] \in {"drain", "done"}
    /\ handler'[z] = "done" => handler[z] = "done" \/ Ended(z)
    /\ handler'[z] # "new" => handler[z] # "new" \/ z \in reg'
    /\ service'[z].state # "none" =>
           service[z].state # "none" \/ Has(down, "OPEN", z)
    /\ service[z].state = "reset" => service'[z].state = "reset"
    /\ Has(down', "OPEN", z) => Has(down, "OPEN", z) \/ handler[z] = "open"

LEMMA Waits ==
    ASSUME NEW x
    PROVE  Waiting(x) <=> handler[x] \in {"new", "open"} \/ Has(down, "OPEN", x)
BY DEF Waiting, Has, At

LEMMA OpenSent ==
    ASSUME MuxInv, NEW t \in StreamFrame, NEW x \in Streams, NEW z \in Streams,
           Enqueue(F(t, x))
    PROVE  Has(down', "OPEN", z) =>
               Has(down, "OPEN", z) \/ (t = "OPEN" /\ x = z)
<1> DEFINE f == F(t, x)
<1>1. f \in Frame /\ f.type = t /\ f.stream = x
  BY FrameOf
<1>2. down \in Seq(Frame)
  BY DEF MuxInv, Typed, TypeOK
<1> HIDE DEF f
<1>3. down' = Append(down, f) \/ down' = down
  BY DEF Enqueue, f
<1>4. CASE x = z
  BY <1>1, <1>2, <1>3, <1>4, AppendOwn
<1>5. CASE x # z
  <2>1. Alike(down, down', z)
    BY <1>1, <1>2, <1>3, <1>5, AppendOther, AlikeSelf
  <2> QED
    BY <2>1 DEF Alike, StreamFrame
<1> QED
  BY <1>4, <1>5

LEMMA TailHas ==
    ASSUME NEW s \in Seq(Frame), s # <<>>, NEW t, NEW z, Has(Tail(s), t, z)
    PROVE  Has(s, t, z)
<1>1. PICK i \in 1 .. Len(Tail(s)) : At(Tail(s), i, t, z)
  BY DEF Has
<1>2. i + 1 \in 1 .. Len(s) /\ At(s, i + 1, t, z)
  BY <1>1, TailAt DEF At
<1> QED
  BY <1>2 DEF Has

Pumps == {"off", "run", "eof", "err", "cut"}

Handlers == {"new", "open", "head", "relay", "close", "wait", "finish",
             "drain", "done"}

LEMMA HandlerForward ==
    ASSUME MuxInv, NEW x \in Streams, Alloc(x) \/ HandlerSteps(x),
           NEW z \in Streams
    PROVE  Forward(z)
<1>1. handler \in [Streams -> Handlers] /\ pump \in [Streams -> Pumps]
  BY DEF MuxInv, Typed, TypeOK, Handlers, Pumps
<1>2. handler[x] = "open" => pump[x] = "off"
  BY DEF MuxInv, Per, Fresh
<1>3. CASE Alloc(x)
  BY <1>1, <1>3 DEF Alloc, Goto, Forward, Ended, agentVars, wireVars
<1>4. CASE SendOpen(x)
  <2>1. Has(down', "OPEN", z) => Has(down, "OPEN", z) \/ handler[z] = "open"
    BY <1>4, OpenSent DEF SendOpen, StreamFrame
  <2> QED
    BY <1>1, <1>2, <1>4, <2>1 DEF SendOpen, Goto, Forward, Ended, agentVars
<1>5. CASE SendHead(x)
  <2>1. Has(down', "OPEN", z) => Has(down, "OPEN", z)
    BY <1>5, OpenSent DEF SendHead, StreamFrame
  <2> QED
    BY <1>1, <1>5, <2>1 DEF SendHead, Goto, Forward, Ended, agentVars
<1>6. CASE RelayData(x)
  <2>1. Has(down', "OPEN", z) => Has(down, "OPEN", z)
    BY <1>6, OpenSent DEF RelayData, StreamFrame
  <2> QED
    BY <1>6, <2>1 DEF RelayData, Forward, Ended, agentVars, proxyVars
<1>7. CASE RelayEnd(x)
  BY <1>1, <1>7 DEF RelayEnd, Goto, Forward, Ended, agentVars, wireVars
<1>8. CASE SendClose(x)
  <2>1. Has(down', "OPEN", z) => Has(down, "OPEN", z)
    BY <1>8, OpenSent DEF SendClose, StreamFrame
  <2> QED
    BY <1>1, <1>8, <2>1 DEF SendClose, Goto, Forward, Ended, agentVars
<1>9. CASE AwaitResponse(x)
  BY <1>1, <1>9
  DEF AwaitResponse, Finish, Goto, Forward, Ended, agentVars, wireVars
<1>10. CASE HandlerFinishes(x)
  BY <1>1, <1>10
  DEF HandlerFinishes, Finish, Goto, Forward, Ended, agentVars, wireVars
<1>11. CASE Drained(x)
  BY <1>1, <1>11 DEF Drained, Goto, Forward, Ended, agentVars, wireVars
<1> QED
  BY <1>3, <1>4, <1>5, <1>6, <1>7, <1>8, <1>9, <1>10, <1>11 DEF HandlerSteps

LEMMA ProxyForward ==
    ASSUME MuxInv, NEW z \in Streams,
           \/ \E x \in Streams : PumpSteps(x) \/ SweepClose(x)
           \/ ReadLoop \/ SweepFinish
    PROVE  Forward(z)
<1>1. pump \in [Streams -> Pumps]
  BY DEF MuxInv, Typed, TypeOK, Pumps
<1>2. ASSUME NEW x \in Streams, PumpSteps(x) PROVE Forward(z)
  <2>1. /\ pump[x] = "run"
        /\ \/ pump' = pump
           \/ \E how \in {"cut", "eof", "err"} : pump' = [pump EXCEPT ![x] = how]
        /\ UNCHANGED <<handler, reg, fin, closed, swept, agentVars, wireVars>>
    BY <1>2 DEF PumpSteps, PumpFrame, PumpCut, PumpEnds
  <2> QED
    BY <1>1, <2>1 DEF Forward, Ended, agentVars, wireVars
<1>3. ASSUME NEW x \in Streams, SweepClose(x) PROVE Forward(z)
  <2>1. Has(down', "OPEN", z) => Has(down, "OPEN", z)
    BY <1>3, OpenSent DEF SweepClose, StreamFrame
  <2> QED
    BY <1>3, <2>1 DEF SweepClose, Forward, Ended, agentVars
<1>4. CASE Dispatch
  BY <1>4 DEF Dispatch, Forward, Ended, agentVars
<1>5. CASE DispatchPing
  <2> DEFINE f == F("PONG", Nobody)
  <2>1. f \in Frame /\ f.stream # z
    BY MuxConstants DEF F, Frame, MuxConstants
  <2>2. Enqueue(f)
    BY <1>5 DEF DispatchPing
  <2> HIDE DEF f
  <2>3. Alike(down, down', z)
    BY <2>1, <2>2, EnqueueDoes
  <2>4. Has(down', "OPEN", z) <=> Has(down, "OPEN", z)
    BY <2>3 DEF Alike, StreamFrame
  <2> QED
    BY <1>5, <2>4 DEF DispatchPing, Forward, Ended, agentVars, proxyVars
<1>6. CASE CloseAgent
  BY <1>6 DEF CloseAgent, Finish, Forward, Ended, agentVars, wireVars
<1>7. CASE SweepFinish
  BY <1>7
  DEF SweepFinish, Finish, Forward, Ended, agentVars, wireVars, MuxInv, Shared
<1> QED
  BY <1>2, <1>3, <1>4, <1>5, <1>6, <1>7 DEF ReadLoop

LEMMA AgentForward ==
    ASSUME MuxInv, NEW z \in Streams,
           \/ \E x \in Streams : \/ ClientShuts(x) \/ ClientLeaves(x)
                                 \/ WriterSteps(x) \/ ReaderSteps(x)
                                 \/ LocalSteps(x)
           \/ Session \/ Ping \/ Break
    PROVE  Forward(z)
<1>1. /\ service \in [Streams -> ServiceRec]
      /\ down \in Seq(Frame)
  BY DEF MuxInv, Typed, TypeOK, ServiceRec
<1>2. ASSUME NEW x \in Streams, ClientShuts(x) \/ ClientLeaves(x)
      PROVE  Forward(z)
  BY <1>2
  DEF ClientShuts, ClientLeaves, Forward, Ended, proxyVars, agentVars, wireVars
<1>3. ASSUME NEW x \in Streams, WriterSteps(x) \/ ReaderSteps(x)
      PROVE  Forward(z)
  <2>1. UNCHANGED <<proxyVars, down, broken>>
    BY <1>3
    DEF WriterSteps, WriteLocal, WriterEnds, WriterShuts, ReaderSteps,
        ReadLocal, ReaderEnds, wireVars
  <2>2. \/ service'[z].state = service[z].state
        \/ service[z].state # "none" /\ service'[z].state = "reset"
    BY <1>1, <1>3
    DEF WriterSteps, WriteLocal, WriterEnds, WriterShuts, ReaderSteps,
        ReadLocal, ReaderEnds, ServiceRec
  <2> QED
    BY <2>1, <2>2 DEF Forward, Ended, proxyVars
<1>4. ASSUME NEW x \in Streams, LocalSteps(x) PROVE Forward(z)
  <2>1. /\ UNCHANGED <<proxyVars, down, broken>>
        /\ service[x].state = "open"
        /\ z # x => service'[z] = service[z]
    BY <1>1, <1>4
    DEF LocalSteps, LocalSends, LocalCloses, LocalResets, wireVars
  <2> QED
    BY <2>1 DEF Forward, Ended, proxyVars
<1>5. CASE HandleOpen
  <2> DEFINE y == Head(down).stream
  <2>1. /\ down # <<>> /\ Head(down).type = "OPEN" /\ down' = Tail(down)
        /\ UNCHANGED <<proxyVars, broken>>
        /\ service' = service \/ service' = [service EXCEPT ![y].state = "open"]
    BY <1>5 DEF HandleOpen
  <2>2. Has(down', "OPEN", z) => Has(down, "OPEN", z)
    BY <1>1, <2>1, TailHas
  <2>3. Has(down, "OPEN", y)
    <3>1. 1 \in 1 .. Len(down) /\ down[1] = Head(down)
      BY <1>1, <2>1, TailAt
    <3> QED
      BY <2>1, <3>1 DEF Has, At
  <2> HIDE DEF y
  <2>4. y # z => service'[z] = service[z]
    BY <1>1, <2>1
  <2>5. y = z => service[z].state = "none"
    BY <2>3 DEF MuxInv, Per, Fresh
  <2> QED
    BY <2>1, <2>2, <2>3, <2>4, <2>5 DEF Forward, Ended, proxyVars
<1>6. CASE HandleData \/ HandleClose
  <2>1. /\ down # <<>> /\ down' = Tail(down)
        /\ UNCHANGED <<proxyVars, service, broken>>
    BY <1>6 DEF HandleData, HandleClose
  <2>2. Has(down', "OPEN", z) => Has(down, "OPEN", z)
    BY <1>1, <2>1, TailHas
  <2> QED
    BY <2>1, <2>2 DEF Forward, Ended, proxyVars
<1>7. CASE SessionEnds
  BY <1>7 DEF SessionEnds, Forward, Ended, proxyVars, wireVars
<1>8. CASE Ping \/ Break
  BY <1>8 DEF Ping, Break, Forward, Ended, proxyVars, agentVars
<1> QED
  BY <1>2, <1>3, <1>4, <1>5, <1>6, <1>7, <1>8 DEF Session

LEMMA StepForward ==
    ASSUME MuxInv, Next, NEW z \in Streams
    PROVE  Forward(z)
BY HandlerForward, ProxyForward, AgentForward DEF Next

\* What was not steady stays so.
LEMMA SteadyBefore ==
    ASSUME MuxInv, NEW z \in Streams, Forward(z), Steady(z)'
    PROVE  Steady(z)
<1>1. pump[z] \in Pumps
  BY DEF MuxInv, Typed, TypeOK, Pumps
<1>2. pump[z] \in {"off", "run"}
  BY <1>1 DEF Steady, Forward, Ended, Pumps
<1>3. Fates[z] # "refused"
  <2> SUFFICES ASSUME Fates[z] = "refused" PROVE Fates[z]' = "refused"
    BY DEF Steady
  <2>1. service[z].state = "none" /\ ~Waiting(z)
    BY DEF Fates
  <2>2. handler[z] \notin {"new", "open"} /\ ~Has(down, "OPEN", z)
    BY <2>1, Waits
  <2>3. service'[z].state = "none"
    BY <2>1, <2>2 DEF Forward
  <2>4. handler'[z] \notin {"new", "open"} /\ ~Has(down', "OPEN", z)
    BY <2>2 DEF Forward
  <2>5. ~Waiting(z)'
    BY <2>4 DEF Waiting, Has, At
  <2> QED
    BY <2>3, <2>5 DEF Fates
<1> QED
  BY <1>2, <1>3 DEF Steady, Forward

\* A step that leaves the queues towards z's client alone.
LEMMA NoErrorKept ==
    ASSUME NEW z \in Streams, NoError(z), in'[z] = in[z], Alike(up, up', z)
    PROVE  NoError(z)'
<1>1. Has(up', "ERROR", z) <=> Has(up, "ERROR", z)
  BY DEF Alike, StreamFrame
<1> QED
  BY <1>1 DEF NoError

LEMMA EmitNoError ==
    ASSUME MuxInv, NEW t \in StreamFrame, NEW x \in Streams, NEW z \in Streams,
           Emit(<<F(t, x)>>), ~broken, NoError(z), in'[z] = in[z],
           x # z \/ t # "ERROR"
    PROVE  NoError(z)'
<1> DEFINE f == F(t, x)
           u == Append(up, f)
<1>1. f \in Frame /\ f.type = t /\ f.stream = x
  BY FrameOf
<1>2. up \in Seq(Frame)
  BY DEF MuxInv, Typed, TypeOK
<1> HIDE DEF f
<1>3. up' = u
  BY <1>1, <1>2, EmitDoes DEF f
<1>4. CASE x # z
  <2>1. Alike(up, u, z)
    BY <1>1, <1>2, <1>4, AppendOther
  <2> HIDE DEF u
  <2> QED
    BY <1>3, <2>1, NoErrorKept
<1>5. CASE x = z
  <2>1. Has(u, "ERROR", z) <=> Has(up, "ERROR", z) \/ t = "ERROR"
    BY <1>1, <1>2, <1>5, AppendOwn
  <2> HIDE DEF u
  <2> QED
    BY <1>3, <1>5, <2>1 DEF NoError
<1> QED
  BY <1>4, <1>5

\* The read loop makes no ERRORs of its own.
LEMMA DispatchNoError ==
    ASSUME MuxInv, Dispatch, NEW z \in Streams, NoError(z)
    PROVE  NoError(z)'
<1>0. up # <<>> /\ Head(up).type \in {"DATA", "CLOSE", "ERROR"}
  BY DEF Dispatch
<1>1. PICK f \in Frame, u \in Seq(Frame) : f = Head(up) /\ u = Tail(up)
  BY <1>0, TailAt DEF MuxInv, Typed, TypeOK
<1>2. PICK x \in Streams : x = f.stream
  BY <1>0, <1>1, FramesAre DEF StreamFrame
<1>3. PICK s \in Seq(Frame) : s = in[x]
  BY DEF MuxInv, Typed
<1>4. /\ up' = u
      /\ in' = [in EXCEPT ![x] = Append(s, f)] \/ in' = in
  BY <1>1, <1>2, <1>3 DEF Dispatch
<1>5. in \in [Streams -> Seq(Frame)] /\ up \in Seq(Frame)
  BY DEF MuxInv, Typed, TypeOK
<1>6. CASE x # z
  <2>1. Alike(up, u, z)
    BY <1>0, <1>1, <1>2, <1>5, <1>6, TailOther
  <2>2. in'[z] = in[z]
    BY <1>4, <1>5, <1>6
  <2> QED
    BY <1>4, <2>1, <2>2, NoErrorKept
<1>7. CASE x = z
  <2>1. Has(up, "ERROR", z) <=> Has(u, "ERROR", z) \/ f.type = "ERROR"
    BY <1>0, <1>1, <1>2, <1>5, <1>7, TailOwn
  <2> DEFINE q == Append(s, f)
  <2>2. Has(q, "ERROR", z) <=> Has(s, "ERROR", z) \/ f.type = "ERROR"
    BY <1>2, <1>7, AppendOwn
  <2>3. in'[z] = q \/ in'[z] = s
    BY <1>3, <1>4, <1>5, <1>7
  <2> HIDE DEF q
  <2> QED
    BY <1>3, <1>4, <1>7, <2>1, <2>2, <2>3 DEF NoError
<1> QED
  BY <1>6, <1>7

\* Nor does the pump.
LEMMA PumpNoError ==
    ASSUME MuxInv, NEW x \in Streams, PumpSteps(x), NEW z \in Streams,
           NoError(z)
    PROVE  NoError(z)'
<1>1. in \in [Streams -> Seq(Frame)] /\ UNCHANGED up
  BY DEF MuxInv, Typed, PumpSteps, PumpFrame, PumpCut, wireVars
<1>2. CASE in'[z] = in[z]
  BY <1>1, <1>2 DEF NoError
<1>3. CASE in'[z] # in[z]
  <2>1. in[z] # <<>> /\ in'[z] = Tail(in[z])
    BY <1>1, <1>3 DEF PumpSteps, PumpFrame, PumpCut
  <2>2. Has(in'[z], "ERROR", z) => Has(in[z], "ERROR", z)
    BY <1>1, <2>1, TailHas
  <2> QED
    BY <1>1, <2>2 DEF NoError
<1> QED
  BY <1>2, <1>3

\* A refusal is no ERROR of a steady stream.
LEMMA OpenNoError ==
    ASSUME MuxInv, HandleOpen, NEW z \in Streams, NoError(z),
           Fates'[z] # "refused"
    PROVE  NoError(z)'
<1>1. down \in Seq(Frame) /\ up \in Seq(Frame)
  BY DEF MuxInv, Typed, TypeOK
<1>2. /\ ~broken /\ down # <<>> /\ Head(down).type = "OPEN"
      /\ down' = Tail(down) /\ UNCHANGED <<in, handler>>
  BY DEF HandleOpen, proxyVars
<1>3. PICK x \in Streams : x = Head(down).stream
  BY <1>1, <1>2, TailAt, FramesAre DEF StreamFrame
<1>4. CASE up' = up
  BY <1>2, <1>4, NoErrorKept, AlikeSelf
<1>5. CASE Emit(<<F("ERROR", x)>>) /\ service' = service
  <2>1. x # z
    <3> SUFFICES ASSUME x = z PROVE FALSE
      OBVIOUS
    <3>1. Has(down, "OPEN", z)
      <4>1. 1 \in 1 .. Len(down) /\ down[1] = Head(down)
        BY <1>1, <1>2, TailAt
      <4> QED
        BY <1>2, <1>3, <4>1 DEF Has, At
    <3>2. /\ service[z].state = "none" /\ handler[z] \notin {"new", "open"}
          /\ OneOpen(down, z)
      BY <3>1 DEF MuxInv, Per, Fresh
    <3>3. ~Has(down', "OPEN", z)
      BY <1>1, <1>2, <1>3, <3>2, TailOwn
    <3>4. ~Waiting(z)'
      BY <1>2, <3>2, <3>3 DEF Waiting, Has, At
    <3> QED
      BY <1>5, <3>2, <3>4 DEF Fates
  <2> QED
    BY <1>2, <1>5, <2>1, EmitNoError DEF StreamFrame
<1> QED
  BY <1>3, <1>4, <1>5 DEF HandleOpen

\* The other answers of the agent: an ERROR is about a service that has reset
\* the connection.
LEMMA AgentNoError ==
    ASSUME MuxInv, NEW z \in Streams, NoError(z), ~broken,
           service'[z].state # "reset",
           HandleData \/ \E x \in Streams : WriteLocal(x) \/ ReaderSteps(x)
    PROVE  NoError(z)'
<1>1. down \in Seq(Frame) /\ up \in Seq(Frame)
  BY DEF MuxInv, Typed, TypeOK
<1>2. UNCHANGED in
  BY DEF HandleData, WriteLocal, ReaderSteps, ReadLocal, ReaderEnds, proxyVars
<1>3. CASE HandleData
  <2>1. /\ ~broken /\ down # <<>> /\ Head(down).type = "DATA"
        /\ UNCHANGED service
    BY <1>3 DEF HandleData
  <2>2. PICK x \in Streams : x = Head(down).stream
    BY <1>1, <2>1, TailAt, FramesAre DEF StreamFrame
  <2>3. CASE up' = up
    BY <1>2, <2>3, NoErrorKept, AlikeSelf
  <2>4. CASE Live(x) /\ writer[x] = "shut" /\ Emit(<<F("ERROR", x)>>)
    <3>1. service[x].state = "reset"
      BY <2>4 DEF MuxInv, Per, Request, Live
    <3>2. x # z
      BY <2>1, <3>1
    <3> QED
      BY <1>2, <2>4, <3>2, EmitNoError DEF StreamFrame
  <2> QED
    BY <1>3, <2>2, <2>3, <2>4 DEF HandleData
<1>4. ASSUME NEW x \in Streams, WriteLocal(x) PROVE NoError(z)'
  <2>1. CASE up' = up
    BY <1>2, <2>1, NoErrorKept, AlikeSelf
  <2>2. CASE /\ service[x].state = "reset" /\ service' = service
             /\ Emit(<<F("ERROR", x)>>)
    <3>1. x # z
      BY <2>2
    <3> QED
      BY <1>2, <2>2, <3>1, EmitNoError DEF StreamFrame
  <2> QED
    BY <1>4, <2>1, <2>2 DEF WriteLocal
<1>5. ASSUME NEW x \in Streams, ReaderSteps(x) PROVE NoError(z)'
  <2>1. \E t \in {"DATA", "CLOSE"} : Emit(<<F(t, x)>>)
    BY <1>5 DEF ReaderSteps, ReadLocal, ReaderEnds
  <2> QED
    BY <1>2, <2>1, EmitNoError DEF StreamFrame
<1> QED
  BY <1>3, <1>4, <1>5

LEMMA StepNoError ==
    ASSUME MuxInv, Next, NEW z \in Streams, Ending(z), Steady(z), Steady(z)'
    PROVE  NoError(z)'
<1>1. /\ NoError(z) /\ ~broken /\ ~broken'
      /\ service'[z].state # "reset" /\ Fates'[z] # "refused"
  BY DEF Ending, Steady
<1>2. ASSUME UNCHANGED <<in, up>> PROVE NoError(z)'
  BY <1>1, <1>2, NoErrorKept, AlikeSelf
<1>3. ASSUME NEW x \in Streams,
             \/ ClientShuts(x) \/ ClientLeaves(x) \/ Alloc(x) \/ HandlerSteps(x)
             \/ SweepClose(x) \/ WriterEnds(x) \/ WriterShuts(x) \/ LocalSteps(x)
      PROVE  NoError(z)'
  <2>1. UNCHANGED <<in, up>>
    BY <1>3
    DEF ClientShuts, ClientLeaves, Alloc, HandlerSteps, SendOpen, SendHead,
        RelayData, RelayEnd, SendClose, AwaitResponse, HandlerFinishes,
        Drained, SweepClose, WriterEnds, WriterShuts, LocalSteps, LocalSends,
        LocalCloses, LocalResets, proxyVars, agentVars, wireVars
  <2> QED
    BY <1>2, <2>1
<1>4. CASE SweepFinish \/ HandleClose \/ SessionEnds
  <2>1. UNCHANGED <<in, up>>
    BY <1>4
    DEF SweepFinish, HandleClose, SessionEnds, proxyVars, agentVars, wireVars
  <2> QED
    BY <1>2, <2>1
<1>5. ASSUME NEW x \in Streams, PumpSteps(x) PROVE NoError(z)'
  BY <1>1, <1>5, PumpNoError
<1>6. ASSUME NEW x \in Streams, WriteLocal(x) \/ ReaderSteps(x)
      PROVE  NoError(z)'
  BY <1>1, <1>6, AgentNoError
<1>7. CASE HandleData
  BY <1>1, <1>7, AgentNoError
<1>8. CASE HandleOpen
  BY <1>1, <1>8, OpenNoError
<1>9. CASE Dispatch
  BY <1>1, <1>9, DispatchNoError
<1>10. CASE DispatchPing \/ Ping
  <2>1. up \in Seq(Frame)
    BY DEF MuxInv, Typed, TypeOK
  <2>2. UNCHANGED in
    BY <1>10 DEF DispatchPing, Ping, proxyVars
  <2>3. CASE DispatchPing
    <3>1. up # <<>> /\ Head(up).type = "PING" /\ up' = Tail(up)
      BY <2>3 DEF DispatchPing
    <3>2. Head(up).stream # z
      BY <2>1, <3>1, TailAt, FramesAre DEF StreamFrame
    <3>3. Alike(up, up', z)
      BY <2>1, <3>1, <3>2, TailOther
    <3> QED
      BY <1>1, <2>2, <3>3, NoErrorKept
  <2>4. CASE Ping
    <3>1. F("PING", Nobody) \in Frame /\ F("PING", Nobody).stream # z
      BY MuxConstants DEF F, Frame, MuxConstants
    <3>2. Alike(up, up', z)
      BY <2>1, <2>4, <3>1, AppendOther DEF Ping
    <3> QED
      BY <1>1, <2>2, <3>2, NoErrorKept
  <2> QED
    BY <1>10, <2>3, <2>4
<1>11. CASE CloseAgent \/ Break
  BY <1>1, <1>11 DEF CloseAgent, Break
<1> QED
  BY <1>3, <1>4, <1>5, <1>6, <1>7, <1>8, <1>9, <1>10, <1>11
  DEF Next, ReadLoop, Session, WriterSteps

LEMMA EndInit ==
    ASSUME Init
    PROVE  EndInv
<1>1. MuxInv
  BY MuxInit
<1>2. ASSUME NEW x \in Streams PROVE Ending(x)
  <2>1. /\ handler[x] = "new" /\ in[x] = <<>> /\ up = <<>> /\ fin = {}
        /\ service[x].state = "none"
    BY DEF Init
  <2> QED
    BY <2>1 DEF Ending, NoError, Has
<1> QED
  BY <1>1, <1>2 DEF EndInv

\* Whoever ends a stream has a reason that both ends could know.
THEOREM EndInvariant == Spec => []EndInv
<1>1. MuxInv /\ MuxInv' /\ EndInv /\ [Next]_vars => EndInv'
  <2> SUFFICES ASSUME MuxInv, MuxInv', EndInv, [Next]_vars,
                      NEW z \in Streams
               PROVE  Ending(z)'
    BY DEF EndInv
  <2>1. Ending(z)
    BY DEF EndInv
  <2>2. CASE UNCHANGED vars
    BY <2>1, <2>2
    DEF vars, proxyVars, agentVars, wireVars, Ending, NoError, Steady, Ended,
        Fates, Waiting
  <2>3. CASE Next
    <3>1. Forward(z)
      BY <2>3, StepForward
    <3>2. Steady(z)' => NoError(z)'
      BY <2>1, <2>3, <3>1, SteadyBefore, StepNoError
    <3> QED
      BY <2>1, <3>1, <3>2 DEF Ending, Forward
  <2> QED
    BY <2>2, <2>3
<1> QED
  BY <1>1, EndInit, MuxInvariant, PTL DEF Spec

-----------------------------------------------------------------------------
(* The relay implements Relay: what each step is to the two ends.          *)

SameRequest(z) ==
    /\ Relayed(z)' = Relayed(z) /\ service'[z].got = service[z].got
    /\ handler'[z] \in Later <=> handler[z] \in Later
    /\ writer'[z] = "shut" <=> writer[z] = "shut"

\* The service has nothing more to send.
Over(z) == service[z].state \in {"closed", "reset"}

SameResponse(z) ==
    /\ service'[z].sent = service[z].sent /\ client'[z].got = client[z].got
    /\ Over(z)' <=> Over(z)
    /\ pump'[z] = pump[z] \/ {pump'[z], pump[z]} \subseteq {"off", "run"}

SameFate(z) ==
    /\ service'[z].state = "none" <=> service[z].state = "none"
    /\ Waiting(z)' <=> Waiting(z)

SameRest ==
    /\ \A z \in Streams :
         /\ client'[z].gone = client[z].gone
         /\ service'[z].state = "reset" <=> service[z].state = "reset"
    /\ UNCHANGED <<broken, swept>>

LEMMA RequestsStay ==
    ASSUME \A z \in Streams : SameRequest(z)
    PROVE  UNCHANGED Requests
BY DEF Requests, SameRequest

LEMMA ResponsesStay ==
    ASSUME \A z \in Streams : SameResponse(z)
    PROVE  UNCHANGED Responses
BY DEF Responses, SameResponse, Ended, Over

LEMMA FatesStay ==
    ASSUME \A z \in Streams : SameFate(z)
    PROVE  UNCHANGED Fates
BY DEF Fates, SameFate

LEMMA RestStays ==
    ASSUME SameRest
    PROVE  UNCHANGED <<Gone, Torn, Resets>>
BY DEF Gone, Torn, Resets, SameRest

LEMMA Moves ==
    ASSUME NEW x \in Streams, NEW v, NEW f, NEW g,
           f = [z \in Streams |-> f[z]], g = [z \in Streams |-> g[z]],
           g[x] = v, \A z \in Streams \ {x} : g[z] = f[z]
    PROVE  g = [f EXCEPT ![x] = v]
OBVIOUS

LEMMA RequestsMove ==
    ASSUME NEW x \in Streams, NEW v, Requests'[x] = v,
           \A z \in Streams \ {x} : SameRequest(z)
    PROVE  Requests' = [Requests EXCEPT ![x] = v]
<1>1. /\ Requests = [z \in Streams |-> Requests[z]]
      /\ Requests' = [z \in Streams |-> Requests'[z]]
  BY DEF Requests
<1>2. \A z \in Streams \ {x} : Requests'[z] = Requests[z]
  BY DEF Requests, SameRequest
<1> QED
  BY <1>1, <1>2, Moves

LEMMA ResponsesMove ==
    ASSUME NEW x \in Streams, NEW v, Responses'[x] = v,
           \A z \in Streams \ {x} : SameResponse(z)
    PROVE  Responses' = [Responses EXCEPT ![x] = v]
<1>1. /\ Responses = [z \in Streams |-> Responses[z]]
      /\ Responses' = [z \in Streams |-> Responses'[z]]
  BY DEF Responses
<1>2. \A z \in Streams \ {x} : Responses'[z] = Responses[z]
  BY DEF Responses, SameResponse, Ended, Over
<1> QED
  BY <1>1, <1>2, Moves

LEMMA FatesMove ==
    ASSUME NEW x \in Streams, NEW v, Fates'[x] = v,
           \A z \in Streams \ {x} : SameFate(z)
    PROVE  Fates' = [Fates EXCEPT ![x] = v]
<1>1. /\ Fates = [z \in Streams |-> Fates[z]]
      /\ Fates' = [z \in Streams |-> Fates'[z]]
  BY DEF Fates
<1>2. \A z \in Streams \ {x} : Fates'[z] = Fates[z]
  BY DEF Fates, SameFate
<1> QED
  BY <1>1, <1>2, Moves

\* Only its OPEN says whether a stream waits.
LEMMA WaitingStays ==
    ASSUME NEW z, handler'[z] \in {"new", "open"} <=> handler[z] \in {"new", "open"},
           Has(down', "OPEN", z) <=> Has(down, "OPEN", z)
    PROVE  Waiting(z)' <=> Waiting(z)
BY DEF Waiting, Has, At

\* Another frame that is sent is no OPEN, or not z's.
LEMMA OpenStays ==
    ASSUME MuxInv, NEW t \in StreamFrame, NEW x \in Streams, NEW z \in Streams,
           Enqueue(F(t, x)), t # "OPEN" \/ x # z
    PROVE  Has(down', "OPEN", z) <=> Has(down, "OPEN", z)
<1> DEFINE f == F(t, x)
           q == Append(down, f)
<1>1. f \in Frame /\ f.type = t /\ f.stream = x
  BY FrameOf
<1>2. down \in Seq(Frame)
  BY DEF MuxInv, Typed, TypeOK
<1> HIDE DEF f
<1>3. Has(q, "OPEN", z) <=> Has(down, "OPEN", z)
  <2>1. CASE x = z
    BY <1>1, <1>2, <2>1, AppendOwn
  <2>2. CASE x # z
    BY <1>1, <1>2, <2>2, AppendOther DEF Alike, StreamFrame
  <2> QED
    BY <2>1, <2>2
<1> HIDE DEF q
<1>4. down' = q \/ down' = down
  BY DEF Enqueue, f, q
<1> QED
  BY <1>3, <1>4

LEMMA OpenLeft ==
    ASSUME MuxInv, down # <<>>, NEW z \in Streams,
           Head(down).type # "OPEN" \/ Head(down).stream # z
    PROVE  Has(Tail(down), "OPEN", z) <=> Has(down, "OPEN", z)
<1> DEFINE q == Tail(down)
<1>1. down \in Seq(Frame)
  BY DEF MuxInv, Typed, TypeOK
<1>2. CASE Head(down).stream = z
  BY <1>1, <1>2, TailOwn
<1>3. CASE Head(down).stream # z
  <2>1. Alike(down, q, z)
    BY <1>1, <1>3, TailOther
  <2> HIDE DEF q
  <2>2. Has(q, "OPEN", z) <=> Has(down, "OPEN", z)
    BY <2>1 DEF Alike, StreamFrame
  <2> QED
    BY <2>2 DEF q
<1> QED
  BY <1>2, <1>3

Follows == R!Next \/ UNCHANGED R!relayVars

LEMMA Stutters ==
    ASSUME \A z \in Streams : SameRequest(z) /\ SameResponse(z) /\ SameFate(z),
           SameRest
    PROVE  Follows
BY RequestsStay, ResponsesStay, FatesStay, RestStays DEF Follows, R!relayVars

\* A step on the way towards the service.
LEMMA AskStep ==
    ASSUME NEW x \in Streams,
           \A z \in Streams \ {x} : SameRequest(z),
           \A z \in Streams : SameResponse(z) /\ SameFate(z), SameRest,
           handler[x] \notin Later, handler'[x] \notin Later,
           Relayed(x)' = Relayed(x) + 1,
           service'[x].got = service[x].got, writer'[x] = writer[x]
    PROVE  Follows
<1>1. Requests'[x] = [Requests[x] EXCEPT !.sent = Requests[x].sent + 1]
  BY DEF Requests
<1>2. ~Requests[x].shut
  BY DEF Requests
<1>3. R!Ask(x)
  BY <1>1, <1>2, RequestsMove, ResponsesStay, FatesStay, RestStays DEF R!Ask
<1> QED
  BY <1>3 DEF Follows, R!Next

LEMMA ShutIs ==
    ASSUME NEW p, NEW q, NEW a, NEW b, NEW c, NEW d, NEW v,
           p = [sent |-> a, got |-> b, shut |-> c, end |-> d],
           q = [sent |-> a, got |-> b, shut |-> v, end |-> d]
    PROVE  q = [p EXCEPT !.shut = v]
OBVIOUS

LEMMA AskedStep ==
    ASSUME NEW x \in Streams,
           \A z \in Streams \ {x} : SameRequest(z),
           \A z \in Streams : SameResponse(z) /\ SameFate(z), SameRest,
           handler[x] \notin Later, handler'[x] \in Later,
           Relayed(x)' = Relayed(x),
           service'[x].got = service[x].got, writer'[x] = writer[x]
    PROVE  Follows
<1>1. Requests'[x] = [Requests[x] EXCEPT !.shut = TRUE]
  <2> DEFINE e == IF writer[x] = "shut" THEN "eof" ELSE "open"
  <2>1. Requests[x] = [sent |-> Relayed(x), got |-> service[x].got,
                       shut |-> Requests[x].shut, end |-> e]
    BY DEF Requests
  <2>2. Requests'[x] = [sent |-> Relayed(x), got |-> service[x].got,
                        shut |-> Requests'[x].shut, end |-> e]
    BY DEF Requests
  <2>3. Requests'[x].shut = TRUE
    BY DEF Requests
  <2> HIDE DEF e
  <2>4. Requests'[x] = [Requests[x] EXCEPT !.shut = Requests'[x].shut]
    BY <2>1, <2>2, ShutIs
  <2> QED
    BY <2>3, <2>4, Zenon
<1>2. ~Requests[x].shut
  BY DEF Requests
<1>3. R!Asked(x)
  BY <1>1, <1>2, RequestsMove, ResponsesStay, FatesStay, RestStays DEF R!Asked
<1> QED
  BY <1>3 DEF Follows, R!Next

LEMMA FateStep ==
    ASSUME NEW x \in Streams,
           \A z \in Streams : SameRequest(z) /\ SameResponse(z),
           \A z \in Streams \ {x} : SameFate(z), SameRest,
           service[x].state = "none", Waiting(x),
           service'[x].state = "none" => ~Waiting(x)'
    PROVE  Follows
<1>1. Fates[x] = "waiting"
  BY DEF Fates
<1>2. CASE service'[x].state = "none"
  <2>1. Fates'[x] = "refused"
    BY <1>2 DEF Fates
  <2>2. R!Refuse(x)
    BY <1>1, <2>1, FatesMove, RequestsStay, ResponsesStay, RestStays
    DEF R!Refuse
  <2> QED
    BY <2>2 DEF Follows, R!Next
<1>3. CASE service'[x].state # "none"
  <2>1. Fates'[x] = "reached"
    BY <1>3 DEF Fates
  <2>2. R!Reach(x)
    BY <1>1, <2>1, FatesMove, RequestsStay, ResponsesStay, RestStays
    DEF R!Reach
  <2> QED
    BY <2>2 DEF Follows, R!Next
<1> QED
  BY <1>2, <1>3

\* The service breaks the connection, or closed it too early.
LEMMA ResetStep ==
    ASSUME NEW x \in Streams,
           \A z \in Streams : SameRequest(z) /\ SameFate(z),
           UNCHANGED <<client, pump, broken, swept>>,
           \A z \in Streams \ {x} : service'[z].state = service[z].state,
           \A z \in Streams : service'[z].sent = service[z].sent,
           service[x].state \notin {"none", "reset"},
           service'[x].state = "reset",
           service[x].state = "open" \/ Requests[x].got < Requests[x].sent,
           service[x] \in ServiceRec
    PROVE  Follows
<1>1. \A z \in Streams \ {x} : SameResponse(z)
  BY DEF SameResponse, Over
<1>2. Responses'[x] = [Responses[x] EXCEPT !.shut = TRUE]
  <2> DEFINE e == Responses[x].end
  <2>1. Responses[x] = [sent |-> service[x].sent, got |-> client[x].got,
                        shut |-> Responses[x].shut, end |-> e]
    BY DEF Responses
  <2>2. Responses'[x] = [sent |-> service[x].sent, got |-> client[x].got,
                         shut |-> Responses'[x].shut, end |-> e]
    BY DEF Responses, Ended
  <2>3. Responses'[x].shut = TRUE
    BY DEF Responses
  <2> HIDE DEF e
  <2>4. Responses'[x] = [Responses[x] EXCEPT !.shut = Responses'[x].shut]
    BY <2>1, <2>2, ShutIs
  <2> QED
    BY <2>3, <2>4, Zenon
<1>3. /\ Fates[x] = "reached" /\ x \notin Resets
      /\ ~Responses[x].shut \/ Requests[x].got < Requests[x].sent
  BY DEF Fates, Resets, Responses, ServiceRec
<1>4. Resets' = Resets \cup {x} /\ UNCHANGED <<Gone, Torn>>
  BY DEF Resets, Gone, Torn
<1>5. R!Reset(x)
  BY <1>1, <1>2, <1>3, <1>4, ResponsesMove, RequestsStay, FatesStay
  DEF R!Reset
<1> QED
  BY <1>5 DEF Follows, R!Next

\* The client and the handler.
LEMMA ClientFollows ==
    ASSUME MuxInv, NEW x \in Streams, ClientShuts(x) \/ ClientLeaves(x)
    PROVE  Follows
<1>1. client \in [Streams -> ClientRec]
  BY DEF MuxInv, Typed, TypeOK, ClientRec
<1>2. UNCHANGED <<handler, pump, swept, service, writer, down, broken>>
  BY DEF ClientShuts, ClientLeaves, proxyVars, agentVars, wireVars
<1>3. \A z \in Streams : /\ client'[z].left = client[z].left
                         /\ client'[z].got = client[z].got
  BY <1>1 DEF ClientShuts, ClientLeaves, ClientRec
<1>4. \A z \in Streams : SameRequest(z) /\ SameResponse(z) /\ SameFate(z)
  BY <1>2, <1>3 DEF SameRequest, SameResponse, SameFate, Relayed, Waiting, Over
<1>5. CASE ClientShuts(x)
  <2>1. SameRest
    BY <1>1, <1>2, <1>5 DEF ClientShuts, ClientRec, SameRest
  <2> QED
    BY <1>4, <2>1, Stutters
<1>6. CASE ClientLeaves(x)
  <2>1. /\ client'[x].gone
        /\ \A z \in Streams \ {x} : client'[z].gone = client[z].gone
    BY <1>1, <1>6 DEF ClientLeaves, ClientRec
  <2>2. Gone' = Gone \cup {x} /\ UNCHANGED <<Torn, Resets>>
    BY <1>2, <2>1 DEF Gone, Torn, Resets
  <2>3. R!Leave(x)
    BY <1>4, <2>2, RequestsStay, ResponsesStay, FatesStay DEF R!Leave
  <2> QED
    BY <2>3 DEF Follows, R!Next
<1> QED
  BY <1>5, <1>6

LEMMA SendOpenFollows ==
    ASSUME MuxInv, NEW x \in Streams, SendOpen(x)
    PROVE  Follows
<1>1. /\ handler \in [Streams -> Handlers] /\ pump \in [Streams -> Pumps]
      /\ Per(x)
  BY DEF MuxInv, Typed, TypeOK, Handlers, Pumps
<1>2. /\ handler[x] = "open" /\ handler' = [handler EXCEPT ![x] = "head"]
      /\ pump' = pump \/ pump' = [pump EXCEPT ![x] = "run"]
      /\ Enqueue(F("OPEN", x))
      /\ UNCHANGED <<client, swept, service, writer, broken>>
  BY DEF SendOpen, Goto, agentVars
<1>3. service[x].state = "none" /\ pump[x] = "off"
  BY <1>1, <1>2 DEF Per, Fresh
<1>4. \A z \in Streams : SameRequest(z)
  BY <1>1, <1>2 DEF SameRequest, Relayed, Early, Later
<1>5. \A z \in Streams : SameResponse(z)
  BY <1>1, <1>2, <1>3 DEF SameResponse, Over
<1>6. \A z \in Streams \ {x} : SameFate(z)
  <2> SUFFICES ASSUME NEW z \in Streams \ {x} PROVE SameFate(z)
    OBVIOUS
  <2>1. Has(down', "OPEN", z) <=> Has(down, "OPEN", z)
    BY <1>2, OpenStays DEF StreamFrame
  <2> QED
    BY <1>1, <1>2, <2>1, WaitingStays DEF SameFate
<1>7. Waiting(x) /\ SameRest
  BY <1>2 DEF Waiting, SameRest
<1>8. CASE Waiting(x)'
  <2>1. SameFate(x)
    BY <1>2, <1>7, <1>8 DEF SameFate
  <2> QED
    BY <1>4, <1>5, <1>6, <1>7, <2>1, Stutters
<1>9. CASE ~Waiting(x)'
  BY <1>3, <1>4, <1>5, <1>6, <1>7, <1>9, FateStep
<1> QED
  BY <1>8, <1>9

\* The head is sent, or a chunk of the request.
LEMMA SendsFollow ==
    ASSUME MuxInv, NEW x \in Streams, SendHead(x) \/ RelayData(x)
    PROVE  Follows
<1>1. /\ handler \in [Streams -> Handlers] /\ pump \in [Streams -> Pumps]
      /\ client \in [Streams -> ClientRec] /\ Per(x) /\ Chunks \in Nat
  BY MuxConstants
  DEF MuxInv, Typed, TypeOK, Handlers, Pumps, ClientRec, MuxConstants
<1>2. /\ Enqueue(F("DATA", x))
      /\ UNCHANGED <<swept, service, writer, broken>>
  BY DEF SendHead, RelayData, agentVars, proxyVars
<1>3. /\ handler[x] \notin Later /\ handler'[x] \notin Later
      /\ handler[x] \notin {"new", "open"} /\ handler'[x] \notin {"new", "open"}
      /\ \A z \in Streams \ {x} : handler'[z] = handler[z]
      /\ \A z \in Streams : \/ pump'[z] = pump[z]
                            \/ {pump'[z], pump[z]} \subseteq {"off", "run"}
  BY <1>1 DEF SendHead, RelayData, Goto, Later, proxyVars
<1>4. /\ \A z \in Streams : /\ client'[z].got = client[z].got
                            /\ client'[z].gone = client[z].gone
      /\ \A z \in Streams \ {x} : client'[z].left = client[z].left
  BY <1>1 DEF SendHead, RelayData, ClientRec
<1>5. Relayed(x)' = Relayed(x) + 1
  <2>1. CASE SendHead(x)
    <3>1. /\ handler[x] = "head" /\ handler'[x] = "relay" /\ client' = client
          /\ client[x].left = Chunks
      BY <1>1, <2>1 DEF SendHead, Goto, Per, Fresh, Early
    <3> QED
      BY <1>1, <3>1 DEF Relayed, Early
  <2>2. CASE RelayData(x)
    <3>1. /\ handler[x] = "relay" /\ handler'[x] = "relay"
          /\ client[x].left \in 0 .. Chunks /\ client[x].left > 0
          /\ client'[x].left = client[x].left - 1
      BY <1>1, <2>2 DEF RelayData, ClientRec, proxyVars
    <3> QED
      BY <1>1, <3>1 DEF Relayed, Early
  <2> QED
    BY <2>1, <2>2
<1>6. \A z \in Streams \ {x} : SameRequest(z)
  BY <1>2, <1>3, <1>4 DEF SameRequest, Relayed
<1>7. \A z \in Streams : SameResponse(z)
  BY <1>2, <1>3, <1>4 DEF SameResponse, Over
<1>8. \A z \in Streams : SameFate(z)
  <2> SUFFICES ASSUME NEW z \in Streams PROVE SameFate(z)
    OBVIOUS
  <2>1. Has(down', "OPEN", z) <=> Has(down, "OPEN", z)
    BY <1>2, OpenStays DEF StreamFrame
  <2> QED
    BY <1>2, <1>3, <2>1, WaitingStays DEF SameFate
<1> QED
  BY <1>2, <1>3, <1>4, <1>5, <1>6, <1>7, <1>8, AskStep DEF SameRest

\* What the handler does besides: only its CLOSE tells the service anything.
LEMMA HandlerFollows ==
    ASSUME MuxInv, NEW x \in Streams,
           \/ Alloc(x) \/ RelayEnd(x) \/ SendClose(x) \/ AwaitResponse(x)
           \/ HandlerFinishes(x) \/ Drained(x)
    PROVE  Follows
<1>1. handler \in [Streams -> Handlers] /\ client \in [Streams -> ClientRec]
  BY DEF MuxInv, Typed, TypeOK, Handlers, ClientRec
<1>2. UNCHANGED <<pump, swept, service, writer, broken>>
  BY DEF Alloc, RelayEnd, SendClose, AwaitResponse, HandlerFinishes, Drained,
         agentVars, wireVars
<1>3. /\ \A z \in Streams : /\ client'[z].got = client[z].got
                            /\ client'[z].gone = client[z].gone
                            /\ client'[z].left = client[z].left
      /\ \A z \in Streams \ {x} : handler'[z] = handler[z]
      /\ handler[x] \in Early <=> handler'[x] \in Early
      /\ handler[x] \in {"new", "open"} <=> handler'[x] \in {"new", "open"}
  BY <1>1
  DEF Alloc, RelayEnd, SendClose, AwaitResponse, HandlerFinishes, Drained,
      Goto, ClientRec, Early
<1>4. \A z \in Streams \ {x} : SameRequest(z)
  BY <1>2, <1>3 DEF SameRequest, Relayed
<1>5. \A z \in Streams : SameResponse(z)
  BY <1>2, <1>3 DEF SameResponse, Over
<1>6. \A z \in Streams : SameFate(z)
  <2> SUFFICES ASSUME NEW z \in Streams PROVE SameFate(z)
    OBVIOUS
  <2>1. CASE SendClose(x)
    <3>1. Has(down', "OPEN", z) <=> Has(down, "OPEN", z)
      BY <2>1, OpenStays DEF SendClose, StreamFrame
    <3> QED
      BY <1>2, <1>3, <3>1, WaitingStays DEF SameFate
  <2>2. CASE ~SendClose(x)
    <3>1. UNCHANGED down
      BY <2>2
      DEF Alloc, RelayEnd, AwaitResponse, HandlerFinishes, Drained, wireVars
    <3> QED
      BY <1>2, <1>3, <3>1, WaitingStays DEF SameFate
  <2> QED
    BY <2>1, <2>2
<1>7. Relayed(x)' = Relayed(x) /\ SameRest
  BY <1>2, <1>3 DEF Relayed, SameRest
<1>8. CASE SendClose(x)
  <2>1. handler[x] \notin Later /\ handler'[x] \in Later
    BY <1>1, <1>8 DEF SendClose, Goto, Later
  <2> QED
    BY <1>2, <1>4, <1>5, <1>6, <1>7, <2>1, AskedStep
<1>9. CASE ~SendClose(x)
  <2>1. handler'[x] \in Later <=> handler[x] \in Later
    BY <1>1, <1>9
    DEF Alloc, RelayEnd, AwaitResponse, HandlerFinishes, Drained, Goto, Later
  <2>2. SameRequest(x)
    BY <1>2, <1>7, <2>1 DEF SameRequest
  <2> QED
    BY <1>4, <1>5, <1>6, <1>7, <2>2, Stutters
<1> QED
  BY <1>8, <1>9

\* A stream that is over has a reason its client could know.
LEMMA FinReason ==
    ASSUME MuxInv, NEW x \in Streams, Ending(x), x \in fin, ~Ended(x)
    PROVE  R!Reason(x)
<1>1. CASE x \in swept \/ closed
  <2>1. x \in Torn
    BY <1>1 DEF Torn, MuxInv, Shared
  <2> QED
    BY <2>1 DEF R!Reason
<1>2. CASE handler[x] \in {"drain", "done"}
  <2>1. handler[x] = "drain"
    BY <1>2 DEF Ending
  <2>2. x \notin Http
    BY <2>1 DEF MuxInv, Per, Outcome
  <2>3. Requests[x].shut
    BY <2>1 DEF Requests, Later
  <2> QED
    BY <2>2, <2>3 DEF R!Reason
<1> QED
  BY <1>1, <1>2 DEF Ending

\* The pump meets an ERROR only for a reason.
LEMMA ErrorReason ==
    ASSUME MuxInv, NEW x \in Streams, Ending(x), pump[x] = "run",
           in[x] # <<>>, Head(in[x]).type = "ERROR"
    PROVE  R!Reason(x)
<1>1. CASE Steady(x)
  <2>1. ~Has(in[x], "ERROR", x)
    BY <1>1 DEF Ending, NoError
  <2>2. in[x] \in Seq(Frame)
    BY Numbers
  <2>3. Head(in[x]).stream = x
    <3>1. 1 \in 1 .. Len(in[x]) /\ Head(in[x]) = in[x][1]
      BY <2>2, TailAt
    <3> QED
      BY <3>1 DEF MuxInv, Per, Response
  <2> QED
    BY <2>1, <2>2, <2>3, TailOwn
<1>2. CASE x \in fin
  BY <1>2, FinReason DEF Ended
<1>3. CASE broken \/ x \in swept
  BY <1>3 DEF R!Reason, Torn
<1>4. CASE Fates[x] = "refused" \/ service[x].state = "reset"
  BY <1>4 DEF R!Reason, Resets
<1> QED
  BY <1>1, <1>2, <1>3, <1>4 DEF Steady

LEMMA PumpFollows ==
    ASSUME MuxInv, MuxInv', NEW x \in Streams, Ending(x), PumpSteps(x)
    PROVE  Follows
<1>1. /\ pump \in [Streams -> Pumps] /\ client \in [Streams -> ClientRec]
  BY DEF MuxInv, Typed, TypeOK, Pumps, ClientRec
<1>2. /\ pump[x] = "run"
      /\ UNCHANGED <<handler, swept, service, writer, down, broken>>
  BY DEF PumpSteps, PumpFrame, PumpCut, agentVars, wireVars
<1>3. /\ \A z \in Streams : /\ client'[z].gone = client[z].gone
                            /\ client'[z].left = client[z].left
      /\ \A z \in Streams \ {x} : /\ client'[z].got = client[z].got
                                  /\ pump'[z] = pump[z]
  <2>1. /\ client' = client \/ client' = [client EXCEPT ![x].got = @ + 1]
        /\ \/ pump' = pump
           \/ \E how \in {"cut", "eof", "err"} : pump' = [pump EXCEPT ![x] = how]
    BY DEF PumpSteps, PumpFrame, PumpCut, PumpEnds
  <2> QED
    BY <1>1, <2>1 DEF ClientRec
<1>4. /\ \A z \in Streams : SameRequest(z) /\ SameFate(z)
      /\ \A z \in Streams \ {x} : SameResponse(z)
      /\ SameRest
  BY <1>2, <1>3
  DEF SameRequest, SameFate, SameResponse, SameRest, Relayed, Waiting, Over
<1>5. UNCHANGED <<Requests, Fates, Gone, Torn, Resets>>
  BY <1>4, RequestsStay, FatesStay, RestStays
<1>6. Responses[x].end = "open"
  BY <1>2 DEF Responses, Ended
<1>7. ASSUME pump'[x] \in {"cut", "err"}, client' = client, R!Reason(x)
      PROVE  Follows
  <2>1. Responses'[x] = [Responses[x] EXCEPT !.end = "cut"]
    BY <1>2, <1>7 DEF Responses, Ended
  <2>2. R!Cut(x)
    BY <1>4, <1>5, <1>6, <1>7, <2>1, ResponsesMove DEF R!Cut
  <2> QED
    BY <2>2 DEF Follows, R!Next
<1>8. CASE PumpCut(x)
  <2>1. pump'[x] = "cut" /\ client' = client /\ x \in fin
    BY <1>1, <1>8 DEF PumpCut, PumpEnds
  <2>2. R!Reason(x)
    BY <1>2, <2>1, FinReason DEF Ended
  <2> QED
    BY <1>7, <2>1, <2>2
<1>9. CASE PumpFrame(x) /\ pump'[x] = "cut" /\ client' = client
  <2>1. x \in fin \/ client[x].gone
    <3>1. Head(in[x]).type = "DATA" /\ pump' # pump
      BY <1>1, <1>2, <1>9 DEF PumpFrame, PumpEnds
    <3> QED
      BY <1>9, <3>1 DEF PumpFrame
  <2>2. R!Reason(x)
    <3>1. CASE x \in fin
      BY <1>2, <3>1, FinReason DEF Ended
    <3>2. CASE client[x].gone
      BY <3>2 DEF R!Reason, Gone
    <3> QED
      BY <2>1, <3>1, <3>2
  <2> QED
    BY <1>7, <1>9, <2>2
<1>10. CASE PumpFrame(x) /\ pump'[x] = "err" /\ client' = client
  <2>1. in[x] # <<>> /\ Head(in[x]).type = "ERROR"
    BY <1>1, <1>2, <1>10 DEF PumpFrame, PumpEnds
  <2>2. R!Reason(x)
    BY <1>2, <2>1, ErrorReason
  <2> QED
    BY <1>7, <1>10, <2>2
<1>11. CASE pump'[x] = "eof" /\ client' = client
  <2>1. Response(x)' /\ Fresh(x)'
    BY DEF MuxInv, Per
  <2>2. \/ service[x].state = "reset"
        \/ client[x].got = service[x].sent /\ service[x].state = "closed"
    BY <1>2, <1>11, <2>1 DEF Response, Fresh
  <2>3. R!Whole(Responses[x]) \/ x \in Resets
    BY <2>2 DEF R!Whole, Responses, Resets
  <2>4. Responses'[x] = [Responses[x] EXCEPT !.end = "eof"]
    BY <1>2, <1>11 DEF Responses, Ended
  <2>5. R!Got(x)
    BY <1>4, <1>5, <1>6, <2>3, <2>4, ResponsesMove DEF R!Got
  <2> QED
    BY <2>5 DEF Follows, R!Next
<1>12. CASE pump' = pump /\ client'[x].got = client[x].got + 1
  <2>1. Response(x)' /\ reader'[x].read <= service'[x].sent
    BY DEF MuxInv, Per, Fresh
  <2>2. /\ client'[x].got \in Nat /\ Cnt(in'[x], x) \in Nat
        /\ Cnt(up', x) \in Nat /\ service'[x].sent \in Nat
        /\ reader'[x].read \in Nat
    <3>1. client' \in [Streams -> ClientRec] /\ Chunks \in Nat
      BY MuxConstants DEF MuxInv, Typed, TypeOK, ClientRec, MuxConstants
    <3>2. service' \in [Streams -> ServiceRec]
      BY DEF MuxInv, Typed, TypeOK, ServiceRec
    <3>3. in' \in [Streams -> Seq(Frame)] /\ up' \in Seq(Frame)
      BY DEF MuxInv, Typed, TypeOK
    <3>4. reader' \in [Streams -> ReaderRec]
      BY DEF MuxInv, Typed, TypeOK, ReaderRec
    <3> QED
      BY <3>1, <3>2, <3>3, <3>4, DataFinite DEF ClientRec, ServiceRec, ReaderRec
  <2>3. client'[x].got <= service'[x].sent /\ client[x].got \in Nat
    <3> DEFINE g == client'[x].got
               c == Cnt(in'[x], x)
               d == Cnt(up', x)
               r == reader'[x].read
               n == service'[x].sent
    <3>1. /\ g \in Nat /\ c \in Nat /\ d \in Nat /\ r \in Nat /\ n \in Nat
          /\ g + c + d <= r /\ r <= n
      BY <2>1, <2>2 DEF Response
    <3> HIDE DEF g, c, d, r, n
    <3>2. g <= n
      BY <3>1
    <3> QED
      BY <3>2, Numbers DEF g, n
  <2>4. Responses[x].got < Responses[x].sent
    BY <1>2, <1>12, <2>2, <2>3 DEF Responses
  <2>5. Responses'[x] = [Responses[x] EXCEPT !.got = Responses[x].got + 1]
    BY <1>2, <1>12 DEF Responses, Ended
  <2>6. R!Get(x)
    BY <1>4, <1>5, <1>6, <2>4, <2>5, ResponsesMove DEF R!Get
  <2> QED
    BY <2>6 DEF Follows, R!Next
<1>13. ASSUME PumpFrame(x)
       PROVE  \/ /\ pump'[x] \in {"cut", "eof", "err"} /\ client' = client
              \/ pump' = pump /\ client'[x].got = client[x].got + 1
  BY <1>1, <1>13 DEF PumpFrame, PumpEnds, ClientRec
<1> QED
  BY <1>8, <1>9, <1>10, <1>11, <1>12, <1>13 DEF PumpSteps

\* A sweep tears one stream down, the break of the socket all of them.
LEMMA TearsFollow ==
    ASSUME MuxInv, Break \/ \E x \in Streams : SweepClose(x)
    PROVE  Follows
<1>1. UNCHANGED <<client, handler, pump, service, writer>>
  BY DEF Break, SweepClose, proxyVars, agentVars
<1>2. \A z \in Streams : Has(down', "OPEN", z) <=> Has(down, "OPEN", z)
  BY OpenStays DEF Break, SweepClose, StreamFrame
<1>3. \A z \in Streams : SameRequest(z) /\ SameResponse(z) /\ SameFate(z)
  BY <1>1, <1>2, WaitingStays
  DEF SameRequest, SameResponse, SameFate, Relayed, Over
<1>4. /\ UNCHANGED <<Requests, Responses, Fates>>
      /\ UNCHANGED <<Gone, Resets>>
  BY <1>1, <1>3, RequestsStay, ResponsesStay, FatesStay DEF Gone, Resets
<1>5. CASE Break
  <2>1. Torn' = Streams
    BY <1>5 DEF Break, Torn
  <2>2. R!TearAll
    BY <1>4, <2>1 DEF R!TearAll
  <2> QED
    BY <2>2 DEF Follows, R!Next
<1>6. ASSUME NEW x \in Streams, SweepClose(x) PROVE Follows
  <2>1. Torn' = Torn \cup {x}
    BY <1>6 DEF SweepClose, Torn
  <2>2. R!Tear(x)
    BY <1>4, <2>1 DEF R!Tear
  <2> QED
    BY <2>2 DEF Follows, R!Next
<1> QED
  BY <1>5, <1>6

\* Steps that neither end notices.
LEMMA QuietFollow ==
    ASSUME MuxInv,
           \/ ReadLoop \/ SweepFinish \/ HandleData \/ HandleClose
           \/ SessionEnds \/ Ping
           \/ \E x \in Streams : WriterEnds(x) \/ ReaderSteps(x)
    PROVE  Follows
<1>1. UNCHANGED <<client, handler, pump, swept, service, broken>>
  BY DEF ReadLoop, Dispatch, DispatchPing, CloseAgent, SweepFinish,
         HandleData, HandleClose, SessionEnds, Ping, WriterEnds, ReaderSteps,
         ReadLocal, ReaderEnds, proxyVars, agentVars, wireVars
<1>2. \A z \in Streams : writer'[z] = "shut" <=> writer[z] = "shut"
  <2>1. CASE UNCHANGED writer
    BY <2>1
  <2>2. ASSUME NEW x \in Streams, WriterEnds(x)
        PROVE  \A z \in Streams : writer'[z] = "shut" <=> writer[z] = "shut"
    BY <2>2 DEF WriterEnds, MuxInv, Typed, TypeOK
  <2> QED
    BY <2>1, <2>2
    DEF ReadLoop, Dispatch, DispatchPing, CloseAgent, SweepFinish,
        HandleData, HandleClose, SessionEnds, Ping, ReaderSteps, ReadLocal,
        ReaderEnds, proxyVars, agentVars, wireVars
<1>3. ASSUME NEW z \in Streams
      PROVE  Has(down', "OPEN", z) <=> Has(down, "OPEN", z)
  <2>1. CASE UNCHANGED down
    BY <2>1
  <2>2. CASE HandleData \/ HandleClose
    <3>1. down # <<>> /\ Head(down).type # "OPEN" /\ down' = Tail(down)
      BY <2>2 DEF HandleData, HandleClose
    <3> QED
      BY <3>1, OpenLeft
  <2>3. CASE DispatchPing
    <3> DEFINE f == F("PONG", Nobody)
    <3>1. f \in Frame /\ f.stream # z
      BY MuxConstants DEF F, Frame, MuxConstants
    <3>2. Enqueue(f)
      BY <2>3 DEF DispatchPing
    <3> HIDE DEF f
    <3>3. Alike(down, down', z)
      BY <3>1, <3>2, EnqueueDoes
    <3> QED
      BY <3>3 DEF Alike, StreamFrame
  <2> QED
    BY <2>1, <2>2, <2>3
    DEF ReadLoop, Dispatch, CloseAgent, SweepFinish, SessionEnds, Ping,
        WriterEnds, ReaderSteps, ReadLocal, ReaderEnds, wireVars
<1>4. \A z \in Streams : SameRequest(z) /\ SameResponse(z) /\ SameFate(z)
  BY <1>1, <1>2, <1>3, WaitingStays
  DEF SameRequest, SameResponse, SameFate, Relayed, Over
<1>5. SameRest
  BY <1>1 DEF SameRest
<1> QED
  BY <1>4, <1>5, Stutters

\* The agent dials the service, or has no slot for the stream.
LEMMA OpenFollows ==
    ASSUME MuxInv, HandleOpen
    PROVE  Follows
<1>1. /\ service \in [Streams -> ServiceRec] 
      /\ writer \in [Streams -> {"off", "run", "hold", "shut"}]
      /\ down \in Seq(Frame)
  BY DEF MuxInv, Typed, TypeOK, ServiceRec
<1>2. /\ down # <<>> /\ Head(down).type = "OPEN" /\ down' = Tail(down)
      /\ UNCHANGED <<client, handler, pump, swept, broken>>
  BY DEF HandleOpen, proxyVars
<1>3. PICK x \in Streams : x = Head(down).stream
  BY <1>1, <1>2, TailAt, FramesAre DEF StreamFrame
<1>4. Has(down, "OPEN", x)
  <2>1. 1 \in 1 .. Len(down) /\ down[1] = Head(down)
    BY <1>1, <1>2, TailAt
  <2> QED
    BY <1>2, <1>3, <2>1 DEF Has, At
<1>5. /\ service[x].state = "none" /\ writer[x] = "off"
      /\ handler[x] \notin {"new", "open"} /\ OneOpen(down, x)
  BY <1>4 DEF MuxInv, Per, Fresh
<1>6. Waiting(x)
  BY <1>4 DEF Waiting, Has, At
<1>7. ~Waiting(x)'
  <2>1. ~Has(down', "OPEN", x)
    BY <1>1, <1>2, <1>3, <1>5, TailOwn
  <2> QED
    BY <1>2, <1>5, <2>1 DEF Waiting, Has, At
<1>8. /\ \A z \in Streams : /\ service'[z].got = service[z].got
                            /\ service'[z].sent = service[z].sent
      /\ \A z \in Streams \ {x} : /\ service'[z] = service[z]
                                  /\ writer'[z] = writer[z]
      /\ service'[x].state \in {"none", "open"} /\ writer'[x] \in {"off", "run"}
  <2>1. \/ /\ service' = [service EXCEPT ![x].state = "open"]
           /\ writer' = [writer EXCEPT ![x] = "run"]
        \/ UNCHANGED <<service, writer>>
    BY <1>3 DEF HandleOpen
  <2>2. CASE UNCHANGED <<service, writer>>
    BY <1>5, <2>2
  <2>3. CASE /\ service' = [service EXCEPT ![x].state = "open"]
             /\ writer' = [writer EXCEPT ![x] = "run"]
    <3>1. service[x] \in ServiceRec
      BY <1>1
    <3>2. /\ service'[x] = [service[x] EXCEPT !.state = "open"]
          /\ \A z \in Streams \ {x} : service'[z] = service[z]
      BY <1>1, <2>3
    <3>3. /\ writer'[x] = "run"
          /\ \A z \in Streams \ {x} : writer'[z] = writer[z]
      BY <1>1, <2>3
    <3>4. /\ service'[x].got = service[x].got
          /\ service'[x].sent = service[x].sent
          /\ service'[x].state = "open"
      BY <3>1, <3>2 DEF ServiceRec
    <3> QED
      BY <3>2, <3>3, <3>4
  <2> QED
    BY <2>1, <2>2, <2>3
<1>9. \A z \in Streams : SameRequest(z) /\ SameResponse(z)
  BY <1>2, <1>5, <1>8 DEF SameRequest, SameResponse, Relayed, Over
<1>10. \A z \in Streams \ {x} : SameFate(z)
  <2> SUFFICES ASSUME NEW z \in Streams \ {x} PROVE SameFate(z)
    OBVIOUS
  <2>1. Has(down', "OPEN", z) <=> Has(down, "OPEN", z)
    BY <1>2, <1>3, OpenLeft
  <2> QED
    BY <1>2, <1>8, <2>1, WaitingStays DEF SameFate
<1>11. SameRest
  BY <1>2, <1>5, <1>8 DEF SameRest
<1> QED
  BY <1>5, <1>6, <1>7, <1>9, <1>10, <1>11, FateStep

\* The service reads a chunk of what was sent to it, or has closed already.
LEMMA HearFollows ==
    ASSUME MuxInv, MuxInv', NEW x \in Streams, WriteLocal(x)
    PROVE  Follows
<1>1. /\ service \in [Streams -> ServiceRec]
      /\ writer \in [Streams -> {"off", "run", "hold", "shut"}]
  BY DEF MuxInv, Typed, TypeOK, ServiceRec
<1>2. UNCHANGED <<client, handler, pump, swept, down, broken>>
  BY DEF WriteLocal, proxyVars
<1>3. /\ \A z \in Streams : /\ service'[z].sent = service[z].sent
                            /\ writer'[z] = "shut" <=> writer[z] = "shut"
      /\ \A z \in Streams \ {x} : /\ service'[z].got = service[z].got
                                  /\ service'[z].state = service[z].state
      /\ writer[x] = "run" /\ service[x].state # "none"
      /\ Over(x)' <=> Over(x)
      /\ service'[x].state # "none"
  BY <1>1 DEF WriteLocal, ServiceRec, Over
<1>4. /\ \A z \in Streams : SameResponse(z) /\ SameFate(z)
      /\ \A z \in Streams \ {x} : SameRequest(z)
      /\ Relayed(x)' = Relayed(x)
  BY <1>2, <1>3
  DEF SameRequest, SameFate, SameResponse, Relayed, Waiting, Over
<1>5. service[x].got < Relayed(x) /\ service[x].got \in Nat
  <2>1. /\ Request(x) /\ inbound[x] > 0
        /\ inbound[x] \in Nat /\ Cnt(down, x) \in Nat
        /\ Relayed(x) \in Nat /\ service[x].got \in Nat
    BY Numbers DEF MuxInv, Per, WriteLocal
  <2> DEFINE n == Cnt(down, x)
             g == service[x].got
             i == inbound[x]
             m == Relayed(x)
  <2>2. /\ n \in Nat /\ g \in Nat /\ i \in Nat /\ m \in Nat
        /\ i > 0 /\ g + i + n <= m
    BY <2>1 DEF Request
  <2> HIDE DEF n, g, i, m
  <2>3. g < m /\ g \in Nat
    BY <2>2
  <2> QED
    BY <2>3 DEF g, m
<1>6. CASE /\ service'[x].state = service[x].state
           /\ service'[x].got = service[x].got
  <2>1. SameRequest(x) /\ SameRest
    BY <1>2, <1>3, <1>4, <1>6 DEF SameRequest, SameRest
  <2> QED
    BY <1>4, <2>1, Stutters
<1>7. CASE /\ service[x].state = "closed" /\ service'[x].state = "reset"
           /\ service'[x].got = service[x].got
  <2>1. SameRequest(x)
    BY <1>2, <1>3, <1>4, <1>7 DEF SameRequest
  <2>2. Requests[x].got < Requests[x].sent
    BY <1>5 DEF Requests
  <2> QED
    BY <1>1, <1>2, <1>3, <1>4, <1>7, <2>1, <2>2, ResetStep
<1>8. CASE /\ service[x].state = "open" /\ service'[x].state = "open"
           /\ service'[x].got = service[x].got + 1
  <2>1. /\ Requests[x].end = "open" /\ Requests[x].got < Requests[x].sent
        /\ ~Responses[x].shut /\ Fates[x] = "reached"
    BY <1>3, <1>5, <1>8 DEF Requests, Responses, Fates
  <2>2. Requests'[x] = [Requests[x] EXCEPT !.got = Requests[x].got + 1]
    BY <1>2, <1>3, <1>4, <1>8 DEF Requests
  <2>3. SameRest
    BY <1>2, <1>3, <1>8 DEF SameRest
  <2>4. R!Hear(x)
    BY <1>4, <2>1, <2>2, <2>3, RequestsMove, ResponsesStay, FatesStay, RestStays
    DEF R!Hear
  <2> QED
    BY <2>4 DEF Follows, R!Next
<1>9. \/ service' = service
      \/ /\ service[x].state \in {"closed", "reset"}
         /\ service'[x].state = "reset" /\ service'[x].got = service[x].got
      \/ /\ service[x].state = "open" /\ service'[x].state = "open"
         /\ service'[x].got = service[x].got + 1
  BY <1>1 DEF WriteLocal, ServiceRec
<1> QED
  BY <1>6, <1>7, <1>8, <1>9

\* The local FIN.
LEMMA HeardFollows ==
    ASSUME MuxInv, NEW x \in Streams, WriterShuts(x)
    PROVE  Follows
<1>1. /\ service[x] \in ServiceRec
      /\ writer \in [Streams -> {"off", "run", "hold", "shut"}]
      /\ Per(x)
  BY Numbers DEF MuxInv, Typed, TypeOK
<1>2. /\ UNCHANGED <<client, handler, pump, swept, down, broken, service>>
      /\ writer[x] = "hold" /\ writer' = [writer EXCEPT ![x] = "shut"]
      /\ reader[x].read > 0 \/ reader[x].state \in {"done", "stopped"}
  BY DEF WriterShuts, proxyVars, wireVars
<1>3. /\ \A z \in Streams : SameResponse(z) /\ SameFate(z)
      /\ \A z \in Streams \ {x} : SameRequest(z)
      /\ SameRest /\ Relayed(x)' = Relayed(x)
  BY <1>1, <1>2
  DEF SameRequest, SameFate, SameResponse, SameRest, Relayed, Waiting, Over
<1>4. /\ service[x].state # "none"
      /\ service[x].sent > 0 \/ service[x].state \in {"closed", "reset"}
  <2>1. /\ service[x].sent \in Nat /\ reader[x].read \in Nat
        /\ reader[x].read <= service[x].sent
    BY <1>1, Numbers DEF Per, Fresh
  <2> QED
    BY <1>1, <1>2, <2>1 DEF Per, Fresh
<1>5. \/ Responses[x].shut
      \/ Responses[x].sent > 0 /\ (R!Whole(Requests[x]) \/ x \in Torn)
  <2>1. CASE service[x].state \in {"closed", "reset"}
    BY <2>1 DEF Responses
  <2>2. CASE service[x].state = "open" /\ (broken \/ x \in swept)
    BY <1>4, <2>2 DEF Responses, Torn
  <2>3. CASE service[x].state = "open" /\ ~broken /\ x \notin swept
    <3>1. x \notin handles /\ inbound[x] = 0
      BY <1>1, <1>2, <2>3 DEF Per, Request
    <3>2. handler[x] \in Later /\ Quiet(down, x)
      BY <1>1, <2>3, <3>1 DEF Per, Request
    <3>3. Cnt(down, x) = 0
      <4>1. ~Has(down, "DATA", x)
        BY <3>2 DEF Quiet, Has, At
      <4> QED
        BY <4>1, NoData, Numbers
    <3>4. service[x].got + inbound[x] + Cnt(down, x) = Relayed(x)
      BY <1>1, <2>3 DEF Per, Request
    <3>5. service[x].got = Relayed(x)
      BY <3>1, <3>3, <3>4, Numbers
    <3> QED
      BY <1>4, <2>3, <3>2, <3>5 DEF R!Whole, Requests, Responses
  <2> QED
    BY <1>1, <1>4, <2>1, <2>2, <2>3 DEF ServiceRec
<1>6. Requests[x].end = "open" /\ Fates[x] = "reached"
  BY <1>2, <1>4 DEF Requests, Fates
<1>7. Requests'[x] = [Requests[x] EXCEPT !.end = "eof"]
  BY <1>1, <1>2, <1>3 DEF Requests
<1>8. R!Heard(x)
  BY <1>3, <1>5, <1>6, <1>7, RequestsMove, ResponsesStay, FatesStay, RestStays
  DEF R!Heard
<1> QED
  BY <1>8 DEF Follows, R!Next

\* The service answers, or ends its side, one way or the other.
LEMMA LocalFollows ==
    ASSUME MuxInv, NEW x \in Streams, LocalSteps(x)
    PROVE  Follows
<1>1. service \in [Streams -> ServiceRec]
  BY DEF MuxInv, Typed, TypeOK, ServiceRec
<1>2. /\ UNCHANGED <<client, handler, pump, swept, down, broken, writer>>
      /\ service[x].state = "open"
  BY DEF LocalSteps, LocalSends, LocalCloses, LocalResets, proxyVars, wireVars
<1>3. /\ \A z \in Streams : service'[z].got = service[z].got
      /\ \A z \in Streams \ {x} : service'[z] = service[z]
      /\ service'[x].state # "none"
  BY <1>1, <1>2
  DEF LocalSteps, LocalSends, LocalCloses, LocalResets, ServiceRec
<1>4. /\ \A z \in Streams : SameRequest(z) /\ SameFate(z)
      /\ \A z \in Streams \ {x} : SameResponse(z)
  BY <1>2, <1>3
  DEF SameRequest, SameFate, SameResponse, Relayed, Waiting, Over
<1>5. Fates[x] = "reached" /\ ~Responses[x].shut
  BY <1>2 DEF Fates, Responses
<1>6. CASE LocalSends(x)
  <2>1. /\ service'[x].state = service[x].state
        /\ service'[x].sent = service[x].sent + 1
    BY <1>1, <1>6 DEF LocalSends, ServiceRec
  <2>2. Responses'[x] = [Responses[x] EXCEPT !.sent = Responses[x].sent + 1]
    BY <1>2, <2>1 DEF Responses, Ended
  <2>3. SameRest
    BY <1>2, <1>3, <2>1 DEF SameRest
  <2>4. R!Answer(x)
    BY <1>4, <1>5, <2>2, <2>3, ResponsesMove, RequestsStay, FatesStay, RestStays
    DEF R!Answer
  <2> QED
    BY <2>4 DEF Follows, R!Next
<1>7. CASE LocalCloses(x)
  <2>1. /\ service'[x].state = "closed"
        /\ service'[x].sent = service[x].sent
    BY <1>1, <1>7 DEF LocalCloses, ServiceRec
  <2> DEFINE e == Responses[x].end
  <2>2. Responses[x] = [sent |-> service[x].sent, got |-> client[x].got,
                        shut |-> Responses[x].shut, end |-> e]
    BY DEF Responses
  <2>3. Responses'[x] = [sent |-> service[x].sent, got |-> client[x].got,
                         shut |-> Responses'[x].shut, end |-> e]
    BY <1>2, <2>1 DEF Responses, Ended
  <2>4. Responses'[x].shut = TRUE
    BY <2>1 DEF Responses
  <2> HIDE DEF e
  <2>5. Responses'[x] = [Responses[x] EXCEPT !.shut = Responses'[x].shut]
    BY <2>2, <2>3, ShutIs
  <2>6. Responses'[x] = [Responses[x] EXCEPT !.shut = TRUE]
    BY <2>4, <2>5, Zenon
  <2>7. SameRest
    BY <1>2, <1>3, <2>1 DEF SameRest
  <2>8. R!Answered(x)
    BY <1>4, <1>5, <2>6, <2>7, ResponsesMove, RequestsStay, FatesStay, RestStays
    DEF R!Answered
  <2> QED
    BY <2>8 DEF Follows, R!Next
<1>8. CASE LocalResets(x)
  <2>1. /\ service'[x].state = "reset"
        /\ service'[x].sent = service[x].sent
    BY <1>1, <1>8 DEF LocalResets, ServiceRec
  <2> QED
    BY <1>1, <1>2, <1>3, <1>4, <2>1, ResetStep
<1> QED
  BY <1>6, <1>7, <1>8 DEF LocalSteps

LEMMA StepFollows ==
    ASSUME EndInv, MuxInv', Next
    PROVE  Follows
<1>1. MuxInv /\ \A x \in Streams : Ending(x)
  BY DEF EndInv
<1>2. ASSUME NEW x \in Streams,
             \/ ClientShuts(x) \/ ClientLeaves(x) \/ Alloc(x)
             \/ HandlerSteps(x)
      PROVE  Follows
  BY <1>1, <1>2, ClientFollows, SendOpenFollows, SendsFollow, HandlerFollows
  DEF HandlerSteps
<1>3. ASSUME NEW x \in Streams, PumpSteps(x) \/ SweepClose(x) PROVE Follows
  BY <1>1, <1>3, PumpFollows, TearsFollow
<1>4. ASSUME NEW x \in Streams,
             WriterSteps(x) \/ ReaderSteps(x) \/ LocalSteps(x)
      PROVE  Follows
  BY <1>1, <1>4, HearFollows, HeardFollows, LocalFollows, QuietFollow
  DEF WriterSteps
<1>5. CASE ReadLoop \/ SweepFinish \/ Session \/ Ping \/ Break
  BY <1>1, <1>5, QuietFollow, TearsFollow, OpenFollows DEF Session
<1> QED
  BY <1>2, <1>3, <1>4, <1>5 DEF Next

LEMMA InitFollows ==
    ASSUME Init
    PROVE  R!Init
<1>1. Chunks \in Nat
  BY MuxConstants DEF MuxConstants
<1>2. ASSUME NEW x \in Streams
      PROVE  /\ Requests[x] = R!Empty /\ Responses[x] = R!Empty
             /\ Fates[x] = "waiting"
  <2>1. /\ Relayed(x) = 0 /\ service[x].got = 0 /\ handler[x] = "new"
        /\ writer[x] = "off" /\ service[x].sent = 0 /\ client[x].got = 0
        /\ service[x].state = "none" /\ pump[x] = "off"
    BY <1>1 DEF Init, Relayed, Early
  <2>2. /\ Requests[x].shut = FALSE /\ Responses[x].shut = FALSE
    <3>1. /\ (handler[x] \in Later) = FALSE
          /\ (service[x].state \in {"closed", "reset"}) = FALSE
      BY <2>1 DEF Later
    <3>2. /\ Requests[x].shut = (handler[x] \in Later)
          /\ Responses[x].shut = (service[x].state \in {"closed", "reset"})
      BY DEF Requests, Responses
    <3> QED
      BY <3>1, <3>2, Zenon
  <2>3. Requests[x] = [sent |-> 0, got |-> 0, shut |-> Requests[x].shut,
                       end |-> "open"]
    BY <2>1 DEF Requests
  <2>4. Responses[x] = [sent |-> 0, got |-> 0, shut |-> Responses[x].shut,
                        end |-> "open"]
    BY <2>1 DEF Responses, Ended
  <2>5. Fates[x] = "waiting"
    BY <2>1 DEF Fates, Waiting
  <2> QED
    BY <2>2, <2>3, <2>4, <2>5, Zenon DEF R!Empty
<1>3. /\ Requests = [x \in Streams |-> Requests[x]]
      /\ Responses = [x \in Streams |-> Responses[x]]
      /\ Fates = [x \in Streams |-> Fates[x]]
  BY DEF Requests, Responses, Fates
<1>4. Gone = {} /\ Torn = {} /\ Resets = {}
  BY DEF Init, Gone, Torn, Resets
<1>5. /\ Requests = [x \in Streams |-> R!Empty]
      /\ Responses = [x \in Streams |-> R!Empty]
      /\ Fates = [x \in Streams |-> "waiting"]
  BY <1>2, <1>3
<1> QED
  BY <1>4, <1>5 DEF R!Init

\* However many connections share the agent's WebSocket, each is as good as a
\* connection of its own to the local service: what one end reads the other has
\* sent, a clean end is behind all of it, and nothing is cut short without a
\* reason (serveHTTP, handleTCP, pumpAgentToClient, ReadLoop and agent.rs).
THEOREM MuxImplementsRelay == Spec => ImplementsRelay
<1>1. Init => R!Init
  BY InitFollows
<1>2. EndInv /\ EndInv' /\ [Next]_vars => [R!Next]_(R!relayVars)
  <2> SUFFICES ASSUME EndInv, EndInv', [Next]_vars PROVE Follows
    BY DEF Follows
  <2>1. CASE UNCHANGED vars
    <3>1. \A z \in Streams : SameRequest(z) /\ SameResponse(z) /\ SameFate(z)
      BY <2>1 DEF vars, proxyVars, agentVars, wireVars, SameRequest,
                  SameResponse, SameFate, Relayed, Waiting, Over
    <3>2. SameRest
      BY <2>1 DEF vars, proxyVars, agentVars, wireVars, SameRest
    <3> QED
      BY <3>1, <3>2, Stutters
  <2>2. CASE Next
    BY <2>2, StepFollows DEF EndInv
  <2> QED
    BY <2>1, <2>2
<1> QED
  BY <1>1, <1>2, EndInvariant, PTL DEF Spec, ImplementsRelay, R!Spec
=============================================================================

-------------------------- MODULE SpiTransfer_proofs --------------------------
(***************************************************************************)
(* The transfers of the SPI driver: the types of its variables, the chip   *)
(* selects, the words of a transfer, and the callbacks.                    *)
(*                                                                         *)
(* TypeCorrect holds with and without CONFIG_SPI_ASYNC; AsyncInv, at the   *)
(* end, is about asynchronous calls, and the rest about a build without    *)
(* them.  CsInv says whose chip is selected; MoveInv counts the words of   *)
(* the transfer under way.  MoveInv needs ChunksNeverShrink: with chunks   *)
(* that get shorter the thread that starts a transfer may write into the   *)
(* TX FIFO for a chunk that is over, and what follows is wrong.            *)
(***************************************************************************)
EXTENDS SpiEm32_proofs, DataInduction, SequenceTheorems

(* Sum and NonEmpty are recursive functions; this is what they compute.     *)
LEMMA SumDef ==
  ASSUME NEW b \in Seq(Nat)
  PROVE  \E s \in [0 .. Len(b) -> Nat] : 
           /\ s[0] = 0 /\ \A i \in 1 .. Len(b) : s[i] = b[i] + s[i - 1]
           /\ Sum(b) = s[Len(b)]
<1> DEFINE n == Len(b)
           F(g) == [i \in 0 .. n |-> IF i = 0 THEN 0 ELSE b[i] + g[i - 1]]
           D == [p \in Nat \X (1 .. n) |-> b[p[2]] + p[1]]
           s == CHOOSE g : g = F(g)
<1>0. n \in Nat /\ \A i \in 1 .. n : b[i] \in Nat
  OBVIOUS
<1>1. D \in [Nat \X (1 .. n) -> Nat]
  BY <1>0
<1>1a. 0 \in Nat
  OBVIOUS
<1>2. PICK f \in [0 .. n -> Nat] : f[0] = 0 /\ \A i \in 1 .. n : f[i] = D[<<f[i - 1], i>>]
  <2>1. n \in Nat
    BY <1>0
  <2> HIDE DEF D, n
  <2>2. PICK f : Steps(Nat, n, 0, D, f)
    BY <2>1, <1>1, <1>1a, StepFunction, Zenon
  <2> QED
    BY <2>2 DEF Steps
<1>3. f = F(f)
  <2>1. ASSUME NEW i \in 1 .. n PROVE f[i] = b[i] + f[i - 1]
    <3>0. i - 1 \in 0 .. n /\ f \in [0 .. n -> Nat]
      BY <1>0, <1>2, <2>1
    <3>1. <<f[i - 1], i>> \in Nat \X (1 .. n)
      <4> HIDE DEF n
      <4> QED
        BY <3>0, <2>1
    <3>2. f[i] = D[<<f[i - 1], i>>]
      BY <1>2, <2>1
    <3> DEFINE p == <<f[i - 1], i>>
    <3>3. D[p] = b[p[2]] + p[1]
      BY <3>1
    <3> QED
      BY <3>2, <3>3
  <2>2. \A i \in 0 .. n : f[i] = IF i = 0 THEN 0 ELSE b[i] + f[i - 1]
    BY <1>0, <1>2, <2>1
  <2>3. f = [i \in 0 .. n |-> f[i]]
    BY <1>2
  <2> QED
    BY <2>2, <2>3
<1>4. s = F(s)
  <2> HIDE DEF F
  <2> QED
    BY <1>3
<1>5. s[0] = 0 /\ \A i \in 1 .. n : s[i] = b[i] + s[i - 1]
  BY <1>0, <1>4
<1>6. Sum(b) = s[n]
  BY DEF Sum
<1> HIDE DEF s
<1>7. \A i \in 0 .. n : s[i] \in Nat
  <2> DEFINE K == {i \in Nat : i <= n => s[i] \in Nat}
  <2>1. 0 \in K
    BY <1>5
  <2>2. ASSUME NEW k \in Nat, k \in K PROVE k + 1 \in K
    <3>1. SUFFICES ASSUME NEW i \in 1 .. n, i = k + 1 PROVE s[i] \in Nat
      BY <1>0
    <3>2. i - 1 = k /\ k <= n
      BY <1>0, <3>1
    <3>3. s[i] = b[i] + s[k] /\ b[i] \in Nat
      BY <1>0, <1>5, <3>2
    <3>4. s[k] \in Nat
      BY <2>2, <3>2
    <3> QED
      BY <3>3, <3>4
  <2> HIDE DEF K
  <2>3. Nat \subseteq K
    BY <2>1, <2>2, SetInduction
  <2> QED
    BY <1>0, <2>3 DEF K
<1>8. s \in [0 .. n -> Nat]
  BY <1>4, <1>7
<1> QED
  BY <1>5, <1>6, <1>8

LEMMA NonEmptyDef ==
  ASSUME NEW b \in Seq(Nat)
  PROVE  \E f \in [0 .. Len(b) -> Seq(Nat)] :
           /\ f[0] = <<>>
           /\ \A i \in 1 .. Len(b) :
                f[i] = f[i - 1] \o (IF b[i] = 0 THEN <<>> ELSE <<b[i]>>)
           /\ NonEmpty(b) = f[Len(b)]
<1> DEFINE n == Len(b)
           G(i) == IF b[i] = 0 THEN <<>> ELSE <<b[i]>>
           F(g) == [i \in 0 .. n |-> IF i = 0 THEN <<>> ELSE g[i - 1] \o G(i)]
           D == [p \in Seq(Nat) \X (1 .. n) |-> p[1] \o G(p[2])]
           s == CHOOSE g : g = F(g)
<1>0. n \in Nat /\ \A i \in 1 .. n : b[i] \in Nat
  OBVIOUS
<1>0a. \A i \in 1 .. n : G(i) \in Seq(Nat)
  BY <1>0
<1> HIDE DEF G
<1>1. D \in [Seq(Nat) \X (1 .. n) -> Seq(Nat)]
  BY <1>0, <1>0a
<1>1a. <<>> \in Seq(Nat)
  OBVIOUS
<1>2. PICK f \in [0 .. n -> Seq(Nat)] :
        f[0] = <<>> /\ \A i \in 1 .. n : f[i] = D[<<f[i - 1], i>>]
  <2>1. n \in Nat
    BY <1>0
  <2> HIDE DEF D, n
  <2>2. PICK f : Steps(Seq(Nat), n, <<>>, D, f)
    BY <2>1, <1>1, <1>1a, StepFunction, Zenon
  <2> QED
    BY <2>2 DEF Steps
<1>3. f = F(f)
  <2>1. ASSUME NEW i \in 1 .. n PROVE f[i] = f[i - 1] \o G(i)
    <3>0. i - 1 \in 0 .. n /\ f \in [0 .. n -> Seq(Nat)]
      BY <1>0, <1>2, <2>1
    <3>1. <<f[i - 1], i>> \in Seq(Nat) \X (1 .. n)
      <4> HIDE DEF n
      <4> QED
        BY <3>0, <2>1
    <3>2. f[i] = D[<<f[i - 1], i>>]
      BY <1>2, <2>1
    <3> DEFINE p == <<f[i - 1], i>>
    <3>3. D[p] = p[1] \o G(p[2])
      BY <3>1
    <3> QED
      BY <3>2, <3>3
  <2>2. \A i \in 0 .. n : f[i] = IF i = 0 THEN <<>> ELSE f[i - 1] \o G(i)
    BY <1>0, <1>2, <2>1
  <2>3. f = [i \in 0 .. n |-> f[i]]
    BY <1>2
  <2> QED
    BY <2>2, <2>3
<1>4. s = F(s)
  <2> HIDE DEF F
  <2> QED
    BY <1>3
<1>5. s[0] = <<>> /\ \A i \in 1 .. n : s[i] = s[i - 1] \o G(i)
  <2> HIDE DEF s
  <2>1. \A i \in 0 .. n : s[i] = IF i = 0 THEN <<>> ELSE s[i - 1] \o G(i)
    BY <1>4, Zenon
  <2>2. 0 \in 0 .. n /\ \A i \in 1 .. n : i \in 0 .. n /\ i # 0
    BY <1>0
  <2> HIDE DEF F, n
  <2> QED
    BY <2>1, <2>2
<1>6. NonEmpty(b) = s[n]
  BY DEF NonEmpty, G
<1> HIDE DEF s
<1>7. \A i \in 0 .. n : s[i] \in Seq(Nat)
  <2> DEFINE K == {i \in Nat : i <= n => s[i] \in Seq(Nat)}
  <2>1. 0 \in K
    BY <1>1a, <1>5, Zenon
  <2>2. ASSUME NEW k \in Nat, k \in K PROVE k + 1 \in K
    <3>1. SUFFICES ASSUME k + 1 <= n PROVE s[k + 1] \in Seq(Nat)
      OBVIOUS
    <3>2. k + 1 \in 1 .. n /\ k + 1 - 1 = k /\ k <= n
      BY <1>0, <3>1
    <3> HIDE DEF n
    <3>3. s[k] \in Seq(Nat)
      BY <1>0a, <2>2, <3>2
    <3>4. ASSUME NEW i \in 1 .. n, i = k + 1 PROVE s[i] \in Seq(Nat)
      <4>1. s[i] = s[i - 1] \o G(i)
        BY <1>5
      <4>2. i - 1 = k
        BY <3>4
      <4>3. s[i - 1] \in Seq(Nat) /\ G(i) \in Seq(Nat)
        BY <1>0a, <3>3, <4>2
      <4> QED
        BY <4>1, <4>3
    <3> QED
      BY <3>2, <3>4
  <2> HIDE DEF K
  <2>3. Nat \subseteq K
    BY <2>1, <2>2, SetInduction
  <2> QED
    BY <1>0, <2>3 DEF K
<1>8. s \in [0 .. n -> Seq(Nat)]
  BY <1>4, <1>7
<1> QED
  BY <1>5, <1>6, <1>8 DEF G

LEMMA SumType ==
  ASSUME NEW b \in Seq(Nat)
  PROVE  Sum(b) \in Nat
<1>1. Len(b) \in 0 .. Len(b)
  OBVIOUS
<1> QED
  BY <1>1, SumDef

LEMMA SumEmpty == Sum(<<>>) = 0
<1>1. <<>> \in Seq(Nat) /\ Len(<<>>) = 0
  OBVIOUS
<1> QED
  BY <1>1, SumDef

LEMMA SumAppend ==
  ASSUME NEW b \in Seq(Nat), NEW x \in Nat
  PROVE  Sum(b \o <<x>>) = Sum(b) + x
<1> DEFINE c == b \o <<x>>
<1>1. /\ c \in Seq(Nat) /\ Len(b) \in Nat /\ Len(c) = Len(b) + 1
      /\ c[Len(b) + 1] = x /\ \A i \in 1 .. Len(b) : c[i] = b[i]
  OBVIOUS
<1>2. PICK s \in [0 .. Len(b) -> Nat] :
        /\ s[0] = 0 /\ \A i \in 1 .. Len(b) : s[i] = b[i] + s[i - 1]
        /\ Sum(b) = s[Len(b)]
  BY SumDef
<1> HIDE DEF c
<1>3. PICK z \in [0 .. Len(c) -> Nat] :
        /\ z[0] = 0 /\ \A i \in 1 .. Len(c) : z[i] = c[i] + z[i - 1]
        /\ Sum(c) = z[Len(c)]
  BY <1>1, SumDef
<1> DEFINE K == {i \in Nat : i <= Len(b) => z[i] = s[i]}
<1>4. 0 \in K
  BY <1>2, <1>3
<1>5. ASSUME NEW k \in Nat, k \in K PROVE k + 1 \in K
  <2>1. SUFFICES ASSUME NEW i \in 1 .. Len(b), i = k + 1 PROVE z[i] = s[i]
    BY <1>1
  <2>2. i - 1 = k /\ k <= Len(b) /\ i \in 1 .. Len(c)
    BY <1>1, <2>1
  <2>3. z[i] = c[i] + z[i - 1] /\ s[i] = b[i] + s[i - 1] /\ c[i] = b[i]
    BY <1>1, <1>2, <1>3, <2>2
  <2> QED
    BY <1>5, <2>2, <2>3
<1> HIDE DEF K
<1>6. Nat \subseteq K
  BY <1>4, <1>5, SetInduction
<1>7. z[Len(b)] = s[Len(b)]
  BY <1>1, <1>6 DEF K
<1>8. ASSUME NEW i \in 1 .. Len(c), i = Len(b) + 1 PROVE z[i] = x + z[Len(b)]
  <2>1. z[i] = c[i] + z[i - 1]
    BY <1>3
  <2>2. i - 1 = Len(b) /\ c[i] = x
    BY <1>1, <1>8
  <2> QED
    BY <2>1, <2>2
<1>9. Sum(c) = x + z[Len(b)]
  <2>1. Len(c) \in 1 .. Len(c)
    BY <1>1
  <2> QED
    BY <1>1, <1>3, <1>8, <2>1
<1>10. z[Len(b)] \in Nat
  BY <1>1, <1>3
<1> QED
  BY <1>2, <1>7, <1>9, <1>10 DEF c

LEMMA SumTail ==
  ASSUME NEW b \in Seq(Nat), b # <<>>
  PROVE  Sum(b) = Head(b) + Sum(Tail(b))
<1> DEFINE c == Tail(b)
           h == Head(b)
<1>1. /\ c \in Seq(Nat) /\ Len(c) \in Nat /\ Len(b) = Len(c) + 1 /\ h \in Nat
      /\ b[1] = h /\ \A i \in 1 .. Len(c) : c[i] = b[i + 1]
  OBVIOUS
<1>2. PICK s \in [0 .. Len(b) -> Nat] :
        /\ s[0] = 0 /\ \A i \in 1 .. Len(b) : s[i] = b[i] + s[i - 1]
        /\ Sum(b) = s[Len(b)]
  BY SumDef
<1> HIDE DEF c, h
<1>3. PICK z \in [0 .. Len(c) -> Nat] :
        /\ z[0] = 0 /\ \A i \in 1 .. Len(c) : z[i] = c[i] + z[i - 1]
        /\ Sum(c) = z[Len(c)]
  BY <1>1, SumDef
<1> DEFINE K == {i \in Nat : i <= Len(c) => s[i + 1] = h + z[i]}
<1>4. 0 \in K
  <2>1. 1 \in 1 .. Len(b) /\ 1 - 1 = 0 /\ 0 + 1 = 1
    BY <1>1
  <2>2. s[1] = b[1] + s[0]
    BY <1>2, <2>1
  <2> QED
    BY <1>1, <1>2, <1>3, <2>1, <2>2
<1>5. ASSUME NEW k \in Nat, k \in K PROVE k + 1 \in K
  <2>1. SUFFICES ASSUME NEW i \in 1 .. Len(c), i = k + 1 PROVE s[i + 1] = h + z[i]
    BY <1>1
  <2>2. i - 1 = k /\ k <= Len(c) /\ i \in Nat
    BY <1>1, <2>1
  <2>3. z[i] = c[i] + z[i - 1] /\ c[i] = b[i + 1]
    BY <1>1, <1>3
  <2>4. ASSUME NEW j \in 1 .. Len(b), j = i + 1 PROVE s[j] = b[j] + s[i]
    <3>1. s[j] = b[j] + s[j - 1] /\ j - 1 = i
      BY <1>2, <2>2, <2>4
    <3> QED
      BY <3>1
  <2>5. s[i + 1] = b[i + 1] + s[i]
    BY <1>1, <2>2, <2>4
  <2>6. s[i] = h + z[i - 1]
    BY <1>5, <2>1, <2>2
  <2>7. i - 1 \in 0 .. Len(c) /\ i + 1 \in 1 .. Len(b)
    BY <1>1
  <2>8. z[i - 1] \in Nat
    BY <1>3, <2>7
  <2>9. \A j \in 1 .. Len(b) : b[j] \in Nat
    OBVIOUS
  <2> QED
    BY <1>1, <2>3, <2>5, <2>6, <2>7, <2>8, <2>9
<1> HIDE DEF K
<1>6. Nat \subseteq K
  BY <1>4, <1>5, SetInduction
<1>7. s[Len(c) + 1] = h + z[Len(c)]
  BY <1>1, <1>6 DEF K
<1> QED
  BY <1>1, <1>2, <1>3, <1>7 DEF c, h

LEMMA NonEmptyType ==
  ASSUME NEW b \in Seq(Nat)
  PROVE  NonEmpty(b) \in Seq(Nat) /\ Sum(NonEmpty(b)) = Sum(b)
<1>1. PICK s \in [0 .. Len(b) -> Nat] :
        /\ s[0] = 0 /\ \A i \in 1 .. Len(b) : s[i] = b[i] + s[i - 1]
        /\ Sum(b) = s[Len(b)]
  BY SumDef
<1>2. PICK f \in [0 .. Len(b) -> Seq(Nat)] :
        /\ f[0] = <<>>
        /\ \A i \in 1 .. Len(b) : f[i] = f[i - 1] \o (IF b[i] = 0 THEN <<>> ELSE <<b[i]>>)
        /\ NonEmpty(b) = f[Len(b)]
  BY NonEmptyDef
<1>3. Len(b) \in Nat /\ \A i \in 1 .. Len(b) : b[i] \in Nat
  OBVIOUS
<1> DEFINE K == {i \in Nat : i <= Len(b) => Sum(f[i]) = s[i]}
<1>4. 0 \in K
  BY <1>1, <1>2, SumEmpty
<1>5. ASSUME NEW k \in Nat, k \in K PROVE k + 1 \in K
  <2>1. SUFFICES ASSUME NEW i \in 1 .. Len(b), i = k + 1 PROVE Sum(f[i]) = s[i]
    BY <1>3
  <2>2. i - 1 = k /\ k <= Len(b) /\ i - 1 \in 0 .. Len(b)
    BY <1>3, <2>1
  <2>3. s[i] = b[i] + s[i - 1] /\ f[i - 1] \in Seq(Nat) /\ s[i - 1] \in Nat
    BY <1>1, <1>2, <2>2
  <2>4. Sum(f[i - 1]) = s[i - 1]
    BY <1>5, <2>2
  <2>5. f[i] = f[i - 1] \o (IF b[i] = 0 THEN <<>> ELSE <<b[i]>>)
    BY <1>2
  <2>6. CASE b[i] = 0
    <3>1. f[i] = f[i - 1]
      BY <2>3, <2>5, <2>6
    <3> QED
      BY <2>3, <2>4, <2>6, <3>1
  <2>7. CASE b[i] # 0
    <3>1. f[i] = f[i - 1] \o <<b[i]>>
      BY <2>5, <2>7
    <3>2. b[i] \in Nat
      BY <1>3
    <3>3. Sum(f[i]) = Sum(f[i - 1]) + b[i]
      BY <2>3, <3>1, <3>2, SumAppend
    <3> QED
      BY <2>3, <2>4, <3>2, <3>3
  <2> QED
    BY <2>6, <2>7
<1> HIDE DEF K
<1>6. Nat \subseteq K
  BY <1>4, <1>5, SetInduction
<1>7. Len(b) \in K /\ Len(b) \in 0 .. Len(b)
  BY <1>3, <1>6
<1> QED
  BY <1>1, <1>2, <1>7 DEF K

-----------------------------------------------------------------------------
(* Chunks.  Left is the number of words still to be exchanged: the longer    *)
(* side counts.                                                             *)

IsBufs(x) == x.tx \in Seq(Nat) /\ x.rx \in Seq(Nat)

Left(x) == Greater(Sum(x.tx), Sum(x.rx))

LEMMA UpdateType ==
  ASSUME NEW b \in Seq(Nat), NEW n \in Nat
  PROVE  Update(b, n) \in Seq(Nat)
<1>1. CASE b = <<>> \/ n > Head(b)
  BY <1>1 DEF Update
<1>2. CASE b # <<>> /\ ~ (n > Head(b))
  <2>1. Head(b) \in Nat /\ Tail(b) \in Seq(Nat)
    BY <1>2
  <2>2. CASE n = Head(b)
    BY <1>2, <2>1, <2>2 DEF Update
  <2>3. CASE n < Head(b)
    <3>1. Update(b, n) = <<Head(b) - n>> \o Tail(b)
      BY <1>2, <2>1, <2>3 DEF Update
    <3>2. Head(b) - n \in Nat
      BY <2>1, <2>3
    <3> QED
      BY <2>1, <3>1, <3>2
  <2> QED
    BY <1>2, <2>1, <2>2, <2>3
<1> QED
  BY <1>1, <1>2

(* An update by no more than the first buffer takes as many words away.     *)
LEMMA UpdateSum ==
  ASSUME NEW b \in Seq(Nat), NEW n \in Nat, b # <<>> => n <= Head(b)
  PROVE  /\ b = <<>> => Sum(b) = 0 /\ Sum(Update(b, n)) = 0
         /\ b # <<>> => Sum(b) = n + Sum(Update(b, n))
<1>1. CASE b = <<>>
  BY <1>1, SumEmpty DEF Update
<1>2. CASE b # <<>>
  <2>1. /\ Head(b) \in Nat /\ Tail(b) \in Seq(Nat) /\ n <= Head(b)
        /\ Sum(b) = Head(b) + Sum(Tail(b)) /\ Sum(Tail(b)) \in Nat
    <3>1. Head(b) \in Nat /\ Tail(b) \in Seq(Nat) /\ n <= Head(b)
      BY <1>2
    <3> QED
      BY <1>2, <3>1, SumTail, SumType
  <2>2. CASE n = Head(b)
    <3>1. Update(b, n) = Tail(b)
      BY <1>2, <2>1, <2>2 DEF Update
    <3> QED
      BY <1>2, <2>1, <2>2, <3>1
  <2>3. CASE n < Head(b)
    <3> DEFINE h == Head(b) - n
               c == <<h>> \o Tail(b)
    <3>1. Update(b, n) = c
      BY <1>2, <2>1, <2>3 DEF Update
    <3>2. h \in Nat
      BY <2>1, <2>3
    <3>3. c \in Seq(Nat) /\ c # <<>> /\ Head(c) = h /\ Tail(c) = Tail(b)
      <4> DEFINE d == Tail(b)
      <4>1. d \in Seq(Nat) /\ c = <<h>> \o d
        BY <2>1
      <4> HIDE DEF d, h, c
      <4>2. c \in Seq(Nat) /\ Len(c) = Len(d) + 1 /\ Len(d) \in Nat
        BY <3>2, <4>1
      <4>3. c[1] = h /\ \A i \in 1 .. Len(d) : c[i + 1] = d[i]
        BY <3>2, <4>1
      <4>4. c # <<>> /\ Head(c) = h
        BY <4>2, <4>3
      <4>5. Tail(c) \in Seq(Nat) /\ Len(Tail(c)) = Len(d)
            /\ \A i \in 1 .. Len(d) : Tail(c)[i] = c[i + 1]
        BY <4>2, <4>4
      <4>6. Tail(c) = d
        BY <4>1, <4>3, <4>5, SeqEqual
      <4> QED
        BY <4>2, <4>4, <4>6 DEF d
    <3>4. Sum(c) = h + Sum(Tail(b))
      <4> HIDE DEF c
      <4> QED
        BY <3>3, SumTail
    <3> QED
      BY <1>2, <2>1, <3>1, <3>4
  <2> QED
    BY <2>1, <2>2, <2>3
<1> QED
  BY <1>1, <1>2

(* A chunk fits in the first buffer on either side.                         *)
LEMMA ChunkFits ==
  ASSUME NEW x, IsBufs(x)
  PROVE  /\ Chunk(x) \in Nat
         /\ x.tx # <<>> => Chunk(x) <= Head(x.tx)
         /\ x.rx # <<>> => Chunk(x) <= Head(x.rx)
         /\ ~Ongoing(x) => Chunk(x) = 0
<1>1. /\ x.tx # <<>> => Head(x.tx) \in Nat
      /\ x.rx # <<>> => Head(x.rx) \in Nat
  BY DEF IsBufs
<1> QED
  BY <1>1 DEF Chunk, Lesser, Ongoing

LEMMA LeftType ==
  ASSUME NEW x, IsBufs(x)
  PROVE  Left(x) \in Nat /\ (~Ongoing(x) => Left(x) = 0)
<1>1. Sum(x.tx) \in Nat /\ Sum(x.rx) \in Nat
  BY SumType DEF IsBufs
<1> QED
  BY <1>1, SumEmpty DEF Left, Greater, Ongoing

(* A finished chunk is what is left less.                                   *)
LEMMA ChunkLeft ==
  ASSUME NEW x, IsBufs(x), Ongoing(x),
         NEW y, y.tx = Update(x.tx, Chunk(x)), y.rx = Update(x.rx, Chunk(x))
  PROVE  IsBufs(y) /\ Left(x) = Chunk(x) + Left(y)
<1> DEFINE n == Chunk(x)
<1>1. /\ n \in Nat /\ x.tx \in Seq(Nat) /\ x.rx \in Seq(Nat)
      /\ x.tx # <<>> => n <= Head(x.tx)
      /\ x.rx # <<>> => n <= Head(x.rx)
  BY ChunkFits DEF IsBufs
<1>2. x.tx # <<>> \/ x.rx # <<>>
  BY DEF Ongoing
<1>3. y.tx = Update(x.tx, n) /\ y.rx = Update(x.rx, n)
  OBVIOUS
<1> HIDE DEF n
<1>4. y.tx \in Seq(Nat) /\ y.rx \in Seq(Nat)
  BY <1>1, <1>3, UpdateType
<1>5. /\ Sum(x.tx) \in Nat /\ Sum(x.rx) \in Nat
      /\ Sum(y.tx) \in Nat /\ Sum(y.rx) \in Nat
  BY <1>1, <1>4, SumType
<1>6. /\ x.tx = <<>> => Sum(x.tx) = 0 /\ Sum(y.tx) = 0
      /\ x.tx # <<>> => Sum(x.tx) = n + Sum(y.tx)
  BY <1>1, <1>3, UpdateSum
<1>7. /\ x.rx = <<>> => Sum(x.rx) = 0 /\ Sum(y.rx) = 0
      /\ x.rx # <<>> => Sum(x.rx) = n + Sum(y.rx)
  BY <1>1, <1>3, UpdateSum
<1>8. Left(x) = n + Left(y)
  BY <1>1, <1>2, <1>5, <1>6, <1>7 DEF Left, Greater
<1> QED
  BY <1>4, <1>8 DEF IsBufs, n

-----------------------------------------------------------------------------
(* Types.                                                                   *)

ThreadType == [pc : Pcs, cfg : Cfg \cup {Boot}, async : BOOLEAN, ret : Rets]
LoopType == [n : Nat, i : 0 .. Depth]
XferType == [who : Thread \cup {Boot}, tx : Seq(Nat), rx : Seq(Nat),
             txCount : Nat, rxCount : Nat, words : Nat, want : Nat]

(* What reading the RX FIFO does to the transfer, field by field.           *)
LEMMA AfterReadIs ==
  ASSUME xfer \in XferType, rxf \in Nat,
         NEW r, r = AfterRead, NEW n, n = Chunk(xfer)
  PROVE  /\ r.taken = IF xfer.rxCount < n THEN Lesser(rxf, n - xfer.rxCount) ELSE 0
         /\ r.taken \in 0 .. rxf
         /\ r.xfer \in XferType
         /\ r.xfer.who = xfer.who /\ r.xfer.want = xfer.want
         /\ r.xfer.words = xfer.words + r.taken
         /\ r.done \in BOOLEAN
         /\ \/ /\ ~(n > 0 /\ xfer.txCount >= n /\ xfer.rxCount + r.taken >= n)
               /\ ~r.done
               /\ r.xfer.tx = xfer.tx /\ r.xfer.rx = xfer.rx
               /\ r.xfer.txCount = xfer.txCount
               /\ r.xfer.rxCount = xfer.rxCount + r.taken
            \/ /\ n > 0 /\ xfer.txCount >= n /\ xfer.rxCount + r.taken >= n
               /\ r.xfer.tx = Update(xfer.tx, n) /\ r.xfer.rx = Update(xfer.rx, n)
               /\ \/ r.done /\ ~Ongoing(r.xfer) /\ r.xfer.txCount = xfer.txCount
                  \/ ~r.done /\ Ongoing(r.xfer) /\ r.xfer.txCount = 0 /\ r.xfer.rxCount = 0
<1> DEFINE k == IF xfer.rxCount < n THEN Lesser(rxf, n - xfer.rxCount) ELSE 0
           x == [xfer EXCEPT !.rxCount = @ + k, !.words = @ + k]
           y == [x EXCEPT !.tx = Update(@, n), !.rx = Update(@, n)]
           z == [y EXCEPT !.txCount = 0, !.rxCount = 0]
<1>1. n \in Nat
  BY ChunkFits DEF IsBufs, XferType
<1>2. k \in 0 .. rxf
  BY <1>1 DEF Lesser, XferType
<1>3. /\ r.taken = k
      /\ r.done = (Finished(x, n) /\ ~Ongoing(y))
      /\ r.xfer = CASE ~Finished(x, n) -> x
                    [] Finished(x, n) /\ Ongoing(y) -> z
                    [] Finished(x, n) /\ ~Ongoing(y) -> y
  BY DEF AfterRead, NextChunk
<1> HIDE DEF k
<1>4. /\ x \in XferType
      /\ x.who = xfer.who /\ x.want = xfer.want /\ x.words = xfer.words + k
      /\ x.tx = xfer.tx /\ x.rx = xfer.rx
      /\ x.txCount = xfer.txCount /\ x.rxCount = xfer.rxCount + k
  <2>1. xfer.rxCount + k \in Nat /\ xfer.words + k \in Nat
    BY <1>2 DEF XferType
  <2>2. x = [who |-> xfer.who, tx |-> xfer.tx, rx |-> xfer.rx, txCount |-> xfer.txCount,
             rxCount |-> xfer.rxCount + k, words |-> xfer.words + k, want |-> xfer.want]
    <3> DEFINE a == xfer.rxCount + k
               b == xfer.words + k
    <3>1. x = [xfer EXCEPT !.rxCount = a, !.words = b]
      BY DEF XferType
    <3> HIDE DEF a, b, x
    <3>2. x = [who |-> xfer.who, tx |-> xfer.tx, rx |-> xfer.rx, txCount |-> xfer.txCount,
               rxCount |-> a, words |-> b, want |-> xfer.want]
      BY <3>1 DEF XferType
    <3> QED
      BY <3>2 DEF a, b
  <2> HIDE DEF x
  <2>3. xfer.who \in Thread \cup {Boot} /\ xfer.tx \in Seq(Nat) /\ xfer.rx \in Seq(Nat)
        /\ xfer.txCount \in Nat /\ xfer.want \in Nat
    BY DEF XferType
  <2> QED
    BY <2>1, <2>2, <2>3 DEF XferType
<1> HIDE DEF x
<1>5. Update(xfer.tx, n) \in Seq(Nat) /\ Update(xfer.rx, n) \in Seq(Nat)
  BY <1>1, UpdateType DEF XferType
<1>6. /\ y \in XferType
      /\ y.who = xfer.who /\ y.want = xfer.want /\ y.words = xfer.words + k
      /\ y.tx = Update(xfer.tx, n) /\ y.rx = Update(xfer.rx, n)
      /\ y.txCount = xfer.txCount /\ y.rxCount = xfer.rxCount + k
  BY <1>4, <1>5 DEF XferType
<1> HIDE DEF y
<1>7. /\ z \in XferType
      /\ z.who = xfer.who /\ z.want = xfer.want /\ z.words = xfer.words + k
      /\ z.tx = Update(xfer.tx, n) /\ z.rx = Update(xfer.rx, n)
      /\ z.txCount = 0 /\ z.rxCount = 0
  BY <1>6 DEF XferType
<1> HIDE DEF z
<1>8. Finished(x, n) <=> n > 0 /\ xfer.txCount >= n /\ xfer.rxCount + k >= n
  BY <1>1, <1>2, <1>4 DEF Finished, Lesser, XferType
<1>9. Ongoing(z) <=> Ongoing(y)
  BY <1>6, <1>7 DEF Ongoing
<1>10. r.done \in BOOLEAN /\ r.taken \in 0 .. rxf
  BY <1>2, <1>3
<1>11. r.taken = IF xfer.rxCount < n THEN Lesser(rxf, n - xfer.rxCount) ELSE 0
  BY <1>3 DEF k
<1>12. CASE ~Finished(x, n)
  <2>1. r.xfer = x /\ ~r.done
    BY <1>3, <1>12
  <2> QED
    BY <1>3, <1>4, <1>8, <1>10, <1>11, <1>12, <2>1
<1>13. CASE Finished(x, n) /\ Ongoing(y)
  <2>1. r.xfer = z /\ ~r.done
    BY <1>3, <1>13
  <2> QED
    BY <1>3, <1>7, <1>8, <1>9, <1>10, <1>11, <1>13, <2>1
<1>14. CASE Finished(x, n) /\ ~Ongoing(y)
  <2>1. r.xfer = y /\ r.done
    BY <1>3, <1>14
  <2> QED
    BY <1>3, <1>6, <1>8, <1>10, <1>11, <1>14, <2>1
<1> QED
  BY <1>12, <1>13, <1>14

IsrType == [pc : {"none", "fill", "clear"}, n : Nat, i : 0 .. Depth]

LEMMA GotoType ==
  ASSUME th \in [Thread -> ThreadType], NEW t \in Thread, NEW pc \in Pcs, Goto(t, pc)
  PROVE  /\ th' \in [Thread -> ThreadType]
         /\ th'[t].pc = pc /\ th'[t].cfg = th[t].cfg /\ th'[t].async = th[t].async
         /\ th'[t].ret = th[t].ret
         /\ \A u \in Thread \ {t} : th'[u] = th[u]
<1> DEFINE r == [th[t] EXCEPT !.pc = pc]
<1>1. th' = [th EXCEPT ![t] = r]
  BY DEF Goto
<1>2. th[t] \in ThreadType
  OBVIOUS
<1>3. /\ r \in ThreadType /\ r.pc = pc /\ r.cfg = th[t].cfg /\ r.async = th[t].async
      /\ r.ret = th[t].ret
  BY <1>2 DEF ThreadType
<1> HIDE DEF r
<1> QED
  BY <1>1, <1>3

LEMMA ReturnType ==
  ASSUME th \in [Thread -> ThreadType], NEW t \in Thread, NEW pc \in Pcs, NEW ret \in Rets,
         Return(t, pc, ret)
  PROVE  /\ th' \in [Thread -> ThreadType]
         /\ th'[t].pc = pc /\ th'[t].cfg = th[t].cfg /\ th'[t].async = th[t].async
         /\ th'[t].ret = ret
         /\ \A u \in Thread \ {t} : th'[u] = th[u]
<1> DEFINE r == [th[t] EXCEPT !.pc = pc, !.ret = ret]
<1>1. th' = [th EXCEPT ![t] = r]
  BY DEF Return
<1>2. th[t] \in ThreadType
  OBVIOUS
<1>3. /\ r \in ThreadType /\ r.pc = pc /\ r.cfg = th[t].cfg /\ r.async = th[t].async
      /\ r.ret = ret
  BY <1>2 DEF ThreadType
<1> HIDE DEF r
<1> QED
  BY <1>1, <1>3

LEMMA CallType ==
  ASSUME th \in [Thread -> ThreadType], NEW t \in Thread, Call(t)
  PROVE  /\ th' \in [Thread -> ThreadType]
         /\ \E c \in CfgOf[t], a \in CallModes :
              /\ holds[t] # Boot => c = holds[t]
              /\ th'[t].pc = "lock" /\ th'[t].cfg = c /\ th'[t].async = a
              /\ th'[t].ret = th[t].ret
         /\ \A u \in Thread \ {t} : th'[u] = th[u]
<1>1. PICK c \in CfgOf[t], a \in CallModes :
        /\ holds[t] # Boot => c = holds[t]
        /\ th' = [th EXCEPT ![t].pc = "lock", ![t].cfg = c, ![t].async = a]
  BY DEF Call
<1>2. c \in Cfg /\ a \in BOOLEAN /\ "lock" \in Pcs
  BY ClientAssumption DEF Pcs
<1> DEFINE r == [th[t] EXCEPT !.pc = "lock", !.cfg = c, !.async = a]
<1>3. th' = [th EXCEPT ![t] = r]
  BY <1>1
<1>4. th[t] \in ThreadType
  OBVIOUS
<1>5. r \in ThreadType /\ r.pc = "lock" /\ r.cfg = c /\ r.async = a /\ r.ret = th[t].ret
  BY <1>2, <1>4 DEF ThreadType
<1> HIDE DEF r
<1> QED
  BY <1>1, <1>3, <1>5

(* TypeOK, with the record types by name.                                   *)
Types ==
  /\ th \in [Thread -> ThreadType] /\ loop \in [Thread -> LoopType]
  /\ lock \in {0, 1} /\ owner \in Cfg \cup {Boot} /\ config \in Cfg \cup {Boot}
  /\ sync \in {0, 1} /\ syncStatus \in {"ok", "io"}
  /\ asynchronous \in BOOLEAN /\ callback \in Thread \cup {Boot}
  /\ xfer \in XferType /\ isr \in IsrType
  /\ imsc \in BOOLEAN /\ ror \in BOOLEAN
  /\ txf \in 0 .. Depth /\ rxf \in 0 .. Depth
  /\ cs \in [Cfg -> BOOLEAN] /\ holds \in [Thread -> Cfg \cup {Boot}]
  /\ due \in [Thread -> 0 .. 2] /\ failed \in BOOLEAN

LEMMA CountWord ==
  ASSUME xfer \in XferType, xfer' = [xfer EXCEPT !.txCount = @ + 1]
  PROVE  /\ xfer' \in XferType /\ xfer'.txCount = xfer.txCount + 1
         /\ xfer'.who = xfer.who /\ xfer'.tx = xfer.tx /\ xfer'.rx = xfer.rx
         /\ xfer'.rxCount = xfer.rxCount /\ xfer'.words = xfer.words
         /\ xfer'.want = xfer.want
<1> DEFINE k == xfer.txCount + 1
<1>1. k \in Nat
  BY DEF XferType
<1>2. xfer' = [xfer EXCEPT !.txCount = k]
  BY DEF XferType
<1> HIDE DEF k
<1>3. /\ xfer' \in XferType /\ xfer'.txCount = k
      /\ xfer'.who = xfer.who /\ xfer'.tx = xfer.tx /\ xfer'.rx = xfer.rx
      /\ xfer'.rxCount = xfer.rxCount /\ xfer'.words = xfer.words
      /\ xfer'.want = xfer.want
  BY <1>1, <1>2 DEF XferType
<1> QED
  BY <1>3 DEF k

(* spi_context_complete gives a semaphore of limit 1.                       *)
LEMMA CompleteType ==
  ASSUME Types, NEW status \in {"ok", "io"}, Complete(status)
  PROVE  /\ lock' \in {0, 1} /\ owner' \in Cfg \cup {Boot}
         /\ sync' \in {0, 1} /\ syncStatus' \in {"ok", "io"}
         /\ due' \in [Thread -> 0 .. 2]
<1> USE DEF Types, GiveLock
<1>1. CASE SpiAsync /\ asynchronous
  <2>1. lock' \in {0, 1} /\ owner' \in Cfg \cup {Boot}
    BY <1>1 DEF Complete
  <2>2. CASE callback = Boot
    BY <1>1, <2>1, <2>2 DEF Complete
  <2>3. CASE callback # Boot
    <3>1. due' = [due EXCEPT ![callback] = IF @ = 0 THEN 2 ELSE @ - 1]
      BY <1>1, <2>3 DEF Complete
    <3>2. callback \in Thread /\ due[callback] \in 0 .. 2
      BY <2>3
    <3>3. (IF due[callback] = 0 THEN 2 ELSE due[callback] - 1) \in 0 .. 2
      BY <3>2
    <3>4. due' \in [Thread -> 0 .. 2]
      BY <3>1, <3>3
    <3> QED
      BY <1>1, <2>1, <3>4 DEF Complete
  <2> QED
    BY <2>2, <2>3
<1>2. CASE ~(SpiAsync /\ asynchronous)
  BY <1>2 DEF Complete
<1> QED
  BY <1>1, <1>2

LEMMA TypeInit == Init => Types
<1> SUFFICES ASSUME Init PROVE Types
  OBVIOUS
<1>1. IdleThread \in ThreadType
  BY DEF IdleThread, ThreadType, Pcs, Rets
<1>2. Depth \in Nat
  BY HardwareAssumption
<1>3. NoLoop \in LoopType /\ NoIsr \in IsrType
  BY <1>2 DEF NoLoop, LoopType, NoIsr, IsrType
<1>4. NoXfer \in XferType
  <2>1. <<>> \in Seq(Nat)
    OBVIOUS
  <2> QED
    BY <2>1 DEF NoXfer, XferType
<1>5. 0 \in 0 .. Depth /\ 0 \in 0 .. 2
  BY <1>2
<1>6. /\ th \in [Thread -> ThreadType] /\ loop \in [Thread -> LoopType]
      /\ xfer \in XferType /\ isr \in IsrType
      /\ cs \in [Cfg -> BOOLEAN] /\ holds \in [Thread -> Cfg \cup {Boot}]
      /\ due \in [Thread -> 0 .. 2] /\ txf \in 0 .. Depth /\ rxf \in 0 .. Depth
  BY <1>1, <1>3, <1>4, <1>5 DEF Init
<1>7. /\ lock \in {0, 1} /\ owner \in Cfg \cup {Boot} /\ config \in Cfg \cup {Boot}
      /\ sync \in {0, 1} /\ syncStatus \in {"ok", "io"}
      /\ asynchronous \in BOOLEAN /\ callback \in Thread \cup {Boot}
      /\ imsc \in BOOLEAN /\ ror \in BOOLEAN /\ failed \in BOOLEAN
  BY DEF Init
<1> QED
  BY <1>6, <1>7 DEF Types

LEMMA TypeCallSteps ==
  ASSUME Types, NEW t \in Thread,
         \/ Call(t) \/ LockCheck(t) \/ LockTake(t) \/ LockMode(t) \/ Configure(t)
         \/ CsOn(t) \/ WaitDone(t) \/ WaitTimeout(t) \/ CsOff(t) \/ Release(t)
         \/ ApiRelease(t)
  PROVE  Types'
<1> USE DEF ctxVars, hwVars, usrVars, At, GiveLock
<1>1. /\ th \in [Thread -> ThreadType] /\ cs \in [Cfg -> BOOLEAN]
      /\ holds \in [Thread -> Cfg \cup {Boot}]
      /\ th[t].cfg \in Cfg \cup {Boot} /\ th[t].async \in BOOLEAN
  <2>1. th[t] \in ThreadType
    BY DEF Types
  <2> QED
    BY <2>1 DEF Types, ThreadType
<1>2. UNCHANGED <<loop, xfer, isr, ror, txf, rxf, due>>
  BY DEF Call, LockCheck, LockTake, LockMode, Configure, CsOn, WaitDone, WaitTimeout,
         CsOff, Release, ApiRelease
<1>3. Pcs = {"idle", "lock", "take", "mode", "configure", "setup", "cson", "drain",
             "read", "fill", "wait", "csoff", "release"}
      /\ Rets = {"ok", "io", "timeout", "unsupported"}
  BY DEF Pcs, Rets
<1>4. th' \in [Thread -> ThreadType]
  <2>1. CASE Call(t)
    BY <1>1, <2>1, CallType
  <2>2. syncStatus \in Rets /\ {"ok", "timeout", "unsupported"} \subseteq Rets
        /\ {"take", "mode", "configure", "setup", "release", "drain", "csoff", "idle"}
           \subseteq Pcs
    BY <1>3 DEF Types
  <2>3. CASE \/ LockCheck(t) \/ LockTake(t) \/ LockMode(t) \/ Configure(t)
             \/ CsOn(t) \/ WaitDone(t) \/ WaitTimeout(t) \/ CsOff(t) \/ Release(t)
    <3>1. \/ \E pc \in Pcs : Goto(t, pc)
          \/ \E pc \in Pcs, ret \in Rets : Return(t, pc, ret)
      <4>1. ASSUME LockCheck(t) PROVE \E pc \in Pcs : Goto(t, pc)
        BY <2>2, <4>1 DEF LockCheck
      <4>2. ASSUME LockTake(t) \/ LockMode(t) \/ CsOn(t) \/ CsOff(t)
            PROVE  \E pc \in Pcs : Goto(t, pc)
        BY <2>2, <4>2 DEF LockTake, LockMode, CsOn, CsOff
      <4>3. ASSUME Configure(t)
            PROVE  Goto(t, "setup") \/ Return(t, "release", "unsupported")
        BY <4>3 DEF Configure
      <4>4. ASSUME WaitDone(t) \/ WaitTimeout(t) \/ Release(t)
            PROVE  \/ Return(t, "csoff", "ok") \/ Return(t, "csoff", syncStatus)
                   \/ Return(t, "csoff", "timeout") \/ Return(t, "idle", "ok")
        BY <4>4 DEF WaitDone, WaitTimeout, Release
      <4> QED
        BY <2>2, <2>3, <4>1, <4>2, <4>3, <4>4
    <3> QED
      BY <1>1, <3>1, GotoType, ReturnType
  <2>4. CASE ApiRelease(t)
    BY <1>1, <2>4 DEF ApiRelease
  <2> QED
    BY <2>1, <2>3, <2>4
<1>5. /\ lock' \in {0, 1} /\ owner' \in Cfg \cup {Boot} /\ config' \in Cfg \cup {Boot}
      /\ sync' \in {0, 1} /\ syncStatus' \in {"ok", "io"}
      /\ asynchronous' \in BOOLEAN /\ callback' \in Thread \cup {Boot}
      /\ imsc' \in BOOLEAN /\ failed' \in BOOLEAN
  <2>1. CASE Call(t) \/ LockCheck(t) \/ CsOn(t) \/ WaitTimeout(t) \/ CsOff(t)
    BY <2>1 DEF Types, Call, LockCheck, CsOn, WaitTimeout, CsOff
  <2>2. CASE LockTake(t)
    BY <1>1, <2>2 DEF Types, LockTake
  <2>3. CASE LockMode(t)
    BY <1>1, <2>3 DEF Types, LockMode
  <2>4. CASE Configure(t)
    BY <1>1, <2>4 DEF Types, Configure
  <2>5. CASE WaitDone(t)
    BY <2>5 DEF Types, WaitDone
  <2>6. CASE Release(t) \/ ApiRelease(t)
    BY <2>6 DEF Types, Release, ApiRelease
  <2> QED
    BY <2>1, <2>2, <2>3, <2>4, <2>5, <2>6
<1>6. cs' \in [Cfg -> BOOLEAN]
  <2>1. \/ UNCHANGED cs \/ cs' = [cs EXCEPT ![config] = TRUE]
        \/ cs' = [cs EXCEPT ![config] = FALSE]
    BY DEF Call, LockCheck, LockTake, LockMode, Configure, CsOn, WaitDone, WaitTimeout,
           CsOff, Release, ApiRelease
  <2> QED
    BY <1>1, <2>1
<1>7. holds' \in [Thread -> Cfg \cup {Boot}]
  <2>1. \/ UNCHANGED holds \/ holds' = [holds EXCEPT ![t] = th[t].cfg]
        \/ holds' = [holds EXCEPT ![t] = Boot]
    BY DEF Call, LockCheck, LockTake, LockMode, Configure, CsOn, WaitDone, WaitTimeout,
           CsOff, Release, ApiRelease
  <2> QED
    BY <1>1, <2>1
<1> QED
  BY <1>2, <1>4, <1>5, <1>6, <1>7 DEF Types

(* The steps that move words.                                               *)
LEMMA TypeMoveSteps ==
  ASSUME Types, NEW t \in Thread,
         Setup(t) \/ StartDrain(t) \/ StartRead(t) \/ StartFill(t)
  PROVE  Types'
<1> USE DEF ctxVars, hwVars, usrVars, At
<1>1. /\ th \in [Thread -> ThreadType] /\ loop \in [Thread -> LoopType]
      /\ due \in [Thread -> 0 .. 2] /\ xfer \in XferType
      /\ txf \in 0 .. Depth /\ rxf \in 0 .. Depth /\ Depth \in Nat
  BY HardwareAssumption DEF Types
<1>2. {"cson", "read", "wait", "fill"} \subseteq Pcs
  BY DEF Pcs
<1>3. CASE Setup(t)
  <2>1. PICK r \in Transfers :
          xfer' = [xfer EXCEPT !.who = t, !.tx = NonEmpty(r.tx), !.rx = NonEmpty(r.rx),
                               !.words = 0, !.want = Greater(Sum(r.tx), Sum(r.rx))]
    BY <1>3 DEF Setup
  <2>2. NonEmpty(r.tx) \in Seq(Nat) /\ NonEmpty(r.rx) \in Seq(Nat)
        /\ Greater(Sum(r.tx), Sum(r.rx)) \in Nat
    BY HardwareAssumption, NonEmptyType, SumType DEF Greater
  <2>3. xfer' \in XferType
    BY <1>1, <2>1, <2>2 DEF XferType
  <2>4. due' \in [Thread -> 0 .. 2]
    <3>1. due' = IF th[t].async THEN [due EXCEPT ![t] = 1] ELSE due
      BY <1>3 DEF Setup
    <3>2. 1 \in 0 .. 2
      OBVIOUS
    <3> QED
      BY <1>1, <3>1, <3>2
  <2>5. th' \in [Thread -> ThreadType]
    BY <1>1, <1>2, <1>3, GotoType DEF Setup
  <2> QED
    BY <1>3, <2>3, <2>4, <2>5 DEF Types, Setup
<1>4. CASE StartDrain(t)
  <2>1. xfer' \in XferType
    BY <1>1, <1>4 DEF StartDrain, XferType
  <2>2. th' \in [Thread -> ThreadType]
    BY <1>1, <1>2, <1>4, GotoType DEF StartDrain
  <2>3. 0 \in 0 .. Depth
    BY <1>1
  <2> QED
    BY <1>4, <2>1, <2>2, <2>3 DEF Types, StartDrain
<1>5. CASE StartRead(t)
  <2> DEFINE r == AfterRead
  <2>1. r.xfer \in XferType /\ r.taken \in 0 .. rxf /\ r.done \in BOOLEAN
    BY <1>1, AfterReadIs
  <2>2. /\ xfer' = r.xfer /\ rxf' = rxf - r.taken
        /\ loop' = [loop EXCEPT ![t].n = Chunk(r.xfer)]
        /\ Goto(t, IF r.done THEN "wait" ELSE "fill")
        /\ IF r.done THEN Complete("ok")
           ELSE UNCHANGED <<lock, owner, sync, syncStatus, due>>
        /\ UNCHANGED <<config, asynchronous, callback, isr, imsc, ror, txf, cs, holds,
                       failed>>
    BY <1>5 DEF StartRead
  <2> HIDE DEF r
  <2>3. rxf' \in 0 .. Depth
    BY <1>1, <2>1, <2>2
  <2>4. loop' \in [Thread -> LoopType]
    <3>1. Chunk(r.xfer) \in Nat
      BY <2>1, ChunkFits DEF XferType, IsBufs
    <3>2. loop[t] \in LoopType
      BY <1>1
    <3>3. [loop[t] EXCEPT !.n = Chunk(r.xfer)] \in LoopType
      BY <3>1, <3>2 DEF LoopType
    <3> QED
      BY <1>1, <2>2, <3>3
  <2>5. th' \in [Thread -> ThreadType]
    BY <1>1, <1>2, <2>2, GotoType
  <2>6. /\ lock' \in {0, 1} /\ owner' \in Cfg \cup {Boot}
        /\ sync' \in {0, 1} /\ syncStatus' \in {"ok", "io"}
        /\ due' \in [Thread -> 0 .. 2]
    <3>1. CASE r.done
      BY <2>2, <3>1, CompleteType
    <3>2. CASE ~r.done
      BY <2>2, <3>2 DEF Types
    <3> QED
      BY <3>1, <3>2
  <2> QED
    BY <2>1, <2>2, <2>3, <2>4, <2>5, <2>6 DEF Types
<1>6. CASE StartFill(t)
  <2>0. loop[t] \in LoopType
    BY <1>1
  <2>1. CASE MayFill(loop[t])
    <3>1. /\ txf' = txf + 1 /\ xfer' = [xfer EXCEPT !.txCount = @ + 1]
          /\ loop' = [loop EXCEPT ![t].i = @ + 1] /\ UNCHANGED th
          /\ loop[t].i < Depth /\ txf < Depth
      BY <1>6, <2>1 DEF StartFill, FillWord, MayFill
    <3>2. txf' \in 0 .. Depth /\ xfer' \in XferType
      BY <1>1, <3>1, CountWord
    <3>3. [loop[t] EXCEPT !.i = @ + 1] \in LoopType
      BY <1>1, <2>0, <3>1 DEF LoopType
    <3>4. loop' \in [Thread -> LoopType]
      BY <1>1, <3>1, <3>3
    <3> QED
      BY <1>6, <3>1, <3>2, <3>4 DEF Types, StartFill
  <2>2. CASE ~MayFill(loop[t])
    <3>1. NoLoop \in LoopType
      BY <1>1 DEF NoLoop, LoopType
    <3>2. /\ Goto(t, "wait") /\ loop' = [loop EXCEPT ![t] = NoLoop]
          /\ UNCHANGED <<txf, xfer>>
      BY <1>6, <2>2 DEF StartFill
    <3>3. th' \in [Thread -> ThreadType]
      BY <1>1, <1>2, <3>2, GotoType
    <3> QED
      BY <1>1, <1>6, <3>1, <3>2, <3>3 DEF Types, StartFill
  <2> QED
    BY <2>1, <2>2
<1> QED
  BY <1>3, <1>4, <1>5, <1>6

LEMMA TypeHwSteps ==
  ASSUME Types, Isr \/ Shift
  PROVE  Types'
<1> USE DEF ctxVars, hwVars, usrVars
<1>1. /\ xfer \in XferType /\ isr \in IsrType
      /\ txf \in 0 .. Depth /\ rxf \in 0 .. Depth /\ Depth \in Nat
  BY HardwareAssumption DEF Types
<1>2. CASE IsrOverrun
  <2>1. isr' \in IsrType
    BY <1>1, <1>2 DEF IsrOverrun, IsrType
  <2>2. Complete("io")
    BY <1>2 DEF IsrOverrun
  <2> QED
    BY <1>2, <2>1, <2>2, CompleteType DEF Types, IsrOverrun
<1>3. CASE IsrRead
  <2> DEFINE r == AfterRead
  <2>1. r.xfer \in XferType /\ r.taken \in 0 .. rxf /\ r.done \in BOOLEAN
    BY <1>1, AfterReadIs
  <2>2. /\ xfer' = r.xfer /\ rxf' = rxf - r.taken
        /\ isr' = [pc |-> IF r.done THEN "clear" ELSE "fill", n |-> Chunk(r.xfer), i |-> 0]
        /\ IF r.done THEN Complete("ok")
           ELSE UNCHANGED <<lock, owner, sync, syncStatus, due>>
        /\ UNCHANGED <<th, loop, config, asynchronous, callback, imsc, ror, txf, cs, holds,
                       failed>>
    BY <1>3 DEF IsrRead
  <2> HIDE DEF r
  <2>3. rxf' \in 0 .. Depth
    BY <1>1, <2>1, <2>2
  <2>4. isr' \in IsrType
    <3>1. Chunk(r.xfer) \in Nat
      BY <2>1, ChunkFits DEF XferType, IsBufs
    <3> QED
      BY <1>1, <2>2, <3>1 DEF IsrType
  <2>5. /\ lock' \in {0, 1} /\ owner' \in Cfg \cup {Boot}
        /\ sync' \in {0, 1} /\ syncStatus' \in {"ok", "io"}
        /\ due' \in [Thread -> 0 .. 2]
    <3>1. CASE r.done
      BY <2>2, <3>1, CompleteType
    <3>2. CASE ~r.done
      BY <2>2, <3>2 DEF Types
    <3> QED
      BY <3>1, <3>2
  <2> QED
    BY <2>1, <2>2, <2>3, <2>4, <2>5 DEF Types
<1>4. CASE IsrFill
  <2>1. CASE MayFill(isr)
    <3>1. /\ txf' = txf + 1 /\ xfer' = [xfer EXCEPT !.txCount = @ + 1]
          /\ isr' = [isr EXCEPT !.i = @ + 1] /\ isr.i < Depth /\ txf < Depth
      BY <1>4, <2>1 DEF IsrFill, FillWord, MayFill
    <3>2. txf' \in 0 .. Depth /\ xfer' \in XferType
      BY <1>1, <3>1, CountWord
    <3>3. isr' \in IsrType
      BY <1>1, <3>1 DEF IsrType
    <3> QED
      BY <1>4, <3>2, <3>3 DEF Types, IsrFill
  <2>2. CASE ~MayFill(isr)
    <3>1. isr' \in IsrType /\ UNCHANGED <<txf, xfer>>
      BY <1>1, <1>4, <2>2 DEF IsrFill, IsrType
    <3> QED
      BY <1>4, <3>1 DEF Types, IsrFill
  <2> QED
    BY <2>1, <2>2
<1>5. CASE IsrClear
  <2>1. NoIsr \in IsrType
    BY <1>1 DEF NoIsr, IsrType
  <2> QED
    BY <1>5, <2>1 DEF Types, IsrClear
<1>6. CASE Shift
  <2>1. txf' \in 0 .. Depth /\ rxf' \in 0 .. Depth
    BY <1>1, <1>6 DEF Shift
  <2>2. ror' \in BOOLEAN /\ failed' \in BOOLEAN
    BY <1>6 DEF Types, Shift
  <2> QED
    BY <1>6, <2>1, <2>2 DEF Types, Shift
<1> QED
  BY <1>2, <1>3, <1>4, <1>5, <1>6 DEF Isr

LEMMA TypesAlways == Spec => []Types
<1>1. Types /\ [Next]_vars => Types'
  <2> SUFFICES ASSUME Types, [Next]_vars PROVE Types'
    OBVIOUS
  <2>1. CASE UNCHANGED vars
    BY <2>1 DEF vars, ctxVars, hwVars, usrVars, Types
  <2>2. CASE Next
    <3>1. ASSUME NEW t \in Thread, Call(t) \/ Transceive(t) \/ ApiRelease(t)
          PROVE  Types'
      BY <3>1, TypeCallSteps, TypeMoveSteps DEF Transceive
    <3> QED
      BY <2>2, <3>1, TypeHwSteps DEF Next
  <2> QED
    BY <2>1, <2>2
<1> QED
  BY <1>1, TypeInit, PTL DEF Spec

(* Every variable of the driver keeps its type, with and without            *)
(* CONFIG_SPI_ASYNC: the semaphores stay within their limit, the FIFOs      *)
(* within their depth, and no count of words is driven below zero.          *)
THEOREM TypeCorrect == Spec => []TypeOK
<1>1. Types => TypeOK
  BY DEF Types, TypeOK, ThreadType, LoopType, XferType, IsrType, Rets
<1> QED
  BY <1>1, TypesAlways, PTL

-----------------------------------------------------------------------------
(* Chip selects.  The context's configuration is that of the selected chip:  *)
(* a chip stays selected only while its transfer runs, or, with              *)
(* SPI_HOLD_ON_CS, while a client holds the lock for it; and then nobody     *)
(* else gets to spi_em32_configure.                                          *)

Selecting(t) == th[t].pc \in {"drain", "read", "fill", "wait", "csoff"}

Keeping(t, c) ==
  /\ c \in HoldCs
  /\ \/ holds[t] = c
     \/ th[t].pc = "release" /\ th[t].ret # "unsupported"

CsThread(t) ==
  /\ th[t].ret = "unsupported" => th[t].pc = "release" /\ holds[t] = Boot
  /\ holds[t] # Boot => config = holds[t]
  /\ Selecting(t) => cs[config]

CsChip(c) == cs[c] => c = config /\ \E t \in Thread : Selecting(t) \/ Keeping(t, c)

CsInv == (\A t \in Thread : CsThread(t)) /\ (\A c \in Cfg : CsChip(c))

LEMMA CsInit == Init => CsInv
  BY DEF Init, CsInv, CsThread, CsChip, Selecting, IdleThread

(* Steps that touch neither the chip selects nor the configuration.         *)
LEMMA CsQuiet ==
  ASSUME CsInv, UNCHANGED <<cs, config, holds>>,
         \A t \in Thread :
           /\ Selecting(t)' <=> Selecting(t)
           /\ th'[t].pc = "release" <=> th[t].pc = "release"
           /\ th'[t].ret # th[t].ret => th'[t].ret # "unsupported"
  PROVE  CsInv'
<1>1. ASSUME NEW t \in Thread PROVE CsThread(t)'
  BY DEF CsInv, CsThread
<1>2. ASSUME NEW c \in Cfg PROVE CsChip(c)'
  <2>1. \A t \in Thread : Keeping(t, c) => Keeping(t, c)'
    BY DEF Keeping
  <2> QED
    BY <2>1 DEF CsInv, CsChip
<1> QED
  BY <1>1, <1>2 DEF CsInv

(* Which steps leave them alone, and where the thread goes.                 *)
LEMMA CsQuietSteps ==
  ASSUME Types, CsInv, NEW t \in Thread,
         \/ Call(t) \/ LockCheck(t) \/ LockTake(t) \/ LockMode(t) \/ Setup(t)
         \/ StartDrain(t) \/ StartRead(t) \/ StartFill(t) \/ WaitDone(t) \/ WaitTimeout(t)
  PROVE  CsInv'
<1> USE DEF At, ctxVars, hwVars, usrVars
<1>1. UNCHANGED <<cs, config, holds>>
  BY DEF Call, LockCheck, LockTake, LockMode, Setup, StartDrain, StartRead, StartFill,
         WaitDone, WaitTimeout
<1>2. th \in [Thread -> ThreadType] /\ syncStatus \in {"ok", "io"}
  BY DEF Types
<1> DEFINE Early == {"idle", "lock", "take", "mode", "configure", "setup", "cson"}
           Late == {"drain", "read", "fill", "wait", "csoff"}
<1>3. /\ \A u \in Thread \ {t} : th'[u] = th[u]
      /\ \/ th[t].pc \in Early /\ th'[t].pc \in Early /\ th'[t].ret = th[t].ret
         \/ th[t].pc \in Late /\ th'[t].pc \in Late
            /\ th'[t].ret \in {th[t].ret, "ok", "io", "timeout"}
  <2>1. CASE Call(t)
    <3>1. th[t].pc = "idle"
      BY <2>1 DEF Call
    <3> QED
      BY <1>2, <2>1, <3>1, CallType
  <2>2. CASE LockCheck(t) \/ LockTake(t) \/ LockMode(t) \/ Setup(t)
    <3>1. PICK pc \in {"take", "mode", "configure", "cson"} : Goto(t, pc)
      BY <2>2 DEF LockCheck, LockTake, LockMode, Setup
    <3>2. pc \in Pcs /\ th[t].pc \in Early
      BY <2>2 DEF Pcs, LockCheck, LockTake, LockMode, Setup
    <3> QED
      BY <1>2, <3>1, <3>2, GotoType
  <2>3. CASE StartDrain(t) \/ StartRead(t) \/ StartFill(t)
    <3>1. th[t].pc \in Late
          /\ (UNCHANGED th \/ \E pc \in {"read", "fill", "wait"} : Goto(t, pc))
      <4>1. CASE StartRead(t)
        BY <4>1 DEF StartRead
      <4>2. CASE StartDrain(t) \/ StartFill(t)
        BY <4>2 DEF StartDrain, StartFill
      <4> QED
        BY <2>3, <4>1, <4>2
    <3>2. {"read", "fill", "wait"} \subseteq Pcs
      BY DEF Pcs
    <3> QED
      BY <1>2, <3>1, <3>2, GotoType
  <2>4. CASE WaitDone(t) \/ WaitTimeout(t)
    <3>1. th[t].pc = "wait" /\ \E ret \in {"ok", "io", "timeout"} : Return(t, "csoff", ret)
      BY <1>2, <2>4 DEF WaitDone, WaitTimeout
    <3>2. "csoff" \in Pcs /\ {"ok", "io", "timeout"} \subseteq Rets
      BY DEF Pcs, Rets
    <3> QED
      BY <1>2, <3>1, <3>2, ReturnType
  <2> QED
    BY <2>1, <2>2, <2>3, <2>4
<1>4. \A u \in Thread :
        /\ Selecting(u)' <=> Selecting(u)
        /\ th'[u].pc = "release" <=> th[u].pc = "release"
        /\ th'[u].ret # th[u].ret => th'[u].ret # "unsupported"
  BY <1>3 DEF Selecting
<1> QED
  BY <1>1, <1>4, CsQuiet

(* At spi_em32_configure no chip is selected, unless the configuration is    *)
(* the one the context already has.                                          *)
LEMMA CsConfigure ==
  ASSUME Types, LockInv, CsInv, NEW t \in Thread, Configure(t)
  PROVE  CsInv'
<1>1. th[t].pc = "configure" /\ Inside(t) /\ UNCHANGED <<cs, holds>>
  BY DEF Configure, At, Inside, usrVars
<1>2. /\ \A u \in Thread \ {t} : th'[u] = th[u]
      /\ \/ th'[t].pc = "setup" /\ config' = th[t].cfg /\ th'[t].ret = th[t].ret
         \/ /\ th'[t].pc = "release" /\ th'[t].ret = "unsupported"
            /\ config' = config /\ config # th[t].cfg
  <2>1. th \in [Thread -> ThreadType] /\ {"setup", "release"} \subseteq Pcs
        /\ "unsupported" \in Rets
    BY DEF Types, Pcs, Rets
  <2>2. \/ Goto(t, "setup") /\ config' = th[t].cfg
        \/ Return(t, "release", "unsupported") /\ config' = config /\ config # th[t].cfg
    BY DEF Configure
  <2> QED
    BY <2>1, <2>2, GotoType, ReturnType
<1>3. \A u \in Thread \ {t} : ~Inside(u) /\ holds[u] = Boot
  BY <1>1, OneHolder
<1>4. holds[t] # Boot => config = holds[t] /\ config = th[t].cfg
  BY <1>1 DEF CsInv, CsThread, LockInv, Holder
<1>5. ASSUME NEW c \in Cfg, cs[c] PROVE c = config /\ holds[t] = c
  <2>1. PICK u \in Thread : Selecting(u) \/ Keeping(u, c)
    BY <1>5 DEF CsInv, CsChip
  <2>2. u = t
    <3>1. ASSUME u # t PROVE FALSE
      <4>1. c # Boot
        BY ClientAssumption
      <4> QED
        BY <1>3, <2>1, <3>1, <4>1 DEF Selecting, Keeping, Inside
    <3> QED
      BY <3>1
  <2> QED
    BY <1>1, <1>5, <2>1, <2>2 DEF CsInv, CsChip, Selecting, Keeping
<1>6. ASSUME NEW u \in Thread PROVE CsThread(u)'
  <2>1. CASE u = t
    BY <1>1, <1>2, <1>4, <2>1 DEF CsInv, CsThread, Selecting
  <2>2. CASE u # t
    BY <1>1, <1>2, <1>3, <2>2 DEF CsInv, CsThread, Selecting, Inside
  <2> QED
    BY <2>1, <2>2
<1>7. ASSUME NEW c \in Cfg, cs[c] PROVE CsChip(c)'
  <2>1. c = config /\ holds[t] = c /\ c # Boot
    BY <1>5, <1>7, ClientAssumption
  <2>2. config' = config
    BY <1>2, <1>4, <2>1
  <2>3. Keeping(t, c)'
    <3>1. PICK u \in Thread : Selecting(u) \/ Keeping(u, c)
      BY <1>7 DEF CsInv, CsChip
    <3>2. ~Selecting(u)
      BY <1>1, <1>3 DEF Selecting, Inside
    <3> QED
      BY <1>1, <2>1, <3>1, <3>2 DEF Keeping
  <2> QED
    BY <2>1, <2>2, <2>3 DEF CsChip
<1> QED
  BY <1>1, <1>6, <1>7 DEF CsInv, CsChip

LEMMA CsOnStep ==
  ASSUME Types, LockInv, CsInv, NEW t \in Thread, CsOn(t)
  PROVE  CsInv'
<1>1. /\ th[t].pc = "cson" /\ Inside(t) /\ UNCHANGED <<config, holds>>
      /\ cs' = [cs EXCEPT ![config] = TRUE]
  BY DEF CsOn, At, Inside, ctxVars, usrVars
<1>2. /\ \A u \in Thread \ {t} : th'[u] = th[u]
      /\ th'[t].pc = "drain" /\ th'[t].ret = th[t].ret
  <2>1. th \in [Thread -> ThreadType] /\ "drain" \in Pcs /\ Goto(t, "drain")
    BY DEF Types, Pcs, CsOn
  <2> QED
    BY <2>1, GotoType
<1>3. \A u \in Thread \ {t} : ~Inside(u)
  BY <1>1, OneHolder
<1>4. config \in Cfg
  BY <1>1, ClientAssumption DEF LockInv, Holder, Configured
<1>5. cs'[config] /\ \A c \in Cfg : cs'[c] => c = config
  BY <1>1, <1>4 DEF CsInv, CsChip, Types
<1>6. ASSUME NEW u \in Thread PROVE CsThread(u)'
  BY <1>1, <1>2, <1>3, <1>5 DEF CsInv, CsThread, Selecting, Inside
<1>7. Selecting(t)'
  BY <1>2 DEF Selecting
<1> QED
  BY <1>1, <1>5, <1>6, <1>7 DEF CsInv, CsChip

LEMMA CsOffStep ==
  ASSUME Types, LockInv, CsInv, NEW t \in Thread, CsOff(t)
  PROVE  CsInv'
<1>1. /\ th[t].pc = "csoff" /\ Inside(t) /\ UNCHANGED <<config, holds>>
      /\ cs' = IF config \in HoldCs THEN cs ELSE [cs EXCEPT ![config] = FALSE]
  BY DEF CsOff, At, Inside, ctxVars, usrVars
<1>2. /\ \A u \in Thread \ {t} : th'[u] = th[u]
      /\ th'[t].pc = "release" /\ th'[t].ret = th[t].ret
  <2>1. th \in [Thread -> ThreadType] /\ "release" \in Pcs /\ Goto(t, "release")
    BY DEF Types, Pcs, CsOff
  <2> QED
    BY <2>1, GotoType
<1>3. \A u \in Thread \ {t} : ~Inside(u)
  BY <1>1, OneHolder
<1>4. config \in Cfg
  BY <1>1, ClientAssumption DEF LockInv, Holder, Configured
<1>5. \A c \in Cfg : cs'[c] => c = config /\ config \in HoldCs
  BY <1>1, <1>4 DEF CsInv, CsChip, Types
<1>6. ASSUME NEW u \in Thread PROVE CsThread(u)'
  BY <1>1, <1>2, <1>3 DEF CsInv, CsThread, Selecting, Inside
<1>7. config \in HoldCs => Keeping(t, config)'
  BY <1>1, <1>2 DEF Keeping, CsInv, CsThread
<1> QED
  BY <1>1, <1>5, <1>6, <1>7 DEF CsInv, CsChip

LEMMA CsReleaseStep ==
  ASSUME Types, LockInv, CsInv, NEW t \in Thread, Release(t)
  PROVE  CsInv'
<1>1. /\ th[t].pc = "release" /\ Inside(t) /\ UNCHANGED <<config, cs>>
      /\ holds' = [holds EXCEPT ![t] = IF th[t].cfg \in LockOn /\ th[t].ret # "unsupported"
                                       THEN th[t].cfg ELSE Boot]
  BY DEF Release, At, Inside
<1>2. /\ \A u \in Thread \ {t} : th'[u] = th[u] /\ holds'[u] = holds[u]
      /\ th'[t].pc = "idle" /\ th'[t].ret = "ok"
      /\ holds'[t] = IF th[t].cfg \in LockOn /\ th[t].ret # "unsupported"
                     THEN th[t].cfg ELSE Boot
  <2>1. th \in [Thread -> ThreadType] /\ "idle" \in Pcs /\ "ok" \in Rets
        /\ Return(t, "idle", "ok")
    BY DEF Types, Pcs, Rets, Release
  <2> QED
    BY <1>1, <2>1, ReturnType DEF Types
<1>3. \A u \in Thread \ {t} : ~Inside(u) /\ holds[u] = Boot
  BY <1>1, OneHolder
<1>4. th[t].ret # "unsupported" => config = th[t].cfg
  BY <1>1 DEF LockInv, Holder, Configured
<1>5. ASSUME NEW u \in Thread PROVE CsThread(u)'
  <2>1. CASE u = t
    BY <1>2, <1>4, <1>1, <2>1 DEF CsThread, Selecting
  <2>2. CASE u # t
    BY <1>1, <1>2, <1>3, <2>2 DEF CsThread, CsInv, Selecting, Inside
  <2> QED
    BY <2>1, <2>2
<1>6. ASSUME NEW c \in Cfg, cs[c] PROVE CsChip(c)'
  <2>1. c = config /\ c # Boot
    BY <1>6, ClientAssumption DEF CsInv, CsChip
  <2>2. PICK u \in Thread : Selecting(u) \/ Keeping(u, c)
    BY <1>6 DEF CsInv, CsChip
  <2>3. u = t /\ c \in HoldCs
    BY <1>1, <1>3, <2>1, <2>2 DEF Selecting, Keeping, Inside
  <2>4. holds[t] = c => th[t].cfg = c
    BY <1>1, <2>1 DEF LockInv, Holder
  <2>5. th[t].ret # "unsupported"
    BY <1>1, <2>1, <2>2, <2>3 DEF Selecting, Keeping, CsInv, CsThread
  <2>6. holds'[t] = c
    BY <1>2, <1>4, <2>1, <2>3, <2>5, ClientAssumption
  <2> QED
    BY <1>1, <2>1, <2>3, <2>6 DEF CsChip, Keeping
<1> QED
  BY <1>1, <1>5, <1>6 DEF CsInv, CsChip

LEMMA CsApiReleaseStep ==
  ASSUME Types, LockInv, CsInv, NEW t \in Thread, ApiRelease(t)
  PROVE  CsInv'
<1>1. /\ th[t].pc = "idle" /\ holds[t] # Boot /\ UNCHANGED <<th, config>>
      /\ cs' = IF config = Boot THEN cs ELSE [cs EXCEPT ![config] = FALSE]
      /\ holds' = [holds EXCEPT ![t] = Boot]
  BY DEF ApiRelease, At
<1>2. config = holds[t] /\ config # Boot
  BY <1>1 DEF CsInv, CsThread
<1>3. /\ holds'[t] = Boot /\ \A u \in Thread \ {t} : holds'[u] = holds[u]
      /\ \A u \in Thread \ {t} : ~Inside(u) /\ holds[u] = Boot
  BY <1>1, OneHolder DEF Types
<1>4. \A c \in Cfg : ~cs'[c]
  BY <1>1, <1>2 DEF CsInv, CsChip, Types
<1>5. ASSUME NEW u \in Thread PROVE CsThread(u)'
  BY <1>1, <1>3 DEF CsInv, CsThread, Selecting, Inside
<1> QED
  BY <1>4, <1>5 DEF CsInv, CsChip

LEMMA CsHwSteps ==
  ASSUME CsInv, Isr \/ Shift \/ UNCHANGED vars
  PROVE  CsInv'
<1>1. UNCHANGED <<th, config, holds, cs>>
  BY DEF Isr, Shift, IsrOverrun, IsrRead, IsrFill, IsrClear, ctxVars, hwVars, usrVars, vars
<1> QED
  BY <1>1 DEF CsInv, CsThread, CsChip, Selecting, Keeping

LEMMA CsInvAlways == ASSUME ~SpiAsync PROVE Spec => []CsInv
<1>1. Types /\ LockInv /\ CsInv /\ [Next]_vars => CsInv'
  <2> SUFFICES ASSUME Types, LockInv, CsInv, [Next]_vars PROVE CsInv'
    OBVIOUS
  <2>1. ASSUME NEW t \in Thread, Call(t) \/ Transceive(t) \/ ApiRelease(t)
        PROVE  CsInv'
    BY <2>1, CsQuietSteps, CsConfigure, CsOnStep, CsOffStep, CsReleaseStep,
       CsApiReleaseStep
    DEF Transceive
  <2> QED
    BY <2>1, CsHwSteps DEF Next
<1> QED
  BY <1>1, CsInit, TypesAlways, LockInvAlways, PTL DEF Spec

(* Whatever the clients lock, hold and release, never are two chips          *)
(* selected at once: spi_em32_configure never changes the configuration in   *)
(* the context while the chip of the old one is selected.                    *)
THEOREM ChipsTakeTurns == ASSUME ~SpiAsync PROVE Spec => []OneChipSelected
<1>1. CsInv => OneChipSelected
  BY DEF CsInv, CsChip, OneChipSelected
<1> QED
  BY <1>1, CsInvAlways, PTL

-----------------------------------------------------------------------------
(* The words of a transfer.  The thread fills the TX FIFO up to the chunk    *)
(* length it read before the interrupt handler preempted it; when chunks do  *)
(* not get shorter, that is never more than the chunk that is under way.     *)
(* G has the buffers such transfers go through.                              *)

Bufs(x) == [tx |-> x.tx, rx |-> x.rx]
Rest(x) == [tx |-> Update(x.tx, Chunk(x)), rx |-> Update(x.rx, Chunk(x))]

Steady(G) ==
  /\ \A r \in Transfers : [tx |-> NonEmpty(r.tx), rx |-> NonEmpty(r.rx)] \in G
  /\ \A x \in G : Rest(x) \in G /\ (Ongoing(Rest(x)) => Chunk(x) <= Chunk(Rest(x)))

ChunksNeverShrink == \E G : Steady(G)

(* The usual call, one buffer either way and both of one length, is such a    *)
(* transfer.                                                                *)
LEMMA SingleBuffers ==
  ASSUME \A r \in Transfers : \E n \in Nat \ {0} :
           NonEmpty(r.tx) \in {<<>>, <<n>>} /\ NonEmpty(r.rx) \in {<<>>, <<n>>}
  PROVE  ChunksNeverShrink
<1> DEFINE One(n) == {<<>>, <<n>>}
           G == {[tx |-> b, rx |-> c] : b \in UNION {One(n) : n \in Nat \ {0}},
                                        c \in UNION {One(n) : n \in Nat \ {0}}}
           H == {x \in G : \E n \in Nat \ {0} : x.tx \in One(n) /\ x.rx \in One(n)}
<1>1. ASSUME NEW r \in Transfers
      PROVE  [tx |-> NonEmpty(r.tx), rx |-> NonEmpty(r.rx)] \in H
  <2>1. PICK n \in Nat \ {0} : NonEmpty(r.tx) \in One(n) /\ NonEmpty(r.rx) \in One(n)
    OBVIOUS
  <2> HIDE DEF One
  <2> QED
    BY <2>1
<1>2. ASSUME NEW x \in H PROVE Rest(x) \in H /\ ~Ongoing(Rest(x))
  <2>1. PICK n \in Nat \ {0} : x.tx \in {<<>>, <<n>>} /\ x.rx \in {<<>>, <<n>>}
    OBVIOUS
  <2>2. <<n>> # <<>> /\ Head(<<n>>) = n /\ Tail(<<n>>) = <<>>
    OBVIOUS
  <2>3. x.tx # <<>> \/ x.rx # <<>> => Chunk(x) = n
    BY <2>1, <2>2 DEF Chunk, Lesser
  <2>4. Update(x.tx, Chunk(x)) = <<>> /\ Update(x.rx, Chunk(x)) = <<>>
    <3>1. ASSUME NEW b, b \in {<<>>, <<n>>}, NEW m, b # <<>> => m = n
          PROVE  Update(b, m) = <<>>
      <4>1. CASE b = <<>>
        BY <4>1 DEF Update
      <4>2. CASE b = <<n>>
        <5>1. b # <<>> /\ m = Head(b) /\ ~(m > Head(b)) /\ Tail(b) = <<>>
          BY <2>2, <3>1, <4>2
        <5> QED
          BY <5>1 DEF Update
      <4> QED
        BY <3>1, <4>1, <4>2
    <3> QED
      BY <2>1, <2>3, <3>1
  <2>5. Rest(x) = [tx |-> <<>>, rx |-> <<>>]
    BY <2>4 DEF Rest
  <2>6. [tx |-> <<>>, rx |-> <<>>] \in H
    <3>1. 1 \in Nat \ {0} /\ <<>> \in One(1)
      OBVIOUS
    <3>2. <<>> \in UNION {One(m) : m \in Nat \ {0}}
      BY <3>1
    <3> HIDE DEF One
    <3> QED
      BY <3>1, <3>2
  <2>7. Rest(x).tx = <<>> /\ Rest(x).rx = <<>>
    BY <2>5
  <2> HIDE DEF H
  <2> QED
    BY <2>5, <2>6, <2>7 DEF Ongoing
<1> HIDE DEF H
<1>3. Steady(H)
  BY <1>1, <1>2 DEF Steady
<1> QED
  BY <1>3 DEF ChunksNeverShrink

Busy(t)   == th[t].pc \in {"cson", "drain", "read", "fill", "wait"}
Moving(t) == th[t].pc \in {"fill", "wait"}

(* The transfer of the thread inside: its words are in the TX FIFO, in the   *)
(* RX FIFO or counted as received; those received and those left are the     *)
(* ones it wants.                                                            *)
Transfer(G, t) ==
  /\ Busy(t) => xfer.who = t /\ (Ongoing(xfer) => Bufs(xfer) \in G)
  /\ th[t].pc \in {"cson", "drain", "read"} => xfer.words = 0 /\ xfer.want = Left(xfer)
  /\ th[t].pc = "read" => xfer.txCount = 0 /\ xfer.rxCount = 0
  /\ Moving(t) /\ Ongoing(xfer) =>
       /\ txf + rxf + xfer.rxCount = xfer.txCount /\ xfer.txCount <= Chunk(xfer)
       /\ xfer.want + xfer.rxCount = xfer.words + Left(xfer)
  /\ Moving(t) /\ ~Ongoing(xfer) => xfer.words = xfer.want
  /\ th[t].pc = "fill" =>
       /\ Ongoing(xfer) => loop[t].n <= Chunk(xfer)
       /\ ~Ongoing(xfer) => loop[t].n <= xfer.txCount
  /\ th[t].pc \in {"csoff", "release"} /\ th[t].ret # "unsupported" =>
       xfer.who = t /\ ~Ongoing(xfer) /\ xfer.words = xfer.want

(* The controller, its interrupt and the semaphore are idle but for it.      *)
Controller ==
  /\ ~ror /\ syncStatus = "ok"
  /\ txf > 0 \/ rxf > 0 => Ongoing(xfer) /\ \E t \in Thread : Moving(t)
  /\ isr.pc = "fill" =>
       Ongoing(xfer) /\ isr.n <= Chunk(xfer) /\ \E t \in Thread : Moving(t)
  /\ sync = 1 => ~Ongoing(xfer) /\ \E t \in Thread : Moving(t)
  /\ Ongoing(xfer) => \E t \in Thread : Busy(t)

Synchronous ==
  asynchronous = FALSE /\ \A t \in Thread : th[t].async = FALSE /\ due[t] = 0

MoveInv(G) ==
  Synchronous /\ (~failed => Controller /\ \A t \in Thread : Transfer(G, t))

LEMMA MoveInit == ASSUME NEW G, Init PROVE MoveInv(G)
<1>1. \A t \in Thread : th[t] = IdleThread /\ due[t] = 0
  BY DEF Init
<1>2. ~Ongoing(xfer)
  BY DEF Init, NoXfer, Ongoing
<1>3. Synchronous
  BY <1>1 DEF Init, Synchronous, IdleThread
<1>4. Controller
  BY <1>2 DEF Init, Controller, NoIsr
<1>5. \A t \in Thread : Transfer(G, t)
  BY <1>1 DEF Transfer, IdleThread, Busy, Moving
<1> QED
  BY <1>3, <1>4, <1>5 DEF MoveInv

(* Without CONFIG_SPI_ASYNC every call is synchronous.                       *)
LEMMA SynchronousStep ==
  ASSUME ~SpiAsync, Types, Types', Synchronous, [Next]_vars
  PROVE  Synchronous'
<1> USE DEF At, ctxVars, hwVars, usrVars
<1>0. CallModes \subseteq {FALSE}
  BY ClientAssumption
<1>1. ASSUME NEW t \in Thread, Call(t) PROVE Synchronous'
  <2>1. UNCHANGED <<asynchronous, due>>
    BY <1>1 DEF Call
  <2>2. th'[t].async = FALSE /\ \A u \in Thread \ {t} : th'[u] = th[u]
    BY <1>0, <1>1, CallType DEF Types
  <2> QED
    BY <2>1, <2>2 DEF Synchronous
<1>2. ASSUME NEW t \in Thread, Transceive(t) PROVE Synchronous'
  <2>1. asynchronous' = FALSE
    BY <1>2 DEF Synchronous, Transceive, LockCheck, LockTake, LockMode, Configure, Setup,
       CsOn, StartDrain, StartRead, StartFill, WaitDone, WaitTimeout, CsOff, Release
  <2>2. UNCHANGED due
    <3>1. CASE Setup(t)
      BY <3>1 DEF Setup, Synchronous
    <3>2. CASE StartRead(t)
      BY <3>2 DEF StartRead, Complete
    <3> QED
      BY <1>2, <3>1, <3>2 DEF Transceive, LockCheck, LockTake, LockMode, Configure,
         CsOn, StartDrain, StartFill, WaitDone, WaitTimeout, CsOff, Release
  <2>3. \/ UNCHANGED th
        \/ \E pc \in Pcs : Goto(t, pc)
        \/ \E pc \in Pcs, ret \in Rets : Return(t, pc, ret)
    <3>1. {"take", "mode", "configure", "setup", "cson", "drain", "read", "fill", "wait",
           "csoff", "release", "idle"} \subseteq Pcs
          /\ {"ok", "timeout", "unsupported"} \subseteq Rets /\ syncStatus \in Rets
      BY DEF Pcs, Rets, Types
    <3>2. CASE LockCheck(t) \/ LockTake(t) \/ LockMode(t) \/ Setup(t) \/ CsOn(t)
               \/ StartDrain(t) \/ StartFill(t) \/ CsOff(t)
      <4>1. \/ UNCHANGED th
            \/ \E pc \in {"take", "mode", "configure", "cson", "drain", "read", "wait",
                          "release"} : Goto(t, pc)
        <5>1. CASE LockCheck(t)
          BY <5>1 DEF LockCheck
        <5>2. CASE LockTake(t) \/ LockMode(t) \/ Setup(t) \/ CsOn(t) \/ StartDrain(t)
                   \/ CsOff(t)
          BY <5>2 DEF LockTake, LockMode, Setup, CsOn, StartDrain, CsOff
        <5>3. CASE StartFill(t)
          BY <5>3 DEF StartFill
        <5> QED
          BY <3>2, <5>1, <5>2, <5>3
      <4> QED
        BY <3>1, <4>1
    <3>3. CASE StartRead(t)
      <4>1. Goto(t, "wait") \/ Goto(t, "fill")
        BY <3>3 DEF StartRead
      <4> QED
        BY <3>1, <4>1
    <3>4. CASE Configure(t) \/ WaitDone(t) \/ WaitTimeout(t) \/ Release(t)
      <4>1. \/ Goto(t, "setup") \/ Return(t, "release", "unsupported")
            \/ Return(t, "csoff", "ok") \/ Return(t, "csoff", syncStatus)
            \/ Return(t, "csoff", "timeout") \/ Return(t, "idle", "ok")
        BY <3>4 DEF Configure, WaitDone, WaitTimeout, Release
      <4> QED
        BY <3>1, <4>1
    <3> QED
      BY <1>2, <3>2, <3>3, <3>4 DEF Transceive
  <2>4. th'[t].async = th[t].async /\ \A u \in Thread \ {t} : th'[u] = th[u]
    BY <2>3, GotoType, ReturnType DEF Types
  <2> QED
    BY <2>1, <2>2, <2>4 DEF Synchronous
<1>3. ASSUME \/ Isr \/ Shift \/ UNCHANGED vars
             \/ \E t \in Thread : ApiRelease(t)
      PROVE  Synchronous'
  <2>1. UNCHANGED <<th, due, asynchronous>>
    BY <1>3 DEF Synchronous, Isr, Shift, IsrOverrun, IsrRead, IsrFill, IsrClear, Complete,
       vars, ApiRelease
  <2> QED
    BY <2>1 DEF Synchronous
<1> QED
  BY <1>1, <1>2, <1>3 DEF Next

(* Steps that move no words and neither begin nor end a transfer.           *)
Core(G) == Controller /\ \A t \in Thread : Transfer(G, t)

LEMMA MoveQuiet ==
  ASSUME NEW G, Core(G),
         UNCHANGED <<loop, xfer, isr, sync, syncStatus, ror, txf, rxf>>,
         \A t \in Thread :
           /\ Busy(t)' <=> Busy(t)
           /\ Moving(t)' <=> Moving(t)
           /\ th'[t].pc \in {"cson", "drain", "read"} => th[t].pc \in {"cson", "drain", "read"}
           /\ th'[t].pc = "read" => th[t].pc = "read"
           /\ th'[t].pc = "fill" => th[t].pc = "fill"
           /\ th'[t].pc \in {"csoff", "release"} /\ th'[t].ret # "unsupported" =>
                th[t].pc \in {"csoff", "release"} /\ th[t].ret # "unsupported"
  PROVE  Core(G)'
<1>1. Controller'
  BY DEF Core, Controller
<1>2. ASSUME NEW t \in Thread PROVE Transfer(G, t)'
  BY DEF Core, Transfer
<1> QED
  BY <1>1, <1>2 DEF Core

LEMMA MoveQuietSteps ==
  ASSUME NEW G, Types, Core(G), NEW t \in Thread,
         \/ Call(t) \/ LockCheck(t) \/ LockTake(t) \/ LockMode(t) \/ Configure(t)
         \/ CsOn(t) \/ CsOff(t) \/ Release(t) \/ ApiRelease(t)
  PROVE  Core(G)'
<1> USE DEF At, ctxVars, hwVars, usrVars
<1>1. UNCHANGED <<loop, xfer, isr, sync, syncStatus, ror, txf, rxf>>
  BY DEF Call, LockCheck, LockTake, LockMode, Configure, CsOn, CsOff, Release, ApiRelease
<1>2. th \in [Thread -> ThreadType]
  BY DEF Types
<1> DEFINE Early == {"idle", "lock", "take", "mode", "configure", "setup"}
<1>3. /\ \A u \in Thread \ {t} : th'[u] = th[u]
      /\ \/ UNCHANGED th
         \/ th[t].pc \in Early /\ th'[t].pc \in Early
         \/ th'[t].pc = "release" /\ th'[t].ret = "unsupported" /\ th[t].pc = "configure"
         \/ th[t].pc = "cson" /\ th'[t].pc = "drain"
         \/ th[t].pc = "csoff" /\ th'[t].pc = "release" /\ th'[t].ret = th[t].ret
         \/ th[t].pc = "release" /\ th'[t].pc = "idle"
  <2>1. CASE Call(t)
    <3>1. th[t].pc = "idle"
      BY <2>1 DEF Call
    <3> QED
      BY <1>2, <2>1, <3>1, CallType
  <2>2. CASE LockCheck(t) \/ LockTake(t) \/ LockMode(t)
    <3>1. PICK pc \in {"take", "mode", "configure"} : Goto(t, pc)
      BY <2>2 DEF LockCheck, LockTake, LockMode
    <3>2. pc \in Pcs /\ th[t].pc \in Early
      BY <2>2 DEF Pcs, LockCheck, LockTake, LockMode
    <3> QED
      BY <1>2, <3>1, <3>2, GotoType
  <2>3. CASE Configure(t)
    <3>1. {"setup", "release"} \subseteq Pcs /\ "unsupported" \in Rets
      BY DEF Pcs, Rets
    <3>2. th[t].pc = "configure"
          /\ (Goto(t, "setup") \/ Return(t, "release", "unsupported"))
      BY <2>3 DEF Configure
    <3> QED
      BY <1>2, <3>1, <3>2, GotoType, ReturnType
  <2>4. CASE CsOn(t) \/ CsOff(t)
    <3>1. "drain" \in Pcs /\ "release" \in Pcs
      BY DEF Pcs
    <3>2. \/ th[t].pc = "cson" /\ Goto(t, "drain")
          \/ th[t].pc = "csoff" /\ Goto(t, "release")
      BY <2>4 DEF CsOn, CsOff
    <3> QED
      BY <1>2, <3>1, <3>2, GotoType
  <2>5. CASE Release(t)
    <3>1. "idle" \in Pcs /\ "ok" \in Rets
      BY DEF Pcs, Rets
    <3>2. th[t].pc = "release" /\ Return(t, "idle", "ok")
      BY <2>5 DEF Release
    <3> QED
      BY <1>2, <3>1, <3>2, ReturnType
  <2>6. CASE ApiRelease(t)
    BY <2>6 DEF ApiRelease
  <2> QED
    BY <2>1, <2>2, <2>3, <2>4, <2>5, <2>6
<1>4. ASSUME NEW u \in Thread
      PROVE  /\ Busy(u)' <=> Busy(u)
             /\ Moving(u)' <=> Moving(u)
             /\ th'[u].pc \in {"cson", "drain", "read"} => th[u].pc \in {"cson", "drain", "read"}
             /\ th'[u].pc = "read" => th[u].pc = "read"
             /\ th'[u].pc = "fill" => th[u].pc = "fill"
             /\ th'[u].pc \in {"csoff", "release"} /\ th'[u].ret # "unsupported" =>
                  th[u].pc \in {"csoff", "release"} /\ th[u].ret # "unsupported"
  <2>1. CASE th'[u] = th[u]
    BY <2>1 DEF Busy, Moving
  <2>2. CASE u = t
    BY <1>3, <2>2 DEF Busy, Moving
  <2> QED
    BY <1>3, <2>1, <2>2
<1> QED
  BY <1>1, <1>4, MoveQuiet

(* The thread that is inside is the only one that anything is said of.      *)
LEMMA SoleTransfer ==
  ASSUME NEW G, NEW t \in Thread, Controller', Transfer(G, t)',
         \A u \in Thread \ {t} : ~Inside(u) /\ th'[u] = th[u]
  PROVE  Core(G)'
<1>1. ASSUME NEW u \in Thread, u # t PROVE Transfer(G, u)'
  BY <1>1 DEF Inside, Transfer, Busy, Moving
<1> QED
  BY <1>1 DEF Core

(* What is said of a transfer's buffers depends on nothing else in it.      *)
LEMMA SameBufs ==
  ASSUME NEW x, NEW y, x.tx = y.tx, x.rx = y.rx
  PROVE  /\ Chunk(x) = Chunk(y) /\ Left(x) = Left(y) /\ Bufs(x) = Bufs(y)
         /\ Ongoing(x) <=> Ongoing(y)
  BY DEF Chunk, Left, Bufs, Ongoing

LEMMA SteadyRest ==
  ASSUME NEW G, Steady(G), NEW x, Bufs(x) \in G,
         NEW y, y.tx = Update(x.tx, Chunk(x)), y.rx = Update(x.rx, Chunk(x))
  PROVE  Bufs(y) \in G /\ (Ongoing(y) => Chunk(x) <= Chunk(y))
<1>1. Bufs(x).tx = x.tx /\ Bufs(x).rx = x.rx
  BY DEF Bufs
<1>2. Chunk(Bufs(x)) = Chunk(x)
  BY <1>1, SameBufs
<1>3. Bufs(y) = Rest(Bufs(x))
  BY <1>1, <1>2 DEF Bufs, Rest
<1>4. Rest(Bufs(x)).tx = y.tx /\ Rest(Bufs(x)).rx = y.rx
  BY <1>1, <1>2 DEF Rest
<1>5. Chunk(Rest(Bufs(x))) = Chunk(y) /\ (Ongoing(Rest(Bufs(x))) <=> Ongoing(y))
  BY <1>4, SameBufs
<1> QED
  BY <1>2, <1>3, <1>5 DEF Steady

LEMMA SetupStep ==
  ASSUME NEW G, Steady(G), Types, LockInv, LockInv', Core(G), NEW t \in Thread, Setup(t)
  PROVE  Core(G)'
<1>1. /\ th[t].pc = "setup" /\ Inside(t) /\ isr.pc = "none" /\ syncStatus' = "ok"
      /\ Goto(t, "cson") /\ UNCHANGED <<isr, sync, ror, txf, rxf>>
  BY DEF Setup, At, ThreadRuns, Inside, hwVars
<1>2. PICK r \in Transfers :
        xfer' = [xfer EXCEPT !.who = t, !.tx = NonEmpty(r.tx), !.rx = NonEmpty(r.rx),
                             !.words = 0, !.want = Greater(Sum(r.tx), Sum(r.rx))]
  BY DEF Setup
<1>3. /\ xfer'.who = t /\ xfer'.tx = NonEmpty(r.tx) /\ xfer'.rx = NonEmpty(r.rx)
      /\ xfer'.words = 0 /\ xfer'.want = Greater(Sum(r.tx), Sum(r.rx))
  BY <1>2 DEF Types, XferType
<1>4. /\ Sum(NonEmpty(r.tx)) = Sum(r.tx) /\ Sum(NonEmpty(r.rx)) = Sum(r.rx)
  BY HardwareAssumption, NonEmptyType
<1>5. xfer'.want = Left(xfer')
  BY <1>3, <1>4 DEF Left
<1>6. Bufs(xfer') \in G
  BY <1>3 DEF Bufs, Steady
<1>7. /\ th'[t].pc = "cson"
      /\ \A u \in Thread \ {t} : th'[u] = th[u] /\ ~Inside(u)
  <2>1. "cson" \in Pcs /\ th \in [Thread -> ThreadType]
    BY DEF Pcs, Types
  <2> QED
    BY <1>1, <2>1, GotoType, OneHolder
<1>8. \A u \in Thread : ~Moving(u)
  BY <1>1, <1>7 DEF Moving, Inside
<1>9. txf = 0 /\ rxf = 0 /\ sync # 1 /\ ~ror
  BY <1>8 DEF Core, Controller, Types
<1>10. Controller'
  <2>1. Busy(t)'
    BY <1>7 DEF Busy
  <2> QED
    BY <1>1, <1>9, <2>1 DEF Controller
<1>11. Transfer(G, t)'
  BY <1>3, <1>5, <1>6, <1>7 DEF Transfer, Busy, Moving
<1> QED
  BY <1>7, <1>10, <1>11, SoleTransfer

LEMMA DrainStep ==
  ASSUME NEW G, Types, LockInv, Core(G), NEW t \in Thread, StartDrain(t)
  PROVE  Core(G)'
<1>1. /\ th[t].pc = "drain" /\ Inside(t) /\ isr.pc = "none" /\ txf = 0
      /\ rxf' = 0 /\ ror' = FALSE
      /\ xfer' = [xfer EXCEPT !.txCount = 0, !.rxCount = 0]
      /\ Goto(t, "read") /\ UNCHANGED <<isr, sync, syncStatus, txf>>
  BY DEF StartDrain, At, ThreadRuns, Inside, ctxVars
<1>2. /\ xfer'.who = xfer.who /\ xfer'.tx = xfer.tx /\ xfer'.rx = xfer.rx
      /\ xfer'.txCount = 0 /\ xfer'.rxCount = 0
      /\ xfer'.words = xfer.words /\ xfer'.want = xfer.want
  BY <1>1 DEF Types, XferType
<1>3. /\ Left(xfer') = Left(xfer) /\ Bufs(xfer') = Bufs(xfer)
      /\ Ongoing(xfer') <=> Ongoing(xfer)
  BY <1>2, SameBufs
<1>4. /\ th'[t].pc = "read"
      /\ \A u \in Thread \ {t} : th'[u] = th[u] /\ ~Inside(u)
  <2>1. "read" \in Pcs /\ th \in [Thread -> ThreadType]
    BY DEF Pcs, Types
  <2> QED
    BY <1>1, <2>1, GotoType, OneHolder
<1>5. sync # 1
  BY <1>1, <1>4 DEF Core, Controller, Moving, Inside
<1>6. Controller'
  <2>1. Busy(t)'
    BY <1>4 DEF Busy
  <2> QED
    BY <1>1, <1>5, <2>1 DEF Core, Controller
<1>7. Transfer(G, t)'
  <2>1. /\ xfer.who = t /\ (Ongoing(xfer) => Bufs(xfer) \in G)
        /\ xfer.words = 0 /\ xfer.want = Left(xfer)
    BY <1>1 DEF Core, Transfer, Busy
  <2> QED
    BY <1>2, <1>3, <1>4, <2>1 DEF Transfer, Busy, Moving
<1> QED
  BY <1>4, <1>6, <1>7, SoleTransfer

(* Nothing has been received yet when the thread looks for the first time.   *)
LEMMA ReadStep ==
  ASSUME NEW G, Types, LockInv, Core(G), NEW t \in Thread, StartRead(t)
  PROVE  Core(G)'
<1> DEFINE r == AfterRead
<1>1. /\ th[t].pc = "read" /\ Inside(t) /\ isr.pc = "none"
      /\ xfer' = r.xfer /\ rxf' = rxf - r.taken
      /\ Goto(t, IF r.done THEN "wait" ELSE "fill")
      /\ loop' = [loop EXCEPT ![t].n = Chunk(r.xfer)]
      /\ UNCHANGED <<isr, ror, txf>>
      /\ ~r.done => UNCHANGED <<sync, syncStatus>>
  BY DEF StartRead, At, ThreadRuns, Inside
<1>2. \A u \in Thread \ {t} : ~Inside(u)
  BY <1>1, OneHolder
<1>3. /\ xfer.who = t /\ (Ongoing(xfer) => Bufs(xfer) \in G)
      /\ xfer.words = 0 /\ xfer.want = Left(xfer)
      /\ xfer.txCount = 0 /\ xfer.rxCount = 0
  BY <1>1 DEF Core, Transfer, Busy
<1>4. txf = 0 /\ rxf = 0 /\ sync # 1 /\ ~ror /\ syncStatus = "ok"
  BY <1>1, <1>2 DEF Core, Controller, Types, Moving, Inside
<1>5. IsBufs(xfer) /\ Chunk(xfer) \in Nat /\ (~Ongoing(xfer) => Chunk(xfer) = 0)
      /\ xfer \in XferType /\ rxf \in Nat
  BY <1>4, ChunkFits DEF Types, XferType, IsBufs
<1>6. /\ ~r.done /\ r.taken = 0
      /\ r.xfer.who = t /\ r.xfer.tx = xfer.tx /\ r.xfer.rx = xfer.rx
      /\ r.xfer.txCount = 0 /\ r.xfer.rxCount = 0
      /\ r.xfer.words = 0 /\ r.xfer.want = xfer.want
  <2> HIDE DEF r
  <2>1. r = AfterRead
    BY DEF r
  <2> QED
    BY <1>3, <1>4, <1>5, <2>1, AfterReadIs
<1> HIDE DEF r
<1>7. /\ Left(r.xfer) = Left(xfer) /\ Bufs(r.xfer) = Bufs(xfer)
      /\ Chunk(r.xfer) = Chunk(xfer)
      /\ Ongoing(r.xfer) <=> Ongoing(xfer)
  BY <1>6, SameBufs
<1>8. /\ th'[t].pc = "fill" /\ \A u \in Thread \ {t} : th'[u] = th[u]
      /\ loop'[t].n = Chunk(xfer)
  <2>1. "fill" \in Pcs /\ th \in [Thread -> ThreadType] /\ Goto(t, "fill")
    BY <1>1, <1>6 DEF Pcs, Types
  <2>2. loop[t] \in LoopType /\ loop' = [loop EXCEPT ![t] = [loop[t] EXCEPT !.n = Chunk(xfer)]]
    BY <1>1, <1>7 DEF Types
  <2>3. loop'[t].n = Chunk(xfer)
    BY <2>2 DEF Types, LoopType
  <2> QED
    BY <2>1, <2>3, GotoType
<1>9. Controller'
  <2>1. Busy(t)'
    BY <1>8 DEF Busy
  <2> QED
    BY <1>1, <1>4, <1>6, <2>1 DEF Controller
<1>10. Transfer(G, t)'
  <2>1. txf' = 0 /\ rxf' = 0
    BY <1>1, <1>4, <1>6
  <2>2. xfer'.want + xfer'.rxCount = xfer'.words + Left(xfer')
    BY <1>1, <1>3, <1>5, <1>6, <1>7, LeftType
  <2>3. ~Ongoing(xfer') => xfer'.words = xfer'.want
    BY <1>1, <1>3, <1>5, <1>6, <1>7, LeftType
  <2> QED
    BY <1>1, <1>3, <1>5, <1>6, <1>7, <1>8, <2>1, <2>2, <2>3 DEF Transfer, Busy, Moving
<1> QED
  BY <1>2, <1>8, <1>9, <1>10, SoleTransfer

(* A word written by the thread or the interrupt handler is one of the       *)
(* chunk under way.                                                         *)
LEMMA FillKeeps ==
  ASSUME NEW G, Types, NEW t \in Thread, Moving(t), Transfer(G, t), Ongoing(xfer),
         xfer.txCount < Chunk(xfer), FillWord, UNCHANGED rxf
  PROVE  /\ Ongoing(xfer') /\ Chunk(xfer') = Chunk(xfer) /\ xfer'.who = xfer.who
         /\ Bufs(xfer') = Bufs(xfer)
         /\ txf' + rxf' + xfer'.rxCount = xfer'.txCount /\ xfer'.txCount <= Chunk(xfer')
         /\ xfer'.want + xfer'.rxCount = xfer'.words + Left(xfer')
<1>1. txf' = txf + 1 /\ xfer' = [xfer EXCEPT !.txCount = @ + 1] /\ rxf' = rxf
  BY DEF FillWord
<1>2. /\ xfer'.txCount = xfer.txCount + 1
      /\ xfer'.who = xfer.who /\ xfer'.tx = xfer.tx /\ xfer'.rx = xfer.rx
      /\ xfer'.rxCount = xfer.rxCount /\ xfer'.words = xfer.words
      /\ xfer'.want = xfer.want
  BY <1>1, CountWord DEF Types
<1>3. /\ Left(xfer') = Left(xfer) /\ Bufs(xfer') = Bufs(xfer)
      /\ Chunk(xfer') = Chunk(xfer) /\ (Ongoing(xfer') <=> Ongoing(xfer))
  BY <1>2, SameBufs
<1>4. /\ xfer.txCount \in Nat /\ xfer.rxCount \in Nat /\ txf \in Nat /\ rxf \in Nat
      /\ Chunk(xfer) \in Nat
  BY ChunkFits, HardwareAssumption DEF Types, XferType, IsBufs
<1>5. /\ txf + rxf + xfer.rxCount = xfer.txCount
      /\ xfer.want + xfer.rxCount = xfer.words + Left(xfer)
  BY DEF Transfer
<1> QED
  BY <1>1, <1>2, <1>3, <1>4, <1>5

LEMMA FillStep ==
  ASSUME NEW G, Types, LockInv, Core(G), NEW t \in Thread, StartFill(t)
  PROVE  Core(G)'
<1>1. /\ th[t].pc = "fill" /\ Inside(t) /\ Moving(t) /\ isr.pc = "none"
      /\ UNCHANGED <<isr, ror, rxf, sync, syncStatus>>
  BY DEF StartFill, At, ThreadRuns, Inside, Moving, ctxVars
<1>2. \A u \in Thread \ {t} : ~Inside(u)
  BY <1>1, OneHolder
<1>3. Transfer(G, t) /\ Controller
  BY DEF Core
<1>4. /\ xfer.txCount \in Nat /\ Chunk(xfer) \in Nat
      /\ loop[t] \in LoopType /\ loop[t].n \in Nat
  BY ChunkFits DEF Types, XferType, IsBufs, LoopType
<1>5. CASE MayFill(loop[t])
  <2>1. /\ FillWord /\ UNCHANGED th /\ xfer.txCount < loop[t].n
        /\ loop' = [loop EXCEPT ![t].i = @ + 1]
    BY <1>1, <1>5 DEF StartFill, MayFill
  <2>2. Ongoing(xfer)
    BY <1>1, <1>3, <1>4, <2>1 DEF Transfer
  <2>3. loop[t].n <= Chunk(xfer) /\ xfer.txCount < Chunk(xfer)
    BY <1>1, <1>3, <1>4, <2>1, <2>2 DEF Transfer
  <2>4. loop'[t].n = loop[t].n
    BY <1>4, <2>1 DEF Types, LoopType
  <2>5. /\ Ongoing(xfer') /\ Chunk(xfer') = Chunk(xfer) /\ xfer'.who = xfer.who
        /\ Bufs(xfer') = Bufs(xfer)
        /\ txf' + rxf' + xfer'.rxCount = xfer'.txCount /\ xfer'.txCount <= Chunk(xfer')
        /\ xfer'.want + xfer'.rxCount = xfer'.words + Left(xfer')
    BY <1>1, <1>3, <2>1, <2>2, <2>3, FillKeeps
  <2>6. Transfer(G, t)'
    BY <1>1, <1>3, <2>1, <2>2, <2>3, <2>4, <2>5 DEF Transfer, Busy, Moving
  <2>7. Controller'
    BY <1>1, <1>3, <2>1, <2>2, <2>5 DEF Controller, Moving, Busy
  <2> QED
    BY <1>2, <2>1, <2>6, <2>7, SoleTransfer
<1>6. CASE ~MayFill(loop[t])
  <2>1. Goto(t, "wait") /\ UNCHANGED <<txf, xfer>>
    BY <1>1, <1>6 DEF StartFill
  <2>2. th'[t].pc = "wait" /\ \A u \in Thread \ {t} : th'[u] = th[u]
    <3>1. "wait" \in Pcs /\ th \in [Thread -> ThreadType]
      BY DEF Pcs, Types
    <3> QED
      BY <2>1, <3>1, GotoType
  <2>3. Transfer(G, t)'
    BY <1>1, <1>3, <2>1, <2>2 DEF Transfer, Busy, Moving
  <2>4. Controller'
    <3>1. Busy(t)' /\ Moving(t)'
      BY <2>2 DEF Busy, Moving
    <3> QED
      BY <1>1, <1>3, <2>1, <3>1 DEF Controller
  <2> QED
    BY <1>2, <2>2, <2>3, <2>4, SoleTransfer
<1> QED
  BY <1>5, <1>6

(* The semaphore was given when the transfer was complete.                  *)
LEMMA WaitStep ==
  ASSUME NEW G, Types, LockInv, Synchronous, Core(G), NEW t \in Thread, WaitDone(t)
  PROVE  Core(G)'
<1>1. /\ th[t].pc = "wait" /\ Inside(t) /\ isr.pc = "none" /\ sync = 1 /\ sync' = 0
      /\ Return(t, "csoff", syncStatus)
      /\ UNCHANGED <<isr, ror, txf, rxf, syncStatus, xfer>>
  BY DEF WaitDone, At, ThreadRuns, Inside, Synchronous, hwVars
<1>2. \A u \in Thread \ {t} : ~Inside(u)
  BY <1>1, OneHolder
<1>3. ~Ongoing(xfer) /\ txf = 0 /\ rxf = 0 /\ ~ror /\ syncStatus = "ok"
  BY <1>1 DEF Core, Controller, Types
<1>4. xfer.who = t /\ xfer.words = xfer.want
  BY <1>1, <1>3 DEF Core, Transfer, Busy, Moving
<1>5. /\ th'[t].pc = "csoff" /\ \A u \in Thread \ {t} : th'[u] = th[u]
  <2>1. "csoff" \in Pcs /\ th \in [Thread -> ThreadType] /\ syncStatus \in Rets
    BY <1>3 DEF Pcs, Types, Rets
  <2> QED
    BY <1>1, <2>1, ReturnType
<1>6. Transfer(G, t)'
  BY <1>1, <1>3, <1>4, <1>5 DEF Transfer, Busy, Moving
<1>7. Controller'
  BY <1>1, <1>3 DEF Controller
<1> QED
  BY <1>2, <1>5, <1>6, <1>7, SoleTransfer

LEMMA IsrFillStep ==
  ASSUME NEW G, Types, LockInv, Core(G), IsrFill
  PROVE  Core(G)'
<1>1. /\ isr.pc = "fill" /\ UNCHANGED <<th, loop, sync, syncStatus, ror, rxf>>
  BY DEF IsrFill, ctxVars
<1>2. Ongoing(xfer) /\ isr.n <= Chunk(xfer) /\ Controller
  BY <1>1 DEF Core, Controller
<1>3. PICK t \in Thread : Moving(t)
  BY <1>1 DEF Core, Controller
<1>4. Transfer(G, t) /\ Inside(t)
  BY <1>3 DEF Core, Moving, Inside
<1>5. \A u \in Thread \ {t} : ~Inside(u)
  BY <1>4, OneHolder
<1>6. /\ xfer.txCount \in Nat /\ Chunk(xfer) \in Nat
      /\ isr \in IsrType /\ isr.n \in Nat
  BY ChunkFits DEF Types, XferType, IsBufs, IsrType
<1>7. Moving(t)' /\ Busy(t)' /\ \A u \in Thread \ {t} : th'[u] = th[u]
  BY <1>1, <1>3 DEF Moving, Busy
<1>8. CASE MayFill(isr)
  <2>1. /\ FillWord /\ xfer.txCount < isr.n /\ isr' = [isr EXCEPT !.i = @ + 1]
    BY <1>8 DEF IsrFill, MayFill
  <2>2. xfer.txCount < Chunk(xfer)
    BY <1>2, <1>6, <2>1
  <2>3. isr'.n = isr.n
    BY <1>6, <2>1 DEF IsrType
  <2>4. /\ Ongoing(xfer') /\ Chunk(xfer') = Chunk(xfer) /\ xfer'.who = xfer.who
        /\ Bufs(xfer') = Bufs(xfer)
        /\ txf' + rxf' + xfer'.rxCount = xfer'.txCount /\ xfer'.txCount <= Chunk(xfer')
        /\ xfer'.want + xfer'.rxCount = xfer'.words + Left(xfer')
    BY <1>1, <1>2, <1>3, <1>4, <2>1, <2>2, FillKeeps
  <2>5. Transfer(G, t)'
    BY <1>1, <1>2, <1>3, <1>4, <2>4 DEF Transfer, Busy, Moving
  <2>6. Controller'
    BY <1>1, <1>2, <1>7, <2>3, <2>4 DEF Controller
  <2> QED
    BY <1>5, <1>7, <2>5, <2>6, SoleTransfer
<1>9. CASE ~MayFill(isr)
  <2>1. isr' = [isr EXCEPT !.pc = "clear"] /\ UNCHANGED <<txf, xfer>>
    BY <1>9 DEF IsrFill
  <2>2. isr'.pc # "fill"
    BY <1>6, <2>1 DEF IsrType
  <2>3. Transfer(G, t)'
    BY <1>1, <1>4, <2>1 DEF Transfer, Busy, Moving
  <2>4. Controller'
    BY <1>1, <1>2, <1>7, <2>1, <2>2 DEF Controller
  <2> QED
    BY <1>5, <1>7, <2>3, <2>4, SoleTransfer
<1> QED
  BY <1>8, <1>9

LEMMA IsrClearStep ==
  ASSUME NEW G, Core(G), IsrClear
  PROVE  Core(G)'
<1>1. /\ ror' = FALSE /\ isr'.pc # "fill"
      /\ UNCHANGED <<th, loop, xfer, sync, syncStatus, txf, rxf>>
  BY DEF IsrClear, NoIsr, ctxVars
<1>2. Controller'
  BY <1>1 DEF Core, Controller, Moving, Busy
<1>3. ASSUME NEW u \in Thread PROVE Transfer(G, u)'
  BY <1>1 DEF Core, Transfer, Moving, Busy
<1> QED
  BY <1>2, <1>3 DEF Core

LEMMA ShiftStep ==
  ASSUME NEW G, Types, LockInv, Core(G), Shift, ~failed'
  PROVE  Core(G)'
<1>1. /\ txf > 0 /\ txf' = txf - 1 /\ rxf' = rxf + 1
      /\ UNCHANGED <<th, loop, xfer, isr, sync, syncStatus, ror>>
  BY DEF Shift, ctxVars
<1>2. Ongoing(xfer) /\ Controller
  BY <1>1 DEF Core, Controller
<1>3. PICK t \in Thread : Moving(t)
  BY <1>1 DEF Core, Controller
<1>4. Transfer(G, t) /\ Inside(t)
  BY <1>3 DEF Core, Moving, Inside
<1>5. \A u \in Thread \ {t} : ~Inside(u)
  BY <1>4, OneHolder
<1>6. txf \in Nat /\ rxf \in Nat /\ xfer.rxCount \in Nat
  BY HardwareAssumption DEF Types, XferType
<1>7. txf' + rxf' + xfer.rxCount = txf + rxf + xfer.rxCount
  BY <1>1, <1>6
<1>8. Transfer(G, t)'
  BY <1>1, <1>2, <1>4, <1>7 DEF Transfer, Busy, Moving
<1>9. Controller'
  BY <1>1, <1>2, <1>3 DEF Controller, Moving, Busy
<1> QED
  BY <1>1, <1>5, <1>8, <1>9, SoleTransfer

(* What the interrupt handler finds is of the chunk under way; a finished    *)
(* chunk leaves nothing behind in either FIFO.                               *)
LEMMA IsrReadStep ==
  ASSUME NEW G, ~SpiAsync, Steady(G), Types, LockInv, Core(G), IsrRead
  PROVE  Core(G)'
<1> DEFINE r == AfterRead
           n == Chunk(xfer)
<1>1. /\ rxf > 0 /\ ~ror /\ xfer' = r.xfer /\ rxf' = rxf - r.taken
      /\ isr' = [pc |-> IF r.done THEN "clear" ELSE "fill", n |-> Chunk(r.xfer), i |-> 0]
      /\ UNCHANGED <<th, loop, ror, txf>>
      /\ r.done => sync' = 1 /\ syncStatus' = "ok"
      /\ ~r.done => UNCHANGED <<sync, syncStatus>>
  BY DEF IsrRead, Complete
<1>2. Ongoing(xfer) /\ sync # 1 /\ syncStatus = "ok"
  BY <1>1 DEF Core, Controller
<1>3. PICK t \in Thread : Moving(t)
  BY <1>1 DEF Core, Controller
<1>4. Transfer(G, t) /\ Inside(t) /\ Busy(t)
  BY <1>3 DEF Core, Moving, Inside, Busy
<1>5. \A u \in Thread \ {t} : ~Inside(u) /\ th'[u] = th[u]
  BY <1>1, <1>4, OneHolder
<1>6. Moving(t)' /\ Busy(t)'
  BY <1>1, <1>3 DEF Moving, Busy
<1>7. /\ xfer \in XferType /\ IsBufs(xfer) /\ txf \in Nat /\ rxf \in Nat
      /\ xfer.txCount \in Nat /\ xfer.rxCount \in Nat
      /\ xfer.words \in Nat /\ xfer.want \in Nat /\ n \in Nat
  BY HardwareAssumption, ChunkFits DEF Types, XferType, IsBufs
<1>8. /\ txf + rxf + xfer.rxCount = xfer.txCount /\ xfer.txCount <= n
      /\ xfer.want + xfer.rxCount = xfer.words + Left(xfer)
      /\ xfer.who = t /\ Bufs(xfer) \in G
      /\ th[t].pc = "fill" => loop[t].n <= n
  BY <1>2, <1>3, <1>4 DEF Transfer
<1>9. /\ r.taken = IF xfer.rxCount < n THEN Lesser(rxf, n - xfer.rxCount) ELSE 0
      /\ r.xfer.who = xfer.who /\ r.xfer.want = xfer.want
      /\ r.xfer.words = xfer.words + r.taken
      /\ r.done \in BOOLEAN
      /\ \/ /\ ~(n > 0 /\ xfer.txCount >= n /\ xfer.rxCount + r.taken >= n)
            /\ ~r.done
            /\ r.xfer.tx = xfer.tx /\ r.xfer.rx = xfer.rx
            /\ r.xfer.txCount = xfer.txCount
            /\ r.xfer.rxCount = xfer.rxCount + r.taken
         \/ /\ n > 0 /\ xfer.txCount >= n /\ xfer.rxCount + r.taken >= n
            /\ r.xfer.tx = Update(xfer.tx, n) /\ r.xfer.rx = Update(xfer.rx, n)
            /\ \/ r.done /\ ~Ongoing(r.xfer) /\ r.xfer.txCount = xfer.txCount
               \/ ~r.done /\ Ongoing(r.xfer) /\ r.xfer.txCount = 0 /\ r.xfer.rxCount = 0
  <2>1. ASSUME NEW q, q = r, NEW m, m = n
        PROVE  /\ q.taken = IF xfer.rxCount < m THEN Lesser(rxf, m - xfer.rxCount) ELSE 0
               /\ q.xfer.who = xfer.who /\ q.xfer.want = xfer.want
               /\ q.xfer.words = xfer.words + q.taken
               /\ q.done \in BOOLEAN
               /\ \/ /\ ~(m > 0 /\ xfer.txCount >= m /\ xfer.rxCount + q.taken >= m)
                     /\ ~q.done
                     /\ q.xfer.tx = xfer.tx /\ q.xfer.rx = xfer.rx
                     /\ q.xfer.txCount = xfer.txCount
                     /\ q.xfer.rxCount = xfer.rxCount + q.taken
                  \/ /\ m > 0 /\ xfer.txCount >= m /\ xfer.rxCount + q.taken >= m
                     /\ q.xfer.tx = Update(xfer.tx, m) /\ q.xfer.rx = Update(xfer.rx, m)
                     /\ \/ q.done /\ ~Ongoing(q.xfer) /\ q.xfer.txCount = xfer.txCount
                        \/ ~q.done /\ Ongoing(q.xfer) /\ q.xfer.txCount = 0
                           /\ q.xfer.rxCount = 0
    BY <1>7, <2>1, AfterReadIs
  <2> HIDE DEF r, n
  <2> QED
    BY <2>1
<1> HIDE DEF r
<1>10. r.taken = rxf /\ rxf' = 0
  <2> HIDE DEF n
  <2> QED
    BY <1>1, <1>7, <1>8, <1>9 DEF Lesser
<1>11. CASE ~(n > 0 /\ xfer.txCount >= n /\ xfer.rxCount + r.taken >= n)
  <2>1. /\ ~r.done /\ r.xfer.tx = xfer.tx /\ r.xfer.rx = xfer.rx
        /\ r.xfer.txCount = xfer.txCount /\ r.xfer.rxCount = xfer.rxCount + rxf
        /\ r.xfer.words = xfer.words + rxf
    BY <1>9, <1>10, <1>11
  <2>2. /\ Left(xfer') = Left(xfer) /\ Bufs(xfer') = Bufs(xfer) /\ Chunk(xfer') = n
        /\ Ongoing(xfer')
    BY <1>1, <1>2, <2>1, SameBufs
  <2>3. Left(xfer) \in Nat
    BY <1>7, LeftType
  <2> HIDE DEF n
  <2>4. /\ txf' + rxf' + xfer'.rxCount = xfer'.txCount /\ xfer'.txCount <= Chunk(xfer')
        /\ xfer'.want + xfer'.rxCount = xfer'.words + Left(xfer')
    BY <1>1, <1>7, <1>8, <1>9, <1>10, <2>1, <2>2, <2>3
  <2>5. Transfer(G, t)'
    BY <1>1, <1>3, <1>8, <1>9, <2>2, <2>4 DEF Transfer, Moving, Busy
  <2>6. Controller'
    <3>1. isr'.n = Chunk(xfer')
      BY <1>1
    <3>2. isr'.n <= Chunk(xfer')
      BY <1>7, <2>2, <3>1
    <3> QED
      BY <1>1, <1>2, <1>6, <2>1, <2>2, <3>2 DEF Controller
  <2> QED
    BY <1>5, <2>5, <2>6, SoleTransfer
<1>12. CASE n > 0 /\ xfer.txCount >= n /\ xfer.rxCount + r.taken >= n
  <2>1. /\ r.xfer.tx = Update(xfer.tx, n) /\ r.xfer.rx = Update(xfer.rx, n)
        /\ r.xfer.words = xfer.words + rxf
        /\ \/ r.done /\ ~Ongoing(r.xfer) /\ r.xfer.txCount = xfer.txCount
           \/ ~r.done /\ Ongoing(r.xfer) /\ r.xfer.txCount = 0 /\ r.xfer.rxCount = 0
    BY <1>9, <1>10, <1>12
  <2>2. IsBufs(r.xfer) /\ Left(xfer) = n + Left(r.xfer)
    BY <1>2, <1>7, <2>1, ChunkLeft
  <2>3. /\ Left(r.xfer) \in Nat /\ (~Ongoing(r.xfer) => Left(r.xfer) = 0)
        /\ Chunk(r.xfer) \in Nat
    BY <2>2, LeftType, ChunkFits
  <2>4. Bufs(r.xfer) \in G /\ (Ongoing(r.xfer) => n <= Chunk(r.xfer))
    BY <1>8, <2>1, SteadyRest
  <2> HIDE DEF n
  <2>5. txf = 0 /\ xfer.txCount = n /\ xfer.rxCount + rxf = n
    BY <1>7, <1>8, <1>10, <1>12
  <2>6. xfer.want = r.xfer.words + Left(r.xfer)
    BY <1>7, <1>8, <2>1, <2>2, <2>3, <2>5
  <2>7. CASE r.done
    <3>1. ~Ongoing(xfer') /\ xfer'.words = xfer'.want /\ xfer'.txCount = n /\ xfer'.who = t
      <4>1. r.xfer.words \in Nat
        BY <1>7, <2>1
      <4> QED
        BY <1>1, <1>8, <1>9, <2>1, <2>3, <2>5, <2>6, <2>7, <4>1
    <3>2. Transfer(G, t)'
      BY <1>1, <1>3, <1>8, <3>1 DEF Transfer, Moving, Busy
    <3>3. Controller'
      BY <1>1, <1>6, <1>10, <2>5, <2>7, <3>1 DEF Controller
    <3> QED
      BY <1>5, <3>2, <3>3, SoleTransfer
  <2>8. CASE ~r.done
    <3>1. /\ Ongoing(xfer') /\ xfer'.txCount = 0 /\ xfer'.rxCount = 0 /\ xfer'.who = t
          /\ n <= Chunk(xfer') /\ Bufs(xfer') \in G
      BY <1>1, <1>8, <1>9, <2>1, <2>4, <2>8
    <3>2. /\ txf' + rxf' + xfer'.rxCount = xfer'.txCount /\ xfer'.txCount <= Chunk(xfer')
          /\ xfer'.want + xfer'.rxCount = xfer'.words + Left(xfer')
      <4>1. r.xfer.words \in Nat /\ xfer'.want = xfer.want
        BY <1>1, <1>7, <1>9, <2>1
      <4> QED
        BY <1>1, <1>7, <1>10, <2>3, <2>5, <2>6, <3>1, <4>1
    <3>3. th[t].pc = "fill" => loop[t].n <= Chunk(xfer')
      <4>1. loop[t] \in LoopType
        BY DEF Types
      <4>2. loop[t].n \in Nat
        BY <4>1 DEF LoopType
      <4> QED
        BY <1>1, <1>7, <1>8, <2>3, <3>1, <4>2
    <3>4. Transfer(G, t)'
      BY <1>1, <1>3, <3>1, <3>2, <3>3 DEF Transfer, Moving, Busy
    <3>5. Controller'
      <4>1. isr'.n = Chunk(xfer') /\ Chunk(xfer') \in Nat
        BY <1>1, <2>3
      <4> QED
        BY <1>1, <1>2, <1>6, <1>10, <2>5, <2>8, <3>1, <4>1 DEF Controller
    <3> QED
      BY <1>5, <3>4, <3>5, SoleTransfer
  <2> QED
    BY <2>7, <2>8
<1> QED
  BY <1>11, <1>12

(* Without a failed wait or an overrun, MoveInv is kept by every step.       *)
LEMMA MoveStep ==
  ASSUME ~SpiAsync, NEW G, Steady(G), Types, Types', LockInv, LockInv', MoveInv(G),
         [Next]_vars
  PROVE  MoveInv(G)'
<1>1. Synchronous /\ Synchronous'
  BY SynchronousStep DEF MoveInv
<1>2. SUFFICES ASSUME ~failed' PROVE Core(G)'
  BY <1>1 DEF MoveInv, Core
<1>3. ~failed
  <2>1. UNCHANGED failed \/ failed' = TRUE
    <3>1. ASSUME NEW t \in Thread, Call(t) \/ Transceive(t) \/ ApiRelease(t)
          PROVE  UNCHANGED failed \/ failed' = TRUE
      BY <3>1 DEF Call, Transceive, ApiRelease, LockCheck, LockTake, LockMode, Configure,
         Setup, CsOn, StartDrain, StartRead, StartFill, WaitDone, WaitTimeout, CsOff,
         Release, usrVars
    <3>2. ASSUME Isr \/ Shift PROVE UNCHANGED failed \/ failed' = TRUE
      BY <3>2 DEF Isr, Shift, IsrOverrun, IsrRead, IsrFill, IsrClear, usrVars
    <3>3. ASSUME UNCHANGED vars PROVE UNCHANGED failed
      BY <3>3 DEF vars, usrVars
    <3> QED
      BY <3>1, <3>2, <3>3 DEF Next
  <2> QED
    BY <1>2, <2>1 DEF Types
<1>4. Core(G)
  BY <1>3 DEF MoveInv, Core
<1>5. ASSUME NEW t \in Thread, Transceive(t) PROVE Core(G)'
  <2>1. ~WaitTimeout(t)
    BY <1>2 DEF WaitTimeout
  <2> QED
    BY <1>1, <1>4, <1>5, <2>1, MoveQuietSteps, SetupStep, DrainStep, ReadStep, FillStep,
       WaitStep
    DEF Transceive
<1>6. ASSUME NEW t \in Thread, Call(t) \/ ApiRelease(t) PROVE Core(G)'
  BY <1>4, <1>6, MoveQuietSteps
<1>7. CASE Isr
  <2>1. ~IsrOverrun
    BY <1>4 DEF IsrOverrun, Core, Controller
  <2> QED
    BY <1>4, <1>7, <2>1, IsrReadStep, IsrFillStep, IsrClearStep DEF Isr
<1>8. CASE Shift
  BY <1>2, <1>4, <1>8, ShiftStep
<1>9. CASE UNCHANGED vars
  <2>1. /\ UNCHANGED <<loop, xfer, isr, sync, syncStatus, ror, txf, rxf>>
        /\ UNCHANGED th
    BY <1>9 DEF vars, ctxVars, hwVars
  <2> QED
    BY <1>4, <2>1, MoveQuiet DEF Busy, Moving
<1> QED
  BY <1>5, <1>6, <1>7, <1>8, <1>9 DEF Next

LEMMA MoveInvAlways ==
  ASSUME ~SpiAsync, NEW G, Steady(G)
  PROVE  Spec => []MoveInv(G)
<1>1. Types /\ Types' /\ LockInv /\ LockInv' /\ MoveInv(G) /\ [Next]_vars => MoveInv(G)'
  BY MoveStep
<1>2. Init => MoveInv(G)
  BY MoveInit
<1> QED
  BY <1>1, <1>2, TypesAlways, LockInvAlways, PTL DEF Spec

(* A call that reports success has exchanged every word of its buffers: the  *)
(* semaphore it took was given for its own transfer, with nothing left in     *)
(* the FIFOs, unless an earlier wait timed out or a word was lost.           *)
THEOREM SuccessIsTrue ==
  ASSUME ~SpiAsync, ChunksNeverShrink
  PROVE  Spec => []SuccessMeansMoved
<1>1. PICK G : Steady(G)
  BY DEF ChunksNeverShrink
<1>2. MoveInv(G) => SuccessMeansMoved
  BY DEF MoveInv, SuccessMeansMoved, Transfer
<1>3. Spec => []MoveInv(G)
  BY <1>1, MoveInvAlways
<1> QED
  BY <1>2, <1>3, PTL

(* While words are in the TX FIFO their chip is selected: no word is left    *)
(* there when spi_context_cs_control deselects it.                           *)
THEOREM ChipStaysSelected ==
  ASSUME ~SpiAsync, ChunksNeverShrink
  PROVE  Spec => []CsCoversTransfer
<1>1. PICK G : Steady(G)
  BY DEF ChunksNeverShrink
<1>2. MoveInv(G) /\ CsInv => CsCoversTransfer
  BY DEF MoveInv, CsInv, CsThread, CsCoversTransfer, Controller, Moving, Selecting
<1>3. Spec => []MoveInv(G)
  BY <1>1, MoveInvAlways
<1> QED
  BY <1>2, <1>3, CsInvAlways, PTL

(* Who finds the bus free finds the last transfer over: no word is left to    *)
(* exchange, in the buffers or in the TX FIFO.                               *)
THEOREM FreeBusIsIdle ==
  ASSUME ~SpiAsync, ChunksNeverShrink
  PROVE  Spec => []FreeMeansDone
<1>1. PICK G : Steady(G)
  BY DEF ChunksNeverShrink
<1>2. MoveInv(G) /\ LockInv /\ Types => FreeMeansDone
  <2> SUFFICES ASSUME MoveInv(G), LockInv, Types, lock = 1
               PROVE  /\ \A t \in Thread : due[t] = 0
                      /\ ~failed => ~Ongoing(xfer) /\ txf = 0
    BY DEF FreeMeansDone
  <2>1. \A t \in Thread : due[t] = 0 /\ ~Inside(t)
    BY DEF MoveInv, Synchronous, LockInv, Holder
  <2>2. \A t \in Thread : ~Busy(t) /\ ~Moving(t)
    BY <2>1 DEF Inside, Busy, Moving
  <2>3. txf \in Nat
    BY HardwareAssumption DEF Types
  <2> QED
    BY <2>1, <2>2, <2>3 DEF MoveInv, Controller
<1>3. Spec => []MoveInv(G)
  BY <1>1, MoveInvAlways
<1> QED
  BY <1>2, <1>3, LockInvAlways, TypesAlways, PTL

-----------------------------------------------------------------------------
(* Asynchronous calls.  A call is over before its transfer is: from         *)
(* spi_context_complete on the lock may be another thread's while this one  *)
(* still waits, deselects the chip and releases.  So the lock is said to be *)
(* a thread's while it prepares its transfer, while the transfer is on its  *)
(* way (Flying), and, with SPI_LOCK_ON, from the call on; a callback is due *)
(* exactly while the transfer is on its way.                                *)

Prepares(t) ==
  \/ th[t].pc \in {"mode", "configure", "setup"}
  \/ th[t].pc = "release" /\ th[t].ret = "unsupported"

Leaves(t) ==
  \/ th[t].pc \in {"cson", "drain", "read", "fill", "wait", "csoff"}
  \/ th[t].pc = "release" /\ th[t].ret # "unsupported"

Claims(t) ==
  \/ Prepares(t)
  \/ Leaves(t) /\ th[t].cfg \in LockOn
  \/ holds[t] # Boot

Caller(t) ==
  /\ th[t].pc # "idle" =>
       th[t].async /\ th[t].cfg \in CfgOf[t] /\ holds[t] \in {Boot, th[t].cfg}
  /\ th[t].pc \notin {"idle", "lock", "take", "mode"} => asynchronous
  /\ th[t].pc \in {"lock", "take"} \/ Prepares(t) => due[t] = 0
  /\ Prepares(t) => lock = 0 /\ owner = th[t].cfg /\ ~Ongoing(xfer)
  /\ th[t].pc \in {"configure", "setup"} => callback = t
  /\ th[t].pc = "setup" => config = th[t].cfg
  /\ Leaves(t) /\ th[t].cfg \in LockOn => lock = 0 /\ owner = th[t].cfg
  /\ th[t].pc = "csoff" => th[t].ret = "ok"
  /\ th[t].pc = "release" => th[t].ret \in {"ok", "unsupported"}
  /\ holds[t] # Boot => lock = 0 /\ owner = holds[t] /\ holds[t] \in CfgOf[t] \cap LockOn
  /\ due[t] # 2

Flying ==
  Ongoing(xfer) =>
    /\ xfer.who \in Thread /\ callback = xfer.who /\ due[xfer.who] = 1
    /\ lock = 0 /\ owner = config /\ config \in CfgOf[xfer.who]

Calls == Flying /\ \A t \in Thread : Caller(t)

AsyncInv == (ror => failed) /\ (failed \/ Calls)

LEMMA AsyncInit == Init => AsyncInv
  BY DEF Init, AsyncInv, Calls, Flying, Caller, Prepares, Leaves, Ongoing, IdleThread,
         NoXfer

(* The owner is a configuration of one thread only.                         *)
LEMMA OneClaim ==
  ASSUME Calls, NEW t \in Thread, NEW u \in Thread, Claims(t), Claims(u)
  PROVE  t = u /\ lock = 0 /\ owner \in CfgOf[t]
<1>1. \A v \in {t, u} : lock = 0 /\ owner \in CfgOf[v]
  BY DEF Calls, Caller, Claims, Leaves, Prepares
<1> QED
  BY <1>1, ClientAssumption

(* Nobody claims the lock while the transfer of another is on its way.       *)
LEMMA FlyingClaim ==
  ASSUME Calls, NEW t \in Thread, Claims(t), due[t] = 0
  PROVE  ~Ongoing(xfer)
<1>1. lock = 0 /\ owner \in CfgOf[t]
  BY OneClaim
<1>2. SUFFICES ASSUME Ongoing(xfer) PROVE FALSE
  OBVIOUS
<1>3. xfer.who \in Thread /\ owner \in CfgOf[xfer.who] /\ due[xfer.who] = 1
  BY <1>2 DEF Calls, Flying
<1> QED
  BY <1>1, <1>3, ClientAssumption

(* A step that writes nothing of what the invariant speaks of but the        *)
(* position of a thread.                                                    *)
LEMMA CallsQuiet ==
  ASSUME Calls, Ongoing(xfer)' => Ongoing(xfer) /\ xfer'.who = xfer.who,
         UNCHANGED <<lock, owner, config, asynchronous, callback, holds, due>>,
         \A t \in Thread : th'[t] = th[t] \/ Caller(t)'
  PROVE  Calls'
<1>1. Flying'
  BY DEF Calls, Flying
<1>2. ASSUME NEW t \in Thread, th'[t] = th[t] PROVE Caller(t)'
  <2>1. Caller(t)
    BY DEF Calls
  <2>2. (Prepares(t)' <=> Prepares(t)) /\ (Leaves(t)' <=> Leaves(t))
    BY <1>2 DEF Prepares, Leaves
  <2> QED
    BY <1>2, <2>1, <2>2 DEF Caller
<1> QED
  BY <1>1, <1>2 DEF Calls

(* A step of t, which claims the lock or finds it free: the others claim     *)
(* nothing, and what it writes is its own.                                   *)
LEMMA CallsAlone ==
  ASSUME Calls, NEW t \in Thread, Claims(t) \/ lock = 1,
         \A u \in Thread \ {t} : /\ th'[u] = th[u] /\ holds'[u] = holds[u]
                                 /\ due'[u] = due[u],
         asynchronous => asynchronous', Flying', Caller(t)'
  PROVE  Calls'
<1>1. ASSUME NEW u \in Thread, u # t PROVE Caller(u)'
  <2>1. ~Claims(u)
    BY <1>1, OneClaim
  <2>2. /\ Caller(u) /\ th'[u] = th[u] /\ holds'[u] = holds[u] /\ due'[u] = due[u]
    BY <1>1 DEF Calls
  <2>3. (Prepares(u)' <=> Prepares(u)) /\ (Leaves(u)' <=> Leaves(u))
    BY <2>2 DEF Prepares, Leaves
  <2> QED
    BY <2>1, <2>2, <2>3 DEF Caller, Claims, Prepares
<1> QED
  BY <1>1 DEF Calls

(* The steps of a call that only move the thread.                           *)
LEMMA CallsMoves ==
  ASSUME Types, Calls, CallModes = {TRUE}, NEW t \in Thread,
         \/ Call(t) \/ LockCheck(t) \/ CsOn(t) \/ StartDrain(t) \/ StartFill(t)
         \/ WaitDone(t) \/ CsOff(t)
  PROVE  Calls'
<1> USE DEF At, ctxVars, hwVars, usrVars
<1>1. /\ UNCHANGED <<lock, owner, config, asynchronous, callback, holds, due>>
      /\ Caller(t) /\ th \in [Thread -> ThreadType] /\ xfer \in XferType
  BY DEF Call, LockCheck, CsOn, StartDrain, StartFill, WaitDone, CsOff, Calls, Types
<1>2. xfer'.who = xfer.who /\ xfer'.tx = xfer.tx /\ xfer'.rx = xfer.rx
  <2>1. CASE StartFill(t)
    <3>1. UNCHANGED xfer \/ xfer' = [xfer EXCEPT !.txCount = @ + 1]
      BY <2>1 DEF StartFill, FillWord
    <3> QED
      BY <1>1, <3>1, CountWord
  <2>2. CASE StartDrain(t)
    BY <1>1, <2>2 DEF StartDrain, XferType
  <2>3. CASE Call(t) \/ LockCheck(t) \/ CsOn(t) \/ WaitDone(t) \/ CsOff(t)
    BY <2>3 DEF Call, LockCheck, CsOn, WaitDone, CsOff
  <2> QED
    BY <2>1, <2>2, <2>3
<1>3. Ongoing(xfer)' <=> Ongoing(xfer)
  BY <1>2 DEF Ongoing
<1>4. /\ \A u \in Thread \ {t} : th'[u] = th[u]
      /\ Caller(t)'
  <2>1. CASE Call(t)
    <3>1. PICK c \in CfgOf[t], a \in CallModes :
            /\ holds[t] # Boot => c = holds[t]
            /\ th'[t].pc = "lock" /\ th'[t].cfg = c /\ th'[t].async = a
      BY <1>1, <2>1, CallType
    <3>2. due[t] = 0 /\ a
      BY <2>1 DEF Call
    <3>3. ~Prepares(t)' /\ ~Leaves(t)'
      BY <3>1 DEF Prepares, Leaves
    <3>4. \A u \in Thread \ {t} : th'[u] = th[u]
      BY <1>1, <2>1, CallType
    <3> QED
      BY <1>1, <3>1, <3>2, <3>3, <3>4 DEF Caller
  <2>2. CASE LockCheck(t)
    <3> DEFINE pc == IF th[t].cfg \in LockOn /\ lock = 0 /\ owner = th[t].cfg
                     THEN "mode" ELSE "take"
    <3>1. pc \in Pcs /\ Goto(t, pc) /\ th[t].pc = "lock"
      BY <2>2 DEF LockCheck, Pcs
    <3> HIDE DEF pc
    <3>2. /\ th'[t].pc = pc /\ th'[t].cfg = th[t].cfg /\ th'[t].async = th[t].async
          /\ th'[t].ret = th[t].ret /\ \A u \in Thread \ {t} : th'[u] = th[u]
      BY <1>1, <3>1, GotoType
    <3>3. due[t] = 0 /\ th[t].async /\ th[t].cfg \in CfgOf[t]
          /\ holds[t] \in {Boot, th[t].cfg}
      BY <1>1, <3>1 DEF Caller
    <3>4. CASE pc = "take"
      <4>1. ~Prepares(t)' /\ ~Leaves(t)'
        BY <3>2, <3>4 DEF Prepares, Leaves
      <4> QED
        BY <1>1, <3>2, <3>3, <3>4, <4>1 DEF Caller
    <3>5. CASE pc = "mode"
      <4>1. lock = 0 /\ owner = th[t].cfg
        BY <3>5 DEF pc
      <4>2. ~Ongoing(xfer)
        <5>1. SUFFICES ASSUME Ongoing(xfer) PROVE FALSE
          OBVIOUS
        <5>2. xfer.who \in Thread /\ owner \in CfgOf[xfer.who] /\ due[xfer.who] = 1
          BY <5>1 DEF Calls, Flying
        <5> QED
          BY <3>3, <4>1, <5>2, ClientAssumption
      <4>3. ~Leaves(t)'
        BY <3>2, <3>5 DEF Leaves
      <4> QED
        BY <1>1, <1>3, <3>2, <3>3, <3>5, <4>1, <4>2, <4>3 DEF Caller
    <3> QED
      BY <3>4, <3>5 DEF pc
  <2>3. CASE CsOn(t) \/ StartDrain(t) \/ StartFill(t) \/ WaitDone(t) \/ CsOff(t)
    <3>1. /\ th[t].pc \in {"cson", "drain", "fill", "wait", "csoff"}
          /\ \/ \E pc \in {"drain", "read", "wait", "release"} :
                  /\ Goto(t, pc)
                  /\ pc = "release" => th[t].pc = "csoff"
             \/ UNCHANGED th /\ th[t].pc = "fill"
             \/ th[t].pc = "wait" /\ (asynchronous => Return(t, "csoff", "ok"))
      BY <2>3 DEF CsOn, StartDrain, StartFill, WaitDone, CsOff
    <3>2. asynchronous /\ th[t].async /\ th[t].cfg \in CfgOf[t]
          /\ holds[t] \in {Boot, th[t].cfg} /\ Leaves(t)
      BY <1>1, <3>1 DEF Caller, Leaves
    <3>3. {"drain", "read", "wait", "release", "csoff"} \subseteq Pcs /\ "ok" \in Rets
      BY DEF Pcs, Rets
    <3>4. /\ \A u \in Thread \ {t} : th'[u] = th[u]
          /\ th'[t].cfg = th[t].cfg /\ th'[t].async = th[t].async
          /\ th'[t].pc \in {"drain", "read", "fill", "wait", "csoff", "release"}
          /\ th'[t].pc \in {"csoff", "release"} => th'[t].ret = "ok"
      <4>1. CASE UNCHANGED th /\ th[t].pc = "fill"
        BY <4>1
      <4>2. CASE th[t].pc = "wait" /\ Return(t, "csoff", "ok")
        BY <1>1, <3>3, <4>2, ReturnType
      <4>3. ASSUME NEW pc \in {"drain", "read", "wait", "release"}, Goto(t, pc),
                   pc = "release" => th[t].pc = "csoff"
            PROVE  /\ \A u \in Thread \ {t} : th'[u] = th[u]
                   /\ th'[t].cfg = th[t].cfg /\ th'[t].async = th[t].async
                   /\ th'[t].pc \in {"drain", "read", "fill", "wait", "csoff", "release"}
                   /\ th'[t].pc \in {"csoff", "release"} => th'[t].ret = "ok"
        <5>1. /\ \A u \in Thread \ {t} : th'[u] = th[u]
              /\ th'[t].cfg = th[t].cfg /\ th'[t].async = th[t].async
              /\ th'[t].pc = pc /\ th'[t].ret = th[t].ret
          BY <1>1, <3>3, <4>3, GotoType
        <5> QED
          BY <1>1, <4>3, <5>1 DEF Caller
      <4> QED
        BY <3>1, <3>2, <4>1, <4>2, <4>3
    <3>5. Leaves(t)' /\ ~Prepares(t)'
      BY <3>4 DEF Leaves, Prepares
    <3> QED
      BY <1>1, <3>2, <3>4, <3>5 DEF Caller
  <2> QED
    BY <2>1, <2>2, <2>3
<1> QED
  BY <1>1, <1>2, <1>3, <1>4, CallsQuiet

(* The controller, and the words the interrupt handler writes.              *)
LEMMA CallsHw ==
  ASSUME Types, Calls, IsrFill \/ IsrClear \/ Shift
  PROVE  Calls'
<1>1. /\ UNCHANGED <<lock, owner, config, asynchronous, callback, holds, due, th>>
      /\ xfer \in XferType
  BY DEF IsrFill, IsrClear, Shift, Types, ctxVars, hwVars, usrVars
<1>2. xfer'.who = xfer.who /\ xfer'.tx = xfer.tx /\ xfer'.rx = xfer.rx
  <2>1. UNCHANGED xfer \/ xfer' = [xfer EXCEPT !.txCount = @ + 1]
    BY DEF IsrFill, IsrClear, Shift, FillWord
  <2> QED
    BY <1>1, <2>1, CountWord
<1>3. Ongoing(xfer)' <=> Ongoing(xfer)
  BY <1>2 DEF Ongoing
<1> QED
  BY <1>1, <1>2, <1>3, CallsQuiet

(* Nothing is on its way when the lock is free or claimed by a thread whose  *)
(* callback is not due.                                                     *)
LEMMA CallsTake ==
  ASSUME Types, Calls, NEW t \in Thread, LockTake(t) \/ LockMode(t) \/ Configure(t), SpiAsync
  PROVE  Calls'
<1> USE DEF At
<1>1. /\ Caller(t) /\ th \in [Thread -> ThreadType] /\ UNCHANGED <<xfer, holds, due>>
      /\ th[t].pc \in {"take", "mode", "configure"}
  BY DEF LockTake, LockMode, Configure, Calls, Types, usrVars
<1>2. due[t] = 0 /\ th[t].async /\ th[t].cfg \in CfgOf[t] /\ holds[t] \in {Boot, th[t].cfg}
  BY <1>1 DEF Caller, Prepares
<1>3. Claims(t) \/ lock = 1
  BY DEF LockTake, LockMode, Configure, Claims, Prepares
<1>4. ~Ongoing(xfer)
  BY <1>2, <1>3, FlyingClaim DEF Calls, Flying
<1>5. ~Ongoing(xfer)' /\ Flying'
  BY <1>1, <1>4 DEF Ongoing, Flying
<1>6. {"mode", "configure", "setup", "release"} \subseteq Pcs
      /\ "unsupported" \in Rets
  BY DEF Pcs, Rets
<1>7. CASE LockTake(t)
  <2>1. /\ th'[t].pc = "mode" /\ th'[t].cfg = th[t].cfg /\ th'[t].async = th[t].async
        /\ \A u \in Thread \ {t} : th'[u] = th[u]
    BY <1>1, <1>6, <1>7, GotoType DEF LockTake
  <2>2. lock' = 0 /\ owner' = th[t].cfg /\ UNCHANGED <<asynchronous, callback, config>>
        /\ lock = 1
    BY <1>7 DEF LockTake
  <2>3. holds[t] = Boot
    BY <1>1, <2>2 DEF Caller
  <2>4. ~Leaves(t)'
    BY <2>1 DEF Leaves
  <2>5. Caller(t)'
    BY <1>1, <1>2, <1>5, <2>1, <2>2, <2>3, <2>4 DEF Caller
  <2> QED
    BY <1>1, <1>3, <1>5, <2>1, <2>2, <2>5, CallsAlone
<1>8. CASE LockMode(t)
  <2>1. /\ th'[t].pc = "configure" /\ th'[t].cfg = th[t].cfg /\ th'[t].async = th[t].async
        /\ \A u \in Thread \ {t} : th'[u] = th[u]
    BY <1>1, <1>6, <1>8, GotoType DEF LockMode
  <2>2. UNCHANGED <<lock, owner, config>> /\ asynchronous' = TRUE /\ callback' = t
    BY <1>2, <1>8 DEF LockMode, Types, ThreadType
  <2>3. ~Leaves(t)' /\ Prepares(t)
    BY <1>8, <2>1 DEF Leaves, Prepares, LockMode
  <2>4. Caller(t)'
    BY <1>1, <1>2, <1>5, <2>1, <2>2, <2>3 DEF Caller
  <2> QED
    BY <1>1, <1>3, <1>5, <2>1, <2>2, <2>4, CallsAlone
<1>9. CASE Configure(t)
  <2>1. /\ th[t].pc = "configure" /\ UNCHANGED <<lock, owner, asynchronous, callback>>
        /\ \/ Goto(t, "setup") /\ config' = th[t].cfg
           \/ Return(t, "release", "unsupported") /\ UNCHANGED config
    BY <1>9 DEF Configure
  <2>2. /\ th'[t].cfg = th[t].cfg /\ th'[t].async = th[t].async
        /\ \A u \in Thread \ {t} : th'[u] = th[u]
        /\ \/ th'[t].pc = "setup" /\ config' = th[t].cfg
           \/ th'[t].pc = "release" /\ th'[t].ret = "unsupported" /\ UNCHANGED config
    <3>1. CASE Goto(t, "setup") /\ config' = th[t].cfg
      BY <1>1, <1>6, <3>1, GotoType
    <3>2. CASE Return(t, "release", "unsupported") /\ UNCHANGED config
      BY <1>1, <1>6, <3>2, ReturnType
    <3> QED
      BY <2>1, <3>1, <3>2
  <2>3. ~Leaves(t)' /\ Prepares(t)
    BY <2>1, <2>2 DEF Leaves, Prepares
  <2>4. Caller(t)'
    BY <1>1, <1>2, <1>5, <2>1, <2>2, <2>3 DEF Caller
  <2> QED
    BY <1>1, <1>3, <1>5, <2>1, <2>2, <2>4, CallsAlone
<1> QED
  BY <1>7, <1>8, <1>9

(* spi_context_buffers_setup: the callback is due from here on.             *)
LEMMA CallsSetup ==
  ASSUME Types, Calls, NEW t \in Thread, Setup(t)
  PROVE  Calls'
<1> USE DEF At
<1>1. /\ Caller(t) /\ th \in [Thread -> ThreadType] /\ th[t].pc = "setup"
      /\ UNCHANGED <<lock, owner, config, asynchronous, callback, holds>>
      /\ due \in [Thread -> 0 .. 2] /\ xfer \in XferType
  BY DEF Setup, Calls, Types
<1>2. /\ th[t].async /\ th[t].cfg \in CfgOf[t] /\ holds[t] \in {Boot, th[t].cfg}
      /\ asynchronous /\ lock = 0 /\ owner = th[t].cfg /\ config = th[t].cfg
      /\ callback = t /\ Claims(t)
  BY <1>1 DEF Caller, Prepares, Claims
<1>3. due' = [due EXCEPT ![t] = 1]
  BY <1>2 DEF Setup
<1>4. due'[t] = 1 /\ \A u \in Thread \ {t} : due'[u] = due[u]
  BY <1>1, <1>3
<1>5. xfer'.who = t
  BY <1>1 DEF Setup, XferType
<1>6. "cson" \in Pcs
  BY DEF Pcs
<1>7. /\ th'[t].pc = "cson" /\ th'[t].cfg = th[t].cfg /\ th'[t].async = th[t].async
      /\ \A u \in Thread \ {t} : th'[u] = th[u]
  BY <1>1, <1>6, GotoType DEF Setup
<1>8. ~Prepares(t)'
  BY <1>7 DEF Prepares
<1>9. Caller(t)'
  BY <1>1, <1>2, <1>4, <1>7, <1>8 DEF Caller
<1>10. Flying'
  BY <1>1, <1>2, <1>4, <1>5 DEF Flying
<1> QED
  BY <1>1, <1>2, <1>4, <1>7, <1>9, <1>10, CallsAlone

(* spi_context_release gives the lock back only where the transfer was not   *)
(* started: the interrupt handler does it for the others, if not LOCK_ON.    *)
LEMMA CallsRelease ==
  ASSUME Types, Calls, NEW t \in Thread, Release(t) \/ ApiRelease(t), SpiAsync
  PROVE  Calls'
<1> USE DEF At
<1>1. /\ Caller(t) /\ th \in [Thread -> ThreadType] /\ holds \in [Thread -> Cfg \cup {Boot}]
      /\ UNCHANGED <<config, asynchronous, callback, xfer, due>>
  BY DEF Release, ApiRelease, Calls, Types
<1>2. CASE ApiRelease(t)
  <2>1. /\ due[t] = 0 /\ Claims(t) /\ UNCHANGED th
        /\ holds' = [holds EXCEPT ![t] = Boot] /\ th[t].pc = "idle"
    BY <1>2 DEF ApiRelease, Claims
  <2>2. ~Ongoing(xfer)
    BY <2>1, FlyingClaim
  <2>3. Flying'
    BY <1>1, <2>2 DEF Flying, Ongoing
  <2>4. holds'[t] = Boot /\ \A u \in Thread \ {t} : holds'[u] = holds[u]
    BY <1>1, <2>1
  <2>5. ~Prepares(t)' /\ ~Leaves(t)'
    BY <2>1 DEF Prepares, Leaves
  <2>6. Caller(t)'
    BY <1>1, <2>1, <2>4, <2>5 DEF Caller
  <2> QED
    BY <1>1, <2>1, <2>3, <2>4, <2>6, CallsAlone
<1>3. CASE Release(t)
  <2> DEFINE h == IF th[t].cfg \in LockOn /\ th[t].ret # "unsupported"
                  THEN th[t].cfg ELSE Boot
  <2>1. /\ th[t].pc = "release" /\ holds' = [holds EXCEPT ![t] = h] /\ Return(t, "idle", "ok")
        /\ asynchronous /\ th[t].ret \in {"ok", "unsupported"}
    BY <1>1, <1>3 DEF Release, Caller
  <2>2. "idle" \in Pcs /\ "ok" \in Rets
    BY DEF Pcs, Rets
  <2>3. th'[t].pc = "idle" /\ \A u \in Thread \ {t} : th'[u] = th[u]
    BY <1>1, <2>1, <2>2, ReturnType
  <2>4. holds'[t] = h /\ \A u \in Thread \ {t} : holds'[u] = holds[u]
    BY <1>1, <2>1
  <2>5. ~Prepares(t)' /\ ~Leaves(t)'
    BY <2>3 DEF Prepares, Leaves
  <2>6. CASE th[t].ret = "unsupported"
    <3>1. Claims(t) /\ ~Ongoing(xfer)
      BY <1>1, <2>1, <2>6 DEF Claims, Prepares, Caller
    <3>2. Flying'
      BY <1>1, <3>1 DEF Flying, Ongoing
    <3>3. h = Boot
      BY <2>6
    <3> HIDE DEF h
    <3>4. Caller(t)'
      BY <1>1, <2>3, <2>4, <2>5, <3>3 DEF Caller
    <3> QED
      BY <1>1, <2>3, <2>4, <3>1, <3>2, <3>4, CallsAlone
  <2>7. CASE th[t].ret = "ok"
    <3>1. UNCHANGED <<lock, owner>>
      BY <1>3, <2>1, <2>7 DEF Release
    <3>2. Leaves(t) /\ th[t].cfg \in CfgOf[t]
      BY <1>1, <2>1, <2>7 DEF Leaves, Caller
    <3>3. h # Boot => lock = 0 /\ owner = h /\ h \in CfgOf[t] \cap LockOn
      BY <1>1, <3>2 DEF Caller
    <3> HIDE DEF h
    <3>4. Caller(t)'
      BY <1>1, <2>3, <2>4, <2>5, <3>1, <3>3 DEF Caller
    <3>5. Flying'
      BY <1>1, <3>1 DEF Calls, Flying, Ongoing
    <3>6. ASSUME NEW u \in Thread, u # t PROVE Caller(u)'
      <4>1. /\ Caller(u) /\ th'[u] = th[u] /\ holds'[u] = holds[u]
        BY <2>3, <2>4, <3>6 DEF Calls
      <4>2. (Prepares(u)' <=> Prepares(u)) /\ (Leaves(u)' <=> Leaves(u))
        BY <4>1 DEF Prepares, Leaves
      <4> QED
        BY <1>1, <3>1, <4>1, <4>2 DEF Caller
    <3> QED
      BY <3>4, <3>5, <3>6 DEF Calls
  <2> QED
    BY <2>1, <2>6, <2>7
<1> QED
  BY <1>2, <1>3

(* A transfer ends: spi_context_complete calls back the thread it belongs    *)
(* to, and gives the lock back unless it is LOCK_ON.                        *)
LEMMA CompleteCalls ==
  ASSUME Types, Calls, Ongoing(xfer), ~Ongoing(xfer)', Complete("ok"),
         UNCHANGED <<config, asynchronous, callback, holds>>,
         \A t \in Thread : \/ th'[t] = th[t]
                           \/ /\ th[t].pc = "read" /\ th'[t].pc = "wait"
                              /\ th'[t].cfg = th[t].cfg /\ th'[t].async = th[t].async
  PROVE  Calls'
<1>1. Flying'
  BY DEF Flying, Ongoing
<1> DEFINE w == xfer.who
<1>2. /\ w \in Thread /\ callback = w /\ due[w] = 1
      /\ lock = 0 /\ owner = config /\ config \in CfgOf[w]
  BY DEF Calls, Flying
<1>3. w # Boot /\ due \in [Thread -> 0 .. 2]
  BY <1>2, ClientAssumption DEF Types
<1> HIDE DEF w
<1>4. \A t \in Thread : due'[t] = due[t] \/ due'[t] = 0
  <2>1. due' = due \/ due' = [due EXCEPT ![w] = 0]
    BY <1>2, <1>3 DEF Complete
  <2> QED
    BY <1>3, <2>1
<1>5. UNCHANGED <<lock, owner>> \/ owner \notin LockOn
  BY <1>2 DEF Complete
<1>6. ASSUME NEW t \in Thread PROVE Caller(t)'
  <2>1. Caller(t) /\ ~Prepares(t)
    BY DEF Calls, Caller
  <2>2. /\ th'[t].cfg = th[t].cfg /\ th'[t].async = th[t].async
        /\ \/ th'[t] = th[t]
           \/ th[t].pc = "read" /\ th'[t].pc = "wait"
    OBVIOUS
  <2>3. ~Prepares(t)' /\ (Leaves(t)' <=> Leaves(t))
    BY <2>1, <2>2 DEF Prepares, Leaves
  <2>4. th[t].pc \in {"lock", "take"} => due'[t] = 0
    BY <1>4, <2>1 DEF Caller
  <2>5. Leaves(t) /\ th[t].cfg \in LockOn => UNCHANGED <<lock, owner>>
    BY <1>5, <2>1 DEF Caller
  <2>6. holds[t] # Boot => UNCHANGED <<lock, owner>>
    BY <1>5, <2>1 DEF Caller
  <2>7. due'[t] # 2
    BY <1>4, <2>1 DEF Caller
  <2>8. CASE th'[t] = th[t]
    BY <2>1, <2>3, <2>4, <2>5, <2>6, <2>7, <2>8 DEF Caller
  <2>9. CASE th[t].pc = "read" /\ th'[t].pc = "wait"
    BY <2>1, <2>2, <2>3, <2>5, <2>6, <2>7, <2>9 DEF Caller
  <2> QED
    BY <2>2, <2>8, <2>9
<1> QED
  BY <1>1, <1>6 DEF Calls

LEMMA CallsRead ==
  ASSUME Types, Calls, IsrRead \/ \E t \in Thread : StartRead(t)
  PROVE  Calls'
<1> DEFINE r == AfterRead
           n == Chunk(xfer)
<1>1. /\ xfer' = r.xfer /\ th \in [Thread -> ThreadType]
      /\ UNCHANGED <<config, asynchronous, callback, holds>>
      /\ IF r.done THEN Complete("ok") ELSE UNCHANGED <<lock, owner, sync, syncStatus, due>>
  BY DEF IsrRead, StartRead, Types
<1>2. xfer \in XferType /\ rxf \in Nat
  BY HardwareAssumption DEF Types
<1>3. /\ r.xfer.who = xfer.who /\ r.done \in BOOLEAN
      /\ \/ ~r.done /\ r.xfer.tx = xfer.tx /\ r.xfer.rx = xfer.rx
         \/ n > 0 /\ r.done /\ ~Ongoing(r.xfer)
         \/ n > 0 /\ ~r.done /\ Ongoing(r.xfer)
  <2> HIDE DEF r, n
  <2>1. r = AfterRead /\ n = Chunk(xfer)
    BY DEF r, n
  <2> QED
    BY <1>2, <2>1, AfterReadIs
<1>4. n > 0 => Ongoing(xfer)
  BY DEF Chunk, Ongoing
<1> HIDE DEF r, n
<1>5. Ongoing(xfer)' <=> Ongoing(r.xfer)
  BY <1>1 DEF Ongoing
<1>6. \A t \in Thread : \/ th'[t] = th[t]
                        \/ /\ th[t].pc = "read"
                           /\ th'[t].pc = IF r.done THEN "wait" ELSE "fill"
                           /\ th'[t].cfg = th[t].cfg /\ th'[t].async = th[t].async
  <2>1. CASE IsrRead
    BY <2>1 DEF IsrRead
  <2>2. ASSUME NEW t \in Thread, StartRead(t)
        PROVE  /\ \A u \in Thread \ {t} : th'[u] = th[u]
               /\ th[t].pc = "read" /\ th'[t].pc = IF r.done THEN "wait" ELSE "fill"
               /\ th'[t].cfg = th[t].cfg /\ th'[t].async = th[t].async
    <3> DEFINE pc == IF r.done THEN "wait" ELSE "fill"
    <3>1. pc \in Pcs
      BY DEF Pcs
    <3>2. th[t].pc = "read" /\ Goto(t, pc)
      BY <2>2 DEF StartRead, At, r
    <3> HIDE DEF pc
    <3>3. /\ \A u \in Thread \ {t} : th'[u] = th[u]
          /\ th'[t].pc = pc /\ th'[t].cfg = th[t].cfg /\ th'[t].async = th[t].async
      BY <1>1, <3>1, <3>2, GotoType
    <3> QED
      BY <3>2, <3>3 DEF pc
  <2> QED
    BY <2>1, <2>2
<1>7. CASE r.done
  <2>1. Ongoing(xfer) /\ ~Ongoing(xfer)' /\ Complete("ok")
    BY <1>1, <1>3, <1>4, <1>5, <1>7
  <2>2. \A t \in Thread : \/ th'[t] = th[t]
                          \/ /\ th[t].pc = "read" /\ th'[t].pc = "wait"
                             /\ th'[t].cfg = th[t].cfg /\ th'[t].async = th[t].async
    BY <1>6, <1>7
  <2> QED
    BY <1>1, <2>1, <2>2, CompleteCalls
<1>8. CASE ~r.done
  <2>1. UNCHANGED <<lock, owner, due>>
    BY <1>1, <1>8
  <2>2. Ongoing(xfer)' => Ongoing(xfer) /\ xfer'.who = xfer.who
    <3>1. CASE r.xfer.tx = xfer.tx /\ r.xfer.rx = xfer.rx
      BY <1>1, <1>3, <1>5, <3>1 DEF Ongoing
    <3> QED
      BY <1>1, <1>3, <1>4, <1>8, <3>1
  <2>3. ASSUME NEW t \in Thread, th[t].pc = "read", th'[t].pc = "fill",
               th'[t].cfg = th[t].cfg, th'[t].async = th[t].async
        PROVE  Caller(t)'
    <3>1. Caller(t)
      BY DEF Calls
    <3>2. Leaves(t) /\ Leaves(t)' /\ ~Prepares(t)'
      BY <2>3 DEF Leaves, Prepares
    <3> QED
      BY <1>1, <2>1, <2>3, <3>1, <3>2 DEF Caller
  <2>4. \A t \in Thread : th'[t] = th[t] \/ Caller(t)'
    BY <1>6, <1>8, <2>3
  <2> QED
    BY <1>1, <2>1, <2>2, <2>4, CallsQuiet
<1> QED
  BY <1>3, <1>7, <1>8

LEMMA AsyncStep ==
  ASSUME SpiAsync, CallModes = {TRUE}, Types, Types', AsyncInv, [Next]_vars
  PROVE  AsyncInv'
<1> USE DEF usrVars
<1>1. (ror => failed) /\ ror \in BOOLEAN /\ failed \in BOOLEAN
  BY DEF AsyncInv, Types
<1>2. (failed => failed') /\ (ror' => ror \/ failed')
  <2>1. ASSUME NEW t \in Thread, Call(t) \/ Transceive(t) \/ ApiRelease(t)
        PROVE  (failed => failed') /\ (ror' => ror \/ failed')
    <3>1. CASE StartDrain(t)
      BY <3>1 DEF StartDrain
    <3>2. CASE WaitTimeout(t)
      BY <3>2 DEF WaitTimeout
    <3>3. ~StartDrain(t) /\ ~WaitTimeout(t) => UNCHANGED <<ror, failed>>
      BY <2>1 DEF Call, Transceive, ApiRelease, LockCheck, LockTake, LockMode, Configure,
         Setup, CsOn, StartRead, StartFill, WaitDone, CsOff, Release, hwVars
    <3> QED
      BY <3>1, <3>2, <3>3
  <2>2. CASE Isr
    BY <2>2 DEF Isr, IsrOverrun, IsrRead, IsrFill, IsrClear
  <2>3. CASE Shift
    BY <2>3 DEF Shift
  <2>4. CASE UNCHANGED vars
    BY <2>4 DEF vars, hwVars
  <2> QED
    BY <2>1, <2>2, <2>3, <2>4 DEF Next
<1>3. ror' => failed'
  BY <1>1, <1>2
<1>4. SUFFICES ASSUME Calls, ~failed PROVE Calls'
  BY <1>1, <1>2, <1>3 DEF AsyncInv
<1>5. ASSUME NEW t \in Thread, Call(t) \/ Transceive(t) \/ ApiRelease(t) PROVE Calls'
  <2>1. ~WaitTimeout(t)
    BY <1>4 DEF WaitTimeout, At, Calls, Caller
  <2> QED
    BY <1>4, <1>5, <2>1, CallsMoves, CallsTake, CallsSetup, CallsRelease, CallsRead
    DEF Transceive
<1>6. CASE Isr
  <2>1. ~IsrOverrun
    BY <1>1, <1>4 DEF IsrOverrun
  <2> QED
    BY <1>4, <1>6, <2>1, CallsRead, CallsHw DEF Isr
<1>7. CASE Shift
  BY <1>4, <1>7, CallsHw
<1>8. CASE UNCHANGED vars
  BY <1>4, <1>8, CallsQuiet DEF vars, ctxVars, Ongoing
<1> QED
  BY <1>5, <1>6, <1>7, <1>8 DEF Next

(* With CONFIG_SPI_ASYNC, for clients that call spi_transceive_async: a      *)
(* callback comes once for each call that returned without error, and never  *)
(* before, unless a word was lost.  spi_context_complete finds the callback  *)
(* and the configuration of the transfer it ends in the context, because     *)
(* nobody else gets past spi_context_lock while words are left.              *)
THEOREM CallbacksComeOnce ==
  ASSUME SpiAsync, CallModes = {TRUE}
  PROVE  Spec => []CallbackOnce
<1>1. AsyncInv => CallbackOnce
  BY DEF AsyncInv, Calls, Caller, CallbackOnce
<1>2. Types /\ Types' /\ AsyncInv /\ [Next]_vars => AsyncInv'
  BY AsyncStep
<1> QED
  BY <1>1, <1>2, AsyncInit, TypesAlways, PTL DEF Spec
=============================================================================

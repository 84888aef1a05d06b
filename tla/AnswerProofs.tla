---------------------------- MODULE AnswerProofs ----------------------------
(***************************************************************************)
(* What a node worker makes of the game server's answers.                  *)
(*                                                                         *)
(* The first part is about an answer in several datagrams, for any number  *)
(* of answers of any lengths, fragments and headers of any size and an     *)
(* array longer than every answer: what the copying loop makes of the      *)
(* array, what the array and the counter hold however fragments arrive,    *)
(* and that an answer put together is one answer.                          *)
(*                                                                         *)
(* The second part is about the info reply, for any replies, anything that *)
(* earlier datagrams have left behind them and any custom name: that the   *)
(* texts told are those of the last reply, and that a client reads in the  *)
(* answer what the worker has read.                                        *)
(*                                                                         *)
(* A reply is read field by field.  Good says that a reading has come      *)
(* behind field i and has every field before it as the reply has it; Bad   *)
(* that the reading has ended at a text k, because the text that the       *)
(* worker had for it is longer than all that is left, and that the texts   *)
(* from k on are the old ones.  Each field keeps Good or turns it into     *)
(* Bad, and keeps Bad.  An answer is the other way round: Holds says that  *)
(* a buffer begins with given bytes, and each field that is written adds   *)
(* its own.  So the answer is the packed info, and the lemma on reading a  *)
(* reply, for a client that has no texts yet, says what is read in it.     *)
(***************************************************************************)
EXTENDS SplitReassembly, InfoText, FiniteSetTheorems, SequenceTheorems,
        WellFoundedInduction, TLAPS

-----------------------------------------------------------------------------
(* Induction, for sets of numbers.                                         *)

Less == {ss \in Nat \X Nat : ss[1] < ss[2]}

LEMMA LessIsWellFounded == IsWellFoundedOn(Less, Nat)
BY NatLessThanWellFounded, Zenon DEF OpToRel, Less

\* A set of numbers that is not empty has a least member.
LEMMA LeastOf ==
    ASSUME NEW S, S \subseteq Nat, S # {}
    PROVE  \E m \in S : \A k \in S : m <= k
<1>1. PICK m \in S : \A k \in S : <<k, m>> \notin Less
  BY LessIsWellFounded, WFMin
<1>2. ASSUME NEW k \in S PROVE m <= k
  <2>1. k \in Nat /\ m \in Nat
    OBVIOUS
  <2>2. ~(k < m)
    BY <1>1, <2>1 DEF Less
  <2> QED BY <2>1, <2>2
<1> QED BY <1>2

\* A set that holds 0 and the successor of each of its members below n holds
\* every number up to n.
LEMMA HoldsUpTo ==
    ASSUME NEW n \in Nat, NEW S, 0 \in S,
           \A k \in 0..(n - 1) : k \in S => k + 1 \in S
    PROVE  0..n \subseteq S
<1> SUFFICES ASSUME 0..n \ S # {} PROVE FALSE
  OBVIOUS
<1> DEFINE T == 0..n \ S
<1>1. T \subseteq Nat /\ T # {}
  OBVIOUS
<1>2. PICK m \in T : \A k \in T : m <= k
  <2> HIDE DEF T
  <2> QED BY <1>1, LeastOf
<1>3. m \in 1..n /\ m - 1 \in 0..(n - 1)
  OBVIOUS
<1>4. m - 1 \notin T
  BY <1>2, <1>3
<1> QED BY <1>3, <1>4

-----------------------------------------------------------------------------
(* What FlattenSeq makes of sequences one after the other.                 *)

\* Its loop as a sequence of results.
Flattened(s, n, f) == \A i \in 1..n : f[i] = IF i = 1 THEN s[i] ELSE f[i - 1] \o s[i]

\* The recursive function exists: what it is up to k can be continued.
LEMMA FlattenIs ==
    ASSUME NEW S, NEW n \in Nat \ {0}, NEW s \in [1..n -> Seq(S)]
    PROVE  \E f : Flattened(s, n, f) /\ FlattenSeq(s) = f[n]
<1> DEFINE IsLoop(k, f) ==
              f = [i \in 1..k |-> IF i = 1 THEN s[i] ELSE f[i - 1] \o s[i]]
           T == {k \in 0..n : \E f : IsLoop(k, f)}
<1>1. 0 \in T
  <2>1. IsLoop(0, [i \in 1..0 |-> s[i]])
    OBVIOUS
  <2> HIDE DEF IsLoop
  <2> QED BY <2>1
<1>2. ASSUME NEW k \in 0..(n - 1), k \in T PROVE k + 1 \in T
  <2>1. PICK f : IsLoop(k, f)
    BY <1>2
  <2> DEFINE g == [i \in 1..(k + 1) |->
                      IF i = k + 1
                      THEN IF i = 1 THEN s[i] ELSE f[k] \o s[i]
                      ELSE f[i]]
  <2>2. ASSUME NEW i \in 1..(k + 1)
        PROVE  g[i] = IF i = 1 THEN s[i] ELSE g[i - 1] \o s[i]
    <3>1. CASE i = k + 1
      <4>1. i # 1 => g[i - 1] = f[k]
        BY <3>1
      <4> QED BY <3>1, <4>1
    <3>2. CASE i # k + 1
      <4>1. i \in 1..k /\ (i # 1 => i - 1 \in 1..k /\ i - 1 # k + 1)
        BY <3>2
      <4>2. f[i] = IF i = 1 THEN s[i] ELSE f[i - 1] \o s[i]
        BY <2>1, <4>1
      <4>3. g[i] = f[i] /\ (i # 1 => g[i - 1] = f[i - 1])
        BY <3>2, <4>1
      <4> QED BY <4>2, <4>3
    <3> QED BY <3>1, <3>2
  <2>3. IsLoop(k + 1, g)
    BY <2>2
  <2>4. k + 1 \in 0..n
    OBVIOUS
  <2> HIDE DEF IsLoop, g
  <2> QED BY <2>3, <2>4
<1>3. \E f : IsLoop(n, f)
  <2>1. n \in T
    <3> HIDE DEF T
    <3>1. 0..n \subseteq T
      BY <1>1, <1>2, HoldsUpTo
    <3> QED BY <3>1
  <2> HIDE DEF IsLoop
  <2> QED BY <2>1
<1> DEFINE flat == CHOOSE f : IsLoop(n, f)
<1>4. IsLoop(n, flat)
  <2> HIDE DEF IsLoop
  <2> QED BY <1>3
<1>5. Len(s) = n
  OBVIOUS
<1>6. FlattenSeq(s) = flat[n]
  <2>1. n # 0
    OBVIOUS
  <2> QED BY <1>5, <2>1, Zenon DEF FlattenSeq
<1> HIDE DEF flat
<1>7. Flattened(s, n, flat)
  BY <1>4 DEF Flattened
<1> QED BY <1>6, <1>7

LEMMA FlattenOne ==
    ASSUME NEW S, NEW s \in [1..1 -> Seq(S)]
    PROVE  FlattenSeq(s) = s[1]
<1>1. PICK f : Flattened(s, 1, f) /\ FlattenSeq(s) = f[1]
  <2>1. 1 \in Nat \ {0}
    OBVIOUS
  <2> QED BY <2>1, FlattenIs
<1>2. f[1] = s[1]
  BY <1>1 DEF Flattened
<1> QED BY <1>1, <1>2

\* The last sequence comes behind what the others make.
LEMMA FlattenStep ==
    ASSUME NEW S, NEW n \in Nat \ {0}, NEW s \in [1..(n + 1) -> Seq(S)],
           NEW r, r = [k \in 1..n |-> s[k]]
    PROVE  FlattenSeq(s) = FlattenSeq(r) \o s[n + 1]
<1>1. PICK f : Flattened(s, n + 1, f) /\ FlattenSeq(s) = f[n + 1]
  BY FlattenIs
<1>2. PICK g : Flattened(r, n, g) /\ FlattenSeq(r) = g[n]
  <2>1. r \in [1..n -> Seq(S)]
    OBVIOUS
  <2> QED BY <2>1, FlattenIs
<1> DEFINE T == {k \in 0..n : k # 0 => f[k] = g[k]}
<1>3. 0 \in T
  OBVIOUS
<1>4. ASSUME NEW k \in 0..(n - 1), k \in T PROVE k + 1 \in T
  <2>1. k + 1 \in 1..n /\ k + 1 \in 1..(n + 1) /\ r[k + 1] = s[k + 1]
    OBVIOUS
  <2>2. CASE k = 0
    BY <1>1, <1>2, <2>1, <2>2 DEF Flattened
  <2>3. CASE k # 0
    <3>1. k + 1 # 1 /\ (k + 1) - 1 = k
      BY <2>3
    <3>2. f[k + 1] = f[(k + 1) - 1] \o s[k + 1]
      BY <1>1, <2>1, <3>1, Zenon DEF Flattened
    <3>3. g[k + 1] = g[(k + 1) - 1] \o r[k + 1]
      BY <1>2, <2>1, <3>1, Zenon DEF Flattened
    <3>4. f[k] = g[k] /\ k + 1 \in 0..n
      BY <1>4, <2>3
    <3> QED BY <2>1, <3>1, <3>2, <3>3, <3>4
  <2> QED BY <2>2, <2>3
<1>5. f[n] = g[n]
  <2> HIDE DEF T
  <2>1. 0..n \subseteq T
    BY <1>3, <1>4, HoldsUpTo
  <2>2. n \in T
    BY <2>1
  <2> QED BY <2>2 DEF T
<1>6. f[n + 1] = f[n] \o s[n + 1]
  <2>1. n + 1 \in 1..(n + 1) /\ n + 1 # 1 /\ (n + 1) - 1 = n
    OBVIOUS
  <2>2. f[n + 1] = f[(n + 1) - 1] \o s[n + 1]
    BY <1>1, <2>1, Zenon DEF Flattened
  <2> QED BY <2>1, <2>2
<1> QED BY <1>1, <1>2, <1>5, <1>6

\* The result is a sequence of the same elements; its length is a multiple of
\* the length all have; its first element is the first one's.
FlattenResult(S, s, n) ==
    /\ FlattenSeq(s) \in Seq(S)
    /\ \A P \in Nat :
          (\A k \in 1..n : Len(s[k]) = P) => Len(FlattenSeq(s)) = n * P
    /\ \A k \in 1..n : \A c \in 1..Len(s[k]) :
          \E j \in 1..Len(FlattenSeq(s)) : FlattenSeq(s)[j] = s[k][c]
    /\ s[1] # <<>> => /\ FlattenSeq(s) # <<>>
                      /\ FlattenSeq(s)[1] = s[1][1]

LEMMA FlattenFacts ==
    ASSUME NEW S, NEW n \in Nat \ {0}, NEW s \in [1..n -> Seq(S)]
    PROVE  FlattenResult(S, s, n)
<1> DEFINE T == {k \in 0..n : k # 0 => \A z \in [1..k -> Seq(S)] : FlattenResult(S, z, k)}
<1>1. 0 \in T
  OBVIOUS
<1>2. 1 \in T
  <2> SUFFICES ASSUME NEW z \in [1..1 -> Seq(S)] PROVE FlattenResult(S, z, 1)
    OBVIOUS
  <2>1. FlattenSeq(z) = z[1] /\ z[1] \in Seq(S)
    BY FlattenOne
  <2>2. 1..1 = {1}
    OBVIOUS
  <2>3. \A P \in Nat : 1 * P = P
    OBVIOUS
  <2> QED BY <2>1, <2>2, <2>3 DEF FlattenResult
<1>3. ASSUME NEW k \in 0..(n - 1), k \in T PROVE k + 1 \in T
  <2>1. CASE k = 0
    BY <1>2, <2>1
  <2>2. CASE k # 0
    <3> SUFFICES ASSUME NEW z \in [1..(k + 1) -> Seq(S)]
                 PROVE  FlattenResult(S, z, k + 1)
      OBVIOUS
    <3> DEFINE r == [i \in 1..k |-> z[i]]
               fr == FlattenSeq(r)
               last == z[k + 1]
               fz == FlattenSeq(z)
    <3>1. k \in Nat \ {0}
      BY <2>2
    <3>2. r \in [1..k -> Seq(S)] /\ last \in Seq(S)
      OBVIOUS
    <3>3. FlattenResult(S, r, k)
      <4> HIDE DEF r
      <4> QED BY <1>3, <2>2, <3>2
    <3>4. fz = fr \o last
      BY <3>1, FlattenStep, Zenon
    <3>5. fr \in Seq(S)
      BY <3>3 DEF FlattenResult
    <3>6. \A i \in 1..k : r[i] = z[i]
      OBVIOUS
    <3>7. 1 \in 1..k
      BY <3>1
    <3> HIDE DEF fr, last, fz, r
    <3>8. /\ fz \in Seq(S)
          /\ Len(fz) = Len(fr) + Len(last)
          /\ \A i \in 1..(Len(fr) + Len(last)) :
                fz[i] = IF i <= Len(fr) THEN fr[i] ELSE last[i - Len(fr)]
          /\ Len(fr) \in Nat /\ Len(last) \in Nat
      BY <3>2, <3>4, <3>5, ConcatProperties, LenProperties
    <3>9. ASSUME NEW P \in Nat, \A i \in 1..(k + 1) : Len(z[i]) = P
          PROVE  Len(fz) = (k + 1) * P
      <4>1. Len(fr) = k * P
        <5>1. \A i \in 1..k : Len(r[i]) = P
          BY <3>1, <3>6, <3>9
        <5> QED BY <3>3, <5>1 DEF FlattenResult, fr
      <4>2. Len(last) = P
        BY <3>1, <3>9 DEF last
      <4>3. (k + 1) * P = k * P + P
        BY <3>1
      <4> QED BY <3>8, <4>1, <4>2, <4>3
    <3>10. ASSUME NEW i \in 1..(k + 1), NEW c \in 1..Len(z[i])
           PROVE  \E j \in 1..Len(fz) : fz[j] = z[i][c]
      <4>1. CASE i = k + 1
        <5>1. Len(fr) + c \in 1..(Len(fr) + Len(last)) /\ ~(Len(fr) + c <= Len(fr))
          BY <4>1, <3>8 DEF last
        <5>2. fz[Len(fr) + c] = last[(Len(fr) + c) - Len(fr)]
          BY <5>1, <3>8
        <5>3. (Len(fr) + c) - Len(fr) = c
          BY <3>8
        <5> QED BY <3>8, <4>1, <5>1, <5>2, <5>3 DEF last
      <4>2. CASE i # k + 1
        <5>1. i \in 1..k /\ c \in 1..Len(r[i])
          BY <4>2, <3>6, <3>1
        <5>2. PICK j \in 1..Len(fr) : fr[j] = r[i][c]
          BY <5>1, <3>3 DEF FlattenResult, fr
        <5>3. j \in 1..(Len(fr) + Len(last)) /\ j <= Len(fr)
          BY <3>8
        <5> QED BY <3>8, <5>1, <5>2, <5>3, <3>6
      <4> QED BY <4>1, <4>2
    <3>11. ASSUME z[1] # <<>> PROVE fz # <<>> /\ fz[1] = z[1][1]
      <4>1. fr # <<>> /\ fr[1] = z[1][1]
        BY <3>3, <3>6, <3>7, <3>11 DEF FlattenResult, fr
      <4>2. Len(fr) # 0
        BY <3>5, <4>1, EmptySeq
      <4>3. 1 \in 1..(Len(fr) + Len(last)) /\ 1 <= Len(fr) /\ Len(fz) # 0
        BY <3>8, <4>2
      <4>4. fz[1] = fr[1]
        BY <3>8, <4>3
      <4> QED BY <4>1, <4>3, <4>4, EmptySeq
    <3> QED BY <3>8, <3>9, <3>10, <3>11 DEF FlattenResult, fz
  <2> QED BY <2>1, <2>2
<1> HIDE DEF T
<1>4. 0..n \subseteq T
  BY <1>1, <1>3, HoldsUpTo
<1>5. n \in T
  BY <1>4
<1> QED BY <1>5 DEF T

-----------------------------------------------------------------------------
(* Fragments, and answers made of them.                                    *)

Piece(a, n, t) == [id |-> a, number |-> n, total |-> t]

\* The entries that hold fragments of answer a.
Held(a) == {n \in 0..(sent[a] - 1) : splitpackets[n] = Piece(a, n, sent[a])}

Cells == UNION {ToSet(Answer(a)) : a \in DOMAIN sent}

LEMMA Totals2 ==
    ASSUME sent \in Seq(Totals), NEW a \in DOMAIN sent
    PROVE  sent[a] \in 2..(Entries - 1) /\ Entries \in Nat
<1>1. sent[a] \in Totals
  OBVIOUS
<1> QED BY <1>1, FragmentsAssumption

\* A fragment that was sent is told by its answer and its number.
LEMMA PieceFacts ==
    ASSUME sent \in Seq(Totals)
    PROVE  /\ \A f \in SourceSplitPacket :
                /\ f.id \in DOMAIN sent
                /\ f.total = sent[f.id]
                /\ f.total \in 2..(Entries - 1)
                /\ f.number \in 0..(f.total - 1)
                /\ f.number \in 0..(Entries - 1)
                /\ f = Piece(f.id, f.number, f.total)
                /\ f # Empty
           /\ \A a \in DOMAIN sent : \A n \in 0..(sent[a] - 1) :
                Piece(a, n, sent[a]) \in SourceSplitPacket
           /\ Entries \in Nat
<1>1. ASSUME NEW f \in SourceSplitPacket
      PROVE  /\ f.id \in DOMAIN sent
             /\ f.total = sent[f.id]
             /\ f.total \in 2..(Entries - 1)
             /\ f.number \in 0..(f.total - 1)
             /\ f.number \in 0..(Entries - 1)
             /\ f = Piece(f.id, f.number, f.total)
             /\ f # Empty
  <2>1. PICK a \in DOMAIN sent, n \in 0..(Entries - 1) :
           f = [id |-> a, number |-> n, total |-> sent[a]]
    BY DEF SourceSplitPacket, Fragments
  <2>2. f.number < f.total
    BY DEF SourceSplitPacket
  <2>3. f.total \in 2..(Entries - 1) /\ Entries \in Nat
    BY <2>1, Totals2
  <2>4. f.total # 0
    BY <2>3
  <2> QED BY <2>1, <2>2, <2>3, <2>4 DEF Piece, Empty
<1>2. ASSUME NEW a \in DOMAIN sent, NEW n \in 0..(sent[a] - 1)
      PROVE  Piece(a, n, sent[a]) \in SourceSplitPacket
  <2>1. sent[a] \in 2..(Entries - 1) /\ Entries \in Nat
    BY Totals2
  <2>2. n \in 0..(Entries - 1) /\ n < sent[a]
    BY <2>1
  <2> QED BY <2>2 DEF Piece, SourceSplitPacket, Fragments
<1> QED BY <1>1, <1>2, FragmentsAssumption

\* A fragment's cells are cells of its answer.
LEMMA MsgFacts ==
    ASSUME sent \in Seq(Totals), NEW f \in SourceSplitPacket
    PROVE  /\ Msg(f) = [c \in 1..PieceSize |-> <<f.id, f.number, c>>]
           /\ Msg(f) \in Seq(Nat \X Nat \X Nat)
           /\ Len(Msg(f)) = PieceSize
           /\ Msg(f) # <<>>
           /\ Msg(f)[1][1] = f.id
<1>1. /\ f.id \in Nat /\ f.number \in Nat /\ f # Empty
  <2>1. f.id \in DOMAIN sent /\ f.total \in 2..(Entries - 1) /\ Entries \in Nat
        /\ f.number \in 0..(f.total - 1) /\ f # Empty
    BY PieceFacts
  <2> QED BY <2>1
<1>2. PieceSize \in Nat \ {0}
  BY FragmentsAssumption
<1>3. Msg(f) = [c \in 1..PieceSize |-> <<f.id, f.number, c>>]
  BY <1>1 DEF Msg
<1>4. /\ Msg(f) \in Seq(Nat \X Nat \X Nat) /\ Len(Msg(f)) = PieceSize
  BY <1>1, <1>2, <1>3
<1>5. Msg(f)[1] = <<f.id, f.number, 1>> /\ Msg(f) # <<>>
  <2>1. 1 \in 1..PieceSize
    BY <1>2
  <2>2. Len(Msg(f)) # 0
    BY <1>2, <1>4
  <2> QED BY <1>3, <2>1, <2>2
<1>6. Msg(f)[1][1] = f.id
  <2>1. <<f.id, f.number, 1>>[1] = f.id
    OBVIOUS
  <2> QED BY <1>5, <2>1
<1> QED BY <1>3, <1>4, <1>5, <1>6

AnswerPieces(a) == [n \in 1..sent[a] |-> Msg(Piece(a, n - 1, sent[a]))]

LEMMA AnswerFacts ==
    ASSUME sent \in Seq(Totals), NEW a \in DOMAIN sent
    PROVE  /\ AnswerPieces(a) \in [1..sent[a] -> Seq(Nat \X Nat \X Nat)]
           /\ Answer(a) = FlattenSeq(AnswerPieces(a))
           /\ \A n \in 0..(sent[a] - 1) :
                \A c \in 1..PieceSize :
                   Msg(Piece(a, n, sent[a]))[c] \in ToSet(Answer(a))
<1> DEFINE t == sent[a]
           S == Nat \X Nat \X Nat
           q == AnswerPieces(a)
<1>1. t \in Nat \ {0}
  BY Totals2
<1>2. Answer(a) = FlattenSeq(q)
  BY DEF Answer, AnswerPieces, Piece
<1>3. ASSUME NEW n \in 1..t
      PROVE  /\ q[n] = Msg(Piece(a, n - 1, t))
             /\ q[n] \in Seq(S)
             /\ Len(q[n]) = PieceSize
  <2>1. q[n] = Msg(Piece(a, n - 1, t))
    BY DEF AnswerPieces
  <2>2. n - 1 \in 0..(t - 1)
    BY <1>1
  <2>3. Piece(a, n - 1, t) \in SourceSplitPacket
    BY <2>2, PieceFacts
  <2> QED BY <2>1, <2>3, MsgFacts
<1>4. q \in [1..t -> Seq(S)]
  <2>1. q = [n \in 1..t |-> Msg(Piece(a, n - 1, t))]
    BY DEF AnswerPieces
  <2> HIDE DEF q, t, S
  <2> QED BY <1>3, <2>1
<1>5. ASSUME NEW n \in 0..(t - 1), NEW c \in 1..PieceSize
      PROVE  Msg(Piece(a, n, t))[c] \in ToSet(Answer(a))
  <2>1. n + 1 \in 1..t /\ (n + 1) - 1 = n
    BY <1>1
  <2>2. q[n + 1] = Msg(Piece(a, n, t)) /\ Len(q[n + 1]) = PieceSize
    BY <1>3, <2>1
  <2>3. FlattenResult(S, q, t)
    <3> HIDE DEF q, t
    <3> QED BY <1>1, <1>4, FlattenFacts
  <2>4. PICK j \in 1..Len(FlattenSeq(q)) : FlattenSeq(q)[j] = q[n + 1][c]
    BY <2>1, <2>2, <2>3 DEF FlattenResult
  <2>5. FlattenSeq(q) \in Seq(S)
    BY <2>3 DEF FlattenResult
  <2> HIDE DEF q
  <2>6. FlattenSeq(q)[j] \in ToSet(FlattenSeq(q))
    BY <2>5, LenProperties DEF ToSet
  <2> QED BY <1>2, <2>2, <2>4, <2>6
<1> QED BY <1>2, <1>4, <1>5

LEMMA CellsTellTheAnswer ==
    ASSUME sent \in Seq(Totals), NEW a \in DOMAIN sent, NEW c \in ToSet(Answer(a))
    PROVE  c[1] = a
<1> DEFINE t == sent[a]
           S == {a} \X Nat \X Nat
           q == AnswerPieces(a)
<1>1. t \in Nat \ {0} /\ PieceSize \in Nat
  BY Totals2, FragmentsAssumption
<1>2. Answer(a) = FlattenSeq(q)
  BY AnswerFacts
<1>3. ASSUME NEW n \in 1..t PROVE q[n] \in Seq(S)
  <2>1. n - 1 \in 0..(t - 1) /\ n - 1 \in Nat
    BY <1>1
  <2>2. q[n] = Msg(Piece(a, n - 1, t))
    BY DEF AnswerPieces
  <2>3. Piece(a, n - 1, t) \in SourceSplitPacket
    BY <2>1, PieceFacts
  <2>4. Piece(a, n - 1, t).id = a /\ Piece(a, n - 1, t).number = n - 1
    BY DEF Piece
  <2>5. q[n] = [k \in 1..PieceSize |-> <<a, n - 1, k>>]
    BY <2>2, <2>3, <2>4, MsgFacts
  <2> QED BY <1>1, <2>1, <2>5
<1>4. q \in [1..t -> Seq(S)]
  <2>1. q = [n \in 1..t |-> Msg(Piece(a, n - 1, t))]
    BY DEF AnswerPieces
  <2> HIDE DEF q, t, S
  <2> QED BY <1>3, <2>1
<1>5. FlattenSeq(q) \in Seq(S)
  <2>1. FlattenResult(S, q, t)
    <3> HIDE DEF q, t, S
    <3> QED BY <1>1, <1>4, FlattenFacts
  <2> QED BY <2>1 DEF FlattenResult
<1>6. c \in S
  <2> HIDE DEF q, S
  <2> QED BY <1>2, <1>5, LenProperties DEF ToSet
<1> QED BY <1>6

-----------------------------------------------------------------------------
(* What is assembled.                                                      *)

Pieces(entries, i) == [k \in 1..i |-> Msg(entries[k - 1])]

\* The array's fragments may be of several answers, and empty.
LEMMA AssembledFacts ==
    ASSUME sent \in Seq(Totals), NEW i \in 0..Entries,
           NEW entries \in [0..(Entries - 1) -> SourceSplitPacket \cup {Empty}]
    PROVE  /\ Assembled(entries, i) \in Seq(Cells)
           /\ entries[0] # Empty /\ Assembled(entries, i) # <<>>
                 => Head(Assembled(entries, i))[1] = entries[0].id
<1> DEFINE p == Pieces(entries, i)
           flat == FlattenSeq(p)
           cut == Len(flat) - HeaderSize
<1>1. /\ Entries \in Nat /\ i \in Nat /\ HeaderSize \in Nat
      /\ PieceSize \in Nat \ {0}
  BY FragmentsAssumption
<1>2. ASSUME NEW e \in SourceSplitPacket \cup {Empty}
      PROVE  Msg(e) \in Seq(Cells)
  <2>1. CASE e = Empty
    BY <2>1 DEF Msg
  <2>2. CASE e \in SourceSplitPacket
    <3>1. /\ e.id \in DOMAIN sent /\ e = Piece(e.id, e.number, sent[e.id])
          /\ e.number \in 0..(sent[e.id] - 1)
      BY <2>2, PieceFacts
    <3>2. /\ Msg(e) \in Seq(Nat \X Nat \X Nat) /\ Len(Msg(e)) = PieceSize
      BY <2>2, MsgFacts
    <3>3. \A c \in 1..PieceSize : Msg(e)[c] \in ToSet(Answer(e.id))
      BY <3>1, AnswerFacts
    <3>4. \A c \in 1..PieceSize : Msg(e)[c] \in Cells
      BY <3>1, <3>3 DEF Cells
    <3>5. Msg(e) = [c \in 1..PieceSize |-> Msg(e)[c]]
      BY <3>2
    <3> HIDE DEF Cells
    <3>6. Msg(e) \in [1..PieceSize -> Cells]
      BY <3>4, <3>5
    <3> QED BY <1>1, <3>6
  <2> QED BY <2>1, <2>2
<1>3. ASSUME NEW k \in 1..i
      PROVE  /\ p[k] = Msg(entries[k - 1])
             /\ p[k] \in Seq(Cells)
  <2>1. k - 1 \in 0..(Entries - 1)
    BY <1>1
  <2>2. entries[k - 1] \in SourceSplitPacket \cup {Empty}
    BY <2>1
  <2> QED BY <1>2, <2>2 DEF Pieces
<1>4. p \in [1..i -> Seq(Cells)]
  <2>1. p = [k \in 1..i |-> Msg(entries[k - 1])]
    BY DEF Pieces
  <2> HIDE DEF p
  <2> QED BY <1>3, <2>1
<1>5. Assembled(entries, i) = SubSeq(flat, 1, cut)
  BY Zenon DEF Assembled, Pieces
<1>6. /\ flat \in Seq(Cells)
      /\ i # 0 /\ p[1] # <<>> => flat # <<>> /\ flat[1] = p[1][1]
  <2>1. CASE i = 0
    <3>1. p = <<>>
      BY <2>1 DEF Pieces
    <3>2. flat = p
      BY <3>1 DEF FlattenSeq
    <3> HIDE DEF p, flat
    <3>3. <<>> \in Seq(Cells)
      BY EmptySeq
    <3> QED BY <2>1, <3>1, <3>2, <3>3
  <2>2. CASE i # 0
    <3>1. FlattenResult(Cells, p, i)
      <4> HIDE DEF p
      <4> QED BY <1>1, <1>4, <2>2, FlattenFacts
    <3> QED BY <3>1 DEF FlattenResult
  <2> QED BY <2>1, <2>2
<1> HIDE DEF flat
<1>7. Len(flat) \in Nat /\ cut \in Int /\ cut <= Len(flat)
  BY <1>1, <1>6
<1>8. \A k \in 1..cut : flat[k] \in Cells
  <2>1. \A k \in 1..cut : k \in 1..Len(flat)
    BY <1>7
  <2> QED BY <1>6, <2>1, ElementOfSeq
<1> DEFINE sub == SubSeq(flat, 1, cut)
<1> HIDE DEF cut, p
<1>9. /\ sub \in Seq(Cells)
      /\ Len(sub) = IF 1 <= cut THEN cut - 1 + 1 ELSE 0
      /\ \A k \in 1..(cut - 1 + 1) : sub[k] = flat[1 + k - 1]
  BY <1>7, <1>8, SubSeqProperties
<1>10. ASSUME entries[0] # Empty, sub # <<>>
       PROVE  Head(sub)[1] = entries[0].id
  <2>1. Len(sub) # 0
    BY <1>9, <1>10, EmptySeq
  <2>2. 1 <= cut /\ i # 0
    <3>1. 1 <= cut
      BY <1>9, <2>1
    <3>2. CASE i = 0
      <4>1. flat = <<>>
        BY <3>2 DEF flat, p, Pieces, FlattenSeq
      <4> QED BY <4>1, <3>1, <1>1 DEF cut
    <3> QED BY <3>1, <3>2
  <2>3. Head(sub) = flat[1]
    <3>1. 1 \in 1..(cut - 1 + 1) /\ 1 + 1 - 1 = 1
      BY <2>2, <1>7
    <3>2. sub[1] = flat[1]
      BY <1>9, <3>1
    <3> QED BY <3>2, <1>9, <1>10
  <2>4. 0 \in 0..(Entries - 1) /\ 1 \in 1..i /\ 1 - 1 = 0
    BY <1>1, <2>2
  <2>5. entries[0] \in SourceSplitPacket
    BY <1>10, <2>4
  <2>6. p[1] = Msg(entries[0])
    BY <1>3, <2>4
  <2>7. Msg(entries[0]) # <<>> /\ Msg(entries[0])[1][1] = entries[0].id
    BY <2>5, MsgFacts
  <2> QED BY <1>6, <2>2, <2>3, <2>6, <2>7
<1> QED BY <1>5, <1>9, <1>10

\* When the entries before the last fragment's are the answer's, what is
\* assembled is what a client can be shown of it.
LEMMA AssembledIsUsable ==
    ASSUME sent \in Seq(Totals), NEW a \in DOMAIN sent, NEW entries,
           \A n \in 0..(sent[a] - 2) : entries[n] = Piece(a, n, sent[a])
    PROVE  Assembled(entries, sent[a] - 1) = Usable(a)
<1> DEFINE t == sent[a]
           S == Nat \X Nat \X Nat
           n == t - 1
           q == AnswerPieces(a)
           p == Pieces(entries, n)
           flat == FlattenSeq(p)
           cut == n * PieceSize - HeaderSize
<1>1. /\ t \in Nat /\ n \in Nat \ {0} /\ t = n + 1
      /\ PieceSize \in Nat \ {0} /\ HeaderSize \in Nat
  BY Totals2, FragmentsAssumption
<1>2. q \in [1..t -> Seq(S)] /\ Answer(a) = FlattenSeq(q)
  BY AnswerFacts
<1>3. p = [k \in 1..n |-> q[k]]
  <2>1. ASSUME NEW k \in 1..n PROVE Msg(entries[k - 1]) = q[k]
    <3>1. k - 1 \in 0..(t - 2) /\ k \in 1..t
      BY <1>1
    <3>2. entries[k - 1] = Piece(a, k - 1, t)
      BY <3>1
    <3> QED BY <3>1, <3>2 DEF AnswerPieces
  <2> HIDE DEF q
  <2> QED BY <2>1 DEF Pieces
<1>4. p \in [1..n -> Seq(S)] /\ \A k \in 1..n : Len(p[k]) = PieceSize
  <2>1. ASSUME NEW k \in 1..n
        PROVE  p[k] = q[k] /\ q[k] \in Seq(S) /\ Len(q[k]) = PieceSize
    <3>1. k \in 1..t /\ k - 1 \in 0..(t - 1)
      BY <1>1
    <3>2. q[k] = Msg(Piece(a, k - 1, t))
      BY <3>1 DEF AnswerPieces
    <3>3. Piece(a, k - 1, t) \in SourceSplitPacket
      BY <3>1, PieceFacts
    <3> HIDE DEF p, q
    <3> QED BY <1>3, <3>2, <3>3, MsgFacts
  <2> HIDE DEF p, q, n, S
  <2> QED BY <1>3, <2>1
<1>5. Answer(a) = flat \o q[t]
  <2> HIDE DEF q, p, n, t
  <2> QED BY <1>1, <1>2, <1>3, FlattenStep, Zenon
<1>6. flat \in Seq(S) /\ Len(flat) = n * PieceSize
  <2>1. FlattenResult(S, p, n)
    <3> HIDE DEF p, n
    <3> QED BY <1>1, <1>4, FlattenFacts
  <2> HIDE DEF p, n
  <2> QED BY <1>1, <1>4, <2>1 DEF FlattenResult
<1>7. q[t] \in Seq(S)
  <2>1. t \in 1..t
    BY <1>1
  <2> QED BY <1>2, <2>1
<1>8. Assembled(entries, n) = SubSeq(flat, 1, cut)
  <2>1. Assembled(entries, n) = SubSeq(flat, 1, Len(flat) - HeaderSize)
    BY Zenon DEF Assembled, Pieces
  <2> QED BY <1>6, <2>1
<1>9. Usable(a) = SubSeq(flat \o q[t], 1, cut)
  <2>1. Usable(a) = SubSeq(Answer(a), 1, cut)
    BY DEF Usable
  <2> QED BY <1>5, <2>1
<1>10. cut \in Int /\ cut <= Len(flat) /\ Len(flat) \in Nat
  BY <1>1, <1>6, LenProperties
<1>11. SubSeq(flat \o q[t], 1, cut) = SubSeq(flat, 1, cut)
  <2> HIDE DEF flat, q, cut, t, S
  <2>1. CASE cut < 1
    BY <1>10, <2>1, SubSeqEmpty
  <2>2. CASE cut >= 1
    <3>1. 1 \in 1..Len(flat) /\ cut \in 1..Len(flat)
      BY <1>10, <2>2
    <3> QED BY <1>6, <1>7, <3>1, SubSeqOfConcat1
  <2> QED BY <1>10, <2>1, <2>2
<1> QED BY <1>8, <1>9, <1>11

-----------------------------------------------------------------------------
(* The inductive invariant.                                                *)

\* An entry is empty or holds a fragment with its number that has arrived.
ArrayHoldsArrivals ==
    \A n \in 0..(Entries - 1) :
        splitpackets[n] # Empty =>
            splitpackets[n] \in got /\ splitpackets[n].number = n

\* The first entry is filled by the first fragment with its number.
FirstIsFilled == (\E g \in got : g.number = 0) => splitpackets[0] # Empty

\* Nothing is counted before anything has arrived.
StartsUncounted == got = {} => splitpackets_i = -1

\* Counting goes no further than the answer in the first entry has fragments
\* in the array, unless one came twice or counting began in an empty array.
CountedAreHeld ==
    splitpackets[0] # Empty =>
        LET a == splitpackets[0].id IN
        \/ a \in repeated
        \/ \A g \in got : g.number = 0 => g.id = a
        \/ splitpackets_i <= Cardinality(Held(a))

\* Fragments that came in order with nothing between them are in the array and,
\* unless the first of them was the first to fill its entry, counted.
UndisturbedAreHeld ==
    undisturbed > 0 =>
        \E a \in DOMAIN sent :
            /\ undisturbed <= sent[a]
            /\ \A n \in 0..(undisturbed - 1) :
                  splitpackets[n] = Piece(a, n, sent[a])
            /\ \/ splitpackets_i = IF undisturbed = sent[a] THEN 0 ELSE undisturbed
               \/ FirstToFill(a)

SplitInv ==
    /\ TypeOK
    /\ ArrayHoldsArrivals
    /\ FirstIsFilled
    /\ StartsUncounted
    /\ CountedAreHeld
    /\ UndisturbedAreHeld
    /\ OneAnswerAtATime

-----------------------------------------------------------------------------
(* What a fragment does.                                                   *)

\* The counter is within the array when f is counted, as it is unless f is of
\* another answer than the first entry.
LEMMA ReceiveFacts ==
    ASSUME SplitInv, NEW f \in SourceSplitPacket, Receive(f)
    PROVE  /\ splitpackets' \in [0..(Entries - 1) -> SourceSplitPacket \cup {Empty}]
           /\ splitpackets'[f.number] = f
           /\ \A n \in 0..(Entries - 1) :
                 n # f.number => splitpackets'[n] = splitpackets[n]
           /\ Counter(f) \in 0..(Entries - 1)
           /\ splitpackets[0] # Empty /\ splitpackets[0].id # f.id
                 => Counter(f) = 0
           /\ splitpackets_i = -1 => Counter(f) = 0
           /\ splitpackets[0] # Empty /\ splitpackets[0].id = f.id
                 => Counter(f) <= splitpackets_i \/ Counter(f) = 0
           /\ splitpackets[0] # Empty /\ splitpackets[0].id = f.id
              /\ splitpackets_i \in 0..(Entries - 1)
                 => Counter(f) = splitpackets_i
           /\ IF Counter(f) + 1 = f.total
              THEN /\ splitpackets_i' = 0
                   /\ answer' = Assembled(splitpackets', Counter(f))
              ELSE /\ splitpackets_i' = Counter(f) + 1
                   /\ answer' = <<>>
           /\ got' = got \cup {f}
           /\ repeated' = IF f \in got THEN repeated \cup {f.id} ELSE repeated
           /\ sent' = sent
           /\ SourceSplitPacket' = SourceSplitPacket
<1>1. /\ splitpackets \in [0..(Entries - 1) -> SourceSplitPacket \cup {Empty}]
      /\ splitpackets_i \in -1..Entries
      /\ sent \in Seq(Totals)
  BY DEF SplitInv, TypeOK
<1>2. Entries \in Nat /\ f.number \in 0..(Entries - 1)
  BY <1>1, PieceFacts
<1>3. splitpackets' = [splitpackets EXCEPT ![f.number] = f]
  BY DEF Receive, OnReceiveSourceServerA2SData
<1>4. /\ splitpackets' \in [0..(Entries - 1) -> SourceSplitPacket \cup {Empty}]
      /\ splitpackets'[f.number] = f
      /\ \A n \in 0..(Entries - 1) :
            n # f.number => splitpackets'[n] = splitpackets[n]
  BY <1>1, <1>2, <1>3
<1>5. IF Counter(f) + 1 = f.total
      THEN /\ splitpackets_i' = 0
           /\ answer' = Assembled(splitpackets', Counter(f))
      ELSE /\ splitpackets_i' = Counter(f) + 1
           /\ answer' = <<>>
  BY Zenon DEF Receive, OnReceiveSourceServerA2SData
<1>6. /\ Counter(f) \in 0..(Entries - 1)
      /\ splitpackets[0] # Empty /\ splitpackets[0].id # f.id => Counter(f) = 0
      /\ splitpackets_i = -1 => Counter(f) = 0
      /\ splitpackets[0] # Empty /\ splitpackets[0].id = f.id
            => Counter(f) <= splitpackets_i \/ Counter(f) = 0
      /\ splitpackets[0] # Empty /\ splitpackets[0].id = f.id
         /\ splitpackets_i \in 0..(Entries - 1)
            => Counter(f) = splitpackets_i
  BY <1>1, <1>2 DEF Counter
<1>7. /\ got' = got \cup {f} /\ sent' = sent
      /\ repeated' = IF f \in got THEN repeated \cup {f.id} ELSE repeated
  BY DEF Receive
<1>8. SourceSplitPacket' = SourceSplitPacket
  BY <1>7 DEF SourceSplitPacket, Fragments
<1> QED BY <1>4, <1>5, <1>6, <1>7, <1>8

\* How the fragments that came in order go on.
LEMMA UndisturbedIs ==
    ASSUME NEW f, Receive(f)
    PROVE  \/ /\ f.number = 0
              /\ \A g \in got : g.id # f.id
              /\ undisturbed' = 1
           \/ /\ undisturbed # 0
              /\ f.number = undisturbed
              /\ [f EXCEPT !.number = undisturbed - 1] = splitpackets[undisturbed - 1]
              /\ undisturbed' = f.number + 1
           \/ undisturbed' = 0
<1> DEFINE begins == f.number = 0 /\ \A g \in got : g.id # f.id
           follows == [f EXCEPT !.number = undisturbed - 1]
                         = splitpackets[undisturbed - 1]
<1>1. undisturbed' = IF begins THEN 1
                     ELSE IF undisturbed # 0 /\ f.number = undisturbed /\ follows
                     THEN f.number + 1 ELSE 0
  BY Zenon DEF Receive
<1> HIDE DEF begins, follows
<1>2. \/ begins /\ undisturbed' = 1
      \/ /\ undisturbed # 0 /\ f.number = undisturbed /\ follows
         /\ undisturbed' = f.number + 1
      \/ undisturbed' = 0
  BY <1>1, Zenon
<1> QED BY <1>2, Zenon DEF begins, follows

LEMMA ReceiveTypes ==
    ASSUME SplitInv, NEW f \in SourceSplitPacket, Receive(f)
    PROVE  TypeOK'
<1>1. TypeOK
  BY DEF SplitInv
<1>2. /\ sent \in Seq(Totals) /\ got \subseteq SourceSplitPacket
      /\ repeated \subseteq DOMAIN sent /\ undisturbed \in 0..Entries
  BY <1>1 DEF TypeOK
<1>3. /\ Entries \in Nat /\ f.id \in DOMAIN sent
      /\ f.number \in 0..(Entries - 1) /\ f.total \in 2..(Entries - 1)
  BY <1>2, PieceFacts
<1>4. /\ splitpackets' \in [0..(Entries - 1) -> SourceSplitPacket \cup {Empty}]
      /\ Counter(f) \in 0..(Entries - 1)
      /\ IF Counter(f) + 1 = f.total
         THEN /\ splitpackets_i' = 0
              /\ answer' = Assembled(splitpackets', Counter(f))
         ELSE /\ splitpackets_i' = Counter(f) + 1
              /\ answer' = <<>>
      /\ got' = got \cup {f}
      /\ repeated' = IF f \in got THEN repeated \cup {f.id} ELSE repeated
      /\ sent' = sent
      /\ SourceSplitPacket' = SourceSplitPacket
  BY ReceiveFacts
<1>5. answer' \in Seq(Cells)
  <2>1. Assembled(splitpackets', Counter(f)) \in Seq(Cells)
    <3>1. Counter(f) \in 0..Entries
      BY <1>3, <1>4
    <3> QED BY <1>2, <1>4, <3>1, AssembledFacts
  <2> QED BY <1>4, <2>1, EmptySeq
<1>6. Cells' = Cells
  BY <1>4 DEF Cells, Answer
<1>7. splitpackets_i' \in -1..Entries
  BY <1>3, <1>4
<1>8. undisturbed' \in 0..Entries
  <2>1. f.number + 1 \in 0..Entries /\ 1 \in 0..Entries
    BY <1>3
  <2>2. undisturbed' = 1 \/ undisturbed' = f.number + 1 \/ undisturbed' = 0
    BY UndisturbedIs, Zenon
  <2>3. 0 \in 0..Entries
    BY <1>3
  <2> QED BY <2>1, <2>2, <2>3
<1>9. repeated' \subseteq DOMAIN sent'
  BY <1>2, <1>3, <1>4
<1> QED BY <1>2, <1>4, <1>5, <1>6, <1>7, <1>8, <1>9 DEF TypeOK, Cells

LEMMA ReceiveFillsArray ==
    ASSUME SplitInv, NEW f \in SourceSplitPacket, Receive(f)
    PROVE  /\ ArrayHoldsArrivals'
           /\ FirstIsFilled'
           /\ StartsUncounted'
<1>1. TypeOK /\ ArrayHoldsArrivals /\ FirstIsFilled
  BY DEF SplitInv
<1>2. /\ f \in SourceSplitPacket /\ sent \in Seq(Totals)
  BY <1>1 DEF TypeOK
<1>3. f.number \in 0..(Entries - 1) /\ f # Empty /\ Entries \in Nat
  BY <1>2, PieceFacts
<1>4. /\ splitpackets'[f.number] = f
      /\ \A n \in 0..(Entries - 1) :
            n # f.number => splitpackets'[n] = splitpackets[n]
      /\ got' = got \cup {f}
  BY ReceiveFacts
<1>5. Empty' = Empty
  BY DEF Empty
<1>6. ArrayHoldsArrivals'
  BY <1>1, <1>3, <1>4, <1>5 DEF ArrayHoldsArrivals
<1>7. FirstIsFilled'
  <2>1. 0 \in 0..(Entries - 1)
    BY <1>3
  <2> QED BY <1>1, <1>3, <1>4, <1>5, <2>1 DEF FirstIsFilled
<1>8. StartsUncounted'
  BY <1>4 DEF StartsUncounted
<1> QED BY <1>6, <1>7, <1>8

-----------------------------------------------------------------------------
(* Counting: another fragment of the first entry's answer that has not come *)
(* before is one more of its fragments in the array.                       *)

LEMMA CountIs ==
    ASSUME NEW t \in Nat
    PROVE  IsFiniteSet(0..(t - 1)) /\ Cardinality(0..(t - 1)) = t
<1>1. 0 \in Int /\ t - 1 \in Int
  OBVIOUS
<1>2. /\ IsFiniteSet(0..(t - 1))
      /\ Cardinality(0..(t - 1)) = IF 0 > t - 1 THEN 0 ELSE t - 1 - 0 + 1
  BY <1>1, FS_Interval
<1> QED BY <1>2

LEMMA HeldGrows ==
    ASSUME SplitInv, NEW f \in SourceSplitPacket, Receive(f), f \notin got
    PROVE  /\ IsFiniteSet(Held(f.id)')
           /\ Cardinality(Held(f.id)') = Cardinality(Held(f.id)) + 1
           /\ Cardinality(Held(f.id)) \in Nat
           /\ Held(f.id)' \subseteq 0..(f.total - 1)
           /\ f.number \in Held(f.id)'
<1> DEFINE a == f.id
           H == Held(a)
<1>1. /\ sent \in Seq(Totals) /\ ArrayHoldsArrivals
  BY DEF SplitInv, TypeOK
<1>2. /\ f.number \in 0..(f.total - 1) /\ f.total \in 2..(Entries - 1)
      /\ f.total = sent[a] /\ f = Piece(a, f.number, f.total)
      /\ f # Empty /\ Entries \in Nat
  BY <1>1, PieceFacts
<1>3. /\ splitpackets'[f.number] = f
      /\ \A n \in 0..(Entries - 1) :
            n # f.number => splitpackets'[n] = splitpackets[n]
      /\ sent' = sent
  BY ReceiveFacts
<1>4. /\ H = {n \in 0..(f.total - 1) : splitpackets[n] = Piece(a, n, f.total)}
      /\ Held(a)' = {n \in 0..(f.total - 1) : splitpackets'[n] = Piece(a, n, f.total)}
  BY <1>2, <1>3 DEF Held
<1>5. f.number \notin H
  <2> SUFFICES ASSUME f.number \in H PROVE FALSE
    OBVIOUS
  <2>1. splitpackets[f.number] = f
    BY <1>2, <1>4
  <2>2. f.number \in 0..(Entries - 1)
    BY <1>2
  <2> QED BY <1>1, <1>2, <2>1, <2>2 DEF ArrayHoldsArrivals
<1>6. Held(a)' = H \cup {f.number}
  <2>1. \A n \in 0..(f.total - 1) : n \in 0..(Entries - 1)
    BY <1>2
  <2> QED BY <1>2, <1>3, <1>4, <2>1
<1>7. IsFiniteSet(H)
  <2>1. IsFiniteSet(0..(f.total - 1))
    BY <1>2, FS_Interval
  <2>2. H \subseteq 0..(f.total - 1)
    BY <1>4
  <2> QED BY <2>1, <2>2, FS_Subset
<1> HIDE DEF H
<1>8. /\ IsFiniteSet(H \cup {f.number})
      /\ Cardinality(H \cup {f.number}) = Cardinality(H) + 1
      /\ Cardinality(H) \in Nat
  BY <1>5, <1>7, FS_AddElement, FS_CardinalityType
<1>9. Held(a)' \subseteq 0..(f.total - 1) /\ f.number \in Held(a)'
  BY <1>4, <1>6
<1> QED BY <1>6, <1>8, <1>9 DEF H

\* The answer in the first entry has a fragment in the array.
LEMMA FirstIsHeld ==
    ASSUME TypeOK, ArrayHoldsArrivals, Entries > 0, splitpackets[0] # Empty
    PROVE  /\ splitpackets[0] \in got
           /\ splitpackets[0] \in SourceSplitPacket
           /\ splitpackets[0].number = 0
           /\ splitpackets[0].id \in DOMAIN sent
           /\ splitpackets[0] =
                 Piece(splitpackets[0].id, 0, sent[splitpackets[0].id])
<1>1. sent \in Seq(Totals) /\ got \subseteq SourceSplitPacket /\ Entries \in Nat
  BY FragmentsAssumption DEF TypeOK
<1>2. 0 \in 0..(Entries - 1)
  BY <1>1
<1>3. splitpackets[0] \in got /\ splitpackets[0].number = 0
  BY <1>2 DEF ArrayHoldsArrivals
<1>4. splitpackets[0] \in SourceSplitPacket
  BY <1>1, <1>3
<1>5. /\ splitpackets[0].id \in DOMAIN sent
      /\ splitpackets[0].total = sent[splitpackets[0].id]
      /\ splitpackets[0] = Piece(splitpackets[0].id, splitpackets[0].number,
                                 splitpackets[0].total)
  BY <1>1, <1>4, PieceFacts
<1> QED BY <1>3, <1>4, <1>5

LEMMA ReceiveCounts ==
    ASSUME SplitInv, NEW f \in SourceSplitPacket, Receive(f)
    PROVE  CountedAreHeld'
<1> DEFINE first == splitpackets[0]
           b == splitpackets[0].id
<1>1. /\ TypeOK /\ ArrayHoldsArrivals /\ FirstIsFilled /\ CountedAreHeld
      /\ sent \in Seq(Totals) /\ splitpackets_i \in -1..Entries
      /\ got \subseteq SourceSplitPacket
  BY DEF SplitInv, TypeOK
<1>2. /\ f.number \in 0..(f.total - 1) /\ f.total \in 2..(Entries - 1)
      /\ f.total = sent[f.id] /\ f = Piece(f.id, f.number, f.total)
      /\ f.id \in DOMAIN sent
      /\ f # Empty /\ Entries \in Nat /\ Entries > 0
      /\ 0 \in 0..(Entries - 1)
  BY <1>1, PieceFacts
<1>3. /\ splitpackets'[f.number] = f
      /\ \A n \in 0..(Entries - 1) :
            n # f.number => splitpackets'[n] = splitpackets[n]
      /\ Counter(f) \in 0..(Entries - 1)
      /\ first # Empty /\ first.id # f.id => Counter(f) = 0
      /\ first # Empty /\ first.id = f.id
            => Counter(f) <= splitpackets_i \/ Counter(f) = 0
      /\ splitpackets_i' = 0 \/ splitpackets_i' = Counter(f) + 1
      /\ got' = got \cup {f}
      /\ repeated' = IF f \in got THEN repeated \cup {f.id} ELSE repeated
      /\ sent' = sent
  BY ReceiveFacts
<1>4. Empty' = Empty
  BY DEF Empty
<1>5. splitpackets'[0] = IF f.number = 0 THEN f ELSE first
  BY <1>2, <1>3
<1> SUFFICES ASSUME splitpackets'[0] # Empty,
                    b' \notin repeated',
                    ~ \A g \in got' : g.number = 0 => g.id = b'
             PROVE  splitpackets_i' <= Cardinality(Held(b)')
  <2>1. CountedAreHeld' <=>
           (splitpackets'[0] # Empty =>
              \/ b' \in repeated'
              \/ \A g \in got' : g.number = 0 => g.id = b'
              \/ splitpackets_i' <= Cardinality(Held(b)'))
    BY <1>4 DEF CountedAreHeld, Held
  <2> QED BY <2>1
<1>6. first # Empty
  <2> SUFFICES ASSUME first = Empty PROVE FALSE
    OBVIOUS
  <2>1. f.number = 0 /\ b' = f.id
    BY <1>5
  <2>2. \A g \in got : g.number # 0
    BY <1>1 DEF FirstIsFilled
  <2> QED BY <1>3, <2>1, <2>2
<1>7. /\ first.id \in DOMAIN sent /\ first.number = 0 /\ first \in got
      /\ first = Piece(first.id, 0, sent[first.id])
  BY <1>1, <1>2, <1>6, FirstIsHeld
<1>8. CASE first.id # f.id
  <2>1. splitpackets_i' <= 1
    BY <1>3, <1>6, <1>8
  <2>2. b' \in DOMAIN sent /\ splitpackets'[0] = Piece(b', 0, sent[b'])
    <3>1. CASE f.number = 0
      BY <1>2, <1>5, <3>1
    <3>2. CASE f.number # 0
      BY <1>5, <1>7, <3>2
    <3> QED BY <3>1, <3>2
  <2>3. /\ IsFiniteSet(Held(b)') /\ 0 \in Held(b)'
    <3>1. sent[b'] \in 2..(Entries - 1)
      BY <1>1, <2>2, Totals2
    <3>2. 0 \in 0..(sent[b'] - 1) /\ IsFiniteSet(0..(sent[b'] - 1))
      BY <3>1, <1>2, CountIs
    <3>3. Held(b)' = {n \in 0..(sent[b'] - 1) : splitpackets'[n] = Piece(b', n, sent[b'])}
      BY <1>3 DEF Held, Piece
    <3>4. Held(b)' \subseteq 0..(sent[b'] - 1)
      BY <3>3
    <3> QED BY <2>2, <3>2, <3>3, <3>4, FS_Subset
  <2>4. Cardinality(Held(b)') \in Nat /\ Cardinality(Held(b)') # 0
    BY <2>3, FS_CardinalityType, FS_EmptySet
  <2> QED BY <1>3, <2>1, <2>4
<1>9. CASE first.id = f.id
  <2>1. b' = f.id
    BY <1>5, <1>9
  <2>2. f \notin got
    <3> SUFFICES ASSUME f \in got PROVE FALSE
      OBVIOUS
    <3> QED BY <1>3, <2>1
  <2>3. f.id \notin repeated
    BY <1>3, <2>1, <2>2
  <2>4. ~ \A g \in got : g.number = 0 => g.id = f.id
    BY <1>3, <2>1
  <2>5. splitpackets_i <= Cardinality(Held(f.id))
    BY <1>1, <1>6, <1>9, <2>3, <2>4 DEF CountedAreHeld
  <2>6. /\ Cardinality(Held(f.id)') = Cardinality(Held(f.id)) + 1
        /\ Cardinality(Held(f.id)) \in Nat
    BY <2>2, HeldGrows
  <2>7. Counter(f) <= Cardinality(Held(f.id))
    BY <1>1, <1>2, <1>3, <1>6, <1>9, <2>5, <2>6
  <2>8. Held(b)' = Held(f.id)'
    BY <2>1, <1>3 DEF Held
  <2> QED BY <1>2, <1>3, <2>6, <2>7, <2>8
<1> QED BY <1>8, <1>9

-----------------------------------------------------------------------------
(* Answers.                                                                *)

\* When the counter completes an answer none of whose fragments came twice, all
\* of them are in the array.
LEMMA ReceiveAnswers ==
    ASSUME SplitInv, NEW f \in SourceSplitPacket, Receive(f)
    PROVE  OneAnswerAtATime'
<1> DEFINE first == splitpackets[0]
           t == f.total
           a == Head(answer)[1]
<1>1. /\ TypeOK /\ ArrayHoldsArrivals /\ FirstIsFilled /\ CountedAreHeld
      /\ sent \in Seq(Totals) /\ splitpackets_i \in -1..Entries
      /\ got \subseteq SourceSplitPacket
  BY DEF SplitInv, TypeOK
<1>2. /\ f.number \in 0..(t - 1) /\ t \in 2..(Entries - 1)
      /\ t = sent[f.id] /\ f = Piece(f.id, f.number, t)
      /\ f.id \in DOMAIN sent
      /\ f # Empty /\ Entries \in Nat /\ Entries > 0
      /\ 0 \in 0..(Entries - 1)
  BY <1>1, PieceFacts
<1>3. /\ splitpackets' \in [0..(Entries - 1) -> SourceSplitPacket \cup {Empty}]
      /\ splitpackets'[f.number] = f
      /\ \A n \in 0..(Entries - 1) :
            n # f.number => splitpackets'[n] = splitpackets[n]
      /\ Counter(f) \in 0..(Entries - 1)
      /\ first # Empty /\ first.id # f.id => Counter(f) = 0
      /\ first # Empty /\ first.id = f.id
            => Counter(f) <= splitpackets_i \/ Counter(f) = 0
      /\ IF Counter(f) + 1 = t
         THEN /\ splitpackets_i' = 0
              /\ answer' = Assembled(splitpackets', Counter(f))
         ELSE /\ splitpackets_i' = Counter(f) + 1
              /\ answer' = <<>>
      /\ got' = got \cup {f}
      /\ repeated' = IF f \in got THEN repeated \cup {f.id} ELSE repeated
      /\ sent' = sent
  BY ReceiveFacts
<1>4. FirstIsFilled' /\ Empty' = Empty
  BY ReceiveFillsArray DEF Empty
<1> SUFFICES ASSUME answer' # <<>>,
                    a' \notin repeated',
                    ~ \A g \in got' : g.number = 0 => g.id = a'
             PROVE  answer' = Usable(a)'
  <2>1. OneAnswerAtATime' <=>
           (answer' # <<>> =>
              \/ answer' = Usable(a)'
              \/ a' \in repeated'
              \/ \A g \in got' : g.number = 0 => g.id = a')
    BY DEF OneAnswerAtATime
  <2> QED BY <2>1
<1>5. Counter(f) + 1 = t /\ answer' = Assembled(splitpackets', Counter(f))
  BY <1>3
<1>6. splitpackets'[0] # Empty
  BY <1>4 DEF FirstIsFilled
<1>7. a' = splitpackets'[0].id
  <2>1. Counter(f) \in 0..Entries
    BY <1>2, <1>3
  <2> QED BY <1>1, <1>3, <1>5, <1>6, <2>1, AssembledFacts
<1>8. splitpackets'[0] = IF f.number = 0 THEN f ELSE first
  BY <1>2, <1>3
<1>9. first # Empty
  <2> SUFFICES ASSUME first = Empty PROVE FALSE
    OBVIOUS
  <2>1. f.number = 0 /\ a' = f.id
    BY <1>6, <1>7, <1>8
  <2>2. \A g \in got : g.number # 0
    BY <1>1 DEF FirstIsFilled
  <2> QED BY <1>3, <2>1, <2>2
<1>10. first.id = f.id /\ a' = f.id
  <2>1. Counter(f) # 0
    BY <1>2, <1>3, <1>5
  <2> QED BY <1>3, <1>7, <1>8, <1>9, <2>1
<1>11. f \notin got
  <2> SUFFICES ASSUME f \in got PROVE FALSE
    OBVIOUS
  <2> QED BY <1>3, <1>10
<1>12. /\ f.id \notin repeated
       /\ ~ \A g \in got : g.number = 0 => g.id = f.id
  BY <1>3, <1>10, <1>11
<1>13. splitpackets_i <= Cardinality(Held(f.id))
  BY <1>1, <1>9, <1>10, <1>12 DEF CountedAreHeld
<1>14. Held(f.id)' = 0..(t - 1)
  <2>1. /\ IsFiniteSet(Held(f.id)')
        /\ Cardinality(Held(f.id)') = Cardinality(Held(f.id)) + 1
        /\ Cardinality(Held(f.id)) \in Nat
        /\ Held(f.id)' \subseteq 0..(t - 1)
    BY <1>11, HeldGrows
  <2>2. Cardinality(Held(f.id)') >= t
    BY <1>1, <1>2, <1>3, <1>5, <1>9, <1>10, <1>13, <2>1
  <2>3. IsFiniteSet(0..(t - 1)) /\ Cardinality(0..(t - 1)) = t
    BY <1>2, CountIs
  <2>4. Cardinality(Held(f.id)') <= t
    BY <2>1, <2>3, FS_Subset
  <2> QED BY <1>2, <2>1, <2>2, <2>3, <2>4, FS_Subset
<1>15. \A n \in 0..(t - 2) : splitpackets'[n] = Piece(f.id, n, t)
  <2>1. \A n \in 0..(t - 2) : n \in Held(f.id)'
    BY <1>2, <1>14
  <2>2. Held(f.id)' = {n \in 0..(t - 1) : splitpackets'[n] = Piece(f.id, n, t)}
    BY <1>2, <1>3 DEF Held, Piece
  <2> QED BY <2>1, <2>2
<1>16. Assembled(splitpackets', t - 1) = Usable(f.id)
  BY <1>1, <1>2, <1>15, AssembledIsUsable
<1>17. Usable(a)' = Usable(f.id)
  BY <1>3, <1>10 DEF Usable, Answer
<1>18. Counter(f) = t - 1
  BY <1>2, <1>3, <1>5
<1> QED BY <1>5, <1>16, <1>17, <1>18

-----------------------------------------------------------------------------
(* Fragments in order.                                                     *)

LEMMA ReceiveInOrder ==
    ASSUME SplitInv, NEW f \in SourceSplitPacket, Receive(f)
    PROVE  UndisturbedAreHeld'
<1> DEFINE t == f.total
           u == undisturbed
           InOrder(a, v) ==
              /\ v <= sent[a]
              /\ \A n \in 0..(v - 1) : splitpackets'[n] = Piece(a, n, sent[a])
              /\ \/ splitpackets_i' = IF v = sent[a] THEN 0 ELSE v
                 \/ FirstToFill(a)'
<1>1. /\ TypeOK /\ ArrayHoldsArrivals /\ UndisturbedAreHeld /\ StartsUncounted
      /\ FirstIsFilled
      /\ sent \in Seq(Totals) /\ undisturbed \in 0..Entries
  BY DEF SplitInv, TypeOK
<1>2. /\ f.number \in 0..(t - 1) /\ t \in 2..(Entries - 1)
      /\ t = sent[f.id] /\ f = Piece(f.id, f.number, t)
      /\ f.id \in DOMAIN sent
      /\ f # Empty /\ Entries \in Nat /\ Entries > 0
      /\ 0 \in 0..(Entries - 1)
  BY <1>1, PieceFacts
<1>3. /\ splitpackets'[f.number] = f
      /\ \A n \in 0..(Entries - 1) :
            n # f.number => splitpackets'[n] = splitpackets[n]
      /\ splitpackets[0] # Empty /\ splitpackets[0].id # f.id => Counter(f) = 0
      /\ splitpackets_i = -1 => Counter(f) = 0
      /\ splitpackets[0] # Empty /\ splitpackets[0].id = f.id
         /\ splitpackets_i \in 0..(Entries - 1)
            => Counter(f) = splitpackets_i
      /\ IF Counter(f) + 1 = t THEN splitpackets_i' = 0
                               ELSE splitpackets_i' = Counter(f) + 1
      /\ sent' = sent
  BY ReceiveFacts
<1>7. got' = got \cup {f}
  BY DEF Receive
<1> SUFFICES ASSUME undisturbed' > 0
             PROVE  InOrder(f.id, undisturbed')
  <2>1. InOrder(f.id, undisturbed') =>
           \E a \in DOMAIN sent : InOrder(a, undisturbed')
    BY <1>2
  <2>2. UndisturbedAreHeld' <=>
           (undisturbed' > 0 => \E a \in DOMAIN sent : InOrder(a, undisturbed'))
    BY <1>3 DEF UndisturbedAreHeld, Piece
  <2> QED BY <2>1, <2>2
<1>4. CASE /\ f.number = 0
           /\ \A g \in got : g.id # f.id
           /\ undisturbed' = 1
  <2>1. Counter(f) = 0 \/ FirstToFill(f.id)'
    <3>1. CASE splitpackets[0] # Empty
      <4>1. splitpackets[0] \in got
        BY <1>1, <1>2, <3>1, FirstIsHeld
      <4> QED BY <1>3, <1>4, <3>1, <4>1
    <3>2. CASE got = {}
      BY <1>1, <1>3, <3>2 DEF StartsUncounted
    <3>3. CASE splitpackets[0] = Empty /\ got # {}
      <4>1. \A g \in got : g.number # 0
        BY <1>1, <3>3 DEF FirstIsFilled
      <4> QED BY <1>4, <1>7, <3>3, <4>1 DEF FirstToFill
    <3> QED BY <3>1, <3>2, <3>3
  <2>2. /\ splitpackets_i' = 1 \/ FirstToFill(f.id)'
        /\ sent[f.id] # 1 /\ 1 <= sent[f.id]
    BY <1>2, <1>3, <2>1
  <2>3. splitpackets'[0] = Piece(f.id, 0, sent[f.id])
    BY <1>2, <1>3, <1>4
  <2>4. \A n \in 0..(1 - 1) : n = 0
    OBVIOUS
  <2> QED BY <1>4, <2>2, <2>3, <2>4
<1>5. CASE /\ undisturbed # 0
           /\ f.number = undisturbed
           /\ [f EXCEPT !.number = undisturbed - 1] = splitpackets[undisturbed - 1]
           /\ undisturbed' = f.number + 1
  <2>1. PICK a \in DOMAIN sent :
           /\ u <= sent[a]
           /\ \A n \in 0..(u - 1) : splitpackets[n] = Piece(a, n, sent[a])
           /\ \/ splitpackets_i = IF u = sent[a] THEN 0 ELSE u
              \/ FirstToFill(a)
    BY <1>1, <1>5 DEF UndisturbedAreHeld
  <2>2. f.id = a
    <3>1. u - 1 \in 0..(u - 1)
      BY <1>1, <1>5
    <3>2. splitpackets[u - 1] = Piece(a, u - 1, sent[a])
      BY <2>1, <3>1
    <3>3. [f EXCEPT !.number = u - 1].id = f.id
      BY <1>2 DEF Piece
    <3>4. Piece(a, u - 1, sent[a]).id = a
      BY DEF Piece
    <3> QED BY <1>5, <3>2, <3>3, <3>4
  <2>3. /\ u \in 1..(t - 1) /\ u # t
        /\ splitpackets_i = u \/ FirstToFill(f.id)
    BY <1>1, <1>2, <1>5, <2>1, <2>2
  <2>4. /\ splitpackets[0] = Piece(a, 0, t)
        /\ splitpackets[0] # Empty /\ splitpackets[0].id = f.id
    <3>1. 0 \in 0..(u - 1)
      BY <2>3
    <3>2. splitpackets[0] = Piece(a, 0, t)
      BY <1>2, <2>1, <2>2, <3>1
    <3>3. t # 0
      BY <1>2
    <3> QED BY <2>2, <3>2, <3>3 DEF Piece, Empty
  <2>5. Counter(f) = u \/ FirstToFill(f.id)
    <3>1. u \in 0..(Entries - 1)
      BY <1>2, <2>3
    <3> QED BY <1>3, <2>3, <2>4, <3>1
  <2>6. \/ splitpackets_i' = IF u + 1 = t THEN 0 ELSE u + 1
        \/ FirstToFill(f.id)'
    <3>1. CASE Counter(f) = u
      BY <1>3, <3>1
    <3>2. CASE FirstToFill(f.id)
      BY <1>7, <3>2 DEF FirstToFill
    <3> QED BY <2>5, <3>1, <3>2
  <2>7. ASSUME NEW n \in 0..((u + 1) - 1)
        PROVE  splitpackets'[n] = Piece(f.id, n, t)
    <3>1. CASE n = u
      BY <1>2, <1>3, <1>5, <3>1
    <3>2. CASE n # u
      <4>1. n \in 0..(u - 1) /\ n \in 0..(Entries - 1) /\ n # f.number
        BY <1>2, <1>5, <2>3, <3>2
      <4> QED BY <1>2, <1>3, <2>1, <2>2, <4>1
    <3> QED BY <3>1, <3>2
  <2>8. undisturbed' = u + 1 /\ u + 1 <= t
    BY <1>2, <1>5
  <2> QED BY <1>2, <2>6, <2>7, <2>8
<1>6. CASE undisturbed' = 0
  BY <1>6
<1> QED BY <1>4, <1>5, <1>6, UndisturbedIs, Zenon

-----------------------------------------------------------------------------
(* A new answer of the game server changes nothing of the others.          *)

LEMMA SourceAnswersKeeps ==
    ASSUME SplitInv, NEW total \in Totals, SourceAnswers(total)
    PROVE  SplitInv'
<1>1. /\ TypeOK /\ ArrayHoldsArrivals /\ FirstIsFilled /\ StartsUncounted
      /\ CountedAreHeld /\ UndisturbedAreHeld /\ OneAnswerAtATime
      /\ sent \in Seq(Totals)
  BY DEF SplitInv, TypeOK
<1>2. /\ sent' = Append(sent, total)
      /\ splitpackets' = splitpackets /\ splitpackets_i' = splitpackets_i
      /\ answer' = answer
      /\ got' = got /\ repeated' = repeated /\ undisturbed' = undisturbed
  BY DEF SourceAnswers, worker, history
<1>3. /\ sent' \in Seq(Totals)
      /\ DOMAIN sent \subseteq DOMAIN sent'
      /\ \A a \in DOMAIN sent : sent'[a] = sent[a]
  BY <1>1, <1>2
<1>4. SourceSplitPacket \subseteq SourceSplitPacket'
  BY <1>3 DEF SourceSplitPacket, Fragments
<1>5. \A a \in DOMAIN sent : Answer(a)' = Answer(a)
  BY <1>3 DEF Answer
<1>6. Cells \subseteq Cells'
  BY <1>3, <1>5 DEF Cells
<1>7. TypeOK'
  <2>1. answer \in Seq(Cells)
    BY <1>1 DEF TypeOK, Cells
  <2>2. answer' \in Seq(Cells')
    BY <1>2, <1>6, <2>1, SeqMonotonic
  <2>3. splitpackets' \in [0..(Entries - 1) -> SourceSplitPacket' \cup {Empty}]
    BY <1>1, <1>2, <1>4 DEF TypeOK
  <2>4. /\ got' \subseteq SourceSplitPacket' /\ repeated' \subseteq DOMAIN sent'
        /\ splitpackets_i' \in -1..Entries /\ undisturbed' \in 0..Entries
    BY <1>1, <1>2, <1>3, <1>4 DEF TypeOK
  <2> QED BY <1>3, <2>2, <2>3, <2>4 DEF TypeOK, Cells, Empty
<1>8. Entries > 0 /\ Entries \in Nat
  BY FragmentsAssumption
<1>9. ArrayHoldsArrivals' /\ FirstIsFilled' /\ StartsUncounted'
  BY <1>1, <1>2
     DEF ArrayHoldsArrivals, FirstIsFilled, StartsUncounted, Empty
<1>10. CountedAreHeld'
  <2>1. ASSUME splitpackets[0] # Empty
        PROVE  Held(splitpackets[0].id)' = Held(splitpackets[0].id)
    <3>1. splitpackets[0].id \in DOMAIN sent
      BY <1>1, <1>8, <2>1, FirstIsHeld
    <3> QED BY <1>2, <1>3, <3>1 DEF Held, Piece
  <2> QED BY <1>1, <1>2, <2>1 DEF CountedAreHeld, Empty
<1>11. UndisturbedAreHeld'
  BY <1>1, <1>2, <1>3 DEF UndisturbedAreHeld, FirstToFill, Piece
<1>12. OneAnswerAtATime'
  <2> DEFINE a == Head(answer)[1]
  <2> SUFFICES ASSUME answer # <<>>, answer = Usable(a)
               PROVE  answer' = Usable(a)'
    BY <1>1, <1>2 DEF OneAnswerAtATime
  <2>1. a \in DOMAIN sent
    <3>1. answer \in Seq(Cells) /\ Len(answer) # 0
      BY <1>1, EmptySeq DEF TypeOK, Cells
    <3>2. answer[1] \in Cells
      BY <3>1, ElementOfSeq
    <3>3. PICK b \in DOMAIN sent : answer[1] \in ToSet(Answer(b))
      BY <3>2 DEF Cells
    <3>4. answer[1][1] = b
      BY <1>1, <3>3, CellsTellTheAnswer
    <3>5. Head(answer) = answer[1]
      BY <3>1
    <3> QED BY <3>3, <3>4, <3>5
  <2> QED BY <1>2, <1>3, <1>5, <2>1 DEF Usable
<1> QED BY <1>7, <1>9, <1>10, <1>11, <1>12 DEF SplitInv

-----------------------------------------------------------------------------
(* The theorems.                                                           *)

\* What the array and the counter hold, and what is assembled, is as SplitInv
\* says of every state: however fragments of OnReceiveSourceServerA2SData's
\* answers are lost, late or repeated.
THEOREM SplitInvariant == Spec => []SplitInv
<1>1. Init => SplitInv
  <2> SUFFICES ASSUME Init PROVE SplitInv
    OBVIOUS
  <2>1. Entries \in Nat
    BY FragmentsAssumption
  <2>2. /\ splitpackets = [n \in 0..(Entries - 1) |-> Empty]
        /\ splitpackets_i = -1 /\ answer = <<>> /\ sent = <<>>
        /\ got = {} /\ repeated = {} /\ undisturbed = 0
    BY DEF Init
  <2>3. TypeOK
    <3>1. answer \in Seq(Cells)
      BY <2>2, EmptySeq
    <3>2. splitpackets \in [0..(Entries - 1) -> SourceSplitPacket \cup {Empty}]
      BY <2>2
    <3> QED BY <2>1, <2>2, <3>1, <3>2, EmptySeq DEF TypeOK, Cells
  <2>4. ArrayHoldsArrivals
    BY <2>2 DEF ArrayHoldsArrivals
  <2>5. CountedAreHeld
    BY <2>2 DEF CountedAreHeld
  <2>6. FirstIsFilled /\ StartsUncounted /\ UndisturbedAreHeld /\ OneAnswerAtATime
    BY <2>2
       DEF FirstIsFilled, StartsUncounted, UndisturbedAreHeld, OneAnswerAtATime
  <2> QED BY <2>3, <2>4, <2>5, <2>6 DEF SplitInv
<1>2. SplitInv /\ [Next]_vars => SplitInv'
  <2> SUFFICES ASSUME SplitInv, [Next]_vars PROVE SplitInv'
    OBVIOUS
  <2>1. ASSUME NEW total \in Totals, SourceAnswers(total) PROVE SplitInv'
    BY <2>1, SourceAnswersKeeps
  <2>2. ASSUME NEW f \in SourceSplitPacket, Receive(f) PROVE SplitInv'
    BY <2>2, ReceiveTypes, ReceiveFillsArray, ReceiveCounts, ReceiveInOrder,
       ReceiveAnswers, Zenon DEF SplitInv
  <2>3. CASE UNCHANGED vars
    BY <2>3 DEF vars, worker, history, SplitInv, TypeOK, ArrayHoldsArrivals,
       FirstIsFilled, StartsUncounted, CountedAreHeld, UndisturbedAreHeld,
       OneAnswerAtATime, SourceSplitPacket, Fragments, Answer, Usable, Held,
       FirstToFill, Empty, Piece
  <2> QED BY <2>1, <2>2, <2>3 DEF Next
<1> QED BY <1>1, <1>2, PTL DEF Spec

\* Every variable keeps its type; splitpackets_i, which at first is outside the
\* array, is never further than one past its end.
THEOREM SplitTypes == Spec => []TypeOK
BY SplitInvariant, PTL DEF SplitInv

\* What OnReceiveSourceServerA2SData puts together belongs to one answer and is
\* in order, unless a fragment of it came twice or the first entry was empty
\* when counting began.
THEOREM AnswersAreWhole == Spec => []OneAnswerAtATime
BY SplitInvariant, PTL DEF SplitInv

\* Whatever was lost, late or repeated before, an answer whose fragments come
\* in order with nothing between them is put together by its last one, unless
\* others had come without a first fragment and it fills the first entry.
THEOREM NextAnswerRecovers == Spec => RecoversWithNextAnswer
<1> DEFINE Recovers(f) == undisturbed' = f.total /\ got' = got \cup {f}
                          /\ Receive(f)
                          => answer' = Usable(f.id) \/ FirstToFill(f.id)
<1>1. SplitInv => \A f \in SourceSplitPacket : Recovers(f)
  <2> SUFFICES ASSUME SplitInv, NEW f \in SourceSplitPacket, Receive(f),
                      undisturbed' = f.total, ~FirstToFill(f.id)
               PROVE  answer' = Usable(f.id)
    OBVIOUS
  <2> DEFINE t == f.total
             u == undisturbed
  <2>1. /\ UndisturbedAreHeld /\ sent \in Seq(Totals) /\ u \in 0..Entries
    BY DEF SplitInv, TypeOK
  <2>2. /\ f.number \in 0..(t - 1) /\ t \in 2..(Entries - 1)
        /\ t = sent[f.id] /\ f = Piece(f.id, f.number, t)
        /\ f.id \in DOMAIN sent /\ Entries \in Nat
    BY <2>1, PieceFacts
  <2>3. /\ u # 0 /\ f.number = u /\ t = u + 1
        /\ [f EXCEPT !.number = u - 1] = splitpackets[u - 1]
    <3>1. t # 1 /\ t # 0
      BY <2>2
    <3>2. /\ u # 0 /\ f.number = u /\ t = f.number + 1
          /\ [f EXCEPT !.number = u - 1] = splitpackets[u - 1]
      BY <3>1, UndisturbedIs, Zenon
    <3> QED BY <3>2
  <2>4. PICK a \in DOMAIN sent :
           /\ u <= sent[a]
           /\ \A n \in 0..(u - 1) : splitpackets[n] = Piece(a, n, sent[a])
           /\ \/ splitpackets_i = IF u = sent[a] THEN 0 ELSE u
              \/ FirstToFill(a)
    BY <2>1, <2>3 DEF UndisturbedAreHeld
  <2>5. f.id = a
    <3>1. u - 1 \in 0..(u - 1)
      BY <2>1, <2>3
    <3>2. splitpackets[u - 1] = Piece(a, u - 1, sent[a])
      BY <2>4, <3>1
    <3>3. [f EXCEPT !.number = u - 1].id = f.id
      BY <2>2 DEF Piece
    <3>4. Piece(a, u - 1, sent[a]).id = a
      BY DEF Piece
    <3> QED BY <2>3, <3>2, <3>3, <3>4
  <2>6. u \in 1..(t - 1) /\ splitpackets_i = u /\ u \in 0..(Entries - 1)
    <3>1. sent[a] = t
      BY <2>2, <2>5
    <3>2. u # sent[a]
      BY <2>1, <2>3, <3>1
    <3>3. splitpackets_i = u
      BY <2>4, <2>5, <3>2
    <3>4. u \in 1..(t - 1) /\ u \in 0..(Entries - 1)
      BY <2>1, <2>2, <2>3
    <3> QED BY <3>3, <3>4
  <2>7. splitpackets[0] # Empty /\ splitpackets[0].id = f.id
    <3>1. 0 \in 0..(u - 1)
      BY <2>6
    <3>2. splitpackets[0] = Piece(a, 0, t)
      BY <2>2, <2>4, <2>5, <3>1
    <3>3. t # 0
      BY <2>2
    <3> QED BY <2>5, <3>2, <3>3 DEF Piece, Empty
  <2>8. /\ Counter(f) = splitpackets_i
        /\ Counter(f) + 1 = t => answer' = Assembled(splitpackets', Counter(f))
        /\ \A n \in 0..(Entries - 1) :
              n # f.number => splitpackets'[n] = splitpackets[n]
    BY <2>6, <2>7, ReceiveFacts
  <2>9. answer' = Assembled(splitpackets', t - 1)
    BY <2>3, <2>6, <2>8
  <2>10. \A n \in 0..(t - 2) : splitpackets'[n] = Piece(f.id, n, t)
    <3> SUFFICES ASSUME NEW n \in 0..(t - 2)
                 PROVE  splitpackets'[n] = Piece(f.id, n, t)
      OBVIOUS
    <3>1. n \in 0..(u - 1) /\ n \in 0..(Entries - 1) /\ n # f.number
      BY <2>2, <2>3, <2>6
    <3> QED BY <2>2, <2>4, <2>5, <2>8, <3>1
  <2> QED BY <2>1, <2>2, <2>9, <2>10, AssembledIsUsable
<1>2. SplitInv /\ [Next]_vars
         => [\A f \in SourceSplitPacket : Recovers(f)]_vars
  BY <1>1
<1> QED BY <1>2, SplitInvariant, PTL DEF Spec, RecoversWithNextAnswer

-----------------------------------------------------------------------------
(* The second part, the info reply.  First leybuf: what its operations do.  *)

Bufs == [buffer: Seq(Byte), size: Nat, curbyte: Nat, overflowed: BOOLEAN]

Fits(b, n) == ~b.overflowed /\ b.curbyte + n <= b.size /\ b.curbyte < b.size

Overflown(b) == [b EXCEPT !.overflowed = TRUE]
Moved(b, n) == [b EXCEPT !.curbyte = b.curbyte + n]

\* Every operation first finds out whether its bytes fit, and overflows if not.
LEMMA TestedIs ==
    ASSUME NEW b \in Bufs, NEW n \in Nat
    PROVE  /\ Fits(b, n) => Tested(b, n) = b
           /\ ~Fits(b, n) => Tested(b, n) = Overflown(b)
           /\ Tested(b, n).overflowed = ~Fits(b, n)
<1>1. Tested(b, n) = [b EXCEPT !.overflowed = ~Fits(b, n)]
  BY DEF Tested, Fits, Bufs
<1>2. b = [b EXCEPT !.overflowed = b.overflowed]
  BY DEF Bufs
<1>3. Tested(b, n).overflowed = ~Fits(b, n)
  BY <1>1 DEF Bufs
<1>4. CASE Fits(b, n)
  <2>1. b.overflowed = FALSE /\ ~Fits(b, n) = FALSE
    BY <1>4 DEF Fits, Bufs
  <2> QED BY <1>1, <1>2, <1>3, <1>4, <2>1
<1>5. CASE ~Fits(b, n)
  <2>1. ~Fits(b, n) = TRUE
    BY <1>5
  <2> QED BY <1>1, <1>3, <1>5, <2>1 DEF Overflown
<1> QED BY <1>4, <1>5

\* A number is read where it fits, and is zeros where it does not.
LEMMA ReadIs ==
    ASSUME NEW b \in Bufs, NEW n \in Nat
    PROVE  /\ Fits(b, n) =>
                 Read(b, n) = [buf |-> Moved(b, n),
                               value |-> SubSeq(b.buffer, b.curbyte + 1, b.curbyte + n)]
           /\ ~Fits(b, n) =>
                 Read(b, n) = [buf |-> Overflown(b), value |-> [i \in 1..n |-> 0]]
BY TestedIs DEF Read, Moved

\* A text is read where as many bytes as the variable holds fit, and else kept.
LEMMA ReadStringIs ==
    ASSUME NEW b \in Bufs, NEW old \in Seq(Byte)
    PROVE  /\ Fits(b, Len(old)) =>
                 ReadString(b, old) =
                     [buf |-> [b EXCEPT !.curbyte = b.curbyte + Strlen(b) + 1],
                      value |-> SubSeq(b.buffer, b.curbyte + 1, b.curbyte + Strlen(b))]
           /\ ~Fits(b, Len(old)) =>
                 ReadString(b, old) = [buf |-> Overflown(b), value |-> old]
<1>1. Len(old) \in Nat
  OBVIOUS
<1> QED BY <1>1, TestedIs DEF ReadString

\* What Strlen finds where there is a NUL.
LEMMA StrlenIs ==
    ASSUME NEW b \in Bufs, NEW k \in 0..(Len(b.buffer) - b.curbyte - 1),
           b.buffer[b.curbyte + k + 1] = NUL,
           \A j \in 0..(k - 1) : b.buffer[b.curbyte + j + 1] # NUL
    PROVE  Strlen(b) = k
<1> DEFINE S == {j \in 0..(Len(b.buffer) - b.curbyte - 1) :
                    b.buffer[b.curbyte + j + 1] = NUL}
<1>1. k \in S /\ \A j \in S : k <= j
  BY DEF Bufs
<1>2. \A x \in S : (\A y \in S : x <= y) => x = k
  <2> SUFFICES ASSUME NEW x \in S, \A y \in S : x <= y PROVE x = k
    OBVIOUS
  <2>1. x <= k /\ k <= x /\ x \in Int /\ k \in Int
    BY <1>1
  <2> QED BY <2>1
<1>3. Strlen(b) = CHOOSE x \in S : \A y \in S : x <= y
  BY DEF Strlen, Min
<1> HIDE DEF S
<1> QED BY <1>1, <1>2, <1>3

\* A NUL at the end of the memory ends every text in it.
LEMMA StrlenFacts ==
    ASSUME NEW b \in Bufs, b.curbyte < Len(b.buffer),
           b.buffer[Len(b.buffer)] = NUL
    PROVE  /\ Strlen(b) \in 0..(Len(b.buffer) - b.curbyte - 1)
           /\ \A j \in 0..(Strlen(b) - 1) : b.buffer[b.curbyte + j + 1] # NUL
<1> DEFINE last == Len(b.buffer) - b.curbyte - 1
           S == {j \in 0..last : b.buffer[b.curbyte + j + 1] = NUL}
<1>1. last \in Nat /\ b.curbyte + last + 1 = Len(b.buffer)
  BY DEF Bufs
<1>2. last \in S
  BY <1>1
<1>3. S \subseteq Nat
  BY <1>1
<1>4. PICK m \in S : \A k \in S : m <= k
  <2> HIDE DEF S
  <2> QED BY <1>2, <1>3, LeastOf
<1>5. m \in 0..last /\ b.buffer[b.curbyte + m + 1] = NUL
  OBVIOUS
<1>6. ASSUME NEW j \in 0..(m - 1) PROVE b.buffer[b.curbyte + j + 1] # NUL
  <2>1. j \in 0..last /\ j \notin S
    BY <1>1, <1>4, <1>5
  <2> QED BY <2>1
<1>7. Strlen(b) = m
  <2> HIDE DEF S
  <2> QED BY <1>5, <1>6, StrlenIs
<1> QED BY <1>5, <1>6, <1>7

-----------------------------------------------------------------------------
(* The fields.                                                             *)

\* There are eighteen fields.
LEMMA FieldCount == Len(Fields) = 18 /\ DOMAIN Fields = 1..18
BY DEF Fields

\* The sizes and bits of the fields: what comes after edf is optional.
LEMMA FieldKinds ==
    \A i \in 1..18 :
       /\ Fields[i].size \in {0, 1, 2, 3, 8}
       /\ i <= 12 => Fields[i].bit = 0
       /\ i > 12 => Fields[i].bit \in {128, 16, 64, 32, 1}
BY DEF Fields, Field

\* No two fields have the same name.
LEMMA NamesDiffer ==
    \A i, j \in 1..18 : Fields[i].name = Fields[j].name => i = j
BY DEF Fields, Field

\* The fields that the worker changes.
LEMMA FieldNames ==
    /\ Fields[3].name = "name" /\ Fields[3].size = 0
    /\ Fields[12].name = "edf" /\ Fields[12].size = 1
    /\ Fields[13].name = "gameport" /\ Fields[13].size = 2
    /\ Fields[14].name = "serversid" /\ Fields[14].size = 8
BY DEF Fields, Field

\* The names are those of the fields.
LEMMA NameFacts ==
    /\ Names = {Fields[i].name : i \in 1..18}
    /\ \A i \in 1..18 : Fields[i].name \in Names
    /\ "name" \in Names /\ "edf" \in Names
    /\ "gameport" \in Names /\ "serversid" \in Names
<1>1. Names = {Fields[i].name : i \in 1..18}
  BY FieldCount, Zenon DEF Names
<1>2. \A i \in 1..18 : Fields[i].name \in Names
  BY <1>1
<1>3. 3 \in 1..18 /\ 12 \in 1..18 /\ 13 \in 1..18 /\ 14 \in 1..18
  OBVIOUS
<1>4. /\ "name" \in Names /\ "edf" \in Names
      /\ "gameport" \in Names /\ "serversid" \in Names
  BY <1>2, <1>3, FieldNames, Zenon
<1> QED BY <1>1, <1>2, <1>4, Zenon

\* The loop over the fields read exists: what it is up to k can be continued.
LEMMA ReadFieldsStep ==
    ASSUME NEW s, NEW first \in 1..18
    PROVE  /\ ReadFields(s, first, first - 1) = s
           /\ \A i \in first..18 :
                 ReadFields(s, first, i) =
                     ReadField(ReadFields(s, first, i - 1), Fields[i])
<1> DEFINE IsLoop(k, f) ==
              f = [i \in (first - 1)..k |->
                      IF i < first THEN s ELSE ReadField(f[i - 1], Fields[i])]
           n == 18 - (first - 1)
           T == {k \in 0..n : \E f : IsLoop(first - 1 + k, f)}
<1>1. 0 \in T
  <2>1. IsLoop(first - 1, [i \in (first - 1)..(first - 1) |-> s])
    OBVIOUS
  <2>2. first - 1 = first - 1 + 0
    OBVIOUS
  <2> HIDE DEF IsLoop
  <2>3. IsLoop(first - 1 + 0, [i \in (first - 1)..(first - 1) |-> s])
    BY <2>1, <2>2
  <2> QED BY <2>3
<1>2. ASSUME NEW k \in 0..(n - 1), k \in T PROVE k + 1 \in T
  <2> DEFINE m == first - 1 + k
  <2>1. PICK f : IsLoop(m, f)
    BY <1>2
  <2>2. m \in (first - 1)..17 /\ m + 1 = first - 1 + (k + 1) /\ k + 1 \in 0..n
    OBVIOUS
  <2> HIDE DEF m
  <2> DEFINE g == [i \in (first - 1)..(m + 1) |->
                      IF i = m + 1 THEN ReadField(f[m], Fields[i]) ELSE f[i]]
  <2>3. ASSUME NEW i \in (first - 1)..(m + 1)
        PROVE  g[i] = IF i < first THEN s ELSE ReadField(g[i - 1], Fields[i])
    <3>1. CASE i = m + 1
      <4>1. g[i - 1] = f[m] /\ ~(i < first)
        BY <2>2, <3>1
      <4> QED BY <3>1, <4>1
    <3>2. CASE i # m + 1
      <4>1. i \in (first - 1)..m
        BY <2>2, <3>2
      <4>2. f[i] = IF i < first THEN s ELSE ReadField(f[i - 1], Fields[i])
        BY <2>1, <4>1
      <4>3. g[i] = f[i]
        BY <3>2
      <4>4. ~(i < first) => g[i - 1] = f[i - 1]
        BY <2>2, <4>1
      <4> QED BY <4>2, <4>3, <4>4
    <3> QED BY <3>1, <3>2
  <2>4. IsLoop(m + 1, g)
    BY <2>3
  <2> HIDE DEF IsLoop, g
  <2> QED BY <2>2, <2>4
<1>3. \E f : IsLoop(18, f)
  <2>1. n \in T
    <3>1. n \in Nat
      OBVIOUS
    <3> HIDE DEF T, n
    <3>2. 0..n \subseteq T
      BY <1>1, <1>2, <3>1, HoldsUpTo
    <3> QED BY <3>1, <3>2
  <2>2. first - 1 + n = 18
    OBVIOUS
  <2> HIDE DEF IsLoop, n
  <2> QED BY <2>1, <2>2
<1> DEFINE read == CHOOSE f : IsLoop(18, f)
<1>4. IsLoop(18, read)
  <2> HIDE DEF IsLoop
  <2> QED BY <1>3
<1>5. \A i : ReadFields(s, first, i) = read[i]
  BY FieldCount, Zenon DEF ReadFields
<1> HIDE DEF read
<1>6. \A i \in (first - 1)..18 :
         read[i] = IF i < first THEN s ELSE ReadField(read[i - 1], Fields[i])
  BY <1>4
<1>7. read[first - 1] = s
  BY <1>6
<1>8. ASSUME NEW i \in first..18
      PROVE  read[i] = ReadField(read[i - 1], Fields[i])
  BY <1>6
<1> QED BY <1>5, <1>7, <1>8

\* The same for the fields written.
LEMMA WriteFieldsStep ==
    ASSUME NEW b, NEW info
    PROVE  /\ WriteFields(b, info, 0) = b
           /\ \A i \in 1..18 :
                 WriteFields(b, info, i) =
                    WriteField(WriteFields(b, info, i - 1), info, Fields[i])
<1> DEFINE IsLoop(k, f) ==
              f = [i \in 0..k |->
                      IF i = 0 THEN b ELSE WriteField(f[i - 1], info, Fields[i])]
           T == {k \in 0..18 : \E f : IsLoop(k, f)}
<1>1. 0 \in T
  <2>1. IsLoop(0, [i \in 0..0 |-> b])
    OBVIOUS
  <2> HIDE DEF IsLoop
  <2> QED BY <2>1
<1>2. ASSUME NEW k \in 0..(18 - 1), k \in T PROVE k + 1 \in T
  <2>1. PICK f : IsLoop(k, f)
    BY <1>2
  <2> DEFINE g == [i \in 0..(k + 1) |->
                      IF i = k + 1 THEN WriteField(f[k], info, Fields[i]) ELSE f[i]]
  <2>2. ASSUME NEW i \in 0..(k + 1)
        PROVE  g[i] = IF i = 0 THEN b ELSE WriteField(g[i - 1], info, Fields[i])
    <3>1. CASE i = k + 1
      <4>1. g[i - 1] = f[k] /\ i # 0
        BY <3>1
      <4> QED BY <3>1, <4>1
    <3>2. CASE i # k + 1
      <4>1. i \in 0..k
        BY <3>2
      <4>2. f[i] = IF i = 0 THEN b ELSE WriteField(f[i - 1], info, Fields[i])
        BY <2>1, <4>1
      <4>3. g[i] = f[i] /\ (i # 0 => g[i - 1] = f[i - 1])
        BY <3>2, <4>1
      <4> QED BY <4>2, <4>3
    <3> QED BY <3>1, <3>2
  <2>3. IsLoop(k + 1, g)
    BY <2>2
  <2>4. k + 1 \in 0..18
    OBVIOUS
  <2> HIDE DEF IsLoop, g
  <2> QED BY <2>3, <2>4
<1>3. \E f : IsLoop(18, f)
  <2> HIDE DEF T
  <2>1. 0..18 \subseteq T
    BY <1>1, <1>2, HoldsUpTo
  <2>2. 18 \in T
    BY <2>1
  <2> HIDE DEF IsLoop
  <2> QED BY <2>2 DEF T
<1> DEFINE loop == CHOOSE f : IsLoop(18, f)
<1>4. IsLoop(18, loop)
  <2> HIDE DEF IsLoop
  <2> QED BY <1>3
<1>5. \A i : WriteFields(b, info, i) = loop[i]
  BY FieldCount, Zenon DEF WriteFields
<1> HIDE DEF loop
<1>6. \A i \in 0..18 :
         loop[i] = IF i = 0 THEN b ELSE WriteField(loop[i - 1], info, Fields[i])
  BY <1>4
<1>7. loop[0] = b
  BY <1>6
<1>8. ASSUME NEW i \in 1..18 PROVE loop[i] = WriteField(loop[i - 1], info, Fields[i])
  BY <1>6
<1> QED BY <1>5, <1>7, <1>8

\* The same for the bytes of the fields.
LEMMA PackedStep ==
    ASSUME NEW r
    PROVE  /\ Packed(r, 0) = <<>>
           /\ \A i \in 1..18 :
                 Packed(r, i) = Packed(r, i - 1) \o Bytes(r, Fields[i])
<1> DEFINE IsLoop(k, f) ==
              f = [i \in 0..k |->
                      IF i = 0 THEN <<>> ELSE f[i - 1] \o Bytes(r, Fields[i])]
           T == {k \in 0..18 : \E f : IsLoop(k, f)}
<1>1. 0 \in T
  <2>1. IsLoop(0, [i \in 0..0 |-> <<>>])
    OBVIOUS
  <2> HIDE DEF IsLoop
  <2> QED BY <2>1
<1>2. ASSUME NEW k \in 0..(18 - 1), k \in T PROVE k + 1 \in T
  <2>1. PICK f : IsLoop(k, f)
    BY <1>2
  <2> DEFINE g == [i \in 0..(k + 1) |->
                      IF i = k + 1 THEN f[k] \o Bytes(r, Fields[i]) ELSE f[i]]
  <2>2. ASSUME NEW i \in 0..(k + 1)
        PROVE  g[i] = IF i = 0 THEN <<>> ELSE g[i - 1] \o Bytes(r, Fields[i])
    <3>1. CASE i = k + 1
      <4>1. g[i - 1] = f[k] /\ i # 0
        BY <3>1
      <4> QED BY <3>1, <4>1
    <3>2. CASE i # k + 1
      <4>1. i \in 0..k
        BY <3>2
      <4>2. f[i] = IF i = 0 THEN <<>> ELSE f[i - 1] \o Bytes(r, Fields[i])
        BY <2>1, <4>1
      <4>3. g[i] = f[i] /\ (i # 0 => g[i - 1] = f[i - 1])
        BY <3>2, <4>1
      <4> QED BY <4>2, <4>3
    <3> QED BY <3>1, <3>2
  <2>3. IsLoop(k + 1, g)
    BY <2>2
  <2>4. k + 1 \in 0..18
    OBVIOUS
  <2> HIDE DEF IsLoop, g
  <2> QED BY <2>3, <2>4
<1>3. \E f : IsLoop(18, f)
  <2> HIDE DEF T
  <2>1. 0..18 \subseteq T
    BY <1>1, <1>2, HoldsUpTo
  <2>2. 18 \in T
    BY <2>1
  <2> HIDE DEF IsLoop
  <2> QED BY <2>2 DEF T
<1> DEFINE loop == CHOOSE f : IsLoop(18, f)
<1>4. IsLoop(18, loop)
  <2> HIDE DEF IsLoop
  <2> QED BY <1>3
<1>5. \A i : Packed(r, i) = loop[i]
  BY FieldCount, Zenon DEF Packed
<1> HIDE DEF loop
<1>6. \A i \in 0..18 :
         loop[i] = IF i = 0 THEN <<>> ELSE loop[i - 1] \o Bytes(r, Fields[i])
  BY <1>4
<1>7. loop[0] = <<>>
  BY <1>6
<1>8. ASSUME NEW i \in 1..18 PROVE loop[i] = loop[i - 1] \o Bytes(r, Fields[i])
  <2>1. i \in 0..18 /\ i # 0
    OBVIOUS
  <2> QED BY <1>6, <2>1, Zenon
<1> QED BY <1>5, <1>7, <1>8

-----------------------------------------------------------------------------
(* The bytes of a reply.                                                   *)

\* What an info holds in a field.
LEMMA InfoFacts ==
    ASSUME NEW r, IsInfo(r)
    PROVE  /\ r \in [Names -> Seq(Byte)]
           /\ \A i \in 1..18 :
                 /\ r[Fields[i].name] \in Seq(Byte)
                 /\ Fields[i].size = 0 => r[Fields[i].name] \in Text
                 /\ Fields[i].size # 0 =>
                       /\ r[Fields[i].name] \in [1..Fields[i].size -> Byte]
                       /\ Len(r[Fields[i].name]) = Fields[i].size
           /\ r.edf[1] \in Byte
<1>1. r \in [Names -> Seq(Byte)]
  BY Zenon DEF IsInfo
<1>2. ASSUME NEW i \in 1..18
      PROVE  r[Fields[i].name] \in IF Fields[i].size = 0 THEN Text
                                   ELSE [1..Fields[i].size -> Byte]
  BY FieldCount, Zenon DEF IsInfo
<1>3. ASSUME NEW i \in 1..18
      PROVE  /\ r[Fields[i].name] \in Seq(Byte)
             /\ Fields[i].size = 0 => r[Fields[i].name] \in Text
             /\ Fields[i].size # 0 =>
                   /\ r[Fields[i].name] \in [1..Fields[i].size -> Byte]
                   /\ Len(r[Fields[i].name]) = Fields[i].size
  <2>1. Fields[i].name \in Names /\ Fields[i].size \in Nat
    BY NameFacts, FieldKinds
  <2>2. r[Fields[i].name] \in Seq(Byte)
    BY <1>1, <2>1
  <2>3. ASSUME Fields[i].size # 0
        PROVE  /\ r[Fields[i].name] \in [1..Fields[i].size -> Byte]
               /\ Len(r[Fields[i].name]) = Fields[i].size
    <3>1. r[Fields[i].name] \in [1..Fields[i].size -> Byte]
      BY <1>2, <2>3
    <3>2. DOMAIN r[Fields[i].name] = 1..Fields[i].size
      BY <3>1
    <3>3. Len(r[Fields[i].name]) = Fields[i].size
      BY <2>1, <2>2, <3>2, LenProperties
    <3> QED BY <3>1, <3>3
  <2> QED BY <1>2, <2>2, <2>3
<1>4. r.edf[1] \in Byte
  <2>1. 12 \in 1..18
    OBVIOUS
  <2>2. r["edf"] \in [1..1 -> Byte]
    BY <1>3, <2>1, FieldNames
  <2> QED BY <2>2
<1> QED BY <1>1, <1>3, <1>4

\* The bytes of a field that is there: at least one, and a NUL behind a text.
LEMMA BytesFacts ==
    ASSUME NEW r, IsInfo(r), NEW i \in 1..18
    PROVE  LET bytes == Bytes(r, Fields[i])
               value == r[Fields[i].name]
           IN /\ bytes \in Seq(Byte)
              /\ ~Present(r, Fields[i]) => bytes = <<>> /\ Len(bytes) = 0
              /\ Present(r, Fields[i]) /\ Fields[i].size # 0 =>
                    bytes = value /\ Len(bytes) = Fields[i].size
              /\ Present(r, Fields[i]) /\ Fields[i].size = 0 =>
                    /\ Len(bytes) = Len(value) + 1
                    /\ bytes = Append(value, NUL)
                    /\ bytes[Len(value) + 1] = NUL
                    /\ \A k \in 1..Len(value) :
                          bytes[k] = value[k] /\ bytes[k] # NUL
<1> DEFINE bytes == Bytes(r, Fields[i])
           value == r[Fields[i].name]
<1>1. value \in Seq(Byte)
  BY InfoFacts
<1>2. CASE ~Present(r, Fields[i])
  BY <1>2, FieldKinds DEF Bytes
<1>3. CASE Present(r, Fields[i]) /\ Fields[i].size # 0
  <2>1. bytes = value
    BY <1>3 DEF Bytes
  <2> QED BY <1>1, <1>3, <2>1, InfoFacts
<1>4. CASE Present(r, Fields[i]) /\ Fields[i].size = 0
  <2>1. bytes = Append(value, NUL)
    BY <1>4 DEF Bytes
  <2>2. value \in Seq(1..255)
    BY <1>4, InfoFacts DEF Text
  <2> HIDE DEF bytes, value
  <2>3. NUL \in Byte /\ \A k \in 1..Len(value) : value[k] # NUL
    <3>1. ASSUME NEW k \in 1..Len(value) PROVE value[k] # NUL
      <4>1. value[k] \in 1..255
        BY <2>2, ElementOfSeq
      <4>2. \A x \in 1..255 : x # NUL
        BY DEF NUL
      <4> QED BY <4>1, <4>2
    <3>2. NUL \in Byte
      BY DEF NUL, Byte
    <3> QED BY <3>1, <3>2
  <2>4. /\ Append(value, NUL) \in Seq(Byte)
        /\ Len(Append(value, NUL)) = Len(value) + 1
        /\ \A k \in 1..Len(value) : Append(value, NUL)[k] = value[k]
        /\ Append(value, NUL)[Len(value) + 1] = NUL
    BY <1>1, <2>3, AppendProperties
  <2> QED BY <1>4, <2>1, <2>3, <2>4 DEF bytes, value
<1> QED BY <1>2, <1>3, <1>4

\* The bytes of a reply are bytes.
LEMMA PackedType ==
    ASSUME NEW r, IsInfo(r)
    PROVE  \A i \in 0..18 : Packed(r, i) \in Seq(Byte) /\ Len(Packed(r, i)) \in Nat
<1> DEFINE T == {i \in 0..18 : Packed(r, i) \in Seq(Byte)}
<1>1. 0 \in T
  <2>1. Packed(r, 0) = <<>>
    BY PackedStep
  <2>2. Packed(r, 0) \in Seq(Byte)
    BY <2>1, EmptySeq
  <2> QED BY <2>2
<1>2. ASSUME NEW k \in 0..(18 - 1), k \in T PROVE k + 1 \in T
  <2>1. k + 1 \in 1..18 /\ (k + 1) - 1 = k
    OBVIOUS
  <2>2. Packed(r, k + 1) = Packed(r, k) \o Bytes(r, Fields[k + 1])
    BY <2>1, PackedStep
  <2>3. Bytes(r, Fields[k + 1]) \in Seq(Byte)
    BY <2>1, BytesFacts
  <2>4. Packed(r, k) \in Seq(Byte)
    BY <1>2
  <2>5. Packed(r, k) \o Bytes(r, Fields[k + 1]) \in Seq(Byte)
    BY <2>3, <2>4, ConcatProperties
  <2>6. Packed(r, k + 1) \in Seq(Byte)
    BY <2>2, <2>5
  <2> QED BY <2>1, <2>6
<1>3. 0..18 \subseteq T
  <2> HIDE DEF T
  <2> QED BY <1>1, <1>2, HoldsUpTo
<1>4. ASSUME NEW i \in 0..18
      PROVE  Packed(r, i) \in Seq(Byte) /\ Len(Packed(r, i)) \in Nat
  <2>1. Packed(r, i) \in Seq(Byte)
    BY <1>3
  <2> QED BY <2>1, LenProperties
<1> QED BY <1>4

\* The bytes of the first fields are the first bytes of more fields.
IsStart(p, q) ==
    /\ Len(p) <= Len(q)
    /\ \A k \in 1..Len(p) : q[k] = p[k]

\* Packing more fields leaves what is there.
LEMMA PackedIsStart ==
    ASSUME NEW r, IsInfo(r), NEW i \in 0..18
    PROVE  \A j \in i..18 : IsStart(Packed(r, i), Packed(r, j))
<1> DEFINE n == 18 - i
           T == {d \in 0..n : IsStart(Packed(r, i), Packed(r, i + d))}
<1>1. n \in Nat
  OBVIOUS
<1>2. 0 \in T
  BY PackedType DEF IsStart
<1>3. ASSUME NEW d \in 0..(n - 1), d \in T PROVE d + 1 \in T
  <2> DEFINE p == Packed(r, i)
             q == Packed(r, i + d)
             bytes == Bytes(r, Fields[i + d + 1])
  <2>1. i + d + 1 \in 1..18 /\ (i + d + 1) - 1 = i + d /\ i + d \in 0..18
    OBVIOUS
  <2>2. Packed(r, i + d + 1) = q \o bytes
    BY <2>1, PackedStep
  <2>3. bytes \in Seq(Byte)
    BY <2>1, BytesFacts
  <2>4. p \in Seq(Byte) /\ q \in Seq(Byte)
    BY <2>1, PackedType
  <2>5. IsStart(p, q)
    BY <1>3
  <2> HIDE DEF p, q, bytes
  <2>6. IsStart(p, q \o bytes)
    <3>1. /\ Len(q \o bytes) = Len(q) + Len(bytes)
          /\ \A k \in 1..Len(q) : (q \o bytes)[k] = q[k]
      BY <2>3, <2>4
    <3>2. Len(p) \in Nat /\ Len(q) \in Nat /\ Len(bytes) \in Nat
      BY <2>3, <2>4
    <3>3. Len(p) <= Len(q) /\ \A k \in 1..Len(p) : q[k] = p[k]
      BY <2>5 DEF IsStart
    <3>4. \A k \in 1..Len(p) : k \in 1..Len(q)
      BY <3>2, <3>3
    <3> QED BY <3>1, <3>2, <3>3, <3>4 DEF IsStart
  <2>7. IsStart(p, Packed(r, i + (d + 1)))
    <3>1. i + (d + 1) = i + d + 1
      OBVIOUS
    <3> QED BY <2>2, <2>6, <3>1
  <2> QED BY <2>7 DEF p
<1>4. 0..n \subseteq T
  <2> HIDE DEF T, n
  <2> QED BY <1>1, <1>2, <1>3, HoldsUpTo
<1>5. ASSUME NEW j \in i..18 PROVE IsStart(Packed(r, i), Packed(r, j))
  <2>1. j - i \in 0..n /\ i + (j - i) = j
    OBVIOUS
  <2>2. j - i \in T
    BY <1>4, <2>1
  <2> QED BY <2>1, <2>2
<1> QED BY <1>5

\* Where the bytes of a field are among those of all.
LEMMA FieldLies ==
    ASSUME NEW r, IsInfo(r), NEW i \in 1..18
    PROVE  LET before == Len(Packed(r, i - 1))
               bytes == Bytes(r, Fields[i])
           IN /\ before \in Nat /\ Len(Packed(r, i)) = before + Len(bytes)
              /\ Len(Packed(r, i)) <= Len(Packed(r, 18))
              /\ \A k \in 1..Len(bytes) : Packed(r, 18)[before + k] = bytes[k]
<1> DEFINE p == Packed(r, i - 1)
           bytes == Bytes(r, Fields[i])
           all == Packed(r, 18)
<1>1. i - 1 \in 0..18 /\ i \in 0..18 /\ 18 \in i..18
  OBVIOUS
<1>2. p \in Seq(Byte) /\ bytes \in Seq(Byte) /\ all \in Seq(Byte)
  <2>1. p \in Seq(Byte)
    BY <1>1, PackedType
  <2>2. bytes \in Seq(Byte)
    BY BytesFacts
  <2>3. all \in Seq(Byte)
    BY PackedType
  <2> QED BY <2>1, <2>2, <2>3
<1>3. Packed(r, i) = p \o bytes
  BY PackedStep
<1>4. IsStart(p \o bytes, all)
  BY <1>1, <1>3, PackedIsStart
<1> HIDE DEF p, bytes, all
<1>5. /\ Len(p) \in Nat /\ Len(bytes) \in Nat /\ Len(all) \in Nat
      /\ Len(p \o bytes) = Len(p) + Len(bytes)
      /\ \A k \in 1..Len(bytes) : (p \o bytes)[Len(p) + k] = bytes[k]
  BY <1>2
<1>6. ASSUME NEW k \in 1..Len(bytes) PROVE all[Len(p) + k] = bytes[k]
  <2>1. Len(p) + k \in 1..Len(p \o bytes)
    BY <1>5
  <2> QED BY <1>4, <1>5, <2>1 DEF IsStart
<1> QED BY <1>3, <1>4, <1>5, <1>6 DEF p, bytes, all, IsStart

-----------------------------------------------------------------------------
(* Reading a field.                                                        *)

Kind(i) == IF Fields[i].size = 0 THEN Text ELSE [1..Fields[i].size -> Byte]

\* A reading: the buffer and what has been read.
Reading(s) ==
    /\ s \in [buf: Bufs, info: [Names -> Seq(Byte)]]
    /\ IsInfo(s.info)

\* The value of a field, and a reading with another one.
Value(info, i) == info[Fields[i].name]
Given(info, i, v) == [info EXCEPT ![Fields[i].name] = v]
Updated(s, b, i, v) == [buf |-> b, info |-> Given(s.info, i, v)]

\* The next bytes.
Part(b, n) == SubSeq(b.buffer, b.curbyte + 1, b.curbyte + n)

\* The zeros of a number that could not be read.
Zeros(n) == [k \in 1..n |-> 0]

\* A value is of its field's kind.
LEMMA ValueFacts ==
    ASSUME NEW r, IsInfo(r), NEW i \in 1..18
    PROVE  /\ Value(r, i) \in Seq(Byte)
           /\ Value(r, i) \in Kind(i)
           /\ Len(Value(r, i)) \in Nat
           /\ Fields[i].size \in Nat
<1>1. Fields[i].size \in Nat
  BY FieldKinds
<1>2. Value(r, i) \in Seq(Byte) /\ Value(r, i) \in Kind(i)
  BY InfoFacts DEF Value, Kind
<1> QED BY <1>1, <1>2, LenProperties

\* A field can be given another value of its kind.
LEMMA GivenFacts ==
    ASSUME NEW info, IsInfo(info), NEW i \in 1..18, NEW v \in Kind(i)
    PROVE  /\ IsInfo(Given(info, i, v))
           /\ Value(Given(info, i, v), i) = v
           /\ \A j \in 1..18 : j # i => Value(Given(info, i, v), j) = Value(info, j)
<1> DEFINE new == Given(info, i, v)
<1>1. info \in [Names -> Seq(Byte)]
  BY InfoFacts
<1>2. Fields[i].name \in Names /\ Fields[i].size \in Nat
  BY NameFacts, FieldKinds
<1>3. v \in Seq(Byte)
  <2>1. CASE Fields[i].size = 0
    <3>1. v \in Seq(1..255)
      BY <2>1 DEF Kind, Text
    <3>2. 1..255 \subseteq Byte
      BY DEF Byte
    <3> QED BY <3>1, <3>2, SeqMonotonic
  <2>2. CASE Fields[i].size # 0
    BY <1>2, <2>2 DEF Kind
  <2> QED BY <2>1, <2>2
<1>4. new \in [Names -> Seq(Byte)] /\ Value(new, i) = v
  BY <1>1, <1>2, <1>3 DEF Given, Value
<1>5. ASSUME NEW j \in 1..18, j # i PROVE Value(new, j) = Value(info, j)
  <2>1. Fields[j].name \in Names /\ Fields[j].name # Fields[i].name
    BY <1>5, NameFacts, NamesDiffer
  <2> QED BY <1>1, <2>1 DEF Given, Value
<1>6. ASSUME NEW j \in DOMAIN Fields PROVE Value(new, j) \in Kind(j)
  <2>1. j \in 1..18
    BY FieldCount
  <2> HIDE DEF new
  <2> QED BY <1>4, <1>5, <2>1, ValueFacts
<1>7. IsInfo(new)
  <2> HIDE DEF new
  <2> QED BY <1>4, <1>6, Zenon DEF IsInfo, Kind, Value
<1> QED BY <1>4, <1>5, <1>7

\* An old value stays when nothing could be read.
LEMMA GivenTheSame ==
    ASSUME NEW info, IsInfo(info), NEW i \in 1..18
    PROVE  Given(info, i, Value(info, i)) = info
BY InfoFacts DEF Given, Value

\* The two parts of a reading.
LEMMA ReadingFacts ==
    ASSUME NEW s, Reading(s)
    PROVE  s.buf \in Bufs /\ IsInfo(s.info) /\ s = [buf |-> s.buf, info |-> s.info]
BY DEF Reading

\* The parts of a leybuf.
LEMMA BufFacts ==
    ASSUME NEW b \in Bufs
    PROVE  /\ b.buffer \in Seq(Byte) /\ Len(b.buffer) \in Nat
           /\ b.size \in Nat /\ b.curbyte \in Nat /\ b.overflowed \in BOOLEAN
BY LenProperties DEF Bufs

\* What an overflow and a move leave of a leybuf.
LEMMA BufExcept ==
    ASSUME NEW b \in Bufs, NEW n \in Nat
    PROVE  /\ Overflown(b) \in Bufs /\ Overflown(b).buffer = b.buffer
           /\ Overflown(b).size = b.size /\ Overflown(b).curbyte = b.curbyte
           /\ Overflown(b).overflowed = TRUE
           /\ Moved(b, n) \in Bufs /\ Moved(b, n).buffer = b.buffer
           /\ Moved(b, n).size = b.size /\ Moved(b, n).curbyte = b.curbyte + n
           /\ Moved(b, n).overflowed = b.overflowed
<1>1. Overflown(b) \in Bufs
  BY DEF Bufs, Overflown
<1>2. /\ Overflown(b).buffer = b.buffer
      /\ Overflown(b).size = b.size /\ Overflown(b).curbyte = b.curbyte
      /\ Overflown(b).overflowed = TRUE
  BY DEF Bufs, Overflown
<1>3. b.curbyte + n \in Nat
  BY DEF Bufs
<1>4. Moved(b, n) \in Bufs
  BY <1>3 DEF Bufs, Moved
<1>5. /\ Moved(b, n).buffer = b.buffer
      /\ Moved(b, n).size = b.size /\ Moved(b, n).curbyte = b.curbyte + n
      /\ Moved(b, n).overflowed = b.overflowed
  BY DEF Bufs, Moved
<1> QED BY <1>1, <1>2, <1>4, <1>5

\* Reading a text field.
LEMMA ReadTextIs ==
    ASSUME NEW s, Reading(s), NEW i \in 1..18, Fields[i].size = 0,
           Present(s.info, Fields[i])
    PROVE  /\ ~Fits(s.buf, Len(Value(s.info, i))) =>
                 ReadField(s, Fields[i]) = Updated(s, Overflown(s.buf), i, Value(s.info, i))
           /\ Fits(s.buf, Len(Value(s.info, i))) /\ Strlen(s.buf) \in Nat =>
                 ReadField(s, Fields[i]) =
                    Updated(s, Moved(s.buf, Strlen(s.buf) + 1), i,
                            Part(s.buf, Strlen(s.buf)))
<1> DEFINE old == Value(s.info, i)
           r == ReadString(s.buf, old)
<1>1. ReadField(s, Fields[i]) = Updated(s, r.buf, i, r.value)
  BY DEF ReadField, Updated, Given, Value
<1>2. s.buf \in Bufs /\ old \in Seq(Byte) /\ s.buf.curbyte \in Nat
  BY ReadingFacts, ValueFacts, BufFacts
<1> HIDE DEF old
<1>3. CASE Fits(s.buf, Len(old)) /\ Strlen(s.buf) \in Nat
  <2>1. r = [buf |-> [s.buf EXCEPT !.curbyte = s.buf.curbyte + Strlen(s.buf) + 1],
             value |-> SubSeq(s.buf.buffer, s.buf.curbyte + 1,
                              s.buf.curbyte + Strlen(s.buf))]
    BY <1>2, <1>3, ReadStringIs
  <2>2. s.buf.curbyte + Strlen(s.buf) + 1 = s.buf.curbyte + (Strlen(s.buf) + 1)
    BY <1>2, <1>3
  <2>3. r = [buf |-> Moved(s.buf, Strlen(s.buf) + 1), value |-> Part(s.buf, Strlen(s.buf))]
    BY <2>1, <2>2 DEF Moved, Part
  <2>4. r.buf = Moved(s.buf, Strlen(s.buf) + 1) /\ r.value = Part(s.buf, Strlen(s.buf))
    BY <2>3
  <2> HIDE DEF r
  <2> QED BY <1>1, <1>3, <2>4 DEF old
<1>4. CASE ~Fits(s.buf, Len(old))
  <2>1. r = [buf |-> Overflown(s.buf), value |-> old]
    BY <1>2, <1>4, ReadStringIs
  <2>2. r.buf = Overflown(s.buf) /\ r.value = old
    BY <2>1
  <2> HIDE DEF r
  <2> QED BY <1>1, <1>4, <2>2 DEF old
<1> QED BY <1>3, <1>4 DEF old

\* Reading a number field.
LEMMA ReadNumberIs ==
    ASSUME NEW s, Reading(s), NEW i \in 1..18, Fields[i].size # 0,
           Present(s.info, Fields[i])
    PROVE  /\ ~Fits(s.buf, Fields[i].size) =>
                 ReadField(s, Fields[i]) =
                    Updated(s, Overflown(s.buf), i, Zeros(Fields[i].size))
           /\ Fits(s.buf, Fields[i].size) =>
                 ReadField(s, Fields[i]) =
                    Updated(s, Moved(s.buf, Fields[i].size), i, Part(s.buf, Fields[i].size))
<1> DEFINE n == Fields[i].size
           r == Read(s.buf, n)
<1>1. ReadField(s, Fields[i]) = Updated(s, r.buf, i, r.value)
  BY DEF ReadField, Updated, Given
<1>2. s.buf \in Bufs /\ n \in Nat
  BY ReadingFacts, ValueFacts
<1> HIDE DEF n
<1>3. CASE Fits(s.buf, n)
  <2>1. r = [buf |-> Moved(s.buf, n), value |-> Part(s.buf, n)]
    BY <1>2, <1>3, ReadIs DEF Part
  <2>2. r.buf = Moved(s.buf, n) /\ r.value = Part(s.buf, n)
    BY <2>1
  <2> HIDE DEF r
  <2> QED BY <1>1, <1>3, <2>2 DEF n
<1>4. CASE ~Fits(s.buf, n)
  <2>1. r = [buf |-> Overflown(s.buf), value |-> Zeros(n)]
    BY <1>2, <1>4, ReadIs DEF Zeros
  <2>2. r.buf = Overflown(s.buf) /\ r.value = Zeros(n)
    BY <2>1
  <2> HIDE DEF r
  <2> QED BY <1>1, <1>4, <2>2 DEF n
<1> QED BY <1>3, <1>4 DEF n

\* A field that is not there is not read.
LEMMA ReadAbsent ==
    ASSUME NEW s, NEW i \in 1..18, ~Present(s.info, Fields[i])
    PROVE  ReadField(s, Fields[i]) = s
BY DEF ReadField

\* The buffer and the fields of a reading with another value.
LEMMA UpdatedFacts ==
    ASSUME NEW s, Reading(s), NEW b \in Bufs, NEW i \in 1..18, NEW v \in Kind(i)
    PROVE  /\ Reading(Updated(s, b, i, v)) /\ Updated(s, b, i, v).buf = b
           /\ Value(Updated(s, b, i, v).info, i) = v
           /\ \A j \in 1..18 :
                 j # i => Value(Updated(s, b, i, v).info, j) = Value(s.info, j)
<1> DEFINE new == Given(s.info, i, v)
<1>1. /\ IsInfo(new) /\ Value(new, i) = v
      /\ \A j \in 1..18 : j # i => Value(new, j) = Value(s.info, j)
  BY ReadingFacts, GivenFacts
<1>2. new \in [Names -> Seq(Byte)]
  BY <1>1, InfoFacts
<1>3. Updated(s, b, i, v) = [buf |-> b, info |-> new]
  BY DEF Updated
<1> HIDE DEF new
<1>4. Updated(s, b, i, v).buf = b /\ Updated(s, b, i, v).info = new
  BY <1>3
<1>5. Reading(Updated(s, b, i, v))
  BY <1>1, <1>2, <1>3 DEF Reading
<1> QED BY <1>1, <1>4, <1>5

\* One of the other fields.
LEMMA UpdatedOthers ==
    ASSUME NEW s, Reading(s), NEW b \in Bufs, NEW i \in 1..18, NEW v \in Kind(i),
           NEW j \in 1..18, j # i
    PROVE  Value(Updated(s, b, i, v).info, j) = Value(s.info, j)
BY UpdatedFacts

-----------------------------------------------------------------------------
(* Parts of sequences.                                                     *)

\* A part of a sequence.
LEMMA PartOf ==
    ASSUME NEW S, NEW s \in Seq(S), NEW at \in Nat, NEW n \in Nat, at + n <= Len(s)
    PROVE  /\ SubSeq(s, at + 1, at + n) \in Seq(S)
           /\ Len(SubSeq(s, at + 1, at + n)) = n
           /\ \A j \in 1..n : SubSeq(s, at + 1, at + n)[j] = s[at + j]
OBVIOUS

\* The same at the front.
LEMMA FrontOf ==
    ASSUME NEW s \in Seq(Byte), NEW n \in Nat, n <= Len(s)
    PROVE  /\ SubSeq(s, 1, n) \in Seq(Byte)
           /\ Len(SubSeq(s, 1, n)) = n
           /\ \A k \in 1..n : SubSeq(s, 1, n)[k] = s[k]
OBVIOUS

\* The next bytes, one by one.
LEMMA PartFacts ==
    ASSUME NEW b \in Bufs, NEW n \in Nat, b.curbyte + n <= Len(b.buffer)
    PROVE  /\ Part(b, n) \in Seq(Byte) /\ Len(Part(b, n)) = n
           /\ \A j \in 1..n : Part(b, n)[j] = b.buffer[b.curbyte + j]
<1> DEFINE m == b.buffer
           c == b.curbyte
<1>1. m \in Seq(Byte) /\ c \in Nat /\ c + n <= Len(m)
  BY BufFacts
<1> HIDE DEF m, c
<1>2. /\ SubSeq(m, c + 1, c + n) \in Seq(Byte)
      /\ Len(SubSeq(m, c + 1, c + n)) = n
      /\ \A j \in 1..n : SubSeq(m, c + 1, c + n)[j] = m[c + j]
  BY <1>1, PartOf
<1>3. Part(b, n) = SubSeq(m, c + 1, c + n)
  BY DEF Part, m, c
<1> QED BY <1>2, <1>3 DEF m, c

\* What any reading keeps: the types, as long as the memory behind the datagram
\* holds a NUL, and the other fields.
Ended(b) ==
    /\ b.size < Len(b.buffer) /\ Len(b.buffer) <= MAXDATAGRAM
    /\ b.buffer[Len(b.buffer)] = NUL

\* The text up to the next NUL.
LEMMA TextThere ==
    ASSUME NEW b \in Bufs, Ended(b), b.curbyte < b.size
    PROVE  Strlen(b) \in Nat /\ Part(b, Strlen(b)) \in Text
<1> DEFINE m == b.buffer
           c == b.curbyte
           k == Strlen(b)
<1>1. m \in Seq(Byte) /\ Len(m) \in Nat /\ c \in Nat /\ MAXDATAGRAM \in Nat
  BY BufFacts, RepliesAssumption
<1>2. c < Len(m) /\ Len(m) <= MAXDATAGRAM
  BY <1>1, BufFacts DEF Ended
<1>3. /\ k \in 0..(Len(m) - c - 1)
      /\ \A j \in 0..(k - 1) : m[c + j + 1] # NUL
  BY <1>2, StrlenFacts DEF Ended
<1> HIDE DEF m, c, k
<1>4. ASSUME NEW j \in 1..k PROVE m[c + j] \in 1..255
  <2>1. c + j \in 1..Len(m) /\ j - 1 \in 0..(k - 1) /\ c + (j - 1) + 1 = c + j
    BY <1>1, <1>2, <1>3
  <2>2. m[c + j] # NUL
    BY <1>3, <2>1
  <2>3. m[c + j] \in Byte
    BY <1>1, <2>1, ElementOfSeq
  <2>4. \A x \in Byte : x # NUL => x \in 1..255
    BY DEF Byte, NUL
  <2> QED BY <2>2, <2>3, <2>4
<1>5. k \in Nat /\ c + k <= Len(m) /\ k <= MAXDATAGRAM
  BY <1>1, <1>2, <1>3
<1>6. /\ Part(b, k) \in Seq(Byte) /\ Len(Part(b, k)) = k
      /\ \A j \in 1..k : Part(b, k)[j] = m[c + j]
  BY <1>5, PartFacts DEF m, c
<1>7. \A j \in 1..k : Part(b, k)[j] \in 1..255
  BY <1>4, <1>6
<1>8. Part(b, k) \in Seq(1..255)
  <2> DEFINE p == Part(b, k)
  <2>1. p \in Seq(Byte) /\ Len(p) = k /\ \A j \in 1..k : p[j] \in 1..255
    BY <1>6, <1>7
  <2> HIDE DEF p
  <2>2. p \in [1..k -> 1..255]
    BY <2>1, LenProperties
  <2>3. p \in Seq(1..255)
    BY <1>5, <2>2
  <2> QED BY <2>3 DEF p
<1>9. Part(b, k) \in Text
  BY <1>5, <1>6, <1>8 DEF Text
<1> QED BY <1>5, <1>9 DEF k

\* The bytes of a number.
LEMMA NumberThere ==
    ASSUME NEW b \in Bufs, Ended(b), NEW n \in Nat, Fits(b, n)
    PROVE  Part(b, n) \in [1..n -> Byte]
<1>1. b.curbyte + n <= Len(b.buffer)
  BY BufFacts DEF Ended, Fits
<1>2. Part(b, n) \in Seq(Byte) /\ Len(Part(b, n)) = n
  BY <1>1, PartFacts
<1> QED BY <1>2, LenProperties

\* Reading a field changes no other and keeps the types.
LEMMA ReadFieldTypes ==
    ASSUME NEW s, Reading(s), Ended(s.buf), NEW i \in 1..18
    PROVE  LET t == ReadField(s, Fields[i])
           IN /\ Reading(t) /\ Ended(t.buf)
              /\ \A j \in 1..18 : j # i => Value(t.info, j) = Value(s.info, j)
<1>1. s.buf \in Bufs /\ Fields[i].size \in Nat /\ IsInfo(s.info)
      /\ Value(s.info, i) \in Kind(i)
  BY ReadingFacts, ValueFacts
<1>2. ASSUME NEW b \in Bufs, Ended(b), NEW v \in Kind(i),
             ReadField(s, Fields[i]) = Updated(s, b, i, v)
      PROVE  LET t == ReadField(s, Fields[i])
             IN /\ Reading(t) /\ Ended(t.buf)
                /\ \A j \in 1..18 : j # i => Value(t.info, j) = Value(s.info, j)
  BY <1>2, UpdatedFacts
<1>3. /\ Overflown(s.buf) \in Bufs /\ Ended(Overflown(s.buf))
      /\ \A n \in Nat : Moved(s.buf, n) \in Bufs /\ Ended(Moved(s.buf, n))
  BY <1>1, BufExcept DEF Ended
<1>4. CASE ~Present(s.info, Fields[i])
  BY <1>4, ReadAbsent
<1>5. CASE Present(s.info, Fields[i]) /\ Fields[i].size = 0
  <2>1. CASE ~Fits(s.buf, Len(Value(s.info, i)))
    <3>1. ReadField(s, Fields[i]) = Updated(s, Overflown(s.buf), i, Value(s.info, i))
      BY <1>5, <2>1, ReadTextIs
    <3> QED BY <1>1, <1>2, <1>3, <3>1
  <2>2. CASE Fits(s.buf, Len(Value(s.info, i)))
    <3>1. s.buf.curbyte < s.buf.size
      BY <2>2 DEF Fits
    <3>2. /\ Strlen(s.buf) \in Nat /\ Strlen(s.buf) + 1 \in Nat
          /\ Part(s.buf, Strlen(s.buf)) \in Kind(i)
      BY <1>1, <1>5, <3>1, TextThere DEF Kind
    <3>3. ReadField(s, Fields[i]) =
             Updated(s, Moved(s.buf, Strlen(s.buf) + 1), i, Part(s.buf, Strlen(s.buf)))
      BY <1>5, <2>2, <3>2, ReadTextIs
    <3> QED BY <1>2, <1>3, <3>2, <3>3
  <2> QED BY <2>1, <2>2
<1>6. CASE Present(s.info, Fields[i]) /\ Fields[i].size # 0
  <2>1. CASE ~Fits(s.buf, Fields[i].size)
    <3>1. ReadField(s, Fields[i]) = Updated(s, Overflown(s.buf), i, Zeros(Fields[i].size))
      BY <1>6, <2>1, ReadNumberIs
    <3>2. Zeros(Fields[i].size) \in Kind(i)
      BY <1>6 DEF Kind, Byte, Zeros
    <3> QED BY <1>2, <1>3, <3>1, <3>2
  <2>2. CASE Fits(s.buf, Fields[i].size)
    <3>1. ReadField(s, Fields[i]) =
             Updated(s, Moved(s.buf, Fields[i].size), i, Part(s.buf, Fields[i].size))
      BY <1>6, <2>2, ReadNumberIs
    <3>2. Part(s.buf, Fields[i].size) \in Kind(i)
      BY <1>1, <1>6, <2>2, NumberThere DEF Kind
    <3> QED BY <1>1, <1>2, <1>3, <3>1, <3>2
  <2> QED BY <2>1, <2>2
<1> QED BY <1>4, <1>5, <1>6

\* The same for several fields.
LEMMA ReadFieldsTypes ==
    ASSUME NEW s, Reading(s), Ended(s.buf), NEW first \in 1..18
    PROVE  \A i \in (first - 1)..18 :
              LET t == ReadFields(s, first, i)
              IN /\ Reading(t) /\ Ended(t.buf)
                 /\ \A j \in 1..(first - 1) : Value(t.info, j) = Value(s.info, j)
<1> DEFINE R(i) == ReadFields(s, first, i)
           P(i) == /\ Reading(R(i)) /\ Ended(R(i).buf)
                   /\ \A j \in 1..(first - 1) : Value(R(i).info, j) = Value(s.info, j)
           n == 18 - (first - 1)
           T == {k \in 0..n : P(first - 1 + k)}
<1>1. R(first - 1) = s /\ \A i \in first..18 : R(i) = ReadField(R(i - 1), Fields[i])
  BY ReadFieldsStep
<1>2. n \in Nat /\ first - 1 + 0 = first - 1
  OBVIOUS
<1> HIDE DEF R
<1>3. 0 \in T
  BY <1>1, <1>2
<1>4. ASSUME NEW k \in 0..(n - 1), k \in T PROVE k + 1 \in T
  <2> DEFINE i == first - 1 + (k + 1)
  <2>1. i \in first..18 /\ i \in 1..18 /\ i - 1 = first - 1 + k /\ k + 1 \in 0..n
    OBVIOUS
  <2>2. P(i - 1)
    BY <1>4, <2>1
  <2>3. \A j \in 1..(first - 1) : j \in 1..18 /\ j # i
    OBVIOUS
  <2> HIDE DEF i
  <2>4. P(i)
    <3>1. R(i) = ReadField(R(i - 1), Fields[i])
      BY <1>1, <2>1
    <3>2. /\ Reading(R(i)) /\ Ended(R(i).buf)
          /\ \A j \in 1..18 : j # i => Value(R(i).info, j) = Value(R(i - 1).info, j)
      BY <2>1, <2>2, <3>1, ReadFieldTypes
    <3> QED BY <2>2, <2>3, <3>2
  <2> QED BY <2>1, <2>4 DEF i
<1>5. 0..n \subseteq T
  <2> HIDE DEF T, n
  <2> QED BY <1>2, <1>3, <1>4, HoldsUpTo
<1>6. ASSUME NEW i \in (first - 1)..18 PROVE P(i)
  <2>1. i - (first - 1) \in 0..n /\ first - 1 + (i - (first - 1)) = i
    OBVIOUS
  <2>2. i - (first - 1) \in T
    BY <1>5, <2>1
  <2> QED BY <2>1, <2>2
<1> QED BY <1>6 DEF R

-----------------------------------------------------------------------------
(* Reading the fields of a reply.                                          *)

\* The fields of the reply r are in the buffer b, from behind p on.
Lies(b, r, p) ==
    /\ b \in Bufs /\ p \in Nat
    /\ b.size = p + Len(Packed(r, 18)) /\ b.size <= Len(b.buffer)
    /\ \A k \in 1..Len(Packed(r, 18)) : b.buffer[p + k] = Packed(r, 18)[k]

\* Reading has come behind field i.
Behind(b, r, p, i) == ~b.overflowed /\ b.curbyte = p + Len(Packed(r, i))

\* The room, with the number of fields filled in.
LEMMA RoomIs ==
    ASSUME NEW r, NEW i
    PROVE  Room(r, i) = Len(Packed(r, 18)) - Len(Packed(r, i - 1))
BY FieldCount DEF Room

\* What the field that comes next looks like in the buffer.
NextIs(m, size, c, n, v, r, p, i) ==
    /\ n \in Nat /\ c + n <= Len(m)
    /\ \A k \in 1..n : m[c + k] = v[k]
    /\ c < size
    /\ size = c + Room(r, i) /\ Room(r, i) \in Nat
    /\ Fields[i].size # 0 =>
          n = Fields[i].size /\ c + n <= size /\ c + n = p + Len(Packed(r, i))
    /\ Fields[i].size = 0 =>
          /\ c + n + 1 = p + Len(Packed(r, i)) /\ c + n + 1 <= Len(m)
          /\ m[c + n + 1] = NUL
          /\ \A k \in 1..n : v[k] # NUL

\* The bytes at the position are those of the field that comes next.
LEMMA NextField ==
    ASSUME NEW b, NEW r, IsInfo(r), NEW p, Lies(b, r, p), NEW i \in 1..18,
           Present(r, Fields[i]), Behind(b, r, p, i - 1)
    PROVE  NextIs(b.buffer, b.size, b.curbyte, Len(Value(r, i)), Value(r, i), r, p, i)
<1> DEFINE n == Len(Value(r, i))
           bytes == Bytes(r, Fields[i])
           before == Len(Packed(r, i - 1))
           all == Packed(r, 18)
           c == b.curbyte
           m == b.buffer
<1>1. /\ before \in Nat /\ Len(Packed(r, i)) = before + Len(bytes)
      /\ Len(Packed(r, i)) <= Len(all)
      /\ \A k \in 1..Len(bytes) : all[before + k] = bytes[k]
  BY FieldLies
<1>2. bytes \in Seq(Byte) /\ Len(bytes) \in Nat /\ Len(all) \in Nat
  <2>1. bytes \in Seq(Byte)
    BY BytesFacts
  <2>2. Len(all) \in Nat
    BY PackedType
  <2> QED BY <2>1, <2>2, LenProperties
<1>3. n \in Nat /\ Fields[i].size \in Nat
  BY ValueFacts
<1>4. /\ c = p + before /\ p \in Nat /\ b.size = p + Len(all) /\ b.size <= Len(m)
      /\ Len(m) \in Nat
      /\ \A k \in 1..Len(all) : m[p + k] = all[k]
  BY BufFacts DEF Lies, Behind
<1>5. Room(r, i) = Len(all) - before
  BY RoomIs
<1>6. \A k \in 1..Len(bytes) : m[c + k] = bytes[k]
  <2> HIDE DEF bytes, before, all, c, m
  <2>1. ASSUME NEW k \in 1..Len(bytes) PROVE m[c + k] = bytes[k]
    <3>1. before + k \in 1..Len(all) /\ p + (before + k) = c + k
      BY <1>1, <1>2, <1>4
    <3> QED BY <1>1, <1>4, <3>1
  <2> QED BY <2>1
<1>7. Fields[i].size # 0 => bytes = Value(r, i) /\ Len(bytes) = Fields[i].size
  BY BytesFacts DEF Value
<1>8. Fields[i].size = 0 =>
         /\ Len(bytes) = n + 1 /\ bytes[n + 1] = NUL
         /\ \A k \in 1..n : bytes[k] = Value(r, i)[k] /\ bytes[k] # NUL
  BY BytesFacts DEF Value
<1> DEFINE size == b.size
           room == Room(r, i)
           up == Len(Packed(r, i))
           v == Value(r, i)
           kind == Fields[i].size
<1> HIDE DEF n, bytes, before, all, c, m, size, room, up, v, kind
<1>9. /\ c \in Nat /\ size = c + room /\ room \in Nat /\ c + Len(bytes) = up + p
      /\ c + Len(bytes) <= size /\ size <= Len(m) /\ size \in Nat /\ up \in Nat
      /\ p \in Nat /\ Len(m) \in Nat
  BY <1>1, <1>2, <1>4, <1>5 DEF size, room, up
<1>10. CASE kind # 0
  <2>1. n = Len(bytes) /\ n = kind
    BY <1>7, <1>10 DEF n, kind
  <2>2. /\ c + n <= Len(m) /\ c < size /\ c + n <= size /\ c + n = p + up
    BY <1>2, <1>3, <1>9, <1>10, <2>1
  <2>3. \A k \in 1..n : m[c + k] = v[k]
    BY <1>6, <1>7, <1>10, <2>1 DEF v, kind
  <2> QED BY <1>3, <1>9, <1>10, <2>1, <2>2, <2>3
      DEF n, m, c, size, room, up, v, kind, NextIs
<1>11. CASE kind = 0
  <2>1. Len(bytes) = n + 1
    BY <1>8, <1>11 DEF kind
  <2> DEFINE w == Len(bytes)
  <2>2. /\ c + n <= Len(m) /\ c < size /\ c + n + 1 <= Len(m) /\ c + n + 1 = p + up
    <3>1. w = n + 1 /\ w \in Nat /\ c + w = up + p /\ c + w <= size /\ size <= Len(m)
      BY <1>2, <1>9, <2>1
    <3>2. /\ n \in Nat /\ c \in Nat /\ size \in Nat
          /\ Len(m) \in Nat /\ up \in Nat /\ p \in Nat
      BY <1>3, <1>9
    <3> HIDE DEF w
    <3> QED BY <3>1, <3>2
  <2>3. n + 1 \in 1..Len(bytes) /\ \A k \in 1..n : k \in 1..Len(bytes)
    BY <1>3, <2>1
  <2>4. m[c + (n + 1)] = NUL /\ c + (n + 1) = c + n + 1
    BY <1>3, <1>6, <1>8, <1>9, <1>11, <2>3 DEF kind
  <2>5. \A k \in 1..n : m[c + k] = v[k] /\ v[k] # NUL
    BY <1>6, <1>8, <1>11, <2>3 DEF kind, v
  <2>6. m[c + n + 1] = NUL
    BY <2>4
  <2> QED BY <1>3, <1>9, <1>11, <2>2, <2>5, <2>6
      DEF n, m, c, size, room, up, v, kind, NextIs
<1> QED BY <1>10, <1>11

\* The next bytes are the value.
LEMMA NextValue ==
    ASSUME NEW b \in Bufs, NEW v \in Seq(Byte), b.curbyte + Len(v) <= Len(b.buffer),
           \A k \in 1..Len(v) : b.buffer[b.curbyte + k] = v[k]
    PROVE  Part(b, Len(v)) = v
<1>1. Len(v) \in Nat
  BY LenProperties
<1>2. /\ Part(b, Len(v)) \in Seq(Byte) /\ Len(Part(b, Len(v))) = Len(v)
      /\ \A j \in 1..Len(v) : Part(b, Len(v))[j] = b.buffer[b.curbyte + j]
  BY <1>1, PartFacts
<1> DEFINE q == Part(b, Len(v))
<1>3. q \in Seq(Byte) /\ Len(q) = Len(v) /\ \A j \in 1..Len(q) : q[j] = v[j]
  BY <1>2
<1> HIDE DEF q
<1>4. q = v
  BY <1>3, SeqEqual
<1> QED BY <1>4 DEF q

\* A field that is there and has room is read as the reply has it.
LEMMA ReadPresent ==
    ASSUME NEW s, Reading(s), NEW r, IsInfo(r), NEW p, Lies(s.buf, r, p),
           NEW i \in 1..18, Present(r, Fields[i]), Present(s.info, Fields[i]),
           Behind(s.buf, r, p, i - 1),
           Fields[i].size = 0 => Len(Value(s.info, i)) <= Room(r, i)
    PROVE  LET t == ReadField(s, Fields[i])
           IN /\ Reading(t) /\ Lies(t.buf, r, p) /\ Behind(t.buf, r, p, i)
              /\ Value(t.info, i) = Value(r, i)
              /\ \A j \in 1..18 : j # i => Value(t.info, j) = Value(s.info, j)
<1> DEFINE b == s.buf
           v == Value(r, i)
           n == Len(v)
           c == b.curbyte
           m == b.buffer
           size == b.size
           old == Len(Value(s.info, i))
           up == p + Len(Packed(r, i))
<1>1. b \in Bufs /\ IsInfo(s.info)
  BY ReadingFacts
<1>2. c \in Nat /\ size \in Nat /\ Len(m) \in Nat
  BY <1>1, BufFacts
<1>3. old \in Nat /\ Fields[i].size \in Nat
  BY <1>1, ValueFacts
<1>4. v \in Seq(Byte) /\ v \in Kind(i)
  BY ValueFacts
<1>5. NextIs(m, size, c, n, v, r, p, i)
  BY NextField
<1> HIDE DEF v, n, c, m, size, old, up
<1>6. /\ n \in Nat /\ c + n <= Len(m)
      /\ \A k \in 1..n : m[c + k] = v[k]
  BY <1>5 DEF NextIs
<1>7. Part(b, n) = v
  BY <1>1, <1>4, <1>6, NextValue DEF c, m, n
<1>8. ~b.overflowed
  BY DEF Behind
<1>9. ASSUME NEW k \in Nat, c + k = up,
             ReadField(s, Fields[i]) = Updated(s, Moved(b, k), i, v)
      PROVE  LET t == ReadField(s, Fields[i])
             IN /\ Reading(t) /\ Lies(t.buf, r, p) /\ Behind(t.buf, r, p, i)
                /\ Value(t.info, i) = Value(r, i)
                /\ \A j \in 1..18 : j # i => Value(t.info, j) = Value(s.info, j)
  <2>1. /\ Moved(b, k) \in Bufs /\ Moved(b, k).buffer = b.buffer
        /\ Moved(b, k).size = b.size /\ Moved(b, k).curbyte = c + k
        /\ Moved(b, k).overflowed = b.overflowed
    BY <1>1, BufExcept DEF c
  <2>2. Lies(Moved(b, k), r, p)
    BY <2>1 DEF Lies
  <2>3. Behind(Moved(b, k), r, p, i)
    BY <1>8, <1>9, <2>1 DEF Behind, up
  <2> DEFINE b2 == Moved(b, k)
  <2> HIDE DEF b2
  <2> DEFINE t == Updated(s, b2, i, v)
  <2>4. /\ Reading(t) /\ t.buf = b2 /\ Value(t.info, i) = v
        /\ \A j \in 1..18 : j # i => Value(t.info, j) = Value(s.info, j)
    <3>1. b2 \in Bufs /\ v \in Kind(i)
      BY <1>4, <2>1 DEF b2
    <3> QED BY <3>1, UpdatedFacts
  <2> HIDE DEF t
  <2>5. ReadField(s, Fields[i]) = t
    BY <1>9 DEF t, b2
  <2> QED BY <2>2, <2>3, <2>4, <2>5 DEF v, b2
<1>10. CASE Fields[i].size # 0
  <2>1. n = Fields[i].size /\ c + n <= size /\ c + n = up /\ c < size
    BY <1>5, <1>10 DEF NextIs, up
  <2>2. Fits(b, n)
    BY <1>8, <2>1 DEF Fits, c, size
  <2>3. ReadField(s, Fields[i]) = Updated(s, Moved(b, n), i, Part(b, n))
    BY <1>10, <2>1, <2>2, ReadNumberIs
  <2> QED BY <1>6, <1>7, <1>9, <2>1, <2>3
<1>11. CASE Fields[i].size = 0
  <2>1. /\ c + n + 1 = up /\ c + n + 1 <= Len(m) /\ m[c + n + 1] = NUL
        /\ \A k \in 1..n : v[k] # NUL
        /\ c < size /\ size = c + Room(r, i) /\ Room(r, i) \in Nat
    BY <1>5, <1>11 DEF NextIs, up
  <2>2. old <= Room(r, i)
    BY <1>11 DEF old
  <2>3. c + old <= size
    BY <1>2, <1>3, <2>1, <2>2
  <2>4. Fits(b, old)
    BY <1>8, <2>1, <2>3 DEF Fits, c, size
  <2>5. n \in 0..(Len(m) - c - 1)
    BY <1>2, <1>6, <2>1
  <2>6. ASSUME NEW j \in 0..(n - 1) PROVE m[c + j + 1] # NUL
    <3>1. j + 1 \in 1..n /\ c + (j + 1) = c + j + 1
      BY <1>2, <1>6
    <3>2. m[c + (j + 1)] = v[j + 1] /\ v[j + 1] # NUL
      BY <1>6, <2>1, <3>1
    <3> QED BY <3>1, <3>2
  <2>7. Strlen(b) = n
    BY <1>1, <2>1, <2>5, <2>6, StrlenIs DEF m, c
  <2>8. ReadField(s, Fields[i]) = Updated(s, Moved(b, n + 1), i, Part(b, n))
    BY <1>6, <1>11, <2>4, <2>7, ReadTextIs DEF old
  <2>9. n + 1 \in Nat /\ c + (n + 1) = up
    BY <1>2, <1>6, <2>1
  <2> QED BY <1>7, <1>9, <2>8, <2>9
<1> QED BY <1>10, <1>11

\* An old text that is longer than all that is left ends the reading.
LEMMA ReadTooLong ==
    ASSUME NEW s, Reading(s), NEW r, IsInfo(r), NEW p, Lies(s.buf, r, p),
           NEW i \in 1..18, Fields[i].size = 0, Present(r, Fields[i]),
           Present(s.info, Fields[i]), Behind(s.buf, r, p, i - 1),
           ~(Len(Value(s.info, i)) <= Room(r, i))
    PROVE  LET t == ReadField(s, Fields[i])
           IN /\ Reading(t) /\ t.buf.overflowed
              /\ \A j \in 1..18 : Value(t.info, j) = Value(s.info, j)
<1> DEFINE b == s.buf
           v == Value(s.info, i)
<1>1. b \in Bufs /\ IsInfo(s.info)
  BY ReadingFacts
<1> DEFINE c == b.curbyte
           size == b.size
           old == Len(v)
<1>2. c \in Nat /\ size \in Nat
  BY <1>1, BufFacts
<1>3. old \in Nat /\ v \in Kind(i)
  BY <1>1, ValueFacts
<1>4. NextIs(b.buffer, size, c, Len(Value(r, i)), Value(r, i), r, p, i)
  BY NextField
<1> HIDE DEF v, b, c, size, old
<1>5. size = c + Room(r, i) /\ Room(r, i) \in Nat
  BY <1>4 DEF NextIs
<1>6. ~(old <= Room(r, i))
  BY DEF old, v
<1>7. ~(c + old <= size)
  BY <1>2, <1>3, <1>5, <1>6
<1>8. ~Fits(b, old)
  BY <1>7 DEF Fits, c, size
<1>9. ReadField(s, Fields[i]) = Updated(s, Overflown(b), i, v)
  BY <1>8, ReadTextIs DEF old, v, b
<1>10. Overflown(b) \in Bufs /\ Overflown(b).overflowed = TRUE
  BY <1>1, BufExcept DEF Bufs
<1> DEFINE b2 == Overflown(b)
<1> HIDE DEF b2
<1> DEFINE t == Updated(s, b2, i, v)
<1>11. /\ Reading(t) /\ t.buf = b2 /\ Value(t.info, i) = v
       /\ \A j \in 1..18 : j # i => Value(t.info, j) = Value(s.info, j)
  <2>1. b2 \in Bufs /\ v \in Kind(i)
    BY <1>3, <1>10 DEF b2
  <2>2. Reading(t) /\ t.buf = b2 /\ Value(t.info, i) = v
    BY <2>1, UpdatedFacts
  <2>3. ASSUME NEW j \in 1..18, j # i PROVE Value(t.info, j) = Value(s.info, j)
    <3>1. b2 \in Bufs /\ v \in Kind(i) /\ Reading(s)
      BY <2>1
    <3> HIDE DEF t
    <3>2. t = Updated(s, b2, i, v)
      BY DEF t
    <3> QED BY <2>3, <3>1, <3>2, UpdatedOthers
  <2> QED BY <2>2, <2>3
<1> HIDE DEF t
<1>12. ReadField(s, Fields[i]) = t
  BY <1>9 DEF t, b2
<1> QED BY <1>10, <1>11, <1>12 DEF v, b2

\* Once it has ended no text changes.
LEMMA ReadEnded ==
    ASSUME NEW s, Reading(s), s.buf.overflowed, NEW i \in 1..18
    PROVE  LET t == ReadField(s, Fields[i])
           IN /\ Reading(t) /\ t.buf.overflowed
              /\ \A j \in 1..18 :
                    j # i \/ Fields[j].size = 0 => Value(t.info, j) = Value(s.info, j)
<1>1. s.buf \in Bufs /\ IsInfo(s.info) /\ Value(s.info, i) \in Kind(i)
  BY ReadingFacts, ValueFacts
<1>2. Overflown(s.buf) \in Bufs /\ Overflown(s.buf).overflowed = TRUE
  BY <1>1, BufExcept
<1>3. \A n : ~Fits(s.buf, n)
  BY DEF Fits
<1>4. CASE ~Present(s.info, Fields[i])
  BY <1>4, ReadAbsent
<1>5. CASE Present(s.info, Fields[i]) /\ Fields[i].size = 0
  <2>1. ReadField(s, Fields[i]) = Updated(s, Overflown(s.buf), i, Value(s.info, i))
    BY <1>3, <1>5, ReadTextIs
  <2> QED BY <1>1, <1>2, <2>1, UpdatedFacts
<1>6. CASE Present(s.info, Fields[i]) /\ Fields[i].size # 0
  <2>1. ReadField(s, Fields[i]) = Updated(s, Overflown(s.buf), i, Zeros(Fields[i].size))
    BY <1>3, <1>6, ReadNumberIs
  <2>2. Zeros(Fields[i].size) \in Kind(i)
    BY <1>6 DEF Kind, Byte, Zeros
  <2> QED BY <1>2, <1>6, <2>1, <2>2, UpdatedFacts
<1> QED BY <1>4, <1>5, <1>6

-----------------------------------------------------------------------------
(* Reading a reply, from what was there before.                            *)

\* All fields up to i are those of the reply.
Good(s, old, r, p, i) ==
    /\ Reading(s) /\ Lies(s.buf, r, p) /\ Behind(s.buf, r, p, i)
    /\ \A j \in 1..i : Present(r, Fields[j]) => Value(s.info, j) = Value(r, j)
    /\ \A j \in (i + 1)..18 : Value(s.info, j) = Value(old, j)

\* The old text k was too long: texts from it on are old.
StuckAt(s, old, r, k) ==
    /\ Fields[k].size = 0 /\ Present(r, Fields[k])
    /\ ~(Len(Value(old, k)) <= Room(r, k))
    /\ \A j \in 1..(k - 1) :
          Fields[j].size = 0 /\ Present(r, Fields[j]) => Value(s.info, j) = Value(r, j)
    /\ \A j \in k..18 : Fields[j].size = 0 => Value(s.info, j) = Value(old, j)

Bad(s, old, r, from, i) ==
    /\ Reading(s) /\ s.buf.overflowed
    /\ \E k \in from..i : StuckAt(s, old, r, k)

\* The fields up to edf are always there.
LEMMA PresentAlways ==
    ASSUME NEW info, NEW i \in 1..12
    PROVE  Present(info, Fields[i])
<1>1. i \in 1..18 /\ i <= 12
  OBVIOUS
<1>2. Fields[i].bit = 0
  BY <1>1, FieldKinds
<1> QED BY <1>2 DEF Present

\* Which fields are there is known once edf has been read.
LEMMA PresentAlike ==
    ASSUME NEW info, NEW r, Value(info, 12) = Value(r, 12)
    PROVE  \A i : Present(info, Fields[i]) <=> Present(r, Fields[i])
<1>1. info.edf = r.edf
  BY FieldNames DEF Value
<1> QED BY <1>1 DEF Present

\* A field is read as the reply has it, or an old text ends the reading.
LEMMA GoodStep ==
    ASSUME NEW s, NEW old, NEW r, IsInfo(r), NEW p, NEW i \in 1..18,
           NEW from \in 1..i, Good(s, old, r, p, i - 1)
    PROVE  LET t == ReadField(s, Fields[i])
           IN Good(t, old, r, p, i) \/ Bad(t, old, r, from, i)
<1> DEFINE t == ReadField(s, Fields[i])
<1>0. i - 1 \in 0..17 /\ (i - 1) + 1 = i
  OBVIOUS
<1>1. /\ Reading(s) /\ Lies(s.buf, r, p) /\ Behind(s.buf, r, p, i - 1)
      /\ \A j \in 1..(i - 1) : Present(r, Fields[j]) => Value(s.info, j) = Value(r, j)
      /\ \A j \in i..18 : Value(s.info, j) = Value(old, j)
  BY <1>0 DEF Good
<1>2. Present(s.info, Fields[i]) <=> Present(r, Fields[i])
  <2>1. CASE i \in 1..12
    BY <2>1, PresentAlways
  <2>2. CASE i \notin 1..12
    <3>1. 12 \in 1..(i - 1) /\ 12 \in 1..12
      BY <2>2
    <3>2. Value(s.info, 12) = Value(r, 12)
      BY <1>1, <3>1, PresentAlways
    <3> QED BY <3>2, PresentAlike
  <2> QED BY <2>1, <2>2
<1>3. CASE ~Present(r, Fields[i])
  <2>1. t = s
    BY <1>2, <1>3, ReadAbsent
  <2>2. Packed(r, i) = Packed(r, i - 1)
    <3>1. Packed(r, i) = Packed(r, i - 1) \o <<>>
      BY <1>3, PackedStep DEF Bytes
    <3>2. Packed(r, i - 1) \in Seq(Byte)
      <4>1. i - 1 \in 0..18
        BY <1>0
      <4> QED BY <4>1, PackedType
    <3> QED BY <3>1, <3>2, ConcatEmptySeq
  <2>3. Behind(s.buf, r, p, i)
    BY <1>1, <2>2 DEF Behind
  <2>4. /\ \A j \in 1..i : Present(r, Fields[j]) => Value(s.info, j) = Value(r, j)
        /\ \A j \in (i + 1)..18 : Value(s.info, j) = Value(old, j)
    <3>1. /\ \A j \in 1..i : j = i \/ j \in 1..(i - 1)
          /\ \A j \in (i + 1)..18 : j \in i..18
      OBVIOUS
    <3> QED BY <1>1, <1>3, <3>1
  <2>5. Good(s, old, r, p, i)
    BY <1>1, <2>3, <2>4 DEF Good
  <2> QED BY <2>1, <2>5
<1>4. CASE /\ Present(r, Fields[i])
           /\ Fields[i].size = 0 => Len(Value(s.info, i)) <= Room(r, i)
  <2>1. /\ Reading(t) /\ Lies(t.buf, r, p) /\ Behind(t.buf, r, p, i)
        /\ Value(t.info, i) = Value(r, i)
        /\ \A j \in 1..18 : j # i => Value(t.info, j) = Value(s.info, j)
    BY <1>1, <1>2, <1>4, ReadPresent
  <2> HIDE DEF t
  <2>2. ASSUME NEW j \in 1..i, Present(r, Fields[j])
        PROVE  Value(t.info, j) = Value(r, j)
    <3>1. CASE j = i
      BY <2>1, <3>1
    <3>2. CASE j # i
      <4>1. j \in 1..(i - 1) /\ j \in 1..18
        BY <3>2
      <4>2. Value(s.info, j) = Value(r, j)
        BY <1>1, <2>2, <4>1
      <4> QED BY <2>1, <3>2, <4>1, <4>2
    <3> QED BY <3>1, <3>2
  <2>3. ASSUME NEW j \in (i + 1)..18 PROVE Value(t.info, j) = Value(old, j)
    <3>1. j \in i..18 /\ j \in 1..18 /\ j # i
      OBVIOUS
    <3>2. Value(s.info, j) = Value(old, j)
      BY <1>1, <3>1
    <3> QED BY <2>1, <3>1, <3>2
  <2>4. Good(t, old, r, p, i)
    BY <2>1, <2>2, <2>3 DEF Good
  <2> QED BY <2>4 DEF t
<1>5. CASE /\ Present(r, Fields[i])
           /\ Fields[i].size = 0
           /\ ~(Len(Value(s.info, i)) <= Room(r, i))
  <2>1. /\ Reading(t) /\ t.buf.overflowed
        /\ \A j \in 1..18 : Value(t.info, j) = Value(s.info, j)
    BY <1>1, <1>2, <1>5, ReadTooLong
  <2> HIDE DEF t
  <2>2. Value(s.info, i) = Value(old, i)
    <3>1. i \in i..18
      OBVIOUS
    <3> QED BY <1>1, <3>1
  <2>3. ASSUME NEW j \in 1..(i - 1), Present(r, Fields[j])
        PROVE  Value(t.info, j) = Value(r, j)
    <3>1. j \in 1..18
      OBVIOUS
    <3>2. Value(s.info, j) = Value(r, j)
      BY <1>1, <2>3
    <3> QED BY <2>1, <3>1, <3>2
  <2>4. ASSUME NEW j \in i..18 PROVE Value(t.info, j) = Value(old, j)
    <3>1. j \in 1..18
      OBVIOUS
    <3>2. Value(s.info, j) = Value(old, j)
      BY <1>1
    <3> QED BY <2>1, <3>1, <3>2
  <2>5. StuckAt(t, old, r, i)
    BY <1>5, <2>2, <2>3, <2>4 DEF StuckAt
  <2>6. i \in from..i
    OBVIOUS
  <2>7. Bad(t, old, r, from, i)
    BY <2>1, <2>5, <2>6 DEF Bad
  <2> QED BY <2>7 DEF t
<1> QED BY <1>3, <1>4, <1>5

\* After that the texts stay as they are.
LEMMA BadStep ==
    ASSUME NEW s, NEW old, NEW r, NEW i \in 1..18, NEW from \in 1..18,
           Bad(s, old, r, from, i - 1)
    PROVE  Bad(ReadField(s, Fields[i]), old, r, from, i)
<1> DEFINE t == ReadField(s, Fields[i])
<1>1. Reading(s) /\ s.buf.overflowed
  BY DEF Bad
<1>2. PICK k \in from..(i - 1) : StuckAt(s, old, r, k)
  BY DEF Bad
<1>3. /\ Reading(t) /\ t.buf.overflowed
      /\ \A j \in 1..18 :
            j # i \/ Fields[j].size = 0 => Value(t.info, j) = Value(s.info, j)
  BY <1>1, ReadEnded
<1> HIDE DEF t
<1>4. k \in from..i /\ \A j \in 1..(k - 1) : j \in 1..18
  OBVIOUS
<1>5. \A j \in k..18 : j \in 1..18
  OBVIOUS
<1>6. StuckAt(t, old, r, k)
  <2>1. ASSUME NEW j \in 1..(k - 1), Fields[j].size = 0, Present(r, Fields[j])
        PROVE  Value(t.info, j) = Value(r, j)
    <3>1. Value(s.info, j) = Value(r, j)
      BY <1>2, <2>1 DEF StuckAt
    <3> QED BY <1>3, <1>4, <2>1, <3>1
  <2>2. ASSUME NEW j \in k..18, Fields[j].size = 0
        PROVE  Value(t.info, j) = Value(old, j)
    <3>1. Value(s.info, j) = Value(old, j)
      BY <1>2, <2>2 DEF StuckAt
    <3> QED BY <1>3, <1>5, <2>2, <3>1
  <2> QED BY <1>2, <2>1, <2>2 DEF StuckAt
<1>7. Bad(t, old, r, from, i)
  BY <1>3, <1>4, <1>6 DEF Bad
<1> QED BY <1>7 DEF t

\* Reading the fields of a reply, or the rest of them.
LEMMA ReadReply ==
    ASSUME NEW s, NEW old, NEW r, IsInfo(r), NEW p, NEW first \in 1..18,
           NEW from \in 1..first,
           Good(s, old, r, p, first - 1) \/ Bad(s, old, r, from, first - 1)
    PROVE  \A i \in (first - 1)..18 :
              \/ Good(ReadFields(s, first, i), old, r, p, i)
              \/ Bad(ReadFields(s, first, i), old, r, from, i)
<1> DEFINE R(i) == ReadFields(s, first, i)
           P(i) == Good(R(i), old, r, p, i) \/ Bad(R(i), old, r, from, i)
           n == 18 - (first - 1)
           T == {k \in 0..n : P(first - 1 + k)}
<1>1. R(first - 1) = s /\ \A i \in first..18 : R(i) = ReadField(R(i - 1), Fields[i])
  BY ReadFieldsStep
<1>2. n \in Nat /\ first - 1 + 0 = first - 1
  OBVIOUS
<1> HIDE DEF R
<1>3. 0 \in T
  BY <1>1, <1>2
<1>4. ASSUME NEW k \in 0..(n - 1), k \in T PROVE k + 1 \in T
  <2> DEFINE i == first - 1 + (k + 1)
  <2>1. /\ i \in first..18 /\ i \in 1..18 /\ i - 1 = first - 1 + k /\ k + 1 \in 0..n
        /\ from \in 1..i /\ from \in 1..18
    OBVIOUS
  <2>2. P(i - 1)
    BY <1>4, <2>1
  <2> HIDE DEF i
  <2>3. R(i) = ReadField(R(i - 1), Fields[i])
    BY <1>1, <2>1
  <2>4. P(i)
    BY <2>1, <2>2, <2>3, GoodStep, BadStep
  <2> QED BY <2>1, <2>4 DEF i
<1>5. 0..n \subseteq T
  <2> HIDE DEF T, n
  <2> QED BY <1>2, <1>3, <1>4, HoldsUpTo
<1>6. ASSUME NEW i \in (first - 1)..18 PROVE P(i)
  <2>1. i - (first - 1) \in 0..n /\ first - 1 + (i - (first - 1)) = i
    OBVIOUS
  <2>2. i - (first - 1) \in T
    BY <1>5, <2>1
  <2> QED BY <2>1, <2>2
<1> QED BY <1>6 DEF R

-----------------------------------------------------------------------------
(* Writing.                                                                *)

\* One sequence behind another.
LEMMA BehindAnother ==
    ASSUME NEW s \in Seq(Byte), NEW t \in Seq(Byte)
    PROVE  /\ s \o t \in Seq(Byte) /\ Len(s \o t) = Len(s) + Len(t)
           /\ \A k \in 1..Len(s) : (s \o t)[k] = s[k]
           /\ \A k \in 1..Len(t) : (s \o t)[Len(s) + k] = t[k]
OBVIOUS

\* memcpy: the bytes copied, and around them what was there.
LEMMA CopiedFacts ==
    ASSUME NEW m \in Seq(Byte), NEW at \in Nat, at <= Len(m), NEW bytes \in Seq(Byte)
    PROVE  /\ Copied(m, at, bytes) \in Seq(Byte)
           /\ Len(Copied(m, at, bytes)) = Len(m)
           /\ \A k \in 1..Len(m) :
                 Copied(m, at, bytes)[k] =
                    IF k <= at \/ k > at + Len(bytes) THEN m[k] ELSE bytes[k - at]
<1> DEFINE n == Len(m)
           w == Len(bytes)
           front == SubSeq(m, 1, at)
           rest == SubSeq(m, at + w + 1, n)
           all == front \o bytes \o rest
<1>1. n \in Nat /\ w \in Nat
  BY LenProperties
<1>2. /\ front \in Seq(Byte) /\ Len(front) = at
      /\ \A k \in 1..at : front[k] = m[k]
  BY FrontOf
<1>3. CASE at + w <= n
  <2> DEFINE d == n - (at + w)
  <2>1. d \in Nat /\ at + w \in Nat /\ (at + w) + d = n
    BY <1>1, <1>3
  <2> HIDE DEF d
  <2>2. /\ rest \in Seq(Byte) /\ Len(rest) = d
        /\ \A k \in 1..d : rest[k] = m[at + w + k]
    <3>1. /\ SubSeq(m, (at + w) + 1, (at + w) + d) \in Seq(Byte)
          /\ Len(SubSeq(m, (at + w) + 1, (at + w) + d)) = d
          /\ \A k \in 1..d : SubSeq(m, (at + w) + 1, (at + w) + d)[k] = m[(at + w) + k]
      <4>1. (at + w) + d <= Len(m)
        BY <1>1, <2>1
      <4> QED BY <2>1, <4>1, PartOf
    <3> QED BY <2>1, <3>1
  <2> HIDE DEF front, rest, n, w
  <2>3. /\ all \in Seq(Byte) /\ Len(all) = at + w + d
        /\ \A k \in 1..at : all[k] = front[k]
        /\ \A k \in 1..w : all[at + k] = bytes[k]
        /\ \A k \in 1..d : all[at + w + k] = rest[k]
    <3> DEFINE fb == front \o bytes
    <3>1. /\ fb \in Seq(Byte) /\ Len(fb) = at + w
          /\ \A k \in 1..at : fb[k] = front[k]
          /\ \A k \in 1..w : fb[at + k] = bytes[k]
      BY <1>2, BehindAnother DEF w
    <3> HIDE DEF fb
    <3>2. /\ fb \o rest \in Seq(Byte) /\ Len(fb \o rest) = at + w + d
          /\ \A k \in 1..(at + w) : (fb \o rest)[k] = fb[k]
          /\ \A k \in 1..d : (fb \o rest)[at + w + k] = rest[k]
      <4>1. /\ fb \o rest \in Seq(Byte) /\ Len(fb \o rest) = Len(fb) + Len(rest)
            /\ \A k \in 1..Len(fb) : (fb \o rest)[k] = fb[k]
            /\ \A k \in 1..Len(rest) : (fb \o rest)[Len(fb) + k] = rest[k]
        BY <2>2, <3>1, BehindAnother
      <4>2. Len(fb) = at + w /\ Len(rest) = d
        BY <2>2, <3>1
      <4> QED BY <4>1, <4>2, Zenon
    <3>3. all = fb \o rest
      BY DEF fb
    <3> HIDE DEF all
    <3>4. \A k \in 1..at : k \in 1..(at + w)
      BY <1>1
    <3>5. \A k \in 1..w : at + k \in 1..(at + w)
      BY <1>1
    <3>6. \A k \in 1..at : all[k] = front[k]
      BY <3>1, <3>2, <3>3, <3>4
    <3>7. \A k \in 1..w : all[at + k] = bytes[k]
      BY <3>1, <3>2, <3>3, <3>5
    <3> QED BY <3>2, <3>3, <3>6, <3>7
  <2> HIDE DEF all
  <2>4. SubSeq(all, 1, n) = all
    BY <1>1, <2>1, <2>3
  <2>5. Copied(m, at, bytes) = all
    BY <2>4 DEF Copied, all, front, rest, n, w
  <2>6. ASSUME NEW k \in 1..n
        PROVE  all[k] = IF k <= at \/ k > at + w THEN m[k] ELSE bytes[k - at]
    <3>1. CASE k <= at
      BY <1>2, <2>3, <3>1
    <3>2. CASE ~(k <= at) /\ k <= at + w
      <4>1. k - at \in 1..w /\ at + (k - at) = k
        BY <1>1, <3>2
      <4>2. all[k] = bytes[k - at]
        BY <2>3, <4>1
      <4> QED BY <1>1, <3>2, <4>2
    <3>3. CASE k > at + w
      <4>1. k - (at + w) \in 1..d /\ at + w + (k - (at + w)) = k
        BY <1>1, <2>1, <3>3
      <4>2. all[k] = m[k]
        BY <2>2, <2>3, <4>1
      <4> QED BY <3>3, <4>2
    <3> QED BY <1>1, <3>1, <3>2, <3>3
  <2> QED BY <1>1, <2>1, <2>3, <2>5, <2>6 DEF n, w
<1>4. CASE ~(at + w <= n)
  <2>1. rest = <<>>
    BY <1>1, <1>4, SubSeqEmpty
  <2> HIDE DEF front, rest, n, w
  <2>2. /\ front \o bytes \in Seq(Byte) /\ Len(front \o bytes) = at + w
        /\ \A k \in 1..at : (front \o bytes)[k] = front[k]
        /\ \A k \in 1..w : (front \o bytes)[at + k] = bytes[k]
    BY <1>2, BehindAnother DEF w
  <2> DEFINE fb == front \o bytes
  <2>3. all = fb
    BY <2>1, <2>2, ConcatEmptySeq
  <2>4. Copied(m, at, bytes) = SubSeq(fb, 1, n)
    <3>1. Copied(m, at, bytes) = SubSeq(all, 1, n)
      BY DEF Copied, front, rest, n, w
    <3> QED BY <2>3, <3>1
  <2> HIDE DEF fb
  <2>5. /\ fb \in Seq(Byte) /\ Len(fb) = at + w
        /\ \A k \in 1..at : fb[k] = front[k]
        /\ \A k \in 1..w : fb[at + k] = bytes[k]
    BY <2>2 DEF fb
  <2>6. /\ SubSeq(fb, 1, n) \in Seq(Byte) /\ Len(SubSeq(fb, 1, n)) = n
        /\ \A k \in 1..n : SubSeq(fb, 1, n)[k] = fb[k]
    <3>1. n <= Len(fb)
      BY <1>1, <1>4, <2>5
    <3> QED BY <1>1, <2>5, <3>1, FrontOf
  <2>7. ASSUME NEW k \in 1..n
        PROVE  fb[k] = IF k <= at \/ k > at + w THEN m[k] ELSE bytes[k - at]
    <3>1. CASE k <= at
      BY <1>2, <2>5, <3>1
    <3>2. CASE ~(k <= at)
      <4>1. k - at \in 1..w /\ at + (k - at) = k /\ ~(k > at + w)
        BY <1>1, <1>4, <3>2
      <4>2. fb[k] = bytes[k - at]
        BY <2>5, <4>1
      <4> QED BY <3>2, <4>1, <4>2
    <3> QED BY <3>1, <3>2
  <2> QED BY <2>4, <2>6, <2>7 DEF n, w
<1> QED BY <1>3, <1>4

\* The bytes q are what has been written.
Holds(b, q) ==
    /\ b \in Bufs /\ ~b.overflowed
    /\ b.size = A2S_MAXDATASIZE /\ Len(b.buffer) = A2S_MAXDATASIZE
    /\ b.curbyte = Len(q)
    /\ \A k \in 1..Len(q) : b.buffer[k] = q[k]

\* What a write of more bytes makes of a buffer.
Extended(b, bytes) ==
    [b EXCEPT !.buffer = Copied(b.buffer, b.curbyte, bytes),
              !.curbyte = b.curbyte + Len(bytes)]

\* A write adds its bytes to those written.
LEMMA ExtendedHolds ==
    ASSUME NEW q \in Seq(Byte), NEW b, Holds(b, q), NEW bytes \in Seq(Byte),
           Len(q) + Len(bytes) < A2S_MAXDATASIZE
    PROVE  Holds(Extended(b, bytes), q \o bytes)
<1> DEFINE c == Len(q)
           w == Len(bytes)
           m == b.buffer
           size == A2S_MAXDATASIZE
           new == Copied(m, c, bytes)
           b2 == Extended(b, bytes)
<1>1. c \in Nat /\ w \in Nat /\ size \in Nat
  BY LenProperties, RepliesAssumption
<1>2. b \in Bufs /\ b.curbyte = c /\ m \in Seq(Byte) /\ Len(m) = size
  BY BufFacts DEF Holds
<1>3. \A k \in 1..c : m[k] = q[k]
  BY DEF Holds
<1> HIDE DEF c, w, m, size
<1>4. c <= Len(m) /\ c + w <= size
  BY <1>1, <1>2 DEF c, w, size
<1>5. /\ new \in Seq(Byte) /\ Len(new) = size
      /\ \A k \in 1..size :
            new[k] = IF k <= c \/ k > c + w THEN m[k] ELSE bytes[k - c]
  <2>1. c \in Nat /\ c <= Len(m) /\ m \in Seq(Byte)
    BY <1>1, <1>2, <1>4
  <2>2. /\ new \in Seq(Byte) /\ Len(new) = Len(m)
        /\ \A k \in 1..Len(m) :
              new[k] = IF k <= c \/ k > c + Len(bytes) THEN m[k] ELSE bytes[k - c]
    BY <2>1, CopiedFacts
  <2> QED BY <1>2, <2>2 DEF w
<1>6. b2 = [b EXCEPT !.buffer = new, !.curbyte = c + w]
  BY <1>2 DEF Extended, m, w
<1> HIDE DEF new, b2
<1>7. /\ b2 \in Bufs /\ b2.overflowed = b.overflowed /\ b2.size = b.size
      /\ b2.buffer = new /\ b2.curbyte = c + w
  <2>1. c + w \in Nat
    BY <1>1
  <2>2. b2 \in Bufs
    BY <1>2, <1>5, <1>6, <2>1 DEF Bufs
  <2>3. b2.overflowed = b.overflowed /\ b2.size = b.size
    BY <1>2, <1>6 DEF Bufs
  <2>4. b2.buffer = new /\ b2.curbyte = c + w
    BY <1>2, <1>6 DEF Bufs
  <2> QED BY <2>2, <2>3, <2>4
<1>8. /\ Len(q \o bytes) = c + w
      /\ \A k \in 1..c : (q \o bytes)[k] = q[k]
      /\ \A k \in 1..w : (q \o bytes)[c + k] = bytes[k]
  BY DEF c, w
<1>9. ASSUME NEW k \in 1..(c + w) PROVE new[k] = (q \o bytes)[k]
  <2>1. k \in 1..size
    BY <1>1, <1>4
  <2>2. CASE k <= c
    <3>1. k \in 1..c
      BY <1>1, <2>2
    <3>2. new[k] = m[k]
      BY <1>5, <2>1, <2>2
    <3> QED BY <1>3, <1>8, <3>1, <3>2
  <2>3. CASE ~(k <= c)
    <3>1. k - c \in 1..w /\ c + (k - c) = k /\ ~(k > c + w)
      BY <1>1, <2>3
    <3>2. new[k] = bytes[k - c]
      BY <1>5, <2>1, <2>3, <3>1
    <3>3. (q \o bytes)[c + (k - c)] = bytes[k - c]
      BY <1>8, <3>1
    <3> QED BY <3>1, <3>2, <3>3
  <2> QED BY <2>2, <2>3
<1>10. ~b.overflowed /\ b.size = size
  BY DEF Holds, size
<1>11. Holds(b2, q \o bytes)
  BY <1>5, <1>7, <1>8, <1>9, <1>10 DEF Holds, size
<1> QED BY <1>11 DEF b2

\* A number is written where it fits.
LEMMA WriteIs ==
    ASSUME NEW b \in Bufs, NEW bytes \in Seq(Byte), Fits(b, Len(bytes))
    PROVE  Write(b, bytes) = Extended(b, bytes)
<1>1. Len(bytes) \in Nat
  BY LenProperties
<1>2. Tested(b, Len(bytes)) = b /\ ~b.overflowed
  BY <1>1, TestedIs DEF Fits
<1> QED BY <1>2 DEF Write, Extended

\* A text is written with its NUL.
LEMMA WriteStringIs ==
    ASSUME NEW b \in Bufs, NEW text \in Seq(Byte), Fits(b, Len(text))
    PROVE  WriteString(b, text) = Extended(b, Append(text, NUL))
<1>1. Len(text) \in Nat /\ b.curbyte \in Nat
  BY LenProperties, BufFacts
<1>2. Tested(b, Len(text)) = b /\ ~b.overflowed
  BY <1>1, TestedIs DEF Fits
<1>3. Len(Append(text, NUL)) = Len(text) + 1
  BY AppendProperties
<1>4. b.curbyte + Len(text) + 1 = b.curbyte + Len(Append(text, NUL))
  BY <1>1, <1>3
<1> QED BY <1>2, <1>4 DEF WriteString, Extended

\* A field adds its bytes to those written.
LEMMA WriteFieldHolds ==
    ASSUME NEW q \in Seq(Byte), NEW b, Holds(b, q), NEW info, IsInfo(info), NEW i \in 1..18,
           Len(q) + Len(Bytes(info, Fields[i])) < A2S_MAXDATASIZE
    PROVE  Holds(WriteField(b, info, Fields[i]), q \o Bytes(info, Fields[i]))
<1> DEFINE bytes == Bytes(info, Fields[i])
           v == Value(info, i)
           c == b.curbyte
           size == b.size
<1>1. b \in Bufs /\ ~b.overflowed /\ size = A2S_MAXDATASIZE /\ c = Len(q)
  BY DEF Holds
<1>2. /\ c \in Nat /\ size \in Nat /\ v \in Seq(Byte) /\ Len(v) \in Nat
      /\ bytes \in Seq(Byte)
      /\ Len(bytes) \in Nat
  <2>1. c \in Nat /\ size \in Nat
    BY <1>1, BufFacts
  <2>2. v \in Seq(Byte) /\ Len(v) \in Nat
    BY ValueFacts
  <2>3. bytes \in Seq(Byte)
    BY BytesFacts
  <2> QED BY <2>1, <2>2, <2>3, LenProperties
<1>3. c + Len(bytes) < size
  BY <1>1
<1>4. ASSUME WriteField(b, info, Fields[i]) = Extended(b, bytes)
      PROVE  Holds(WriteField(b, info, Fields[i]), q \o bytes)
  BY <1>1, <1>2, <1>4, ExtendedHolds
<1>5. CASE ~Present(info, Fields[i])
  <2>1. WriteField(b, info, Fields[i]) = b /\ bytes = <<>>
    BY <1>5 DEF WriteField, Bytes
  <2>2. q \o bytes = q
    BY <2>1, ConcatEmptySeq
  <2> QED BY <2>1, <2>2
<1>6. CASE Present(info, Fields[i]) /\ Fields[i].size = 0
  <2>1. WriteField(b, info, Fields[i]) = WriteString(b, v)
    BY <1>6 DEF WriteField, Value
  <2>2. bytes = Append(v, NUL)
    BY <1>6 DEF Bytes, Value
  <2>3. Len(bytes) = Len(v) + 1
    BY <1>2, <2>2, AppendProperties
  <2> HIDE DEF bytes, v, c, size
  <2>4. c + Len(v) <= size /\ c < size
    BY <1>2, <1>3, <2>3
  <2>5. Fits(b, Len(v))
    BY <1>1, <2>4 DEF Fits, c, size
  <2>6. WriteString(b, v) = Extended(b, bytes)
    BY <1>1, <1>2, <2>2, <2>5, WriteStringIs
  <2> QED BY <1>4, <2>1, <2>6 DEF bytes
<1>7. CASE Present(info, Fields[i]) /\ Fields[i].size # 0
  <2>1. WriteField(b, info, Fields[i]) = Write(b, v)
    BY <1>7 DEF WriteField, Value
  <2>2. bytes = v
    BY <1>7 DEF Bytes, Value
  <2> HIDE DEF bytes, v, c, size
  <2>4. c + Len(v) <= size /\ c < size
    BY <1>2, <1>3, <2>2
  <2>5. Fits(b, Len(v))
    BY <1>1, <2>4 DEF Fits, c, size
  <2>6. Write(b, v) = Extended(b, bytes)
    BY <1>1, <1>2, <2>2, <2>5, WriteIs
  <2> QED BY <1>4, <2>1, <2>6 DEF bytes
<1> QED BY <1>5, <1>6, <1>7

-----------------------------------------------------------------------------
\* The most bytes that a field has.
Most(i) == IF Fields[i].size = 0 THEN MAXDATAGRAM + 1 ELSE Fields[i].size

\* No field has more bytes than its most.
LEMMA BytesBound ==
    ASSUME NEW info, IsInfo(info), NEW i \in 1..18
    PROVE  Len(Bytes(info, Fields[i])) <= Most(i)
<1>1. MAXDATAGRAM \in Nat /\ Fields[i].size \in Nat
  BY RepliesAssumption, ValueFacts
<1>2. CASE ~Present(info, Fields[i])
  <2>1. Len(Bytes(info, Fields[i])) = 0
    BY <1>2, BytesFacts
  <2> QED BY <1>1, <2>1 DEF Most
<1>3. CASE Present(info, Fields[i]) /\ Fields[i].size # 0
  <2>1. Len(Bytes(info, Fields[i])) = Fields[i].size
    BY <1>3, BytesFacts
  <2> QED BY <1>1, <1>3, <2>1 DEF Most
<1>4. CASE Present(info, Fields[i]) /\ Fields[i].size = 0
  <2>1. Len(Bytes(info, Fields[i])) = Len(Value(info, i)) + 1
    <3>1. Bytes(info, Fields[i]) = Append(Value(info, i), NUL)
      BY <1>4 DEF Bytes, Value
    <3>2. Value(info, i) \in Seq(Byte) /\ NUL \in Byte
      <4>1. NUL \in Byte
        BY DEF NUL, Byte
      <4> QED BY <4>1, ValueFacts
    <3>3. Len(Append(Value(info, i), NUL)) = Len(Value(info, i)) + 1
      BY <3>2, AppendProperties
    <3> QED BY <3>1, <3>3
  <2>2. Len(Value(info, i)) \in Nat /\ Len(Value(info, i)) <= MAXDATAGRAM
    BY <1>4, ValueFacts DEF Kind, Text
  <2> QED BY <1>1, <1>4, <2>1, <2>2 DEF Most
<1> QED BY <1>2, <1>3, <1>4

\* The most bytes of each field.
LEMMA MostIs ==
    /\ Most(1) = 1 /\ Most(2) = 1 /\ Most(3) = MAXDATAGRAM + 1
    /\ Most(4) = MAXDATAGRAM + 1
    /\ Most(5) = MAXDATAGRAM + 1 /\ Most(6) = MAXDATAGRAM + 1 /\ Most(7) = 2
    /\ Most(8) = 3 /\ Most(9) = 3 /\ Most(10) = 1 /\ Most(11) = MAXDATAGRAM + 1
    /\ Most(12) = 1 /\ Most(13) = 2 /\ Most(14) = 8 /\ Most(15) = 2
    /\ Most(16) = MAXDATAGRAM + 1 /\ Most(17) = MAXDATAGRAM + 1 /\ Most(18) = 8
BY DEF Most, Fields, Field

\* Seven texts and 32 bytes of numbers, behind the first four bytes.
LEMMA AnswerFits ==
    ASSUME NEW info, IsInfo(info), NEW i \in 0..18
    PROVE  Len(Packed(info, i)) \in Nat /\ 4 + Len(Packed(info, i)) < A2S_MAXDATASIZE
<1> DEFINE L(j) == Len(Packed(info, j))
<1>1. ASSUME NEW j \in 1..18
      PROVE  /\ L(j - 1) \in Nat /\ L(j) \in Nat
             /\ L(j) <= L(j - 1) + Most(j) /\ L(j) <= L(18)
  <2>1. j - 1 \in 0..18 /\ j \in 0..18
    OBVIOUS
  <2>2. L(j - 1) \in Nat /\ L(j) \in Nat
    BY <2>1, PackedType
  <2>3. L(j) = L(j - 1) + Len(Bytes(info, Fields[j])) /\ L(j) <= L(18)
    BY FieldLies
  <2>4. Len(Bytes(info, Fields[j])) <= Most(j)
    BY BytesBound
  <2>5. Bytes(info, Fields[j]) \in Seq(Byte)
    BY BytesFacts
  <2>6. Len(Bytes(info, Fields[j])) \in Nat
    BY <2>5, LenProperties
  <2>7. Most(j) \in Nat
    <3>1. MAXDATAGRAM \in Nat /\ Fields[j].size \in Nat
      BY RepliesAssumption, ValueFacts
    <3> QED BY <3>1 DEF Most
  <2> HIDE DEF L
  <2> QED BY <2>2, <2>3, <2>4, <2>6, <2>7
<1>2. L(0) = 0
  BY PackedStep
<1> HIDE DEF L
<1> DEFINE M == MAXDATAGRAM
<1>3. /\ L(1) <= L(0) + 1 /\ L(2) <= L(1) + 1 /\ L(3) <= L(2) + (M + 1)
      /\ L(4) <= L(3) + (M + 1) /\ L(5) <= L(4) + (M + 1) /\ L(6) <= L(5) + (M + 1)
      /\ L(1) \in Nat /\ L(2) \in Nat /\ L(3) \in Nat
      /\ L(4) \in Nat /\ L(5) \in Nat /\ L(6) \in Nat
  <2>1. /\ 1 \in 1..18 /\ 2 \in 1..18 /\ 3 \in 1..18 /\ 4 \in 1..18 /\ 5 \in 1..18
        /\ 6 \in 1..18
        /\ 1 - 1 = 0 /\ 2 - 1 = 1 /\ 3 - 1 = 2 /\ 4 - 1 = 3 /\ 5 - 1 = 4
        /\ 6 - 1 = 5
    OBVIOUS
  <2>2. /\ L(1) <= L(1 - 1) + Most(1) /\ L(2) <= L(2 - 1) + Most(2)
        /\ L(3) <= L(3 - 1) + Most(3)
        /\ L(4) <= L(4 - 1) + Most(4) /\ L(5) <= L(5 - 1) + Most(5)
        /\ L(6) <= L(6 - 1) + Most(6)
        /\ L(1) \in Nat /\ L(2) \in Nat /\ L(3) \in Nat
        /\ L(4) \in Nat /\ L(5) \in Nat /\ L(6) \in Nat
    BY <1>1, <2>1, Zenon
  <2> QED BY <2>1, <2>2, MostIs, Zenon
<1>4. /\ L(7) <= L(6) + 2 /\ L(8) <= L(7) + 3 /\ L(9) <= L(8) + 3
      /\ L(10) <= L(9) + 1 /\ L(11) <= L(10) + (M + 1) /\ L(12) <= L(11) + 1
      /\ L(7) \in Nat /\ L(8) \in Nat /\ L(9) \in Nat
      /\ L(10) \in Nat /\ L(11) \in Nat /\ L(12) \in Nat
  <2>1. /\ 7 \in 1..18 /\ 8 \in 1..18 /\ 9 \in 1..18 /\ 10 \in 1..18
        /\ 11 \in 1..18 /\ 12 \in 1..18
        /\ 7 - 1 = 6 /\ 8 - 1 = 7 /\ 9 - 1 = 8 /\ 10 - 1 = 9 /\ 11 - 1 = 10
        /\ 12 - 1 = 11
    OBVIOUS
  <2>2. /\ L(7) <= L(7 - 1) + Most(7) /\ L(8) <= L(8 - 1) + Most(8)
        /\ L(9) <= L(9 - 1) + Most(9)
        /\ L(10) <= L(10 - 1) + Most(10) /\ L(11) <= L(11 - 1) + Most(11)
        /\ L(12) <= L(12 - 1) + Most(12)
        /\ L(7) \in Nat /\ L(8) \in Nat /\ L(9) \in Nat
        /\ L(10) \in Nat /\ L(11) \in Nat /\ L(12) \in Nat
    BY <1>1, <2>1, Zenon
  <2> QED BY <2>1, <2>2, MostIs, Zenon
<1>5. /\ L(13) <= L(12) + 2 /\ L(14) <= L(13) + 8 /\ L(15) <= L(14) + 2
      /\ L(16) <= L(15) + (M + 1) /\ L(17) <= L(16) + (M + 1) /\ L(18) <= L(17) + 8
      /\ L(13) \in Nat /\ L(14) \in Nat /\ L(15) \in Nat
      /\ L(16) \in Nat /\ L(17) \in Nat /\ L(18) \in Nat
  <2>1. /\ 13 \in 1..18 /\ 14 \in 1..18 /\ 15 \in 1..18 /\ 16 \in 1..18
        /\ 17 \in 1..18 /\ 18 \in 1..18
        /\ 13 - 1 = 12 /\ 14 - 1 = 13 /\ 15 - 1 = 14 /\ 16 - 1 = 15 /\ 17 - 1 = 16
        /\ 18 - 1 = 17
    OBVIOUS
  <2>2. /\ L(13) <= L(13 - 1) + Most(13) /\ L(14) <= L(14 - 1) + Most(14)
        /\ L(15) <= L(15 - 1) + Most(15) /\ L(16) <= L(16 - 1) + Most(16)
        /\ L(17) <= L(17 - 1) + Most(17) /\ L(18) <= L(18 - 1) + Most(18)
        /\ L(13) \in Nat /\ L(14) \in Nat /\ L(15) \in Nat
        /\ L(16) \in Nat /\ L(17) \in Nat /\ L(18) \in Nat
    BY <1>1, <2>1, Zenon
  <2> QED BY <2>1, <2>2, MostIs, Zenon
<1>6. M \in Nat /\ A2S_MAXDATASIZE \in Nat /\ 7 * M + 43 < A2S_MAXDATASIZE
  BY RepliesAssumption
<1> HIDE DEF M
<1>7. 4 + L(18) < A2S_MAXDATASIZE
  BY <1>2, <1>3, <1>4, <1>5, <1>6
<1>8. CASE i = 0
  <2>1. 4 + 0 < A2S_MAXDATASIZE
    BY <1>6
  <2>2. Len(Packed(info, i)) = 0
    BY <1>2, <1>8 DEF L
  <2> QED BY <2>1, <2>2
<1>9. CASE i # 0
  <2>1. i \in 1..18
    BY <1>9
  <2>2. L(i) \in Nat /\ L(i) <= L(18)
    BY <1>1, <2>1
  <2>3. 4 + L(i) < A2S_MAXDATASIZE
    BY <1>5, <1>6, <1>7, <2>2
  <2> QED BY <2>2, <2>3 DEF L
<1> QED BY <1>8, <1>9

\* A function on 1..n is a sequence.
LEMMA BytesInARow ==
    ASSUME NEW n \in Nat, NEW f \in [1..n -> Byte]
    PROVE  f \in Seq(Byte) /\ Len(f) = n
<1>1. f \in Seq(Byte)
  OBVIOUS
<1>2. DOMAIN f = 1..n
  OBVIOUS
<1> QED BY <1>1, <1>2, LenProperties

\* Three sequences, one behind the other.
LEMMA ThreeInARow ==
    ASSUME NEW s \in Seq(Byte), NEW t \in Seq(Byte), NEW u \in Seq(Byte)
    PROVE  s \o (t \o u) = (s \o t) \o u
BY ConcatAssociative

\* The two headers.
LEMMA HeadersAre ==
    /\ OutOfBand \in Seq(Byte) /\ Len(OutOfBand) = 4
    /\ Header \in Seq(Byte) /\ Len(Header) = 15
<1>1. OutOfBand \in Seq(Byte) /\ Len(OutOfBand) = 4
  BY DEF OutOfBand, Byte
<1>2. Header \in [1..15 -> Byte] /\ 15 \in Nat
  BY DEF Header, Byte
<1> QED BY <1>1, <1>2, BytesInARow

\* The answer is the four bytes and the fields.
LEMMA WrittenIs ==
    ASSUME NEW info, IsInfo(info)
    PROVE  Written(info) = OutOfBand \o Packed(info, 18)
<1> DEFINE size == A2S_MAXDATASIZE
           memory == [i \in 1..size |-> 0]
           b0 == leybuf(memory, size)
           b1 == Write(b0, OutOfBand)
           q(i) == OutOfBand \o Packed(info, i)
           W(i) == WriteFields(b1, info, i)
           T == {i \in 0..18 : Holds(W(i), q(i))}
<1>1. size \in Nat /\ 4 < size
  <2>1. 0 \in 0..18
    OBVIOUS
  <2>2. Len(Packed(info, 0)) \in Nat /\ 4 + Len(Packed(info, 0)) < size
    BY <2>1, AnswerFits
  <2>3. size \in Nat
    BY RepliesAssumption
  <2> QED BY <2>2, <2>3
<1>2. memory \in Seq(Byte) /\ Len(memory) = size
  <2> HIDE DEF size
  <2>1. memory \in [1..size -> Byte]
    BY DEF Byte
  <2> HIDE DEF memory
  <2> QED BY <1>1, <2>1, BytesInARow
<1> HIDE DEF size, memory
<1>3. /\ b0 \in Bufs /\ b0.buffer = memory /\ b0.size = size /\ b0.curbyte = 0
      /\ b0.overflowed = FALSE
  BY <1>1, <1>2 DEF leybuf, Bufs
<1>4. Holds(b0, <<>>)
  <2>1. Len(<<>>) = 0 /\ <<>> \in Seq(Byte)
    BY EmptySeq
  <2> HIDE DEF b0
  <2> QED BY <1>2, <1>3, <2>1 DEF Holds, size
<1> HIDE DEF b0
<1>5. Holds(b1, OutOfBand)
  <2>1. Fits(b0, Len(OutOfBand))
    BY <1>1, <1>3, HeadersAre DEF Fits
  <2>2. b1 = Extended(b0, OutOfBand)
    BY <1>3, <2>1, HeadersAre, WriteIs
  <2>3. <<>> \in Seq(Byte) /\ Len(<<>>) + Len(OutOfBand) < size
    BY <1>1, HeadersAre, EmptySeq
  <2>4. Holds(Extended(b0, OutOfBand), <<>> \o OutOfBand)
    BY <1>4, <2>3, HeadersAre, ExtendedHolds DEF size
  <2>5. <<>> \o OutOfBand = OutOfBand
    BY HeadersAre, ConcatEmptySeq
  <2> QED BY <2>2, <2>4, <2>5
<1> HIDE DEF b1
<1>6. ASSUME NEW i \in 0..18
      PROVE  q(i) \in Seq(Byte) /\ Len(q(i)) = 4 + Len(Packed(info, i))
  <2>1. Packed(info, i) \in Seq(Byte)
    BY PackedType
  <2>2. PICK o \in Seq(Byte) : o = OutOfBand /\ Len(o) = 4
    BY HeadersAre
  <2>3. PICK p \in Seq(Byte) : p = Packed(info, i)
    BY <2>1
  <2>4. o \o p \in Seq(Byte) /\ Len(o \o p) = Len(o) + Len(p)
    BY BehindAnother
  <2> QED BY <2>2, <2>3, <2>4
<1>7. 0 \in T
  <2>1. W(0) = b1
    BY WriteFieldsStep
  <2>2. q(0) = OutOfBand
    <3>1. Packed(info, 0) = <<>>
      BY PackedStep
    <3> QED BY <3>1, HeadersAre, ConcatEmptySeq
  <2> HIDE DEF W, q
  <2> QED BY <1>5, <2>1, <2>2
<1>8. ASSUME NEW i \in 0..(18 - 1), i \in T PROVE i + 1 \in T
  <2> DEFINE bytes == Bytes(info, Fields[i + 1])
  <2>1. i + 1 \in 1..18 /\ (i + 1) - 1 = i /\ i \in 0..18 /\ i + 1 \in 0..18
    OBVIOUS
  <2>2. W(i + 1) = WriteField(W(i), info, Fields[i + 1])
    BY <2>1, WriteFieldsStep
  <2>3. Packed(info, i + 1) = Packed(info, i) \o bytes
    BY <2>1, PackedStep
  <2>4. bytes \in Seq(Byte) /\ Packed(info, i) \in Seq(Byte)
    BY <2>1, BytesFacts, PackedType
  <2>5. q(i + 1) = q(i) \o bytes
    <3>1. PICK o \in Seq(Byte) : o = OutOfBand
      BY HeadersAre
    <3>2. PICK p \in Seq(Byte) : p = Packed(info, i)
      BY <2>4
    <3>3. PICK e \in Seq(Byte) : e = bytes
      BY <2>4
    <3>4. o \o (p \o e) = (o \o p) \o e
      BY ThreeInARow
    <3>5. q(i + 1) = o \o (p \o e)
      BY <2>3, <3>1, <3>2, <3>3
    <3>6. q(i) \o bytes = (o \o p) \o e
      BY <3>1, <3>2, <3>3
    <3> QED BY <3>4, <3>5, <3>6
  <2>6. q(i) \in Seq(Byte) /\ Len(q(i)) + Len(bytes) < A2S_MAXDATASIZE
    <3>1. q(i) \in Seq(Byte)
      BY <1>6, <2>1
    <3>2. Len(q(i + 1)) = 4 + Len(Packed(info, i + 1))
      BY <1>6, <2>1
    <3>3. 4 + Len(Packed(info, i + 1)) < A2S_MAXDATASIZE
      BY <2>1, AnswerFits
    <3>4. Len(q(i) \o bytes) = Len(q(i)) + Len(bytes)
      <4> HIDE DEF q, bytes
      <4> QED BY <2>4, <3>1, ConcatProperties
    <3> HIDE DEF q, bytes
    <3> QED BY <2>5, <3>1, <3>2, <3>3, <3>4
  <2>7. Holds(W(i), q(i))
    BY <1>8
  <2> HIDE DEF W, q
  <2>8. Holds(WriteField(W(i), info, Fields[i + 1]), q(i) \o bytes)
    BY <2>1, <2>6, <2>7, WriteFieldHolds
  <2>9. Holds(W(i + 1), q(i + 1))
    BY <2>2, <2>5, <2>8
  <2> QED BY <2>1, <2>9
<1>9. Holds(W(18), q(18))
  <2> HIDE DEF T
  <2>1. 0..18 \subseteq T
    BY <1>7, <1>8, HoldsUpTo
  <2>2. 18 \in T
    BY <2>1
  <2> HIDE DEF W, q
  <2> QED BY <2>2 DEF T
<1>10. Written(info) = SubSeq(W(18).buffer, 1, W(18).curbyte)
  BY FieldCount, Zenon DEF Written, b1, b0, memory, size
<1> DEFINE b == W(18)
           m == b.buffer
           v == q(18)
<1>11. b \in Bufs /\ b.curbyte = Len(v) /\ Len(m) = size /\ \A k \in 1..Len(v) : m[k] = v[k]
  BY <1>9 DEF Holds, size
<1>12. v \in Seq(Byte) /\ Len(v) <= size /\ Len(v) \in Nat
  <2>1. 18 \in 0..18
    OBVIOUS
  <2>2. /\ v \in Seq(Byte) /\ Len(v) = 4 + Len(Packed(info, 18))
        /\ 4 + Len(Packed(info, 18)) < size /\ Len(Packed(info, 18)) \in Nat
    BY <1>6, <2>1, AnswerFits DEF size
  <2> HIDE DEF q
  <2> QED BY <1>1, <2>2
<1>13. m \in Seq(Byte)
  BY <1>11, BufFacts
<1> HIDE DEF m, v
<1>14. SubSeq(m, 1, Len(v)) = v
  <2>1. Len(v) <= Len(m)
    BY <1>11, <1>12
  <2> DEFINE p == SubSeq(m, 1, Len(v))
  <2>2. p \in Seq(Byte) /\ Len(p) = Len(v) /\ \A k \in 1..Len(v) : p[k] = m[k]
    BY <1>12, <1>13, <2>1, FrontOf
  <2>3. p \in Seq(Byte) /\ Len(p) = Len(v) /\ \A k \in 1..Len(p) : p[k] = v[k]
    BY <1>11, <2>2
  <2> HIDE DEF p
  <2>4. p = v
    BY <1>12, <2>3, SeqEqual
  <2> QED BY <2>4 DEF p
<1> QED BY <1>10, <1>11, <1>14 DEF m, v

\* What a reader begins with is an info, with empty texts.
LEMMA NoInfoFacts ==
    /\ IsInfo(NoInfo)
    /\ \A i \in 1..18 : Fields[i].size = 0 => Len(Value(NoInfo, i)) = 0
<1>1. ASSUME NEW i \in 1..18 PROVE Value(NoInfo, i) = Zeros(Fields[i].size)
  <2> DEFINE field == CHOOSE j \in DOMAIN Fields : Fields[j].name = Fields[i].name
  <2>1. field \in 1..18 /\ Fields[field].name = Fields[i].name
    <3>1. i \in DOMAIN Fields /\ DOMAIN Fields = 1..18
      BY FieldCount
    <3> QED BY <3>1
  <2>2. field = i
    BY <2>1, NamesDiffer
  <2>3. Fields[i].name \in Names
    BY NameFacts
  <2>4. Value(NoInfo, i) = [k \in 1..Fields[field].size |-> 0]
    BY <2>3 DEF NoInfo, Value
  <2> HIDE DEF field
  <2> QED BY <2>2, <2>4 DEF Zeros
<1>2. ASSUME NEW n \in Nat PROVE Zeros(n) \in Seq(Byte) /\ Len(Zeros(n)) = n
                                 /\ Zeros(n) \in [1..n -> Byte]
  <2>1. Zeros(n) \in [1..n -> Byte]
    BY DEF Zeros, Byte
  <2> QED BY <2>1, BytesInARow
<1>3. Zeros(0) \in Text
  <2>1. Zeros(0) \in [1..0 -> 1..255]
    BY DEF Zeros
  <2>2. Zeros(0) \in Seq(1..255)
    BY <2>1
  <2>3. Len(Zeros(0)) = 0
    BY <1>2
  <2>4. MAXDATAGRAM \in Nat
    BY RepliesAssumption
  <2> QED BY <2>2, <2>3, <2>4 DEF Text
<1>4. ASSUME NEW i \in 1..18 PROVE Value(NoInfo, i) \in Kind(i)
  <2>1. Fields[i].size \in Nat
    BY FieldKinds
  <2> QED BY <1>1, <1>2, <1>3, <2>1 DEF Kind
<1>5. NoInfo \in [Names -> Seq(Byte)]
  <2>1. ASSUME NEW name \in Names PROVE NoInfo[name] \in Seq(Byte)
    <3>1. PICK i \in 1..18 : name = Fields[i].name
      BY NameFacts
    <3>2. Fields[i].size \in Nat
      BY FieldKinds
    <3> QED BY <1>1, <1>2, <3>1, <3>2 DEF Value
  <2>2. NoInfo = [name \in Names |-> NoInfo[name]]
    BY DEF NoInfo
  <2> QED BY <2>1, <2>2
<1>6. IsInfo(NoInfo)
  <2>1. \A i \in DOMAIN Fields : Value(NoInfo, i) \in Kind(i)
    BY <1>4, FieldCount
  <2> QED BY <1>5, <2>1, Zenon DEF IsInfo, Kind, Value
<1>7. ASSUME NEW i \in 1..18, Fields[i].size = 0 PROVE Len(Value(NoInfo, i)) = 0
  <2>1. Value(NoInfo, i) = Zeros(0)
    BY <1>1, <1>7
  <2> QED BY <1>2, <2>1
<1> QED BY <1>6, <1>7

\* A client of the worker reads what is in the answer.
LEMMA ClientReads ==
    ASSUME NEW info, IsInfo(info), NEW q, q = OutOfBand \o Packed(info, 18)
    PROVE  LET client == ReadFields([buf |-> Read(leybuf(q, Len(q)), 4).buf,
                                     info |-> NoInfo], 1, 18)
           IN /\ SubSeq(q, 1, 4) = OutOfBand
              /\ \A i \in 1..18 :
                    Present(info, Fields[i]) => Value(client.info, i) = Value(info, i)
              /\ client.buf.curbyte = Len(q)
<1> DEFINE all == Packed(info, 18)
           w == Len(all)
           b0 == leybuf(q, Len(q))
           b == Read(b0, 4).buf
           s == [buf |-> b, info |-> NoInfo]
           client == ReadFields(s, 1, 18)
<1>1. /\ all \in Seq(Byte) /\ w \in Nat /\ q \in Seq(Byte) /\ Len(q) = 4 + w
      /\ \A k \in 1..4 : q[k] = OutOfBand[k]
      /\ \A k \in 1..w : q[4 + k] = all[k]
  <2>1. all \in Seq(Byte) /\ w \in Nat
    BY PackedType
  <2>2. PICK o \in Seq(Byte) : o = OutOfBand /\ Len(o) = 4
    BY HeadersAre
  <2>3. PICK p \in Seq(Byte) : p = all
    BY <2>1
  <2>4. /\ o \o p \in Seq(Byte) /\ Len(o \o p) = Len(o) + Len(p)
        /\ \A k \in 1..Len(o) : (o \o p)[k] = o[k]
        /\ \A k \in 1..Len(p) : (o \o p)[Len(o) + k] = p[k]
    BY BehindAnother
  <2>5. q = o \o p
    BY <2>2, <2>3
  <2> HIDE DEF all
  <2> QED BY <2>1, <2>2, <2>3, <2>4, <2>5
<1> HIDE DEF all, w
<1>2. SubSeq(q, 1, 4) = OutOfBand
  <2>1. 4 \in Nat /\ 4 <= Len(q)
    BY <1>1
  <2> DEFINE p == SubSeq(q, 1, 4)
  <2>2. p \in Seq(Byte) /\ Len(p) = 4 /\ \A k \in 1..4 : p[k] = q[k]
    BY <1>1, <2>1, FrontOf
  <2>3. p \in Seq(Byte) /\ Len(p) = 4 /\ \A k \in 1..4 : p[k] = OutOfBand[k]
    BY <1>1, <2>2
  <2> HIDE DEF p
  <2>4. p = OutOfBand
    BY <2>3, HeadersAre, SeqEqual
  <2> QED BY <2>4 DEF p
<1>3. /\ b0 \in Bufs /\ b0.buffer = q /\ b0.size = Len(q) /\ b0.curbyte = 0
      /\ b0.overflowed = FALSE
  BY <1>1 DEF leybuf, Bufs
<1> HIDE DEF b0
<1>4. b = Moved(b0, 4)
  <2>1. Fits(b0, 4)
    BY <1>1, <1>3 DEF Fits
  <2>2. Read(b0, 4) = [buf |-> Moved(b0, 4),
                       value |-> SubSeq(b0.buffer, b0.curbyte + 1, b0.curbyte + 4)]
    BY <1>3, <2>1, ReadIs
  <2> QED BY <2>2
<1>5. b \in Bufs /\ b.buffer = q /\ b.size = Len(q) /\ b.curbyte = 4 /\ b.overflowed = FALSE
  <2>1. /\ Moved(b0, 4) \in Bufs /\ Moved(b0, 4).buffer = b0.buffer
        /\ Moved(b0, 4).size = b0.size /\ Moved(b0, 4).curbyte = b0.curbyte + 4
        /\ Moved(b0, 4).overflowed = b0.overflowed
    BY <1>3, BufExcept
  <2> HIDE DEF b
  <2> QED BY <1>3, <1>4, <2>1
<1> HIDE DEF b
<1>6. Lies(b, info, 4)
  BY <1>1, <1>5 DEF Lies, all, w
<1>7. Behind(b, info, 4, 0)
  <2>1. Packed(info, 0) = <<>>
    BY PackedStep
  <2>2. Len(Packed(info, 0)) = 0
    BY <2>1
  <2> QED BY <1>5, <2>2 DEF Behind
<1>8. s.buf = b /\ s.info = NoInfo /\ Reading(s)
  <2>1. NoInfo \in [Names -> Seq(Byte)]
    BY NoInfoFacts, InfoFacts
  <2> QED BY <1>5, <2>1, NoInfoFacts DEF Reading
<1> HIDE DEF s
<1>9. Good(s, NoInfo, info, 4, 1 - 1)
  BY <1>6, <1>7, <1>8 DEF Good
<1>10. \/ Good(client, NoInfo, info, 4, 18)
       \/ Bad(client, NoInfo, info, 1, 18)
  <2>1. 1 \in 1..18 /\ 1 \in 1..1 /\ 18 \in (1 - 1)..18
    OBVIOUS
  <2> QED BY <1>9, <2>1, ReadReply
<1> HIDE DEF client
<1>11. ~Bad(client, NoInfo, info, 1, 18)
  <2> SUFFICES ASSUME Bad(client, NoInfo, info, 1, 18) PROVE FALSE
    OBVIOUS
  <2>1. PICK k \in 1..18 : StuckAt(client, NoInfo, info, k)
    BY DEF Bad
  <2>2. Fields[k].size = 0 /\ ~(Len(Value(NoInfo, k)) <= Room(info, k))
    BY <2>1 DEF StuckAt
  <2>3. Len(Value(NoInfo, k)) = 0
    BY <2>2, NoInfoFacts
  <2>4. Room(info, k) \in Nat
    <3>1. k \in 0..18 /\ k - 1 \in 0..18
      OBVIOUS
    <3>2. Len(Packed(info, k - 1)) \in Nat /\ Len(Packed(info, 18)) \in Nat
      BY <3>1, PackedType
    <3>3. Bytes(info, Fields[k]) \in Seq(Byte)
      BY BytesFacts
    <3>4. Len(Bytes(info, Fields[k])) \in Nat
      BY <3>3, LenProperties
    <3>5. /\ Len(Packed(info, k)) = Len(Packed(info, k - 1)) + Len(Bytes(info, Fields[k]))
          /\ Len(Packed(info, k)) <= Len(Packed(info, 18))
      BY FieldLies
    <3>6. Room(info, k) = Len(Packed(info, 18)) - Len(Packed(info, k - 1))
      BY RoomIs
    <3> QED BY <3>2, <3>4, <3>5, <3>6
  <2> QED BY <2>2, <2>3, <2>4
<1>12. /\ \A i \in 1..18 :
             Present(info, Fields[i]) => Value(client.info, i) = Value(info, i)
       /\ client.buf.curbyte = 4 + w
  BY <1>10, <1>11 DEF Good, Behind, w, all
<1> QED BY <1>1, <1>2, <1>12 DEF client, s, b, b0

-----------------------------------------------------------------------------
(* A datagram arrives.                                                     *)

Arrived(r, l, old) ==
    [buf |-> Read(leybuf(Packet(r) \o Append(l, NUL), Len(Packet(r))), 19).buf,
     info |-> old]

\* The fields of a reply begin behind 19 bytes of headers.
LEMMA PacketIs ==
    ASSUME NEW r, IsInfo(r)
    PROVE  /\ Packet(r) \in Seq(Byte) /\ Len(Packet(r)) = 19 + Len(Packed(r, 18))
           /\ \A k \in 1..Len(Packed(r, 18)) : Packet(r)[19 + k] = Packed(r, 18)[k]
<1>1. PICK h \in Seq(Byte) : h = Header /\ Len(h) = 15
  BY HeadersAre
<1>2. PICK o \in Seq(Byte) : o = OutOfBand /\ Len(o) = 4
  BY HeadersAre
<1>3. PICK p \in Seq(Byte) : p = Packed(r, 18)
  BY PackedType
<1>4. PICK ho \in Seq(Byte) : ho = h \o o /\ Len(ho) = 19
  <2>1. h \o o \in Seq(Byte) /\ Len(h \o o) = Len(h) + Len(o)
    BY BehindAnother
  <2>2. Len(h \o o) = 19
    BY <1>1, <1>2, <2>1
  <2> QED BY <2>1, <2>2
<1>5. /\ ho \o p \in Seq(Byte) /\ Len(ho \o p) = Len(ho) + Len(p)
      /\ \A k \in 1..Len(p) : (ho \o p)[Len(ho) + k] = p[k]
  BY BehindAnother
<1>6. Packet(r) = ho \o p
  <2>1. Packet(r) = (Header \o OutOfBand) \o Packed(r, 18)
    BY FieldCount DEF Packet
  <2> QED BY <1>1, <1>2, <1>3, <1>4, <2>1
<1> QED BY <1>3, <1>4, <1>5, <1>6

\* A reply has arrived and nothing of it has been read.
LEMMA ArrivedFacts ==
    ASSUME NEW r \in Replies, NEW l \in Leftovers, NEW old, IsInfo(old)
    PROVE  LET s == Arrived(r, l, old)
           IN Reading(s) /\ Ended(s.buf) /\ Good(s, old, r, 19, 0)
<1> DEFINE s == Arrived(r, l, old)
           all == Packed(r, 18)
           w == Len(all)
           q == Packet(r)
           behind == Append(l, NUL)
           m == q \o behind
           b0 == leybuf(m, Len(q))
           b == Read(b0, 19).buf
<1>1. IsInfo(r) /\ Len(q) + Len(l) < MAXDATAGRAM /\ MAXDATAGRAM \in Nat /\ l \in Seq(1..255)
  BY RepliesAssumption
<1>2. /\ q \in Seq(Byte) /\ Len(q) = 19 + w /\ w \in Nat
      /\ \A k \in 1..w : q[19 + k] = all[k]
  <2>1. w \in Nat
    <3>1. 18 \in 0..18
      OBVIOUS
    <3> QED BY <1>1, <3>1, PackedType
  <2> HIDE DEF w
  <2>2. /\ q \in Seq(Byte) /\ Len(q) = 19 + Len(all)
        /\ \A k \in 1..Len(all) : q[19 + k] = all[k]
    BY <1>1, PacketIs
  <2> HIDE DEF q, all
  <2>3. w = Len(all)
    BY DEF w
  <2> QED BY <2>1, <2>2, <2>3
<1>3. /\ behind \in Seq(Byte) /\ Len(behind) = Len(l) + 1 /\ Len(l) \in Nat
      /\ behind[Len(l) + 1] = NUL
  <2>1. 1..255 \subseteq Byte /\ NUL \in Byte
    BY DEF Byte, NUL
  <2>2. l \in Seq(Byte)
    BY <1>1, <2>1, SeqMonotonic
  <2> QED BY <2>1, <2>2, AppendProperties, LenProperties
<1> HIDE DEF q, behind, all, w
<1>4. /\ m \in Seq(Byte) /\ Len(m) = Len(q) + Len(behind)
      /\ \A k \in 1..Len(q) : m[k] = q[k]
      /\ \A k \in 1..Len(behind) : m[Len(q) + k] = behind[k]
  BY <1>2, <1>3, BehindAnother
<1> HIDE DEF m
<1>5. /\ b0 \in Bufs /\ b0.buffer = m /\ b0.size = Len(q) /\ b0.curbyte = 0
      /\ b0.overflowed = FALSE
  BY <1>2, <1>4 DEF leybuf, Bufs
<1> HIDE DEF b0
<1>6. b = Moved(b0, 19)
  <2>1. Fits(b0, 19)
    BY <1>2, <1>5 DEF Fits
  <2>2. Read(b0, 19) = [buf |-> Moved(b0, 19),
                        value |-> SubSeq(b0.buffer, b0.curbyte + 1, b0.curbyte + 19)]
    BY <1>5, <2>1, ReadIs
  <2> QED BY <2>2
<1>7. /\ b \in Bufs /\ b.buffer = m /\ b.size = Len(q)
      /\ b.curbyte = 19 /\ b.overflowed = FALSE
  <2>1. /\ Moved(b0, 19) \in Bufs /\ Moved(b0, 19).buffer = b0.buffer
        /\ Moved(b0, 19).size = b0.size /\ Moved(b0, 19).curbyte = b0.curbyte + 19
        /\ Moved(b0, 19).overflowed = b0.overflowed
    <3> HIDE DEF b, s
    <3>1. b0 \in Bufs /\ 19 \in Nat
      BY <1>5
    <3> QED BY <3>1, BufExcept
  <2> HIDE DEF b
  <2> QED BY <1>5, <1>6, <2>1
<1>8. s = [buf |-> b, info |-> old]
  BY DEF Arrived, b, b0, m, q, behind
<1> HIDE DEF b, s
<1>9. s.buf = b /\ s.info = old
  BY <1>8
<1>10. Reading(s)
  <2>1. old \in [Names -> Seq(Byte)]
    BY InfoFacts
  <2> QED BY <1>7, <1>8, <1>9, <2>1 DEF Reading
<1>11. Ended(b)
  <2>1. Len(m) = Len(q) + Len(l) + 1 /\ Len(m) <= MAXDATAGRAM /\ Len(q) < Len(m)
    BY <1>1, <1>2, <1>3, <1>4 DEF q
  <2>2. Len(l) + 1 \in 1..Len(behind) /\ Len(q) + (Len(l) + 1) = Len(m)
    BY <1>2, <1>3, <1>4
  <2>3. m[Len(m)] = NUL
    BY <1>3, <1>4, <2>2
  <2> QED BY <1>7, <2>1, <2>3 DEF Ended
<1>12. Lies(b, r, 19)
  <2>1. Len(q) <= Len(m)
    BY <1>2, <1>3, <1>4
  <2>2. ASSUME NEW k \in 1..w PROVE m[19 + k] = all[k]
    <3>1. 19 + k \in 1..Len(q)
      BY <1>2
    <3> QED BY <1>2, <1>4, <3>1
  <2> QED BY <1>2, <1>7, <2>1, <2>2 DEF Lies, all, w
<1>13. Behind(b, r, 19, 0)
  <2>1. Packed(r, 0) = <<>>
    BY PackedStep
  <2>2. Len(Packed(r, 0)) = 0
    BY <2>1
  <2> QED BY <1>7, <2>2 DEF Behind
<1>14. Good(s, old, r, 19, 0)
  BY <1>9, <1>10, <1>12, <1>13 DEF Good
<1> QED BY <1>9, <1>10, <1>11, <1>14 DEF s

\* The byte that the check before vac looks for.
LEMMA VacIsOneByte ==
    ASSUME NEW r, IsInfo(r)
    PROVE  Len(Bytes(r, Fields[10])) = 1
<1> DEFINE i == 10
<1>1. i \in 1..18 /\ i \in 1..12
  OBVIOUS
<1>2. Fields[i].size = 1
  BY DEF Fields, Field
<1>3. Fields[i].size # 0
  BY <1>2
<1>4. Present(r, Fields[i])
  BY <1>1, PresentAlways
<1> HIDE DEF i
<1>5. Len(Bytes(r, Fields[i])) = Fields[i].size
  BY <1>1, <1>3, <1>4, BytesFacts
<1> QED BY <1>2, <1>5 DEF i

\* What has been read at the check before vac, and what the check finds.
LEMMA BegunFacts ==
    ASSUME NEW r \in Replies, NEW l \in Leftovers, NEW old, IsInfo(old)
    PROVE  LET s == ReadFields(Arrived(r, l, old), 1, 9)
           IN /\ Reading(s) /\ Ended(s.buf)
              /\ ~Tested(s.buf, 0).overflowed => Good(s, old, r, 19, 9)
              /\ Tested(s.buf, 0).overflowed => Bad(s, old, r, 1, 9)
<1> DEFINE a == Arrived(r, l, old)
           s == ReadFields(a, 1, 9)
<1>1. Reading(a) /\ Ended(a.buf) /\ Good(a, old, r, 19, 0)
  BY ArrivedFacts
<1>2. IsInfo(r) /\ 1 - 1 = 0 /\ 9 \in (1 - 1)..18 /\ 1 \in 1..18 /\ 1 \in 1..1
  BY RepliesAssumption
<1> HIDE DEF a
<1>3. Reading(s) /\ Ended(s.buf)
  BY <1>1, <1>2, ReadFieldsTypes
<1>4. Good(s, old, r, 19, 9) \/ Bad(s, old, r, 1, 9)
  BY <1>1, <1>2, ReadReply
<1> HIDE DEF s
<1>5. Tested(s.buf, 0).overflowed = ~Fits(s.buf, 0)
  <2>1. s.buf \in Bufs /\ 0 \in Nat
    BY <1>3, ReadingFacts
  <2> QED BY <2>1, TestedIs
<1>6. ASSUME Good(s, old, r, 19, 9) PROVE Fits(s.buf, 0)
  <2> DEFINE b == s.buf
             c == b.curbyte
             size == b.size
             p9 == Len(Packed(r, 9))
             p10 == Len(Packed(r, 10))
             w == Len(Packed(r, 18))
  <2>1. ~b.overflowed /\ c = 19 + p9 /\ size = 19 + w
    BY <1>6 DEF Good, Behind, Lies
  <2>2. /\ p9 \in Nat /\ p10 \in Nat /\ w \in Nat /\ p10 <= w
        /\ p10 = p9 + Len(Bytes(r, Fields[10]))
    <3>1. 9 \in 0..18 /\ 10 \in 0..18 /\ 18 \in 0..18 /\ 10 \in 1..18 /\ 10 - 1 = 9
      OBVIOUS
    <3>2. p9 \in Nat /\ p10 \in Nat /\ w \in Nat
      BY <1>2, <3>1, PackedType
    <3>3. Len(Packed(r, 10)) = Len(Packed(r, 10 - 1)) + Len(Bytes(r, Fields[10]))
          /\ Len(Packed(r, 10)) <= Len(Packed(r, 18))
      BY <1>2, <3>1, FieldLies
    <3> QED BY <3>1, <3>2, <3>3
  <2>3. Len(Bytes(r, Fields[10])) = 1
    BY <1>2, VacIsOneByte
  <2> HIDE DEF c, size, p9, p10, w, b
  <2>4. c + 0 <= size /\ c < size
    BY <2>1, <2>2, <2>3
  <2>5. Fits(b, 0)
    BY <2>1, <2>4 DEF Fits, c, size
  <2> QED BY <2>5 DEF b
<1>7. ASSUME Bad(s, old, r, 1, 9) PROVE ~Fits(s.buf, 0)
  BY <1>7 DEF Bad, Fits
<1>8. /\ ~Tested(s.buf, 0).overflowed => Good(s, old, r, 19, 9)
      /\ Tested(s.buf, 0).overflowed => Bad(s, old, r, 1, 9)
  BY <1>4, <1>5, <1>6, <1>7
<1> QED BY <1>3, <1>8 DEF s, a

-----------------------------------------------------------------------------
(* What becomes of a reply that did not end too early.                     *)

Told(s) == [s EXCEPT !.info.edf = <<WithGamePort(s.info.edf[1])>>]

Own(info, edf) ==
    [info EXCEPT !.gameport = <<1, 1>>,
                 !.serversid = IF Has(edf, 16) THEN Raised(@) ELSE @,
                 !.name = IF customname = <<>> THEN @ ELSE customname]

\* The action begins with the first nine fields.
LEMMA BegunIs ==
    ASSUME NEW r, NEW l
    PROVE  Begun(Packet(r), Append(l, NUL)) = ReadFields(Arrived(r, l, servera2s), 1, 9)
BY Zenon DEF Begun, Arrived, LastFixed

\* And goes on with the other nine.
LEMMA FinishedIs ==
    ASSUME NEW begun
    PROVE  LET sure == ReadFields(begun, 10, 12)
           IN Finished(begun) = Own(ReadFields(Told(sure), 13, 18).info,
                                    WithGamePort(sure.info.edf[1]))
<1> DEFINE sure == ReadFields(begun, 10, 12)
<1>1. 9 + 1 = 10 /\ 12 + 1 = 13
  OBVIOUS
<1>2. sure = ReadFields(begun, LastFixed + 1, LastSure)
  BY <1>1 DEF LastFixed, LastSure
<1> HIDE DEF sure
<1>3. Finished(begun) = Own(ReadFields(Told(sure), 13, 18).info,
                            WithGamePort(sure.info.edf[1]))
  BY <1>1, <1>2, FieldCount, Zenon DEF Finished, Own, Told, LastSure
<1> QED BY <1>3 DEF sure

\* A game port in edf stays there.
LEMMA WithGamePortFacts ==
    ASSUME NEW edf \in Byte
    PROVE  WithGamePort(edf) \in Byte /\ (Has(edf, 128) => WithGamePort(edf) = edf)
<1>1. CASE Has(edf, 128)
  BY <1>1 DEF WithGamePort
<1>2. CASE ~Has(edf, 128)
  <2>1. ~((edf \div 128) % 2 = 1)
    BY <1>2 DEF Has
  <2>2. edf < 128
    BY <2>1 DEF Byte
  <2> QED BY <1>2, <2>2 DEF WithGamePort, Byte
<1> QED BY <1>1, <1>2

\* Only edf is told differently.
LEMMA ToldFacts ==
    ASSUME NEW s, Reading(s)
    PROVE  /\ Reading(Told(s)) /\ Told(s).buf = s.buf
           /\ \A j \in 1..18 : j # 12 => Value(Told(s).info, j) = Value(s.info, j)
           /\ Has(s.info.edf[1], 128) => Told(s) = s
<1> DEFINE e == s.info.edf
           v == <<WithGamePort(e[1])>>
<1>1. s.buf \in Bufs /\ IsInfo(s.info) /\ s = [buf |-> s.buf, info |-> s.info]
  BY ReadingFacts
<1>2. 12 \in 1..18 /\ Fields[12].name = "edf" /\ Fields[12].size = 1
  BY FieldNames
<1>3. e \in [1..1 -> Byte] /\ e[1] \in Byte
  <2>1. e = Value(s.info, 12)
    BY <1>2 DEF Value
  <2>2. Value(s.info, 12) \in Kind(12)
    BY <1>1, <1>2, ValueFacts
  <2> HIDE DEF e
  <2>3. e \in [1..1 -> Byte]
    BY <1>2, <2>1, <2>2 DEF Kind
  <2> QED BY <2>3
<1>4. v \in [1..1 -> Byte] /\ v \in Kind(12)
  <2> HIDE DEF e
  <2>1. WithGamePort(e[1]) \in Byte
    BY <1>3, WithGamePortFacts
  <2>2. v \in [1..1 -> Byte]
    BY <2>1
  <2> HIDE DEF v
  <2> QED BY <1>2, <2>2 DEF Kind
<1>5. Told(s) = Updated(s, s.buf, 12, v)
  <2>1. Told(s) = [s EXCEPT !.info = [s.info EXCEPT !.edf = v]]
    BY DEF Told
  <2>2. PICK b, info : s = [buf |-> b, info |-> info] /\ b = s.buf /\ info = s.info
    BY <1>1
  <2> HIDE DEF v
  <2>3. [s EXCEPT !.info = [s.info EXCEPT !.edf = v]]
        = [buf |-> b, info |-> [info EXCEPT !.edf = v]]
    BY <2>2
  <2> QED BY <1>2, <2>1, <2>2, <2>3 DEF Updated, Given
<1> HIDE DEF v
<1>6. /\ Reading(Told(s)) /\ Told(s).buf = s.buf
      /\ \A j \in 1..18 : j # 12 => Value(Told(s).info, j) = Value(s.info, j)
  BY <1>1, <1>2, <1>4, <1>5, UpdatedFacts
<1>7. ASSUME Has(e[1], 128) PROVE Told(s) = s
  <2>1. WithGamePort(e[1]) = e[1]
    BY <1>3, <1>7, WithGamePortFacts
  <2>2. v = e
    <3> HIDE DEF e
    <3>1. v = <<e[1]>>
      BY <2>1 DEF v
    <3> QED BY <1>3, <3>1
  <2>3. v = Value(s.info, 12)
    BY <1>2, <2>2 DEF Value
  <2>4. Given(s.info, 12, v) = s.info
    BY <1>1, <1>2, <2>3, GivenTheSame
  <2> QED BY <1>1, <1>5, <2>4 DEF Updated
<1> QED BY <1>6, <1>7 DEF e

\* A Steam id raised is eight bytes.
LEMMA RaisedType ==
    ASSUME NEW sid \in [1..8 -> Byte]
    PROVE  Raised(sid) \in [1..8 -> Byte]
<1>1. ASSUME NEW i \in 1..8 PROVE sid[i] \in Byte /\ (sid[i] + 1) % 256 \in Byte
  BY DEF Byte
<1>2. DOMAIN sid = 1..8
  OBVIOUS
<1> QED BY <1>1, <1>2 DEF Raised

\* Three fields are the worker's own, of the same kind.
LEMMA OwnFacts ==
    ASSUME NEW info, IsInfo(info), NEW edf, customname \in CustomNames
    PROVE  /\ IsInfo(Own(info, edf))
           /\ \A j \in 1..18 :
                 Fields[j].size = 0 =>
                    \/ Value(Own(info, edf), j) = Value(info, j)
                    \/ j = 3 /\ Value(Own(info, edf), j) = customname
           /\ \A j \in 1..18 :
                 j # 3 /\ j # 13 /\ j # 14 => Value(Own(info, edf), j) = Value(info, j)
<1> DEFINE v13 == <<1, 1>>
           i13 == Given(info, 13, v13)
           v14 == IF Has(edf, 16) THEN Raised(Value(i13, 14)) ELSE Value(i13, 14)
           i14 == Given(i13, 14, v14)
           v3 == IF customname = <<>> THEN Value(i14, 3) ELSE customname
           i3 == Given(i14, 3, v3)
<1>1. /\ 3 \in 1..18 /\ 13 \in 1..18 /\ 14 \in 1..18
      /\ Fields[3].name = "name" /\ Fields[3].size = 0
      /\ Fields[13].name = "gameport" /\ Fields[13].size = 2
      /\ Fields[14].name = "serversid" /\ Fields[14].size = 8
  BY FieldNames
<1>2. v13 \in Kind(13)
  BY <1>1 DEF Kind, Byte
<1> HIDE DEF v13
<1>3. IsInfo(i13) /\ \A j \in 1..18 : j # 13 => Value(i13, j) = Value(info, j)
  BY <1>1, <1>2, GivenFacts
<1> HIDE DEF i13
<1>4. v14 \in Kind(14)
  <2>1. Value(i13, 14) \in [1..8 -> Byte]
    <3>1. Value(i13, 14) \in Kind(14)
      BY <1>1, <1>3, ValueFacts
    <3> QED BY <1>1, <3>1 DEF Kind
  <2>2. Raised(Value(i13, 14)) \in [1..8 -> Byte]
    BY <2>1, RaisedType
  <2> QED BY <1>1, <2>1, <2>2 DEF Kind
<1> HIDE DEF v14
<1>5. IsInfo(i14) /\ \A j \in 1..18 : j # 14 => Value(i14, j) = Value(i13, j)
  BY <1>1, <1>3, <1>4, GivenFacts
<1> HIDE DEF i14
<1>6. v3 \in Kind(3)
  <2>1. Value(i14, 3) \in Kind(3)
    BY <1>1, <1>5, ValueFacts
  <2>2. customname \in Kind(3)
    BY <1>1, RepliesAssumption DEF Kind
  <2> QED BY <2>1, <2>2
<1>7. v3 = Value(i14, 3) \/ v3 = customname
  OBVIOUS
<1> HIDE DEF v3
<1>8. /\ IsInfo(i3) /\ Value(i3, 3) = v3
      /\ \A j \in 1..18 : j # 3 => Value(i3, j) = Value(i14, j)
  BY <1>1, <1>5, <1>6, GivenFacts
<1>9. Own(info, edf) = i3
  <2>1. /\ i13 = [info EXCEPT !.gameport = v13]
        /\ i14 = [i13 EXCEPT !.serversid = v14]
        /\ i3 = [i14 EXCEPT !.name = v3]
    BY <1>1 DEF i13, i14, i3, Given
  <2>2. /\ v14 = IF Has(edf, 16) THEN Raised(i13.serversid) ELSE i13.serversid
        /\ v3 = IF customname = <<>> THEN i14.name ELSE customname
    BY <1>1 DEF v14, v3, Value
  <2>3. i13.serversid = info.serversid /\ i14.name = info.name
    BY <1>1, <1>3, <1>5 DEF Value
  <2>4. info \in [Names -> Seq(Byte)]
    BY InfoFacts
  <2>5. PICK x13 : x13 = i13
    OBVIOUS
  <2>6. PICK x14 : x14 = i14
    OBVIOUS
  <2> QED BY <2>1, <2>2, <2>3, <2>4, NameFacts, Zenon DEF Own, v13
<1> HIDE DEF i3
<1>10. ASSUME NEW j \in 1..18, j # 3, j # 13, j # 14
       PROVE  Value(i3, j) = Value(info, j)
  BY <1>3, <1>5, <1>8, <1>10
<1>11. ASSUME NEW j \in 1..18, Fields[j].size = 0
       PROVE  Value(i3, j) = Value(info, j) \/ (j = 3 /\ Value(i3, j) = customname)
  <2>1. j # 13 /\ j # 14
    BY <1>1, <1>11
  <2>2. Value(i14, 3) = Value(info, 3)
    BY <1>1, <1>3, <1>5
  <2> QED BY <1>7, <1>8, <1>10, <2>1, <2>2
<1> QED BY <1>8, <1>9, <1>10, <1>11

\* The text k is longer than what is left of the reply from it on.
Blocked(info, r, k) ==
    Fields[k].size = 0 /\ Present(r, Fields[k]) /\ ~(Len(Value(info, k)) <= Room(r, k))

\* A text that was to be read is the reply's, or one up to it was too long.
LEMMA TextRead ==
    ASSUME NEW s, NEW old, NEW r, NEW p, NEW from \in 1..18, NEW n \in 1..18,
           NEW i \in 1..18, Fields[i].size = 0, Present(r, Fields[i]),
           \/ Good(s, old, r, p, n) /\ i <= n
           \/ Bad(s, old, r, from, n)
    PROVE  \/ Value(s.info, i) = Value(r, i)
           \/ \E k \in from..i : Blocked(s.info, r, k)
<1>1. CASE Good(s, old, r, p, n) /\ i <= n
  <2>1. i \in 1..n
    BY <1>1
  <2>2. \A j \in 1..n : Present(r, Fields[j]) => Value(s.info, j) = Value(r, j)
    BY <1>1 DEF Good
  <2> QED BY <2>1, <2>2
<1>2. CASE Bad(s, old, r, from, n)
  <2>1. PICK k \in from..n : StuckAt(s, old, r, k)
    BY <1>2 DEF Bad
  <2>2. /\ Fields[k].size = 0 /\ Present(r, Fields[k])
        /\ ~(Len(Value(old, k)) <= Room(r, k))
        /\ \A j \in 1..(k - 1) :
              Fields[j].size = 0 /\ Present(r, Fields[j]) => Value(s.info, j) = Value(r, j)
        /\ \A j \in k..18 : Fields[j].size = 0 => Value(s.info, j) = Value(old, j)
    BY <2>1 DEF StuckAt
  <2>3. CASE i < k
    <3>1. i \in 1..(k - 1)
      BY <2>3
    <3> QED BY <2>2, <3>1
  <2>4. CASE ~(i < k)
    <3>1. k \in from..i /\ k \in k..18
      BY <2>4
    <3>2. Value(s.info, k) = Value(old, k)
      BY <2>2, <3>1
    <3>3. Blocked(s.info, r, k)
      BY <2>2, <3>2 DEF Blocked
    <3> QED BY <3>1, <3>3
  <2> QED BY <2>3, <2>4
<1> QED BY <1>1, <1>2

\* What the rest of a reply makes of the texts.
LEMMA FinishedTexts ==
    ASSUME NEW begun, NEW old, NEW r, IsInfo(r), Reading(begun), Ended(begun.buf),
           Good(begun, old, r, 19, 9), customname \in CustomNames
    PROVE  /\ IsInfo(Finished(begun))
           /\ \A i \in 1..18 :
                 /\ Fields[i].size = 0 /\ Present(r, Fields[i])
                 /\ i <= 12 \/ Has(r.edf[1], 128)
                 => \/ Value(Finished(begun), i) = Value(r, i)
                    \/ i = 3 /\ Value(Finished(begun), i) = customname
                    \/ \E k \in 1..i : Blocked(Finished(begun), r, k)
<1> DEFINE sure == ReadFields(begun, 10, 12)
           told == Told(sure)
           rest == ReadFields(told, 13, 18)
           fin == Own(rest.info, WithGamePort(sure.info.edf[1]))
<1>0. /\ 10 \in 1..18 /\ 10 - 1 = 9 /\ 10 \in 1..10 /\ 12 \in (10 - 1)..18
      /\ 12 \in 1..18
      /\ 13 \in 1..18 /\ 13 - 1 = 12 /\ 10 \in 1..13 /\ 18 \in (13 - 1)..18
      /\ 18 \in 1..18
  OBVIOUS
<1>1. Finished(begun) = fin
  BY FinishedIs
<1>2. Reading(sure) /\ Ended(sure.buf)
  BY <1>0, ReadFieldsTypes
<1>3. Good(sure, old, r, 19, 12) \/ Bad(sure, old, r, 10, 12)
  BY <1>0, ReadReply
<1> HIDE DEF sure
<1>4. /\ Reading(told) /\ told.buf = sure.buf
      /\ \A j \in 1..18 : j # 12 => Value(told.info, j) = Value(sure.info, j)
      /\ Has(sure.info.edf[1], 128) => told = sure
  BY <1>2, ToldFacts
<1> HIDE DEF told
<1>5. Ended(told.buf)
  BY <1>2, <1>4
<1>6. Reading(rest) /\ \A j \in 1..12 : Value(rest.info, j) = Value(told.info, j)
  BY <1>0, <1>4, <1>5, ReadFieldsTypes
<1>7. ASSUME Has(r.edf[1], 128)
      PROVE  Good(rest, old, r, 19, 18) \/ Bad(rest, old, r, 10, 18)
  <2>1. CASE Good(sure, old, r, 19, 12)
    <3>1. Present(r, Fields[12])
      <4>1. 12 \in 1..12
        OBVIOUS
      <4> QED BY <4>1, PresentAlways
    <3>2. Value(sure.info, 12) = Value(r, 12)
      <4>1. \A j \in 1..12 : Present(r, Fields[j]) => Value(sure.info, j) = Value(r, j)
        BY <2>1 DEF Good
      <4>2. 12 \in 1..12
        OBVIOUS
      <4> QED BY <3>1, <4>1, <4>2
    <3>3. sure.info.edf = r.edf
      BY <3>2, FieldNames DEF Value
    <3>4. told = sure
      BY <1>4, <1>7, <3>3
    <3>5. Good(told, old, r, 19, 13 - 1)
      BY <1>0, <2>1, <3>4
    <3> HIDE DEF rest
    <3>6. \A i \in (13 - 1)..18 :
             \/ Good(ReadFields(told, 13, i), old, r, 19, i)
             \/ Bad(ReadFields(told, 13, i), old, r, 10, i)
      BY <1>0, <3>5, ReadReply
    <3> QED BY <1>0, <3>6 DEF rest
  <2>2. CASE Bad(sure, old, r, 10, 12)
    <3>1. sure.buf.overflowed
      BY <2>2 DEF Bad
    <3>2. PICK k \in 10..12 : StuckAt(sure, old, r, k)
      BY <2>2 DEF Bad
    <3>3. \A j \in 1..18 : Fields[j].size = 0 => Value(told.info, j) = Value(sure.info, j)
      <4>1. Fields[12].size # 0
        BY FieldNames
      <4> QED BY <1>4, <4>1
    <3>4. \A j \in 1..(k - 1) : j \in 1..18
      OBVIOUS
    <3>5. \A j \in k..18 : j \in 1..18
      OBVIOUS
    <3>6. StuckAt(told, old, r, k)
      BY <3>2, <3>3, <3>4, <3>5 DEF StuckAt
    <3>7. Bad(told, old, r, 10, 13 - 1)
      BY <1>0, <1>4, <3>1, <3>6 DEF Bad
    <3> HIDE DEF rest
    <3>8. \A i \in (13 - 1)..18 :
             \/ Good(ReadFields(told, 13, i), old, r, 19, i)
             \/ Bad(ReadFields(told, 13, i), old, r, 10, i)
      BY <1>0, <3>7, ReadReply
    <3> QED BY <1>0, <3>8 DEF rest
  <2> QED BY <1>3, <2>1, <2>2
<1> HIDE DEF rest
<1>8. IsInfo(rest.info)
  BY <1>6, ReadingFacts
<1>9. /\ IsInfo(fin)
      /\ \A j \in 1..18 :
            Fields[j].size = 0 =>
               \/ Value(fin, j) = Value(rest.info, j)
               \/ j = 3 /\ Value(fin, j) = customname
      /\ \A j \in 1..18 :
            j # 3 /\ j # 13 /\ j # 14 => Value(fin, j) = Value(rest.info, j)
  BY <1>8, OwnFacts
<1> HIDE DEF fin
<1>10. ASSUME NEW k \in 10..18, Blocked(rest.info, r, k)
       PROVE  Blocked(fin, r, k)
  <2>1. Fields[k].size = 0
    BY <1>10 DEF Blocked
  <2>2. k \in 1..18 /\ k # 3 /\ k # 13 /\ k # 14
    BY <2>1, FieldNames
  <2>3. Value(fin, k) = Value(rest.info, k)
    BY <1>9, <2>2
  <2> QED BY <1>10, <2>3 DEF Blocked
<1>11. ASSUME NEW i \in 1..18, Fields[i].size = 0, Present(r, Fields[i]),
              i <= 12 \/ Has(r.edf[1], 128)
       PROVE  \/ Value(fin, i) = Value(r, i)
              \/ i = 3 /\ Value(fin, i) = customname
              \/ \E k \in 1..i : Blocked(fin, r, k)
  <2>1. \/ Value(rest.info, i) = Value(r, i)
        \/ \E k \in 10..i : Blocked(rest.info, r, k)
    <3>1. CASE i <= 12
      <4>1. \/ Value(sure.info, i) = Value(r, i)
            \/ \E k \in 10..i : Blocked(sure.info, r, k)
        BY <1>0, <1>3, <1>11, <3>1, TextRead
      <4>2. ASSUME NEW k \in 1..12, Fields[k].size = 0
            PROVE  Value(rest.info, k) = Value(sure.info, k)
        <5>1. k \in 1..18 /\ k # 12
          BY <4>2, FieldNames
        <5> QED BY <1>4, <1>6, <5>1
      <4>3. i \in 1..12
        BY <3>1
      <4>4. ASSUME NEW k \in 10..i, Blocked(sure.info, r, k)
            PROVE  Blocked(rest.info, r, k)
        <5>1. k \in 1..12 /\ Fields[k].size = 0
          BY <4>3, <4>4 DEF Blocked
        <5>2. Value(rest.info, k) = Value(sure.info, k)
          BY <4>2, <5>1
        <5> QED BY <4>4, <5>2 DEF Blocked
      <4>5. Value(rest.info, i) = Value(sure.info, i)
        BY <1>11, <4>2, <4>3
      <4> QED BY <4>1, <4>4, <4>5
    <3>2. CASE ~(i <= 12)
      <4>1. Good(rest, old, r, 19, 18) \/ Bad(rest, old, r, 10, 18)
        BY <1>7, <1>11, <3>2
      <4>2. i <= 18
        OBVIOUS
      <4> QED BY <1>0, <1>11, <4>1, <4>2, TextRead
    <3> QED BY <3>1, <3>2
  <2>2. CASE Value(rest.info, i) = Value(r, i)
    BY <1>9, <1>11, <2>2
  <2>3. CASE \E k \in 10..i : Blocked(rest.info, r, k)
    <3>1. PICK k \in 10..i : Blocked(rest.info, r, k)
      BY <2>3
    <3>2. k \in 10..18 /\ k \in 1..i
      OBVIOUS
    <3>3. Blocked(fin, r, k)
      BY <1>10, <3>1, <3>2
    <3> QED BY <3>2, <3>3
  <2> QED BY <2>1, <2>2, <2>3
<1> QED BY <1>1, <1>9, <1>11

-----------------------------------------------------------------------------
(* The answer that is the reply itself stays what it is when copied again. *)

\* Copying the same bytes again changes nothing.
LEMMA CopiedTwice ==
    ASSUME NEW m \in Seq(Byte), NEW q \in Seq(Byte)
    PROVE  /\ Copied(m, 0, q) \in Seq(Byte)
           /\ Len(Copied(m, 0, q)) = Len(m)
           /\ Copied(Copied(m, 0, q), 0, q) = Copied(m, 0, q)
<1> DEFINE one == Copied(m, 0, q)
           two == Copied(one, 0, q)
<1>1. Len(m) \in Nat /\ 0 \in Nat /\ 0 <= Len(m) /\ Len(q) \in Nat
  BY LenProperties
<1>2. /\ one \in Seq(Byte) /\ Len(one) = Len(m)
      /\ \A k \in 1..Len(m) :
            one[k] = IF k <= 0 \/ k > 0 + Len(q) THEN m[k] ELSE q[k - 0]
  BY <1>1, CopiedFacts
<1> HIDE DEF one
<1>3. 0 <= Len(one)
  BY <1>1, <1>2
<1>4. /\ two \in Seq(Byte) /\ Len(two) = Len(one)
      /\ \A k \in 1..Len(one) :
            two[k] = IF k <= 0 \/ k > 0 + Len(q) THEN one[k] ELSE q[k - 0]
  BY <1>1, <1>2, <1>3, CopiedFacts
<1> HIDE DEF two
<1>5. ASSUME NEW k \in 1..Len(m) PROVE two[k] = one[k]
  <2>1. two[k] = IF k <= 0 \/ k > 0 + Len(q) THEN one[k] ELSE q[k - 0]
    BY <1>2, <1>4
  <2>2. one[k] = IF k <= 0 \/ k > 0 + Len(q) THEN m[k] ELSE q[k - 0]
    BY <1>2
  <2> QED BY <2>1, <2>2
<1>6. two \in Seq(Byte) /\ Len(two) = Len(one) /\ \A k \in 1..Len(two) : two[k] = one[k]
  BY <1>2, <1>4, <1>5
<1>7. two = one
  BY <1>2, <1>6, SeqEqual
<1> QED BY <1>2, <1>7 DEF one, two

-----------------------------------------------------------------------------
(* A step.                                                                 *)

\* What becomes of a reply: it is the answer itself, or it is read to its end.
LEMMA StepIs ==
    ASSUME IsInfo(servera2s), NEW r \in Replies, NEW l \in Leftovers, SourceReplies(r, l)
    PROVE  \E begun :
              /\ Reading(begun) /\ Ended(begun.buf)
              /\ \/ /\ Bad(begun, servera2s, r, 1, 9)
                    /\ servera2s' = begun.info
                    /\ srca2sinfo' = Copied(srca2sinfo, 0, Packet(r))
                 \/ /\ Good(begun, servera2s, r, 19, 9)
                    /\ servera2s' = Finished(begun)
                    /\ srca2sinfo' = Written(servera2s')
<1> DEFINE begun == ReadFields(Arrived(r, l, servera2s), 1, 9)
<1>1. /\ Reading(begun) /\ Ended(begun.buf)
      /\ ~Tested(begun.buf, 0).overflowed => Good(begun, servera2s, r, 19, 9)
      /\ Tested(begun.buf, 0).overflowed => Bad(begun, servera2s, r, 1, 9)
  BY BegunFacts
<1>2. begun = Begun(Packet(r), Append(l, NUL))
  BY BegunIs
<1> HIDE DEF begun
<1>3. OnReceiveSourceServerA2SInfo(Packet(r), Append(l, NUL))
  BY DEF SourceReplies
<1>4. IF Tested(begun.buf, 0).overflowed
      THEN servera2s' = begun.info /\ srca2sinfo' = Copied(srca2sinfo, 0, Packet(r))
      ELSE servera2s' = Finished(begun) /\ srca2sinfo' = Written(servera2s')
  BY <1>2, <1>3 DEF OnReceiveSourceServerA2SInfo
<1> QED BY <1>1, <1>4

\* The answer is bytes and fits.
LEMMA WrittenFacts ==
    ASSUME NEW info, IsInfo(info)
    PROVE  Written(info) \in Seq(Byte) /\ Len(Written(info)) < A2S_MAXDATASIZE
<1>1. Written(info) = OutOfBand \o Packed(info, 18)
  BY WrittenIs
<1>2. 18 \in 0..18
  OBVIOUS
<1>3. PICK p \in Seq(Byte) : p = Packed(info, 18)
  BY <1>2, PackedType
<1>4. 4 + Len(p) < A2S_MAXDATASIZE
  BY <1>2, <1>3, AnswerFits
<1>5. PICK o \in Seq(Byte) : o = OutOfBand /\ Len(o) = 4
  BY HeadersAre
<1>6. o \o p \in Seq(Byte) /\ Len(o \o p) = Len(o) + Len(p)
  BY BehindAnother
<1> QED BY <1>1, <1>3, <1>4, <1>5, <1>6

\* A reply keeps the types.
LEMMA StepTypes ==
    ASSUME InfoTypeOK, NEW r \in Replies, NEW l \in Leftovers, SourceReplies(r, l)
    PROVE  InfoTypeOK'
<1>1. /\ customname \in CustomNames /\ IsInfo(servera2s) /\ srca2sinfo \in Seq(Byte)
      /\ Len(srca2sinfo) < A2S_MAXDATASIZE
  BY DEF InfoTypeOK
<1>2. reply' = r /\ customname' = customname /\ IsInfo(r)
  BY RepliesAssumption DEF SourceReplies
<1>3. PICK begun :
         /\ Reading(begun) /\ Ended(begun.buf)
         /\ \/ /\ Bad(begun, servera2s, r, 1, 9)
               /\ servera2s' = begun.info
               /\ srca2sinfo' = Copied(srca2sinfo, 0, Packet(r))
            \/ /\ Good(begun, servera2s, r, 19, 9)
               /\ servera2s' = Finished(begun)
               /\ srca2sinfo' = Written(servera2s')
  BY <1>1, StepIs
<1>4. /\ IsInfo(servera2s') /\ srca2sinfo' \in Seq(Byte)
      /\ Len(srca2sinfo') < A2S_MAXDATASIZE
  <2>1. CASE /\ servera2s' = begun.info
             /\ srca2sinfo' = Copied(srca2sinfo, 0, Packet(r))
    <3>1. IsInfo(begun.info)
      BY <1>3, ReadingFacts
    <3>2. Packet(r) \in Seq(Byte)
      BY <1>2, PacketIs
    <3> QED BY <1>1, <2>1, <3>1, <3>2, CopiedTwice
  <2>2. CASE /\ Good(begun, servera2s, r, 19, 9)
             /\ servera2s' = Finished(begun)
             /\ srca2sinfo' = Written(servera2s')
    <3>1. IsInfo(servera2s')
      BY <1>1, <1>2, <1>3, <2>2, FinishedTexts
    <3> QED BY <2>2, <3>1, WrittenFacts
  <2> QED BY <1>3, <2>1, <2>2
<1>5. IsInfo(servera2s)'
  BY <1>4 DEF IsInfo
<1> QED BY <1>1, <1>2, <1>4, <1>5 DEF InfoTypeOK

\* The types at the start.
LEMMA InitTypes == InfoInit => InfoTypeOK
<1> SUFFICES ASSUME InfoInit PROVE InfoTypeOK
  OBVIOUS
<1>1. IsInfo(servera2s)
  BY NoInfoFacts DEF InfoInit
<1>2. <<>> \in Seq(Byte) /\ Len(<<>>) = 0
  OBVIOUS
<1>3. 0 < A2S_MAXDATASIZE
  BY RepliesAssumption
<1> QED BY <1>1, <1>2, <1>3 DEF InfoInit, InfoTypeOK

\* Every variable keeps its type: numbers keep their sizes, texts have no NUL
\* and are no longer than a datagram, and the answer fits.
THEOREM InfoTypes == InfoSpec => []InfoTypeOK
<1>1. ASSUME InfoTypeOK, [InfoNext]_infoVars PROVE InfoTypeOK'
  <2>1. CASE InfoNext
    <3>1. PICK r \in Replies, l \in Leftovers : SourceReplies(r, l)
      BY <2>1 DEF InfoNext
    <3> QED BY <1>1, <3>1, StepTypes
  <2>2. CASE UNCHANGED infoVars
    <3>1. /\ customname' = customname /\ servera2s' = servera2s
          /\ srca2sinfo' = srca2sinfo /\ reply' = reply
      BY <2>2 DEF infoVars
    <3>2. IsInfo(servera2s)'
      BY <1>1, <3>1 DEF InfoTypeOK, IsInfo
    <3> QED BY <1>1, <3>1, <3>2 DEF InfoTypeOK
  <2> QED BY <1>1, <2>1, <2>2
<1> QED BY <1>1, InitTypes, PTL DEF InfoSpec

-----------------------------------------------------------------------------
(* The texts.                                                              *)

\* A text that is too long for the reply is one that keeps it from being read.
LEMMA BlockedIs ==
    ASSUME NEW info, IsInfo(info), NEW r, IsInfo(r), NEW k \in 1..18, Blocked(info, r, k)
    PROVE  /\ Fields[k].size = 0 /\ Present(r, Fields[k])
           /\ Len(info[Fields[k].name]) > Room(r, k)
<1>1. Len(Value(info, k)) \in Nat
  BY ValueFacts
<1>2. Room(r, k) \in Int
  <2>1. k - 1 \in 0..18 /\ 18 \in 0..18
    OBVIOUS
  <2>2. Len(Packed(r, k - 1)) \in Nat /\ Len(Packed(r, 18)) \in Nat
    BY <2>1, PackedType
  <2> QED BY <2>2, RoomIs
<1>3. ~(Len(Value(info, k)) <= Room(r, k))
  BY DEF Blocked
<1>4. Len(Value(info, k)) > Room(r, k)
  BY <1>1, <1>2, <1>3
<1> QED BY <1>4 DEF Blocked, Value

\* After a reply the texts are its texts, as far as they could be read.
LEMMA StepTexts ==
    ASSUME InfoTypeOK, NEW r \in Replies, NEW l \in Leftovers, SourceReplies(r, l)
    PROVE  TextsFollowTheReply'
<1>1. customname \in CustomNames /\ IsInfo(servera2s)
  BY DEF InfoTypeOK
<1>2. reply' = r /\ customname' = customname /\ IsInfo(r)
  BY RepliesAssumption DEF SourceReplies
<1>3. PICK begun :
         /\ Reading(begun) /\ Ended(begun.buf)
         /\ \/ /\ Bad(begun, servera2s, r, 1, 9)
               /\ servera2s' = begun.info
               /\ srca2sinfo' = Copied(srca2sinfo, 0, Packet(r))
            \/ /\ Good(begun, servera2s, r, 19, 9)
               /\ servera2s' = Finished(begun)
               /\ srca2sinfo' = Written(servera2s')
  BY <1>1, StepIs
<1> DEFINE after == servera2s'
<1>4. IsInfo(after)
  <2>1. IsInfo(servera2s)'
    BY StepTypes DEF InfoTypeOK
  <2> QED BY <2>1 DEF IsInfo
<1>5. ASSUME NEW i \in 1..18, Fields[i].size = 0, Present(r, Fields[i]),
             i <= 12 \/ Has(r.edf[1], 128)
      PROVE  \/ Value(after, i) = Value(r, i)
             \/ i = 3 /\ Value(after, i) = customname
             \/ \E k \in 1..i : Blocked(after, r, k)
  <2>1. CASE Bad(begun, servera2s, r, 1, 9) /\ after = begun.info
    <3>1. 1 \in 1..18 /\ 9 \in 1..18
      OBVIOUS
    <3>2. \/ Value(begun.info, i) = Value(r, i)
          \/ \E k \in 1..i : Blocked(begun.info, r, k)
      BY <1>5, <2>1, <3>1, TextRead
    <3> QED BY <2>1, <3>2
  <2>2. CASE Good(begun, servera2s, r, 19, 9) /\ after = Finished(begun)
    <3>1. \/ Value(Finished(begun), i) = Value(r, i)
          \/ i = 3 /\ Value(Finished(begun), i) = customname
          \/ \E k \in 1..i : Blocked(Finished(begun), r, k)
      BY <1>1, <1>2, <1>3, <1>5, <2>2, FinishedTexts
    <3> QED BY <2>2, <3>1
  <2> QED BY <1>3, <2>1, <2>2
<1> HIDE DEF after
<1>6. ASSUME NEW i \in 1..18, Fields[i].size = 0, Present(r, Fields[i]),
             i <= 12 \/ Has(r.edf[1], 128)
      PROVE  \/ after[Fields[i].name] = r[Fields[i].name]
             \/ Fields[i].name = "name" /\ after.name = customname
             \/ \E k \in 1..i : /\ Fields[k].size = 0 /\ Present(r, Fields[k])
                                /\ Len(after[Fields[k].name]) > Room(r, k)
  <2>1. CASE Value(after, i) = Value(r, i)
    BY <2>1 DEF Value
  <2>2. CASE i = 3 /\ Value(after, i) = customname
    <3>1. Fields[i].name = "name"
      BY <2>2, FieldNames
    <3> QED BY <2>2, <3>1 DEF Value
  <2>3. CASE \E k \in 1..i : Blocked(after, r, k)
    <3>1. PICK k \in 1..i : Blocked(after, r, k)
      BY <2>3
    <3>2. k \in 1..18
      OBVIOUS
    <3> QED BY <1>2, <1>4, <3>1, <3>2, BlockedIs
  <2> QED BY <1>6, <1>5, <2>1, <2>2, <2>3
<1>7. DOMAIN Fields = 1..18
  BY FieldCount
<1> QED BY <1>2, <1>6, <1>7, Zenon DEF TextsFollowTheReply, TooLong, LastSure, after

\* The texts that clients see are those of the last reply, but for what an old
\* text keeps from being read: the tests of ReadString in a2s.cpp:759-841.
THEOREM TextsFollow == InfoSpec => []TextsFollowTheReply
<1>1. InfoInit => TextsFollowTheReply
  BY DEF InfoInit, TextsFollowTheReply
<1>2. ASSUME InfoTypeOK, TextsFollowTheReply, [InfoNext]_infoVars
      PROVE  TextsFollowTheReply'
  <2>1. CASE InfoNext
    <3>1. PICK r \in Replies, l \in Leftovers : SourceReplies(r, l)
      BY <2>1 DEF InfoNext
    <3> QED BY <1>2, <3>1, StepTexts
  <2>2. CASE UNCHANGED infoVars
    <3>1. customname' = customname /\ servera2s' = servera2s /\ reply' = reply
      BY <2>2 DEF infoVars
    <3> QED BY <1>2, <3>1 DEF TextsFollowTheReply, TooLong
  <2> QED BY <1>2, <2>1, <2>2
<1> QED BY <1>1, <1>2, InfoTypes, PTL DEF InfoSpec

-----------------------------------------------------------------------------
(* The answer.                                                             *)

\* After a reply the answer is what the worker has read.
LEMMA StepAnswer ==
    ASSUME InfoTypeOK, NEW r \in Replies, NEW l \in Leftovers, SourceReplies(r, l)
    PROVE  ClientsReadTheAnswer'
<1>1. customname \in CustomNames /\ IsInfo(servera2s) /\ srca2sinfo \in Seq(Byte)
  BY DEF InfoTypeOK
<1>2. reply' = r /\ IsInfo(r)
  BY RepliesAssumption DEF SourceReplies
<1>3. PICK begun :
         /\ Reading(begun) /\ Ended(begun.buf)
         /\ \/ /\ Bad(begun, servera2s, r, 1, 9)
               /\ servera2s' = begun.info
               /\ srca2sinfo' = Copied(srca2sinfo, 0, Packet(r))
            \/ /\ Good(begun, servera2s, r, 19, 9)
               /\ servera2s' = Finished(begun)
               /\ srca2sinfo' = Written(servera2s')
  BY <1>1, StepIs
<1> DEFINE after == servera2s'
           q == srca2sinfo'
<1>4. IsInfo(after)
  <2>1. IsInfo(servera2s)'
    BY StepTypes DEF InfoTypeOK
  <2> QED BY <2>1 DEF IsInfo
<1>5. CASE /\ Bad(begun, servera2s, r, 1, 9)
           /\ after = begun.info /\ q = Copied(srca2sinfo, 0, Packet(r))
  <2>1. q = Copied(q, 0, Packet(r))
    <3>1. Packet(r) \in Seq(Byte)
      BY <1>2, PacketIs
    <3> QED BY <1>1, <1>5, <3>1, CopiedTwice
  <2>2. PICK k \in 1..9 : StuckAt(begun, servera2s, r, k)
    BY <1>5 DEF Bad
  <2>3. k \in 1..18 /\ k \in k..18
    OBVIOUS
  <2>4. Blocked(after, r, k)
    BY <1>5, <2>2, <2>3 DEF StuckAt, Blocked
  <2> HIDE DEF after, q
  <2>5. /\ Fields[k].size = 0 /\ Present(r, Fields[k])
        /\ Len(after[Fields[k].name]) > Room(r, k)
    BY <1>2, <1>4, <2>3, <2>4, BlockedIs
  <2> QED BY <1>2, <2>1, <2>5, Zenon
      DEF ClientsReadTheAnswer, TooLong, LastFixed, after, q
<1>6. CASE Good(begun, servera2s, r, 19, 9) /\ q = Written(after)
  <2> DEFINE client == ReadFields([buf |-> Read(leybuf(q, Len(q)), 4).buf,
                                   info |-> NoInfo], 1, 18)
  <2>1. q = OutOfBand \o Packed(after, 18)
    BY <1>4, <1>6, WrittenIs
  <2> HIDE DEF after, q
  <2>2. /\ SubSeq(q, 1, 4) = OutOfBand
        /\ \A i \in 1..18 :
              Present(after, Fields[i]) => Value(client.info, i) = Value(after, i)
        /\ client.buf.curbyte = Len(q)
    BY <1>4, <2>1, ClientReads
  <2>3. client = ReadFields([buf |-> Read(leybuf(srca2sinfo', Len(srca2sinfo')), 4).buf,
                             info |-> NoInfo], 1, Len(Fields))
    BY FieldCount DEF q
  <2> HIDE DEF client
  <2>4. /\ SubSeq(srca2sinfo', 1, 4) = OutOfBand
        /\ \A i \in DOMAIN Fields :
              Present(servera2s', Fields[i]) =>
                 client.info[Fields[i].name] = servera2s'[Fields[i].name]
        /\ client.buf.curbyte = Len(srca2sinfo')
    BY <2>2, FieldCount DEF Value, after, q
  <2> QED BY <2>3, <2>4 DEF ClientsReadTheAnswer
<1> QED BY <1>3, <1>5, <1>6

\* A client reads in the answer what the worker has read, or the answer is the
\* reply because a text the worker had was longer than the rest of it: the
\* writes of a2s.cpp:846-923, and what comes instead at a2s.cpp:788-796.
THEOREM ClientsRead == InfoSpec => []ClientsReadTheAnswer
<1>1. InfoInit => ClientsReadTheAnswer
  BY DEF InfoInit, ClientsReadTheAnswer
<1>2. ASSUME InfoTypeOK, ClientsReadTheAnswer, [InfoNext]_infoVars
      PROVE  ClientsReadTheAnswer'
  <2>1. CASE InfoNext
    <3>1. PICK r \in Replies, l \in Leftovers : SourceReplies(r, l)
      BY <2>1 DEF InfoNext
    <3> QED BY <1>2, <3>1, StepAnswer
  <2>2. CASE UNCHANGED infoVars
    <3>1. servera2s' = servera2s /\ reply' = reply /\ srca2sinfo' = srca2sinfo
      BY <2>2 DEF infoVars
    <3> QED BY <1>2, <3>1 DEF ClientsReadTheAnswer, TooLong
  <2> QED BY <1>2, <2>1, <2>2
<1> QED BY <1>1, <1>2, InfoTypes, PTL DEF InfoSpec
=============================================================================

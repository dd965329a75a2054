---------------------------- MODULE Block1Proofs ----------------------------
(***************************************************************************)
(* Theorems about Block1, for bodies and blocks of any length and any      *)
(* number of messages: what coap_block1_handler hands on is a body as the  *)
(* server meant it, and it does not copy from the null pointer as long as  *)
(* no message is overtaken.                                                *)
(***************************************************************************)
EXTENDS Block1, WellFoundedInduction, TLAPS

\* The first k pieces of a body.
Prefix(b, k) == [i \in 1 .. k |-> Piece(b, i - 1)]

\* How many bytes they have.
PrefixSize(b, k) == IF k = Count(b) THEN b.length ELSE k * BlockSize

\* The last message of the server, and those before it: ids and numbers go together.
SenderInv ==
  /\ sender.num < Count(sender.body)
  /\ \A m \in net :
       /\ m.body = sender.body /\ m.num \in 0 .. sender.num
       /\ m.mid - m.num = sender.mid - sender.num
       /\ m.more = (m.num < Count(m.body) - 1)

\* A block has been taken in this transfer: what is there belongs to it.
Own == sender.num > 0 \/ \E a \in answers : a.code = "2.31"

\* d has k pieces of b; s is the sender.
Holds(d, s, own, b, k) ==
  /\ d.buffer = Prefix(b, k) /\ d.size = PrefixSize(b, k)
  /\ own => b = s.body /\ d.lastmid - (k - 1) = s.mid - s.num

DataInv ==
  /\ Own => data.allocated
  /\ data.allocated /\ data.buffer # Absent =>
       \E b \in Bodies : \E k \in 1 .. Count(b) : Holds(data, sender, Own, b, k)

\* An answer that lets the server go on is to a message that was not the last one.
AnswerInv ==
  \A a \in answers :
    /\ a.mid <= sender.mid
    /\ a.code = "2.31" /\ a.mid = sender.mid =>
         /\ sender.num < Count(sender.body) - 1
         /\ ~stale => data.lastmid = sender.mid

\* When no message is overtaken, a transfer that has lost its buffer goes no further.
LostInv ==
  ~stale /\ Own /\ data.buffer = Absent =>
    /\ data.size # BlockSize * sender.num
    /\ data.lastmid # sender.mid
    /\ \A a \in answers : a.mid = sender.mid => a.code # "2.31"

IInv ==
  /\ TypeOK /\ SenderInv /\ DataInv /\ AnswerInv /\ LostInv
  /\ WholeBody /\ NeverCopiesNull

-----------------------------------------------------------------------------
(* Pieces and bytes                                                        *)

\* Division with a remainder.
LEMMA Division ==
  ASSUME NEW a \in Nat, NEW d \in Nat \ {0}
  PROVE  /\ a \div d \in Nat
         /\ d * (a \div d) <= a
         /\ a < d * (a \div d) + d
OBVIOUS

\* All pieces but the last are full, and the last one is not empty.
LEMMA Counts ==
  ASSUME NEW b \in Bodies
  PROVE  /\ Count(b) \in Nat \ {0}
         /\ (Count(b) - 1) * BlockSize < b.length
         /\ b.length <= Count(b) * BlockSize
<1> DEFINE a == b.length + BlockSize - 1
<1>1. BlockSize \in Nat \ {0} /\ b.length \in Nat \ {0}  BY ConstantsAssumption
<1>2. a \in Nat  BY <1>1
<1>3. Count(b) = a \div BlockSize  BY DEF Count
<1> HIDE DEF a
<1>4. /\ Count(b) \in Nat
      /\ BlockSize * Count(b) <= a
      /\ a < BlockSize * Count(b) + BlockSize
  BY <1>1, <1>2, <1>3, Division
<1>5. BlockSize * Count(b) <= b.length + BlockSize - 1 /\ b.length <= BlockSize * Count(b)
  BY <1>1, <1>4 DEF a
<1>6. Count(b) # 0
  <2>1. BlockSize * 0 = 0  BY <1>1
  <2> QED  BY <1>1, <1>5, <2>1
<1>7. /\ Count(b) * BlockSize = BlockSize * Count(b)
      /\ (Count(b) - 1) * BlockSize = BlockSize * Count(b) - BlockSize
  BY <1>1, <1>4
<1> QED  BY <1>1, <1>4, <1>5, <1>6, <1>7

\* The order of multiples of a positive number is that of their factors.
LEMMA Multiples ==
  ASSUME NEW m \in Nat, NEW n \in Nat
  PROVE  /\ BlockSize * m \in Nat /\ BlockSize * m = m * BlockSize
         /\ m < n => m * BlockSize < n * BlockSize
         /\ m * BlockSize < n * BlockSize => m < n
         /\ (m + 1) * BlockSize = m * BlockSize + BlockSize
<1>1. BlockSize \in Nat \ {0}  BY ConstantsAssumption
<1> QED  BY <1>1

\* A prefix grows by the length of the next piece.
LEMMA Grows ==
  ASSUME NEW b \in Bodies, NEW k \in Nat, k < Count(b)
  PROVE  /\ Length(b, k) \in Nat \ {0}
         /\ PrefixSize(b, k) \in Nat
         /\ PrefixSize(b, k + 1) = k * BlockSize + Length(b, k)
<1>1. BlockSize \in Nat \ {0} /\ b.length \in Nat \ {0}  BY ConstantsAssumption
<1>2. k * BlockSize \in Nat /\ (k + 1) * BlockSize = k * BlockSize + BlockSize
  BY Multiples
<1>3. PrefixSize(b, k) = k * BlockSize  BY DEF PrefixSize
<1>4. CASE k = Count(b) - 1
  <2>1. Length(b, k) = b.length - k * BlockSize  BY <1>4 DEF Length
  <2>2. PrefixSize(b, k + 1) = b.length  BY <1>4, Counts DEF PrefixSize
  <2> QED  BY <1>1, <1>2, <1>3, <1>4, <2>1, <2>2, Counts
<1>5. CASE k # Count(b) - 1
  <2>1. Length(b, k) = BlockSize  BY <1>5 DEF Length
  <2>2. PrefixSize(b, k + 1) = (k + 1) * BlockSize  BY <1>5, Counts DEF PrefixSize
  <2> QED  BY <1>1, <1>2, <1>3, <2>1, <2>2
<1> QED  BY <1>4, <1>5

\* So the size tells which piece comes next, and a whole body has none.
LEMMA SizeTells ==
  ASSUME NEW b \in Bodies, NEW k \in 1 .. Count(b), NEW n \in Nat, n < Count(b),
         PrefixSize(b, k) = BlockSize * n
  PROVE  k = n
<1>1. Count(b) \in Nat \ {0} /\ k \in Nat /\ Count(b) - 1 \in Nat  BY Counts
<1>2. CASE k = Count(b)
  <2>1. b.length = n * BlockSize  BY <1>2, <1>1, Multiples DEF PrefixSize
  <2>2. (Count(b) - 1) * BlockSize < n * BlockSize  BY <2>1, Counts
  <2>3. Count(b) - 1 < n  BY <1>1, <2>2, Multiples
  <2> QED  BY <1>1, <2>3
<1>3. CASE k # Count(b)
  <2>1. k * BlockSize = n * BlockSize  BY <1>3, <1>1, Multiples DEF PrefixSize
  <2>2. ~(k < n) /\ ~(n < k)  BY <1>1, <2>1, Multiples
  <2> QED  BY <1>1, <2>2
<1> QED  BY <1>2, <1>3

\* Prefixes as sequences: the first, the next, and the last one.
LEMMA PrefixFacts ==
  ASSUME NEW b \in Bodies, NEW k \in Nat
  PROVE  /\ Prefix(b, k) \in Seq([body : Bodies, num : Nat])
         /\ Prefix(b, 1) = <<Piece(b, 0)>>
         /\ Prefix(b, k + 1) = Append(Prefix(b, k), Piece(b, k))
         /\ k > 0 => Prefix(b, k) # Absent
         /\ Prefix(b, Count(b)) = Whole(b)
<1>1. \A i \in 1 .. k : Piece(b, i - 1) \in [body : Bodies, num : Nat]  BY DEF Piece
<1>2. Prefix(b, k) \in Seq([body : Bodies, num : Nat]) /\ Len(Prefix(b, k)) = k
  BY <1>1 DEF Prefix
<1>3. Prefix(b, 1) = <<Piece(b, 0)>>  BY DEF Prefix
<1>4. Prefix(b, k + 1) = Append(Prefix(b, k), Piece(b, k))  BY <1>2 DEF Prefix
<1>5. k > 0 => Prefix(b, k) # Absent  BY <1>2 DEF Absent
<1>6. Prefix(b, Count(b)) = Whole(b)  BY DEF Prefix, Whole
<1> QED  BY <1>2, <1>3, <1>4, <1>5, <1>6

\* What holds at 0, and at a number when it holds at the one before, holds up to the end.
LEMMA UpTo ==
  ASSUME NEW k \in Nat, NEW S, 0 \in S,
         \A n \in 1 .. k : n - 1 \in S => n \in S
  PROVE  k \in S
<1> DEFINE R == {p \in Nat \X Nat : p[1] < p[2]}
           T == (0 .. k) \ S
<1>1. R = OpToRel(<, Nat)  BY DEF OpToRel
<1> HIDE DEF R
<1>2. IsWellFoundedOn(R, Nat)  BY <1>1, NatLessThanWellFounded
<1>3. SUFFICES ASSUME T # {} PROVE FALSE
  OBVIOUS
<1>4. PICK x \in T : \A y \in T : <<y, x>> \notin R
  <2>1. T \subseteq Nat  OBVIOUS
  <2> HIDE DEF T
  <2> QED  BY <1>2, <1>3, <2>1, WFMin
<1>5. x \in 1 .. k /\ x - 1 \in T  OBVIOUS
<1>6. <<x - 1, x>> \in R
  <2>1. x - 1 \in Nat /\ x \in Nat /\ x - 1 < x  BY <1>5
  <2> QED  BY <2>1 DEF R
<1> QED  BY <1>4, <1>5, <1>6

\* The pieces of a prefix add up to its size.
LEMMA SizeOfPrefix ==
  ASSUME NEW b \in Bodies, NEW k \in 0 .. Count(b)
  PROVE  Size(Prefix(b, k)) = PrefixSize(b, k)
<1>1. Count(b) \in Nat \ {0} /\ k \in Nat  BY Counts
<1>2. Len(Prefix(b, k)) = k /\ \A n \in 1 .. k : Prefix(b, k)[n] = Piece(b, n - 1)
  BY <1>1 DEF Prefix
<1>3. \A n \in 1 .. k : /\ Prefix(b, k)[n].body = b
                        /\ Prefix(b, k)[n].num = n - 1
  BY <1>2 DEF Piece
<1> DEFINE F(f) == [n \in 0 .. k |-> IF n = 0 THEN 0 ELSE f[n - 1] + Length(b, n - 1)]
           G(f) == [n \in 0 .. k |-> IF n = 0 THEN 0
                      ELSE f[n - 1] + Length(Prefix(b, k)[n].body, Prefix(b, k)[n].num)]
           sum == [n \in 0 .. k |-> PrefixSize(b, n)]
           total == CHOOSE f : f = G(f)
<1>4. \A n \in 1 .. k : PrefixSize(b, n) = PrefixSize(b, n - 1) + Length(b, n - 1)
  <2> TAKE n \in 1 .. k
  <2>1. n - 1 \in Nat /\ n - 1 < Count(b) /\ (n - 1) + 1 = n  BY <1>1
  <2>2. PrefixSize(b, n - 1) = (n - 1) * BlockSize  BY <1>1, <2>1 DEF PrefixSize
  <2>3. PrefixSize(b, (n - 1) + 1) = (n - 1) * BlockSize + Length(b, n - 1)
    BY <2>1, Grows
  <2> QED  BY <2>1, <2>2, <2>3
<1>5. PrefixSize(b, 0) = 0
  <2>1. 0 # Count(b) /\ BlockSize \in Nat  BY <1>1, ConstantsAssumption
  <2> QED  BY <2>1 DEF PrefixSize
<1>6. sum = G(sum)
  <2>1. \A n \in 0 .. k : sum[n] = G(sum)[n]
    <3> TAKE n \in 0 .. k
    <3>1. CASE n = 0  BY <1>5, <3>1
    <3>2. CASE n # 0
      <4>1. n \in 1 .. k /\ n - 1 \in 0 .. k  BY <1>1, <3>2
      <4>2. G(sum)[n] = PrefixSize(b, n - 1) + Length(b, n - 1)
        BY <1>3, <3>2, <4>1
      <4> QED  BY <1>4, <4>1, <4>2
    <3> QED  BY <3>1, <3>2
  <2> QED  BY <2>1
<1>7. total = G(total)
  <2> HIDE DEF G, sum
  <2> QED  BY <1>6
<1>8. Size(Prefix(b, k)) = total[k]
  BY <1>2 DEF Size
<1> HIDE DEF total
<1>9. /\ total[0] = 0
      /\ \A n \in 1 .. k : total[n] = total[n - 1] + Length(b, n - 1)
  <2>1. \A n \in 0 .. k : total[n] = G(total)[n]  BY <1>7
  <2>2. 0 \in 0 .. k  BY <1>1
  <2> QED  BY <1>1, <1>3, <2>1, <2>2
<1> DEFINE S == {n \in 0 .. k : total[n] = PrefixSize(b, n)}
<1>10. 0 \in S  BY <1>1, <1>5, <1>9
<1>11. \A n \in 1 .. k : n - 1 \in S => n \in S
  BY <1>1, <1>4, <1>9
<1>12. k \in S
  <2> HIDE DEF S
  <2> QED  BY <1>1, <1>10, <1>11, UpTo
<1> QED  BY <1>8, <1>12

-----------------------------------------------------------------------------
(* The steps                                                               *)

\* What is known of a message of this transfer.
LEMMA Messages ==
  ASSUME IInv, NEW m \in net
  PROVE  /\ m \in Message /\ m.body \in Bodies /\ m.num \in Nat /\ m.num < Count(m.body)
         /\ m.body = sender.body /\ m.num <= sender.num
         /\ m.mid \in 1 .. MaxMid /\ m.mid <= sender.mid
         /\ m.mid - m.num = sender.mid - sender.num
         /\ m.mid = sender.mid <=> m.num = sender.num
         /\ m.more <=> m.num < Count(m.body) - 1
         /\ m.num + 1 \in 1 .. Count(m.body)
<1>1. TypeOK /\ SenderInv  BY DEF IInv
<1>2. m \in Message /\ m.body \in Bodies /\ m.num \in Nat /\ m.mid \in 1 .. MaxMid
  BY <1>1 DEF TypeOK, Message
<1>3. MaxMid \in Nat /\ sender.num \in Nat /\ sender.mid \in Nat
  BY <1>1, ConstantsAssumption DEF TypeOK
<1>4. /\ m.body = sender.body /\ m.num \in 0 .. sender.num
      /\ m.mid - m.num = sender.mid - sender.num
      /\ m.more = (m.num < Count(m.body) - 1)
      /\ sender.num < Count(sender.body)
  BY <1>1 DEF SenderInv
<1>5. Count(m.body) \in Nat  BY <1>2, Counts
<1>6. m.num < Count(m.body) /\ m.num <= sender.num /\ m.num + 1 \in 1 .. Count(m.body)
  BY <1>2, <1>3, <1>4, <1>5
<1>7. m.mid <= sender.mid /\ (m.mid = sender.mid <=> m.num = sender.num)
  BY <1>2, <1>3, <1>4
<1>8. m.more <=> m.num < Count(m.body) - 1  BY <1>4
<1> QED  BY <1>2, <1>4, <1>6, <1>7, <1>8

\* How a buffer comes to hold pieces.
LEMMA HoldsRule ==
  ASSUME NEW d, NEW s, NEW own, NEW b, NEW k,
         d.buffer = Prefix(b, k), d.size = PrefixSize(b, k), b = s.body,
         d.lastmid - (k - 1) = s.mid - s.num
  PROVE  Holds(d, s, own, b, k)
BY DEF Holds

\* A block is refused, and nothing else changes.
LEMMA RefusedStep ==
  ASSUME IInv, NEW m \in net, NEW code \in Codes \ {"2.31"}, Refuse(m, code),
         UNCHANGED <<stale, sender, net>>
  PROVE  IInv'
<1>1. TypeOK /\ SenderInv /\ DataInv /\ AnswerInv /\ LostInv /\ WholeBody /\ NeverCopiesNull
  BY DEF IInv
<1>2. UNCHANGED <<stale, data, sender, net, handed, run>>  BY DEF Refuse
<1>3. answers' = answers \union {[mid |-> m.mid, code |-> code]}  BY DEF Refuse, Answer
<1>4. Own' <=> Own  BY <1>2, <1>3 DEF Own
<1>5. TypeOK'  BY <1>1, <1>2, <1>3, Messages DEF TypeOK
<1>6. SenderInv'  BY <1>1, <1>2 DEF SenderInv
<1>7. DataInv'  BY <1>1, <1>2, <1>4 DEF DataInv, Holds
<1>8. AnswerInv'  BY <1>1, <1>2, <1>3, Messages DEF AnswerInv
<1>9. LostInv'  BY <1>1, <1>2, <1>3, <1>4 DEF LostInv
<1>10. WholeBody' /\ NeverCopiesNull'  BY <1>1, <1>2 DEF WholeBody, NeverCopiesNull
<1> QED  BY <1>5, <1>6, <1>7, <1>8, <1>9, <1>10 DEF IInv

\* A block is taken, as the first or as the next one.
LEMMA TakenStep ==
  ASSUME IInv, NEW m \in net, stale \/ m.mid = sender.mid,
         data' = [allocated |-> TRUE, buffer |-> Prefix(m.body, m.num + 1),
                  size |-> PrefixSize(m.body, m.num + 1), lastmid |-> m.mid],
         Deliver(m, Prefix(m.body, m.num + 1)),
         UNCHANGED <<stale, sender, net, run>>
  PROVE  IInv'
<1>1. TypeOK /\ SenderInv /\ DataInv /\ AnswerInv /\ LostInv /\ WholeBody /\ NeverCopiesNull
  BY DEF IInv
<1> DEFINE code == IF m.more THEN "2.31" ELSE "2.04"
<1>2. answers' = answers \union {[mid |-> m.mid, code |-> code]}  BY DEF Deliver, Answer
<1>3. code \in Codes /\ (code = "2.31" => m.more)  BY DEF Codes
<1> HIDE DEF code
<1>4. /\ data'.allocated /\ data'.buffer = Prefix(m.body, m.num + 1)
      /\ data'.size = PrefixSize(m.body, m.num + 1) /\ data'.lastmid = m.mid
  OBVIOUS
<1>5. /\ Prefix(m.body, m.num + 1) \in Seq([body : Bodies, num : Nat])
      /\ Prefix(m.body, m.num + 1) # Absent
  <2>1. m.num + 1 \in Nat /\ m.num + 1 > 0 /\ m.body \in Bodies  BY Messages
  <2> QED  BY <2>1, PrefixFacts
<1>6. PrefixSize(m.body, m.num + 1) \in Nat
  <2>1. m.num * BlockSize \in Nat  BY Messages, ConstantsAssumption
  <2> QED  BY <2>1, Messages, Grows
<1>7. sender.num \in Nat /\ sender.mid \in Nat /\ MaxMid \in Nat
  BY <1>1, ConstantsAssumption DEF TypeOK
<1>8. TypeOK'
  <2>1. data' \in [allocated : BOOLEAN, buffer : Seq([body : Bodies, num : Nat]),
                   size : Nat, lastmid : 0 .. MaxMid]
    BY <1>5, <1>6, <1>7, Messages
  <2>2. answers' \subseteq [mid : 1 .. MaxMid, code : Codes]
    BY <1>1, <1>2, <1>3, Messages DEF TypeOK
  <2> QED  BY <1>1, <2>1, <2>2 DEF TypeOK
<1>9. SenderInv'  BY <1>1 DEF SenderInv
<1>10. DataInv'
  <2>1. PICK k \in 1 .. Count(m.body) : k = m.num + 1  BY Messages
  <2>2. m.body = sender'.body /\ data'.lastmid - (k - 1) = sender'.mid - sender'.num
    BY <1>4, <1>7, <2>1, Messages
  <2>3. data'.buffer = Prefix(m.body, k) /\ data'.size = PrefixSize(m.body, k)
    BY <1>4, <2>1
  <2>4. Holds(data', sender', Own', m.body, k)  BY <2>2, <2>3, HoldsRule
  <2> QED  BY <1>4, <2>1, <2>4, Messages DEF DataInv
<1>11. AnswerInv'
  <2> SUFFICES ASSUME NEW a \in answers'
               PROVE  /\ a.mid <= sender.mid
                      /\ a.code = "2.31" /\ a.mid = sender.mid =>
                           /\ sender.num < Count(sender.body) - 1
                           /\ ~stale => data'.lastmid = sender.mid
    BY DEF AnswerInv
  <2>1. CASE a \in answers  BY <1>1, <1>4, <2>1 DEF AnswerInv
  <2>2. CASE a = [mid |-> m.mid, code |-> code]  BY <1>3, <1>4, <2>2, Messages
  <2> QED  BY <1>2, <2>1, <2>2
<1>12. LostInv'  BY <1>4, <1>5 DEF LostInv
<1>13. WholeBody'
  <2>1. CASE m.more  BY <1>1, <2>1 DEF Deliver, WholeBody
  <2>2. CASE ~m.more
    <3>1. m.num + 1 = Count(m.body)  BY <2>2, Messages, Counts
    <3>2. Prefix(m.body, Count(m.body)) = Whole(m.body)
      BY Messages, PrefixFacts
    <3>3. handed' = Prefix(m.body, m.num + 1)  BY <2>2 DEF Deliver
    <3>4. handed' = Whole(m.body)  BY <3>1, <3>2, <3>3
    <3> QED  BY <3>4, Messages DEF WholeBody
  <2> QED  BY <2>1, <2>2
<1>14. NeverCopiesNull'  BY <1>1 DEF NeverCopiesNull
<1> QED  BY <1>8, <1>9, <1>10, <1>11, <1>12, <1>13, <1>14 DEF IInv

LEMMA FirstStep ==
  ASSUME IInv, NEW m \in net, stale \/ m.mid = sender.mid, First(m),
         UNCHANGED <<stale, sender, net>>
  PROVE  IInv'
<1>1. m.num = 0 /\ m.body \in Bodies  BY Messages DEF First
<1>2. CASE "data" \in Failing /\ ~data.allocated /\ Refuse(m, "5.00")
  BY <1>2, RefusedStep DEF Codes
<1>3. CASE /\ data' = [allocated |-> TRUE, buffer |-> <<Piece(m.body, 0)>>,
                      size |-> Length(m.body, 0), lastmid |-> m.mid]
           /\ Deliver(m, <<Piece(m.body, 0)>>)
           /\ UNCHANGED run
  <2>1. Prefix(m.body, m.num + 1) = <<Piece(m.body, 0)>>  BY <1>1, PrefixFacts
  <2>2. PrefixSize(m.body, m.num + 1) = Length(m.body, 0)
    <3>1. 0 * BlockSize = 0  BY ConstantsAssumption
    <3>2. PrefixSize(m.body, 0 + 1) = 0 * BlockSize + Length(m.body, 0)
          /\ Length(m.body, 0) \in Nat
      BY <1>1, Messages, Grows
    <3> QED  BY <1>1, <3>1, <3>2
  <2> QED  BY <1>3, <2>1, <2>2, TakenStep
<1> QED  BY <1>2, <1>3 DEF First

\* A block that can be appended is the next one of the body that is there.
LEMMA NextBlock ==
  ASSUME IInv, NEW m \in net, InOrder(m), data.buffer # Absent
  PROVE  /\ data.buffer = Prefix(m.body, m.num)
         /\ data.size + Length(m.body, m.num) = PrefixSize(m.body, m.num + 1)
<1>1. m.num > 0 /\ data.allocated /\ data.size = BlockSize * m.num
  BY DEF InOrder, Known
<1>2. Own
  <2>1. sender.num \in Nat  BY DEF IInv, TypeOK
  <2> QED  BY <1>1, <2>1, Messages DEF Own
<1>3. PICK b \in Bodies : \E k \in 1 .. Count(b) : Holds(data, sender, Own, b, k)
  BY <1>1 DEF IInv, DataInv
<1>4. PICK k \in 1 .. Count(b) : Holds(data, sender, Own, b, k)  BY <1>3
<1>5. b = m.body /\ data.buffer = Prefix(b, k) /\ PrefixSize(b, k) = BlockSize * m.num
  BY <1>1, <1>2, <1>4, Messages DEF Holds
<1>6. k = m.num  BY <1>5, Messages, SizeTells
<1>7. data.size = m.num * BlockSize  BY <1>1, Messages, Multiples
<1> QED  BY <1>5, <1>6, <1>7, Messages, Grows

LEMMA StoreStep ==
  ASSUME IInv, NEW m \in net, stale \/ m.mid = sender.mid, run = "up", Store(m),
         UNCHANGED <<stale, sender, net>>
  PROVE  IInv'
<1>1. InOrder(m) /\ m.num > 0 /\ data.allocated /\ data.size = BlockSize * m.num
      /\ data.lastmid # m.mid
  BY DEF Store, Fits, InOrder, Known
<1>2. CASE data.buffer = Absent
  <2>1. run' = "crashed" /\ UNCHANGED <<data, answers, handed>>  BY <1>2 DEF Store
  <2>2. stale
    <3> SUFFICES ASSUME ~stale PROVE FALSE
      OBVIOUS
    <3>1. m.mid = sender.mid /\ m.num = sender.num  BY Messages
    <3>2. Own  BY <1>1, <3>1 DEF Own
    <3> QED  BY <1>1, <1>2, <3>1, <3>2 DEF IInv, LostInv
  <2>3. TypeOK'  BY <2>1 DEF IInv, TypeOK
  <2>4. SenderInv'  BY DEF IInv, SenderInv
  <2>5. Own' <=> Own  BY <2>1 DEF Own
  <2>6. DataInv'  BY <1>2, <2>1, <2>5 DEF IInv, DataInv
  <2>7. AnswerInv'  BY <2>1 DEF IInv, AnswerInv
  <2>8. LostInv' /\ NeverCopiesNull'  BY <2>2 DEF LostInv, NeverCopiesNull
  <2>9. WholeBody'  BY <2>1 DEF IInv, WholeBody
  <2> QED  BY <2>3, <2>4, <2>6, <2>7, <2>8, <2>9 DEF IInv
<1>3. CASE data.buffer # Absent
  <2>1. /\ data' = [data EXCEPT !.buffer = Append(data.buffer, Piece(m.body, m.num)),
                                !.size = @ + Length(m.body, m.num), !.lastmid = m.mid]
        /\ Deliver(m, Append(data.buffer, Piece(m.body, m.num)))
        /\ UNCHANGED run
    BY <1>3 DEF Store
  <2>2. Append(data.buffer, Piece(m.body, m.num)) = Prefix(m.body, m.num + 1)
    BY <1>1, <1>3, NextBlock, Messages, PrefixFacts
  <2>3. data.size + Length(m.body, m.num) = PrefixSize(m.body, m.num + 1)
    BY <1>1, <1>3, NextBlock
  <2>4. data \in [allocated : BOOLEAN, buffer : Seq([body : Bodies, num : Nat]),
                  size : Nat, lastmid : 0 .. MaxMid]
    BY DEF IInv, TypeOK
  <2>5. data' = [allocated |-> TRUE, buffer |-> Prefix(m.body, m.num + 1),
                 size |-> PrefixSize(m.body, m.num + 1), lastmid |-> m.mid]
    BY <1>1, <2>1, <2>2, <2>3, <2>4
  <2> QED  BY <2>1, <2>2, <2>5, TakenStep
<1> QED  BY <1>2, <1>3

\* The buffer is lost; no message of the server fits the size that is left.
LEMMA NoMemoryStep ==
  ASSUME IInv, NEW m \in net, stale \/ m.mid = sender.mid, NoMemory(m),
         UNCHANGED <<stale, sender, net>>
  PROVE  IInv'
<1>1. TypeOK /\ SenderInv /\ DataInv /\ AnswerInv /\ LostInv /\ WholeBody /\ NeverCopiesNull
  BY DEF IInv
<1>2. /\ m.num > 0 /\ data.allocated /\ data.lastmid # m.mid
      /\ data.size = BlockSize * m.num
      /\ UNCHANGED <<handed, run>>
      /\ answers' = answers \union {[mid |-> m.mid, code |-> "5.00"]}
  BY DEF NoMemory, Fits, InOrder, Known, Answer
<1>3. /\ data'.allocated /\ data'.buffer = Absent /\ data'.lastmid = data.lastmid
      /\ data'.size = data.size + Length(m.body, m.num)
      /\ TypeOK'
  <2>1. data \in [allocated : BOOLEAN, buffer : Seq([body : Bodies, num : Nat]),
                  size : Nat, lastmid : 0 .. MaxMid]
    BY <1>1 DEF TypeOK
  <2>2. data' = [data EXCEPT !.buffer = Absent, !.size = @ + Length(m.body, m.num)]
    BY DEF NoMemory
  <2>3. Absent \in Seq([body : Bodies, num : Nat]) /\ Length(m.body, m.num) \in Nat
    BY Messages, Grows DEF Absent
  <2>4. data' \in [allocated : BOOLEAN, buffer : Seq([body : Bodies, num : Nat]),
                   size : Nat, lastmid : 0 .. MaxMid]
    <3>1. PICK s \in Nat : s = data.size + Length(m.body, m.num)  BY <2>1, <2>3
    <3>2. data' = [data EXCEPT !.buffer = Absent, !.size = s]  BY <2>2, <3>1
    <3> QED  BY <2>1, <2>3, <3>2
  <2>5. answers' \subseteq [mid : 1 .. MaxMid, code : Codes]
    BY <1>1, <1>2, Messages DEF TypeOK, Codes
  <2> QED  BY <1>1, <1>2, <2>1, <2>2, <2>4, <2>5 DEF TypeOK
<1>4. SenderInv'  BY <1>1 DEF SenderInv
<1>5. DataInv'  BY <1>3 DEF DataInv
<1>6. AnswerInv'  BY <1>1, <1>2, <1>3, Messages DEF AnswerInv
<1>7. LostInv'
  <2> SUFFICES ASSUME ~stale
               PROVE  /\ data'.size # BlockSize * sender.num
                      /\ data.lastmid # sender.mid
                      /\ \A a \in answers' : a.mid = sender.mid => a.code # "2.31"
    BY <1>3 DEF LostInv
  <2>1. m.mid = sender.mid /\ m.num = sender.num  BY Messages
  <2>2. data.size \in Nat /\ Length(m.body, m.num) \in Nat \ {0}
    <3>1. data.size \in Nat  BY <1>1 DEF TypeOK
    <3>2. Length(m.body, m.num) \in Nat \ {0}  BY Messages, Grows
    <3> QED  BY <3>1, <3>2
  <2>3. data'.size # BlockSize * sender.num  BY <1>2, <1>3, <2>1, <2>2
  <2>4. \A a \in answers : a.mid = sender.mid => a.code # "2.31"
    BY <1>1, <1>2, <2>1 DEF AnswerInv
  <2> QED  BY <1>2, <2>1, <2>3, <2>4
<1>8. WholeBody' /\ NeverCopiesNull'  BY <1>1, <1>2 DEF WholeBody, NeverCopiesNull
<1> QED  BY <1>3, <1>4, <1>5, <1>6, <1>7, <1>8 DEF IInv

\* What is there is looked at again.
LEMMA RepeatedStep ==
  ASSUME IInv, NEW m \in net, stale \/ m.mid = sender.mid, Repeated(m),
         UNCHANGED <<stale, sender, net>>
  PROVE  IInv'
<1>1. TypeOK /\ SenderInv /\ DataInv /\ AnswerInv /\ LostInv /\ WholeBody /\ NeverCopiesNull
  BY DEF IInv
<1>2. /\ m.num > 0 /\ data.allocated /\ data.lastmid = m.mid
      /\ UNCHANGED <<data, run>> /\ Deliver(m, data.buffer)
  BY DEF Repeated, Known
<1> DEFINE code == IF m.more THEN "2.31" ELSE "2.04"
<1>3. answers' = answers \union {[mid |-> m.mid, code |-> code]}
  BY <1>2 DEF Deliver, Answer
<1>4. code \in Codes /\ (code = "2.31" => m.more)  BY DEF Codes
<1> HIDE DEF code
<1>5. sender.num \in Nat  BY <1>1 DEF TypeOK
<1>6. Own /\ Own'  BY <1>2, <1>5, Messages DEF Own
<1>7. TypeOK'
  <2>1. answers' \subseteq [mid : 1 .. MaxMid, code : Codes]
    BY <1>1, <1>3, <1>4, Messages DEF TypeOK
  <2> QED  BY <1>1, <1>2, <2>1 DEF TypeOK
<1>8. SenderInv'  BY <1>1 DEF SenderInv
<1>9. DataInv'  BY <1>1, <1>2, <1>6 DEF DataInv, Holds
<1>10. AnswerInv'
  <2> SUFFICES ASSUME NEW a \in answers'
               PROVE  /\ a.mid <= sender.mid
                      /\ a.code = "2.31" /\ a.mid = sender.mid =>
                           /\ sender.num < Count(sender.body) - 1
                           /\ ~stale => data.lastmid = sender.mid
    BY <1>2 DEF AnswerInv
  <2>1. CASE a \in answers  BY <1>1, <2>1 DEF AnswerInv
  <2>2. CASE a = [mid |-> m.mid, code |-> code]  BY <1>2, <1>4, <2>2, Messages
  <2> QED  BY <1>3, <2>1, <2>2
<1>11. LostInv'
  <2> SUFFICES ASSUME ~stale, data.buffer = Absent PROVE FALSE
    BY <1>2 DEF LostInv
  <2> QED  BY <1>1, <1>2, <1>6 DEF LostInv
<1>12. WholeBody'
  <2>1. CASE m.more  BY <1>1, <1>2, <2>1 DEF Deliver, WholeBody
  <2>2. CASE ~m.more
    <3>1. handed' = data.buffer  BY <1>2, <2>2 DEF Deliver
    <3>2. CASE data.buffer = Absent  BY <3>1, <3>2 DEF WholeBody, Absent
    <3>3. CASE data.buffer # Absent
      <4>1. PICK b \in Bodies : \E k \in 1 .. Count(b) : Holds(data, sender, Own, b, k)
        BY <1>1, <1>2, <3>3 DEF DataInv
      <4>2. PICK k \in 1 .. Count(b) : Holds(data, sender, Own, b, k)  BY <4>1
      <4>3. /\ data.buffer = Prefix(b, k) /\ b = m.body
            /\ m.mid - (k - 1) = sender.mid - sender.num
        BY <1>2, <1>6, <4>2, Messages DEF Holds
      <4>4. sender.mid \in Nat  BY <1>1 DEF TypeOK
      <4>5. k - 1 = m.num  BY <1>5, <4>3, <4>4, Messages
      <4>6. k = Count(b)  BY <2>2, <4>3, <4>5, Messages, Counts
      <4> QED  BY <3>1, <4>3, <4>6, PrefixFacts DEF WholeBody
    <3> QED  BY <3>2, <3>3
  <2> QED  BY <2>1, <2>2
<1>13. NeverCopiesNull'  BY <1>1, <1>2 DEF NeverCopiesNull
<1> QED  BY <1>7, <1>8, <1>9, <1>10, <1>11, <1>12, <1>13 DEF IInv

\* The server: a new transfer has no answers yet, and goes on only after an answer that
\* lets it.
LEMMA BeginStep == ASSUME IInv, NEW b \in Bodies, Begin(b) PROVE IInv'
<1>1. TypeOK /\ WholeBody /\ NeverCopiesNull  BY DEF IInv
<1> DEFINE msg == [mid |-> sender.mid + 1, body |-> b, num |-> 0, more |-> 0 < Count(b) - 1]
<1>2. /\ sender.mid < MaxMid
      /\ sender' = [body |-> b, num |-> 0, mid |-> sender.mid + 1, state |-> "sent"]
      /\ net' = {msg} /\ answers' = {}
      /\ UNCHANGED <<stale, data, handed, run>>
  BY DEF Begin, Emit
<1>3. sender.mid \in Nat /\ MaxMid \in Nat  BY <1>1, ConstantsAssumption DEF TypeOK
<1>4. sender.mid + 1 \in 1 .. MaxMid  BY <1>2, <1>3
<1>5. msg \in Message  BY <1>4 DEF Message
<1>6. TypeOK'
  <2>1. sender' \in [body : Bodies, num : Nat, mid : 0 .. MaxMid, state : {"idle", "sent"}]
    BY <1>2, <1>3, <1>4
  <2> QED  BY <1>1, <1>2, <1>5, <2>1 DEF TypeOK
<1>7. SenderInv'
  <2>1. 0 < Count(b)  BY Counts
  <2> QED  BY <1>2, <1>3, <2>1 DEF SenderInv, Count
<1>8. ~Own'  BY <1>2 DEF Own
<1>9. DataInv'  BY <1>2, <1>8 DEF IInv, DataInv, Holds
<1>10. AnswerInv' /\ LostInv'  BY <1>2, <1>8 DEF AnswerInv, LostInv
<1>11. WholeBody' /\ NeverCopiesNull'  BY <1>1, <1>2 DEF WholeBody, NeverCopiesNull
<1> QED  BY <1>6, <1>7, <1>9, <1>10, <1>11 DEF IInv

LEMMA AnsweredStep == ASSUME IInv, Answered PROVE IInv'
<1>1. TypeOK /\ SenderInv /\ DataInv /\ AnswerInv /\ LostInv /\ WholeBody /\ NeverCopiesNull
  BY DEF IInv
<1>2. PICK a \in answers :
        /\ a.mid = sender.mid
        /\ IF a.code = "2.31" THEN Emit(sender.body, sender.num + 1)
           ELSE sender' = [sender EXCEPT !.state = "idle"] /\ UNCHANGED net
  BY DEF Answered
<1>3. UNCHANGED <<stale, data, answers, handed, run>>  BY DEF Answered
<1>4. WholeBody' /\ NeverCopiesNull'  BY <1>1, <1>3 DEF WholeBody, NeverCopiesNull
<1>5. sender.mid \in Nat /\ MaxMid \in Nat /\ sender.num \in Nat /\ sender.body \in Bodies
  BY <1>1, ConstantsAssumption DEF TypeOK
<1>6. CASE a.code # "2.31"
  <2>1. /\ sender'.body = sender.body /\ sender'.num = sender.num /\ sender'.mid = sender.mid
        /\ net' = net /\ TypeOK'
    BY <1>1, <1>2, <1>3, <1>6 DEF TypeOK
  <2>2. Own' <=> Own  BY <1>3, <2>1 DEF Own
  <2>3. SenderInv'  BY <1>1, <2>1 DEF SenderInv, Count
  <2>4. DataInv'  BY <1>1, <1>3, <2>1, <2>2 DEF DataInv, Holds
  <2>5. AnswerInv'  BY <1>1, <1>3, <2>1 DEF AnswerInv, Count
  <2>6. LostInv'  BY <1>1, <1>3, <2>1, <2>2 DEF LostInv
  <2> QED  BY <1>4, <2>1, <2>3, <2>4, <2>5, <2>6 DEF IInv
<1>7. CASE a.code = "2.31"
  <2> DEFINE n == sender.num + 1
             msg == [mid |-> sender.mid + 1, body |-> sender.body, num |-> n,
                     more |-> n < Count(sender.body) - 1]
  <2>1. /\ sender.mid < MaxMid
        /\ sender' = [body |-> sender.body, num |-> n, mid |-> sender.mid + 1, state |-> "sent"]
        /\ net' = net \union {msg}
    BY <1>2, <1>5, <1>7 DEF Emit
  <2>2. n < Count(sender.body)
    <3>1. sender.num < Count(sender.body) - 1  BY <1>1, <1>2, <1>7 DEF AnswerInv
    <3> QED  BY <1>5, <3>1, Counts
  <2>3. sender.mid + 1 \in 1 .. MaxMid /\ n \in Nat  BY <1>5, <2>1
  <2>4. msg \in Message  BY <1>5, <2>3 DEF Message
  <2>5. TypeOK'
    <3>1. sender' \in [body : Bodies, num : Nat, mid : 0 .. MaxMid, state : {"idle", "sent"}]
      BY <1>5, <2>1, <2>3
    <3> QED  BY <1>1, <1>3, <2>1, <2>4, <3>1 DEF TypeOK
  <2>6. SenderInv'
    <3>1. \A m \in net : /\ m.body = sender.body /\ m.num \in 0 .. sender.num
                         /\ m.mid \in 1 .. MaxMid /\ m.mid - m.num = sender.mid - sender.num
                         /\ m.more = (m.num < Count(m.body) - 1)
      BY <1>1, Messages DEF SenderInv
    <3>2. \A m \in net' : /\ m.body = sender.body /\ m.num \in 0 .. n
                          /\ m.mid - m.num = sender.mid + 1 - n
                          /\ m.more = (m.num < Count(m.body) - 1)
      BY <1>5, <2>1, <2>3, <3>1
    <3>3. sender'.body = sender.body /\ sender'.num = n /\ sender'.mid = sender.mid + 1
      BY <2>1
    <3>4. sender'.num < Count(sender'.body)  BY <2>2, <3>3
    <3>5. \A m \in net' : /\ m.body = sender'.body /\ m.num \in 0 .. sender'.num
                          /\ m.mid - m.num = sender'.mid - sender'.num
                          /\ m.more = (m.num < Count(m.body) - 1)
      <4>1. PICK now : now = sender'  OBVIOUS
      <4>2. now.body = sender.body /\ now.num = n /\ now.mid = sender.mid + 1
        BY <3>3, <4>1
      <4>3. now.num \in Nat /\ now.mid \in Nat  BY <2>3, <4>2
      <4>4. ASSUME NEW m \in net'
            PROVE  /\ m.body = now.body /\ m.num \in 0 .. now.num
                   /\ m.mid - m.num = now.mid - now.num
                   /\ m.more = (m.num < Count(m.body) - 1)
        <5>1. m.more = (m.num < Count(m.body) - 1)  BY <3>2
        <5>2. m.body = now.body  BY <3>2, <4>2
        <5>3. m.num \in 0 .. now.num /\ m.mid - m.num = now.mid - now.num
          <6>1. m.num \in 0 .. n /\ m.mid - m.num = sender.mid + 1 - n  BY <3>2
          <6>2. m \in Message  BY <2>5 DEF TypeOK
          <6>3. m.mid \in Nat /\ m.num \in Nat  BY <6>2, <1>5 DEF Message
          <6>4. n \in Nat /\ sender.mid \in Nat  BY <1>5, <2>3
          <6> HIDE DEF n
          <6>5. sender.mid + 1 - n = now.mid - now.num  BY ONLY <4>2, <4>3, <6>4
          <6> QED  BY ONLY <4>2, <4>3, <6>1, <6>3, <6>4, <6>5
        <5> QED  BY <5>1, <5>2, <5>3
      <4> QED  BY ONLY <4>1, <4>4
    <3>6. (\A m \in net : /\ m.body = sender.body /\ m.num \in 0 .. sender.num
                          /\ m.mid - m.num = sender.mid - sender.num
                          /\ m.more = (m.num < Count(m.body) - 1))'
      BY <3>5 DEF Count
    <3>7. (sender.num < Count(sender.body))'  BY <3>4 DEF Count
    <3> QED  BY <3>6, <3>7 DEF SenderInv
  <2>7. Own /\ Own'  BY <1>3, <1>7 DEF Own
  <2>8. sender'.mid - sender'.num = sender.mid - sender.num /\ sender'.body = sender.body
    BY <1>5, <2>1
  <2>9. DataInv'  BY <1>1, <1>3, <2>7, <2>8 DEF DataInv, Holds
  <2>10. AnswerInv'  BY <1>1, <1>3, <1>5, <2>1 DEF AnswerInv, TypeOK
  <2>11. LostInv'
    <3>1. stale \/ data.buffer # Absent  BY <1>1, <1>2, <1>7, <2>7 DEF LostInv
    <3> QED  BY <1>3, <3>1 DEF LostInv
  <2> QED  BY <1>4, <2>5, <2>6, <2>9, <2>10, <2>11 DEF IInv
<1> QED  BY <1>6, <1>7

\* Every step keeps the invariant.
LEMMA InvStep == IInv /\ [Next]_vars => IInv'
<1> SUFFICES ASSUME IInv, [Next]_vars PROVE IInv'
  OBVIOUS
<1>1. ASSUME NEW b \in Bodies, Begin(b) PROVE IInv'  BY <1>1, BeginStep
<1>2. CASE Answered  BY <1>2, AnsweredStep
<1>3. ASSUME NEW m \in net, Receive(m) PROVE IInv'
  <2>1. run = "up" /\ (stale \/ m.mid = sender.mid) /\ UNCHANGED <<stale, sender, net>>
    BY <1>3 DEF Receive
  <2>2. CASE First(m)  BY <2>1, <2>2, FirstStep
  <2>3. CASE Unknown(m)  BY <2>1, <2>3, RefusedStep DEF Unknown, Codes
  <2>4. CASE Repeated(m)  BY <2>1, <2>4, RepeatedStep
  <2>5. CASE OutOfOrder(m)  BY <2>1, <2>5, RefusedStep DEF OutOfOrder, Codes
  <2>6. CASE TooLarge(m)  BY <2>1, <2>6, RefusedStep DEF TooLarge, Codes
  <2>7. CASE NoMemory(m)  BY <2>1, <2>7, NoMemoryStep
  <2>8. CASE Store(m)  BY <2>1, <2>8, StoreStep
  <2> QED  BY <1>3, <2>2, <2>3, <2>4, <2>5, <2>6, <2>7, <2>8 DEF Receive
<1>4. CASE UNCHANGED vars
  BY <1>4 DEF vars, IInv, TypeOK, SenderInv, DataInv, Own, AnswerInv, LostInv, WholeBody,
              NeverCopiesNull, Holds
<1> QED  BY <1>1, <1>2, <1>3, <1>4 DEF Next

\* At the start no block has been taken.
LEMMA InvInit == Init => IInv
<1> SUFFICES ASSUME Init PROVE IInv
  OBVIOUS
<1>1. PICK b \in Bodies : sender = [body |-> b, num |-> 0, mid |-> 0, state |-> "idle"]
  BY ConstantsAssumption DEF Init
<1>2. MaxMid \in Nat /\ 0 < Count(b)  BY ConstantsAssumption, Counts
<1>3. Absent \in Seq([body : Bodies, num : Nat])  BY DEF Absent
<1>4. TypeOK  BY <1>1, <1>2, <1>3 DEF Init, TypeOK
<1>5. SenderInv /\ ~Own
  <2>1. sender.num = 0 /\ sender.body = b  BY <1>1
  <2>2. net = {} /\ answers = {}  BY DEF Init
  <2> QED  BY <1>2, <2>1, <2>2 DEF SenderInv, Own
<1>6. DataInv /\ AnswerInv /\ LostInv  BY <1>5 DEF Init, DataInv, AnswerInv, LostInv
<1>7. WholeBody /\ NeverCopiesNull  BY DEF Init, WholeBody, NeverCopiesNull
<1> QED  BY <1>4, <1>5, <1>6, <1>7 DEF IInv

-----------------------------------------------------------------------------
(* Theorems                                                                *)

\* block1Data, the messages and the answers are well typed.
THEOREM TypeCorrect == Spec => []TypeOK
<1>1. IInv => TypeOK  BY DEF IInv
<1> QED  BY <1>1, InvInit, InvStep, PTL DEF Spec

\* What is accumulated is the beginning of one body, in its order, and has the size that the
\* order of the next block is judged by.
THEOREM BufferStaysPrefix == Spec => []BufferIsPrefix
<1>1. IInv => BufferIsPrefix
  <2> SUFFICES ASSUME IInv, data.allocated, data.buffer # Absent
               PROVE  /\ data.size = Size(data.buffer)
                      /\ \E b \in Bodies : IsPrefix(data.buffer, Whole(b))
    BY DEF BufferIsPrefix
  <2>0. PICK b \in Bodies : \E k \in 1 .. Count(b) : Holds(data, sender, Own, b, k)
    BY DEF IInv, DataInv
  <2>1. PICK k \in 1 .. Count(b) : Holds(data, sender, Own, b, k)  BY <2>0
  <2>2. data.buffer = Prefix(b, k) /\ data.size = PrefixSize(b, k)
    BY <2>1 DEF Holds
  <2>3. Count(b) \in Nat /\ k \in 0 .. Count(b)  BY Counts
  <2>4. data.size = Size(data.buffer)  BY <2>2, <2>3, SizeOfPrefix
  <2>5. IsPrefix(Prefix(b, k), Whole(b))
    <3> DEFINE p == Prefix(b, k)
               w == Whole(b)
    <3>1. Len(p) = k /\ \A i \in 1 .. k : p[i] = Piece(b, i - 1)
      BY <2>3 DEF Prefix
    <3>2. Len(w) = Count(b) /\ \A i \in 1 .. Count(b) : w[i] = Piece(b, i - 1)
      BY <2>3 DEF Whole
    <3> HIDE DEF p, w
    <3>3. SubSeq(p, 1, k) = [i \in 1 .. k |-> p[i]]  BY <2>3, <3>1
    <3>4. SubSeq(w, 1, k) = [i \in 1 .. k |-> w[i]]  BY <2>3, <3>2
    <3>5. IsPrefix(p, w)  BY <2>3, <3>1, <3>2, <3>3, <3>4 DEF IsPrefix
    <3> QED  BY <3>5 DEF p, w
  <2> QED  BY <2>2, <2>4, <2>5
<1> QED  BY <1>1, InvInit, InvStep, PTL DEF Spec

\* handle_request gets a body as the server meant it, whatever is lost, repeated or
\* overtaken, and whatever malloc fails.
THEOREM BodyIsWhole == Spec => []WholeBody
<1>1. IInv => WholeBody  BY DEF IInv
<1> QED  BY <1>1, InvInit, InvStep, PTL DEF Spec

\* As long as no message is overtaken, coap_block1_handler does not copy from the buffer
\* that a failing malloc has left missing.
THEOREM NoNullCopy == Spec => []NeverCopiesNull
<1>1. IInv => NeverCopiesNull  BY DEF IInv
<1> QED  BY <1>1, InvInit, InvStep, PTL DEF Spec
=============================================================================
